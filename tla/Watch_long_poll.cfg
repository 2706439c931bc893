\* Two watchers with a token each, one slot: a killed watcher leaves its poll behind, and
\* each finds the slot taken by the other or by its own past.
CONSTANTS
  w1 = w1
  w2 = w2
  t1 = t1
  t2 = t2
  Request = {q1, q2}
  Token = {t1, t2}
  Kind = {unread}
  MaxWaiters = 1
  MaxPerToken = 1
  Window = 1
  MaxCount = 2
  Watcher = {w1, w2}
  TokenOf <- MCTwoTokens
SPECIFICATION FairSpec
CHECK_DEADLOCK FALSE
INVARIANTS SlotsAreHeldRequests SessionKnowsWhatWasSeen
PROPERTIES SlotsComeBack WhatStaysIsReported

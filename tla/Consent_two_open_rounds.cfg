\* Two rounds open on one key at once.
CONSTANTS
  Role = {a, b}
  k1 = k1
  t1 = t1
  t2 = t2
  Key = {k1}
  Reserved = {k1}
  NoKey = NoKey
  Text = {t1, t2}
  NamedIn <- MCNamedIn
  Drafts <- LinkedOnly
  Decision = {"agree", "void"}
  Hosted = TRUE
  MaxMsg = 2
  MaxTime = 3
  MaxPin = 2
SPECIFICATION Spec
CHECK_DEADLOCK FALSE
INVARIANT OneOpenRoundPerKey

\* One session; the channel may not answer and the snapshot may not be written.
CONSTANTS
  Session = {s1}
  Counter = {c1, c2}
  MaxCount = 2
  MaxTurns = 2
  MAX_BLOCKS_PER_STOP = 3
  AskingMayFail = TRUE
  FileMayFail = TRUE
SPECIFICATION FairSpec
CHECK_DEADLOCK FALSE
INVARIANTS AtMostThreeBlocks
PROPERTIES NewsIsNotPassedOver TurnEnds

\* One round of three roles on a key that is not reserved, free writes included.
CONSTANTS
  Role = {a, b, c}
  k1 = k1
  t1 = t1
  t2 = t2
  Key = {k1}
  Reserved = {}
  NoKey = NoKey
  Text = {t1, t2}
  NamedIn <- MCNamedIn
  Drafts <- LinkedOrUnlinked
  Decision = {"agree", "reject"}
  Hosted = TRUE
  MaxMsg = 1
  MaxTime = 2
  MaxPin = 3
SPECIFICATION Spec
SYMMETRY Symmetry
CHECK_DEADLOCK FALSE
INVARIANTS ContractStaysContract VoterIsAsked

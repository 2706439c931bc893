\* Two rounds on one reserved key, of two roles.
CONSTANTS
  Role = {a, b}
  k1 = k1
  t1 = t1
  t2 = t2
  Key = {k1}
  Reserved = {k1}
  NoKey = NoKey
  Text = {t1, t2}
  NamedIn <- MCNamedIn
  Drafts <- LinkedOnly
  Decision = {"agree", "void"}
  Hosted = TRUE
  MaxMsg = 2
  MaxTime = 3
  MaxPin = 2
SPECIFICATION Spec
SYMMETRY Symmetry
CHECK_DEADLOCK FALSE
INVARIANTS FreshMeansCurrentText SecondRoundOnlyOverADeadOne
PROPERTIES ApprovedTextFrozen PinsAreAgreed

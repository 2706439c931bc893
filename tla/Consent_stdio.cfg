\* Stdio mode, two roles: three proposals or messages about one another, linked to the
\* key or only mentioning it.
CONSTANTS
  Role = {a, b}
  k1 = k1
  t1 = t1
  t2 = t2
  Key = {k1}
  Reserved = {k1}
  NoKey = NoKey
  Text = {t1}
  NamedIn <- MCOneText
  Drafts <- AnyShape
  Decision = {"agree"}
  Hosted = FALSE
  MaxMsg = 3
  MaxTime = 1
  MaxPin = 1
SPECIFICATION Spec
SYMMETRY Symmetry
CHECK_DEADLOCK FALSE
INVARIANTS ApprovalsStand
PROPERTIES PinsAreAgreed SettlingRetiresNudges

\* Two keys, two proposals: linked to one key, or mentioning both and citing the first.
CONSTANTS
  Role = {a, b}
  k1 = k1
  k2 = k2
  t = t
  Key = {k1, k2}
  Reserved = {}
  NoKey = NoKey
  Text = {t}
  NamedIn <- MCNamedIn
  CitedIn <- MCCitedIn
  Drafts <- MCDrafts
  Decision = {}
  Hosted = TRUE
  MaxMsg = 2
  MaxTime = 2
  MaxPin = 2
  MaxEvents = 1
SPECIFICATION CleanSpec
SYMMETRY Symmetry
CHECK_DEADLOCK FALSE
INVARIANT LiveRetirementsStay
PROPERTIES RetiredUnderEveryClaim LiveRoundsSurvive ApprovalRecordsStay

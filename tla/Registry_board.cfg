\* Two callers at a time, a channel of two founders and room for a third role.
CONSTANTS
  r1 = r1
  r2 = r2
  r3 = r3
  Role = {r1, r2, r3}
  Founders = {r1, r2}
  NoRole = NoRole
  Caller = {c1, c2}
  MaxRoles = 3
  KeyCap = 2
  KeyTTL = 2
  NonceTTL = 1
  SessionTTL = 2
  MaxTime = 2
  MaxToken = 5
  MaxCall = 4
SPECIFICATION Spec
SYMMETRY Symmetry
CHECK_DEADLOCK FALSE
INVARIANTS RolesHoldOneToken LeakedTokenOpensNothing OneSessionPerLink
PROPERTIES CapTakesTheOldest PurgeSparesTheLive CallsActAtOnce

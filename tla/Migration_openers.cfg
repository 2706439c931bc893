\* Three openers of two builds, and a release that stamps checksums.
CONSTANTS
  p1 = p1
  p2 = p2
  p3 = p3
  Opener = {p1, p2, p3}
  Build <- MCBuild
  Statements = 2
  Nobody = Nobody
  MaxOpens = 4
SPECIFICATION Spec
CHECK_DEADLOCK FALSE
INVARIANTS StampIsHonest OpenedIsMigrated
PROPERTIES NeverDowngraded

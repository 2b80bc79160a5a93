SPECIFICATION Spec
CONSTANTS
  u1 = u1
  u2 = u2
  c1 = c1
  c2 = c2
  Users <- TwoUsers
  Coros <- TwoCoros
  Limits <- TwoSettings
  Cooldown = 1
  MaxPunished = 0
  MaxTime = 1
  MaxCases = 2
  MaxFailures = 1
SYMMETRY Symmetry
INVARIANTS
  EnoughWarningsBan
  SanctionsRecorded
PROPERTIES
  RemovalEarned
  FloodWarnsOnce
CHECK_DEADLOCK FALSE

SPECIFICATION Spec
CONSTANTS
  u1 = u1
  u2 = u2
  m1 = m1
  m2 = m2
  NotBanned = NotBanned
  Never = Never
  Users <- OneUser
  Mods <- OneMod
  MaxTime = 2
  MaxCases = 3
  MaxFailures = 0
PROPERTIES
  LiftsOnlyElapsed

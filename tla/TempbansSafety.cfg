SPECIFICATION FairSpec
CONSTANTS
  u1 = u1
  u2 = u2
  m1 = m1
  m2 = m2
  NotBanned = NotBanned
  Never = Never
  Users <- OneUser
  Mods <- TwoMods
  MaxTime = 1
  MaxCases = 3
  MaxFailures = 1
INVARIANTS
  RecordedBanTracked
  UnbanRetiresAll
PROPERTIES
  FreshBansRespected
  DueCaseRetired

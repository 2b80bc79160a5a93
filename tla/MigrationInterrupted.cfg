SPECIFICATION FairSpec
CONSTANTS
  g1 = g1
  g2 = g2
  u1 = u1
  u2 = u2
  Guilds <- TwoGuilds
  Users <- TwoUsers
  Columns = 2
  MaxRows = 2
  MaxFaults = 1
PROPERTIES
  MigratesItself
CHECK_DEADLOCK FALSE

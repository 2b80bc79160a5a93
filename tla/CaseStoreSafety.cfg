SPECIFICATION Spec
CONSTANTS
  c1 = c1
  c2 = c2
  c3 = c3
  g1 = g1
  u1 = u1
  u2 = u2
  Clients <- ThreeClients
  Guilds <- OneGuild
  Users <- OneUser
  Never = Never
  Free = Free
  MaxCases = 2
  MaxTime = 1
SYMMETRY ClientSymmetry
INVARIANTS
  OneTransaction
  NumbersContiguous
  TotalStillTrue
  CreatedInOrder
  WritersServed
PROPERTY
  ImplementsLedger

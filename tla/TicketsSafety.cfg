SPECIFICATION Spec
CONSTANTS
  k1 = k1
  k2 = k2
  k3 = k3
  r1 = r1
  t1 = t1
  t2 = t2
  l1 = l1
  l2 = l2
  l3 = l3
  m1 = m1
  None = None
  Users <- OneUser
  Channels <- TwoChannels
  Clicks <- ThreeClicks
  Closers <- OneCloser
  Mixes <- OpeningOrClosing
  Locks <- ThreeLocks
SYMMETRY Symmetry
INVARIANTS
  OneOpenTicketPerUser
  WaitersServed
  BotKeepsOpenTickets
  TranscriptBeforeDelete
  NoStrayChannels
PROPERTY
  ClosedForAReason

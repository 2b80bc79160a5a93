SPECIFICATION FairSpec
CONSTANTS
  m1 = m1
  m2 = m2
  m3 = m3
  opener = opener
  guest = guest
  everyone = everyone
  timer = timer
  none = none
  OnTimeout = timer
  Nothing = none
  MaxPending = 3
  Members <- ThreeMembers
  Sizes <- TwoSizes
  MaxCases = 4
  PerPage = 2
  Title = 1
  Budget = 4
  Limit = 5
  Mods <- TwoMods
  Guests <- TwoGuests
  Opener = opener
  Everyone = everyone
  MaxEdits = 1
  Delays <- ThreeDelays
  MaxDelay = 1
INVARIANTS
  OneOutcome
  EveryCaseReachable
PROPERTIES
  OthersPreserved
  RoundEnds

SPECIFICATION Spec
CONSTANTS
  w1 = w1
  w2 = w2
  ch1 = ch1
  c1 = c1
  c2 = c2
  c3 = c3
  Free = Free
  NotCached = NotCached
  Unset = Unset
  Absent = Absent
  Words <- TwoWords
  Channels <- OneChannel
  MaxThreshold = 2
  Coros <- ThreeCoros
  Mixes <- ThreeOrOneOfEach
SYMMETRY Symmetry
INVARIANTS
  FilterCurrent
  ThresholdsOrdered
  CacheFresh
PROPERTIES
  AllOrNothing

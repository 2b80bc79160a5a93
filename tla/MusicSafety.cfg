SPECIFICATION MusicSpec
CONSTANTS
  t1 = t1
  t2 = t2
  t3 = t3
  s1 = s1
  s2 = s2
  None = None
  Tracks <- ThreeTracks
  Stoppers <- TwoStoppers
  MaxQueue = 2
SYMMETRY Symmetry
INVARIANTS
  AcceptedIsKept
  AdvanceComes
  NoOrphanAudio
PROPERTY KeepsOrder
CHECK_DEADLOCK FALSE

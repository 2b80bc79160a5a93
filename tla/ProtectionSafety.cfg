SPECIFICATION Spec
CONSTANTS
  m1 = m1
  m2 = m2
  m3 = m3
  hello = hello
  blank = blank
  Members <- ThreeMembers
  Texts <- TwoTexts
  Blank = blank
  MessageLimit = 3
  FloodWindow = 1
  DuplicateLimit = 2
  WindowFactor = 2
  HistoryPerMember = 3
  MaxTracked = 2
  Thresholds <- TwoOrThree
  JoinWindow = 1
  AlertCooldown = 2
  MaxTrackedJoins = 3
  MaxTime = 3
  MaxEvents = 5
SYMMETRY Symmetry
INVARIANTS
  TypeOK
  JudgedByHistory
  AlertsSpaced
PROPERTIES
  SpikeReported
CHECK_DEADLOCK FALSE

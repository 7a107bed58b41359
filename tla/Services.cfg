CONSTANTS
  FrameSync = {TRUE, FALSE}
  ServerTimeMonotonic = TRUE
  SyncValues = {3, 4, 8, 12, 16}
  MaxFrameId = 14
  Parts = {p1, p2}
  Flips = {FALSE}
  FreshAges = {0, 1, 2, 3, 4}
  Presentation = TRUE
  Uncovering = FALSE
  Exposures = FALSE
  Windows = {w1}
  propertyA = propertyA
  propertyB = propertyB
  Properties = {propertyA, propertyB}
  Plain = {propertyA}
  Length = 3
  Size = 2
  Targets = {"text", "TARGETS"}
  Multiples <- BothTexts
  Impatient = TRUE
  Ownerships = TRUE
  PipeFailures = TRUE
  Timeouts = TRUE
  MaxRequests = 3
  MaxPairs = 3
  MaxEvents = 2
  Surfaces = {"s1"}
  Toplevels = {"t1"}
  XdndVersion <- Versions
  SourceActions = {"copy"}
  Preferred = {"copy"}
  Overlap = FALSE
  SourcesDie = FALSE
  LateAnswers = FALSE
  SelectionFails = TRUE
  MaxDrags = 2
  MaxMoves = 2
  Children = {"c1", "c2"}
  OfferVersion <- ClientVersions
  Actions = {"copy"}
  StaleDestroys = FALSE
  MaxSessions = 2
  MaxPositions = 3
  MaxReplies = 1
SPECIFICATION ServicesSpec
CHECK_DEADLOCK FALSE
INVARIANTS
  ServicesTypeOK
  FrozenForCurrentValue
  ConsistentClock
  WindowCurrent
  TransfersCounted
  RequestsServed
  DataIntact
  TransfersSound
  DragSound
  TargetAnswers
  CacheCurrent
PROPERTY CounterProtocol

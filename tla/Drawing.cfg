CONSTANTS
  Parts = {p1, p2}
  Flips = {FALSE}
  FreshAges = {2}
  Presentation = TRUE
  Uncovering = TRUE
  Exposures = TRUE
  Surfaces = {r, a, b}
  Root = r
  window = window
  none = none
  SelfPlacement = FALSE
  OrphanRequests = FALSE
  Attachments <- SubsurfacesUnmap
  Movers = {a}
  Mortal = {r, a, b}
  MaxActions = 2
SPECIFICATION DrawingSpec
CHECK_DEADLOCK FALSE
SYMMETRY PartsSymmetry
VIEW ActiveOnly
INVARIANTS
  ConsistentTarget
  PickedNotBusy
  FenceWillTrigger
  NotReadWhenDrawn
  ViewsTypeOK
  ViewsConsistent
PROPERTY StackedAsAsked

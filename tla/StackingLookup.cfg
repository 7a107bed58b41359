CONSTANTS
  Surfaces = {r, a, b}
  Root = r
  window = window
  none = none
  SelfPlacement = FALSE
  OrphanRequests = FALSE
  Attachments <- SubsurfacesUnmap
  Movers = {}
  Mortal = {}
  MaxActions = 0
SPECIFICATION Spec
CHECK_DEADLOCK FALSE
INVARIANTS
  LookupFindsDrawn

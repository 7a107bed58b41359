CONSTANTS
  FrameSync = {TRUE}
  ServerTimeMonotonic = TRUE
  DesyncChildren = FALSE
  TearingHints = {FALSE}
  BatchStateChanges = FALSE
  InteractiveResize = FALSE
  CommitKinds = {"callback","content","fitting","larger"}
  Exposures = {"view"}
  WmResizes = TRUE
  MaxFrameId = 6
  MaxEvents = 3
SPECIFICATION Spec
CHECK_DEADLOCK FALSE
PROPERTIES
  ScheduledUpdateRuns

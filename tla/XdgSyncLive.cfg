CONSTANTS
  FrameSync = {TRUE, FALSE}
  ServerTimeMonotonic = TRUE
  DesyncChildren = FALSE
  TearingHints = {TRUE, FALSE}
  BatchStateChanges = FALSE
  InteractiveResize = FALSE
  CommitKinds = {"callback", "content", "fitting", "larger", "null"}
  Exposures = {"view"}
  WmResizes = TRUE
  MaxFrameId = 4
  MaxEvents = 2
SPECIFICATION FairSpec
CHECK_DEADLOCK FALSE
INVARIANT FrameNotified
PROPERTIES
  CallbacksRun

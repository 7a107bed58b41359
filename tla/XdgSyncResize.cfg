CONSTANTS
  FrameSync = {TRUE}
  ServerTimeMonotonic = TRUE
  DesyncChildren = TRUE
  TearingHints = {FALSE}
  BatchStateChanges = TRUE
  InteractiveResize = TRUE
  CommitKinds = {"callback", "fitting", "larger"}
  Exposures = {"view"}
  WmResizes = TRUE
  MaxFrameId = 4
  MaxEvents = 3
SPECIFICATION Spec
CHECK_DEADLOCK FALSE
INVARIANTS
  TypeOK
  NoAbort
  AckPossible
  OpenFrameWillEnd
PROPERTIES
  NoFrameWhileUnacked
  CommitUnfreezes

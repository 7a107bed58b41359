CONSTANTS
  Parts = {p1, p2}
  Flips = {TRUE,FALSE}
  FreshAges = {0,1,2,3,4}
  Presentation = FALSE
  Uncovering = FALSE
  Exposures = FALSE
SPECIFICATION BuffersSpec
CHECK_DEADLOCK FALSE
INVARIANTS
  WindowCurrent

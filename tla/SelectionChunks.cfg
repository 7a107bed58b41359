CONSTANTS
  Windows = {w1}
  propertyA = propertyA
  propertyB = propertyB
  Properties = {propertyA, propertyB}
  Plain = {propertyA}
  Length = 3
  Size = 2
  Targets = {"text"}
  Multiples <- BothTexts
  Impatient = FALSE
  Ownerships = FALSE
  PipeFailures = FALSE
  Timeouts = FALSE
  MaxRequests = 1
  MaxPairs = 2
  MaxEvents = 2
SPECIFICATION Spec
CHECK_DEADLOCK FALSE
INVARIANTS
  Intact

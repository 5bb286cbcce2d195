CONSTANTS
  Ride = {r1, r2}
  Driver = {d1}
  None = None
  Node = {n1}
  Rings = 1
  HasQueue = FALSE
  ClockAhead = FALSE
  MaxFaults = 0
  MaxChurn = 0
SPECIFICATION FairCoordSpec
CONSTRAINT NoProgress
PROPERTY SearchEnds
CHECK_DEADLOCK FALSE

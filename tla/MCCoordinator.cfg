CONSTANTS
  Ride = {r1}
  Driver = {d1, d2}
  None = None
  Node = {n1}
  Rings = 2
  HasQueue = TRUE
  ClockAhead = TRUE
  MaxFaults = 1
  MaxChurn = 1
CONSTRAINT SmallWorld
SPECIFICATION FairCoordSpec
INVARIANTS
  CoordTypeOK
  NoLosingSnapshot
PROPERTIES
  AnnouncedToHolder
  OffersEndForCause
  SearchEnds
CHECK_DEADLOCK FALSE

CONSTANTS
  Part = {"ownership", "notices", "tracking", "devices", "support"}
  Processes = {p, q}
  MaxFaults = 2
  MaxSignals = 2
  NoProcess = NoProcess
  Caller = {x1, x2}
  Nothing = Nothing
SPECIFICATION DeliverySpec
INVARIANTS
  DeliveryTypeOK
  DeliveryIsSound
  OverlapIsBlind
PROPERTIES
  DeliveryStepsHold
  DeliveryEnds
CHECK_DEADLOCK FALSE

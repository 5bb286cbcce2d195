CONSTANTS
  Ride = {r1}
  Driver = {d1}
  None = None
  Session = {s1, s2}
  Request = {"accept", "offer", "cancel", "progress", "pin"}
SPECIFICATION TxnSpec
SYMMETRY Symmetry
INVARIANT PinNeverInCycle
CHECK_DEADLOCK FALSE

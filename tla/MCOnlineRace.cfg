CONSTANTS
  Ride = {r1}
  Driver = {d1}
  None = None
  Session = {s1, s2}
  Request = {"accept", "offer", "fix", "lost", "online"}
SPECIFICATION TxnSpec
SYMMETRY Symmetry
INVARIANT AvailableIsFree
CHECK_DEADLOCK FALSE

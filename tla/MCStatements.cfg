CONSTANTS
  Ride = {r1, r2}
  Driver = {d1, d2}
  None = None
  Session = {s1, s2}
  Request = {"accept", "offer", "reject", "time_out", "reconcile", "cancel", "progress", "pin",
             "complete", "fail", "fix", "lost", "offline", "online"}
SPECIFICATION TxnSpec
CONSTRAINT SmallWorld
SYMMETRY Symmetry
INVARIANTS
  TxnTypeOK
  CommittedAgree
PROPERTY KeepsContract
CHECK_DEADLOCK FALSE

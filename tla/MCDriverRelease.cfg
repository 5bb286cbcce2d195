CONSTANTS
  Ride = {r1}
  Driver = {d1}
  None = None
SPECIFICATION Spec
INVARIANT DriverOfTripReleasable
CHECK_DEADLOCK FALSE

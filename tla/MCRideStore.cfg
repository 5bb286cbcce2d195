CONSTANTS
  Ride = {r1, r2}
  Driver = {d1, d2}
  None = None
SPECIFICATION Spec
CONSTRAINT OneDriverOut
SYMMETRY Symmetry
INVARIANTS
  TypeOK
  RowsAgree
  OneRidePerDriver
  AvailabilityIsTrue
PROPERTY ImplementsContract
CHECK_DEADLOCK FALSE

CONSTANTS
  Part = {"rentals", "payments", "wallet", "settlements", "fares", "coupons", "bookings",
          "navigation", "maps"}
  Caller = {c1, c2}
  Name = {n1, n2}
  Ride = {"ride"}
  Payment = {n1, n2}
  Asker = {c1, c2}
  Amount = 2
  Nil = Nil
  Holder = {1, 2}
  TopUp = {n1, n2}
  WalletPayment = {"payment"}
  TransferKey = {"key"}
  Session = {c1, c2}
  Cost = 2
  NoSession = NoSession
  Settler = {c1, c2}
  PayoutKey = {n1, n2}
  PostKey = {"ride", "bonus"}
  PayoutAmount = {1, 2}
  Posting <- SomePostings
  Destination = {"here", "there"}
  MaxEdits = 1
  NoPayout = NoPayout
  Amounts = {1550}
  Rates = {333}
  References <- SomeReferences
  HourlyFare <- HourlyFares
  Slabs <- TwoSlabs
  LowCount = 2
  HighCount = 5
  Counts = {3, 6}
  Distances = {14999, 15000}
  Hours = {13}
  MaxSaves = 1
  NoReference = Nothing
  NoQuote = Nothing
  NoRide = Nothing
  User = {u1, u2}
  Key = {k1}
  Call = {c1, c2}
  Operator = {o1}
  v1 = v1
  Terms <- SomeTerms
  Nothing = Nothing
  None = None
SPECIFICATION TripsSpec
CONSTRAINT SmallWorld
SYMMETRY Symmetry
INVARIANTS
  TripsTypeOK
  VehiclePromisedOnce
  PaymentsAgree
  WalletsAgree
  FaresAddUp
  TripsAreSound
PROPERTIES
  ContractsAreKept
  TripStepsHold
CHECK_DEADLOCK FALSE

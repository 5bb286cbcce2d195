CONSTANTS
  Part = {"profiles", "sessions", "codes", "deletion", "enrolment", "grants"}
  Caller = {x1, x2}
  Name = {n1, n2}
  User = {u1, u2}
  Contact = {p1, p2, p3}
  Address = {h1, h2}
  Preference = {push, mail}
  Settler = {u1}
  Job = {x1, x2}
  Customers = {c1}
  RideDrivers = {d1}
  Admins = {a1}
  Boss = boss
  Granted = {a1}
  Rides = {r1}
  Workers = {x1, x2}
  Nobody = Nobody
  MaxCrashes = 1
  MaxDeletions = 2
  None = None
  Recipient = {phone}
  Mail = {n1, n2}
  MaxAttempts = 2
  MaxCodes = 2
  NoRow = NoRow
  Principal = {c1}
  Token = {1, 2, 3}
  Family = {n1, n2}
  Request = {x1, x2}
  Nil = Nil
  Fleets = {n1, n2}
  Drivers = {d1}
  ContactOf <- SomeContact
  Invitations = {1, 2}
  NoOne = NoOne
SPECIFICATION AccountsSpec
CONSTRAINT SmallWorld
SYMMETRY Symmetry
INVARIANTS
  AccountsTypeOK
  SessionsAreSound
  CodesAreSound
  DeletionIsClean
  WriterIsTheManager
  ProfilesAreSound
PROPERTY AccountStepsHold
CHECK_DEADLOCK FALSE

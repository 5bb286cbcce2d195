CONSTANTS
  Part = {"codes", "approvals", "fleet", "files", "applications"}
  Clients = {p, q}
  Vehicles = {v1, v2}
  Drivers = {d1, d2}
  d1 = d1
  d2 = d2
  v1 = v1
  v2 = v2
  fleet = fleet
  Nothing = Nothing
  Docs = {"licence"}
  Licence = "licence"
  Reviewers = {"admin"}
  MaxContent = 2
  None = None
  Crew = {d1, d2}
  Cars = {v1, v2}
  Connections = {p, q}
  OwnerOf <- SomeOwner
  FirstOf <- SomeFirst
  FleetOwner = fleet
  NoLink = NoLink
  Requests = {p, q}
  MaxFiles = 3
  MaxVersion = 2
  NoDocument = Nothing
  NoCall = Nothing
SPECIFICATION ProvidersSpec
CONSTRAINT SmallWorld
SYMMETRY Symmetry
INVARIANTS
  ProvidersTypeOK
  ReviewsAreSound
  FleetIsSound
  FilesAreSound
PROPERTIES
  ElectionAndReservationHold
  ProviderStepsHold
CHECK_DEADLOCK FALSE

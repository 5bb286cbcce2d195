------------------------------- MODULE MCTrips -------------------------------
(***************************************************************************)
(* TLC instance of what a customer and a provider do around a trip: rent,  *)
(* pay, top up, book with a price, redeem a coupon, be driven, be paid     *)
(* out.  The components share no row with each other here, so a behaviour  *)
(* is of the one component it chooses as its subject, and the others stay  *)
(* in one initial state.                                                   *)
(***************************************************************************)
EXTENDS Rentals, Payments, Wallet, Settlements, Fares, TLC

CONSTANTS
  Part,             \* the components checked
  Caller, Name,     \* requests, and rows or keys; symmetric
  v1, Nothing

VARIABLES
  subject,
  coupon, redemptions, redeeming, editing,
  entry, rides, bookingCall, form,
  durable, tripRide, meta, memo, pin, work, clock, asked, missed,
  kind, flight, callers, cached, mapLock, avoids, answers, tokens, failures, expiries

couponVars == <<coupon, redemptions, redeeming, editing>>
bookingVars == <<entry, rides, bookingCall, form>>
drivingVars == <<durable, tripRide, meta, memo, pin, work, clock, asked, missed>>
mapVars == <<kind, flight, callers, cached, mapLock, avoids, answers, tokens, failures, expiries>>
tripsVars == <<subject, rentalVars, paymentVars, walletVars, settlementsVars, fareVars, couponVars,
               bookingVars, drivingVars, mapVars>>

\* Two requests that share an hour of one vehicle, one that shares none.
SomeTerms == {[vehicle |-> v1, hours |-> {1, 2}, amount |-> 1],
              [vehicle |-> v1, hours |-> {2, 3}, amount |-> 1],
              [vehicle |-> v1, hours |-> {3}, amount |-> 2]}

\* Ranges with and without a maximum, of odd amounts.
RefDemand == [baseMin |-> 1550, baseMax |-> 2049, rateMin |-> 333, rateMax |-> 801,
              routed |-> FALSE, demand |-> TRUE]
SomeReferences ==
  {RefDemand, [RefDemand EXCEPT !.baseMax = -1], [RefDemand EXCEPT !.demand = FALSE],
   [RefDemand EXCEPT !.baseMin = -1, !.routed = TRUE], [RefDemand EXCEPT !.baseMax = 1549]}
HourlyFares == [b \in 1..13 |-> 9990 * b + 7]
TwoSlabs == [below |-> [base |-> 20000, rate |-> 1555], from |-> [base |-> 23550, rate |-> 1500]]

\* Earnings of one rupee and a half and a commission of half a rupee.
SomePostings == {3, -1}

Coupon == INSTANCE Coupons WITH
  User <- {"u1", "u2"}, Redeemer <- {"r1", "r2", "r3"}, Manager <- {"a1"}, UsageLimit <- 2,
  PerUserLimit <- 1, Fares <- {3, 50}, MinFare <- 5, Percentage <- 15, MaxDiscount <- 7, MaxStamp <- 4,
  NoUse <- None
Booking == INSTANCE Bookings WITH
  Call <- Caller, Key <- {"key"}, Body <- Name, Editor <- {"a1", "a2"}, MaxVersion <- 2,
  call <- bookingCall
Driving == INSTANCE Navigation WITH
  Gps <- {1, 2}, Page <- {Nothing}, MinReroute <- 1, PinAttempts <- 2, MaxTime <- 1, MaxRoutes <- 1,
  Unset <- None, ride <- tripRide, paid <- asked
Map == INSTANCE MapRequests WITH
  Services <- {"s", "t"}, Kinds <- {"route", "geocode"}, ProviderIsGoogle <- TRUE,
  ContentCaching <- FALSE, MaxRetries <- 1, MaxAnswers <- 2, MaxTokens <- 2, MaxFaults <- 1,
  MaxCallers <- 2, lock <- mapLock

ASSUME TripsAssumption ==
  /\ Coupon!CouponsAssumption /\ Booking!BookingsAssumption /\ Driving!NavigationAssumption
  /\ Map!MapAssumption

(* What the components that are not the subject start with.                *)
Pinned ==
  /\ subject # "payments" => planned = {}
  /\ subject # "wallet" => owner = [x \in Name \cup WalletPayment |-> 1]
  /\ subject # "settlements" => bank = [to |-> "here", verified |-> FALSE]
  /\ subject # "fares" =>
       /\ trip = [sector |-> "service", metres |-> 14999, hours |-> Null, oneWay |-> TRUE]
       /\ tariff = CHOOSE t \in StorableTariffs : t.sector = "service" /\ ~t.active
  /\ subject # "bookings" => entry = [version |-> 1, active |-> TRUE]
  /\ subject # "navigation" => durable = TRUE
  /\ subject # "maps" => kind = "route" /\ cached = Map!NoEntry

TripsInit ==
  /\ subject \in Part
  /\ Pinned
  /\ RentalsInit /\ PaymentsInit /\ WalletInit /\ SettlementsInit
  /\ FaresInit /\ Coupon!CouponsInit /\ Booking!BookingsInit
  /\ Driving!NavigationInit /\ Map!MapInit

OthersRest ==
  /\ UNCHANGED subject
  /\ subject # "rentals" => UNCHANGED rentalVars
  /\ subject # "payments" => UNCHANGED paymentVars
  /\ subject # "wallet" => UNCHANGED walletVars
  /\ subject # "settlements" => UNCHANGED settlementsVars
  /\ subject # "fares" => UNCHANGED fareVars
  /\ subject # "coupons" => UNCHANGED couponVars
  /\ subject # "bookings" => UNCHANGED bookingVars
  /\ subject # "navigation" => UNCHANGED drivingVars
  /\ subject # "maps" => UNCHANGED mapVars

TripsNext ==
  /\ OthersRest
  /\ \/ subject = "rentals" /\ RentalsNext
     \/ subject = "payments" /\ PaymentsNext
     \/ subject = "wallet" /\ WalletNext
     \/ subject = "settlements" /\ SettlementsNext
     \/ subject = "fares" /\ FaresNext
     \/ subject = "coupons" /\ Coupon!CouponsNext
     \/ subject = "bookings" /\ Booking!BookingsNext
     \/ subject = "navigation" /\ Driving!NavigationNext
     \/ subject = "maps" /\ Map!MapNext

TripsSpec == TripsInit /\ [][TripsNext]_tripsVars

(* Bounds.  A payment is refunded while there is no other, two              *)
(* administrators have the tariff's form open before the requests begin,   *)
(* the cache fails or a lock expires, not both, and a bank account is      *)
(* edited or a second amount is posted, not both, the amount while at most *)
(* one payout exists.  The PIN is guessed wrong with the routes stored, no *)
(* time passed and at most one of the two fixes being worked on.           *)
SmallWorld ==
  /\ subject = "payments" /\ refunds # {} => \E p \in Name : pay[p] = Nil
  /\ subject = "bookings" /\ (\A a \in DOMAIN form : form[a].at # "closed")
       => \A c \in Caller : bookingCall[c].at = "new"
  /\ failures + expiries <= 1
  /\ bankEdits > 0 => posted["bonus"] = NoPayout
  /\ posted["bonus"] # NoPayout => \E k \in Name : payout[k] = NoPayout
  /\ missed > 0 => durable /\ clock = 0 /\ \E g \in {1, 2} : work[g].at = "idle"

Symmetry == Permutations(Caller) \cup Permutations(Name) \cup Permutations(User)

-----------------------------------------------------------------------------
\* Every component's state stays of its type.
TripsTypeOK ==
  CASE subject = "rentals" -> RentalsTypeOK
    [] subject = "payments" -> PaymentsTypeOK
    [] subject = "wallet" -> WalletTypeOK
    [] subject = "settlements" -> SettlementsTypeOK
    [] subject = "fares" -> FaresTypeOK
    [] subject = "coupons" -> Coupon!CouponsTypeOK
    [] subject = "bookings" -> Booking!BookingsTypeOK
    [] subject = "navigation" -> Driving!NavigationTypeOK
    [] subject = "maps" -> Map!MapTypeOK

\* Payments and the wallet make only the steps their contracts allow: no captured money is
\* lost to a late failure, and the ledger grows by whole bookings, each made once.
ContractsAreKept == KeepsPromise /\ KeepsLedger

\* A provider's wallet is what was posted less what was paid out, each payout once, and an
\* open payout goes to the account it was asked for; retried bookings are answered with their
\* own ride, coupons keep their limits, the PIN counts every guess and a cached route or place
\* is paid for once.
TripsAreSound ==
  /\ WalletBacksPayouts /\ DestinationIsFrozen
  /\ subject = "bookings" => Booking!AnswersAreOwn /\ Booking!RetryIsAnswered
  /\ subject = "coupons" => Coupon!CouponLimits
  /\ subject = "navigation" => Driving!PinCountsGuesses
  /\ subject = "maps" => Map!PaidOnce

\* A ride is stored at the tariff in force, a retry finds its own rental, a rental follows its
\* life cycle, a route never goes back and is paid for at most once in its cooldown, and a
\* cached answer is never replaced by an older one.
TripStepsHold ==
  /\ Booking!BookedAtTariff /\ RetryFindsItsRental /\ LifecycleHolds
  /\ Driving!RouteNeverGoesBack /\ Driving!CooldownHolds /\ Map!NewestStays
=============================================================================

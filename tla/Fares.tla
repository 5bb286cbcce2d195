------------------------------- MODULE Fares --------------------------------
(***************************************************************************)
(* What a booking costs.  An administrator saves the tariff of a vehicle   *)
(* type; a customer asks for an estimate of a trip, books with the quote   *)
(* it showed, and the ride ends.  Four pieces of code price the same trip  *)
(* each in its own way: the calculator that estimates, the catalog's       *)
(* status, the statement that looks at the row again before it inserts the *)
(* ride, and the triggers that round its fare and split it in stages.      *)
(*                                                                         *)
(* Money is in paise, distances in metres, demand in basis points.  A row  *)
(* holds one of five kinds of tariff: a fixed fare (service), two distance *)
(* slabs (logistics), a range that follows the demand or waits for a quote *)
(* (`reference`), base and rate per kilometre, or base fares by the hour   *)
(* with that rate.                                                         *)
(*                                                                         *)
(* Abstractions.  The tariffs of a calculator without a catalog, which the *)
(* server does not run, are left out, and with them waiting, weight,       *)
(* loading and fuel.  Fractions that the code computes in binary floating  *)
(* point are exact.                                                        *)
(***************************************************************************)
EXTENDS Integers

CONSTANTS
  Amounts, Rates,     \* that an administrator may save
  References,         \* [baseMin, baseMax, rateMin, rateMax, routed, demand]
  HourlyFare,         \* a base fare for each of the buckets 1..13, the last for longer
  Slabs,              \* [below : [base, rate], from : [base, rate]]
  LowCount, HighCount, Counts,    \* of bookings in the demand window
  Distances, Hours,   \* of trips
  MaxSaves,           \* of the tariff
  NoReference, NoQuote, NoRide

Null == -1

ASSUME FaresAssumption ==
  /\ Amounts \subseteq Nat /\ Rates \subseteq Nat /\ Distances \subseteq Nat
  /\ Hours \subseteq Nat \ {0} /\ Counts \subseteq Nat
  /\ References \subseteq
       [baseMin : Nat \cup {Null}, baseMax : Nat \cup {Null}, rateMin : Nat, rateMax : Nat,
        routed : BOOLEAN, demand : BOOLEAN]
  /\ NoReference \notin References
  /\ HourlyFare \in [1..13 -> Nat]
  /\ Slabs \in [below : [base : Nat, rate : Nat], from : [base : Nat, rate : Nat]]
  /\ LowCount \in Nat /\ HighCount \in Nat /\ LowCount < HighCount
  /\ MaxSaves \in Nat

Trips == [sector : {"passenger", "rental", "premium", "logistics", "service"},
          metres : Distances, hours : Hours \cup {Null}, oneWay : BOOLEAN]
Tariffs == [sector : {"passenger", "premium", "logistics", "service"}, ftl : BOOLEAN,
            base : Amounts \cup {Null}, rate : Rates \cup {Null},
            reference : References \cup {NoReference},
            hourly : {"none", "partial", "full"}, slabs : BOOLEAN,
            fixed : Amounts \cup {Null}, active : BOOLEAN]

VARIABLES
  trip,      \* the customer's, chosen once
  tariff,    \* the row in vehicle_types
  edits,
  sample,    \* the demand measured last; Null: unavailable or stale
  quote,     \* what the customer was shown
  booked

fareVars == <<trip, tariff, edits, sample, quote, booked>>

----------------------------------------------------------------------------
(* Rounding.                                                               *)
HalfUp(n, d) == (2 * n + d) \div (2 * d)
WholeRupees(p) == HalfUp(p, 100) * 100
Share(p, n, d) == HalfUp(p * n, 100 * d) * 100
Split(p) ==
  LET total == WholeRupees(p)
      upfront == Share(total, 2, 5)
  IN [upfront |-> upfront, final |-> total - upfront]

----------------------------------------------------------------------------
(* Which rows can be saved: mutateType and the table's constraints.        *)
ServiceOnly(t) ==
  IF t.sector = "service"
  THEN /\ t.base = Null /\ t.rate = Null /\ t.reference = NoReference
       /\ t.hourly = "none" /\ ~t.slabs /\ (t.active => t.fixed # Null)
  ELSE t.fixed = Null

ReferenceValid(r) ==
  /\ r.rateMax >= r.rateMin
  /\ IF r.baseMin = Null THEN r.routed ELSE r.baseMax = Null \/ r.baseMax >= r.baseMin

HourlyValid(t) ==
  t.hourly # "none" => /\ t.sector \in {"passenger", "premium"}
                       /\ t.base # Null /\ t.rate # Null /\ t.reference = NoReference
                       /\ t.active => t.hourly = "full"

OneModel(t) ==
  \/ t.fixed # Null
  \/ /\ t.slabs /\ t.sector = "logistics" /\ t.base = Null /\ t.rate = Null
     /\ t.reference = NoReference /\ t.hourly = "none"
  \/ /\ ~t.slabs
     /\ \/ t.base # Null /\ t.rate # Null /\ ~t.ftl /\ t.reference = NoReference
        \/ /\ t.base = Null /\ t.rate = Null
           /\ t.reference = NoReference => ~t.active

FtlIsRouted(t) ==
  (t.ftl /\ ~t.slabs /\ (t.active \/ t.reference # NoReference))
    => t.base = Null /\ t.rate = Null /\ t.reference # NoReference /\ t.reference.routed

Storable(t) ==
  /\ ServiceOnly(t) /\ HourlyValid(t) /\ OneModel(t) /\ FtlIsRouted(t)
  /\ t.reference # NoReference => ReferenceValid(t.reference)

StorableTariffs == {t \in Tariffs : Storable(t)}

\* What the catalog says of a row: vehiclePricingStatus.
Status(t) ==
  LET scalar == t.base # Null /\ t.rate # Null
      openEnded == \/ t.ftl
                   \/ ~scalar /\ (~t.reference.demand \/ t.reference.routed
                                  \/ t.reference.baseMin = Null)
  IN IF t.sector = "service"
     THEN IF t.fixed = Null THEN "needs_pricing" ELSE IF t.active THEN "available" ELSE "inactive"
     ELSE IF (t.sector = "logistics" /\ ~t.slabs) \/ t.hourly = "partial" THEN "needs_pricing"
     ELSE IF t.slabs THEN IF t.active THEN "available" ELSE "inactive"
     ELSE IF ~scalar /\ t.reference = NoReference THEN "needs_pricing"
     ELSE IF ~t.active THEN "inactive"
     ELSE IF openEnded THEN "quote_required" ELSE "available"

----------------------------------------------------------------------------
(* The estimate.                                                           *)
\* Chauffeured rentals use the passengers' tariffs.
Inventory(sector) == IF sector = "rental" THEN "passenger" ELSE sector

\* requestedBookingHours: a duration is asked for where it prices the trip.
HoursValid(r) ==
  /\ r.sector = "premium" => r.hours \in 1..24
  /\ r.sector = "rental" => r.hours # Null

\* Mutant: the count is not clamped above.
ScoreUnclamped(count) ==
  IF count = Null \/ count <= LowCount THEN 0
  ELSE HalfUp((count - LowCount) * 10000, HighCount - LowCount)
\* demandProvenance: without a fresh measurement the minimum.
Score(count) ==
  IF count = Null \/ count <= LowCount THEN 0
  ELSE IF count >= HighCount THEN 10000
  ELSE HalfUp((count - LowCount) * 10000, HighCount - LowCount)

Interpolate(min, max, score) ==
  IF max = Null THEN min ELSE min + ((max - min) * score + 5000) \div 10000

\* The base fare and the rate of a row for a trip; Null: it has none.
Bucket(r) == IF r.hours > 12 THEN 13 ELSE r.hours
HourlyBase(t, r) == IF r.hours = Null \/ t.hourly # "full" THEN Null ELSE HourlyFare[Bucket(r)]
SlabOf(r) == IF r.metres < 15000 THEN Slabs.below ELSE Slabs.from

EstimateRates(t, r, score) ==
  LET none == [base |-> Null, rate |-> Null]
  IN IF t.sector = "service" THEN [base |-> t.fixed, rate |-> 0]
     ELSE IF t.sector = "logistics" /\ ~t.slabs THEN none
     ELSE IF t.slabs THEN SlabOf(r)
     ELSE IF t.base = Null \/ t.rate = Null
     THEN IF t.reference = NoReference THEN none
          ELSE IF ~t.reference.demand \/ t.reference.routed \/ t.reference.baseMin = Null THEN none
          ELSE [base |-> Interpolate(t.reference.baseMin, t.reference.baseMax, score),
                rate |-> Interpolate(t.reference.rateMin, t.reference.rateMax, score)]
     ELSE [base |-> IF t.hourly = "none" THEN t.base ELSE HourlyBase(t, r), rate |-> t.rate]

\* Other than services and slabs the way back is paid for too.
Ways(t, r) ==
  IF t.sector = "service" \/ t.slabs \/ (r.sector = "premium" /\ r.oneWay) THEN 1 ELSE 2

\* Mutant: the driver's share is taken before the fare is rounded.
EarningsUnrounded(base, distance) == base + distance - Share(base, 1, 10)
Earnings(base, distance) == WholeRupees(base + distance) - Share(base, 1, 10)

\* calculateResolved for a row of the catalog.
Fare(t, r, score) ==
  LET rates == EstimateRates(t, r, score)
      billable == IF t.sector = "service" THEN 0 ELSE r.metres * Ways(t, r)
      distance == HalfUp(billable * rates.rate, 1000)
  IN [gross |-> WholeRupees(rates.base + distance), commission |-> Share(rates.base, 1, 10),
      earnings |-> Earnings(rates.base, distance), rates |-> rates]

Priced(t, r, score) ==
  /\ t.active /\ t.sector = Inventory(r.sector) /\ HoursValid(r)
  /\ r.sector = "rental" => t.hourly # "none"
  /\ EstimateRates(t, r, score).base # Null

\* Mutant: the statement does not look at the booked hours.
RowRatesOfBase(t, r, score) ==
  IF t.sector = "service" THEN [base |-> t.fixed, rate |-> 0]
  ELSE IF t.slabs THEN SlabOf(r)
  ELSE IF t.reference # NoReference /\ t.reference.demand
  THEN [base |-> Interpolate(t.reference.baseMin, t.reference.baseMax, score),
        rate |-> Interpolate(t.reference.rateMin, t.reference.rateMax, score)]
  ELSE [base |-> t.base, rate |-> t.rate]
\* The row as the inserting statement reads it again.
RowRates(t, r, score) ==
  IF t.sector = "service" THEN [base |-> t.fixed, rate |-> 0]
  ELSE IF t.slabs THEN SlabOf(r)
  ELSE IF t.reference # NoReference /\ t.reference.demand
  THEN [base |-> Interpolate(t.reference.baseMin, t.reference.baseMax, score),
        rate |-> Interpolate(t.reference.rateMin, t.reference.rateMax, score)]
  ELSE [base |-> IF t.hourly = "none" THEN t.base ELSE HourlyBase(t, r), rate |-> t.rate]
RowAccepts(t, r, score) ==
  /\ t.active /\ t.sector = Inventory(r.sector) /\ (t.ftl => t.slabs)
  /\ RowRates(t, r, score) = EstimateRates(t, r, score)

----------------------------------------------------------------------------
FaresInit ==
  /\ trip \in {r \in Trips : HoursValid(r)}
  /\ tariff \in {t \in StorableTariffs : t.sector = Inventory(trip.sector)}
  /\ edits = 0 /\ sample = Null /\ quote = NoQuote /\ booked = NoRide

\* The administrator saves another tariff for the same type.
Save ==
  /\ edits < MaxSaves
  /\ \E t \in StorableTariffs :
       /\ t.sector = tariff.sector /\ t.ftl = tariff.ftl /\ t # tariff
       /\ tariff' = t
  /\ edits' = edits + 1
  /\ UNCHANGED <<trip, sample, quote, booked>>

\* The bookings of the window are counted, or cannot be.
Measure ==
  /\ sample' \in Counts \cup {Null} /\ sample' # sample
  /\ UNCHANGED <<trip, tariff, edits, quote, booked>>

Estimate ==
  /\ booked = NoRide
  /\ Priced(tariff, trip, Score(sample))
  /\ LET f == Fare(tariff, trip, Score(sample))
     IN quote' = [amount |-> f.gross, version |-> edits, split |-> Split(f.gross)]
  /\ UNCHANGED <<trip, tariff, edits, sample, booked>>

\* Mutant: the quote that comes with the booking is not compared.
QuoteStandsAlways(f) == quote # NoQuote /\ f.gross >= 0
QuoteStands(f) == quote.amount = f.gross /\ quote.version = edits

\* Mutant: the stages are split to the paisa, as before whole rupees.
PlanInPaise(gross) == [upfront |-> HalfUp(gross * 2, 5), final |-> gross - HalfUp(gross * 2, 5)]
\* create_logistics_payment_plan: the total in rupees, two fifths of it in
\* rupees.
Plan(gross) ==
  LET total == HalfUp(gross, 100) * 100
      advance == HalfUp(total * 4, 1000) * 100
  IN [upfront |-> advance, final |-> total - advance]

\* createRide with the quote: the trip is priced again, the statement looks
\* at the row, and the triggers finish the fare.
Book ==
  /\ booked = NoRide /\ quote # NoQuote
  /\ Priced(tariff, trip, Score(sample))
  /\ LET f == Fare(tariff, trip, Score(sample))
     IN /\ QuoteStands(f)
        /\ RowAccepts(tariff, trip, Score(sample))
        /\ booked' = [fare |-> WholeRupees(f.gross), final |-> Null, promised |-> quote,
                    commission |-> f.commission, earnings |-> f.earnings,
                    plan |-> IF trip.sector = "logistics" /\ f.gross > 0
                             THEN Plan(f.gross) ELSE Split(0)]
  /\ UNCHANGED <<trip, tariff, edits, sample, quote>>

Complete ==
  /\ booked # NoRide /\ booked.final = Null
  /\ booked' = [booked EXCEPT !.final =
                IF trip.sector = "logistics" THEN booked.fare ELSE WholeRupees(booked.fare)]
  /\ UNCHANGED <<trip, tariff, edits, sample, quote>>

FaresNext == Save \/ Measure \/ Estimate \/ Book \/ Complete
FaresSpec == FaresInit /\ [][FaresNext]_fareVars

FaresTypeOK ==
  /\ trip \in Trips /\ tariff \in Tariffs /\ edits \in 0..MaxSaves
  /\ sample \in Counts \cup {Null}
  /\ quote # NoQuote => quote.amount >= 0 /\ quote.version \in 0..edits

(* The catalog, the calculator and the booking statement agree on every    *)
(* row that can be saved: a type shown as available has a price for each   *)
(* trip of its kind, any other has none, and a price that was estimated is *)
(* the price the row gives when the ride is inserted.                      *)
AvailableIsPriced ==
  \A r \in Trips : (HoursValid(r) /\ Inventory(r.sector) = tariff.sector) =>
    LET score == Score(sample)
    IN /\ Priced(tariff, r, score) => /\ Status(tariff) = "available"
                                      /\ RowAccepts(tariff, r, score)
       /\ Status(tariff) = "available" =>
            (Priced(tariff, r, score) \/ (tariff.hourly # "none" /\ r.hours = Null)
             \/ (r.sector = "rental" /\ tariff.hourly = "none"))

(* A range that follows the demand never costs less than its minimum or    *)
(* more than its maximum, costs no less the more is booked, and a failed   *)
(* measurement never raises it.                                            *)
DemandIsBounded ==
  \A r \in Trips : Priced(tariff, r, 0) =>
    LET gross(c) == Fare(tariff, r, Score(c)).gross
    IN \A c, d \in Counts :
         /\ c <= d => gross(c) <= gross(d)
         /\ gross(Null) <= gross(c)
         /\ gross(c) <= Fare(tariff, r, 10000).gross

(* A ride costs what its customer was shown, in whole rupees; the driver's *)
(* earnings and the commission add up to it; and the stages of a logistics *)
(* ride are those that the estimate announced, although the estimate       *)
(* splits the fare in the calculator and a trigger splits it again.        *)
MoneyAddsUp ==
  booked # NoRide =>
    /\ booked.fare = booked.promised.amount
    /\ booked.commission \in 0..booked.fare /\ booked.earnings >= 0
    /\ booked.commission + booked.earnings = booked.fare
    /\ booked.final # Null => booked.final = booked.fare
    /\ trip.sector = "logistics" => booked.plan = booked.promised.split

\* The calculator, the catalog, the booking statement and the triggers price a trip alike.
FaresAddUp == AvailableIsPriced /\ DemandIsBounded /\ MoneyAddsUp
=============================================================================

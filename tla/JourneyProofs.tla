---------------------------- MODULE JourneyProofs ----------------------------
(***************************************************************************)
(* Proofs about a journey from its price to its end, for any requests,     *)
(* keys, limits, services, fixes and times: Coupons, Bookings, MapRequests *)
(* and Navigation.                                                         *)
(***************************************************************************)
EXTENDS Coupons, Bookings, MapRequests, Navigation, FiniteSetTheorems, TLAPS

-----------------------------------------------------------------------------
(* Coupons.  The row's lock makes a redemption alone with the row from its *)
(* first read to its commit, so what it has read and counted stays true    *)
(* until it writes.                                                        *)
Redeemed == {r \in Redeemer : redemptions[r] # NoUse}
UsesOf(u) == {r \in Redeemer : redemptions[r] # NoUse /\ redemptions[r].user = u}

OneInTransaction == \A r, q \in Redeemer : InTransaction(r) /\ InTransaction(q) => r = q

\* Only a redemption that is over has a row.
RowsAreRedeemed == \A r \in Redeemer : redemptions[r] # NoUse => redeeming[r].at = "redeemed"

\* What a redemption read is what the row holds, before it is incremented or after.
ReadsStand ==
  \A r \in Redeemer :
    /\ redeeming[r].at \in {"locked", "counted"} => redeeming[r].read = coupon
    /\ redeeming[r].at = "incremented" =>
         /\ coupon.used = redeeming[r].read.used + 1
         /\ redeeming[r].read.used = Cardinality(Redeemed)
    /\ redeeming[r].at \in {"counted", "incremented"} =>
         Cardinality(UsesOf(redeeming[r].user)) < PerUserLimit

\* The counter counts the committed rows, and the one that is about to be.
CounterCounts ==
  (\A r \in Redeemer : redeeming[r].at # "incremented") => coupon.used = Cardinality(Redeemed)

UsesAreLimited == \A u \in User : Cardinality(UsesOf(u)) <= PerUserLimit
DiscountsFit == \A r \in Redeemer : redemptions[r] # NoUse => redemptions[r].discount <= redemptions[r].before

CouponsInv ==
  /\ CouponsTypeOK /\ OneInTransaction /\ RowsAreRedeemed /\ ReadsStand /\ CounterCounts
  /\ UsesAreLimited /\ DiscountsFit

LEMMA UsesAreFinite ==
  ASSUME CouponsAssumption
  PROVE  /\ IsFiniteSet(Redeemed) /\ Cardinality(Redeemed) \in Nat
         /\ \A u \in User : IsFiniteSet(UsesOf(u)) /\ Cardinality(UsesOf(u)) \in Nat
<1>1. IsFiniteSet(Redeemed)
  BY FS_Subset, Redeemed \subseteq Redeemer DEF CouponsAssumption, Redeemed
<1>2. ASSUME NEW u \in User PROVE IsFiniteSet(UsesOf(u))
  BY FS_Subset, UsesOf(u) \subseteq Redeemer DEF CouponsAssumption, UsesOf
<1> QED
  BY <1>1, <1>2, FS_CardinalityType

LEMMA CouponsHold == ASSUME CouponsAssumption, CouponsInv PROVE CouponLimits
<1>1. RowFree => coupon.used = Cardinality({r \in Redeemer : redemptions[r] # NoUse})
  BY DEF CouponsInv, CounterCounts, RowFree, InTransaction, Redeemed
<1>2. \A u \in User : Uses(u) <= PerUserLimit
  BY DEF CouponsInv, UsesAreLimited, Uses, UsesOf
<1> QED
  BY <1>1, <1>2 DEF CouponsInv, DiscountsFit, CouponLimits

LEMMA InitCoupons == ASSUME CouponsAssumption, CouponsInit PROVE CouponsInv
<1>1. Redeemed = {} /\ \A u \in User : UsesOf(u) = {}
  BY DEF CouponsInit, Redeemed, UsesOf
<1>2. CouponsTypeOK
  BY DEF CouponsAssumption, CouponsInit, CouponsTypeOK, CouponRow
<1>3. OneInTransaction /\ RowsAreRedeemed /\ ReadsStand /\ DiscountsFit
  BY DEF CouponsInit, OneInTransaction, RowsAreRedeemed, ReadsStand, DiscountsFit, InTransaction
<1>4. CounterCounts
  BY <1>1, FS_EmptySet DEF CouponsInit, CounterCounts
<1>5. UsesAreLimited
  <2>1. Cardinality({}) = 0 /\ PerUserLimit \in Nat
    BY FS_EmptySet DEF CouponsAssumption
  <2> QED
    BY <1>1, <2>1 DEF UsesAreLimited
<1> QED
  BY <1>2, <1>3, <1>4, <1>5 DEF CouponsInv

LEMMA DiscountFits ==
  ASSUME CouponsAssumption, NEW fare \in Fares
  PROVE  Discount(fare) \in Nat /\ Discount(fare) <= fare
<1>1. fare \in Nat /\ MaxDiscount \in Nat /\ Percentage \in Nat
  <2>1. Fares \subseteq Nat /\ MaxDiscount \in Nat /\ Percentage \in 1..100
    BY DEF CouponsAssumption
  <2>2. \A p \in 1..100 : p \in Nat
    OBVIOUS
  <2> QED
    BY <2>1, <2>2
<1>2. PICK n \in Nat : n = 2 * fare * Percentage
  <2>1. 2 * fare \in Nat
    BY <1>1
  <2>2. \A x, y \in Nat : x * y \in Nat
    OBVIOUS
  <2> QED
    BY <1>1, <2>1, <2>2
<1>3. (n + 100) \div 200 \in Nat
  OBVIOUS
<1> DEFINE share == (2 * fare * Percentage + 100) \div 200
<1> HIDE DEF share
<1>4. Capped(share, MaxDiscount) \in Nat
  BY <1>1, <1>2, <1>3 DEF share, Capped
<1> DEFINE capped == Capped(share, MaxDiscount)
<1>5. Discount(fare) = Capped(capped, fare)
  BY DEF Discount, share
<1> HIDE DEF capped
<1> QED
  BY <1>1, <1>4, <1>5 DEF capped, Capped

\* A redemption that goes on without its row, with what it holds unchanged.
LEMMA StepOfLock ==
  ASSUME CouponsAssumption, CouponsInv, NEW r \in Redeemer, NEW u \in User, NEW fare \in Fares,
         LockCoupon(r, u, fare)
  PROVE  CouponsInv'
<1> DEFINE taken == [at |-> "locked", user |-> u, fare |-> fare, read |-> coupon]
<1>1. /\ redeeming' = [redeeming EXCEPT ![r] = taken]
      /\ UNCHANGED <<coupon, redemptions, editing>> /\ redeeming[r].at = "asking" /\ RowFree
  BY DEF LockCoupon
<1>2. Redeemed' = Redeemed /\ \A v : UsesOf(v)' = UsesOf(v)
  BY <1>1 DEF Redeemed, UsesOf
<1>3. coupon \in CouponRow
  BY DEF CouponsInv, CouponsTypeOK
<1>4. CouponsTypeOK'
  <2>1. taken \in [at : {"locked", "counted", "incremented"}, user : User, fare : Fares, read : CouponRow]
    BY <1>3
  <2> QED
    BY <1>1, <2>1 DEF CouponsInv, CouponsTypeOK
<1>5. \A q \in Redeemer : redeeming'[q] = IF q = r THEN taken ELSE redeeming[q]
  BY <1>1 DEF CouponsInv, CouponsTypeOK
<1>6. OneInTransaction'
  BY <1>1, <1>5 DEF OneInTransaction, InTransaction, RowFree
<1>7. RowsAreRedeemed'
  BY <1>1, <1>5 DEF CouponsInv, RowsAreRedeemed
<1>8. ReadsStand'
  BY <1>1, <1>2, <1>5 DEF CouponsInv, ReadsStand
<1>9. CounterCounts'
  <2>1. coupon.used = Cardinality(Redeemed)
    BY <1>1 DEF CouponsInv, CounterCounts, RowFree, InTransaction
  <2> QED
    BY <1>1, <1>2, <2>1 DEF CounterCounts
<1>10. UsesAreLimited' /\ DiscountsFit'
  BY <1>1, <1>2 DEF CouponsInv, UsesAreLimited, DiscountsFit
<1> QED
  BY <1>4, <1>6, <1>7, <1>8, <1>9, <1>10 DEF CouponsInv

\* A refusal, before the counter was incremented or after its increment was undone.
LEMMA StepOfRefusal ==
  ASSUME CouponsAssumption, CouponsInv, NEW r \in Redeemer, Refuse(r),
         coupon' = IF redeeming[r].at = "incremented" THEN redeeming[r].read ELSE coupon,
         InTransaction(r)
  PROVE  CouponsInv'
<1>1. /\ redeeming' = [redeeming EXCEPT ![r] = [at |-> "refused"]]
      /\ UNCHANGED <<redemptions, editing>>
  BY DEF Refuse
<1>2. Redeemed' = Redeemed /\ \A v : UsesOf(v)' = UsesOf(v)
  BY <1>1 DEF Redeemed, UsesOf
<1>3. \A q \in Redeemer : redeeming'[q] = IF q = r THEN [at |-> "refused"] ELSE redeeming[q]
  BY <1>1 DEF CouponsInv, CouponsTypeOK
<1>4. \A q \in Redeemer : ~InTransaction(q)'
  BY <1>3 DEF CouponsInv, OneInTransaction, InTransaction
<1>5. redeeming[r].read \in CouponRow
  BY DEF CouponsInv, CouponsTypeOK, InTransaction
<1>6. CouponsTypeOK'
  BY <1>1, <1>5 DEF CouponsInv, CouponsTypeOK
<1>7. coupon'.used = Cardinality(Redeemed)
  <2>1. CASE redeeming[r].at = "incremented"
    BY <2>1 DEF CouponsInv, ReadsStand
  <2>2. CASE redeeming[r].at # "incremented"
    <3>1. \A q \in Redeemer : redeeming[q].at # "incremented"
      BY <2>2 DEF CouponsInv, OneInTransaction, InTransaction
    <3> QED
      BY <2>2, <3>1 DEF CouponsInv, CounterCounts
  <2> QED
    BY <2>1, <2>2
<1>8. OneInTransaction' /\ ReadsStand'
  BY <1>4 DEF OneInTransaction, ReadsStand, InTransaction
<1>9. RowsAreRedeemed'
  BY <1>1, <1>3 DEF CouponsInv, RowsAreRedeemed, InTransaction
<1>10. CounterCounts'
  BY <1>2, <1>7 DEF CounterCounts
<1>11. UsesAreLimited' /\ DiscountsFit'
  BY <1>1, <1>2 DEF CouponsInv, UsesAreLimited, DiscountsFit
<1> QED
  BY <1>6, <1>8, <1>9, <1>10, <1>11 DEF CouponsInv

LEMMA StepOfCount ==
  ASSUME CouponsAssumption, CouponsInv, NEW r \in Redeemer, CountUses(r)
  PROVE  CouponsInv'
<1>1. CASE ~UsableBy(r)
  BY <1>1, StepOfRefusal DEF CountUses, InTransaction
<1>2. CASE UsableBy(r)
  <2>1. /\ redeeming[r].at = "locked" /\ redeeming' = [redeeming EXCEPT ![r].at = "counted"]
        /\ UNCHANGED <<coupon, redemptions, editing>>
    BY <1>2 DEF CountUses
  <2>2. Redeemed' = Redeemed /\ \A v : UsesOf(v)' = UsesOf(v)
    BY <2>1 DEF Redeemed, UsesOf
  <2>3. redeeming[r] \in [at : {"locked", "counted", "incremented"}, user : User, fare : Fares,
                          read : CouponRow]
    BY <2>1 DEF CouponsInv, CouponsTypeOK
  <2>4. /\ \A q \in Redeemer : q # r => redeeming'[q] = redeeming[q]
        /\ redeeming'[r] = [redeeming[r] EXCEPT !.at = "counted"]
    BY <2>1 DEF CouponsInv, CouponsTypeOK
  <2>5. /\ redeeming'[r].at = "counted" /\ redeeming'[r].read = redeeming[r].read
        /\ redeeming'[r].user = redeeming[r].user
    BY <2>3, <2>4
  <2>6. CouponsTypeOK'
    BY <2>1, <2>3 DEF CouponsInv, CouponsTypeOK
  <2>7. OneInTransaction'
    BY <2>1, <2>4 DEF CouponsInv, OneInTransaction, InTransaction
  <2>8. RowsAreRedeemed'
    BY <2>1, <2>4 DEF CouponsInv, RowsAreRedeemed
  <2>9. Cardinality(UsesOf(redeeming[r].user)) < PerUserLimit
    BY <1>2 DEF UsableBy, Uses, UsesOf
  <2>10. ReadsStand'
    BY <2>1, <2>2, <2>4, <2>5, <2>9 DEF CouponsInv, ReadsStand
  <2>11. CounterCounts'
    BY <2>1, <2>2, <2>4 DEF CouponsInv, CounterCounts
  <2>12. UsesAreLimited' /\ DiscountsFit'
    BY <2>1, <2>2 DEF CouponsInv, UsesAreLimited, DiscountsFit
  <2> QED
    BY <2>6, <2>7, <2>8, <2>10, <2>11, <2>12 DEF CouponsInv
<1> QED
  BY <1>1, <1>2

LEMMA StepOfIncrement ==
  ASSUME CouponsAssumption, CouponsInv, NEW r \in Redeemer, IncrementUsage(r)
  PROVE  CouponsInv'
<1>1. CASE ~(Redeemable(r) /\ coupon.used < UsageLimit)
  BY <1>1, StepOfRefusal DEF IncrementUsage, InTransaction
<1>2. CASE Redeemable(r) /\ coupon.used < UsageLimit
  <2>1. /\ redeeming[r].at = "counted" /\ coupon.stamp < MaxStamp
        /\ coupon' = [coupon EXCEPT !.used = @ + 1, !.stamp = @ + 1]
        /\ redeeming' = [redeeming EXCEPT ![r].at = "incremented"]
        /\ UNCHANGED <<redemptions, editing>>
    BY <1>2 DEF IncrementUsage
  <2>2. Redeemed' = Redeemed /\ \A v : UsesOf(v)' = UsesOf(v)
    BY <2>1 DEF Redeemed, UsesOf
  <2>3. redeeming[r] \in [at : {"locked", "counted", "incremented"}, user : User, fare : Fares,
                          read : CouponRow]
    BY <2>1 DEF CouponsInv, CouponsTypeOK
  <2>4. /\ \A q \in Redeemer : q # r => redeeming'[q] = redeeming[q]
        /\ redeeming'[r] = [redeeming[r] EXCEPT !.at = "incremented"]
    BY <2>1 DEF CouponsInv, CouponsTypeOK
  <2>5. /\ redeeming'[r].at = "incremented" /\ redeeming'[r].read = redeeming[r].read
        /\ redeeming'[r].user = redeeming[r].user
    BY <2>3, <2>4
  <2>6. coupon \in CouponRow
    BY DEF CouponsInv, CouponsTypeOK
  <2>7. coupon.used + 1 \in 0..UsageLimit /\ coupon.stamp + 1 \in 0..MaxStamp
    <3>1. coupon.used \in Nat /\ coupon.stamp \in Nat /\ UsageLimit \in Nat /\ MaxStamp \in Nat
      BY <2>6 DEF CouponsAssumption, CouponRow
    <3> QED
      BY <1>2, <2>1, <3>1
  <2>8. coupon' \in CouponRow /\ coupon'.used = coupon.used + 1
    BY <2>1, <2>6, <2>7 DEF CouponRow
  <2>9. CouponsTypeOK'
    BY <2>1, <2>3, <2>8 DEF CouponsInv, CouponsTypeOK
  <2>10. \A q \in Redeemer : q # r => ~InTransaction(q)
    BY <2>1 DEF CouponsInv, OneInTransaction, InTransaction
  <2>11. OneInTransaction'
    BY <2>4, <2>10 DEF OneInTransaction, InTransaction
  <2>12. RowsAreRedeemed'
    BY <2>1, <2>4 DEF CouponsInv, RowsAreRedeemed
  <2>13. coupon.used = Cardinality(Redeemed) /\ redeeming[r].read = coupon
         /\ Cardinality(UsesOf(redeeming[r].user)) < PerUserLimit
    <3>1. \A q \in Redeemer : redeeming[q].at # "incremented"
      BY <2>1, <2>10 DEF InTransaction
    <3> QED
      BY <2>1, <3>1 DEF CouponsInv, CounterCounts, ReadsStand
  <2>14. ReadsStand'
    <3> SUFFICES ASSUME NEW q \in Redeemer
                 PROVE  (/\ redeeming[q].at \in {"locked", "counted"} => redeeming[q].read = coupon
                         /\ redeeming[q].at = "incremented" =>
                              /\ coupon.used = redeeming[q].read.used + 1
                              /\ redeeming[q].read.used = Cardinality(Redeemed)
                         /\ redeeming[q].at \in {"counted", "incremented"} =>
                              Cardinality(UsesOf(redeeming[q].user)) < PerUserLimit)'
      BY DEF ReadsStand
    <3>1. CASE q = r
      BY <2>2, <2>5, <2>8, <2>13, <3>1
    <3>2. CASE q # r
      BY <2>4, <2>10, <3>2 DEF InTransaction
    <3> QED
      BY <3>1, <3>2
  <2>15. CounterCounts'
    BY <2>5 DEF CounterCounts
  <2>16. UsesAreLimited' /\ DiscountsFit'
    BY <2>1, <2>2 DEF CouponsInv, UsesAreLimited, DiscountsFit
  <2> QED
    BY <2>9, <2>11, <2>12, <2>14, <2>15, <2>16 DEF CouponsInv
<1> QED
  BY <1>1, <1>2

LEMMA StepOfCreate ==
  ASSUME CouponsAssumption, CouponsInv, NEW r \in Redeemer, CreateRedemption(r)
  PROVE  CouponsInv'
<1>0. PICK u \in User : u = redeeming[r].user
  BY DEF CreateRedemption, CouponsInv, CouponsTypeOK
<1> DEFINE row == [user |-> u, before |-> redeeming[r].fare,
                   discount |-> Discount(redeeming[r].fare)]
<1>1. /\ redeeming[r].at = "incremented"
      /\ redemptions' = [redemptions EXCEPT ![r] = row]
      /\ redeeming' = [redeeming EXCEPT ![r] = [at |-> "redeemed"]]
      /\ UNCHANGED <<coupon, editing>>
  BY <1>0 DEF CreateRedemption
<1>2. redeeming[r].fare \in Fares
  BY <1>1 DEF CouponsInv, CouponsTypeOK
<1>3. row \in Redemption /\ row # NoUse /\ row.user = u /\ row.discount <= row.before
  <2>1. Discount(redeeming[r].fare) \in Nat /\ Discount(redeeming[r].fare) <= redeeming[r].fare
    BY <1>2, DiscountFits
  <2>2. row \in Redemption
    BY <1>2, <2>1 DEF Redemption
  <2> QED
    BY <2>1, <2>2 DEF CouponsAssumption, Redemption
<1> HIDE DEF row
<1>4. /\ \A q \in Redeemer : redeeming'[q] = IF q = r THEN [at |-> "redeemed"] ELSE redeeming[q]
      /\ \A q \in Redeemer : redemptions'[q] = IF q = r THEN row ELSE redemptions[q]
  BY <1>1 DEF CouponsInv, CouponsTypeOK
<1>5. r \notin Redeemed /\ \A v : r \notin UsesOf(v)
  BY <1>1 DEF CouponsInv, RowsAreRedeemed, Redeemed, UsesOf
<1>6. /\ Redeemed' = Redeemed \cup {r} /\ UsesOf(u)' = UsesOf(u) \cup {r}
      /\ \A v : v # u => UsesOf(v)' = UsesOf(v)
  <2>1. Redeemed' = Redeemed \cup {r}
    BY <1>3, <1>4 DEF Redeemed
  <2>2. UsesOf(u)' = UsesOf(u) \cup {r}
    BY <1>3, <1>4 DEF UsesOf
  <2>3. ASSUME NEW v, v # u PROVE UsesOf(v)' = UsesOf(v)
    <3>1. ASSUME NEW q \in Redeemer
          PROVE  (redemptions'[q] # NoUse /\ redemptions'[q].user = v)
                   <=> (redemptions[q] # NoUse /\ redemptions[q].user = v)
      <4>1. CASE q = r
        BY <1>3, <1>4, <1>5, <2>3, <4>1 DEF UsesOf
      <4>2. CASE q # r
        BY <1>4, <4>2
      <4> QED
        BY <4>1, <4>2
    <3> QED
      BY <3>1 DEF UsesOf
  <2> QED
    BY <2>1, <2>2, <2>3
<1>7. CouponsTypeOK'
  BY <1>1, <1>3 DEF CouponsInv, CouponsTypeOK
<1>8. \A q \in Redeemer : ~InTransaction(q)'
  BY <1>1, <1>4 DEF CouponsInv, OneInTransaction, InTransaction
<1>9. OneInTransaction' /\ ReadsStand'
  BY <1>8 DEF OneInTransaction, ReadsStand, InTransaction
<1>10. RowsAreRedeemed'
  BY <1>4 DEF CouponsInv, RowsAreRedeemed
<1>11. Cardinality(Redeemed \cup {r}) = Cardinality(Redeemed) + 1
       /\ Cardinality(UsesOf(u) \cup {r}) = Cardinality(UsesOf(u)) + 1
  BY <1>2, <1>5, UsesAreFinite, FS_AddElement
<1>12. CounterCounts'
  <2>1. coupon.used = Cardinality(Redeemed) + 1
    BY <1>1 DEF CouponsInv, ReadsStand
  <2> QED
    BY <1>1, <1>6, <1>11, <2>1 DEF CounterCounts
<1>13. UsesAreLimited'
  <2> SUFFICES ASSUME NEW v \in User PROVE Cardinality(UsesOf(v)') <= PerUserLimit
    BY DEF UsesAreLimited
  <2>1. CASE v = u
    <3>1. Cardinality(UsesOf(u)) < PerUserLimit
      BY <1>0, <1>1 DEF CouponsInv, ReadsStand
    <3>2. Cardinality(UsesOf(u)) \in Nat /\ PerUserLimit \in Nat
      BY <1>2, UsesAreFinite DEF CouponsAssumption
    <3>3. \A n, m \in Nat : n < m => n + 1 <= m
      OBVIOUS
    <3>4. Cardinality(UsesOf(u)) + 1 <= PerUserLimit
      BY <3>1, <3>2, <3>3
    <3> QED
      BY <1>6, <1>11, <2>1, <3>4
  <2>2. CASE v # u
    BY <1>6, <2>2 DEF CouponsInv, UsesAreLimited
  <2> QED
    BY <2>1, <2>2
<1>14. DiscountsFit'
  BY <1>3, <1>4 DEF CouponsInv, DiscountsFit
<1> QED
  BY <1>7, <1>9, <1>10, <1>12, <1>13, <1>14 DEF CouponsInv

LEMMA StepOfManager ==
  ASSUME CouponsAssumption, CouponsInv, NEW a \in Manager,
         OpenCoupon(a) \/ \E active \in BOOLEAN : SaveCoupon(a, active)
  PROVE  CouponsInv'
<1>1. UNCHANGED <<redemptions, redeeming>>
  BY DEF OpenCoupon, SaveCoupon
<1>2. Redeemed' = Redeemed /\ \A v : UsesOf(v)' = UsesOf(v)
  BY <1>1 DEF Redeemed, UsesOf
<1>3. coupon' \in CouponRow /\ coupon'.used = coupon.used
      /\ (coupon' = coupon \/ RowFree)
  <2>1. CASE OpenCoupon(a)
    BY <2>1 DEF OpenCoupon, CouponsInv, CouponsTypeOK
  <2>2. ASSUME NEW active \in BOOLEAN, SaveCoupon(a, active)
        PROVE  coupon' \in CouponRow /\ coupon'.used = coupon.used /\ RowFree
    <3>1. coupon \in CouponRow /\ coupon.stamp < MaxStamp
          /\ coupon' = [coupon EXCEPT !.active = active, !.stamp = @ + 1]
      BY <2>2 DEF SaveCoupon, CouponsInv, CouponsTypeOK
    <3>2. coupon.stamp + 1 \in 0..MaxStamp
      <4>1. coupon.stamp \in Nat /\ MaxStamp \in Nat
        BY <3>1 DEF CouponsAssumption, CouponRow
      <4> QED
        BY <3>1, <4>1
    <3> QED
      BY <2>2, <3>1, <3>2 DEF CouponRow, SaveCoupon
  <2> QED
    BY <2>1, <2>2
<1>4. editing' \in [Manager -> -1..MaxStamp]
  <2>1. coupon.stamp \in -1..MaxStamp /\ -1 \in -1..MaxStamp
    <3>1. coupon.stamp \in 0..MaxStamp /\ MaxStamp \in Nat
      BY DEF CouponsInv, CouponsTypeOK, CouponRow, CouponsAssumption
    <3> QED
      BY <3>1
  <2> QED
    BY <2>1 DEF OpenCoupon, SaveCoupon, CouponsInv, CouponsTypeOK
<1>5. CouponsTypeOK'
  BY <1>1, <1>3, <1>4 DEF CouponsInv, CouponsTypeOK
<1>6. ReadsStand'
  BY <1>1, <1>2, <1>3 DEF CouponsInv, ReadsStand, RowFree, InTransaction
<1>7. CounterCounts'
  BY <1>1, <1>2, <1>3 DEF CouponsInv, CounterCounts
<1> QED
  BY <1>1, <1>2, <1>5, <1>6, <1>7
     DEF CouponsInv, OneInTransaction, InTransaction, RowsAreRedeemed, UsesAreLimited, DiscountsFit

LEMMA CouponsStep ==
  ASSUME CouponsAssumption
  PROVE  CouponsInv /\ [CouponsNext]_couponVars => CouponsInv'
<1> SUFFICES ASSUME CouponsInv, [CouponsNext]_couponVars PROVE CouponsInv'
  OBVIOUS
<1>1. CASE CouponsNext
  <2>1. ASSUME NEW r \in Redeemer, RollBack(r) PROVE CouponsInv'
    BY <2>1, StepOfRefusal DEF RollBack
  <2> QED
    BY <1>1, <2>1, StepOfCount, StepOfIncrement, StepOfCreate, StepOfLock, StepOfManager
       DEF CouponsNext
<1>2. CASE UNCHANGED couponVars
  BY <1>2 DEF couponVars, CouponsInv, CouponsTypeOK, OneInTransaction, InTransaction, RowsAreRedeemed,
              ReadsStand, CounterCounts, UsesAreLimited, DiscountsFit, Redeemed, UsesOf
<1> QED
  BY <1>1, <1>2

\* The limits of a coupon are kept and its counter counts its redemptions, whoever redeems at
\* once, whatever is rolled back and however often the managers switch it: CouponLimits.
THEOREM CouponsKeepLimits ==
  ASSUME CouponsAssumption
  PROVE  CouponsSpec => []CouponLimits
<1>1. CouponsInit => CouponsInv
  BY InitCoupons
<1>2. CouponsInv /\ [CouponsNext]_couponVars => CouponsInv'
  BY CouponsStep
<1>3. CouponsInv => CouponLimits
  BY CouponsHold
<1> QED
  BY <1>1, <1>2, <1>3, PTL DEF CouponsSpec

-----------------------------------------------------------------------------
(* Bookings.  Under the lock of its request id a call looks again, and no  *)
(* row of that id appears until it ends; under the lock of the vehicle     *)
(* code the entry stays what it was compared with.                         *)

\* A call that was sent asks for something.
SentBodies == \A c \in Call : call[c].at # "new" => call[c].body \in Body

OneHoldsTheKey ==
  \A c, d \in Call : (HoldsKey(c) /\ HoldsKey(d) /\ call[c].key # None /\ call[c].key = call[d].key)
                       => c = d

\* The second look found nothing, and nothing has come since.
NothingEarlier == \A c \in Call : HoldsKey(c) /\ call[c].at # "again" => Earlier(c) = {}

\* An edit waits for the bookings of its code, and they for it.
CodeIsShared == \A c \in Call, a \in Editor : HoldsCode(c) => form[a].at # "begun"

\* What a call was priced at is what its client was shown, and before the insert what is in force.
PricedAsShown ==
  \A c \in Call :
    /\ call[c].at \in {"probe", "begin", "again", "code", "check", "insert"} =>
         call[c].shown = None \/ call[c].price = call[c].shown
    /\ call[c].at = "insert" => entry.active /\ call[c].price = entry.version

BookingsInv ==
  /\ BookingsTypeOK /\ SentBodies /\ OneHoldsTheKey /\ NothingEarlier /\ CodeIsShared /\ PricedAsShown
  /\ AnswersAreOwn /\ RetryIsAnswered

LEMMA InitBookings == ASSUME BookingsAssumption, BookingsInit PROVE BookingsInv
<1>1. BookingsTypeOK
  <2>1. 0 \in Version /\ 1 \in Version
    BY DEF BookingsAssumption, Version
  <2>2. entry \in [version : Version, active : BOOLEAN]
    <3>1. [version |-> 0, active |-> FALSE] \in [version : Version, active : BOOLEAN]
      BY <2>1
    <3>2. [version |-> 1, active |-> TRUE] \in [version : Version, active : BOOLEAN]
      BY <2>1
    <3> QED
      BY <3>1, <3>2 DEF BookingsInit
  <2>3. [at |-> "new", key |-> None, body |-> None, shown |-> None, price |-> None, ride |-> None]
          \in [at : Phase, key : Key \cup {None}, body : Body \cup {None}, shown : Price,
               price : Price, ride : Call \cup {None}]
    BY DEF Phase, Price
  <2>4. form \in [Editor -> [at : {"closed", "open", "begun"}, read : Version]]
    BY <2>1 DEF BookingsInit, Closed
  <2> QED
    BY <2>2, <2>3, <2>4 DEF BookingsInit, BookingsTypeOK
<1> QED
  BY <1>1 DEF BookingsInit, BookingsInv, SentBodies, OneHoldsTheKey, NothingEarlier, CodeIsShared,
              PricedAsShown, AnswersAreOwn, RetryIsAnswered, HoldsKey, HoldsCode

\* A call that ends, answered by a ride of its own or not, gives its locks back.
EndsWell(c, at, got) ==
  /\ Ends(c, at, got) /\ call[c].at # "new" /\ got \in Call \cup {None}
  /\ at \in Ended \ {"duplicate"}
  /\ at = "answered" =>
       \E r \in rides' : r.by = got /\ r.key = call[c].key /\ r.body = call[c].body

LEMMA CallThatEnds ==
  ASSUME BookingsInv, NEW c \in Call, NEW at, NEW got, EndsWell(c, at, got),
         rides \subseteq rides', rides' \subseteq RideRow,
         UNCHANGED <<entry, form>>,
         \A r \in rides' \ rides : HoldsKey(c) /\ r.key = call[c].key,
         \A r, s \in rides' : r.key # None /\ r.key = s.key => r = s
  PROVE  BookingsInv'
<1>1. /\ \A d \in Call : d # c => call'[d] = call[d]
      /\ call'[c].at = at /\ call'[c].key = call[c].key /\ call'[c].body = call[c].body
      /\ call'[c].ride = got
  BY DEF BookingsInv, BookingsTypeOK, EndsWell, Ends
<1>2. at \in Phase /\ at \notin {"new", "find", "estimate", "probe", "begin", "again", "code", "check", "insert"}
      /\ at # "duplicate"
  BY DEF EndsWell, Ended, Phase
<1>3. BookingsTypeOK'
  <2> DEFINE rec == [at : Phase, key : Key \cup {None}, body : Body \cup {None}, shown : Price,
                     price : Price, ride : Call \cup {None}]
  <2>1. call \in [Call -> rec] /\ call[c] \in rec
    BY DEF BookingsInv, BookingsTypeOK
  <2>2. [call[c] EXCEPT !.at = at, !.ride = got, !.shown = None, !.price = None] \in rec
    BY <1>2, <2>1 DEF EndsWell, Price
  <2>3. call' \in [Call -> rec]
    BY <2>1, <2>2 DEF EndsWell, Ends
  <2> QED
    BY <2>3 DEF BookingsInv, BookingsTypeOK
<1>4. SentBodies'
  BY <1>1 DEF BookingsInv, SentBodies, EndsWell
<1>5. ~HoldsKey(c)' /\ ~HoldsCode(c)'
  BY <1>1, <1>2 DEF HoldsKey, HoldsCode
<1>6. OneHoldsTheKey' /\ CodeIsShared' /\ PricedAsShown' /\ RetryIsAnswered'
  BY <1>1, <1>2, <1>5
     DEF BookingsInv, OneHoldsTheKey, CodeIsShared, PricedAsShown, RetryIsAnswered, HoldsKey, HoldsCode
<1>7. NothingEarlier'
  <2> SUFFICES ASSUME NEW d \in Call, HoldsKey(d)', call'[d].at # "again" PROVE Earlier(d)' = {}
    BY DEF NothingEarlier
  <2>1. d # c /\ call'[d] = call[d] /\ HoldsKey(d) /\ call[d].at # "again"
    BY <1>1, <1>5 DEF HoldsKey
  <2>2. Earlier(d) = {}
    BY <2>1 DEF BookingsInv, NothingEarlier
  <2>3. ASSUME NEW r \in rides' \ rides, call[d].key # None, r.key = call[d].key PROVE FALSE
    BY <2>1, <2>3 DEF BookingsInv, OneHoldsTheKey
  <2> QED
    BY <2>1, <2>2, <2>3 DEF Earlier
<1>8. AnswersAreOwn'
  <2>1. ASSUME NEW d \in Call, call'[d].at = "answered"
        PROVE  \E r \in rides' : r.by = call'[d].ride /\ r.key = call'[d].key /\ r.body = call'[d].body
    <3>1. CASE d = c
      BY <1>1, <2>1, <3>1 DEF EndsWell
    <3>2. CASE d # c
      BY <1>1, <2>1, <3>2 DEF BookingsInv, AnswersAreOwn
    <3> QED
      BY <3>1, <3>2
  <2> QED
    BY <2>1 DEF AnswersAreOwn
<1> QED
  BY <1>3, <1>4, <1>6, <1>7, <1>8 DEF BookingsInv

LEMMA CallThatGivesUp ==
  ASSUME BookingsInv, NEW c \in Call, NEW at \in Ended \ {"duplicate", "answered"},
         Ends(c, at, None), call[c].at # "new", UNCHANGED <<entry, rides, form>>
  PROVE  BookingsInv'
<1>1. EndsWell(c, at, None)
  BY DEF EndsWell
<1>2. rides \subseteq RideRow /\ \A r, s \in rides : r.key # None /\ r.key = s.key => r = s
  BY DEF BookingsInv, BookingsTypeOK, AnswersAreOwn
<1> QED
  BY <1>1, <1>2, CallThatEnds

\* A call that is found to repeat an earlier one.
LEMMA CallThatRepeats ==
  ASSUME BookingsInv, NEW c \in Call, Repeats(c), call[c].at # "new", UNCHANGED <<entry, rides, form>>
  PROVE  BookingsInv'
<1>1. PICK r \in Earlier(c) :
        IF r.body = call[c].body THEN Ends(c, "answered", r.by) ELSE Ends(c, "conflict", None)
  BY DEF Repeats
<1>2. r \in rides /\ r.key = call[c].key /\ r.by \in Call
  BY <1>1 DEF Earlier, BookingsInv, BookingsTypeOK, RideRow
<1>3. rides \subseteq RideRow /\ \A q, s \in rides : q.key # None /\ q.key = s.key => q = s
  BY DEF BookingsInv, BookingsTypeOK, AnswersAreOwn
<1>4. CASE r.body = call[c].body
  <2>1. EndsWell(c, "answered", r.by)
    BY <1>1, <1>2, <1>4 DEF EndsWell, Ended
  <2> QED
    BY <1>3, <2>1, CallThatEnds
<1>5. CASE r.body # call[c].body
  BY <1>1, <1>5, CallThatGivesUp DEF Ended
<1> QED
  BY <1>4, <1>5

\* A call that goes on, with what it holds at its new place.
LEMMA CallThatGoesOn ==
  ASSUME BookingsInv, NEW c \in Call, UNCHANGED <<entry, rides, form>>,
         NEW new, call' = [call EXCEPT ![c] = new],
         new \in [at : Phase \ Ended, key : Key \cup {None}, body : Body, shown : Price, price : Price,
                  ride : Call \cup {None}],
         new.at # "new",
         new.at = "again" => KeyFree(new.key) \/ HoldsKey(c),
         new.at \in {"code", "check", "insert"} =>
           HoldsKey(c) /\ {r \in rides : new.key # None /\ r.key = new.key} = {},
         HoldsKey(c) => new.key = call[c].key,
         new.at \in {"check", "insert"} => CodeShareable,
         new.at \in {"probe", "begin", "again", "code", "check", "insert"} =>
           new.shown = None \/ new.price = new.shown,
         new.at = "insert" => entry.active /\ new.price = entry.version
  PROVE  BookingsInv'
<1>1. \A d \in Call : call'[d] = IF d = c THEN new ELSE call[d]
  BY DEF BookingsInv, BookingsTypeOK
<1>2. BookingsTypeOK'
  BY DEF BookingsInv, BookingsTypeOK
<1>3. SentBodies'
  BY <1>1 DEF BookingsInv, SentBodies
<1>4. OneHoldsTheKey'
  <2> SUFFICES ASSUME NEW d \in Call, d # c, HoldsKey(c)', HoldsKey(d)', new.key # None,
                      new.key = call[d].key
               PROVE  FALSE
    BY <1>1 DEF BookingsInv, OneHoldsTheKey, HoldsKey
  <2>1. HoldsKey(d)
    BY <1>1 DEF HoldsKey
  <2>2. CASE HoldsKey(c)
    BY <2>1, <2>2 DEF BookingsInv, OneHoldsTheKey
  <2>3. CASE ~HoldsKey(c)
    BY <1>1, <2>1, <2>3 DEF HoldsKey, KeyFree
  <2> QED
    BY <2>2, <2>3
<1>5. NothingEarlier'
  <2> SUFFICES ASSUME NEW d \in Call, HoldsKey(d)', call'[d].at # "again" PROVE Earlier(d)' = {}
    BY DEF NothingEarlier
  <2>1. CASE d = c
    BY <1>1, <2>1 DEF HoldsKey, Earlier
  <2>2. CASE d # c
    BY <1>1, <2>2 DEF BookingsInv, NothingEarlier, HoldsKey, Earlier
  <2> QED
    BY <2>1, <2>2
<1>6. CodeIsShared'
  BY <1>1 DEF BookingsInv, CodeIsShared, HoldsCode, CodeShareable
<1>7. PricedAsShown'
  BY <1>1 DEF BookingsInv, PricedAsShown
<1>8. AnswersAreOwn' /\ RetryIsAnswered'
  BY <1>1 DEF BookingsInv, AnswersAreOwn, RetryIsAnswered, Ended
<1> QED
  BY <1>2, <1>3, <1>4, <1>5, <1>6, <1>7, <1>8 DEF BookingsInv

\* What a call in progress is, for the steps that move it on.
LEMMA CallFits ==
  ASSUME BookingsInv, NEW c \in Call, call[c].at # "new"
  PROVE  /\ call[c] \in [at : Phase, key : Key \cup {None}, body : Body, shown : Price, price : Price,
                         ride : Call \cup {None}]
         /\ Earlier(c) = {r \in rides : call[c].key # None /\ r.key = call[c].key}
BY DEF BookingsInv, BookingsTypeOK, SentBodies, Earlier

\* Going on to `at` changes nothing else of a call.
LEMMA CallMoves ==
  ASSUME BookingsInv, NEW c \in Call, NEW at, Moves(c, at), call[c].at # "new",
         UNCHANGED <<entry, rides, form>>,
         at \in {"estimate", "begin", "again", "code", "check", "insert"},
         at = "again" => KeyFree(call[c].key),
         at \in {"code", "check", "insert"} => HoldsKey(c) /\ Earlier(c) = {},
         at \in {"check", "insert"} => CodeShareable,
         at # "estimate" => call[c].shown = None \/ call[c].price = call[c].shown,
         at = "insert" => entry.active /\ call[c].price = entry.version
  PROVE  BookingsInv'
<1> DEFINE new == [call[c] EXCEPT !.at = at]
<1>1. call[c] \in [at : Phase, key : Key \cup {None}, body : Body, shown : Price, price : Price,
                   ride : Call \cup {None}]
  BY CallFits
<1>2. at \in Phase \ Ended
  BY DEF Phase, Ended
<1>3. /\ new \in [at : Phase \ Ended, key : Key \cup {None}, body : Body, shown : Price,
                  price : Price, ride : Call \cup {None}]
      /\ new.at = at /\ new.key = call[c].key /\ new.shown = call[c].shown
      /\ new.price = call[c].price
  BY <1>1, <1>2
<1>4. call' = [call EXCEPT ![c] = new]
  BY DEF Moves
<1> HIDE DEF new
<1>5. {r \in rides : new.key # None /\ r.key = new.key} = Earlier(c)
  BY <1>3 DEF Earlier
<1> QED
  BY <1>3, <1>4, <1>5, CallThatGoesOn

LEMMA StepOfSubmit ==
  ASSUME BookingsInv, NEW c \in Call, NEW k \in Key \cup {None}, NEW b \in Body,
         NEW shown \in {None, entry.version}, Submit(c, k, b, shown)
  PROVE  BookingsInv'
<1> DEFINE new == [call[c] EXCEPT !.at = "find", !.key = k, !.body = b, !.shown = shown]
<1>1. call[c] \in [at : Phase, key : Key \cup {None}, body : Body \cup {None}, shown : Price,
                   price : Price, ride : Call \cup {None}]
      /\ entry.version \in Version /\ call[c].at = "new"
  BY DEF BookingsInv, BookingsTypeOK, Submit
<1>2. /\ new \in [at : Phase \ Ended, key : Key \cup {None}, body : Body, shown : Price,
                  price : Price, ride : Call \cup {None}]
      /\ new.at = "find"
  BY <1>1 DEF Phase, Ended, Price
<1>3. call' = [call EXCEPT ![c] = new] /\ UNCHANGED <<entry, rides, form>>
  BY DEF Submit
<1>4. ~HoldsKey(c)
  BY <1>1 DEF HoldsKey
<1> HIDE DEF new
<1> QED
  BY <1>2, <1>3, <1>4, CallThatGoesOn

LEMMA StepOfFind ==
  ASSUME BookingsInv, NEW c \in Call, Find(c) \/ FindAgain(c)
  PROVE  BookingsInv'
<1>1. CASE Repeats(c)
  BY <1>1, CallThatRepeats DEF Find, FindAgain
<1>2. CASE ~Repeats(c)
  <2>1. CASE Find(c)
    BY <1>2, <2>1, CallMoves DEF Find
  <2>2. CASE FindAgain(c)
    <3>1. HoldsKey(c) /\ Earlier(c) = {} /\ Moves(c, "code")
          /\ (call[c].shown = None \/ call[c].price = call[c].shown)
      BY <1>2, <2>2 DEF FindAgain, HoldsKey, BookingsInv, PricedAsShown
    <3> QED
      BY <2>2, <3>1, CallMoves DEF FindAgain
  <2> QED
    BY <2>1, <2>2
<1> QED
  BY <1>1, <1>2

LEMMA StepOfEstimate ==
  ASSUME BookingsInv, NEW c \in Call, Estimate(c)
  PROVE  BookingsInv'
<1>1. call[c].at = "estimate" /\ UNCHANGED <<entry, rides, form>>
  BY DEF Estimate
<1>2. CASE Ends(c, "unavailable", None) \/ Ends(c, "changed", None)
  BY <1>1, <1>2, CallThatGivesUp DEF Ended
<1>3. CASE QuoteStands(c) /\ call' = [call EXCEPT ![c] = [@ EXCEPT !.at = "probe", !.price = entry.version]]
  <2> DEFINE new == [call[c] EXCEPT !.at = "probe", !.price = entry.version]
  <2>1. call[c] \in [at : Phase, key : Key \cup {None}, body : Body, shown : Price, price : Price,
                     ride : Call \cup {None}]
        /\ entry.version \in Version
    BY <1>1, CallFits DEF BookingsInv, BookingsTypeOK
  <2>2. /\ new \in [at : Phase \ Ended, key : Key \cup {None}, body : Body, shown : Price,
                    price : Price, ride : Call \cup {None}]
        /\ new.at = "probe" /\ new.shown = call[c].shown /\ new.price = entry.version
    BY <2>1 DEF Phase, Ended, Price
  <2>3. new.shown = None \/ new.price = new.shown
    BY <1>3, <2>2 DEF QuoteStands
  <2>4. call' = [call EXCEPT ![c] = new] /\ ~HoldsKey(c)
    BY <1>1, <1>3 DEF HoldsKey
  <2> HIDE DEF new
  <2> QED
    BY <1>1, <2>2, <2>3, <2>4, CallThatGoesOn
<1> QED
  BY <1>2, <1>3 DEF Estimate

LEMMA StepOfWait ==
  ASSUME BookingsInv, NEW c \in Call, Probe(c) \/ LockRequest(c) \/ LockCode(c)
  PROVE  BookingsInv'
<1>1. call[c].at \in {"probe", "begin", "code"} /\ UNCHANGED <<entry, rides, form>>
      /\ (call[c].shown = None \/ call[c].price = call[c].shown)
  BY DEF Probe, LockRequest, LockCode, BookingsInv, PricedAsShown
<1>2. CASE Probe(c)
  <2>1. CASE Moves(c, "begin")
    BY <1>1, <2>1, CallMoves
  <2>2. CASE Ends(c, "no_drivers", None)
    BY <1>1, <2>2, CallThatGivesUp DEF Ended
  <2> QED
    BY <1>2, <2>1, <2>2 DEF Probe
<1>3. CASE LockRequest(c)
  BY <1>1, <1>3, CallMoves DEF LockRequest
<1>4. CASE LockCode(c)
  <2>1. HoldsKey(c) /\ Earlier(c) = {} /\ CodeShareable /\ Moves(c, "check")
    BY <1>4 DEF LockCode, HoldsKey, BookingsInv, NothingEarlier
  <2> QED
    BY <1>1, <2>1, CallMoves
<1> QED
  BY <1>2, <1>3, <1>4

LEMMA StepOfRecheck ==
  ASSUME BookingsInv, NEW c \in Call, Recheck(c)
  PROVE  BookingsInv'
<1>1. call[c].at = "check" /\ UNCHANGED <<entry, rides, form>>
  BY DEF Recheck
<1>2. CASE Ends(c, "unavailable", None) \/ Ends(c, "changed", None)
  BY <1>1, <1>2, CallThatGivesUp DEF Ended
<1>3. CASE Bookable /\ SamePrice(c) /\ Moves(c, "insert")
  <2>1. /\ HoldsKey(c) /\ Earlier(c) = {} /\ CodeShareable
        /\ (call[c].shown = None \/ call[c].price = call[c].shown)
    BY <1>1 DEF HoldsKey, HoldsCode, CodeShareable, BookingsInv, NothingEarlier, CodeIsShared, PricedAsShown
  <2>2. entry.active /\ call[c].price = entry.version
    BY <1>3 DEF Bookable, SamePrice
  <2> QED
    BY <1>1, <1>3, <2>1, <2>2, CallMoves
<1> QED
  BY <1>2, <1>3 DEF Recheck

\* The insert finds no row of its request id, so it is never refused.
LEMMA StepOfInsert ==
  ASSUME BookingsInv, NEW c \in Call, Insert(c)
  PROVE  BookingsInv'
<1>1. call[c].at = "insert" /\ HoldsKey(c) /\ Earlier(c) = {}
  BY DEF Insert, HoldsKey, BookingsInv, NothingEarlier
<1>2. rides' = rides \cup {Row(c)} /\ Ends(c, "answered", c) /\ UNCHANGED <<entry, form>>
  BY <1>1 DEF Insert
<1>3. call[c].price = entry.version /\ entry.version \in Version
  BY <1>1 DEF BookingsInv, PricedAsShown, BookingsTypeOK
<1>4. Row(c) \in RideRow
  BY <1>1, <1>3, CallFits DEF Row, RideRow
<1>5. Row(c).by = c /\ Row(c).key = call[c].key /\ Row(c).body = call[c].body
  BY DEF Row
<1>6. rides' \subseteq RideRow
  BY <1>2, <1>4 DEF BookingsInv, BookingsTypeOK
<1>7. \A r, s \in rides' : r.key # None /\ r.key = s.key => r = s
  BY <1>1, <1>2, <1>5 DEF BookingsInv, AnswersAreOwn, Earlier
<1>8. EndsWell(c, "answered", c)
  BY <1>1, <1>2, <1>5 DEF EndsWell, Ended
<1>9. \A r \in rides' \ rides : HoldsKey(c) /\ r.key = call[c].key
  BY <1>1, <1>2, <1>5
<1> QED
  BY <1>2, <1>6, <1>7, <1>8, <1>9, CallThatEnds

LEMMA StepOfCutOff ==
  ASSUME BookingsInv, NEW c \in Call, CutOff(c)
  PROVE  BookingsInv'
BY CallThatGivesUp DEF CutOff, Ended

LEMMA StepOfEditor ==
  ASSUME BookingsAssumption, BookingsInv, NEW a \in Editor, Open(a) \/ EditStep(a)
  PROVE  BookingsInv'
<1>1. UNCHANGED <<rides, call>> /\ entry \in [version : Version, active : BOOLEAN]
      /\ form \in [Editor -> [at : {"closed", "open", "begun"}, read : Version]]
  BY DEF BookingsInv, BookingsTypeOK, Open, EditStep, LockEntry, Save
<1>2. SentBodies' /\ OneHoldsTheKey' /\ NothingEarlier' /\ AnswersAreOwn' /\ RetryIsAnswered'
  BY <1>1 DEF BookingsInv, SentBodies, OneHoldsTheKey, NothingEarlier, AnswersAreOwn, RetryIsAnswered,
              HoldsKey, Earlier
<1>3. SUFFICES /\ entry' \in [version : Version, active : BOOLEAN]
               /\ form' \in [Editor -> [at : {"closed", "open", "begun"}, read : Version]]
               /\ CodeIsShared' /\ PricedAsShown'
  BY <1>1, <1>2 DEF BookingsInv, BookingsTypeOK
<1>4. CASE Open(a)
  BY <1>1, <1>4 DEF Open, BookingsInv, CodeIsShared, PricedAsShown, HoldsCode
<1>5. CASE LockEntry(a)
  BY <1>1, <1>5 DEF LockEntry, CodeFree, BookingsInv, CodeIsShared, PricedAsShown, HoldsCode
<1>6. ASSUME NEW active \in BOOLEAN, Save(a, active)
      PROVE  /\ entry' \in [version : Version, active : BOOLEAN]
             /\ form' \in [Editor -> [at : {"closed", "open", "begun"}, read : Version]]
             /\ CodeIsShared' /\ PricedAsShown'
  <2>1. /\ form[a].at = "begun" /\ form' = [form EXCEPT ![a] = Closed]
        /\ \A c \in Call : ~HoldsCode(c)
    BY <1>6 DEF Save, BookingsInv, CodeIsShared
  <2>2. entry' \in [version : Version, active : BOOLEAN] /\ 0 \in Version
    <3>1. entry.version < MaxVersion => entry.version + 1 \in Version
      BY <1>1 DEF BookingsAssumption, Version
    <3>2. 0 \in Version
      BY DEF BookingsAssumption, Version
    <3> QED
      BY <1>1, <1>6, <3>1, <3>2 DEF Save
  <2>3. CodeIsShared' /\ PricedAsShown'
    BY <1>1, <2>1 DEF BookingsInv, CodeIsShared, PricedAsShown, HoldsCode
  <2> QED
    BY <1>1, <2>1, <2>2, <2>3 DEF Closed
<1> QED
  BY <1>4, <1>5, <1>6 DEF EditStep

LEMMA BookingsStep ==
  ASSUME BookingsAssumption
  PROVE  BookingsInv /\ [BookingsNext]_bookingVars => BookingsInv'
<1> SUFFICES ASSUME BookingsInv, [BookingsNext]_bookingVars PROVE BookingsInv'
  OBVIOUS
<1>1. CASE BookingsNext
  BY <1>1, StepOfSubmit, StepOfFind, StepOfEstimate, StepOfWait, StepOfRecheck, StepOfInsert,
     StepOfCutOff, StepOfEditor DEF BookingsNext, CallStep
<1>2. CASE UNCHANGED bookingVars
  BY <1>2 DEF bookingVars, BookingsInv, BookingsTypeOK, SentBodies, OneHoldsTheKey, NothingEarlier,
     CodeIsShared, PricedAsShown, AnswersAreOwn, RetryIsAnswered, HoldsKey, HoldsCode, Earlier
<1> QED
  BY <1>1, <1>2

LEMMA RowsAreAtTariff ==
  ASSUME BookingsInv, [BookingsNext]_bookingVars, NEW r \in rides' \ rides
  PROVE  entry.active /\ r.price = entry.version /\ (r.shown # None => r.price = r.shown)
<1>1. PICK c \in Call : Insert(c)
  BY DEF BookingsNext, bookingVars, CallStep, EditStep, Submit, Find, Estimate, Probe, LockRequest,
         FindAgain, LockCode, Recheck, CutOff, Open, LockEntry, Save
<1>2. call[c].at = "insert" /\ r = Row(c)
  BY <1>1 DEF Insert
<1> QED
  BY <1>2 DEF BookingsInv, PricedAsShown, Row

\* A booking that is sent again is answered with its own ride, which exists once and was stored
\* at the tariff in force and shown, however the requests and the edits interleave:
\* AnswersAreOwn, RetryIsAnswered and BookedAtTariff.
THEOREM BookingsAreSound ==
  ASSUME BookingsAssumption
  PROVE  BookingsSpec => [](AnswersAreOwn /\ RetryIsAnswered) /\ BookedAtTariff
<1>1. BookingsInit => BookingsInv
  BY InitBookings
<1>2. BookingsInv /\ [BookingsNext]_bookingVars => BookingsInv'
  BY BookingsStep
<1>3. BookingsInv => AnswersAreOwn /\ RetryIsAnswered
  BY DEF BookingsInv
<1>4. BookingsInv /\ [BookingsNext]_bookingVars =>
        [\A r \in rides' \ rides :
           /\ entry.active /\ r.price = entry.version
           /\ r.shown # None => r.price = r.shown]_bookingVars
  BY RowsAreAtTariff
<1> QED
  BY <1>1, <1>2, <1>3, <1>4, PTL DEF BookingsSpec, BookedAtTariff

-----------------------------------------------------------------------------
(* Maps.  A token is given once, so a service that still holds the lock    *)
(* has held it since it took it, and nothing was published meanwhile.      *)
Flight == [step : Steps, token : 0..MaxTokens, attempt : 0..MaxRetries, answer : 0..MaxAnswers]
Unlocking == {"none", "read", "lock", "poll", "retry"}

\* Nothing is numbered past its counter.
CountersAhead ==
  /\ lock <= tokens /\ (cached # Corrupt => cached <= answers)
  /\ \A s \in Services : flight[s].token <= tokens /\ flight[s].answer <= answers

TokensDiffer ==
  \A s, t \in Services : s # t /\ flight[s].token = flight[t].token => flight[s].token = NoToken

\* A flight has a token from when it took the lock; while the cache works no flight gets past the
\* lock without one.
TokensFollow ==
  /\ failures = 0 => avoids = {}
  /\ \A s \in Services :
       /\ flight[s].step \in Unlocking => flight[s].token = NoToken
       /\ failures = 0 /\ Cacheable /\ flight[s].step \notin Unlocking => flight[s].token # NoToken
       /\ flight[s].step = "publish" => Cacheable

\* While no lock expires under its owner, whoever has a token has the lock.
LockIsHeld ==
  failures = 0 /\ expiries = 0 =>
    \A s \in Services : flight[s].token # NoToken => flight[s].token = lock

LoadMisses ==
  Cacheable /\ failures = 0 /\ expiries = 0 => \A s \in Services : At(s, "load") => ~Hit

\* What the holder of the lock is about to publish is newer than what is cached.
HolderIsNewest ==
  failures = 0 =>
    \A s \in Services : At(s, "publish") /\ flight[s].token = lock /\ cached # Corrupt
                          => cached <= flight[s].answer

MapInv ==
  /\ MapTypeOK /\ CountersAhead /\ TokensDiffer /\ TokensFollow /\ LockIsHeld /\ LoadMisses
  /\ HolderIsNewest

LEMMA MapHolds == MapInv => PaidOnce
<1> SUFFICES ASSUME MapInv, Cacheable, failures = 0, expiries = 0, NEW s \in Services, At(s, "load")
             PROVE  ~Hit /\ \A t \in Services \ {s} : ~At(t, "load")
  BY DEF PaidOnce
<1>1. ~Hit
  BY DEF MapInv, LoadMisses
<1>2. ASSUME NEW t \in Services \ {s}, At(t, "load") PROVE FALSE
  BY <1>2 DEF MapInv, TokensFollow, LockIsHeld, TokensDiffer, Unlocking, At
<1> QED
  BY <1>1, <1>2

LEMMA InitMap == ASSUME MapAssumption, MapInit PROVE MapInv
<1>1. MapTypeOK
  <2>1. NoFlight \in Flight
    BY DEF MapAssumption, NoFlight, Flight, Steps, NoToken, NoEntry
  <2>2. cached \in 0..(MaxAnswers + 1)
    BY DEF MapAssumption, MapInit, NoEntry, Corrupt
  <2> QED
    BY <2>1, <2>2 DEF MapAssumption, MapInit, MapTypeOK, Flight, NoFlight, NoToken
<1> QED
  BY <1>1 DEF MapInit, MapInv, CountersAhead, TokensDiffer, TokensFollow, LockIsHeld, LoadMisses,
              HolderIsNewest, NoFlight, NoToken, NoEntry, At, Unlocking

-----------------------------------------------------------------------------
(* A step of one flight, which goes on as `new`: what it may do to the     *)
(* lock, the entry and its token.                                          *)
OneFlight(s, new) ==
  /\ flight' = [flight EXCEPT ![s] = new]
  /\ kind' = kind
  /\ failures <= failures' /\ expiries <= expiries' /\ answers <= answers' /\ tokens <= tokens'
  /\ failures' = 0 => avoids' = {}

TokenFits(s, new) ==
  /\ new.token \in {NoToken, flight[s].token} \/ (new.token = tokens' /\ tokens < tokens')
  /\ new.step \in Unlocking => new.token = NoToken
  /\ failures' = 0 /\ Cacheable /\ new.step \notin Unlocking => new.token # NoToken
  /\ failures' = 0 /\ expiries' = 0 /\ new.token # NoToken => new.token = lock'

LockFits(s, new) ==
  /\ lock' \in {lock, NoToken} \/ (lock' = tokens' /\ tokens < tokens')
  /\ failures' = 0 /\ expiries' = 0 /\ lock' # lock =>
       \A t \in Services \ {s} : flight[t].token = NoToken

EntryFits(s, new) ==
  /\ new.answer <= answers'
  /\ new.step = "publish" => Cacheable
  /\ \/ cached' \in {cached, NoEntry}
     \/ /\ cached' = flight[s].answer
        /\ failures' = 0 => flight[s].token = lock /\ lock # NoToken
  /\ Cacheable /\ failures' = 0 /\ expiries' = 0 /\ new.step = "load" => ~Hit'
  /\ failures' = 0 /\ new.step = "publish" /\ new.token = lock' /\ cached' # Corrupt
       => cached' <= new.answer

LEMMA FlightStep ==
  ASSUME MapAssumption, MapInv, MapTypeOK', NEW s \in Services, NEW new,
         OneFlight(s, new), TokenFits(s, new), LockFits(s, new), EntryFits(s, new)
  PROVE  MapInv'
<1>1. /\ \A t \in Services : flight'[t] = IF t = s THEN new ELSE flight[t]
      /\ Cacheable' = Cacheable
  BY DEF MapInv, MapTypeOK, OneFlight, Cacheable
<1>2. /\ failures \in Nat /\ failures' \in Nat /\ expiries \in Nat /\ expiries' \in Nat
      /\ answers \in Nat /\ answers' \in Nat /\ tokens \in Nat /\ tokens' \in Nat
      /\ lock \in Nat /\ lock' \in Nat /\ cached \in Nat /\ cached' \in Nat
  BY DEF MapAssumption, MapInv, MapTypeOK
<1>3. \A t \in Services : flight[t].token \in Nat /\ flight[t].answer \in Nat
  BY DEF MapAssumption, MapInv, MapTypeOK
<1>4. (failures' = 0 => failures = 0) /\ (expiries' = 0 => expiries = 0)
  BY <1>2 DEF OneFlight
<1>5. new.token <= tokens' /\ new.token \in Nat
  BY <1>2, <1>3 DEF TokenFits, OneFlight, MapInv, CountersAhead, NoToken
<1>6. CountersAhead'
  <2>1. lock' <= tokens'
    BY <1>2 DEF LockFits, OneFlight, MapInv, CountersAhead, NoToken
  <2>2. cached' # Corrupt => cached' <= answers'
    <3>1. answers <= answers' /\ flight[s].answer <= answers
          /\ (cached # Corrupt => cached <= answers)
      BY DEF OneFlight, MapInv, CountersAhead
    <3>2. CASE cached' = cached
      BY <1>2, <3>1, <3>2
    <3>3. CASE cached' = NoEntry
      BY <1>2, <3>3 DEF NoEntry
    <3>4. CASE cached' = flight[s].answer
      BY <1>2, <1>3, <3>1, <3>4
    <3> QED
      BY <3>2, <3>3, <3>4 DEF EntryFits
  <2>3. \A t \in Services : flight'[t].token <= tokens' /\ flight'[t].answer <= answers'
    BY <1>1, <1>2, <1>3, <1>5 DEF OneFlight, EntryFits, MapInv, CountersAhead
  <2> QED
    BY <2>1, <2>2, <2>3 DEF CountersAhead, Corrupt
<1>7. TokensDiffer'
  <2>1. ASSUME NEW t \in Services, t # s, new.token = flight[t].token PROVE new.token = NoToken
    <3>1. flight[t].token <= tokens
      BY DEF MapInv, CountersAhead
    <3>2. ~(new.token = tokens' /\ tokens < tokens')
      BY <1>2, <1>3, <2>1, <3>1
    <3> QED
      BY <2>1, <3>2 DEF TokenFits, MapInv, TokensDiffer
  <2> QED
    BY <1>1, <2>1 DEF MapInv, TokensDiffer, NoToken
<1>8. TokensFollow'
  BY <1>1, <1>4 DEF OneFlight, TokenFits, EntryFits, MapInv, TokensFollow
<1>9. LockIsHeld'
  BY <1>1, <1>4 DEF TokenFits, LockFits, MapInv, LockIsHeld, NoToken
<1>10. LoadMisses'
  <2> SUFFICES ASSUME Cacheable, failures' = 0, expiries' = 0, NEW t \in Services,
                      flight'[t].step = "load"
               PROVE  ~Hit'
    BY <1>1 DEF LoadMisses, At
  <2>1. CASE t = s
    BY <1>1, <2>1 DEF EntryFits
  <2>2. CASE t # s
    <3>1. flight[t].step = "load" /\ flight[t].token # NoToken /\ flight[t].token = lock
      BY <1>1, <1>4, <2>2 DEF MapInv, TokensFollow, LockIsHeld, Unlocking
    <3>2. flight[s].token # lock
      BY <2>2, <3>1 DEF MapInv, TokensDiffer
    <3> QED
      BY <1>4, <3>1, <3>2 DEF EntryFits, MapInv, LoadMisses, At, Hit, Corrupt, NoEntry
  <2> QED
    BY <2>1, <2>2
<1>11. HolderIsNewest'
  <2> SUFFICES ASSUME failures' = 0, NEW t \in Services, flight'[t].step = "publish",
                      flight'[t].token = lock', cached' # Corrupt
               PROVE  cached' <= flight'[t].answer
    BY DEF HolderIsNewest, At, Corrupt
  <2>1. CASE t = s
    BY <1>1, <2>1 DEF EntryFits
  <2>2. CASE t # s
    <3>1. flight'[t] = flight[t] /\ flight[t].token # NoToken /\ flight[t].token <= tokens
      BY <1>1, <1>4, <2>2 DEF MapInv, TokensFollow, Unlocking, CountersAhead
    <3>2. lock' = lock
      BY <1>2, <1>3, <3>1 DEF LockFits
    <3>3. flight[s].token # lock
      BY <2>2, <3>1, <3>2 DEF MapInv, TokensDiffer
    <3>4. cached' \in {cached, NoEntry}
      BY <3>3 DEF EntryFits
    <3> QED
      BY <1>3, <1>4, <3>1, <3>2, <3>4 DEF MapInv, HolderIsNewest, At, NoEntry
  <2> QED
    BY <2>1, <2>2
<1> QED
  BY <1>6, <1>7, <1>8, <1>9, <1>10, <1>11 DEF MapInv

\* What a flight is.
LEMMA FlightFits ==
  ASSUME MapAssumption, MapInv, NEW s \in Services
  PROVE  /\ flight \in [Services -> Flight] /\ flight[s] \in Flight
         /\ flight[s].step \in Steps /\ flight[s].token \in 0..MaxTokens
         /\ flight[s].attempt \in 0..MaxRetries /\ flight[s].answer \in 0..MaxAnswers
         /\ NoFlight \in Flight /\ callers \in [Services -> 0..MaxCallers]
<1>1. flight \in [Services -> Flight] /\ callers \in [Services -> 0..MaxCallers]
  BY DEF MapInv, MapTypeOK, Flight
<1>2. NoFlight \in Flight
  BY DEF MapAssumption, NoFlight, Flight, Steps, NoToken, NoEntry
<1>3. flight[s] \in Flight
  BY <1>1
<1> QED
  BY <1>1, <1>2, <1>3 DEF Flight

\* The type of the state after a step of one flight.
LEMMA FlightTyped ==
  ASSUME MapAssumption, MapInv, NEW s \in Services, NEW new \in Flight, OneFlight(s, new),
         callers' \in [Services -> 0..MaxCallers],
         \A t \in Services \ {s} : callers'[t] = callers[t],
         callers'[s] > 0 <=> new.step # "none",
         cached' \in 0..(MaxAnswers + 1), lock' \in 0..MaxTokens, avoids' \subseteq Services,
         answers' \in 0..MaxAnswers, tokens' \in 0..MaxTokens,
         failures' \in 0..MaxFaults, expiries' \in 0..MaxFaults
  PROVE  MapTypeOK'
<1>1. flight' \in [Services -> Flight]
      /\ \A t \in Services : flight'[t] = IF t = s THEN new ELSE flight[t]
  BY FlightFits DEF OneFlight
<1>2. \A t \in Services : callers'[t] > 0 <=> flight'[t].step # "none"
  BY <1>1 DEF MapInv, MapTypeOK
<1> QED
  BY <1>1, <1>2 DEF OneFlight, MapInv, MapTypeOK, Flight

\* The ways a flight goes on or lands.
LEMMA Going ==
  ASSUME MapAssumption, MapInv, NEW s \in Services, NEW step \in Steps, Go(s, step)
  PROVE  \E new \in Flight :
           /\ flight' = [flight EXCEPT ![s] = new]
           /\ new.step = step /\ new.token = flight[s].token /\ new.answer = flight[s].answer
<1> DEFINE new == [flight[s] EXCEPT !.step = step]
<1>1. new \in Flight /\ new.step = step /\ new.token = flight[s].token
      /\ new.answer = flight[s].answer
  BY FlightFits DEF Flight
<1>2. flight' = [flight EXCEPT ![s] = new]
  BY DEF Go
<1> QED
  BY <1>1, <1>2

\* Nothing that a flight shares with the others has moved.
Undisturbed == Redis /\ Provider /\ UNCHANGED <<kind, tokens>>

\* A flight that keeps its token and touches nothing shared.
LEMMA QuietMove ==
  ASSUME MapAssumption, MapInv, NEW s \in Services, NEW step \in Steps, Go(s, step), Undisturbed,
         callers' \in [Services -> 0..MaxCallers],
         \A t \in Services \ {s} : callers'[t] = callers[t],
         callers'[s] > 0 <=> step # "none",
         failures' \in 0..MaxFaults, expiries' \in 0..MaxFaults,
         failures <= failures', expiries <= expiries',
         avoids' \subseteq Services, failures' = 0 => avoids' = {},
         step \in Unlocking => flight[s].token = NoToken,
         failures' = 0 /\ Cacheable /\ step \notin Unlocking => flight[s].token # NoToken,
         step # "publish",
         Cacheable /\ failures' = 0 /\ expiries' = 0 /\ step = "load" => ~Hit
  PROVE  MapInv'
<1>1. PICK new \in Flight :
        /\ flight' = [flight EXCEPT ![s] = new]
        /\ new.step = step /\ new.token = flight[s].token /\ new.answer = flight[s].answer
  BY Going
<1>2. UNCHANGED <<kind, cached, lock, answers, tokens>>
  BY DEF Undisturbed, Redis, Provider
<1>3. /\ answers \in 0..MaxAnswers /\ tokens \in 0..MaxTokens /\ lock \in 0..MaxTokens
      /\ cached \in 0..(MaxAnswers + 1) /\ answers <= answers /\ tokens <= tokens
  BY DEF MapAssumption, MapInv, MapTypeOK
<1>4. OneFlight(s, new)
  BY <1>1, <1>2, <1>3 DEF OneFlight
<1>5. MapTypeOK'
  BY <1>1, <1>2, <1>3, <1>4, FlightTyped
<1>6. (failures' = 0 => failures = 0) /\ (expiries' = 0 => expiries = 0)
  <2>1. failures \in Nat /\ failures' \in Nat /\ expiries \in Nat /\ expiries' \in Nat
    BY DEF MapAssumption, MapInv, MapTypeOK
  <2> QED
    BY <2>1
<1>7. TokenFits(s, new)
  BY <1>1, <1>2, <1>6 DEF TokenFits, MapInv, LockIsHeld
<1>8. LockFits(s, new)
  BY <1>2 DEF LockFits
<1>9. EntryFits(s, new)
  BY <1>1, <1>2 DEF EntryFits, MapInv, CountersAhead, Hit, Corrupt
<1> QED
  BY <1>4, <1>5, <1>7, <1>8, <1>9, FlightStep

\* A flight that lands gives up its token; the lock may be given back with it.
LEMMA LandingMove ==
  ASSUME MapAssumption, MapInv, NEW s \in Services, Land(s),
         lock' = lock \/ (lock' = NoToken /\ lock = flight[s].token),
         UNCHANGED <<kind, tokens>>,
         answers' \in 0..MaxAnswers, answers <= answers',
         cached' \in {cached, NoEntry}
           \/ (cached' = flight[s].answer /\ (failures' = 0 => flight[s].token = lock /\ lock # NoToken)),
         failures' \in 0..MaxFaults, expiries' \in 0..MaxFaults,
         failures <= failures', expiries <= expiries',
         avoids' \subseteq Services, failures' = 0 => avoids' = {}
  PROVE  MapInv'
<1> DEFINE new == NoFlight
<1>1. /\ flight' = [flight EXCEPT ![s] = new] /\ callers' = [callers EXCEPT ![s] = 0]
      /\ new \in Flight /\ new.step = "none" /\ new.token = NoToken /\ new.answer = 0
  BY FlightFits DEF Land, NoFlight, NoEntry
<1> HIDE DEF new
<1>2. /\ callers' \in [Services -> 0..MaxCallers] /\ callers'[s] = 0
      /\ \A t \in Services \ {s} : callers'[t] = callers[t]
  BY <1>1, FlightFits DEF MapAssumption
<1>3. OneFlight(s, new)
  BY <1>1 DEF OneFlight, MapInv, MapTypeOK, MapAssumption
<1>4. cached' \in 0..(MaxAnswers + 1) /\ lock' \in 0..MaxTokens
  <2>1. lock \in 0..MaxTokens /\ 0 \in 0..MaxTokens /\ cached \in 0..(MaxAnswers + 1)
        /\ 0 \in 0..(MaxAnswers + 1)
    BY DEF MapAssumption, MapInv, MapTypeOK
  <2>2. flight[s].answer \in 0..(MaxAnswers + 1)
    BY FlightFits DEF MapAssumption
  <2> QED
    BY <2>1, <2>2 DEF NoEntry, NoToken
<1>5. MapTypeOK'
  BY <1>1, <1>2, <1>3, <1>4, FlightTyped DEF MapInv, MapTypeOK
<1>6. TokenFits(s, new)
  BY <1>1 DEF TokenFits, Unlocking
<1>7. LockFits(s, new)
  <2> SUFFICES ASSUME failures' = 0, expiries' = 0, lock' # lock, NEW t \in Services \ {s}
               PROVE  flight[t].token = NoToken
    BY DEF LockFits
  <2>1. failures = 0 /\ expiries = 0
    BY DEF MapAssumption, MapInv, MapTypeOK
  <2> QED
    BY <2>1 DEF MapInv, LockIsHeld, TokensDiffer
<1>8. EntryFits(s, new)
  <2>1. new.answer <= answers'
    BY <1>1
  <2> QED
    BY <1>1, <2>1 DEF EntryFits
<1> QED
  BY <1>3, <1>5, <1>6, <1>7, <1>8, FlightStep

\* A flight that is over: it lands, or goes on to give the lock back.
LEMMA Finishing ==
  ASSUME MapAssumption, MapInv, NEW s \in Services, Finish(s), flight[s].step # "none",
         UNCHANGED <<kind, lock, tokens>>,
         answers' \in 0..MaxAnswers, answers <= answers',
         cached' \in {cached, NoEntry}
           \/ (cached' = flight[s].answer /\ (failures' = 0 => flight[s].token = lock /\ lock # NoToken)),
         failures' \in 0..MaxFaults, expiries' \in 0..MaxFaults,
         failures <= failures', expiries <= expiries',
         avoids' \subseteq Services, failures' = 0 => avoids' = {}
  PROVE  MapInv'
<1>1. CASE flight[s].token = NoToken
  <2>1. Land(s)
    BY <1>1 DEF Finish
  <2> QED
    BY <2>1, LandingMove
<1>2. CASE flight[s].token # NoToken
  <2>1. Go(s, "unlock") /\ UNCHANGED callers
    BY <1>2 DEF Finish, Waiting
  <2>2. PICK new \in Flight :
          /\ flight' = [flight EXCEPT ![s] = new]
          /\ new.step = "unlock" /\ new.token = flight[s].token /\ new.answer = flight[s].answer
    BY <2>1, Going DEF Steps
  <2>3. /\ lock' \in 0..MaxTokens /\ tokens' \in 0..MaxTokens /\ tokens <= tokens'
        /\ answers \in Nat /\ answers' \in Nat /\ flight[s].answer \in Nat
        /\ callers[s] > 0 /\ cached' \in 0..(MaxAnswers + 1)
    <3>1. cached \in 0..(MaxAnswers + 1) /\ 0 \in 0..(MaxAnswers + 1)
          /\ flight[s].answer \in 0..(MaxAnswers + 1) /\ flight[s].answer \in Nat
      BY FlightFits DEF MapAssumption, MapInv, MapTypeOK
    <3> QED
      BY <3>1 DEF MapAssumption, MapInv, MapTypeOK, NoEntry
  <2>4. OneFlight(s, new)
    BY <2>2, <2>3 DEF OneFlight
  <2>5. MapTypeOK'
    BY <2>1, <2>2, <2>3, <2>4, FlightFits, FlightTyped
  <2>6. (failures' = 0 => failures = 0) /\ (expiries' = 0 => expiries = 0)
    <3>1. failures \in Nat /\ failures' \in Nat /\ expiries \in Nat /\ expiries' \in Nat
      BY DEF MapAssumption, MapInv, MapTypeOK
    <3> QED
      BY <3>1
  <2>7. TokenFits(s, new)
    BY <1>2, <2>2, <2>6 DEF TokenFits, MapInv, LockIsHeld, Unlocking
  <2>8. LockFits(s, new)
    BY DEF LockFits
  <2>9. EntryFits(s, new)
    <3>1. new.answer <= answers'
      BY <2>2, <2>3 DEF MapInv, CountersAhead
    <3> QED
      BY <2>2, <3>1 DEF EntryFits
  <2> QED
    BY <2>4, <2>5, <2>7, <2>8, <2>9, FlightStep
<1> QED
  BY <1>1, <1>2

\* What a step that does not fail leaves of the counters.
LEMMA CountersStay ==
  ASSUME MapAssumption, MapInv
  PROVE  /\ failures \in 0..MaxFaults /\ expiries \in 0..MaxFaults
         /\ failures <= failures /\ expiries <= expiries
         /\ answers \in 0..MaxAnswers /\ answers <= answers
         /\ tokens \in 0..MaxTokens /\ tokens <= tokens /\ lock \in 0..MaxTokens
         /\ cached \in 0..(MaxAnswers + 1) /\ avoids \subseteq Services
         /\ callers \in [Services -> 0..MaxCallers]
         /\ failures = 0 => avoids = {}
  BY DEF MapAssumption, MapInv, MapTypeOK, TokensFollow

-----------------------------------------------------------------------------
LEMMA StepOfRequest ==
  ASSUME MapAssumption, MapInv, NEW s \in Services, Request(s) PROVE MapInv'
<1>1. /\ callers' \in [Services -> 0..MaxCallers] /\ callers'[s] > 0
      /\ \A t \in Services \ {s} : callers'[t] = callers[t]
  BY FlightFits DEF MapAssumption, Request
<1>2. Undisturbed /\ UNCHANGED <<failures, expiries, avoids>>
  BY DEF Request, Undisturbed, Faultless
<1>3. CASE At(s, "none") /\ Cacheable
  <2>1. Go(s, "read") /\ flight[s].token = NoToken
    BY <1>3 DEF Request, At, MapInv, TokensFollow, Unlocking
  <2> QED
    BY <1>1, <1>2, <2>1, CountersStay, QuietMove DEF Steps, Unlocking
<1>4. CASE At(s, "none") /\ ~Cacheable
  <2>1. Go(s, "load") /\ flight[s].token = NoToken
    BY <1>4 DEF Request, At, MapInv, TokensFollow, Unlocking
  <2> QED
    BY <1>1, <1>2, <1>4, <2>1, CountersStay, QuietMove DEF Steps, Unlocking
<1>5. CASE ~At(s, "none")
  <2>1. flight' = flight
    BY <1>5 DEF Request
  <2>2. callers[s] > 0
    BY <1>5 DEF At, MapInv, MapTypeOK
  <2>3. MapTypeOK'
    BY <1>1, <1>2, <2>1, <2>2 DEF MapInv, MapTypeOK, Undisturbed, Redis, Provider
  <2> QED
    BY <1>2, <2>1, <2>3 DEF Undisturbed, Redis, Provider, MapInv, CountersAhead, TokensDiffer,
      TokensFollow, LockIsHeld, LoadMisses, HolderIsNewest, Cacheable, Hit, At
<1> QED
  BY <1>3, <1>4, <1>5

LEMMA StepOfRead ==
  ASSUME MapAssumption, MapInv, NEW s \in Services, Read(s) PROVE MapInv'
<1>1. flight[s].step = "read" /\ Look(s, "lock") /\ flight[s].token = NoToken
  BY DEF Read, At, MapInv, TokensFollow, Unlocking
<1>2. Undisturbed /\ UNCHANGED <<failures, expiries, avoids, kind, lock, tokens, cached, answers>>
  BY <1>1 DEF Look, Undisturbed, Faultless, Redis, Provider
<1>3. CASE Reaches(s) /\ Hit
  BY <1>1, <1>2, <1>3, CountersStay, Finishing DEF Look
<1>4. CASE ~(Reaches(s) /\ Hit)
  <2>1. Go(s, "lock") /\ callers' = callers /\ callers[s] > 0
    BY <1>1, <1>4 DEF Look, Waiting, MapInv, MapTypeOK
  <2> QED
    BY <1>1, <1>2, <2>1, CountersStay, QuietMove DEF Steps, Unlocking
<1> QED
  BY <1>3, <1>4

LEMMA StepOfReread ==
  ASSUME MapAssumption, MapInv, NEW s \in Services, Reread(s) PROVE MapInv'
<1>1. flight[s].step = "reread" /\ Look(s, "load")
      /\ (failures = 0 => Reaches(s))
      /\ (failures = 0 /\ Cacheable => flight[s].token # NoToken)
  BY DEF Reread, At, MapInv, TokensFollow, Unlocking, Reaches
<1>2. Undisturbed /\ UNCHANGED <<failures, expiries, avoids, kind, lock, tokens, cached, answers>>
  BY <1>1 DEF Look, Undisturbed, Faultless, Redis, Provider
<1>3. CASE Reaches(s) /\ Hit
  BY <1>1, <1>2, <1>3, CountersStay, Finishing DEF Look
<1>4. CASE ~(Reaches(s) /\ Hit)
  <2>1. Go(s, "load") /\ callers' = callers /\ callers[s] > 0
    BY <1>1, <1>4 DEF Look, Waiting, MapInv, MapTypeOK
  <2> QED
    BY <1>1, <1>2, <1>4, <2>1, CountersStay, QuietMove DEF Steps, Unlocking
<1> QED
  BY <1>3, <1>4

LEMMA StepOfPoll ==
  ASSUME MapAssumption, MapInv, NEW s \in Services, Poll(s) PROVE MapInv'
<1>1. flight[s].step = "poll" /\ flight[s].token = NoToken
      /\ Look(s, IF Reaches(s) THEN "retry" ELSE "load") /\ (failures = 0 => Reaches(s))
  BY DEF Poll, At, MapInv, TokensFollow, Unlocking, Reaches
<1>2. Undisturbed /\ UNCHANGED <<failures, expiries, avoids, kind, lock, tokens, cached, answers>>
  BY <1>1 DEF Look, Undisturbed, Faultless, Redis, Provider
<1>3. CASE Reaches(s) /\ Hit
  BY <1>1, <1>2, <1>3, CountersStay, Finishing DEF Look
<1>4. CASE Reaches(s) /\ ~Hit
  <2>1. Go(s, "retry") /\ callers' = callers /\ callers[s] > 0
    BY <1>1, <1>4 DEF Look, Waiting, MapInv, MapTypeOK
  <2> QED
    BY <1>1, <1>2, <2>1, CountersStay, QuietMove DEF Steps, Unlocking
<1>5. CASE ~Reaches(s)
  <2>1. Go(s, "load") /\ callers' = callers /\ callers[s] > 0 /\ failures # 0
    BY <1>1, <1>5 DEF Look, Waiting, MapInv, MapTypeOK
  <2> QED
    BY <1>1, <1>2, <2>1, CountersStay, QuietMove DEF Steps, Unlocking
<1> QED
  BY <1>3, <1>4, <1>5

\* A service that takes the lock holds a token nobody has had.
LEMMA StepOfTryLock ==
  ASSUME MapAssumption, MapInv, NEW s \in Services, TryLock(s) PROVE MapInv'
<1>1. flight[s].step \in {"lock", "retry"} /\ flight[s].token = NoToken
      /\ (failures = 0 => Reaches(s)) /\ callers' = callers /\ callers[s] > 0
      /\ UNCHANGED <<failures, expiries, avoids, kind, cached, answers>>
  BY DEF TryLock, At, MapInv, MapTypeOK, TokensFollow, Unlocking, Reaches, Faultless, Provider,
         Waiting
<1>2. CASE ~Reaches(s)
  <2>1. Go(s, "load") /\ UNCHANGED <<lock, tokens>> /\ failures # 0
    BY <1>1, <1>2 DEF TryLock
  <2>2. Undisturbed
    BY <1>1, <2>1 DEF Undisturbed, Redis, Provider
  <2> QED
    BY <1>1, <2>1, <2>2, CountersStay, QuietMove DEF Steps, Unlocking
<1>3. CASE Reaches(s) /\ lock # NoToken
  <2>1. Go(s, "poll") /\ UNCHANGED <<lock, tokens>>
    BY <1>3 DEF TryLock
  <2>2. Undisturbed
    BY <1>1, <2>1 DEF Undisturbed, Redis, Provider
  <2> QED
    BY <1>1, <2>1, <2>2, CountersStay, QuietMove DEF Steps, Unlocking
<1>4. CASE Reaches(s) /\ lock = NoToken
  <2>1. tokens < MaxTokens /\ tokens' = tokens + 1 /\ lock' = tokens'
        /\ flight' = [flight EXCEPT ![s].step = "reread", ![s].token = tokens']
    BY <1>4 DEF TryLock
  <2>2. tokens \in Nat /\ tokens' \in 0..MaxTokens /\ tokens < tokens' /\ tokens <= tokens'
    BY <2>1 DEF MapAssumption, MapInv, MapTypeOK
  <2> DEFINE new == [flight[s] EXCEPT !.step = "reread", !.token = tokens']
  <2>3. new \in Flight /\ new.step = "reread" /\ new.token = tokens'
        /\ new.answer = flight[s].answer
    BY <2>2, FlightFits DEF Flight, Steps
  <2>4. flight' = [flight EXCEPT ![s] = new]
    BY <2>1
  <2> HIDE DEF new
  <2>5. OneFlight(s, new)
    BY <1>1, <2>2, <2>4, CountersStay DEF OneFlight
  <2>6. MapTypeOK'
    BY <1>1, <2>1, <2>2, <2>3, <2>5, CountersStay, FlightTyped
  <2>7. TokenFits(s, new)
    BY <2>1, <2>2, <2>3 DEF TokenFits, NoToken, Unlocking
  <2>8. LockFits(s, new)
    BY <1>1, <1>4, <2>1, <2>2 DEF LockFits, MapInv, LockIsHeld
  <2>9. EntryFits(s, new)
    BY <1>1, <2>3 DEF EntryFits, MapInv, CountersAhead
  <2> QED
    BY <2>5, <2>6, <2>7, <2>8, <2>9, FlightStep
<1> QED
  BY <1>2, <1>3, <1>4

LEMMA StepOfGiveUp ==
  ASSUME MapAssumption, MapInv, NEW s \in Services, GiveUp(s) PROVE MapInv'
<1>1. Land(s) /\ UNCHANGED <<failures, expiries, avoids, kind, cached, answers, lock, tokens>>
  BY DEF GiveUp, Redis, Provider, Faultless
<1> QED
  BY <1>1, CountersStay, LandingMove

\* An answer is numbered past everything that is cached.
LEMMA StepOfAnswered ==
  ASSUME MapAssumption, MapInv, NEW s \in Services, Answered(s) PROVE MapInv'
<1>1. /\ flight[s].step = "load" /\ answers < MaxAnswers /\ answers' = answers + 1
      /\ UNCHANGED <<failures, expiries, avoids, kind, cached, lock, tokens>>
      /\ (failures = 0 /\ Cacheable => flight[s].token # NoToken)
  BY DEF Answered, At, Redis, Faultless, MapInv, TokensFollow, Unlocking
<1>2. answers \in Nat /\ answers' \in 0..MaxAnswers /\ answers <= answers' /\ answers < answers'
  BY <1>1 DEF MapAssumption, MapInv, MapTypeOK
<1>3. CASE ~Cacheable
  <2>1. Finish(s)
    BY <1>3 DEF Answered
  <2> QED
    BY <1>1, <1>2, <2>1, CountersStay, Finishing
<1>4. CASE Cacheable
  <2>1. flight' = [flight EXCEPT ![s].step = "publish", ![s].answer = answers']
        /\ callers' = callers /\ callers[s] > 0
    BY <1>1, <1>4 DEF Answered, Waiting, MapInv, MapTypeOK
  <2> DEFINE new == [flight[s] EXCEPT !.step = "publish", !.answer = answers']
  <2>2. new \in Flight /\ new.step = "publish" /\ new.token = flight[s].token
        /\ new.answer = answers'
    BY <1>2, FlightFits DEF Flight, Steps
  <2>3. flight' = [flight EXCEPT ![s] = new]
    BY <2>1
  <2> HIDE DEF new
  <2>4. OneFlight(s, new)
    BY <1>1, <1>2, <2>3, CountersStay DEF OneFlight
  <2>5. MapTypeOK'
    BY <1>1, <1>2, <2>1, <2>2, <2>4, CountersStay, FlightTyped
  <2>6. TokenFits(s, new)
    BY <1>1, <2>2 DEF TokenFits, Unlocking, MapInv, LockIsHeld
  <2>7. LockFits(s, new)
    BY <1>1 DEF LockFits
  <2>8. EntryFits(s, new)
    <3>1. cached # Corrupt => cached <= answers
      BY DEF MapInv, CountersAhead
    <3>2. cached \in Nat /\ (cached # Corrupt => cached <= new.answer) /\ new.answer <= answers'
      BY <1>2, <2>2, <3>1 DEF MapAssumption, MapInv, MapTypeOK
    <3> QED
      BY <1>1, <1>4, <2>2, <3>2 DEF EntryFits, Corrupt
  <2> QED
    BY <2>4, <2>5, <2>6, <2>7, <2>8, FlightStep
<1> QED
  BY <1>3, <1>4

LEMMA StepOfNoAnswer ==
  ASSUME MapAssumption, MapInv, NEW s \in Services, NoAnswer(s) PROVE MapInv'
<1>1. /\ flight[s].step = "load" /\ Finish(s)
      /\ UNCHANGED <<failures, expiries, avoids, kind, cached, answers, lock, tokens>>
  BY DEF NoAnswer, At, Redis, Provider, Faultless
<1> QED
  BY <1>1, CountersStay, Finishing

LEMMA StepOfRetry ==
  ASSUME MapAssumption, MapInv, NEW s \in Services, Retry(s) PROVE MapInv'
<1>1. /\ flight' = [flight EXCEPT ![s].attempt = @ + 1] /\ flight[s].attempt < MaxRetries
      /\ UNCHANGED <<failures, expiries, avoids, kind, cached, answers, lock, tokens, callers>>
  BY DEF Retry, Redis, Provider, Faultless, Waiting
<1> DEFINE new == [flight[s] EXCEPT !.attempt = @ + 1]
<1>2. flight[s].attempt + 1 \in 0..MaxRetries
  BY <1>1, FlightFits DEF MapAssumption
<1>3. new \in Flight /\ new.step = flight[s].step /\ new.token = flight[s].token
      /\ new.answer = flight[s].answer
  BY <1>2, FlightFits DEF Flight
<1>4. flight' = [flight EXCEPT ![s] = new]
  BY <1>1
<1> HIDE DEF new
<1>5. OneFlight(s, new)
  BY <1>1, <1>4, CountersStay DEF OneFlight
<1>6. MapTypeOK'
  BY <1>1, <1>3, <1>5, CountersStay, FlightTyped DEF MapInv, MapTypeOK
<1>7. TokenFits(s, new)
  BY <1>1, <1>3 DEF TokenFits, MapInv, TokensFollow, LockIsHeld
<1>8. LockFits(s, new)
  BY <1>1 DEF LockFits
<1>9. EntryFits(s, new)
  BY <1>1, <1>3 DEF EntryFits, MapInv, CountersAhead, TokensFollow, LoadMisses, HolderIsNewest, At,
                    Hit, Corrupt
<1> QED
  BY <1>5, <1>6, <1>7, <1>8, <1>9, FlightStep

LEMMA StepOfPublish ==
  ASSUME MapAssumption, MapInv, NEW s \in Services, Publish(s) PROVE MapInv'
<1>1. /\ flight[s].step = "publish" /\ Finish(s)
      /\ UNCHANGED <<failures, expiries, avoids, kind, answers, lock, tokens>>
      /\ cached' = IF Reaches(s) /\ MayPublish(s) THEN flight[s].answer ELSE cached
  BY DEF Publish, At, Provider, Faultless
<1>2. failures = 0 => flight[s].token # NoToken
  BY <1>1 DEF MapInv, TokensFollow, Unlocking
<1>3. cached' = cached
      \/ (cached' = flight[s].answer /\ (failures' = 0 => flight[s].token = lock /\ lock # NoToken))
  BY <1>1, <1>2 DEF MayPublish
<1> QED
  BY <1>1, <1>3, CountersStay, Finishing

LEMMA StepOfUnlock ==
  ASSUME MapAssumption, MapInv, NEW s \in Services, Unlock(s) PROVE MapInv'
<1>1. /\ Land(s) /\ UNCHANGED <<failures, expiries, avoids, kind, cached, answers, tokens>>
      /\ lock' = lock \/ (lock' = NoToken /\ lock = flight[s].token)
  BY DEF Unlock, Unlocked, Provider, Faultless
<1> QED
  BY <1>1, CountersStay, LandingMove

\* A cache operation that failed may have happened all the same.
LEMMA StepOfCacheFails ==
  ASSUME MapAssumption, MapInv, NEW s \in Services, CacheFails(s) PROVE MapInv'
<1>1. /\ failures' \in 0..MaxFaults /\ failures <= failures' /\ failures' # 0
      /\ avoids' \subseteq Services /\ UNCHANGED <<kind, expiries, answers>>
  BY DEF CacheFails, Provider, MapAssumption, MapInv, MapTypeOK
<1>2. ASSUME NEW step \in {"lock", "load"}, Go(s, step), Waiting, Redis, UNCHANGED tokens,
             ~At(s, "none"), step = "lock" => At(s, "read")
      PROVE  MapInv'
  <2>1. callers' = callers /\ callers[s] > 0 /\ step \in Steps
        /\ (step \in Unlocking => flight[s].token = NoToken)
    BY <1>2 DEF Waiting, At, Steps, MapInv, MapTypeOK, TokensFollow, Unlocking
  <2>2. Undisturbed
    BY <1>1, <1>2 DEF Undisturbed, Provider
  <2> QED
    BY <1>1, <1>2, <2>1, <2>2, CountersStay, QuietMove
<1>3. ASSUME At(s, "lock") \/ At(s, "retry"), Go(s, "load"), Waiting, UNCHANGED cached,
             lock = NoToken, tokens < MaxTokens, tokens' = tokens + 1, lock' = tokens'
      PROVE  MapInv'
  <2>1. PICK new \in Flight :
          /\ flight' = [flight EXCEPT ![s] = new]
          /\ new.step = "load" /\ new.token = flight[s].token /\ new.answer = flight[s].answer
    BY <1>3, Going DEF Steps
  <2>2. tokens \in Nat /\ tokens' \in 0..MaxTokens /\ tokens < tokens' /\ tokens <= tokens'
    BY <1>3 DEF MapAssumption, MapInv, MapTypeOK
  <2>3. OneFlight(s, new)
    BY <1>1, <2>1, <2>2, CountersStay DEF OneFlight
  <2>4. callers' = callers /\ callers[s] > 0
    BY <1>3 DEF Waiting, At, MapInv, MapTypeOK
  <2>5. MapTypeOK'
    BY <1>1, <1>3, <2>1, <2>2, <2>3, <2>4, CountersStay, FlightTyped
  <2>6. TokenFits(s, new)
    BY <1>1, <2>1 DEF TokenFits, Unlocking
  <2>7. LockFits(s, new)
    BY <1>1, <1>3, <2>2 DEF LockFits
  <2>8. EntryFits(s, new)
    BY <1>1, <1>3, <2>1 DEF EntryFits, MapInv, CountersAhead
  <2> QED
    BY <2>3, <2>5, <2>6, <2>7, <2>8, FlightStep
<1>4. ASSUME At(s, "publish"), Finish(s), UNCHANGED <<lock, tokens>>,
             cached' \in {cached, IF MayPublish(s) THEN flight[s].answer ELSE cached}
      PROVE  MapInv'
  <2>1. flight[s].step # "none" /\ cached' \in {cached, flight[s].answer}
    BY <1>4 DEF At
  <2> QED
    BY <1>1, <1>4, <2>1, CountersStay, Finishing
<1>5. ASSUME Land(s), UNCHANGED <<cached, tokens>>, lock' \in {lock, Unlocked(s)}
      PROVE  MapInv'
  <2>1. lock' = lock \/ (lock' = NoToken /\ lock = flight[s].token)
    BY <1>5 DEF Unlocked
  <2> QED
    BY <1>1, <1>5, <2>1, CountersStay, LandingMove
<1>6. ASSUME At(s, "lock") \/ At(s, "retry"), Go(s, "load"), Waiting, UNCHANGED <<cached, lock, tokens>>
      PROVE  MapInv'
  BY <1>2, <1>6 DEF At, Redis
<1> QED
  BY <1>2, <1>3, <1>4, <1>5, <1>6 DEF CacheFails, At

\* What leaves the flights alone.
LEMMA FlightsStay ==
  ASSUME MapAssumption, MapInv, UNCHANGED <<kind, flight, callers, answers, tokens, failures>>,
         cached' \in {cached, NoEntry}, avoids' \subseteq avoids,
         \/ lock' = lock /\ expiries' = expiries
         \/ /\ lock' = NoToken
            /\ \/ expiries' = expiries /\ \A s \in Services : flight[s].token # lock
               \/ expiries' = expiries + 1 /\ expiries < MaxFaults
  PROVE  MapInv'
<1>1. expiries \in Nat /\ cached \in 0..(MaxAnswers + 1) /\ cached' \in 0..(MaxAnswers + 1)
      /\ lock' \in 0..MaxTokens /\ expiries' \in 0..MaxFaults /\ avoids' \subseteq Services
      /\ tokens \in Nat
  BY DEF MapAssumption, MapInv, MapTypeOK, NoEntry, NoToken
<1>2. MapTypeOK'
  BY <1>1 DEF MapInv, MapTypeOK
<1>3. CountersAhead'
  <2>1. lock' <= tokens
    BY <1>1 DEF MapInv, CountersAhead, NoToken
  <2>2. cached' # Corrupt => cached' <= answers
    BY DEF MapAssumption, MapInv, MapTypeOK, CountersAhead, NoEntry
  <2> QED
    BY <2>1, <2>2 DEF MapInv, CountersAhead, Corrupt
<1>4. TokensDiffer' /\ TokensFollow'
  BY DEF MapInv, TokensDiffer, TokensFollow, Cacheable
<1>5. LockIsHeld'
  BY <1>1 DEF MapInv, LockIsHeld
<1>6. LoadMisses'
  BY <1>1 DEF MapInv, LoadMisses, Cacheable, At, Hit, NoEntry, Corrupt
<1>7. HolderIsNewest'
  <2> SUFFICES ASSUME failures = 0, NEW s \in Services, flight[s].step = "publish",
                      flight[s].token = lock', cached' # Corrupt
               PROVE  cached' <= flight[s].answer
    BY DEF HolderIsNewest, At, Corrupt
  <2>1. flight[s].token # NoToken /\ flight[s].answer \in Nat
    BY FlightFits DEF MapAssumption, MapInv, TokensFollow, Unlocking
  <2>2. lock' = lock
    BY <2>1
  <2> QED
    BY <2>1, <2>2 DEF MapInv, HolderIsNewest, At, NoEntry
<1> QED
  BY <1>2, <1>3, <1>4, <1>5, <1>6, <1>7 DEF MapInv

LEMMA StepOfFaults ==
  ASSUME MapAssumption, MapInv,
         \/ \E s \in Services : Recover(s) \/ Stop(s)
         \/ ExpireLock \/ ExpireEntry
  PROVE  MapInv'
<1>1. ASSUME NEW s \in Services, Recover(s) PROVE MapInv'
  BY <1>1, FlightsStay DEF Recover, Redis, Provider, Faultless, Waiting
<1>2. ASSUME NEW s \in Services, Stop(s) PROVE MapInv'
  <2>1. /\ Land(s) /\ UNCHANGED <<failures, kind, cached, answers, lock, tokens>>
        /\ expiries < MaxFaults /\ expiries' = expiries + 1 /\ avoids' \subseteq avoids
    BY <1>2 DEF Stop, Redis, Provider
  <2>2. expiries' \in 0..MaxFaults /\ expiries <= expiries'
    BY <2>1 DEF MapAssumption, MapInv, MapTypeOK
  <2>3. avoids' \subseteq Services /\ (failures' = 0 => avoids' = {})
    BY <2>1, CountersStay
  <2> QED
    BY <2>1, <2>2, <2>3, CountersStay, LandingMove
<1>3. ASSUME ExpireLock PROVE MapInv'
  BY <1>3, FlightsStay DEF ExpireLock, Provider, Waiting, Owned
<1>4. ASSUME ExpireEntry PROVE MapInv'
  BY <1>4, FlightsStay DEF ExpireEntry, Provider, Faultless, Waiting
<1> QED
  BY <1>1, <1>2, <1>3, <1>4

LEMMA MapStep == ASSUME MapAssumption, MapInv, [MapNext]_mapVars PROVE MapInv'
<1>1. CASE MapNext
  BY <1>1, StepOfRequest, StepOfRead, StepOfTryLock, StepOfReread, StepOfPoll, StepOfGiveUp,
     StepOfAnswered, StepOfNoAnswer, StepOfRetry, StepOfPublish, StepOfUnlock, StepOfCacheFails,
     StepOfFaults DEF MapNext
<1>2. CASE UNCHANGED mapVars
  BY <1>2 DEF mapVars, MapInv, MapTypeOK, CountersAhead, TokensDiffer, TokensFollow, LockIsHeld,
              LoadMisses, HolderIsNewest, At, Hit, Cacheable
<1> QED
  BY <1>1, <1>2

\* Only a flight that publishes writes an answer over another.
LEMMA NewestStep ==
  ASSUME MapAssumption, MapInv, [MapNext]_mapVars, failures' = 0,
         cached' \in 1..MaxAnswers, cached \in 1..MaxAnswers
  PROVE  cached' >= cached
<1>1. ASSUME NEW s \in Services, Publish(s) PROVE cached' >= cached
  <2>1. failures = 0 /\ flight[s].step = "publish" /\ flight[s].token # NoToken
    BY <1>1 DEF Publish, At, Faultless, MapInv, TokensFollow, Unlocking
  <2>2. cached # Corrupt
    BY DEF Corrupt, MapAssumption
  <2>3. CASE Reaches(s) /\ MayPublish(s)
    <3>1. cached' = flight[s].answer /\ cached <= flight[s].answer
      BY <1>1, <2>1, <2>2, <2>3 DEF Publish, MayPublish, MapInv, HolderIsNewest, At
    <3> QED
      BY <3>1, FlightFits DEF MapAssumption
  <2>4. CASE ~(Reaches(s) /\ MayPublish(s))
    BY <1>1, <2>4 DEF Publish
  <2> QED
    BY <2>3, <2>4
<1>2. ASSUME NEW s \in Services, CacheFails(s) PROVE FALSE
  BY <1>2 DEF CacheFails, MapAssumption, MapInv, MapTypeOK
<1>3. CASE cached' \in {cached, NoEntry}
  BY <1>3 DEF NoEntry
<1>4. cached' \in {cached, NoEntry} \/ \E s \in Services : Publish(s) \/ CacheFails(s)
  BY DEF MapNext, mapVars, Request, Read, TryLock, Reread, Poll, GiveUp, Answered, NoAnswer, Retry,
         Unlock, Recover, Stop, ExpireLock, ExpireEntry, Look, Redis
<1> QED
  BY <1>1, <1>2, <1>3, <1>4

(* Whatever fails and in whatever order, a question that may be cached is  *)
(* paid for once while the cache works and locks outlive their owners, and *)
(* a cached answer is never replaced by an older one.                      *)
THEOREM MapsAreSound == ASSUME MapAssumption PROVE MapSpec => []PaidOnce /\ NewestStays
<1>1. MapSpec => []MapInv
  BY InitMap, MapStep, PTL DEF MapSpec
<1>2. MapInv /\ [MapNext]_mapVars =>
        [(failures' = 0 /\ cached' \in 1..MaxAnswers /\ cached \in 1..MaxAnswers)
         => cached' >= cached]_mapVars
  BY NewestStep
<1> QED
  BY <1>1, <1>2, MapHolds, PTL DEF MapSpec, NewestStays

-----------------------------------------------------------------------------
(* Navigation.  A worker that may still store a route holds the route      *)
(* lock, and what it holds is no older than what memory shows.             *)
LocksDiffer == \A j, k \in Worker : HoldsLock(j) /\ HoldsLock(k) => j = k

\* The counter of the PIN.
PinCounts ==
  /\ PinCountsGuesses
  /\ pin.lock = "over" => missed = 0

\* A route in memory was held by whoever works on it now.
CopiesAreNewer ==
  \A j \in Worker :
    ~durable /\ memo # Unset /\ InProcess(j) /\ ~work[j].cancelled
      => memo.version <= work[j].route.version /\ memo.fix <= work[j].route.fix

\* Work is cancelled by the end of the ride alone: memory expires while nobody works on it.
EndCancels == \A j \in Worker : work[j].at # "idle" /\ work[j].cancelled => ride = "ended"

\* The time of the last paid request is remembered until the cooldown is over.
Asked(route) == route.asked # Unset /\ paid <= route.asked
PaidIsPast == paid # Unset => paid <= clock

PaidIsRemembered ==
  ~durable /\ ride # "ended" /\ paid # Unset =>
    \/ clock - paid >= MinReroute
    \/ memo # Unset /\ Asked(memo)
    \/ \E j \in Worker : work[j].at \in {"answer", "store"} /\ Asked(work[j].route)

\* Who is about to ask may ask, and who stores a result stores the time of the last request.
AskersAreCool ==
  \A j \in Worker :
    ~durable /\ ride # "ended" /\ paid # Unset =>
      /\ work[j].at \in {"reserve", "ask"} => clock - paid >= MinReroute
      /\ work[j].at \in {"answer", "store"} => clock - paid >= MinReroute \/ Asked(work[j].route)

NavigationInv ==
  /\ NavigationTypeOK /\ LocksDiffer /\ PinCounts /\ CopiesAreNewer /\ EndCancels
  /\ PaidIsPast /\ PaidIsRemembered /\ AskersAreCool

LEMMA InitNavigation == ASSUME NavigationAssumption, NavigationInit PROVE NavigationInv
<1>1. /\ 0 \in Time /\ 0 \in 0..MaxRoutes /\ 0 \in 0..PinAttempts /\ 0 < PinAttempts
      /\ PinAttempts \in Nat
  BY DEF NavigationAssumption, Time
<1>2. NoRoute \in Route
  BY <1>1 DEF NoRoute, Route
<1>3. /\ work = [j \in Worker |-> Idle] /\ memo = Unset /\ paid = Unset /\ missed = 0
      /\ pin = [failed |-> 0, lock |-> "none"]
  BY DEF NavigationInit, NewPin
<1>4. \A j \in Worker : ~HoldsLock(j) /\ ~InProcess(j) /\ work[j].at = "idle"
  BY <1>3 DEF HoldsLock, InProcess, Idle
<1>5. NavigationTypeOK
  BY <1>1, <1>2, <1>3 DEF NavigationInit, NavigationTypeOK, Status
<1>6. PinCounts
  BY <1>1, <1>3 DEF PinCounts, PinCountsGuesses
<1>7. LocksDiffer /\ CopiesAreNewer /\ EndCancels /\ PaidIsPast /\ PaidIsRemembered
  BY <1>3, <1>4 DEF LocksDiffer, CopiesAreNewer, EndCancels, PaidIsPast, PaidIsRemembered
<1>8. AskersAreCool
  BY <1>3 DEF AskersAreCool
<1> QED
  BY <1>5, <1>6, <1>7, <1>8 DEF NavigationInv

\* What a worker that is not idle is.
LEMMA WorkFits ==
  ASSUME NavigationInv, NEW j \in Worker
  PROVE  /\ work \in [Worker -> Work \cup {Idle}]
         /\ work[j].at # "idle" => work[j] \in Work /\ work[j].route \in Route
         /\ InProcess(j) => HoldsLock(j)
         /\ HoldsLock(j) => work[j].at # "idle"
<1>1. work \in [Worker -> Work \cup {Idle}] /\ work[j] \in Work \cup {Idle}
  BY DEF NavigationInv, NavigationTypeOK
<1>2. CASE work[j] = Idle
  BY <1>1, <1>2 DEF Idle, InProcess, HoldsLock
<1>3. CASE work[j] \in Work
  BY <1>1, <1>3 DEF Work, InProcess, HoldsLock
<1> QED
  BY <1>1, <1>2, <1>3

LEMMA RouteFits ==
  ASSUME NavigationAssumption, NEW route \in Route
  PROVE  /\ route.version \in 0..MaxRoutes /\ route.version \in Nat
         /\ route.fix \in {0} \cup Gps /\ route.fix \in Nat
         /\ route.leg \in Leg \cup {Unset}
         /\ route.asked \in Time \cup {Unset} /\ (route.asked # Unset => route.asked \in Nat)
         /\ route # Unset
<1>1. /\ route.version \in 0..MaxRoutes /\ route.fix \in {0} \cup Gps
      /\ route.leg \in Leg \cup {Unset} /\ route.asked \in Time \cup {Unset}
  BY DEF Route
<1>2. /\ \A v \in 0..MaxRoutes : v \in Nat
      /\ \A g \in {0} \cup Gps : g \in Nat
      /\ \A t \in Time \cup {Unset} : t # Unset => t \in Nat
  BY DEF NavigationAssumption, Time
<1>3. route # Unset
  BY DEF NavigationAssumption
<1> QED
  BY <1>1, <1>2, <1>3

-----------------------------------------------------------------------------
(* A step of one worker, whose work becomes `w`.                           *)
Holds(w) == w.at \in {"read", "judge", "reserve", "ask", "answer", "store"}
Inside(w) == w.at \in {"reserve", "ask", "answer", "store"}
AskedIn(route, time) == route.asked # Unset /\ time <= route.asked

OneWorks(j, w) ==
  /\ work' = [work EXCEPT ![j] = w]
  /\ w \in Work \cup {Idle}
  /\ UNCHANGED <<durable, ride, clock, pin, missed>>
  /\ meta' \in Route /\ memo' \in Route \cup {Unset}
  /\ Holds(w) => HoldsLock(j) \/ LockFree
  /\ w.at # "idle" /\ w.cancelled => ride = "ended"

\* What memory and the worker know of the route and of the last request.
MemoryFits(j, w) ==
  \/ /\ memo' = memo /\ paid' = paid
     /\ ~InProcess(j) /\ ~Inside(w)
  \/ /\ HoldsLock(j)
     /\ paid' \in Time \cup {Unset} /\ (paid' # Unset => paid' <= clock)
     /\ ~durable /\ memo' # Unset /\ Inside(w) /\ ~w.cancelled
          => memo'.version <= w.route.version /\ memo'.fix <= w.route.fix
     /\ ~durable /\ ride # "ended" /\ paid' # Unset =>
          /\ \/ clock - paid' >= MinReroute
             \/ memo' # Unset /\ AskedIn(memo', paid')
             \/ w.at \in {"answer", "store"} /\ AskedIn(w.route, paid')
          /\ w.at \in {"reserve", "ask"} => clock - paid' >= MinReroute
          /\ w.at \in {"answer", "store"} => clock - paid' >= MinReroute \/ AskedIn(w.route, paid')

LEMMA OneWorksStep ==
  ASSUME NavigationInv, NEW j \in Worker, NEW w, OneWorks(j, w), MemoryFits(j, w)
  PROVE  NavigationInv'
<1>1. \A k \in Worker : work'[k] = IF k = j THEN w ELSE work[k]
  BY DEF OneWorks, NavigationInv, NavigationTypeOK
<1>2. NavigationTypeOK'
  BY DEF OneWorks, MemoryFits, NavigationInv, NavigationTypeOK
<1>3. /\ \A k \in Worker : (HoldsLock(k)' <=> IF k = j THEN Holds(w) ELSE HoldsLock(k))
      /\ \A k \in Worker : (InProcess(k)' <=> IF k = j THEN Inside(w) ELSE InProcess(k))
  BY <1>1 DEF HoldsLock, Holds, InProcess, Inside
<1>4. LocksDiffer'
  BY <1>3 DEF OneWorks, LockFree, NavigationInv, LocksDiffer
<1>5. PinCounts'
  BY DEF OneWorks, NavigationInv, PinCounts, PinCountsGuesses
<1>6. EndCancels'
  BY <1>1, <1>3 DEF OneWorks, NavigationInv, EndCancels
<1>7. \A k \in Worker : InProcess(k) => HoldsLock(k)
  BY DEF InProcess, HoldsLock
<1>8. CASE memo' = memo /\ paid' = paid /\ ~InProcess(j) /\ ~Inside(w)
  <2>1. CopiesAreNewer' /\ PaidIsPast'
    BY <1>1, <1>3, <1>8 DEF OneWorks, NavigationInv, CopiesAreNewer, PaidIsPast
  <2>2. AskersAreCool'
    BY <1>1, <1>8 DEF OneWorks, NavigationInv, AskersAreCool, Asked, Inside
  <2>3. PaidIsRemembered'
    <3> SUFFICES ASSUME ~durable, ride # "ended", paid # Unset, ~(memo # Unset /\ Asked(memo)),
                        ~(clock - paid >= MinReroute)
                 PROVE  \E k \in Worker : work'[k].at \in {"answer", "store"} /\ Asked(work[k].route)'
      BY <1>8 DEF OneWorks, PaidIsRemembered, Asked
    <3>1. PICK k \in Worker : work[k].at \in {"answer", "store"} /\ Asked(work[k].route)
      BY DEF NavigationInv, PaidIsRemembered
    <3>2. k # j
      BY <1>8, <3>1 DEF InProcess
    <3> QED
      BY <1>1, <1>8, <3>1, <3>2 DEF Asked
  <2> QED
    BY <1>2, <1>4, <1>5, <1>6, <2>1, <2>2, <2>3 DEF NavigationInv
<1>9. CASE HoldsLock(j) /\ ~(memo' = memo /\ paid' = paid /\ ~InProcess(j) /\ ~Inside(w))
  <2>1. \A k \in Worker : k # j => ~InProcess(k)
    BY <1>7, <1>9 DEF NavigationInv, LocksDiffer
  <2>2. CopiesAreNewer'
    BY <1>1, <1>3, <1>9, <2>1 DEF OneWorks, MemoryFits, CopiesAreNewer
  <2>3. PaidIsPast'
    BY <1>9 DEF OneWorks, MemoryFits, PaidIsPast
  <2>4. AskersAreCool'
    BY <1>1, <1>9, <2>1 DEF OneWorks, MemoryFits, AskersAreCool, Asked, AskedIn, InProcess
  <2>5. PaidIsRemembered'
    BY <1>1, <1>9 DEF OneWorks, MemoryFits, PaidIsRemembered, Asked, AskedIn
  <2> QED
    BY <1>2, <1>4, <1>5, <1>6, <2>2, <2>3, <2>4, <2>5 DEF NavigationInv
<1> QED
  BY <1>8, <1>9 DEF MemoryFits

\* The actions that leave memory and the last request alone, and work on no route.
LEMMA StepOutside ==
  ASSUME NavigationAssumption, NavigationInv, NEW j \in Worker,
         Start(j) \/ TryRouteLock(j) \/ ReadRide(j)
  PROVE  NavigationInv'
<1>1. /\ UNCHANGED <<durable, ride, meta, memo, pin, clock, paid, missed>>
      /\ ~InProcess(j) /\ meta \in Route /\ memo \in Route \cup {Unset}
  BY DEF Start, TryRouteLock, ReadRide, InProcess, Idle, NavigationInv, NavigationTypeOK
<1>2. ASSUME NEW w \in Work \cup {Idle}, work' = [work EXCEPT ![j] = w], ~Inside(w),
             Holds(w) => HoldsLock(j) \/ LockFree,
             w.at # "idle" => ~w.cancelled \/ (work[j].at # "idle" /\ w.cancelled = work[j].cancelled)
      PROVE  NavigationInv'
  BY <1>1, <1>2, OneWorksStep DEF OneWorks, MemoryFits, NavigationInv, EndCancels
<1>3. ASSUME Start(j) PROVE NavigationInv'
  <2> DEFINE w == [at |-> "lock", seen |-> IF j \in Page THEN ride ELSE "to_pickup", read |-> 0,
                   route |-> IF j \in Page /\ durable THEN meta ELSE NoRoute, cancelled |-> FALSE]
  <2>1. NoRoute \in Route /\ 0 \in 0..MaxRoutes /\ ride \in Status /\ "to_pickup" \in Status
    BY DEF NavigationAssumption, NoRoute, Route, Time, NavigationInv, NavigationTypeOK, Status
  <2>2. w \in Work
    BY <1>1, <2>1 DEF Work
  <2>3. work' = [work EXCEPT ![j] = w] /\ w.at = "lock" /\ ~w.cancelled
    BY <1>3 DEF Start
  <2> HIDE DEF w
  <2> QED
    BY <1>2, <2>2, <2>3 DEF Inside, Holds
<1>4. Idle \in Work \cup {Idle} /\ ~Inside(Idle) /\ ~Holds(Idle) /\ Idle.at = "idle"
  BY DEF Idle, Inside, Holds
<1>5. CASE Leaves(j)
  BY <1>2, <1>4, <1>5 DEF Leaves
<1>6. ASSUME TryRouteLock(j), ~Leaves(j) PROVE NavigationInv'
  <2>1. PICK at \in {"read", "judge"} : LockFree /\ Goes(j, at)
    BY <1>6 DEF TryRouteLock
  <2> DEFINE w == [work[j] EXCEPT !.at = at]
  <2>2. work[j] \in Work /\ work[j].at # "idle"
    BY <1>6, WorkFits DEF TryRouteLock
  <2>3. w \in Work /\ w.at = at /\ w.cancelled = work[j].cancelled
    BY <2>1, <2>2 DEF Work
  <2>4. work' = [work EXCEPT ![j] = w]
    BY <2>1 DEF Goes
  <2> HIDE DEF w
  <2> QED
    BY <1>2, <2>1, <2>2, <2>3, <2>4 DEF Inside
<1>7. ASSUME ReadRide(j), ~Leaves(j) PROVE NavigationInv'
  <2>1. work' = [work EXCEPT ![j].seen = ride, ![j].at = "judge"]
    BY <1>7 DEF ReadRide
  <2> DEFINE w == [work[j] EXCEPT !.seen = ride, !.at = "judge"]
  <2>2. work[j] \in Work /\ HoldsLock(j) /\ ride \in Status /\ work[j].at # "idle"
    BY <1>7, WorkFits DEF ReadRide, HoldsLock, NavigationInv, NavigationTypeOK
  <2>3. w \in Work /\ w.at = "judge" /\ w.cancelled = work[j].cancelled
    BY <2>2 DEF Work
  <2>4. work' = [work EXCEPT ![j] = w]
    BY <2>1
  <2> HIDE DEF w
  <2> QED
    BY <1>2, <2>2, <2>3, <2>4 DEF Inside
<1> QED
  BY <1>3, <1>5, <1>6, <1>7

\* A decision under the lock starts from what memory holds.
LEMMA StepOfJudge ==
  ASSUME NavigationAssumption, NavigationInv, NEW j \in Worker, Judge(j) PROVE NavigationInv'
<1>1. /\ work[j].at = "judge" /\ work[j] \in Work /\ HoldsLock(j) /\ ~InProcess(j)
      /\ UNCHANGED <<durable, ride, meta, memo, pin, clock, paid, missed>>
      /\ meta \in Route /\ memo \in Route \cup {Unset}
  BY WorkFits DEF Judge, HoldsLock, InProcess, NavigationInv, NavigationTypeOK
<1>2. CASE Leaves(j)
  <2>1. Idle \in Work \cup {Idle} /\ ~Inside(Idle) /\ ~Holds(Idle) /\ Idle.at = "idle"
    BY DEF Idle, Inside, Holds
  <2> QED
    BY <1>1, <1>2, <2>1, OneWorksStep DEF Leaves, OneWorks, MemoryFits
<1>3. ASSUME ~Leaves(j) PROVE NavigationInv'
  <2> DEFINE now == Working(j)
             seen == [now EXCEPT !.fix = IF j \in Gps THEN j ELSE @]
  <2>1. NoRoute \in Route /\ work[j].route \in Route
    BY <1>1 DEF NavigationAssumption, NoRoute, Route, Time, Work
  <2>2. now \in Route /\ (~durable => now = Remembered)
    BY <1>1, <2>1 DEF Working, Remembered
  <2>3. /\ seen \in Route /\ seen.version = now.version /\ seen.asked = now.asked
        /\ seen.leg = now.leg /\ (j \in Gps => seen.fix = j) /\ (j \notin Gps => seen.fix = now.fix)
    BY <2>2 DEF Route
  <2>4. PICK at \in {"reserve", "store"} :
          /\ work' = [work EXCEPT ![j] = [@ EXCEPT !.read = now.version, !.route = seen, !.at = at]]
          /\ ~(j \in Gps /\ j <= now.fix) /\ (at = "reserve" => Cool(seen))
    BY <1>3 DEF Judge
  <2> DEFINE w == [work[j] EXCEPT !.read = now.version, !.route = seen, !.at = at]
  <2>5. now.version \in 0..MaxRoutes
    BY <2>2, RouteFits
  <2>6. w \in Work /\ w.at = at /\ w.route = seen /\ w.cancelled = work[j].cancelled
    BY <1>1, <2>3, <2>4, <2>5 DEF Work
  <2>7. work' = [work EXCEPT ![j] = w]
    BY <2>4
  <2>8. w.cancelled => ride = "ended"
    BY <1>1, <2>6 DEF NavigationInv, EndCancels
  <2>9. OneWorks(j, w)
    BY <1>1, <2>6, <2>7, <2>8 DEF OneWorks
  <2>10. ~durable /\ memo # Unset => memo.version <= seen.version /\ memo.fix <= seen.fix
    <3> SUFFICES ASSUME ~durable, memo # Unset PROVE memo.version <= seen.version /\ memo.fix <= seen.fix
      OBVIOUS
    <3>1. now = memo /\ memo \in Route
      BY <1>1, <2>2 DEF Remembered
    <3>2. memo.version \in Nat /\ memo.fix \in Nat /\ (j \in Gps => j \in Nat)
      BY <3>1, RouteFits DEF NavigationAssumption
    <3> HIDE DEF now, seen
    <3>3. memo.version <= seen.version
      BY <2>3, <3>1, <3>2
    <3>4. memo.fix <= seen.fix
      BY <2>3, <2>4, <3>1, <3>2
    <3> QED
      BY <3>3, <3>4
  <2>11. ASSUME ~durable, ride # "ended", paid # Unset
         PROVE  clock - paid >= MinReroute \/ (memo # Unset /\ AskedIn(memo, paid) /\ seen.asked = memo.asked)
    <3>1. \A k \in Worker : work[k].at \notin {"answer", "store"}
      <4> SUFFICES ASSUME NEW k \in Worker, work[k].at \in {"answer", "store"} PROVE FALSE
        OBVIOUS
      <4>1. k = j
        BY <1>1 DEF HoldsLock, NavigationInv, LocksDiffer
      <4> QED
        BY <1>1, <4>1
    <3>2. memo # Unset => seen.asked = memo.asked
      BY <2>2, <2>3, <2>11 DEF Remembered
    <3> QED
      BY <2>11, <3>1, <3>2 DEF NavigationInv, PaidIsRemembered, Asked, AskedIn
  <2>12. ASSUME ~durable, ride # "ended", paid # Unset, at = "reserve" PROVE clock - paid >= MinReroute
    <3>1. seen.asked # Unset => clock - seen.asked >= MinReroute
      BY <2>4, <2>12 DEF Cool
    <3>2. paid \in Nat /\ clock \in Nat /\ MinReroute \in Nat
      BY <2>12 DEF NavigationAssumption, NavigationInv, NavigationTypeOK, Time
    <3>3. memo # Unset => memo.asked = Unset \/ memo.asked \in Nat
      BY <1>1, RouteFits
    <3>4. CASE clock - paid >= MinReroute
      BY <3>4
    <3>5. CASE memo # Unset /\ AskedIn(memo, paid) /\ seen.asked = memo.asked
      <4>1. PICK t \in Nat : t = memo.asked
        BY <3>3, <3>5 DEF AskedIn
      <4> HIDE DEF seen
      <4> QED
        BY <3>1, <3>2, <3>5, <4>1 DEF AskedIn
    <3> HIDE DEF seen
    <3> QED
      BY <2>11, <2>12, <3>4, <3>5
  <2>13. /\ paid \in Time \cup {Unset} /\ (paid # Unset => paid <= clock)
    BY DEF NavigationInv, NavigationTypeOK, PaidIsPast
  <2> HIDE DEF w, seen, now
  <2>14. MemoryFits(j, w)
    <3>1. ~durable /\ memo # Unset /\ Inside(w) /\ ~w.cancelled
            => memo.version <= w.route.version /\ memo.fix <= w.route.fix
      BY <2>6, <2>10
    <3>2. ASSUME ~durable, ride # "ended", paid # Unset
          PROVE  /\ clock - paid >= MinReroute \/ (memo # Unset /\ AskedIn(memo, paid))
                 /\ w.at \in {"reserve", "ask"} => clock - paid >= MinReroute
                 /\ w.at \in {"answer", "store"} => clock - paid >= MinReroute \/ AskedIn(w.route, paid)
      BY <2>4, <2>6, <2>11, <2>12, <3>2 DEF AskedIn
    <3> QED
      BY <1>1, <2>13, <3>1, <3>2 DEF MemoryFits
  <2> QED
    BY <2>9, <2>14, OneWorksStep
<1> QED
  BY <1>2, <1>3

-----------------------------------------------------------------------------
\* The later of two times.
LEMMA LaterIsLater ==
  ASSUME NavigationAssumption, NEW s \in Time \cup {Unset}, NEW t \in Time \cup {Unset}
  PROVE  Later(s, t) \in {s, t} /\ Later(s, Later(s, t)) = Later(s, t) /\ Later(s, s) = s
<1>1. (s # Unset => s \in Nat) /\ (t # Unset => t \in Nat)
  BY DEF NavigationAssumption, Time
<1> QED
  BY <1>1 DEF Later

\* Storing a route takes nothing back: not in the table, and not in memory.
LEMMA Persisting ==
  ASSUME NavigationAssumption, NavigationInv, NEW j \in Worker, InProcess(j),
         NEW route \in Route, route.version = work[j].route.version, route.fix = work[j].route.fix,
         NEW ok \in BOOLEAN, Persist(j, route, ok)
  PROVE  /\ UNCHANGED pin /\ meta' \in Route /\ memo' \in Route \cup {Unset}
         /\ durable => memo' = memo
         /\ ~durable => ok = ~work[j].cancelled /\ memo' = (IF ok THEN route ELSE memo)
         /\ meta'.version >= meta.version /\ meta'.fix >= meta.fix
         /\ Later(meta.asked, meta'.asked) = meta'.asked
         /\ memo # Unset /\ memo' # Unset => memo'.version >= memo.version /\ memo'.fix >= memo.fix
<1>1. /\ meta \in Route /\ memo \in Route \cup {Unset} /\ durable \in BOOLEAN
      /\ work[j] \in Work /\ work[j].cancelled \in BOOLEAN
  BY WorkFits DEF NavigationInv, NavigationTypeOK, Work, InProcess
<1>2. /\ meta.version \in Nat /\ meta.fix \in Nat /\ meta.asked \in Time \cup {Unset}
      /\ route.version \in Nat /\ route.fix \in Nat /\ route.asked \in Time \cup {Unset}
  BY <1>1, RouteFits
<1>3. meta.version >= meta.version /\ meta.fix >= meta.fix /\ Later(meta.asked, meta.asked) = meta.asked
  BY <1>2, LaterIsLater
<1>4. CASE durable
  <2>1. memo' = memo /\ UNCHANGED pin
    BY <1>4 DEF Persist, KeepPin
  <2>2. memo # Unset => memo.version >= memo.version /\ memo.fix >= memo.fix
    <3>1. memo # Unset => memo.version \in Nat /\ memo.fix \in Nat
      BY <1>1, RouteFits
    <3> QED
      BY <3>1
  <2>3. CASE ride = "ended"
    BY <1>1, <1>3, <1>4, <2>1, <2>2, <2>3 DEF Persist
  <2>4. CASE ride # "ended"
    <3> DEFINE stored == Written(route, work[j].read)
    <3>1. /\ stored \in Route /\ stored.version >= meta.version /\ stored.fix >= meta.fix
      <4>1. CASE ~Fits(route, work[j].read)
        BY <1>1, <1>3, <4>1 DEF Written
      <4>2. CASE Fits(route, work[j].read)
        <5>1. /\ stored = [route EXCEPT !.fix = IF route.fix = 0 THEN meta.fix ELSE route.fix]
              /\ route.version >= meta.version /\ (route.fix = 0 \/ route.fix >= meta.fix)
          BY <4>2 DEF Written, Fits
        <5>2. (IF route.fix = 0 THEN meta.fix ELSE route.fix) \in {0} \cup Gps
          BY <1>1, RouteFits
        <5>3. /\ stored \in Route /\ stored.version = route.version
              /\ stored.fix = IF route.fix = 0 THEN meta.fix ELSE route.fix
          BY <5>1, <5>2 DEF Route
        <5> HIDE DEF stored
        <5> QED
          BY <1>2, <1>3, <5>1, <5>3
      <4> QED
        BY <4>1, <4>2
    <3>2. meta' = [stored EXCEPT !.asked = Later(meta.asked, route.asked)]
      BY <1>4, <2>4 DEF Persist
    <3> HIDE DEF stored
    <3>3. /\ Later(meta.asked, route.asked) \in Time \cup {Unset}
          /\ Later(meta.asked, Later(meta.asked, route.asked)) = Later(meta.asked, route.asked)
      BY <1>2, LaterIsLater
    <3>4. /\ meta' \in Route /\ meta'.version = stored.version /\ meta'.fix = stored.fix
          /\ meta'.asked = Later(meta.asked, route.asked)
      BY <3>1, <3>2, <3>3 DEF Route
    <3> QED
      BY <1>1, <1>4, <2>1, <2>2, <3>1, <3>3, <3>4
  <2> QED
    BY <2>3, <2>4
<1>5. CASE ~durable
  <2>1. /\ UNCHANGED <<meta, pin>> /\ ok = ~work[j].cancelled
        /\ memo' = (IF ok THEN route ELSE memo)
    BY <1>5 DEF Persist
  <2>2. ASSUME memo # Unset PROVE memo'.version >= memo.version /\ memo'.fix >= memo.fix
    <3>1. memo.version \in Nat /\ memo.fix \in Nat
      BY <1>1, <2>2, RouteFits
    <3>2. CASE ok
      <4>1. memo.version <= route.version /\ memo.fix <= route.fix
        BY <1>5, <2>1, <2>2, <3>2 DEF NavigationInv, CopiesAreNewer
      <4> QED
        BY <1>2, <2>1, <3>1, <3>2, <4>1
    <3>3. CASE ~ok
      BY <2>1, <3>1, <3>3
    <3> QED
      BY <3>2, <3>3
  <2> QED
    BY <1>1, <1>3, <1>5, <2>1, <2>2
<1> QED
  BY <1>4, <1>5

\* What the worker at the route knows of the last paid request.
LEMMA InsideFits ==
  ASSUME NavigationAssumption, NavigationInv, NEW j \in Worker, InProcess(j)
  PROVE  /\ work[j] \in Work /\ work[j].route \in Route /\ HoldsLock(j) /\ work[j].at # "idle"
         /\ work[j].cancelled => ride = "ended"
         /\ clock \in Nat /\ clock \in Time /\ clock >= clock /\ clock # Unset
         /\ paid \in Time \cup {Unset} /\ (paid # Unset => paid \in Nat /\ paid <= clock)
         /\ meta \in Route /\ memo \in Route \cup {Unset}
         /\ ~durable /\ memo # Unset /\ ~work[j].cancelled
              => memo.version <= work[j].route.version /\ memo.fix <= work[j].route.fix
         /\ ~durable /\ ride # "ended" /\ paid # Unset =>
              /\ work[j].at \in {"reserve", "ask"} => clock - paid >= MinReroute
              /\ work[j].at \in {"answer", "store"} =>
                   clock - paid >= MinReroute \/ AskedIn(work[j].route, paid)
<1>1. work[j] \in Work /\ work[j].route \in Route /\ HoldsLock(j) /\ work[j].at # "idle"
  BY WorkFits
<1>2. work[j].cancelled => ride = "ended"
  BY <1>1 DEF NavigationInv, EndCancels
<1>3. clock \in Nat /\ clock \in Time /\ clock # Unset /\ paid \in Time \cup {Unset}
      /\ (paid # Unset => paid \in Nat /\ paid <= clock)
  BY DEF NavigationAssumption, NavigationInv, NavigationTypeOK, Time, PaidIsPast
<1> QED
  BY <1>1, <1>2, <1>3 DEF NavigationInv, NavigationTypeOK, CopiesAreNewer, AskersAreCool, Asked, AskedIn

LEMMA StepOfReserve ==
  ASSUME NavigationAssumption, NavigationInv, NEW j \in Worker, Reserve(j) PROVE NavigationInv'
<1>1. /\ work[j].at = "reserve" /\ InProcess(j)
      /\ UNCHANGED <<durable, ride, clock, paid, missed>>
  BY DEF Reserve, InProcess
<1>2. CASE Goes(j, "answer") /\ UNCHANGED <<meta, memo, pin>>
  <2> DEFINE w == [work[j] EXCEPT !.at = "answer"]
  <2>1. /\ w \in Work /\ w.at = "answer" /\ w.route = work[j].route
        /\ w.cancelled = work[j].cancelled
    BY <1>1, InsideFits DEF Work
  <2>2. work' = [work EXCEPT ![j] = w]
    BY <1>2 DEF Goes
  <2> HIDE DEF w
  <2>3. OneWorks(j, w)
    BY <1>1, <1>2, <2>1, <2>2, InsideFits DEF OneWorks
  <2>4. MemoryFits(j, w)
    BY <1>1, <1>2, <2>1, InsideFits DEF MemoryFits
  <2> QED
    BY <2>3, <2>4, OneWorksStep
<1>3. ASSUME NEW ok \in BOOLEAN,
             Persist(j, [work[j].route EXCEPT !.asked = clock], ok),
             work' = [work EXCEPT ![j] = [@ EXCEPT !.route = [work[j].route EXCEPT !.asked = clock],
                                                   !.at = IF ok THEN "ask" ELSE "store"]]
      PROVE  NavigationInv'
  <2> DEFINE route == [work[j].route EXCEPT !.asked = clock]
             w == [work[j] EXCEPT !.route = route, !.at = IF ok THEN "ask" ELSE "store"]
  <2>1. /\ route \in Route /\ route.version = work[j].route.version
        /\ route.fix = work[j].route.fix /\ route.asked = clock
    BY <1>1, InsideFits DEF Route
  <2>2. /\ w \in Work /\ w.at = (IF ok THEN "ask" ELSE "store") /\ w.route = route
        /\ w.cancelled = work[j].cancelled
    BY <1>1, <2>1, InsideFits DEF Work
  <2>3. work' = [work EXCEPT ![j] = w] /\ Persist(j, route, ok)
    BY <1>3
  <2> HIDE DEF w, route
  <2>4. /\ UNCHANGED pin /\ meta' \in Route /\ memo' \in Route \cup {Unset}
        /\ ~durable => ok = ~work[j].cancelled /\ memo' = (IF ok THEN route ELSE memo)
    BY <1>1, <2>1, <2>3, Persisting
  <2>5. OneWorks(j, w)
    BY <1>1, <2>2, <2>3, <2>4, InsideFits DEF OneWorks
  <2>6. MemoryFits(j, w)
    <3>1. ASSUME ~durable, memo' # Unset, ~w.cancelled
          PROVE  memo'.version <= w.route.version /\ memo'.fix <= w.route.fix
      <4>1. memo' = route /\ w.route = route
        BY <2>2, <2>4, <3>1
      <4>2. route.version \in Nat /\ route.fix \in Nat
        BY <2>1, RouteFits
      <4> QED
        BY <4>1, <4>2
    <3>2. ASSUME ~durable, ride # "ended", paid # Unset PROVE clock - paid >= MinReroute
      BY <1>1, <3>2, InsideFits
    <3> QED
      BY <1>1, <3>1, <3>2, InsideFits DEF MemoryFits
  <2> QED
    BY <2>5, <2>6, OneWorksStep
<1> QED
  BY <1>2, <1>3 DEF Reserve

LEMMA StepOfAsk ==
  ASSUME NavigationAssumption, NavigationInv, NEW j \in Worker, Ask(j) PROVE NavigationInv'
<1>1. /\ work[j].at = "ask" /\ InProcess(j)
      /\ UNCHANGED <<durable, ride, meta, memo, pin, clock, missed>>
      /\ paid' = IF durable THEN Unset ELSE clock
      /\ work' = [work EXCEPT ![j] = [@ EXCEPT !.route.asked = clock, !.at = "answer"]]
  BY DEF Ask, InProcess
<1> DEFINE route == [work[j].route EXCEPT !.asked = clock]
           w == [work[j] EXCEPT !.route = route, !.at = "answer"]
<1>2. /\ route \in Route /\ route.version = work[j].route.version
      /\ route.fix = work[j].route.fix /\ route.asked = clock
  BY <1>1, InsideFits DEF Route
<1>3. /\ w \in Work /\ w.at = "answer" /\ w.route = route /\ w.cancelled = work[j].cancelled
  BY <1>1, <1>2, InsideFits DEF Work
<1>4. work' = [work EXCEPT ![j] = w]
  BY <1>1
<1> HIDE DEF w, route
<1>5. OneWorks(j, w)
  BY <1>1, <1>3, <1>4, InsideFits DEF OneWorks
<1>6. MemoryFits(j, w)
  <2>1. ~durable => paid' = clock /\ AskedIn(w.route, paid')
    BY <1>1, <1>2, <1>3, InsideFits DEF AskedIn
  <2>2. paid' \in Time \cup {Unset} /\ (paid' # Unset => paid' <= clock)
    BY <1>1, InsideFits
  <2>3. ~durable /\ memo' # Unset /\ Inside(w) /\ ~w.cancelled
          => memo'.version <= w.route.version /\ memo'.fix <= w.route.fix
    BY <1>1, <1>2, <1>3, InsideFits
  <2> QED
    BY <1>1, <1>3, <2>1, <2>2, <2>3, InsideFits DEF MemoryFits
<1> QED
  BY <1>5, <1>6, OneWorksStep

LEMMA StepOfAnswer ==
  ASSUME NavigationAssumption, NavigationInv, NEW j \in Worker, Answer(j) PROVE NavigationInv'
<1>1. /\ work[j].at = "answer" /\ InProcess(j)
      /\ UNCHANGED <<durable, ride, meta, memo, pin, clock, paid, missed>>
  BY DEF Answer, InProcess
<1>2. PICK w \in Work :
        /\ work' = [work EXCEPT ![j] = w]
        /\ w.at = "store" /\ w.cancelled = work[j].cancelled
        /\ w.route.version >= work[j].route.version /\ w.route.fix = work[j].route.fix
        /\ w.route.asked = work[j].route.asked
  <2>1. work[j].route \in Route /\ work[j] \in Work
    BY <1>1, InsideFits
  <2>2. work[j].route.version \in Nat /\ MaxRoutes \in Nat
    BY <2>1, RouteFits DEF NavigationAssumption
  <2>3. CASE Goes(j, "store")
    <3> DEFINE w == [work[j] EXCEPT !.at = "store"]
    <3>1. /\ w \in Work /\ w.at = "store" /\ w.cancelled = work[j].cancelled
          /\ w.route = work[j].route
      BY <2>1 DEF Work
    <3>2. work' = [work EXCEPT ![j] = w]
      BY <2>3 DEF Goes
    <3>3. work[j].route.version >= work[j].route.version
      BY <2>2
    <3> HIDE DEF w
    <3> QED
      BY <3>1, <3>2, <3>3
  <2>4. ASSUME work[j].route.version < MaxRoutes,
               work' = [work EXCEPT ![j] = [@ EXCEPT !.route = NewRoute(j), !.at = "store"]]
        PROVE  \E w \in Work :
                 /\ work' = [work EXCEPT ![j] = w]
                 /\ w.at = "store" /\ w.cancelled = work[j].cancelled
                 /\ w.route.version >= work[j].route.version /\ w.route.fix = work[j].route.fix
                 /\ w.route.asked = work[j].route.asked
    <3>1. work[j].route.version + 1 \in 0..MaxRoutes
          /\ work[j].route.version + 1 >= work[j].route.version
      BY <2>2, <2>4
    <3>2. LegOf(work[j].seen) \in Leg
      BY DEF LegOf, Leg
    <3>3. /\ NewRoute(j) \in Route /\ NewRoute(j).version = work[j].route.version + 1
          /\ NewRoute(j).fix = work[j].route.fix /\ NewRoute(j).asked = work[j].route.asked
      BY <2>1, <3>1, <3>2 DEF NewRoute, Route
    <3> DEFINE w == [work[j] EXCEPT !.route = NewRoute(j), !.at = "store"]
    <3>4. /\ w \in Work /\ w.at = "store" /\ w.cancelled = work[j].cancelled
          /\ w.route = NewRoute(j)
      BY <2>1, <3>3 DEF Work
    <3>5. work' = [work EXCEPT ![j] = w]
      BY <2>4
    <3> HIDE DEF w
    <3> QED
      BY <3>1, <3>3, <3>4, <3>5
  <2> QED
    BY <2>3, <2>4 DEF Answer
<1>3. OneWorks(j, w)
  BY <1>1, <1>2, InsideFits DEF OneWorks
<1>4. MemoryFits(j, w)
  <2>1. ASSUME ~durable, memo # Unset, ~w.cancelled
        PROVE  memo.version <= w.route.version /\ memo.fix <= w.route.fix
    <3>1. memo.version <= work[j].route.version /\ memo.fix <= work[j].route.fix /\ memo \in Route
      BY <1>1, <1>2, <2>1, InsideFits
    <3>2. memo.version \in Nat /\ memo.fix \in Nat /\ work[j].route.version \in Nat
          /\ w.route.version \in Nat
      <4>1. w.route \in Route
        BY DEF Work
      <4> QED
        BY <1>1, <3>1, <4>1, InsideFits, RouteFits
    <3> QED
      BY <1>2, <3>1, <3>2
  <2> QED
    BY <1>1, <1>2, <2>1, InsideFits DEF MemoryFits, AskedIn
<1> QED
  BY <1>3, <1>4, OneWorksStep

LEMMA StepOfStore ==
  ASSUME NavigationAssumption, NavigationInv, NEW j \in Worker, Store(j) PROVE NavigationInv'
<1>1. /\ work[j].at = "store" /\ InProcess(j) /\ Leaves(j)
      /\ UNCHANGED <<durable, ride, clock, paid, missed>>
  BY DEF Store, InProcess
<1>2. PICK ok \in BOOLEAN : Persist(j, work[j].route, ok)
  BY DEF Store
<1>3. Idle \in Work \cup {Idle} /\ ~Inside(Idle) /\ ~Holds(Idle) /\ Idle.at = "idle"
  BY DEF Idle, Inside, Holds
<1>4. /\ UNCHANGED pin /\ meta' \in Route /\ memo' \in Route \cup {Unset}
      /\ ~durable => ok = ~work[j].cancelled /\ memo' = (IF ok THEN work[j].route ELSE memo)
  BY <1>1, <1>2, InsideFits, Persisting
<1>5. OneWorks(j, Idle)
  BY <1>1, <1>3, <1>4 DEF OneWorks, Leaves
<1>6. MemoryFits(j, Idle)
  <2>1. ASSUME ~durable, ride # "ended", paid # Unset
        PROVE  clock - paid >= MinReroute \/ (memo' # Unset /\ AskedIn(memo', paid))
    <3>1. memo' = work[j].route /\ work[j].route # Unset
      BY <1>1, <1>4, <2>1, InsideFits, RouteFits
    <3> QED
      BY <1>1, <2>1, <3>1, InsideFits
  <2> QED
    BY <1>1, <1>3, <2>1, InsideFits DEF MemoryFits
<1> QED
  BY <1>5, <1>6, OneWorksStep

-----------------------------------------------------------------------------
\* A guess, and the end of a lock, move the counter alone; the ride may begin with a right one.
LEMMA StepOfPin ==
  ASSUME NavigationAssumption, NavigationInv, GuessWrong \/ GuessRight \/ LockEnds
  PROVE  NavigationInv'
<1>1. /\ UNCHANGED <<durable, meta, memo, work, clock, paid>>
      /\ ride' \in Status /\ (ride # "ended" \/ ride' = ride)
  BY DEF GuessWrong, GuessRight, LockEnds, Status, NavigationInv, NavigationTypeOK
<1>2. /\ pin.failed \in 0..PinAttempts /\ pin.lock \in {"none", "on", "over"}
      /\ pin \in [failed : 0..PinAttempts, lock : {"none", "on", "over"}]
      /\ missed \in 0..PinAttempts /\ PinAttempts \in Nat \ {0} /\ ride \in Status
  BY DEF NavigationAssumption, NavigationInv, NavigationTypeOK
<1>3. /\ pin.lock # "over" => pin.failed = missed
      /\ pin.lock = "none" => missed < PinAttempts
      /\ pin.lock = "over" => missed = 0
  BY DEF NavigationInv, PinCounts, PinCountsGuesses
<1>4. /\ pin' \in [failed : 0..PinAttempts, lock : {"none", "on", "over"}]
      /\ missed' \in 0..PinAttempts /\ PinCounts'
  <2>1. CASE GuessWrong
    <3>1. pin.lock # "on" /\ missed' = missed + 1
          /\ pin' = [failed |-> Failed + 1, lock |-> IF Failed + 1 >= PinAttempts THEN "on" ELSE "none"]
      BY <2>1 DEF GuessWrong
    <3>2. Failed = missed /\ missed < PinAttempts
      BY <1>2, <1>3, <3>1 DEF Failed
    <3>3. /\ missed' \in 0..PinAttempts
          /\ pin'.failed = missed' /\ pin'.lock = IF missed' >= PinAttempts THEN "on" ELSE "none"
          /\ pin' \in [failed : 0..PinAttempts, lock : {"none", "on", "over"}]
      BY <1>2, <3>1, <3>2
    <3> QED
      BY <1>2, <3>3 DEF PinCounts, PinCountsGuesses
  <2>2. CASE GuessRight
    BY <1>2, <2>2 DEF GuessRight, NewPin, PinCounts, PinCountsGuesses
  <2>3. CASE LockEnds
    <3>1. pin' = [pin EXCEPT !.lock = "over"] /\ missed' = 0
      BY <2>3 DEF LockEnds
    <3>2. pin' \in [failed : 0..PinAttempts, lock : {"none", "on", "over"}] /\ pin'.lock = "over"
      BY <1>2, <3>1
    <3> QED
      BY <1>2, <3>1, <3>2 DEF PinCounts, PinCountsGuesses
  <2> QED
    BY <2>1, <2>2, <2>3
<1>5. NavigationTypeOK'
  BY <1>1, <1>2, <1>4 DEF NavigationInv, NavigationTypeOK
<1>6. LocksDiffer' /\ CopiesAreNewer' /\ PaidIsPast'
  BY <1>1 DEF NavigationInv, LocksDiffer, HoldsLock, CopiesAreNewer, InProcess, PaidIsPast
<1>7. EndCancels' /\ PaidIsRemembered' /\ AskersAreCool'
  <2>1. ride = "ended" => ride' = "ended"
    BY <1>1
  <2>2. ride' = "ended" => ride = "ended"
    BY DEF GuessWrong, GuessRight, LockEnds
  <2> QED
    BY <1>1, <2>1, <2>2 DEF NavigationInv, EndCancels, PaidIsRemembered, AskersAreCool, Asked
<1> QED
  BY <1>4, <1>5, <1>6, <1>7 DEF NavigationInv

LEMMA StepOfArrive ==
  ASSUME NavigationInv, Arrive PROVE NavigationInv'
<1>1. /\ ride = "to_pickup" /\ ride' = "arrived"
      /\ UNCHANGED <<durable, meta, memo, pin, work, clock, paid, missed>>
  BY DEF Arrive
<1>2. NavigationTypeOK'
  BY <1>1 DEF NavigationInv, NavigationTypeOK, Status
<1>3. LocksDiffer' /\ CopiesAreNewer' /\ PaidIsPast' /\ PinCounts'
  BY <1>1 DEF NavigationInv, LocksDiffer, HoldsLock, CopiesAreNewer, InProcess, PaidIsPast,
              PinCounts, PinCountsGuesses
<1>4. EndCancels' /\ PaidIsRemembered' /\ AskersAreCool'
  BY <1>1 DEF NavigationInv, EndCancels, PaidIsRemembered, AskersAreCool, Asked
<1> QED
  BY <1>2, <1>3, <1>4 DEF NavigationInv

\* The end of the ride, or the age of a route in memory, drops it.
LEMMA StepOfClear ==
  ASSUME NavigationAssumption, NavigationInv, EndRide \/ MemoExpires PROVE NavigationInv'
<1>1. /\ Cleared /\ memo' = Unset
      /\ UNCHANGED <<durable, meta, pin, clock, paid, missed>>
      /\ ride' \in Status
  BY DEF EndRide, MemoExpires, Cleared, Status, NavigationInv, NavigationTypeOK
<1>2. \A j \in Worker :
        /\ work'[j] \in Work \cup {Idle} /\ work'[j].at = work[j].at
        /\ work'[j] = IF InProcess(j) THEN [work[j] EXCEPT !.cancelled = TRUE] ELSE work[j]
  <2> SUFFICES ASSUME NEW j \in Worker
               PROVE  /\ work'[j] \in Work \cup {Idle} /\ work'[j].at = work[j].at
                      /\ work'[j] = IF InProcess(j) THEN [work[j] EXCEPT !.cancelled = TRUE]
                                                    ELSE work[j]
    OBVIOUS
  <2>1. work'[j] = IF InProcess(j) THEN [work[j] EXCEPT !.cancelled = TRUE] ELSE work[j]
    BY <1>1 DEF Cleared
  <2>2. CASE InProcess(j)
    BY <2>1, <2>2, InsideFits DEF Work
  <2>3. CASE ~InProcess(j)
    BY <2>1, <2>3, WorkFits
  <2> QED
    BY <2>1, <2>2, <2>3
<1>3. work' \in [Worker -> Work \cup {Idle}]
  <2>1. work' = [j \in Worker |-> work'[j]]
    BY <1>1 DEF Cleared
  <2> QED
    BY <1>2, <2>1
<1>4. NavigationTypeOK'
  BY <1>1, <1>3 DEF NavigationInv, NavigationTypeOK
<1>5. LocksDiffer' /\ CopiesAreNewer' /\ PaidIsPast' /\ PinCounts'
  BY <1>1, <1>2 DEF NavigationInv, LocksDiffer, HoldsLock, CopiesAreNewer, PaidIsPast,
                    PinCounts, PinCountsGuesses
<1>6. CASE EndRide
  <2>1. ride' = "ended"
    BY <1>6 DEF EndRide
  <2> QED
    BY <1>4, <1>5, <2>1 DEF NavigationInv, EndCancels, PaidIsRemembered, AskersAreCool
<1>7. CASE MemoExpires
  <2>1. ride' = ride /\ Cool(memo) /\ memo # Unset /\ \A j \in Worker : ~InProcess(j)
    BY <1>7 DEF MemoExpires
  <2>2. \A j \in Worker : work'[j] = work[j]
    BY <1>2, <2>1
  <2>3. EndCancels' /\ AskersAreCool'
    BY <1>1, <2>1, <2>2 DEF NavigationInv, EndCancels, AskersAreCool, Asked
  <2>4. PaidIsRemembered'
    <3> SUFFICES ASSUME ~durable, ride # "ended", paid # Unset PROVE clock - paid >= MinReroute
      BY <1>1, <2>1 DEF PaidIsRemembered
    <3>1. \A j \in Worker : work[j].at \notin {"answer", "store"}
      BY <2>1 DEF InProcess
    <3>2. clock - paid >= MinReroute \/ Asked(memo)
      BY <3>1 DEF NavigationInv, PaidIsRemembered
    <3>3. CASE Asked(memo)
      <4>1. memo.asked # Unset /\ paid <= memo.asked /\ clock - memo.asked >= MinReroute
        BY <2>1, <3>3 DEF Asked, Cool
      <4>2. memo.asked \in Nat /\ paid \in Nat /\ clock \in Nat /\ MinReroute \in Nat
        <5>1. memo \in Route
          BY <2>1 DEF NavigationInv, NavigationTypeOK
        <5> QED
          BY <4>1, <5>1, RouteFits DEF NavigationAssumption, NavigationInv, NavigationTypeOK, Time
      <4>3. PICK t \in Nat : t = memo.asked
        BY <4>2
      <4> QED
        BY <4>1, <4>2, <4>3
    <3> QED
      BY <3>2, <3>3
  <2> QED
    BY <1>4, <1>5, <2>3, <2>4 DEF NavigationInv
<1> QED
  BY <1>6, <1>7

LEMMA StepOfTick ==
  ASSUME NavigationAssumption, NavigationInv, Tick PROVE NavigationInv'
<1>1. /\ clock < MaxTime /\ clock' = clock + 1
      /\ UNCHANGED <<durable, ride, meta, memo, pin, work, paid, missed>>
  BY DEF Tick
<1>2. clock \in Nat /\ clock' \in Time /\ MinReroute \in Nat /\ (paid # Unset => paid \in Nat)
  BY <1>1 DEF NavigationAssumption, NavigationInv, NavigationTypeOK, Time
<1>3. NavigationTypeOK'
  BY <1>1, <1>2 DEF NavigationInv, NavigationTypeOK
<1>4. LocksDiffer' /\ CopiesAreNewer' /\ PinCounts' /\ EndCancels'
  BY <1>1 DEF NavigationInv, LocksDiffer, HoldsLock, CopiesAreNewer, InProcess,
              PinCounts, PinCountsGuesses, EndCancels
<1>5. PaidIsPast' /\ (paid # Unset /\ clock - paid >= MinReroute => clock' - paid >= MinReroute)
  BY <1>1, <1>2 DEF NavigationInv, PaidIsPast
<1>6. PaidIsRemembered' /\ AskersAreCool'
  BY <1>1, <1>5 DEF NavigationInv, PaidIsRemembered, AskersAreCool, Asked
<1> QED
  BY <1>3, <1>4, <1>5, <1>6 DEF NavigationInv

LEMMA StepOfRestart ==
  ASSUME NavigationInv, Restart PROVE NavigationInv'
<1>1. /\ work' = [j \in Worker |-> Idle] /\ memo' = Unset /\ paid' = Unset
      /\ UNCHANGED <<durable, ride, meta, pin, clock, missed>>
  BY DEF Restart
<1>2. \A j \in Worker : ~HoldsLock(j)' /\ ~InProcess(j)' /\ work'[j].at = "idle"
  BY <1>1 DEF HoldsLock, InProcess, Idle
<1>3. NavigationTypeOK'
  BY <1>1 DEF NavigationInv, NavigationTypeOK
<1>4. PinCounts'
  BY <1>1 DEF NavigationInv, PinCounts, PinCountsGuesses
<1> QED
  BY <1>1, <1>2, <1>3, <1>4 DEF NavigationInv, LocksDiffer, CopiesAreNewer, EndCancels, PaidIsPast,
                                PaidIsRemembered, AskersAreCool

LEMMA NavigationStep ==
  ASSUME NavigationAssumption, NavigationInv, [NavigationNext]_navigationVars PROVE NavigationInv'
<1>1. CASE NavigationNext
  BY <1>1, StepOutside, StepOfJudge, StepOfReserve, StepOfAsk, StepOfAnswer, StepOfStore, StepOfPin,
     StepOfArrive, StepOfClear, StepOfTick, StepOfRestart DEF NavigationNext
<1>2. CASE UNCHANGED navigationVars
  BY <1>2 DEF navigationVars, NavigationInv, NavigationTypeOK, LocksDiffer, HoldsLock, PinCounts,
     PinCountsGuesses, CopiesAreNewer, InProcess, EndCancels, PaidIsPast, PaidIsRemembered,
     AskersAreCool, Asked
<1> QED
  BY <1>1, <1>2

-----------------------------------------------------------------------------
\* A step takes no route back.
GoesOn ==
  /\ meta'.version >= meta.version /\ meta'.fix >= meta.fix
  /\ Later(meta.asked, meta'.asked) = meta'.asked
  /\ memo # Unset /\ memo' # Unset => memo'.version >= memo.version /\ memo'.fix >= memo.fix

LEMMA RoutesGoOn ==
  ASSUME NavigationAssumption, NavigationInv, [NavigationNext]_navigationVars PROVE GoesOn
<1>1. meta \in Route /\ memo \in Route \cup {Unset}
  BY DEF NavigationInv, NavigationTypeOK
<1>2. ASSUME meta' = meta, memo' = memo \/ memo' = Unset PROVE GoesOn
  <2>1. meta.version >= meta.version /\ meta.fix >= meta.fix /\ Later(meta.asked, meta.asked) = meta.asked
    BY <1>1, RouteFits, LaterIsLater
  <2>2. memo # Unset => memo.version >= memo.version /\ memo.fix >= memo.fix
    <3>1. memo # Unset => memo.version \in Nat /\ memo.fix \in Nat
      BY <1>1, RouteFits
    <3> QED
      BY <3>1
  <2> QED
    BY <1>2, <2>1, <2>2 DEF GoesOn
<1>3. ASSUME NEW j \in Worker, Reserve(j), ~(meta' = meta /\ memo' = memo) PROVE GoesOn
  <2>1. InProcess(j)
    BY <1>3 DEF Reserve, InProcess
  <2>2. PICK ok \in BOOLEAN : Persist(j, [work[j].route EXCEPT !.asked = clock], ok)
    BY <1>3 DEF Reserve
  <2> DEFINE route == [work[j].route EXCEPT !.asked = clock]
  <2>3. /\ route \in Route /\ route.version = work[j].route.version
        /\ route.fix = work[j].route.fix
    BY <2>1, InsideFits DEF Route
  <2>4. Persist(j, route, ok)
    BY <2>2
  <2> HIDE DEF route
  <2> QED
    BY <2>1, <2>3, <2>4, Persisting DEF GoesOn
<1>4. ASSUME NEW j \in Worker, Store(j) PROVE GoesOn
  <2>1. InProcess(j)
    BY <1>4 DEF Store, InProcess
  <2>2. PICK ok \in BOOLEAN : Persist(j, work[j].route, ok)
    BY <1>4 DEF Store
  <2>3. work[j].route \in Route
    BY <2>1, InsideFits
  <2> QED
    BY <2>1, <2>2, <2>3, Persisting DEF GoesOn
<1>5. \/ meta' = meta /\ (memo' = memo \/ memo' = Unset)
      \/ \E j \in Worker : Reserve(j) \/ Store(j)
  BY DEF NavigationNext, navigationVars, Start, TryRouteLock, ReadRide, Judge, Ask, Answer, GuessWrong,
         GuessRight, LockEnds, Arrive, EndRide, MemoExpires, Cleared, Tick, Restart
<1> QED
  BY <1>2, <1>3, <1>4, <1>5

\* Nobody asks before the cooldown is over.
CoolRequest ==
  \A j \in Worker :
    ~durable /\ ride # "ended" /\ paid # Unset /\ work[j].at = "ask" /\ work'[j].at = "answer"
      => clock - paid >= MinReroute

(* In whatever order answers, fixes and restarts come, a stored route is   *)
(* never taken back, a driver's guesses are all counted, and a process     *)
(* that keeps routes in memory does not ask before its cooldown is over.   *)
THEOREM NavigationIsSound ==
  ASSUME NavigationAssumption
  PROVE  NavigationSpec => RouteNeverGoesBack /\ []PinCountsGuesses /\ CooldownHolds
<1>1. NavigationSpec => []NavigationInv
  BY InitNavigation, NavigationStep, PTL DEF NavigationSpec
<1>2. NavigationInv /\ [NavigationNext]_navigationVars => GoesOn
  BY RoutesGoOn
<1>3. NavigationInv => PinCountsGuesses /\ CoolRequest
  BY DEF NavigationInv, PinCounts, AskersAreCool, CoolRequest
<1>4. NavigationSpec => [][GoesOn]_navigationVars
  BY <1>1, <1>2, PTL DEF NavigationSpec
<1>5. NavigationSpec => [][CoolRequest]_navigationVars
  BY <1>1, <1>3, PTL DEF NavigationSpec
<1>6. RouteNeverGoesBack <=> [][GoesOn]_navigationVars
  BY DEF RouteNeverGoesBack, GoesOn
<1>7. CooldownHolds <=> [][CoolRequest]_navigationVars
  BY DEF CooldownHolds, CoolRequest
<1> QED
  BY <1>1, <1>3, <1>4, <1>5, <1>6, <1>7, PTL

=============================================================================

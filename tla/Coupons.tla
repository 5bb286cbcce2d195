------------------------------- MODULE Coupons -------------------------------
(***************************************************************************)
(* Redemption of one coupon: `CouponRedemptionService.redeem` with         *)
(* `PostgresCouponRepository`, while administrators switch the coupon on   *)
(* and off.                                                                *)
(*                                                                         *)
(* A redemption is one transaction that reads the coupon's row FOR UPDATE  *)
(* and then decides over several statements.  `updated_at` is `stamp`: the *)
(* trigger of the table renews it at every update, redemptions included.   *)
(***************************************************************************)
EXTENDS Integers, FiniteSets, FiniteSetsExt

CONSTANTS
  User, Redeemer, Manager,
  UsageLimit, PerUserLimit,
  Fares, MinFare, Percentage, MaxDiscount,   \* the terms of the coupon, in paise
  MaxStamp,                                   \* bound: updates of the row
  NoUse

CouponsAssumption ==
  /\ IsFiniteSet(Redeemer)
  /\ {UsageLimit, PerUserLimit, MaxDiscount} \subseteq Nat \ {0}
  /\ MaxStamp \in Nat
  /\ Fares \subseteq Nat /\ MinFare \in Nat /\ Percentage \in 1..100
  /\ NoUse \notin [user : User, before : Fares, discount : Nat]

VARIABLES
  coupon,        \* the row of coupons
  redemptions,   \* rows of coupon_redemptions
  redeeming,     \* redemptions in progress: what their transaction has read
  editing        \* stamps the managers' pages show

couponVars == <<coupon, redemptions, redeeming, editing>>

CouponRow == [active : BOOLEAN, used : 0..UsageLimit, stamp : 0..MaxStamp]
Redemption == [user : User, before : Fares, discount : Nat]

CouponsTypeOK ==
  /\ coupon \in CouponRow
  /\ redemptions \in [Redeemer -> Redemption \cup {NoUse}]
  /\ redeeming \in [Redeemer -> {[at |-> "asking"], [at |-> "refused"], [at |-> "redeemed"]}
       \cup [at : {"locked", "counted", "incremented"}, user : User, fare : Fares, read : CouponRow]]
  /\ editing \in [Manager -> -1..MaxStamp]

CouponsInit ==
  /\ coupon = [active |-> TRUE, used |-> 0, stamp |-> 0]
  /\ redemptions = [r \in Redeemer |-> NoUse]
  /\ redeeming = [r \in Redeemer |-> [at |-> "asking"]]
  /\ editing = [a \in Manager |-> -1]

-----------------------------------------------------------------------------
(* A redemption holds the row from its first read to its commit. *)
InTransaction(r) == redeeming[r].at \in {"locked", "counted", "incremented"}
RowFreeAlways == TRUE
RowFree == \A r \in Redeemer : ~InTransaction(r)

Capped(n, limit) == IF n < limit THEN n ELSE limit

(* Math.round of a percentage, capped, and never more than the fare. *)
Discount(fare) ==
  Capped(Capped((2 * fare * Percentage + 100) \div 200, MaxDiscount), fare)

Refuse(r) ==
  /\ redeeming' = [redeeming EXCEPT ![r] = [at |-> "refused"]]
  /\ UNCHANGED <<redemptions, editing>>

(* BEGIN; SELECT .. FOR UPDATE. *)
LockCoupon(r, u, fare) ==
  /\ redeeming[r].at = "asking"
  /\ RowFree
  /\ redeeming' = [redeeming EXCEPT ![r] =
        [at |-> "locked", user |-> u, fare |-> fare, read |-> coupon]]
  /\ UNCHANGED <<coupon, redemptions, editing>>

Uses(u) == Cardinality({r \in Redeemer : redemptions[r] # NoUse /\ redemptions[r].user = u})
UsableBy(r) ==
  /\ redeeming[r].read.used < UsageLimit
  /\ Uses(redeeming[r].user) < PerUserLimit

CountUses(r) ==
  /\ redeeming[r].at = "locked"
  /\ \/ UsableBy(r) /\ redeeming' = [redeeming EXCEPT ![r].at = "counted"]
        /\ UNCHANGED <<redemptions, editing>>
     \/ ~UsableBy(r) /\ Refuse(r)
  /\ UNCHANGED coupon

Redeemable(r) == redeeming[r].read.active /\ redeeming[r].fare >= MinFare

(* The calculation refuses an inactive coupon or a small fare; the counter *)
(* is then incremented unless the row is at its limit.                      *)
IncrementUsage(r) ==
  /\ redeeming[r].at = "counted"
  /\ \/ /\ Redeemable(r) /\ coupon.used < UsageLimit
        /\ coupon.stamp < MaxStamp
        /\ coupon' = [coupon EXCEPT !.used = @ + 1, !.stamp = @ + 1]
        /\ redeeming' = [redeeming EXCEPT ![r].at = "incremented"]
        /\ UNCHANGED <<redemptions, editing>>
     \/ /\ ~(Redeemable(r) /\ coupon.used < UsageLimit)
        /\ Refuse(r)
        /\ UNCHANGED coupon

CreateRedemption(r) ==
  /\ redeeming[r].at = "incremented"
  /\ redemptions' = [redemptions EXCEPT ![r] =
        [user |-> redeeming[r].user, before |-> redeeming[r].fare, discount |-> Discount(redeeming[r].fare)]]
  /\ redeeming' = [redeeming EXCEPT ![r] = [at |-> "redeemed"]]
  /\ UNCHANGED <<coupon, editing>>

(* The connection is lost or the insert fails: the increment is undone. *)
RollBack(r) ==
  /\ InTransaction(r)
  /\ Refuse(r)
  /\ coupon' = IF redeeming[r].at = "incremented" THEN redeeming[r].read ELSE coupon

-----------------------------------------------------------------------------
OpenCoupon(a) ==
  /\ editing' = [editing EXCEPT ![a] = coupon.stamp]
  /\ UNCHANGED <<coupon, redemptions, redeeming>>

(* manageByAdmin: the row is taken FOR UPDATE and has to be the one the    *)
(* manager saw.                                                            *)
SaveCoupon(a, active) ==
  /\ editing[a] # -1 /\ RowFree
  /\ coupon.stamp = editing[a] /\ coupon.stamp < MaxStamp
  /\ coupon' = [coupon EXCEPT !.active = active, !.stamp = @ + 1]
  /\ editing' = [editing EXCEPT ![a] = -1]
  /\ UNCHANGED <<redemptions, redeeming>>

CouponsNext ==
  \/ \E r \in Redeemer : CountUses(r) \/ IncrementUsage(r) \/ CreateRedemption(r) \/ RollBack(r)
  \/ \E r \in Redeemer, u \in User, fare \in Fares : LockCoupon(r, u, fare)
  \/ \E a \in Manager : OpenCoupon(a) \/ \E active \in BOOLEAN : SaveCoupon(a, active)

CouponsSpec == CouponsInit /\ [][CouponsNext]_couponVars

-----------------------------------------------------------------------------
(* The counter counts the redemptions that are committed, neither limit is *)
(* passed whoever redeems at once, and nobody is given more than the fare. *)
CouponLimits ==
  /\ RowFree => coupon.used = Cardinality({r \in Redeemer : redemptions[r] # NoUse})
  /\ \A u \in User : Uses(u) <= PerUserLimit
  /\ \A r \in Redeemer : redemptions[r] # NoUse => redemptions[r].discount <= redemptions[r].before
=============================================================================

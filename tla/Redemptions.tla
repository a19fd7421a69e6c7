---------------------------- MODULE Redemptions ----------------------------
(***************************************************************************)
(* The limits of one coupon and one discount (apps/promotions): redemptions*)
(* recorded by requests that overlap, beside staff edits of both rows.     *)
(* record_redemption counts the redemption rows under the coupon's lock;   *)
(* record_discount_redemption adds to a counter on the discount's row,     *)
(* which a staff edit saves with every other column.                       *)
(***************************************************************************)
EXTENDS Workers

CONSTANTS
    Customer,        \* accounts; a guest redeems as None
    Limit,           \* the limits staff may set
    Unlimited,       \* no limit (a null column)
    MaxRedemptions   \* bound: redemptions of the coupon, and of the discount

ASSUME RedemptionsAssumption ==
    /\ None \notin Customer /\ Limit \subseteq Nat /\ Limit # {} /\ Unlimited \notin Nat
    /\ MaxRedemptions \in Nat

VARIABLES
    coupon,       \* the row: [active, total, each], usage_limit_total and usage_limit_per_user
    couponDates,  \* whether now is within starts_at and ends_at
    used,         \* redemption rows of the coupon
    usedBy,       \* those of each account, and of guests
    discount,     \* the row: [max, count], max_redemptions and redemption_count
    recorded,     \* (history) redemptions of the discount that were recorded
    promoLock,    \* holder of each row's lock
    redeemer,     \* what each request is doing
    countRaced    \* (history) whether an edit of the discount ever overlapped a request

redemptionVars == <<coupon, couponDates, used, usedBy, discount, recorded, promoLock, redeemer,
                    countRaced>>
-----------------------------------------------------------------------------
Shopper == Customer \cup {None}
PromoRows == {"coupon", "discount"}

NoDiscount == [max |-> Unlimited, count |-> 0]
NoRedeem == [pc |-> "idle", shopper |-> None, row |-> NoDiscount]

Within(n, limit) == limit # Unlimited => n < limit

\* A coupon as CouponSerializer accepts it.
CouponRow == [active : BOOLEAN, total : Limit \cup {Unlimited}, each : Limit]

RedemptionsInit ==
    /\ coupon \in CouponRow /\ couponDates \in BOOLEAN
    /\ used = 0 /\ usedBy = [s \in Shopper |-> 0]
    /\ \E n \in Limit \cup {Unlimited} : discount = [max |-> n, count |-> 0]
    /\ recorded = 0
    /\ promoLock = [r \in PromoRows |-> None]
    /\ redeemer = [w \in Worker |-> NoRedeem]
    /\ countRaced = FALSE

StartRedeem(w, t) ==
    LET others == {v \in Worker : redeemer[v] # NoRedeem} IN
    /\ redeemer[w] = NoRedeem
    /\ redeemer' = [redeemer EXCEPT ![w] = t]
    /\ countRaced' = (countRaced \/ \E v \in others : "edit" \in {t.pc, redeemer[v].pc})

\* The request is over: its transaction releases the row.
EndRedeem(w) ==
    /\ redeemer' = [redeemer EXCEPT ![w] = NoRedeem]
    /\ promoLock' = [r \in PromoRows |-> IF promoLock[r] = w THEN None ELSE promoLock[r]]
-----------------------------------------------------------------------------
\* What record_redemption checks.
Redeemable(s) ==
    /\ coupon.active /\ couponDates /\ Within(used, coupon.total)
    /\ s # None => usedBy[s] < coupon.each

\* Mutant of LockCoupon: the checks are made on the coupon that was passed in.
ReadCoupon(w) ==
    \E s \in Shopper :
        /\ used < MaxRedemptions /\ Redeemable(s)
        /\ StartRedeem(w, [NoRedeem EXCEPT !.pc = "coupon", !.shopper = s])
        /\ UNCHANGED <<coupon, couponDates, used, usedBy, discount, recorded, promoLock>>

\* record_redemption: the coupon FOR UPDATE, then the checks; a refused one
\* leaves nothing behind.
LockCoupon(w) ==
    \E s \in Shopper :
        /\ used < MaxRedemptions /\ promoLock["coupon"] = None /\ Redeemable(s)
        /\ StartRedeem(w, [NoRedeem EXCEPT !.pc = "coupon", !.shopper = s])
        /\ promoLock' = [promoLock EXCEPT !["coupon"] = w]
        /\ UNCHANGED <<coupon, couponDates, used, usedBy, discount, recorded>>

\* The redemption is inserted and the transaction commits, or it fails.
CommitRedemption(w) ==
    /\ redeemer[w].pc = "coupon"
    /\ \/ /\ used' = used + 1
          /\ usedBy' = [usedBy EXCEPT ![redeemer[w].shopper] = @ + 1]
       \/ UNCHANGED <<used, usedBy>>
    /\ EndRedeem(w)
    /\ UNCHANGED <<coupon, couponDates, discount, recorded, countRaced>>

\* record_discount_redemption: the same for the discount's counter.
LockDiscount(w) ==
    /\ recorded < MaxRedemptions /\ promoLock["discount"] = None
    /\ Within(discount.count, discount.max)
    /\ StartRedeem(w, [NoRedeem EXCEPT !.pc = "discount"])
    /\ promoLock' = [promoLock EXCEPT !["discount"] = w]
    /\ UNCHANGED <<coupon, couponDates, used, usedBy, discount, recorded>>

\* F("redemption_count") + 1 on the locked row.
CommitCount(w) ==
    /\ redeemer[w].pc = "discount"
    /\ \/ discount' = [discount EXCEPT !.count = @ + 1] /\ recorded' = recorded + 1
       \/ UNCHANGED <<discount, recorded>>
    /\ EndRedeem(w)
    /\ UNCHANGED <<coupon, couponDates, used, usedBy, countRaced>>
-----------------------------------------------------------------------------
\* AdminCouponDetailView saves the coupon; its UPDATE waits for the lock.
EditCoupon ==
    /\ promoLock["coupon"] = None
    /\ coupon' \in CouponRow
    /\ UNCHANGED <<couponDates, used, usedBy, discount, recorded, promoLock, redeemer, countRaced>>

\* starts_at or ends_at passes.
CouponDatesTurn ==
    /\ couponDates' = ~couponDates
    /\ UNCHANGED <<coupon, used, usedBy, discount, recorded, promoLock, redeemer, countRaced>>

\* AdminDiscountDetailView loads the discount ...
LoadDiscount(w) ==
    /\ StartRedeem(w, [NoRedeem EXCEPT !.pc = "edit", !.row = discount])
    /\ UNCHANGED <<coupon, couponDates, used, usedBy, discount, recorded, promoLock>>

\* ... and update_discount saves all its columns, the counter as it was loaded.
SaveDiscount(w) ==
    /\ redeemer[w].pc = "edit" /\ promoLock["discount"] = None
    /\ \E n \in Limit \cup {Unlimited} : discount' = [redeemer[w].row EXCEPT !.max = n]
    /\ EndRedeem(w)
    /\ UNCHANGED <<coupon, couponDates, used, usedBy, recorded, countRaced>>

RedemptionsNext ==
    \/ \E w \in Worker : \/ LockCoupon(w) \/ CommitRedemption(w) \/ LockDiscount(w)
                         \/ CommitCount(w) \/ LoadDiscount(w) \/ SaveDiscount(w)
    \/ EditCoupon \/ CouponDatesTurn

RedemptionsSpec == RedemptionsInit /\ [][RedemptionsNext]_redemptionVars
-----------------------------------------------------------------------------
\* The types of the variables; a row is locked by whoever is counting it.
RedemptionsTypeOK ==
    LET Row == [max : Limit \cup {Unlimited}, count : Nat] IN
    /\ coupon \in CouponRow /\ couponDates \in BOOLEAN
    /\ used \in Nat /\ usedBy \in [Shopper -> Nat]
    /\ discount \in Row /\ recorded \in Nat
    /\ promoLock \in [PromoRows -> Worker \cup {None}]
    /\ redeemer \in [Worker -> [pc : {"idle", "coupon", "discount", "edit"}, shopper : Shopper,
                                row : Row]]
    /\ countRaced \in BOOLEAN

\* However redemptions overlap with each other and with edits that move the
\* limits, no redemption is recorded beyond the limits of the coupon as it
\* stands when it commits, per account and in total.  As long as no edit of
\* the discount overlaps another request, its counter is the number of
\* redemptions recorded, and none is recorded beyond its limit.  (An edit that
\* overlaps takes recorded redemptions back.)
LimitsHold ==
    [][/\ \A s \in Shopper : usedBy'[s] > usedBy[s] =>
              /\ coupon.total = Unlimited \/ used' <= coupon.total
              /\ s = None \/ usedBy'[s] <= coupon.each
       /\ ~countRaced => discount.count = recorded
       /\ recorded' > recorded => discount.max = Unlimited \/ discount'.count <= discount.max
      ]_redemptionVars
=============================================================================

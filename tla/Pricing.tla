------------------------------ MODULE Pricing ------------------------------
(***************************************************************************)
(* The arithmetic of money: effective prices and coupons                   *)
(* (apps/promotions), bundles (apps/bundles), the totals of an order       *)
(* (apps/orders) and the refunds of its lines (apps/returns).  Amounts are *)
(* whole cents; rounding is where the code rounds, half up or half even.   *)
(***************************************************************************)
EXTENDS Workers, Sequences

CONSTANTS
    Price,      \* product prices, fixed discounts and fees, in cents
    Percent,    \* percentages of discounts, bundles and restocking fees
    Rate,       \* VAT rates
    OverPercent \* a percentage above 100, which only a coupon's serializer takes

ASSUME PricingAssumption ==
    /\ Price \subseteq Nat /\ Percent \subseteq 0 .. 100 /\ Rate \subseteq 0 .. 100
    /\ OverPercent \in Nat /\ OverPercent > 100

VARIABLE bill   \* what was last priced: a product, a bundle or an order with its refunds
-----------------------------------------------------------------------------
\* ROUND_HALF_UP, and the default of quantize: ROUND_HALF_EVEN.
HalfUp(n, d) == (2 * n + d) \div (2 * d)
HalfEven(n, d) == LET q == n \div d IN
                  IF 2 * (n % d) > d \/ (2 * (n % d) = d /\ q % 2 = 1) THEN q + 1 ELSE q

Cuts == [type : {"percent"}, value : Percent] \cup [type : {"fixed"}, value : Price]
NoCut == [type |-> "fixed", value |-> 0]
Coupons == [type : {"percent"}, value : Percent \cup {OverPercent}, stackable : BOOLEAN]
             \cup [type : {"fixed", "free_shipping"}, value : Price, stackable : BOOLEAN]

\* _apply_discount: never below zero.
ApplyDiscount(price, cut) ==
    IF cut.type = "percent" THEN HalfUp(price * (100 - cut.value), 100)
    ELSE price - Least(cut.value, price)

\* Mutant of CouponAdjustment: the savings are not limited to the price.
CouponUncapped(discounted, base, coupon) ==
    IF coupon.type = "percent" THEN HalfUp(discounted * coupon.value, 100) ELSE coupon.value

\* _coupon_adjustment of a coupon that is active and applies to the product.
CouponAdjustment(discounted, base, coupon) ==
    IF coupon.type = "free_shipping" \/ (discounted < base /\ ~coupon.stackable) THEN 0
    ELSE IF coupon.type = "percent"
         THEN HalfUp(Least(discounted * coupon.value, discounted * 100), 100)
         ELSE Least(coupon.value, discounted)

\* _discount_amount of a bundle.
BundleDiscount(cut, total) ==
    IF cut.type = "percent" THEN HalfEven(Least(total * cut.value, total * 100), 100)
    ELSE Least(cut.value, total)

TaxOn(amount, rate) == HalfUp(amount * rate, 100)

\* _line_refund_base: the line total and its tax.
LineRefundBase(line) == line.total + line.tax

\* The sum over the lines of an order, which has two.
Total(lines, F(_)) == F(lines[1]) + F(lines[2])
-----------------------------------------------------------------------------
PricingInit == bill = [kind |-> "none"]

\* get_effective_price.
PriceProduct ==
    \E base \in Price, cut \in Cuts, coupon \in Coupons :
        LET discounted == ApplyDiscount(base, cut)
            savings == CouponAdjustment(discounted, base, coupon)
        IN bill' = [kind |-> "product", base |-> base, discounted |-> discounted,
                    price |-> discounted - savings, coupon |-> savings]

\* _compute_bundle_price: unit prices are effective prices within the bundle.
PriceBundle ==
    \E p1, p2 \in Price, n \in 1 .. 2, cut, own \in Cuts :
        LET regular == p1 * n + p2
            effective == ApplyDiscount(p1, own) * n + ApplyDiscount(p2, NoCut)
            discount == BundleDiscount(cut, effective)
        IN bill' = [kind |-> "bundle", regular |-> regular, effective |-> effective,
                    discount |-> discount, price |-> effective - discount]

\* create_staff_order: totals of the lines, the delivery fee, and the tax on both.
PlaceOrder ==
    \E p1, p2 \in Price, n \in 1 .. 2, rate \in Rate, fee \in Price, vatable \in BOOLEAN :
        LET Line(p, q, r) == [total |-> p * q, tax |-> TaxOn(p * q, r), refund |-> 0]
            lines == <<Line(p1, n, rate), Line(p2, 1, 0)>>
            shippingTax == IF vatable THEN TaxOn(fee, rate) ELSE 0
        IN bill' = [kind |-> "order", lines |-> lines, fee |-> fee, shippingTax |-> shippingTax,
                    grand |-> Total(lines, LAMBDA x : x.total) + fee + shippingTax
                              + Total(lines, LAMBDA x : x.tax)]

\* approve_return_request: what staff propose, or else the line less the fee,
\* and no more than was collected for the order.
ApproveRefund ==
    \E i \in DOMAIN bill.lines, percent \in Percent, ask \in Price \cup {None} :
        LET base == LineRefundBase(bill.lines[i])
            fee == HalfEven(base * percent, 100)
            eligible == Least(base - fee, bill.grand)
            refund == IF ask = None THEN eligible ELSE Least(ask, eligible)
        IN /\ bill.lines[i].refund = 0 /\ fee <= base /\ refund > 0
           /\ bill' = [bill EXCEPT !.lines[i].refund = refund]

PricingNext == \/ bill.kind = "none" /\ (PriceProduct \/ PriceBundle \/ PlaceOrder)
               \/ bill.kind = "order" /\ ApproveRefund

PricingSpec == PricingInit /\ [][PricingNext]_bill
-----------------------------------------------------------------------------
\* Whatever discount, coupon and bundle apply, a price is never negative or
\* above the regular one, and its parts add up to the cent; returning every
\* line of an order refunds no more than was collected for it less delivery.
MoneyAddsUp ==
    CASE bill.kind = "product" -> /\ 0 <= bill.price /\ bill.price <= bill.discounted
                                  /\ bill.discounted <= bill.base
                                  /\ bill.coupon >= 0
      [] bill.kind = "bundle" -> /\ 0 <= bill.discount /\ 0 <= bill.price
                                 /\ bill.price <= bill.effective /\ bill.effective <= bill.regular
      [] bill.kind = "order" -> Total(bill.lines, LAMBDA x : x.refund)
                                    <= bill.grand - bill.fee - bill.shippingTax
      [] OTHER -> TRUE
=============================================================================

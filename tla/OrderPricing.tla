---------------------------- MODULE OrderPricing ----------------------------
(***************************************************************************)
(* The money arithmetic of the Orders service, in integer cents: what a    *)
(* line costs (OrderPricing) and what an order is charged                  *)
(* (CreateOrderService).  A price list and a purchase are functions from   *)
(* products; the tax rate is in basis points.                              *)
(***************************************************************************)
EXTENDS Naturals, Sums

BasisPoints == 10000

\* Math.Round(subtotal * rate, AwayFromZero), for the amounts that occur: none
\* is negative.
RoundedTax(subtotal, rate) == (2 * subtotal * rate + BasisPoints) \div (2 * BasisPoints)

LineSubtotal(unitPrice, quantity) == unitPrice * quantity

\* One line: tax is rounded once, on the line.
PriceLine(unitPrice, quantity, rate) ==
    LineSubtotal(unitPrice, quantity) + RoundedTax(LineSubtotal(unitPrice, quantity), rate)

\* The charge of each line of a purchase.
LineCharges(cart, price, rate) ==
    [p \in {q \in DOMAIN cart : cart[q] > 0} |-> PriceLine(price[p], cart[p], rate)]

\* An order: its lines, and shipping once.
OrderTotal(cart, price, rate, shipping) == shipping + SumOf(LineCharges(cart, price, rate))
=============================================================================

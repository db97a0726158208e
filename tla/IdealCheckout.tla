--------------------------- MODULE IdealCheckout ----------------------------
(***************************************************************************)
(* What POST /v1/orders promises, with no charge, lock, crash or webhook   *)
(* in sight: each key buys its cart at most once, in one atomic step that  *)
(* takes the units and fixes the total at the current prices; each request *)
(* gets one reply, and only the buyer of the order that exists is told so. *)
(***************************************************************************)
EXTENDS Naturals

CONSTANTS Requests, Keys, Products, Prices, InitStock, NoOrder,
          Total(_, _)  \* what a cart costs at given prices

VARIABLES stock, price, orders, cmd, reply

vars == <<stock, price, orders, cmd, reply>>

Init ==
    /\ stock = InitStock
    /\ price \in [Products -> Prices]
    /\ orders = [k \in Keys |-> NoOrder]
    /\ reply = [r \in Requests |-> "none"]

\* The purchase takes effect.
Buy(r) ==
    LET k == cmd[r].key  cart == cmd[r].cart
    IN  /\ reply[r] = "none" /\ orders[k] = NoOrder
        /\ \A p \in Products : cart[p] <= stock[p]
        /\ stock' = [p \in Products |-> stock[p] - cart[p]]
        /\ orders' = [orders EXCEPT ![k] =
                        [cart |-> cart, total |-> Total(cart, price), by |-> r]]
        /\ UNCHANGED <<price, cmd, reply>>

\* A reply that claims an order agrees with the order; an error claims nothing.
Truthful(r, answer) ==
    LET order == orders[cmd[r].key]
    IN  CASE answer = "created"  -> order # NoOrder /\ order.by = r
          [] answer = "replayed" -> order # NoOrder /\ order.cart = cmd[r].cart
          [] OTHER               -> TRUE

Reply(r) ==
    /\ reply[r] = "none"
    /\ \E answer \in {"created", "replayed", "error"} :
         Truthful(r, answer) /\ reply' = [reply EXCEPT ![r] = answer]
    /\ UNCHANGED <<stock, price, orders, cmd>>

Reprice(p, c) ==
    /\ price' = [price EXCEPT ![p] = c]
    /\ UNCHANGED <<stock, orders, cmd, reply>>

Next ==
    \/ \E r \in Requests : Buy(r) \/ Reply(r)
    \/ \E p \in Products, c \in Prices : Reprice(p, c)

Spec == Init /\ [][Next]_vars
=============================================================================

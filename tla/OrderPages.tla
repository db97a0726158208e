----------------------------- MODULE OrderPages -----------------------------
(***************************************************************************)
(* The order's page of the web application.  One component serves every    *)
(* /orders/:orderId: an effect loads the order each time the address       *)
(* changes, the checkout's navigation state is read once, when the         *)
(* component is made, and any load that ends writes what the page shows.   *)
(*                                                                         *)
(* A load is two calls, of the order and of the catalogue: it ends with    *)
(* the order, or by the first call to fail.  Left out: the lines, the      *)
(* delivery card and the timeline the entry is drawn as.                   *)
(***************************************************************************)
EXTENDS Naturals, FiniteSets

CONSTANTS Placed,  \* the buyer's orders
          Foreign, \* ids that are not
          NoOrder,
          Loads    \* 1 .. n: the loads there can be

OrderIds == Placed \cup Foreign

ASSUME OrderPagesAssumption == 1 \in Loads /\ NoOrder \notin OrderIds

VARIABLES
    view,          \* "orders" or "detail"
    url,           \* the orderId of the URL
    shownOrder, loadingOrder, error, notFound, justPlaced,
    orderList,     \* OrdersListPage.orders, with its own flags
    load,          \* each load: the id it asks for, and where it is; "list" is the list's
    bought,        \* history: the order the checkout led here with
    overlapped,    \* history: a load ended while another was under way
    moved          \* history: the component went from one order to another

detailVars == <<url, shownOrder, loadingOrder, error, notFound, justPlaced>>
orderPagesVars == <<view, detailVars, orderList, load, bought, overlapped, moved>>

NoLoad == [of |-> NoOrder, at |-> "unused"]
NoOrders == [rows |-> {}, loading |-> FALSE, error |-> FALSE]

OrderPagesTypeOK ==
    /\ view \in {"orders", "detail"} /\ url \in OrderIds \cup {NoOrder}
    /\ shownOrder \in Placed \cup {NoOrder} /\ {loadingOrder, error, notFound, justPlaced} \subseteq BOOLEAN
    /\ orderList.rows \subseteq Placed
    /\ \A n \in Loads : load[n].at \in {"unused", "sent", "order", "404", "failed", "done", "orphan"}

OrderPagesInit ==
    /\ view = "orders" /\ url = NoOrder /\ shownOrder = NoOrder
    /\ loadingOrder = FALSE /\ error = FALSE /\ notFound = FALSE /\ justPlaced = FALSE
    /\ orderList = [NoOrders EXCEPT !.loading = TRUE]
    /\ load = [n \in Loads |-> IF n = 1 THEN [of |-> "list", at |-> "sent"] ELSE NoLoad]
    /\ bought = NoOrder /\ overlapped = FALSE /\ moved = FALSE

UnderWay == {n \in Loads : load[n].at \in {"sent", "order", "404", "failed"}}
NextLoad(n) == load[n].at = "unused" /\ \A m \in Loads : m < n => load[m].at # "unused"

\* A component that is left takes its pending loads with it: their ends change nothing seen.
Orphaned == [m \in Loads |-> IF m \in UnderWay THEN [NoLoad EXCEPT !.at = "orphan"] ELSE load[m]]

\* Mutant: a load that starts leaves the earlier one's 404 standing.
StartOver(n, id, loads) ==
    /\ load' = [loads EXCEPT ![n] = [of |-> id, at |-> "sent"]]
    /\ loadingOrder' = TRUE /\ error' = FALSE /\ UNCHANGED notFound
\* load(): the flags are reset, the entry stays until another comes.
StartLoad(n, id, loads) ==
    /\ load' = [loads EXCEPT ![n] = [of |-> id, at |-> "sent"]]
    /\ loadingOrder' = TRUE /\ error' = FALSE /\ notFound' = FALSE

-----------------------------------------------------------------------------
\* The page is made: from the list, a link, or the checkout that placed the order.
Visit(n, id, placed) ==
    /\ view = "orders" /\ NextLoad(n) /\ (placed => id \in Placed)
    /\ view' = "detail" /\ url' = id /\ shownOrder' = NoOrder
    /\ justPlaced' = placed /\ bought' = IF placed THEN id ELSE NoOrder
    /\ StartLoad(n, id, Orphaned) /\ overlapped' = FALSE /\ moved' = FALSE /\ orderList' = NoOrders

\* The same component goes to another order: a toast's button, or Back.
MoveTo(n, id) ==
    /\ view = "detail" /\ id # url /\ NextLoad(n)
    /\ url' = id /\ moved' = TRUE /\ StartLoad(n, id, load)
    /\ UNCHANGED <<view, shownOrder, justPlaced, orderList, bought, overlapped>>

Reload(n) ==
    /\ view = "detail" /\ error /\ ~loadingOrder /\ NextLoad(n) /\ StartLoad(n, url, load)
    /\ UNCHANGED <<view, url, shownOrder, justPlaced, orderList, bought, overlapped, moved>>

\* Orders answers, 404 for an order that is not the caller's; or one of the calls fails.
OrdersServes(n) ==
    /\ load[n].at = "sent"
    /\ \E outcome \in {IF load[n].of \in Foreign THEN "404" ELSE "order", "failed"} :
           load' = [load EXCEPT ![n].at = outcome]
    /\ UNCHANGED <<view, detailVars, orderList, bought, overlapped, moved>>

\* What the end of a load leaves on the page.
Outcome(n) ==
    /\ shownOrder' = IF load[n].at = "order" THEN load[n].of ELSE shownOrder
    /\ notFound' = (notFound \/ load[n].at = "404")
    /\ error' = (error \/ load[n].at = "failed")
    /\ loadingOrder' = FALSE

LoadEnds(n) ==
    /\ view = "detail" /\ load[n].at \in {"order", "404", "failed"}
    /\ Outcome(n) /\ load' = [load EXCEPT ![n].at = "done"]
    /\ overlapped' = (overlapped \/ UnderWay # {n})
    /\ UNCHANGED <<view, url, justPlaced, orderList, bought, moved>>

-----------------------------------------------------------------------------
\* OrdersListPage, which loads when it is made and from its error.
OpenList(n) ==
    /\ view = "detail" /\ NextLoad(n) /\ view' = "orders" /\ orderList' = [NoOrders EXCEPT !.loading = TRUE]
    /\ load' = [Orphaned EXCEPT ![n] = [of |-> "list", at |-> "sent"]]
    /\ UNCHANGED <<detailVars, bought, overlapped, moved>>

ReloadList(n) ==
    /\ view = "orders" /\ orderList.error /\ NextLoad(n)
    /\ orderList' = [orderList EXCEPT !.loading = TRUE, !.error = FALSE]
    /\ load' = [load EXCEPT ![n] = [of |-> "list", at |-> "sent"]]
    /\ UNCHANGED <<view, detailVars, bought, overlapped, moved>>

ListEnds(n) ==
    /\ view = "orders" /\ load[n].at \in {"order", "failed"} /\ load' = [load EXCEPT ![n].at = "done"]
    /\ orderList' = [rows |-> IF load[n].at = "order" THEN Placed ELSE orderList.rows, loading |-> FALSE,
                  error |-> load[n].at = "failed"]
    /\ UNCHANGED <<view, detailVars, bought, overlapped, moved>>

OrderPagesNext ==
    \E n \in Loads :
        \/ \E id \in OrderIds : (\E placed \in BOOLEAN : Visit(n, id, placed)) \/ MoveTo(n, id)
        \/ Reload(n) \/ OrdersServes(n) \/ LoadEnds(n) \/ OpenList(n) \/ ReloadList(n) \/ ListEnds(n)

OrderPagesSpec == OrderPagesInit /\ [][OrderPagesNext]_orderPagesVars

-----------------------------------------------------------------------------
\* What the template shows, by its order of precedence.
Face == IF loadingOrder THEN "loading" ELSE IF error THEN "failed"
        ELSE IF notFound \/ shownOrder = NoOrder THEN "404" ELSE "order"
FaceOf(id) == IF id \in Foreign THEN "404" ELSE "order"

\* The page shows the order its address names, or says of that order why not, and is
\* busy just as long as it loads; but a load that ends under a later one leaves its own
\* order, or its failure, on the page.
PageOfAddress ==
    view = "detail" /\ ~overlapped =>
        /\ loadingOrder <=> UnderWay # {}
        /\ Face \in {"loading", "failed", FaceOf(url)}
        /\ Face = "order" => shownOrder = url

\* "One-shot": the thanks greet the order the checkout placed; but the component keeps
\* them when it goes to another order.
ThanksForIt == view = "detail" /\ justPlaced /\ ~moved => url = bought

\* Neither page waits for an answer that cannot come.
NeverStuck == UnderWay = {} => ~(view = "detail" /\ loadingOrder) /\ ~(view = "orders" /\ orderList.loading)

\* The page is true to its address, greets once, and ends its waiting.
OrderPageHonest == OrderPagesTypeOK /\ PageOfAddress /\ ThanksForIt /\ NeverStuck
=============================================================================

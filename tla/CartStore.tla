----------------------------- MODULE CartStore -----------------------------
(***************************************************************************)
(* The web application's cart and the checkout that spends it: CartStore,  *)
(* the steppers of the home page, and pay() of the checkout page, against  *)
(* the server's cart row and POST /v1/orders.                              *)
(*                                                                         *)
(* A cart is a quantity per product; no line is no row, so the empty cart  *)
(* is the deleted one.  The store shows the quantities clicked to at once, *)
(* writes one when its debounce timer fires, and runs its writes and reads *)
(* one at a time.  The server may fail before or after it takes a write,   *)
(* and another device of the same buyer may write as well.                 *)
(*                                                                         *)
(* Left out: prices, the stock behind canCheckout and `available` (Orders  *)
(* may refuse any order), setQuantity and clear, which no page calls.      *)
(***************************************************************************)
EXTENDS Naturals, Sequences

CONSTANTS Products,
          Pays,        \* ids of the POST /orders calls
          NoCart, None,
          MaxMoves,    \* bound: buyer's actions on lines, here or on another
                       \* device, and times the checkout page is opened
          MaxFaults    \* bound: lost or failed calls

ASSUME CartAssumption == NoCart \notin [Products -> Nat] /\ None \notin Nat \cup Products

VARIABLES
    row,           \* server: the active cart
    held,          \* store.cart: what the last answer carried
    pending,       \* store.pendingQuantities: the optimistic overlay
    armed,         \* products whose debounce timer runs
    queue, task,   \* the concatMap queue and the task it runs
    saving, loading, failed,  \* store flags; failed: error is not null
    page,          \* "home", "checkout"
    visit,         \* instance of the checkout page
    key,           \* idempotencyKey of the checkout page on show
    placing,
    post,          \* the POST /orders calls
    orders,        \* Orders: lines of each key's order
    cartUsed,      \* counters of the bounds
    wanted,        \* history: quantity last asked of each product
    crossed,       \* history: products clicked while a write of theirs waited
    unread,        \* history: the row changed, or the copy was dropped, unread
    unsure, disowned  \* history: keys of unknown outcome; those replaced since

storeVars == <<held, pending, armed, queue, task, saving, loading, failed>>
pageVars  == <<page, visit, key, placing, post>>
cartHist  == <<wanted, crossed, unread>>
payHist   == <<unsure, disowned>>
cartVars  == <<row, storeVars, pageVars, orders, cartUsed, cartHist, payHist>>

Empty == [p \in Products |-> 0]
Idle  == [op |-> "idle", p |-> None, q |-> 0, at |-> "none", try |-> 1, body |-> Empty]
Job(op, p, q) == [Idle EXCEPT !.op = op, !.p = p, !.q = q, !.at = "queued"]
Unused == [at |-> "unused", heard |-> "waiting", key |-> 0, lines |-> Empty, reply |-> "none", visit |-> 0]

CartTypeOK ==
    /\ row \in [Products -> Nat] /\ held \in [Products -> Nat] \cup {NoCart}
    /\ pending \in [Products -> Nat \cup {None}]
    /\ armed \subseteq Products
    /\ {saving, loading, failed, placing, unread} \subseteq BOOLEAN
    /\ task.at \in {"none", "sent", "served", "lost"}
    /\ task.at = "none" <=> task = Idle
    /\ \A i \in Pays : post[i].at \in {"unused", "atOrders", "served"}

CartInit ==
    /\ row = [p \in Products |-> 1] /\ held = NoCart
    /\ pending = [p \in Products |-> None] /\ armed = {}
    /\ queue = <<Job("load", None, 0)>> /\ task = Idle   \* AppLayout's
    /\ saving = FALSE /\ loading = FALSE /\ failed = FALSE
    /\ page = "home" /\ visit = 0 /\ key = 0 /\ placing = FALSE
    /\ post = [i \in Pays |-> Unused] /\ orders = {}
    /\ cartUsed = [moves |-> 0, faults |-> 0]
    /\ wanted = pending /\ crossed = {} /\ unread = TRUE
    /\ unsure = {} /\ disowned = {}

Spend(what, max) == cartUsed[what] < max /\ cartUsed' = [cartUsed EXCEPT ![what] = @ + 1]

-----------------------------------------------------------------------------
(***************************************************************************)
(* What the store shows, and what the buyer does with it on the home page. *)
(***************************************************************************)

Items(cart) == IF cart = NoCart THEN Empty ELSE cart

\* The overlay replaces the quantity of a held line; it adds none.
Lines == [p \in Products |->
            IF Items(held)[p] > 0 /\ pending[p] # None THEN pending[p] ELSE Items(held)[p]]

\* A settled or queued write of p's quantity, that will drop p's overlay.
Unsettled(p) == \E t \in {task} \cup {queue[n] : n \in DOMAIN queue} : t.op = "set" /\ t.p = p

\* Mutant: one timer for the whole store.
RearmShared(p) == {p}
\* The timer is p's own: a click restarts it and leaves the others alone.
Rearm(p) == armed \cup {p}

\* adjustQuantity: show the quantity, and restart the timer.
Adjust(p, q) ==
    /\ page = "home" /\ Lines[p] > 0
    /\ Spend("moves", MaxMoves)
    /\ pending' = [pending EXCEPT ![p] = q]
    /\ armed' = Rearm(p)
    /\ wanted' = [wanted EXCEPT ![p] = q]
    /\ crossed' = IF Unsettled(p) THEN crossed \cup {p} ELSE crossed
    /\ UNCHANGED <<row, held, queue, task, saving, loading, failed, pageVars, orders, unread, payHist>>

\* The product card's Add, shown while the cart does not hold the product.
Add(p) ==
    /\ page = "home" /\ Lines[p] = 0 /\ Spend("moves", MaxMoves)
    /\ queue' = Append(queue, Job("add", p, 1))
    /\ wanted' = [wanted EXCEPT ![p] = None]
    /\ UNCHANGED <<row, held, pending, armed, task, saving, loading, failed, pageVars, orders,
                   crossed, unread, payHist>>

Remove(p) ==
    /\ page = "home" /\ Lines[p] > 0 /\ Spend("moves", MaxMoves)
    /\ armed' = armed \ {p}
    /\ pending' = [pending EXCEPT ![p] = None]
    /\ queue' = Append(queue, Job("remove", p, 0))
    /\ wanted' = [wanted EXCEPT ![p] = 0]
    /\ crossed' = crossed \ {p}
    /\ UNCHANGED <<row, held, task, saving, loading, failed, pageVars, orders, unread, payHist>>

\* The stepper of a line, on its product card and in the drawer: both step off the
\* quantity on show, and at 1 the left key removes the line.
Increment(p) == Adjust(p, Lines[p] + 1)
Decrease(p) == IF Lines[p] <= 1 THEN Remove(p) ELSE Adjust(p, Lines[p] - 1)

\* The drawer reads the cart again when it opens.
OpenDrawer ==
    /\ page = "home" /\ Spend("moves", MaxMoves)
    /\ queue' = Append(queue, Job("load", None, 0))
    /\ UNCHANGED <<row, held, pending, armed, task, saving, loading, failed, pageVars, orders,
                   cartHist, payHist>>

\* The timer fires; the overlay may have been dropped since it was armed.
Fire(p) ==
    /\ p \in armed
    /\ armed' = armed \ {p}
    /\ queue' = IF pending[p] = None THEN queue ELSE Append(queue, Job("set", p, pending[p]))
    /\ UNCHANGED <<row, held, pending, task, saving, loading, failed, pageVars, orders, cartUsed,
                   cartHist, payHist>>

-----------------------------------------------------------------------------
(***************************************************************************)
(* The queue: one task at a time, a failed write retried once from a fresh *)
(* read.                                                                   *)
(***************************************************************************)

\* withQuantity over the lines the task starts from.
ItemsFrom(t, cart) ==
    [cart EXCEPT ![t.p] = IF t.op = "add" THEN @ + t.q ELSE t.q]

Begin ==
    /\ task = Idle /\ queue # <<>>
    /\ LET t == Head(queue) IN
         /\ task' = [t EXCEPT !.at = "sent", !.body = IF t.op = "load" THEN Empty
                                                      ELSE ItemsFrom(t, Items(held))]
         /\ loading' = (t.op = "load") /\ saving' = (t.op # "load")
    /\ queue' = Tail(queue) /\ failed' = FALSE
    /\ UNCHANGED <<row, held, pending, armed, pageVars, orders, cartUsed, cartHist, payHist>>

\* PUT /cart replaces the whole cart and answers with it; GET answers with it.
Serve ==
    /\ task.at = "sent"
    /\ row' = IF task.op = "load" THEN row ELSE task.body
    /\ task' = [task EXCEPT !.at = "served", !.body = row']
    /\ unread' = FALSE
    /\ UNCHANGED <<held, pending, armed, queue, saving, loading, failed, pageVars, orders, cartUsed,
                   wanted, crossed, payHist>>

\* The overlay of the product whose debounced write settled goes.
AfterSettling(ok) == IF task.op = "set" THEN [pending EXCEPT ![task.p] = None] ELSE pending

Finish(ok) ==
    /\ task' = Idle /\ saving' = FALSE /\ loading' = FALSE
    /\ pending' = AfterSettling(ok)
    /\ UNCHANGED <<row, armed, queue, pageVars, orders, crossed, unread, payHist>>

Answered ==
    /\ task.at = "served" /\ held' = task.body /\ Finish(TRUE)
    /\ UNCHANGED <<failed, cartUsed, wanted>>

\* A call is lost before it is served, or its answer is after it was; a write
\* has one more try.
CallFails ==
    /\ task.op # "load" /\ task.try = 1 /\ task.at \in {"sent", "served"}
    /\ Spend("faults", MaxFaults) /\ task' = [task EXCEPT !.at = "lost"]
    /\ UNCHANGED <<row, held, pending, armed, queue, saving, loading, failed, pageVars, orders,
                   cartHist, payHist>>

\* The retry rebuilds its items from the lines the server has now.
Retry ==
    /\ task.at = "lost"
    /\ task' = [task EXCEPT !.at = "sent", !.try = 2, !.body = ItemsFrom(task, row)]
    /\ UNCHANGED <<row, held, pending, armed, queue, saving, loading, failed, pageVars, orders,
                   cartUsed, cartHist, payHist>>

\* A failed read, and a write whose retry or whose fresh read failed, end in error.
GiveUp ==
    /\ \/ task.op = "load" /\ task.at \in {"sent", "served"}
       \/ task.try = 2 /\ task.at \in {"sent", "served"}
       \/ task.at = "lost"
    /\ Spend("faults", MaxFaults) /\ failed' = TRUE /\ Finish(FALSE)
    /\ wanted' = IF task.op = "load" THEN wanted ELSE [wanted EXCEPT ![task.p] = None]
    /\ UNCHANGED held

\* Another device of the buyer replaces the cart.
Rival ==
    /\ Spend("moves", MaxMoves)
    /\ \E p \in Products, q \in 0 .. 1 : row' = [row EXCEPT ![p] = q]
    /\ row' # row /\ unread' = TRUE /\ wanted' = [p \in Products |-> None]
    /\ UNCHANGED <<storeVars, pageVars, orders, crossed, payHist>>

-----------------------------------------------------------------------------
(***************************************************************************)
(* The checkout page.                                                      *)
(***************************************************************************)

\* What the server said can be bought, never the overlay.
CanCheckout == Items(held) # Empty

\* A new page instance has a key of its own and loads the cart.  The call of an
\* older instance, if one is out, goes on; its answer no longer frees placing.
EnterCheckout ==
    /\ page = "home" /\ CanCheckout /\ Spend("moves", MaxMoves)
    /\ page' = "checkout" /\ visit' = visit + 1 /\ key' = key + 1 /\ placing' = FALSE
    /\ queue' = Append(queue, Job("load", None, 0))
    /\ disowned' = IF key \in unsure \/ \E i \in Pays : post[i].key = key /\ post[i].heard = "waiting"
                   THEN disowned \cup {key} ELSE disowned
    /\ UNCHANGED <<row, held, pending, armed, task, saving, loading, failed, post, orders,
                   cartHist, unsure>>

Leave ==
    /\ page = "checkout" /\ page' = "home"
    /\ UNCHANGED <<row, storeVars, visit, key, placing, post, orders, cartUsed, cartHist, payHist>>

\* canPay, and the branches of the template that show the button at all.
CanPay == /\ CanCheckout /\ ~saving /\ ~placing
          /\ ~loading /\ ~failed /\ Lines # Empty

Pay(i) ==
    /\ page = "checkout" /\ CanPay
    /\ post[i].at = "unused" /\ \A j \in Pays : j < i => post[j].at # "unused"
    /\ post' = [post EXCEPT ![i] = [at |-> "atOrders", heard |-> "waiting", key |-> key, lines |-> Lines,
                                    reply |-> "none", visit |-> visit]]
    /\ placing' = TRUE
    /\ UNCHANGED <<row, storeVars, page, visit, key, orders, cartUsed, cartHist, payHist>>

\* Orders, idempotent by key: one order of the lines sent, the cart deleted with
\* it, and a replay, or a refusal of other lines, for a key that has one.
OrdersServe(i) ==
    /\ post[i].at = "atOrders"
    /\ \E reply \in {"ok", "refused", "failed"} :
         /\ IF reply = "failed" THEN Spend("faults", MaxFaults) ELSE UNCHANGED cartUsed
         /\ post' = [post EXCEPT ![i].at = "served", ![i].reply = reply]
         /\ IF reply = "ok" /\ ~\E o \in orders : o.key = post[i].key
            THEN /\ orders' = orders \cup {[key |-> post[i].key, lines |-> post[i].lines]}
                 /\ row' = Empty /\ unread' = TRUE /\ wanted' = [p \in Products |-> None]
            ELSE /\ \A o \in orders : o.key = post[i].key =>
                        reply \in (IF o.lines = post[i].lines THEN {"ok", "failed"} ELSE {"refused", "failed"})
                 /\ UNCHANGED <<orders, row, unread, wanted>>
    /\ UNCHANGED <<storeVars, page, visit, key, placing, crossed, payHist>>

\* forgetAfterCheckout: the timers stop and the store starts over; its queue,
\* and the task that runs, stay.
Forget ==
    /\ armed' = {} /\ held' = NoCart /\ pending' = [p \in Products |-> None]
    /\ saving' = FALSE /\ loading' = FALSE /\ failed' = FALSE
    /\ unread' = TRUE /\ wanted' = [p \in Products |-> None]
    /\ UNCHANGED <<queue, crossed>>

\* Mutant: any answer ends the attempt.
AnyAnswer(heard) == TRUE
\* Answers that end the attempt: the next one takes a new key.
Definitive(heard) == heard \in {"ok", "refused"}

\* The page hears the answer of its call, or that none came.
Hear(i) ==
    /\ post[i].at # "unused" /\ post[i].heard = "waiting"
    /\ \E heard \in {post[i].reply, "failed"} \ {"none"} :
         /\ IF post[i].at = "served" /\ heard = post[i].reply THEN UNCHANGED cartUsed
            ELSE Spend("faults", MaxFaults)
         /\ post' = [post EXCEPT ![i].heard = heard]
         /\ LET own == post[i].visit = visit IN
              /\ key' = IF own /\ Definitive(heard) THEN key + 1 ELSE key
              /\ placing' = (placing /\ ~own)
              /\ disowned' = IF heard = "refused" /\ post[i].key \in unsure
                             THEN disowned \cup {post[i].key} ELSE disowned
         /\ unsure' = IF heard = "failed" THEN unsure \cup {post[i].key} ELSE unsure
         /\ IF heard = "ok" THEN Forget /\ page' = "home"
            ELSE /\ queue' = Append(queue, Job("load", None, 0))
                 /\ UNCHANGED <<page, held, pending, armed, saving, loading, failed, cartHist>>
    /\ UNCHANGED <<row, task, visit, orders>>

\* The drawer: its list, its steppers and Continue.
Drawer == OpenDrawer \/ EnterCheckout \/ \E p \in Products : Increment(p) \/ Decrease(p)

CartNext ==
    \/ Drawer
    \/ \E p \in Products : Add(p) \/ Fire(p)
    \/ Begin \/ Serve \/ Answered \/ CallFails \/ Retry \/ GiveUp \/ Rival
    \/ Leave
    \/ \E i \in Pays : Pay(i) \/ OrdersServe(i) \/ Hear(i)

CartSpec == CartInit /\ [][CartNext]_cartVars

-----------------------------------------------------------------------------
Quiet == task = Idle /\ queue = <<>> /\ armed = {}

\* One order per purchase: a second one follows an order the page was told of,
\* unless the page gave up the first one's key while its outcome was unknown
\* (a refused retry, or the page left and opened again).
BoughtOnce ==
    \A a, b \in orders : a.key < b.key =>
        \/ a.key \in disowned
        \/ \E i \in Pays : post[i].key = a.key /\ post[i].heard = "ok"

\* Once nothing is queued, running or armed, the store shows the server's cart
\* and no overlay covers it, unless its last call failed or somebody else wrote.
QuietAgrees ==
    Quiet /\ ~failed => /\ pending = [p \in Products |-> None]
                        /\ ~unread => Items(held) = row

\* The last quantity asked for is the one the server has, unless the click
\* fell while an earlier write of that product was unsettled.
ClickStands ==
    Quiet => \A p \in Products \ crossed : wanted[p] # None => row[p] = wanted[p]

\* The basket on the screen, the server's and the buyer's clicks come to agree.
BasketAgrees == CartTypeOK /\ QuietAgrees /\ ClickStands
=============================================================================

------------------------------ MODULE Checkout ------------------------------
(***************************************************************************)
(* POST /v1/orders with Stripe enabled: CreateOrderService charges the     *)
(* buyer outside any transaction, then prices, decrements stock and saves  *)
(* the order inside one, and compensates a failure with a refund.  The     *)
(* Stripe webhook (StripeWebhookService) refunds the charges that were     *)
(* left with no order.                                                     *)
(*                                                                         *)
(* A request names a key, which stands for the (user, Idempotency-Key)     *)
(* pair: the order id, the unique index and Stripe's idempotency key are   *)
(* all derived from that pair.  Its cart is the consolidated purchase, and *)
(* plays the part of its fingerprint.  Requests of one key may overlap     *)
(* (double submit, client retry), crash, and be followed by other ones.    *)
(*                                                                         *)
(* Left out: Stripe's 24 hour retention of keys (every retry falls within  *)
(* it), the checkout without Stripe, the response cache and the cart row.  *)
(***************************************************************************)
EXTENDS Naturals, FiniteSets, OrderPricing

CONSTANTS Requests,   \* HTTP requests, each served once
          Keys,       \* (user, Idempotency-Key) pairs
          Products,   \* product ids, compared as the code's ordinal sort does
          Carts,      \* consolidated purchases: quantity of each product
          Prices,     \* unit prices a product may take
          TaxRate,    \* basis points
          Shipping,   \* cents of shipping, charged once per order
          InitStock,  \* units of each product at the start
          NoOrder     \* no row for this key

Total(cart, pr) == OrderTotal(cart, pr, TaxRate, Shipping)

ASSUME CheckoutAssumption ==
    /\ Products \subseteq Nat /\ IsFiniteSet(Products)
    /\ Carts \subseteq [Products -> Nat]
    /\ Prices \subseteq Nat /\ Prices # {}
    /\ TaxRate \in Nat /\ Shipping \in Nat
    /\ InitStock \in [Products -> Nat]
    /\ NoOrder \notin [cart : Carts, total : Nat, by : Requests]

VARIABLES
    stock, price,  \* catalogue: committed units_in_stock and unit_price
    orders,        \* committed order row of each key
    intent,        \* Stripe: the PaymentIntent of each idempotency key,
    amount,        \*   its amount,
    creator,       \*   and the request that created it
    refunded,      \* Stripe: keys whose charge was refunded, in full
    aged,          \* keys whose PaymentIntent is older than the grace period
    hook,          \* the payment_intent.succeeded delivery of each key
    published,     \* keys whose ORDER_CREATED reached the topic
    tracked,       \* keys whose order was handed to Tracking
    cmd,           \* what each request asks for
    pc,            \* where each request is, or how it was answered
    quote,         \* amount each request computed before the charge
    locked,        \* products each request holds FOR UPDATE
    seen,          \* units_in_stock each request read under those locks
    overlapped,    \* history: keys on which two actors ran at once
    unacked        \* history: keys whose commit took effect but reported failure

dbVars     == <<stock, price, orders>>
intentVars == <<intent, amount, creator>>
stripeVars == <<intentVars, refunded, aged, hook>>
sideVars   == <<published, tracked>>
histVars   == <<overlapped, unacked>>
txVars     == <<locked, seen>>
reqVars    == <<cmd, pc, quote, txVars>>
vars == <<dbVars, stripeVars, sideVars, reqVars, histVars>>

Commands == [key : Keys, cart : Carts]

\* What a request may be answered with: 201, 200, 402 on Stripe's word, 402
\* no_saved_payment_method, 404/409 before the charge, 422, 409
\* idempotency_key_reused, 503, and the original error after a failed persist; or
\* it dies with its process.
Answers == {"created", "replayed", "declined", "cardless", "rejected", "mismatch",
            "reused", "unavailable", "aborted", "crashed"}
Working == {"lookup", "pricing", "charging", "atStripe", "waiting", "verify",
            "locking", "saved", "committed", "lost", "refunding"}

KeyOf(r)  == cmd[r].key
CartOf(r) == cmd[r].cart
Live(r)   == pc[r] \in Working
HasOrder(k) == orders[k] # NoOrder

Orders == [cart : Carts, total : Nat, by : Requests]

\* The succeeded reply is what a replay carries; a "processing" intent can
\* still be paid later ("latepaid"), its cached reply stays "processing".
IntentStates == {"none", "inflight", "declined", "processing", "succeeded", "latepaid"}
Paid(k) == intent[k] \in {"succeeded", "latepaid"}

TypeOK ==
    /\ stock \in [Products -> Nat]
    /\ price \in [Products -> Prices]
    /\ orders \in [Keys -> Orders \cup {NoOrder}]
    /\ intent \in [Keys -> IntentStates]
    /\ amount \in [Keys -> Nat]
    /\ creator \in [Keys -> SUBSET Requests]
    /\ refunded \subseteq Keys /\ aged \subseteq Keys
    /\ hook \in [Keys -> {"waiting", "refunding", "acked"}]
    /\ published \subseteq Keys /\ tracked \subseteq Keys
    /\ cmd \in [Requests -> Commands]
    /\ pc \in [Requests -> Working \cup Answers \cup {"idle"}]
    /\ quote \in [Requests -> Nat]
    /\ locked \in [Requests -> SUBSET Products]
    /\ seen \in [Requests -> [Products -> Nat]]
    /\ overlapped \subseteq Keys /\ unacked \subseteq Keys

Init ==
    /\ stock = InitStock
    /\ price \in [Products -> Prices]
    /\ orders = [k \in Keys |-> NoOrder]
    /\ intent = [k \in Keys |-> "none"]
    /\ amount = [k \in Keys |-> 0]
    /\ creator = [k \in Keys |-> {}]
    /\ refunded = {} /\ aged = {}
    /\ hook = [k \in Keys |-> "waiting"]
    /\ published = {} /\ tracked = {}
    /\ cmd \in [Requests -> Commands]
    /\ pc = [r \in Requests |-> "idle"]
    /\ quote = [r \in Requests |-> 0]
    /\ locked = [r \in Requests |-> {}]
    /\ seen = [r \in Requests |-> [p \in Products |-> 0]]
    /\ overlapped = {} /\ unacked = {}

-----------------------------------------------------------------------------
(***************************************************************************)
(* Before the charge.                                                      *)
(***************************************************************************)

Goto(r, label) == pc' = [pc EXCEPT ![r] = label]

\* A request enters the service.
Submit(r) ==
    /\ pc[r] = "idle"
    /\ Goto(r, "lookup")
    /\ overlapped' = IF \/ \E o \in Requests : Live(o) /\ KeyOf(o) = KeyOf(r)
                        \/ hook[KeyOf(r)] = "refunding"
                     THEN overlapped \cup {KeyOf(r)} ELSE overlapped
    /\ UNCHANGED <<dbVars, stripeVars, sideVars, cmd, quote, txVars, unacked>>

\* Mutant: the fingerprint is not compared.
ReplayUnchecked(r) == "replayed"

\* ReplayOrReject: 200 when the stored fingerprint is this request's, else 422.
ReplayOrReject(r) == IF orders[KeyOf(r)].cart = CartOf(r) THEN "replayed" ELSE "mismatch"

\* The caller resolves and FindByIdempotencyKey runs, ignoring soft deletes.
Lookup(r) ==
    /\ pc[r] = "lookup"
    /\ Goto(r, IF HasOrder(KeyOf(r)) THEN ReplayOrReject(r) ELSE "pricing")
    /\ UNCHANGED <<dbVars, stripeVars, sideVars, cmd, quote, txVars, histVars>>

\* PriceForCharge: an untracked read of committed rows, outside any transaction.
InStock(cart) == \A p \in Products : cart[p] <= stock[p]

PriceForCharge(r) ==
    /\ pc[r] = "pricing"
    /\ InStock(CartOf(r))
    /\ quote' = [quote EXCEPT ![r] = Total(CartOf(r), price)]
    /\ Goto(r, "charging")
    /\ UNCHANGED <<dbVars, stripeVars, sideVars, cmd, txVars, histVars>>

\* Unknown caller (404), and short stock seen before anything is charged (409).
RejectCaller(r) ==
    /\ pc[r] = "lookup"
    /\ Goto(r, "rejected")
    /\ UNCHANGED <<dbVars, stripeVars, sideVars, cmd, quote, txVars, histVars>>

RejectStock(r) ==
    /\ pc[r] = "pricing" /\ ~InStock(CartOf(r))
    /\ Goto(r, "rejected")
    /\ UNCHANGED <<dbVars, stripeVars, sideVars, cmd, quote, txVars, histVars>>

-----------------------------------------------------------------------------
(***************************************************************************)
(* The charge: StripePaymentCharger.ChargeAsync and, on Stripe's side, the *)
(* idempotency layer it relies on.                                         *)
(***************************************************************************)

\* The caller, as Users knew them at the lookup, has no Stripe customer: 402, and
\* Stripe is not asked.  The key stays fresh for a request that comes with a card.
NoSavedCard(r) ==
    /\ pc[r] = "charging"
    /\ Goto(r, "cardless")
    /\ UNCHANGED <<dbVars, stripeVars, sideVars, cmd, quote, txVars, histVars>>

\* First use of the key: Stripe starts executing the request.
Charge(r) ==
    /\ pc[r] = "charging"
    /\ intent[KeyOf(r)] = "none"
    /\ intent' = [intent EXCEPT ![KeyOf(r)] = "inflight"]
    /\ amount' = [amount EXCEPT ![KeyOf(r)] = quote[r]]
    /\ creator' = [creator EXCEPT ![KeyOf(r)] = {r}]
    /\ Goto(r, "atStripe")
    /\ UNCHANGED <<dbVars, refunded, aged, hook, sideVars, cmd, quote, txVars, histVars>>

\* Stripe finishes executing, whether or not anybody still listens.
StripeSettles(k, outcome) ==
    /\ intent[k] = "inflight"
    /\ intent' = [intent EXCEPT ![k] = outcome]
    /\ UNCHANGED <<dbVars, amount, creator, refunded, aged, hook, sideVars, reqVars, histVars>>

\* A "processing" intent succeeds after its caller was answered 402.
StripePaysLate(k) ==
    /\ intent[k] = "processing"
    /\ intent' = [intent EXCEPT ![k] = "latepaid"]
    /\ UNCHANGED <<dbVars, amount, creator, refunded, aged, hook, sideVars, reqVars, histVars>>

\* The first response reaches the request that started the charge; any status
\* but "succeeded" is a decline.
ChargeAnswered(r) ==
    /\ pc[r] = "atStripe"
    /\ intent[KeyOf(r)] # "inflight"
    /\ Goto(r, IF intent[KeyOf(r)] = "succeeded" THEN "locking" ELSE "declined")
    /\ UNCHANGED <<dbVars, stripeVars, sideVars, cmd, quote, txVars, histVars>>

\* The key is in use: 409 while in flight, a mismatch when the amount differs,
\* otherwise the first response again.
ChargeInFlight(r) ==
    /\ pc[r] = "charging"
    /\ intent[KeyOf(r)] = "inflight"
    /\ Goto(r, "waiting")
    /\ UNCHANGED <<dbVars, stripeVars, sideVars, cmd, quote, txVars, histVars>>

ReplayVerdict(r) ==
    CASE amount[KeyOf(r)] # quote[r]      -> "mismatch"
      [] amount[KeyOf(r)] = quote[r]
           /\ intent[KeyOf(r)] = "declined" -> "declined"
      [] OTHER                                   -> "verify"

ChargeReplayed(r) ==
    /\ pc[r] = "charging"
    /\ intent[KeyOf(r)] \notin {"none", "inflight"}
    /\ Goto(r, ReplayVerdict(r))
    /\ UNCHANGED <<dbVars, stripeVars, sideVars, cmd, quote, txVars, histVars>>

\* HasBeenRefunded, then the replayed status: only a charge that succeeded at
\* first and is not refunded now goes on.
VerifyVerdict(r) ==
    CASE KeyOf(r) \in refunded                      -> "reused"
      [] KeyOf(r) \notin refunded
           /\ intent[KeyOf(r)] # "succeeded" -> "declined"
      [] OTHER                                      -> "locking"

VerifyReplay(r) ==
    /\ pc[r] = "verify"
    /\ Goto(r, VerifyVerdict(r))
    /\ UNCHANGED <<dbVars, stripeVars, sideVars, cmd, quote, txVars, histVars>>

\* AwaitInFlightOrder: three re-reads; the order of the other request, or 503.
AwaitInFlightOrder(r) ==
    /\ pc[r] = "waiting"
    /\ Goto(r, IF HasOrder(KeyOf(r)) THEN ReplayOrReject(r) ELSE "unavailable")
    /\ UNCHANGED <<dbVars, stripeVars, sideVars, cmd, quote, txVars, histVars>>

\* Stripe cannot be reached, or its answer is lost: PaymentUnavailable, 503.
StripeUnreachable(r) ==
    /\ pc[r] \in {"charging", "atStripe", "verify"}
    /\ Goto(r, "unavailable")
    /\ UNCHANGED <<dbVars, stripeVars, sideVars, cmd, quote, txVars, histVars>>

-----------------------------------------------------------------------------
(***************************************************************************)
(* PersistAsync: one transaction.  Decrements stay invisible until the     *)
(* commit, and the rows they touch stay locked until then.                 *)
(***************************************************************************)

LinesLeft(r) == {p \in Products : CartOf(r)[p] > 0} \ locked[r]

\* Lines are locked in product order ...
NextLine(r, p) == p \in LinesLeft(r) /\ \A q \in LinesLeft(r) : p <= q

\* Mutant: the read takes no lock.
PlainRead(p) == TRUE

\* ... and a locked row makes the next FOR UPDATE wait.
Free(p) == \A o \in Requests : p \notin locked[o]

\* Rollback (or commit) releases the row locks.
Leave(r, label) ==
    /\ Goto(r, label)
    /\ locked' = [locked EXCEPT ![r] = {}]
    /\ seen' = [seen EXCEPT ![r] = [p \in Products |-> 0]]

Enough(r, p) == CartOf(r)[p] <= stock[p]

LockLine(r) ==
    /\ pc[r] = "locking"
    /\ \E p \in Products :
         /\ NextLine(r, p) /\ Free(p)
         /\ Enough(r, p)
         /\ locked' = [locked EXCEPT ![r] = @ \cup {p}]
         /\ seen' = [seen EXCEPT ![r][p] = stock[p]]
    /\ UNCHANGED <<dbVars, stripeVars, sideVars, cmd, pc, quote, histVars>>

\* InsufficientStock found under the lock.
StockGone(r) ==
    /\ pc[r] = "locking"
    /\ \E p \in Products : NextLine(r, p) /\ Free(p) /\ ~Enough(r, p)
    /\ Leave(r, "refunding")
    /\ UNCHANGED <<dbVars, stripeVars, sideVars, cmd, quote, histVars>>

AllLocked(r) == pc[r] = "locking" /\ LinesLeft(r) = {}

\* Mutant: no price guard.
AnyPrice(r) == TRUE

\* What was charged is what the order prices to under the locks.
PriceHolds(r) == amount[KeyOf(r)] = Total(CartOf(r), price)

\* The persisted total must be what was charged.
PriceMoved(r) ==
    /\ AllLocked(r) /\ ~PriceHolds(r)
    /\ Leave(r, "refunding")
    /\ UNCHANGED <<dbVars, stripeVars, sideVars, cmd, quote, histVars>>

\* Mutant: no unique index on (user, key).
NoUniqueIndex(r) == TRUE

\* The unique index has no row of this key, committed or still uncommitted: an
\* insert waits for the latter.
RowFits(r) ==
    /\ ~HasOrder(KeyOf(r))
    /\ \A o \in Requests : ~(pc[o] = "saved" /\ KeyOf(o) = KeyOf(r))

\* SaveChanges inserts the row.  ORDER_CREATED is published right after, before
\* the commit, and a failure to publish is swallowed.
Save(r) ==
    /\ AllLocked(r) /\ PriceHolds(r) /\ RowFits(r)
    /\ published' \in {published, published \cup {KeyOf(r)}}
    /\ Goto(r, "saved")
    /\ UNCHANGED <<dbVars, stripeVars, tracked, cmd, quote, txVars, histVars>>

\* DbUpdateException: the unique index of the key rejects the row ...
InsertLoses(r) ==
    /\ AllLocked(r) /\ PriceHolds(r)
    /\ HasOrder(KeyOf(r))
    /\ Leave(r, "lost")
    /\ UNCHANGED <<dbVars, stripeVars, sideVars, cmd, quote, histVars>>

\* ... or the save fails for another reason: the order number collided three
\* times, the connection died under SaveChanges.
SaveFails(r) ==
    /\ AllLocked(r) /\ PriceHolds(r)
    /\ Leave(r, "lost")
    /\ UNCHANGED <<dbVars, stripeVars, sideVars, cmd, quote, histVars>>

\* The row and the decrements become visible together; each product row is
\* written with the value computed from what the lock read.
CommitRows(r) ==
    /\ orders' = [orders EXCEPT ![KeyOf(r)] =
                    [cart |-> CartOf(r), total |-> Total(CartOf(r), price), by |-> r]]
    /\ stock' = [p \in Products |->
                    IF p \in locked[r] THEN seen[r][p] - CartOf(r)[p] ELSE stock[p]]

Commit(r) ==
    /\ pc[r] = "saved"
    /\ CommitRows(r)
    /\ Leave(r, "committed")
    /\ UNCHANGED <<price, stripeVars, sideVars, cmd, quote, histVars>>

\* The database commits but the connection dies before it says so.
CommitUnacknowledged(r) ==
    /\ pc[r] = "saved"
    /\ CommitRows(r)
    /\ Leave(r, "refunding")
    /\ unacked' = unacked \cup {KeyOf(r)}
    /\ UNCHANGED <<price, stripeVars, sideVars, cmd, quote, overlapped>>

\* Any other exception before the commit: a lost connection, a lock timeout.
PersistFails(r) ==
    /\ pc[r] \in {"locking", "saved"}
    /\ Leave(r, "refunding")
    /\ UNCHANGED <<dbVars, stripeVars, sideVars, cmd, quote, histVars>>

-----------------------------------------------------------------------------
(***************************************************************************)
(* After the transaction.                                                  *)
(***************************************************************************)

\* The catch block looks for the order that won the insert.
FindWinner(r) ==
    /\ pc[r] = "lost"
    /\ Goto(r, IF HasOrder(KeyOf(r)) THEN ReplayOrReject(r) ELSE "refunding")
    /\ UNCHANGED <<dbVars, stripeVars, sideVars, cmd, quote, txVars, histVars>>

\* The lookup in the catch block throws: no inline refund happens.
WinnerLookupFails(r) ==
    /\ pc[r] = "lost"
    /\ Goto(r, "aborted")
    /\ UNCHANGED <<dbVars, stripeVars, sideVars, cmd, quote, txVars, histVars>>

\* RefundAsync never throws, and the first failure is the answer.
Refund(r) ==
    /\ pc[r] = "refunding"
    /\ refunded' = refunded \cup {KeyOf(r)}
    /\ Goto(r, "aborted")
    /\ UNCHANGED <<dbVars, intentVars, aged, hook, sideVars, cmd, quote, txVars, histVars>>

RefundFails(r) ==
    /\ pc[r] = "refunding"
    /\ Goto(r, "aborted")
    /\ UNCHANGED <<dbVars, stripeVars, sideVars, cmd, quote, txVars, histVars>>

\* InitTracking runs after the commit and its failure never reaches the buyer.
Finish(r) ==
    /\ pc[r] = "committed"
    /\ tracked' \in {tracked, tracked \cup {KeyOf(r)}}
    /\ Goto(r, "created")
    /\ UNCHANGED <<dbVars, stripeVars, published, cmd, quote, txVars, histVars>>

\* The process dies; the database rolls its transaction back.
Crash(r) ==
    /\ Live(r)
    /\ Leave(r, "crashed")
    /\ UNCHANGED <<dbVars, stripeVars, sideVars, cmd, quote, histVars>>

-----------------------------------------------------------------------------
(***************************************************************************)
(* The webhook, time and the catalogue.                                    *)
(***************************************************************************)

\* Mutant: no grace period.
RefundAtOnce(k) == IF HasOrder(k) THEN "acked" ELSE "refunding"

\* Mutant: a charge still within the grace period is acknowledged, not deferred.
AcknowledgeEarly(k) == IF HasOrder(k) \/ k \notin aged THEN "acked" ELSE "refunding"

\* ReconcileSucceededIntent up to the refund call.  Stripe delivers until it
\* is acknowledged and may deliver again after that.
HookVerdict(k) ==
    CASE HasOrder(k)                   -> "acked"
      [] ~HasOrder(k) /\ k \notin aged -> "waiting"
      [] OTHER                         -> "refunding"

\* A later request of the key, which found its charge already made.
Retrying(r, k) == Live(r) /\ KeyOf(r) = k /\ r \notin creator[k]

Deliver(k) ==
    /\ Paid(k) /\ hook[k] # "refunding"
    /\ hook' = [hook EXCEPT ![k] = HookVerdict(k)]
    /\ overlapped' = IF HookVerdict(k) = "refunding" /\ \E r \in Requests : Retrying(r, k)
                     THEN overlapped \cup {k} ELSE overlapped
    /\ UNCHANGED <<dbVars, intentVars, refunded, aged, sideVars, reqVars, unacked>>

\* RefundOrphan; already refunded counts as success.
HookRefund(k) ==
    /\ hook[k] = "refunding"
    /\ refunded' = refunded \cup {k}
    /\ hook' = [hook EXCEPT ![k] = "acked"]
    /\ UNCHANGED <<dbVars, intentVars, aged, sideVars, reqVars, histVars>>

\* The refund call fails, or the process dies before it: Stripe delivers again.
HookRefundFails(k) ==
    /\ hook[k] = "refunding"
    /\ hook' = [hook EXCEPT ![k] = "waiting"]
    /\ UNCHANGED <<dbVars, intentVars, refunded, aged, sideVars, reqVars, histVars>>

\* The grace period (ten minutes) ends.  No request outlives it: what this
\* says is only that the request which created the charge is over by then.
GraceEnds(k) ==
    /\ Paid(k) /\ k \notin aged
    /\ \A r \in creator[k] : ~Live(r)
    /\ aged' = aged \cup {k}
    /\ UNCHANGED <<dbVars, intentVars, refunded, hook, sideVars, reqVars, histVars>>

\* A catalogue repricing: an UPDATE, so it waits for the row lock.
Reprice(p, c) ==
    /\ Free(p) /\ c # price[p]
    /\ price' = [price EXCEPT ![p] = c]
    /\ UNCHANGED <<stock, orders, stripeVars, sideVars, reqVars, histVars>>

-----------------------------------------------------------------------------

\* What a request does when nothing fails.
Proceed(r) ==
    \/ Lookup(r) \/ PriceForCharge(r) \/ RejectStock(r)
    \/ Charge(r) \/ ChargeAnswered(r) \/ ChargeInFlight(r) \/ ChargeReplayed(r)
    \/ VerifyReplay(r) \/ AwaitInFlightOrder(r)
    \/ LockLine(r) \/ StockGone(r) \/ PriceMoved(r) \/ Save(r) \/ InsertLoses(r)
    \/ Commit(r) \/ FindWinner(r) \/ Refund(r) \/ Finish(r)

Fault(r) ==
    \/ RejectCaller(r) \/ NoSavedCard(r) \/ StripeUnreachable(r) \/ SaveFails(r)
    \/ CommitUnacknowledged(r) \/ PersistFails(r) \/ WinnerLookupFails(r) \/ RefundFails(r) \/ Crash(r)

Next ==
    \/ \E r \in Requests : Submit(r) \/ Proceed(r) \/ Fault(r)
    \/ \E k \in Keys :
         \/ \E outcome \in {"succeeded", "declined", "processing"} : StripeSettles(k, outcome)
         \/ StripePaysLate(k) \/ GraceEnds(k)
         \/ Deliver(k) \/ HookRefund(k) \/ HookRefundFails(k)
    \/ \E p \in Products, c \in Prices : Reprice(p, c)

Spec == Init /\ [][Next]_vars

(***************************************************************************)
(* Fairness: a request that is being served keeps running unless a fault   *)
(* hits it; Stripe finishes what it started, redelivers its event until it *)
(* is acknowledged (for three days, longer than any outage considered      *)
(* here), and a refund that is retried for as long is accepted at last;    *)
(* the grace period ends.  Nobody has to submit, and no fault has to come. *)
(***************************************************************************)
Fairness ==
    /\ \A r \in Requests : WF_vars(Proceed(r))
    /\ \A k \in Keys :
         /\ WF_vars(\E outcome \in {"succeeded", "declined", "processing"} : StripeSettles(k, outcome))
         /\ WF_vars(GraceEnds(k))
         /\ WF_vars(Deliver(k) /\ hook[k] = "waiting")
         /\ SF_vars(HookRefund(k))

FairSpec == Spec /\ Fairness

-----------------------------------------------------------------------------
(***************************************************************************)
(* Properties.                                                             *)
(***************************************************************************)

\* Every committed order was paid, and for exactly the total it was persisted
\* with: the charge came first, and the price guard compares the amounts under
\* the locks (CreateOrderService.PersistAsync).
OrderMatchesCharge ==
    \A k \in Keys : HasOrder(k) =>
        /\ intent[k] = "succeeded"
        /\ amount[k] = orders[k].total

\* The units of p that the committed orders hold.
UnitsSold(p) == UNION {{k} \X (1 .. orders[k].cart[p]) : k \in {j \in Keys : HasOrder(j)}}

\* No unit is sold twice and none vanishes: what left the stock is what the
\* committed orders hold (the FOR UPDATE read, the decrement and the commit).
StockAccounted == \A p \in Products : InitStock[p] = stock[p] + Cardinality(UnitsSold(p))

\* A buyer told 201 or 200 holds an order for the cart they sent, and only the
\* request that wrote the row is told 201 (ReplayOrReject, the fingerprint).
AnswerMatchesOrder ==
    \A r \in Requests :
        /\ pc[r] \in {"created", "replayed"} =>
              HasOrder(KeyOf(r)) /\ orders[KeyOf(r)].cart = CartOf(r)
        /\ pc[r] = "created" => orders[KeyOf(r)].by = r

\* A buyer told 402 on Stripe's word never finds an order under that key, not even
\* after a "processing" intent is paid or another request replays the key.  (The 402
\* no_saved_payment_method is another answer: no PaymentIntent stands behind it, and
\* a later request of the key, with a card by then, may buy.)
DeclinedMeansNoOrder ==
    \A r \in Requests : pc[r] = "declined" => ~HasOrder(KeyOf(r))

\* What a buyer is told stays true: an order where there was one to tell of, and
\* never one after a decline of the key's charge (ReplayOrReject, VerifyVerdict).
AnswersStayTrue == AnswerMatchesOrder /\ DeclinedMeansNoOrder

\* Tracking never records an order that a rollback erased (InitTracking runs
\* after the commit).
TrackedOrdersExist == \A k \in tracked : HasOrder(k)

\* The compensation is safe as long as nothing else runs on the key and the
\* database reports its commits: an order sits on a refunded charge only if
\* two requests of its key overlapped, or a retry overlapped the webhook's
\* refund (the first request cannot: that is the grace period), or the commit
\* took effect without being acknowledged.
RefundedOrderWasContended ==
    \A k \in Keys : HasOrder(k) /\ k \in refunded => k \in overlapped \cup unacked

\* What CreateOrderService.cs:230-235 says of duplicates: one that lost to a
\* committed order is not refunded, for Stripe replayed the winner's charge.
DuplicateNotRefunded ==
    [][\A k \in Keys : k \in refunded' \ refunded => ~HasOrder(k) \/ k \in unacked]_vars

\* No money is kept for nothing: a captured charge ends up with an order or
\* refunded, through crashes, lost answers, failed refunds and late payments.
ChargeSettles ==
    \A k \in Keys : Paid(k) ~> (HasOrder(k) \/ k \in refunded)

\* Every request is answered, or dies with its process: the ordered row locks
\* never leave two checkouts waiting for each other.
RequestsAnswered ==
    \A r \in Requests : pc[r] = "lookup" ~> pc[r] \in Answers

\* Neither the money nor the buyer is left hanging (the compensation of
\* CreateAsync, the webhook behind it, and the order of the row locks).
Settles == ChargeSettles /\ RequestsAnswered

\* What the caller of a request was told: the order, an error, or nothing yet.
ReplyTo(r) == CASE pc[r] \in {"created", "replayed"}           -> pc[r]
                [] pc[r] \in Answers \ {"created", "replayed"} -> "error"
                [] OTHER                                       -> "none"

Ideal == INSTANCE IdealCheckout WITH reply <- [r \in Requests |-> ReplyTo(r)]

\* To its callers the whole protocol is one atomic purchase per key.
ImplementsIdealCheckout == Ideal!Spec
=============================================================================

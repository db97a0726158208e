# A TLA+ verification of the microservices shop

TLA+ modules, TLC configurations and TLAPS proofs kept beside the code of the shop: the Orders
(.NET), Users (NestJS) and Tracking (Go) services, the events-pipeline and realtime Lambdas, and the
Angular application. Paths are relative to the repository; line numbers are in `PROJECT.json`
(`map`), which says for every definition which lines it stands for.

1. [Inventory](#1-inventory)
2. [Plan](#2-plan)
3. [Modules and code](#3-modules-and-code)
4. [Runs](#4-runs)
5. [Fairness](#5-fairness)
6. [Proofs](#6-proofs)
7. [Findings](#7-findings)
8. [Disagreements met on the way](#8-disagreements-met-on-the-way)
9. [What is not modelled](#9-what-is-not-modelled)

To check a run: `tlc -config MCCheckoutLive.cfg MCCheckout`. To check the proofs: `tlapm
CheckoutProofs.tla`. A definition preceded by "Mutant:" is a plausible bug in the definition below
it; no specification uses it, and it is there to see that a property notices it.

## 1. Inventory

How the parts interact: the browser calls the three services over HTTP. A checkout in Orders asks
Users who the caller is (gRPC), Stripe for the money, publishes ORDER_CREATED to SNS and asks
Tracking to start a tracking. Tracking writes its status changes and their announcements in one
transaction; a poller publishes the announcements to the same topic. SNS feeds two SQS queues: the
events queue, whose Lambda records each event in DocumentDB, sends an email and pushes to the open
sockets, and the notifications queue, which Users consumes and pushes from as well. The realtime
Lambdas keep the table of those sockets. Stripe calls webhooks of Orders (charges) and of Users
(cards). Users keeps identities at Cognito, whose triggers come back as a Lambda (mailed codes) and a
webhook (captured identities). Deleting an account makes Users call Orders and Tracking. The services
keep responses in Redis.

| Part (sources) | State | Operations | What is hard | What makes it correct |
|---|---|---|---|---|
| **Orders: checkout** `Orders/CreateOrderService.cs`, `Payments/StripePaymentCharger.cs`, the orphan branch of `Payments/StripeWebhookService.cs` | stock and prices; order rows, unique per (user, key); Stripe's PaymentIntents and refunds | `POST /v1/orders`; `payment_intent.succeeded` | money moves outside the transaction; retries and double submits of one key; crash between charge and commit; lost commit answers; ordered row locks | an order stands on a charge of its total; a charge ends with an order or a refund; no unit sold twice; truthful answers |
| **Orders: payment status** the rest of `StripeWebhookService.cs` | `payment_status` of an order | `charge.refunded`, `charge.dispute.*` | events repeated, reordered, concurrent; unlocked read-modify-write; events before the commit | the status is backed by Stripe and converges |
| **Tracking** `internal/app`, `internal/adapter/mysql`, `internal/domain` | tracking row, history, outbox | create, update status, TestMode progression, soft delete | the transition is checked on an unlocked read; goroutine, carriers and sweep race | history and outbox agree; one message per status; tombstones stay |
| **Outbox** `internal/outbox` | outbox rows, attempts, due time | claim, publish, retry, discard, commit | several tasks poll; commit fails after publishing; a transaction lost while its loop goes on; poison messages | a poller that holds a row sends it again only if its deletion was undone; nothing lost; the table drains |
| **Events pipeline** `src/functions/events-pipeline` | one document per event; SQS | batch, record state machine, email, quarantine | at-least-once twice over; every write may fail or land unacknowledged | one email at most; COMPLETED is true; nothing leaves without trace |
| **Users: payment methods** `src/payment-methods` | card rows, the default, the Stripe customer | setup-intent, attach, detach, set-default; `payment_method.*`, `customer.updated` | two stores of truth, changed one after the other; row lock held across a request with two time limits | one default; one customer; deleted cards detached; the table follows Stripe |
| **Users: accounts and erasure** `register*.command.ts`, `delete-account.command.ts`, `capture-cognito-identity.ts` | user rows, Cognito accounts, identity snapshots | both registrations, the identity webhook, the four legs of a deletion | three systems and no transaction; retries; a webhook after the account is gone | who was answered 201 can sign in; a retry completes a deletion |
| **Users: passwords and codes** `*password*.command.ts`, `reset-code-store.ts`, the OTP Lambda and routes | reset codes in Redis, the flag in a row and in a token's claim, Cognito's challenges | ask, confirm, change; start, resend, answer | read-then-delete of a code; three writes of one change; a resend under an answer | the newest code works, once; a forced change stays asked for |
| **Users: profile cache** `me-cache.interceptor.ts`, `cache-gateway.ts` | a Redis entry per caller | GET, PATCH and its invalidation | a lagging replica, a fill that outlives the delete | a stale body has one of three causes |
| **Users: rows** `prisma-extensions.ts` | every table | all reads and writes of the ORM | soft deletes at any depth of a relational read | a deleted row stays hidden and is never erased |
| **Users: notifications** `src/notifications` and the web's store | queue messages, rows, the list and badge on screen | consume, push, list, mark read | redelivery, for five reasons; a push, a list and a marking at once | the badge is the count; nothing is marked twice; no message is lost; one row per delivery at most |
| **Realtime** `src/functions/realtime-events`, both `websocket-publisher.ts` | table of connections and its index | authorize, connect, disconnect, push, prune | a push before the handshake is answered; lost disconnects; an index that lags | an open tab stays listed and hears |
| **Web: session** `core/auth`, `features/auth` | stored tokens, the user in memory, the challenge between pages | sign-in, refresh shared by many calls, sign-out, guards; seven pages that submit | a refresh under a sign-out; answers to pages that were left | memory, storage and URL agree; a retry carries the new token; the page holds the newest code |
| **Web: shop** `core/cart`, `features/checkout`, `features/account`, `features/orders` | the cart's overlay and queue, forms, card lists, the order page | click, pay, save, search, add, pick, remove | debounce, retried and lost writes, another device, components reused for another address | what is on the screen is what is saved, sent and paid for, once |
| **Web: tab** `notifications-socket.ts`, `toast-queue.ts` | one socket, one toast and its queue | open, retry, silence, offline; enqueue, pause | losses reported late, twice or never | one socket while wanted; every toast has its time |
| **Orders: cart, response cache, erasure; Tracking's caches** | rows and Redis entries | read, replace, sweep | section 9 | - |
| Infrastructure, load and E2E tests, dashboards | none | - | - | the queue's limits are read from `src/infra/modules/messaging` |

`PROJECT.json` lists the components with their status and every hazard, each at the line where it
bites, with the properties that cover it.

## 2. Plan

The order followed what it would cost to get wrong; each step ended with its runs, mutants and, where
the prover reaches, its theorems.

1. **Checkout** (with OrderPricing, and IdealCheckout as its abstract specification), **PaymentStatus**.
2. **Tracking**, **Outbox**, **EventsPipeline**: what happens to an order afterwards, and who hears of it.
3. **PaymentMethods**, then the rest of Users: **Accounts**, **PasswordReset**, **CodeSignIn**,
   **ProfileCache**, **SoftDelete**.
4. The web's shop: **CartStore**, **AddressForm**, **CardEntry**, **CardForm**, **ProfileForm**,
   **OrderPages**.
5. What lives as long as a session: **WebSession**, **AuthPages**, **LiveSocket**, **Connections**,
   **Inbox**, **Toasts**.

Left open: a composition in which Tracking's `announced` is Outbox's `table`, for which an abstract
specification of announcements (each transition is published, at least once) would serve both; and
Orders' cart row and caches (section 9).

## 3. Modules and code

One module per component, a module of proofs beside it (`...Proofs`) for those that have one, and
modules `MC...` that give them constants for TLC. In all of them a step of the model is what the code
does between two points where something else may run: a request to another system, an await outside a
transaction, a statement that takes a lock, a callback. A transaction of one service that waits for
nothing outside is one step, since the database orders it.

Variables marked "history" change nothing; they record what a property has to know of the past, most
often the one interleaving the code does not exclude, so that the property can say that nothing else
goes wrong.

### Orders

**OrderPricing** is the arithmetic in cents: a line, its rounded tax, an order; **Sums** adds the lines up,
and the digits of a checksum.

**Checkout** - `CreateOrderService` and `StripePaymentCharger`, one action per step of a request,
and the `payment_intent.succeeded` branch of `StripeWebhookService`. A key stands for the (user,
Idempotency-Key) pair, from which the order id, the unique index and Stripe's key are all derived; a
cart stands for its fingerprint. `pc` is where a request is: `lookup` (caller and earlier order),
`pricing`, `charging`/`atStripe` (the call and its answer), `waiting` (another request is at Stripe
with the key), `verify` (a replayed charge), `locking` (the `FOR UPDATE` reads in product order, the
stock and price guards), `saved` (row inserted, event published, not committed), `committed`,
`lost` (insert failed), `refunding`. Stripe's idempotency layer is modelled from how the code uses
it: the first request of a key creates the intent, others are told it is in flight, replay its first
answer, or mismatch on the amount. `locked` and `seen` are the row locks and what was read under
them; a commit writes what it computed from that read. Faults: a crash anywhere, Stripe unreachable,
a failed save, commit (with or without effect), refund, or winner lookup. Two different 402s are told
apart: `declined` is Stripe's own answer to the key's PaymentIntent, which it repeats for ever;
`cardless` is `StripePaymentCharger`'s answer to a caller with no Stripe customer (`NoSavedCard`), before
any PaymentIntent exists. The same key can succeed once the caller has a card, so `DeclinedMeansNoOrder`
is a promise about the first only.

**IdealCheckout** - the same endpoint without charge, lock, crash or webhook: a key buys its cart in
one atomic step, and a reply that claims an order is true. `Checkout!ImplementsIdealCheckout` maps
`pc` to the reply.

**PaymentStatus** - one charge, its order's `payment_status`, Stripe's refunds and one dispute. A
handler reads and decides (`Decide`, the transitions in `Transition`), then writes (`Write`), with
nothing to stop another from doing the same in between; an event may be delivered at any time after it
was emitted, any number of times. `crossed` (history) is set by a write over a status its handler had
not read, the one thing besides an event that came before its order that `StatusConverges` excepts:
deliveries overlap freely, and only an overlap that did lose a write is excused.

### Tracking and the pipeline

**Tracking** - one order's row, history and outbox messages. `Check`/`Create`: pre-check and insert.
`Read`/`Update...`: a carrier's unlocked read and the transaction `ApplyTransition` (update guarded by
`deleted_at` only, history row under its unique key, outbox message). `Tick`, `TickRead`,
`TickUpdate...`: the progression, which sleeps, reads, checks and updates like a carrier and falls back
on its snapshot when the row was deleted. `SoftDelete` and `Restart` happen at any time.

**Outbox** - any number of pollers. `Claim` takes the oldest due rows nobody holds (`FOR UPDATE SKIP
LOCKED`), the messages are handled in order (`Publish`, `PublishFails`, `Discard`, ...), and only
`Commit` makes deletes and reschedules real; `Rollback` is a crash or a failed commit. `LoseTransaction`
is a connection that drops, or the cycle's context that expires, in mid-batch: the locks and the writes
so far are gone, but `handle` only logs a statement that fails, so the loop publishes what is left of
`todo` with no row held (`Holds`) while another poller may claim the same rows. A message is its rank in
`created_at`; `receipt` is what SNS has of it. `NoNeedlessDuplicate` therefore speaks of the pollers whose
transaction is open: one of those publishes what SNS has only when the deletion of the row was undone.
The rest of the batch of a poller that lost its transaction does go out twice (section 8).

**EventsPipeline** - messages with bodies (an event, several messages of one event, or a malformed
body), SQS with its receive count and DLQ, invocations with batches, and per record the steps of
`processRecord`: insert, IN_PROGRESS, the handler's one request to SES, COMPLETED or FAILED. Every
database call and the request to SES may fail before or after it took effect.

### Users

**PaymentMethods** - one user's cards at Stripe (`holder`, `default`, `made`, `key`) and in the table
(`row`, `isDefault`, `customer`). A route is split at every request to Stripe (`ensure`, `create`,
`persist`, `attach`, `find`, `lock`, `default`, `write`, `detach`, `delete`); `lock` is the user's row,
held across Stripe's answer by attach, set-default and customer.updated, and `late` is a request to
Stripe that outlives its transaction. `owed` counts the webhook events not acknowledged, `Outside`
what the browser and the dashboard do at Stripe, `KeyExpires` the end of the 24 hours of an
idempotency key. `ghosts` and `missed` name the two residual cases in which the table is wrong.

**Accounts** - one email address. `reg` is the step of each registration (reserve the id, create at
Cognito, set the password, insert, capture, publish), `hook` Cognito's trigger, `deletion` the leg a
deletion is at (`CascadeFirst`: orders, trackings, row, identity). Every call may fail or lose its
answer (`Mishap`); retries and the register page's own sign-in are calls of their own.

**PasswordReset** - one user. `ask` is a request for a code (store its hash, publish the mail), `form`
a page or a `PATCH /me/password`; `VerifyCode` and the deletion of the code are two commands of Redis,
and a changed password is three writes (`PasswordFirst`: Cognito, the row's flag, the claim). The
pages' resend and the guard that sends a forced account to them are actions too.

**CodeSignIn** - Cognito's custom challenge for one address: the Lambda's three triggers
(`DefineAuthChallenge`, the code minted or re-used, the verdict), the two routes and the web's
`OtpChallengeStore`. Whether Cognito takes the old session again after a wrong answer is left open
(`renews`): the code depends on it and the repository does not say.

**ProfileCache** - GET /me split at the read of the row (a replica that lags), the lookup and the fill
nobody waits for; a write and its DEL; Redis failing, answering late or dropping the entry.

**SoftDelete** - the query extension every statement of Users goes through. A row is its marks and
stamps, a read a tree of relation paths with the nodes whose `where` mentions `deletedAt`;
`InjectRelationFilter` says where the condition is added.

**Inbox** - from a message of the queue to a row, a push, a list and a badge: `NotificationConsumer`,
the list and mark-read endpoints, and the web's `NotificationsStore` with its two screens. The server's
state only grows, so its size says how old an answer is. A delivery is three calls of its own (`Store`
the row, `Push` the frame, `DeleteMessage`), and each row remembers the delivery that inserted it
(`step`, and in `nth` which return of the event it was). An event is delivered again when the delete
fails (`DeleteFails`), when the service stops (`Stop`), or while a delivery of it is anywhere at all
(`ComesBack`: it outlived the visibility timeout, the answer of its insert was lost, or the outbox
published the event twice, which comes even after the delete). Nothing keys a row by its event, so all
of them insert a second one, and `NotifiedOnce` says what is left: one row per delivery at most, and
none because of a push, failed or not.

**Connections** - the authorizer, `$connect`, `$disconnect` and both publishers' fan-out over the table
of sockets and its lagging index. A post to a socket whose `$connect` has not answered is told 410, as
one to a closed socket is.

### Web: the shop

**CartStore** - the overlay of clicks, debounce timers, the `concatMap` queue of reads and writes with
its retries, the pages that click, pay and forget, and what Orders does with each call, an answer lost
included; another device writes the same cart. `BoughtOnce` is about the idempotency key the page draws
and keeps.

**AddressForm** - the delivery address at checkout and in the profile, with the street search: the
debounce, `distinctUntilChanged`, the lookup a later one cancels, the suggestion taken, the place typed
over. **ProfileForm** - the profile's values against the user they are seeded from: GET and PATCH in
either order, the reseed effect, the two banners with their timer, hover and focus.

**CardEntry** - the saved-card lists of the checkout and of the profile, with the form each opens to add
one: every call is a write followed by a read of the list, and calls overlap. **CardForm** - the plain
form used without Stripe: brands by prefix, lengths, Luhn, expiry and code, digit by digit, and Orders'
own validator on its own clock.

**OrderPages** - the order's page, whose component is reused when the address changes, its loads that
nothing cancels, its banner, and the list.

### Web: the session

**WebSession** - tokens in storage, the user in memory, the interceptors' shared refresh, the profile
that is restored, the sign-out of both kinds, the guards and layouts. A call keeps the header it was sent with
(`hdr`), and a burst of 401s shares one refresh.

**AuthPages** - one tab's walk through the seven pages. A submission goes on when its page is left: what
it stores and where it navigates happen all the same, and only its own page's buttons are spared.

**LiveSocket** - `NotificationsSocket`: the token read before a handshake, retries and backoff, the
browser's network events, the silence deadline, the layout that opens and closes it, and the badge
(`LiveState`). **Toasts** - the queue behind one toast, and the clock a pointer stops.

### Instances

`MCCheckout`, `MCPaymentStatus` and `MCOutbox` give one component its constants, and `MCCardForm` the
card form alone. `MCEvents`, `MCUsers`, `MCWebShop` and `MCWebSession` hold several
components that meet only at entry points each model offers at any time, or in rows each owns: `focus`
picks the one a behaviour explores and the others stand still, so a run costs the sum of its parts and not
their product, and each property is about one of them.

## 4. Runs

Every property of a passing run has a mutant in `PROJECT.json`: a plausible bug in one definition,
under which TLC finds the property violated. Deadlock checking is off in every run, because these
systems may stop for good: every request, event or message is used once, and the checkout's freedom
from deadlock is stated as liveness (`RequestsAnswered`). A type invariant is proved, or a conjunct of
a property that a run checks.

| Run (cfg) | Instance | What it shows |
|---|---|---|
| `checkout_retries` (MCCheckoutRetries) | three requests of one key, three units of a product, carts of one and two, two prices | what a buyer is told stays true (`AnswersStayTrue`), an order's charge is exactly its total (`OrderMatchesCharge`), and an order loses its money only in the contention named (`RefundedOrderWasContended`) |
| `checkout_liveness` (MCCheckoutLive) | two requests of any two keys, two products with 2 and 1 units, two carts | `StockAccounted`; every charge ends in an order or a refund and every request ends (`Settles`); the refinement of IdealCheckout |
| `checkout_duplicate_refunded` (MCCheckoutDuplicate) | two requests of one key, one unit | a violation (7.1) |
| `payment_status` (MCPaymentStatus) | amount 2, refunded in one or two parts, one dispute, two handlers that overlap | the status is backed (`StatusHappened`), converges unless a write crossed another (`StatusConverges`), and every event is acknowledged (`EventsAcknowledged`) |
| `events` (MCEvents) | Tracking: two creators, a carrier, the progression, delete and restart. Pipeline: two messages of any bodies, two invocations, batches of two, three deliveries | history and announcements tell one story, a successful run delivered, only a stale read goes back, every run ends; one request to SES per event, COMPLETED is true and final, nothing vanishes, a redelivery has its fault, every message settles |
| `tracking_race` (MCTrackingRace) | one creator, two carriers | a violation (7.2) |
| `pipeline_retry` (MCEventsRetry) | one message, one invocation | a violation (7.3) |
| `outbox` (MCOutbox) | two pollers, three messages, batches of two, one attempt | `SentAsPromised`, transactions lost in mid-batch included, and the table drains (`Drained`) |
| `users` (MCUsers) | cards: two cards, two calls, two deliveries, two changes at Stripe, two customer ids; accounts: two registrations, two deletions; reset: two codes, two pages, a change; codes: two starts; profile: two reads, two writes; rows: three, one under another | `CardRecords`, `TableInSync`, `AccountsHonest`, `CodeHonoured`, `FlagHonest`, `NewestCodeOpens`, `StaleHasCause`, `SoftDeleteHolds` |
| `web_shop` (MCWebShop) | cart: two products, two payments; address: two texts, one with a suggestion; cards: two on file, a new one, three calls; profile, plain card (three numbers, five expiries), orders (two of the buyer's and a stranger's) | `BoughtOnce`, `BasketAgrees`, `AddressHonest`, `SelectionLives`, `FormHonest`, `CardFormHonest`, `OrderPageHonest` |
| `card_unlisted_issuer` (MCCardForm) | the plain card form | a violation (7.4) |
| `web_session` (MCWebSession) | session: two calls and a profile read over two sessions, two expiries; socket: four of them; inbox: an event delivered again once and, on its own, a silent one, with two rows, two markings, two loads, a lost call or frame; toasts: four; registry: three connections, a push; pages: two addresses, three submissions | `SessionHonest`, `TabStaysLive`, `InboxHonest`, `ToastsServe`, `TabsHear`, `AuthPagesHonest` |

Why the bounds are enough. The safety invariants of Checkout relate at most two requests of a key (proved,
section 6); three let a retry meet both a finished and a running request. Of three units, a winner of two
leaves enough for one duplicate's cart and not for another's. Two products are what a deadlock between two
keys takes, one contested unit what overselling takes, and the second unit lets both carts be bought. A
charge of amount two has a partial refund before the full one, so a stale partial can follow the full
refund, handled by either of two handlers at a time. Tracking's conflicts are between two writers of one
row, and a carrier and the run are two; its safety properties are proved for any number. Batches of two
out of three messages leave one behind, also to a loop whose transaction went with the first; of one
attempt that failed a message is rescheduled and then discarded, while one whose reschedule fails too is
published again. Two messages of one event, two invocations and a third delivery are the least that gives
a duplicate in the same batch, in another invocation, after a crash, and a redrive. Two cards and two
calls are the least for two first cards; the second customer id is needed for a forgotten idempotency key.
Two registrations and two deletions of one address give the retry of each and a deletion that ends after
the next registration, with one mishap on the way. Two codes and two pages are what a code used twice, and
a code deleted for another, take. Two reads and two writes of a profile let a body outlive two
invalidations. Three rows one under another are a read of depth two, the deepest path the schema's
relations give from a user. A second product lets one click's timer run under another's write; two
payments are a retry and a second visit, and one call lost puts either in doubt; three calls on the card
lists are a write, its re-read and a call of another surface between them. Four loads of the order page
let two old ones end under two newer. Two sessions and two expiries are a sign-in after a sign-out with a
refresh of each under way; four sockets are two losses each reported twice. Two rows and two markings
overlap a list, and two rows of one event are what a redelivery makes. Three submissions over two
addresses are a start, a resend and a start for the other address.

`checkout_retries` uses symmetry in the requests, `users` in the cards, calls and deliveries of
PaymentMethods, `web_shop` in the products: no definition singles one out, and these runs check
invariants, and one action property (`CodeHonoured`) that speaks of none of them. Runs with liveness use
none.

## 5. Fairness

* **Checkout**: a request being served keeps running unless a fault hits it (weak fairness of
  `Proceed`); Stripe finishes what it began and its event is delivered until acknowledged; ten minutes
  pass. The refund call of the webhook is strongly fair: each failure answers 500 and Stripe delivers
  again, for three days, so the property speaks of outages shorter than that. Nothing makes a client
  retry, and no fault has to happen.
* **PaymentStatus**: strong fairness of answering an event, and of finishing the write for an event,
  for a delivery that crashed is repeated.
* **Tracking**: weak fairness of the progression's step - its ticker fires while the task lives, and a
  database call returns. Carriers and creators owe nothing.
* **Outbox**: weak fairness of each poller's loop and of a row falling due; strong fairness of the
  statements on one row and of the commits they are part of: not all of them fail for ever. Publishing
  itself may fail for ever.
* **EventsPipeline**: SQS polls while it has messages, and an invocation ends, by its timeout if nothing
  else. In `MCEvents` it binds the behaviours that explore the pipeline.
* The other components have none: a user may walk away at any point, and their properties speak of what
  is on the screen or in the tables, most of them of quiet states.

## 6. Proofs

`PROJECT.json` lists the theorems; each is `Spec => []Inv` or `Spec => [][A]_vars`, for every value
of the constants. The assumptions are the named ASSUMEs of the modules and nothing else: the types of the
constants, and what is true of the data they stand for (a card's number passes the checksum,
`NumbersAssumption`).

* **SumProofs**: a sum of finitely many naturals is one (`SumIsNatural`), and sums that differ in one term
  differ by as much (`SumDiffers`). `SumOf` is a fold, and what it is takes induction. The library's
  induction theorems have an operator as a parameter, which the provers cannot instantiate; its theorem on
  the least element of a well-founded set (`WFMin`) has none, and gives induction over a set
  (`NatSetInduction`, `SubsetInduction`). The first says that every total is a number of cents, the
  second what a mistyped digit does to a checksum.
* **CheckoutProofs**: types, `StockAccounted`, `OrderMatchesCharge`, `AnswersStayTrue`,
  `TrackedOrdersExist`, `RefundedOrderWasContended` and the refinement of IdealCheckout. The invariant is
  built in three layers. `TypeInv` adds `LockInv` to the types: locks are exclusive, and what was read
  under a lock is still the committed value and covers the purchase; without it a commit could write a
  negative stock. `ChargeInv` says which charge stands behind each stage: a request that may still write
  an order holds an intent that succeeded at first, and a request that Stripe declined one that did not,
  so that a key never has both; one turned away for want of a customer holds no intent, and nothing
  follows from it. `ContentionInv` is for the refunds: two live requests of a key have made it overlapped,
  the creator of an aged charge is gone, and whoever is undecided while an order exists is contended.
  `StockAccounted` needs the locks of `TypeInv`: it counts the units sold as pairs of a key and a number,
  so that a sum over the keys becomes the size of a set, which a commit enlarges by its cart. The
  refinement follows from the first two: `Commit` is `Buy`, the answers are `Reply`, and all else
  stutters.
* **PaymentStatusProofs**: `StatusHappened`, for any number of handlers: events stay true once emitted
  (amounts only grow, a lost dispute stays lost), and what a handler is about to write is backed already.
  `StatusConverges` (`StatusFollowsStripe`), for any number of handlers and with no assumption on how they
  overlap: as long as no write has crossed another, the row shows every refund and lost dispute
  acknowledged (`Heard`), since a write then replaces the very status its handler decided on.
* **TrackingProofs**: `HistoryTold` and `StatusMoves` with their parts, and `SuccessMeansDelivered`, for
  any number of callers. The history begins with the row at PLACED; `StatusMoves` needs `ChecksHold`:
  whoever is about to write has checked its transition against what it read; and the last
  `EndsAreRecorded`: a live row's status has its history row, and no run begins before its row.
  The outbox, in the same module: `SentAsPromised`. Claims are disjoint; what a poller with a transaction
  handles is within its claim (one that lost its transaction may be anywhere, and takes nothing back of
  what the row's holder did); and a message that SNS reported taken is deleted or about to be.
* **EventsPipelineProofs**: types, `EmailAccounted` with its parts, `TerminalIsFinal` and
  `RetriesHaveCause`. A running record owns its event's document (`Owned`) and no other record runs that
  event (`Alone`): the unique index on `event_id` is what makes both inductive. The comment in
  `src/infra/modules/messaging/variables.tf` (15-33) fears that a concurrent redelivery mails twice;
  `OneRequest` holds for any number of messages of one event processed at once, which is what such a
  redelivery would be, by that index alone. For the last, `InFlight`: a message in a batch is in that
  batch only, and each of its deliveries but the present one came to nothing by a fault.
* **UsersProofs**: six parts of Users that share no state.
  - *Passwords*: types, `FlagHonest` and `CodeHonoured`. A stored code belongs to a request past its SET
    (`CodesKnown`), so that a code used is never stored again; the newest is in Redis, or it is known how
    it left (`NewestTraced`); whoever is past setting a password has left the old one behind
    (`ChangeOrder`).
  - *Profile cache*: types and `StaleHasCause`. A body that is neither `behind` nor `late` has an
    invalidation still pending as its witness (`Excused`), and so has a read that may still fill it.
  - *Accounts*: `AccountsHonest`. A registration past Cognito, whose row is not deleted, owns the
    address's account unless a deletion took it from it (`AccountsHeld`), and how far a deletion is says
    what is gone (`LegsClear`).
  - *Sign-in with a code*: `NewestCodeOpens`. Two starts under way together are both overlapped
    (`TogetherOverlap`), so a start whose answer is still to come after a newer code was minted makes the
    newer one overlapped (`LateIsOverlapped`): no late answer replaces its session unnoticed.
  - *Soft deletion*: `SoftDeleteHolds`, for every set of rows: a mark comes with its grave, no stamp
    clears it, and the last node of a path filters whatever led to it.
  - *Saved cards*: `CardRecords`, of `OneDefault` (`DInv`: whoever is inside a transaction holds the user's
    row, and while attach is making its first card the default no other is), `CustomerIsKnown`
    (`KInv`: every call acts for the customer the table has) and `DeletedIsDetached` (`GInv`: whatever
    is about to delete a row comes after Stripe has let the card go); and `TableInSync`, from all
    three. A card that is attached and not listed, or listed and not attached, has an event owed or a
    delivery under way (`CardFollows`); a default that differs has an event owed or a delivery holding
    the lock (`DefaultFollows`); and whoever is about to write a default has the present one, unless
    another event is owed (`WritersCurrent`, which is what reading it under the lock buys).
* **ShopProofs**: six parts of the web's shop that share no state.
  - *Profile form*: `FormHonest`. What was typed since the last seed differs from it (`EditsApart`), so
    the reseeding effect, which takes a pristine form only, spares it.
  - *Order pages*: `OrderPageHonest`. Until a load ends under a later one, every load out includes one of
    the order in the address (`OrderPageIInv`). The attempt found `Visit`'s guard wrongly bracketed: it
    had read as an implication, and let more pages open than the router does.
  - *Address form*: `AddressHonest`. A text that is debounced is the last the field took, else the
    pipeline has had it (`DebouncedIsLast`); a suggestion stays resolved as long as its place is shown.
  - *Card lists*: `SelectionLives`. While no call is on its way to an answer, and no new card to its
    report, every answer that waits to be shown is what Users has, and with none waiting the list and
    the selection are (`ListFollows`).
  - *Cart*: `BoughtOnce` and `BasketAgrees`. A key is one visit's and one call's at a time, and one left
    behind was told of its order, given up in doubt, or can have no order (`KeysSettled`). For the basket,
    `ClickKept`: the last quantity asked of a product waits for its timer, or is the last write the queue
    holds for it, or is what the running task writes, or was written; and an overlay is owed a timer or a
    write that drops it (`OverlaysOwed`).
  - *Card form*: `CardFormHonest`. A digit counted double, less nine, tells every digit from every other,
    and from a digit by an amount only 0 and 9 share: so no number one digit or one swap away from a
    card's passes (`MistypedCaught`, `SwappedCaught`, for numbers of any length). What is posted was found
    good in the month that `paidOn` remembers, by the rules Orders has (`CardFormInv`), and a number
    grouped again stays as it is, so that the field never holds one that was not a card's (`GroupsOnce`).
* **SessionProofs**: what runs behind every page, and the registry that pushes to it.
  - *Registry*: `TabsHear`. What a push prunes has left, or was posted to before its `$connect` had
    answered (`PrunedIsGone`), and no row, index entry or query knows a socket before its `$connect`
    (`KnownConnected`): the delete of a dead connection never takes a live one's row.
  - *Live socket*: `TabStaysLive`. As long as no two `open()` calls cross, a tab is in one phase at a time:
    it awaits a token, waits to retry, or holds the one socket that is live (`OnePhase`).
  - *Notifications*: `InboxHonest`. The server only grows, so an answer of its size now has its count now
    (`AnswersTell`; `BadgeTrue` turns out to need no quiet state), and a row being marked is in one
    call's hands (`MarksAreApart`). An event that is not waiting in the queue has a row, and a row of one
    that is waiting is of an earlier delivery (`EventsHaveRows`).
  - *Toasts*: `ToastsServe`. Time run and time left add up to the window, running or banked (`TimeAddsUp`).
  - *Session*: `SessionHonest`. The tokens a refresh or a sign-in is about to store are held nowhere yet
    (`InHand`), so that a call retried takes another token than the one refused (`TriesAnew`); and unless
    two of them crossed, the user, the stored tokens and the layout follow one another whenever no teardown
    is under way (`OneStory`).
  - *Auth pages*: `AuthPagesHonest`. A submission of the page on screen is of a kind that page sends, and is
    the only one (`MadeHere`); while a code's own resend is out no other answer brought a session
    (`ResendIsNewest`).

Only model-checked: the liveness properties (`Settles`, `EventsAcknowledged`, `RunEnds`, `Drained`,
`MessagesSettle`), since TLAPS has no ENABLED, and the violations of section 7. Every safety property of a
passing run is a theorem.

## 7. Findings

1. `DuplicateNotRefunded`: the lookup for a winner runs only for a `DbUpdateException`. A duplicate that
   replays its winner's charge and then finds the winner has taken the last unit throws
   `InsufficientStockException`, and refunds the charge that the winner's order stands on.
2. `ForwardOnly`: the UPDATE of a transition is guarded by `deleted_at` alone, so of two carriers that
   read PLACED one commits DELIVERED and the other PROCESSING. The history key, called a second
   enforcement of the forward-only state machine, only stops a repeated status.
3. `TransientIsNotConsumed`: a transient SES failure writes FAILED and asks for a redelivery; the
   redelivery's insert meets the document and is consumed as a duplicate, so the email is never sent.
4. `UnlistedPayable`: the plain form lets a card of an unlisted issuer through, sends its brand as null,
   and Orders answers 400 to every payment with it.

The comments, tests and documents that say otherwise are quoted in `PROJECT.json` (`findings`).

## 8. Disagreements met on the way

What the models show the code to do against a comment or an evident intent, beyond the findings. The
properties except exactly these, by the history variable or the condition named.

Orders and Users
* Two deliveries that both read "succeeded" can write `refunded` and then `partially_refunded`
  (`crossed`). A `charge.dispute.created` that comes, or comes again, after the won close sets the row to
  `disputed` for good, where the Stripe design has a won dispute revert to `succeeded` with events repeated
  and out of order (`StatusConverges` speaks of lost disputes only).
* A default card chosen at Stripe whose `customer.updated` is handled before the card has a row leaves
  the table without a default (`missed`), and an attach event read before a detach makes a row of a card
  that is gone (`ghosts`).
* A registration that fails between `AdminCreateUser` and the insert leaves an address that cannot
  register with a password again; a deletion's last leg works by email, so a slow second one removes the
  account of whoever registered since, and a late identity event attaches the old identity's data to the
  new row (`met`).
* Two overlapping confirmations can both use one reset code; a code stored between the read and the
  deletion of the last one is deleted unused (`crossed`); a failed change of password uses its code up.
* A forced user is sent to a page that asks for a code nobody mailed. After a wrong code Users drops the
  session Cognito renewed, so that "three tries" (`verify-code.ts`) holds only if Cognito takes the old one
  (`renews`).
* A profile read from the lagging replica after the invalidation is cached again for five minutes, which
  the contract of `users.controller.ts` excludes (`behind`).
* A second delete stamps a row again; upsert alone has no condition added and updates a deleted row where
  it lies.
* A poller that loses its transaction in mid-batch publishes the rest of it with no row locked: a poller
  that claims those rows publishes them too, the very duplicate that RunOnce's comment says SKIP LOCKED is
  there to prevent (`Holds`).
* The consumer's comment narrows a repeated notification to a crash between the insert and the delete
  (`notification-consumer.service.ts`, 109-111). A failed delete, which is only logged, repeats it with
  the service up, and so do a slow delivery, a lost answer of the insert and the outbox's second
  publication (`NotifiedOnce` counts deliveries).
* The pipeline's quarantine reason "persist_failed" cannot be reached.
* A push that reads a connection's row before its `$connect` has answered is told the socket is gone and
  deletes the row: the socket opens unlisted (`struck`).

Web
* A click on a product whose own write is unsettled is dropped; a write queued or under way when the
  order consumed the cart recreates the paid basket, which the comment in `cart-store.ts` excludes
  (`crossed`, `unread`).
* The street search never ends its spinner for a buyer who returns to the last query within the debounce
  (`backtracked`). Checkout drops a typed second line under a suggestion.
* A card confirmed while its form is cancelled is attached without the list being read; after a failed
  read a removed card stays selected (`stale`).
* Edits typed during a save are overwritten by its answer (`typedOver`), and a GET that began before it
  seeds the old profile; the reseed clears a failure's banner.
* An order page's load that ends under a later one shows its own order; the thanks banner stays when the
  component moves to another order (`overlapped`, `moved`).
* The plain form judges an expiry when it is typed, by the browser's clock, and Orders by UTC.
* A refresh, or a profile, answered after a sign-out writes the tokens or the user back (`crossed`); a
  sign-out with an expired access token does not revoke the refresh token; a 401 that arrives after the
  burst's refresh starts another.
* Two `open()` calls that both await the token open two sockets, of which one is forgotten (`doubled`).
* A resend answered after another address's challenge began pairs that session with the other address, and
  a start answered after its page was left navigates all the same (`leftPage`).
* The All screen entered while a list is under way marks nothing, against
  `notifications-store.ts`.

## 9. What is not modelled

* Of Checkout: the end of Stripe's 24-hour key retention, the checkout without Stripe, the order
  number, the cart row and the response cache. Past the first, a retry of a key that has no order would
  be charged anew instead of being answered from the first charge.
* Of PaymentStatus: several disputes of one charge.
* Of Tracking: the caller's identity (resolved before anything is written), the cache sweeps after a
  commit, trackings of other orders (they share no row).
* Of EventsPipeline: what the templates render, metrics, the E2E email store and the socket push, whose
  failures are swallowed (the push is Connections').
* Of Inbox: the copy of a notification, the windows of 50 rows and 90 days, the replica's lag, and the
  queue's receive limit, past which a message of the notifications queue goes to its DLQ.
* Of Accounts: a call that takes effect and loses its answer (`AdminCreateUser`, the insert, the row's
  delete) is not told apart from one that failed.
* Of CodeSignIn: Cognito calling a trigger that was slow a second time, which would mint or mail again.
* Of WebSession: other tabs that share the storage.
* Of PaymentMethods: the data of a card, other users' rows, and the webhook's filters (signature,
  address, token), which keep no state.
* Of the web: templates, wording, prices and totals, the fillers of development builds, and the pages
  that only read and show (catalogue, tracking, admin and demo pages).
* Orders' cart row: a replacement is a step of CartStore, where its order matters; two first writes that
  race on the unique index, of which the loser starts over, are not told apart.
* Orders' and Tracking's response caches: a stale answer lasts at most its TTL, the code promises nothing
  else, and a bound in time is out of these models. The same construction is modelled where it makes a
  promise, in ProfileCache.
* Orders' erasure: a step of Accounts.
* Queries, routing, logging, metrics, tracing, configuration and Terraform keep no state that a property
  here could be about.

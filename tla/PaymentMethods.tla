---------------------------- MODULE PaymentMethods ----------------------------
(***************************************************************************)
(* One user's saved cards, kept twice: at Stripe, which decides, and in    *)
(* the Users service's table, which is what the pages read.  The routes    *)
(* (setup-intent, attach, detach, set-default) change Stripe first and the *)
(* table after; Stripe's webhooks, and a human at its dashboard, change    *)
(* things behind their back.  A call is split at every request to Stripe   *)
(* and every read it acts on later; the transactions of attach,            *)
(* set-default and customer.updated hold the user's row lock across a      *)
(* request to Stripe.                                                      *)
(*                                                                         *)
(* Other users share no row and no lock with this one.  What a card is     *)
(* (brand, expiry, billing address) is left out.  A read that a lagging    *)
(* replica answers is one made earlier, which the interleaving covers.     *)
(***************************************************************************)
EXTENDS Naturals, FiniteSets

CONSTANTS Cards,       \* payment methods (pm_...) of this user
          Customers,   \* ids Stripe may give the user's customer
          Calls,       \* requests to the routes, each made once
          Handlers,    \* webhook deliveries handled at a time
          MaxOutside,  \* bound on what happens at Stripe without the routes
          None

ASSUME PaymentMethodsAssumption ==
  /\ None \notin Cards \cup Customers
  /\ Calls \cap Handlers = {} /\ None \notin Calls \cup Handlers
  /\ Customers \cap {"new", "detached"} = {}
  /\ "customer" \notin Cards
  /\ MaxOutside \in Nat

VARIABLES holder,    \* Stripe, per card: "new", the customer it is attached to,
                     \* "detached" (for good)
          default,   \* Stripe: invoice_settings.default_payment_method
          made,      \* Stripe: the customers created
          key,       \* Stripe: the customer the creation's idempotency key is
                     \* remembered with, for 24 hours
          owed,      \* Stripe: per topic, the events nobody has acknowledged
          outside,   \* changes made at Stripe without the routes so far
          row,       \* table, per card: "absent", "live", "deleted"
          isDefault, \* table, per card: is_default
          customer,  \* table: the user's stripe_customer_id
          lock,      \* who holds the user's row FOR UPDATE
          call,      \* per request: its step and what it remembers
          handler,   \* per delivery: its step and what it remembers
          ghosts,    \* cards whose row was written after they were detached
          missed     \* cards that became the default before they had a row
stripe == <<holder, default, made, key, outside>>
table  == <<row, isDefault, customer>>
seen   == <<ghosts, missed>>
vars   == <<stripe, owed, table, lock, call, handler, seen>>

Topics == Cards \cup {"customer"}
Live == {c \in Cards : row[c] = "live"}
Defaults == {c \in Live : isDefault[c]}
Attached(c) == holder[c] \in Customers

Ready == [at |-> "idle", op |-> None, card |-> None, customer |-> None,
          first |-> FALSE]
Answered == [Ready EXCEPT !.at = "done"]
Waiting == [at |-> "idle", topic |-> None, default |-> None]

Init == /\ holder = [c \in Cards |-> "new"]
        /\ default = None /\ made = {} /\ key = None /\ outside = 0
        /\ owed = [t \in Topics |-> 0]
        /\ row = [c \in Cards |-> "absent"]
        /\ isDefault = [c \in Cards |-> FALSE]
        /\ customer = None
        /\ lock = None
        /\ call = [p \in Calls |-> Ready]
        /\ handler = [h \in Handlers |-> Waiting]
        /\ ghosts = {} /\ missed = {}

Goto(p, step) == call' = [call EXCEPT ![p].at = step]
Answer(p) == call' = [call EXCEPT ![p] = Answered]
Emit(topics) ==
  owed' = [t \in Topics |-> IF t \in topics THEN owed[t] + 1 ELSE owed[t]]

-----------------------------------------------------------------------------
(* Stripe. *)

Attach(c, id) == /\ holder' = [holder EXCEPT ![c] = id]
                 /\ Emit({c})
                 /\ UNCHANGED <<default, made, key>>

\* The customer's default goes with its card.
DetachAtStripe(c) ==
  /\ holder' = [holder EXCEPT ![c] = "detached"]
  /\ default' = IF default = c THEN None ELSE default
  /\ Emit({c} \cup IF default = c THEN {"customer"} ELSE {})
  /\ UNCHANGED <<made, key>>

\* customers.update: only a card attached to that customer can be its default.
MakeDefault(c, id) ==
  /\ holder[c] = id
  /\ default' = c
  /\ IF default = c THEN UNCHANGED owed ELSE Emit({"customer"})
  /\ UNCHANGED <<holder, made, key>>

\* The browser confirms a SetupIntent, which attaches the card; a human detaches
\* a card or picks the default in the dashboard; an event comes twice, or tells
\* of a change that is none here.
Outside ==
  /\ outside < MaxOutside /\ customer # None
  /\ outside' = outside + 1
  /\ \E c \in Cards :
       \/ holder[c] = "new" /\ Attach(c, customer)
       \/ Attached(c) /\ DetachAtStripe(c)
       \/ default # c /\ MakeDefault(c, customer)
       \/ /\ Attached(c) /\ \E t \in {c, "customer"} : Emit({t})
          /\ UNCHANGED <<holder, default, made, key>>
  /\ UNCHANGED <<table, lock, call, handler, seen>>

\* A day has passed, which no request survives.
KeyExpires ==
  /\ key # None /\ customer = None
  /\ \A p \in Calls : call[p].at \notin {"create", "persist"}
  /\ key' = None
  /\ UNCHANGED <<holder, default, made, outside, owed, table, lock, call,
                 handler, seen>>

-----------------------------------------------------------------------------
(* The routes. *)

Request(p, op, c) ==
  /\ call[p] = Ready
  /\ call' = [call EXCEPT ![p].at =
                IF op \in {"setup", "attach"} THEN "ensure" ELSE "find",
                          ![p].op = op, ![p].card = c]
  /\ UNCHANGED <<stripe, owed, table, lock, handler, seen>>

\* What follows ensureStripeCustomer, with the customer it returned. The
\* SetupIntent of create-setup-intent only lets the browser confirm a card.
Ensured(p, id) ==
  call' = [call EXCEPT ![p] = IF @.op = "setup" THEN Answered
                              ELSE [@ EXCEPT !.at = "attach", !.customer = id]]

Ensure(p) ==
  /\ call[p].at = "ensure"
  /\ IF customer = None THEN Goto(p, "create") ELSE Ensured(p, customer)
  /\ UNCHANGED <<stripe, owed, table, lock, handler, seen>>

\* The customer a creation yields: the key's, or one never seen.
Created == IF key = None THEN Customers \ made ELSE {key}

Create(p) ==
  /\ call[p].at = "create"
  /\ \E id \in Created :
       /\ made' = made \cup {id}
       /\ key' = id
       /\ call' = [call EXCEPT ![p].at = "persist", ![p].customer = id]
  /\ UNCHANGED <<holder, default, outside, owed, table, lock, handler, seen>>

\* The conditional update; the loser reads the winner's id.
Persisted(id) == IF customer = None THEN id ELSE customer

Persist(p) ==
  /\ call[p].at = "persist"
  /\ customer' = Persisted(call[p].customer)
  /\ Ensured(p, Persisted(call[p].customer))
  /\ UNCHANGED <<stripe, owed, row, isDefault, lock, handler, seen>>

\* attachOrVerifyOwnership: a card attached to this customer already will do.
AttachCard(p) ==
  LET c == call[p].card
      id == call[p].customer
  IN /\ call[p].at = "attach"
     /\ \/ holder[c] = "new" /\ Attach(c, id) /\ Goto(p, "lock")
        \/ holder[c] = id /\ Goto(p, "lock") /\ UNCHANGED <<stripe, owed>>
        \/ holder[c] \notin {"new", id} /\ Answer(p) /\ UNCHANGED <<stripe, owed>>
     /\ UNCHANGED <<outside, table, lock, handler, seen>>

\* detach and set-default: only a live row of the caller's is acted on.
Find(p) ==
  /\ call[p].at = "find"
  /\ IF call[p].card \notin Live \/ (call[p].op = "setDefault" /\ customer = None)
     THEN Answer(p)
     ELSE call' = [call EXCEPT ![p].customer = customer, ![p].at =
                     IF call[p].op = "detach" THEN "detach" ELSE "lock"]
  /\ UNCHANGED <<stripe, owed, table, lock, handler, seen>>

-----------------------------------------------------------------------------
(* The transactions of attach and set-default. *)

\* Mutant: the transaction starts without lockUserRow.
LockFreeAlways == TRUE

LockFree == lock = None

\* attach counts the caller's other live cards once it has the lock.
Lock(p) ==
  LET c == call[p].card
      first == call[p].op = "attach" /\ Live \ {c} = {}
  IN /\ call[p].at = "lock" /\ LockFree
     /\ lock' = p
     /\ call' = [call EXCEPT ![p].first = first, ![p].at =
                   IF first \/ call[p].op = "setDefault" THEN "default"
                   ELSE "write"]
     /\ UNCHANGED <<stripe, owed, table, handler, seen>>

SetDefaultAtStripe(p) ==
  /\ call[p].at = "default"
  /\ MakeDefault(call[p].card, call[p].customer)
  /\ Goto(p, "write")
  /\ UNCHANGED <<outside, table, lock, handler, seen>>

\* The wait for the lock counts against the transaction's 15 seconds: they can
\* end, and free the row, while Stripe is still at work.
Expire(p) ==
  /\ call[p].at = "default"
  /\ lock' = None
  /\ Goto(p, "late")
  /\ UNCHANGED <<stripe, owed, table, handler, seen>>

LateDefault(p) ==
  /\ call[p].at = "late"
  /\ MakeDefault(call[p].card, call[p].customer)
  /\ Answer(p)
  /\ UNCHANGED <<outside, table, lock, handler, seen>>

\* upsert: what a row has of deleted_at it keeps.
Upsert(c) ==
  /\ row' = [row EXCEPT ![c] = IF @ = "absent" THEN "live" ELSE @]
  /\ ghosts' = IF row[c] = "absent" /\ ~Attached(c) THEN ghosts \cup {c} ELSE ghosts

\* The two updateMany: cs are the default, no other live card is.
MarkOnly(cs) == [c \in Cards |-> IF c \in Live THEN c \in cs ELSE isDefault[c]]

CommitAttach(p) ==
  LET c == call[p].card
  IN /\ call[p].at = "write" /\ call[p].op = "attach"
     /\ Upsert(c)
     /\ isDefault' = IF call[p].first THEN [isDefault EXCEPT ![c] = TRUE]
                     ELSE isDefault
     /\ lock' = None
     /\ Answer(p)
     /\ UNCHANGED <<stripe, owed, customer, handler, missed>>

\* The update by id refuses a row deleted since it was found.
CommitDefault(p) ==
  /\ call[p].at = "write" /\ call[p].op = "setDefault"
  /\ call[p].card \in Live
  /\ isDefault' = MarkOnly({call[p].card})
  /\ lock' = None
  /\ Answer(p)
  /\ UNCHANGED <<stripe, owed, row, customer, handler, seen>>

-----------------------------------------------------------------------------
(* detach, and the ways a call ends early. *)

\* Stripe answers that a card is not attached any more: as good as detached.
DetachCard(p) ==
  /\ call[p].at = "detach"
  /\ \/ Attached(call[p].card) /\ DetachAtStripe(call[p].card)
     \/ ~Attached(call[p].card) /\ UNCHANGED <<stripe, owed>>
  /\ Goto(p, "delete")
  /\ UNCHANGED <<outside, table, lock, handler, seen>>

Delete(p) ==
  /\ call[p].at = "delete"
  /\ row' = [row EXCEPT ![call[p].card] = "deleted"]
  /\ Answer(p)
  /\ UNCHANGED <<stripe, owed, isDefault, customer, lock, handler, seen>>

\* Stripe or the database refuses, an answer is lost, the transaction times out
\* or the task dies: what was not committed is not there.
Fail(p) ==
  /\ call[p].at \notin {"idle", "done"}
  /\ lock' = IF lock = p THEN None ELSE lock
  /\ Answer(p)
  /\ UNCHANGED <<stripe, owed, table, handler, seen>>

-----------------------------------------------------------------------------
(* The webhooks. *)

Acknowledge(h) == handler' = [handler EXCEPT ![h] = Waiting]

Deliver(h, t) ==
  /\ handler[h] = Waiting /\ owed[t] > 0
  /\ owed' = [owed EXCEPT ![t] = @ - 1]
  /\ handler' = [handler EXCEPT ![h].topic = t, ![h].at =
                   IF t = "customer" THEN "lock" ELSE "retrieve"]
  /\ UNCHANGED <<stripe, table, lock, call, seen>>

\* Mutant: the card is taken to be as the event said, attached.
EventState(c) == TRUE

\* The card as Stripe has it now, not as it was when the event was made.
AttachedNow(c) == Attached(c)

\* reconcilePaymentMethod; a customer the table does not know is ignored.
Retrieve(h) ==
  LET c == handler[h].topic
  IN /\ handler[h].at = "retrieve"
     /\ IF AttachedNow(c) /\ holder[c] # customer THEN Acknowledge(h)
        ELSE handler' = [handler EXCEPT ![h].at =
                           IF AttachedNow(c) THEN "upsert" ELSE "remove"]
     /\ UNCHANGED <<stripe, owed, table, lock, call, seen>>

Reconcile(h) ==
  /\ handler[h].at = "upsert"
  /\ Upsert(handler[h].topic)
  /\ Acknowledge(h)
  /\ UNCHANGED <<stripe, owed, isDefault, customer, lock, call, missed>>

\* softDeleteIfPresent
SoftDelete(h) ==
  LET c == handler[h].topic
  IN /\ handler[h].at = "remove"
     /\ row' = IF c \in Live THEN [row EXCEPT ![c] = "deleted"] ELSE row
     /\ Acknowledge(h)
     /\ UNCHANGED <<stripe, owed, isDefault, customer, lock, call, seen>>

\* reconcileDefault: the default is read at Stripe under the lock.
LockDefault(h) ==
  /\ handler[h].at = "lock" /\ LockFree
  /\ lock' = h
  /\ handler' = [handler EXCEPT ![h].at = "apply", ![h].default = default]
  /\ UNCHANGED <<stripe, owed, table, call, seen>>

Agrees(wanted) == Defaults = wanted

ApplyDefault(h) ==
  LET wanted == {handler[h].default} \ {None}
  IN /\ handler[h].at = "apply"
     /\ isDefault' = IF Agrees(wanted) THEN isDefault ELSE MarkOnly(wanted)
     /\ missed' = missed \cup (wanted \ Live)
     /\ lock' = None
     /\ Acknowledge(h)
     /\ UNCHANGED <<stripe, owed, row, customer, call, ghosts>>

\* Stripe or the database fails, or the task dies: anything but a 200, and
\* Stripe delivers the event again.
Redeliver(h) ==
  /\ handler[h] # Waiting
  /\ lock' = IF lock = h THEN None ELSE lock
  /\ Emit({handler[h].topic})
  /\ Acknowledge(h)
  /\ UNCHANGED <<stripe, table, call, seen>>

-----------------------------------------------------------------------------
Route(p) ==
  \/ \E op \in {"setup", "attach", "detach", "setDefault"}, c \in Cards :
       Request(p, op, c)
  \/ Ensure(p) \/ Create(p) \/ Persist(p) \/ AttachCard(p) \/ Find(p)
  \/ Lock(p) \/ SetDefaultAtStripe(p) \/ Expire(p) \/ LateDefault(p)
  \/ CommitAttach(p) \/ CommitDefault(p)
  \/ DetachCard(p) \/ Delete(p) \/ Fail(p)

Webhook(h) ==
  \/ \E t \in Topics : Deliver(h, t)
  \/ Retrieve(h) \/ Reconcile(h) \/ SoftDelete(h)
  \/ LockDefault(h) \/ ApplyDefault(h) \/ Redeliver(h)

Next == \/ Outside \/ KeyExpires
        \/ \E p \in Calls : Route(p)
        \/ \E h \in Handlers : Webhook(h)

Spec == Init /\ [][Next]_vars

-----------------------------------------------------------------------------
(* What the routes and the webhooks promise together. *)

InTransaction(p) == call[p].at \in {"default", "write"}

\* Every variable keeps its type, and whoever is about to ask Stripe for a card or
\* a default knows a customer to name (attach, set-default).
TypeOK ==
  /\ holder \in [Cards -> {"new", "detached"} \cup Customers]
  /\ default \in Cards \cup {None}
  /\ made \subseteq Customers /\ key \in Customers \cup {None}
  /\ owed \in [Topics -> Nat] /\ outside \in 0..MaxOutside
  /\ row \in [Cards -> {"absent", "live", "deleted"}]
  /\ isDefault \in [Cards -> BOOLEAN]
  /\ customer \in Customers \cup {None}
  /\ lock \in Calls \cup Handlers \cup {None}
  /\ call \in [Calls -> [at : {"idle", "ensure", "create", "persist", "attach",
                              "find", "lock", "default", "late", "write",
                              "detach", "delete", "done"},
                        op : {None, "setup", "attach", "detach", "setDefault"},
                        card : Cards \cup {None},
                        customer : Customers \cup {None},
                        first : BOOLEAN]]
  /\ handler \in [Handlers -> [at : {"idle", "retrieve", "upsert", "remove",
                                    "lock", "apply"},
                              topic : Topics \cup {None},
                              default : Cards \cup {None}]]
  /\ ghosts \subseteq Cards /\ missed \subseteq Cards
  /\ \A p \in Calls : call[p].at \in {"attach", "late"} \/ InTransaction(p)
                        => call[p].customer \in Customers

\* However set-default, first attaches and customer.updated interleave, the user
\* never has two default cards (lockUserRow: "can never interleave into two
\* isDefault=true rows").
OneDefault == \A c, d \in Defaults : c = d

\* A card the table shows as deleted cannot be charged any more: Stripe detaches
\* first, whoever asks, and nobody deletes the row of a card that is attached.
DeletedIsDetached == \A c \in Cards : row[c] = "deleted" => ~Attached(c)

\* Cards are attached only to the customer the table knows, without which their
\* webhooks would find no user and be acknowledged for nothing
\* (ensureStripeCustomer persists before it returns).
CustomerIsKnown == \A c \in Cards : Attached(c) => holder[c] = customer

\* What the table says of a card holds at every moment, with calls and webhooks
\* under way (attach, detach, set-default and the two webhook handlers).
CardRecords == OneDefault /\ DeletedIsDetached /\ CustomerIsKnown

\* Nothing is under way and Stripe has no event to deliver.
Quiet == /\ \A p \in Calls : call[p].at \in {"idle", "done"}
         /\ \A h \in Handlers : handler[h] = Waiting
         /\ \A t \in Topics : owed[t] = 0

\* Once all is quiet the table lists the cards that are attached and no other,
\* except one that was written by someone who read it before its detachment
\* (reconcilePaymentMethod reads Stripe's current state, then writes).
CardsInSync ==
  Quiet => \A c \in Cards : /\ Attached(c) => c \in Live
                            /\ c \in Live => Attached(c) \/ c \in ghosts

\* Once all is quiet the table's default is Stripe's, whatever failed between
\* the two, unless customer.updated came before the card had a row (set-default:
\* the residual case "is reconciled by" customer.updated).
DefaultInSync ==
  Quiet => Defaults = {default} \ {None} \/ default \in missed

\* Both: the table follows Stripe, which is authoritative (the webhooks of
\* payment_method.* and customer.updated).
TableInSync == CardsInSync /\ DefaultInSync
=============================================================================

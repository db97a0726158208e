---------------------------- MODULE PaymentStatus ---------------------------
(***************************************************************************)
(* StripeWebhookService, the part that keeps an order's payment_status in  *)
(* step with refunds and disputes made in Stripe.  One PaymentIntent and   *)
(* its order row; Stripe emits an event for every change, delivers events  *)
(* in any order, again and again until one delivery is answered 2xx and    *)
(* possibly after that.  A handler reads the row, computes the next status *)
(* from what it read and the event, and writes it: no lock, no version.    *)
(***************************************************************************)
EXTENDS Naturals

CONSTANTS Handlers,  \* deliveries that may be processed at the same time
          Amount     \* the charge; refunds return it in units

ASSUME PaymentStatusAssumption == Amount \in Nat \ {0}

VARIABLES
    row,       \* payment_status of the committed order, "none" before the commit
    returned,  \* Stripe: amount refunded so far
    dispute,   \* Stripe: the charge's only dispute
    emitted,   \* events Stripe has emitted
    acked,     \* events answered 2xx at least once
    handling,  \* what each handler is about to write, and for which event
    early,     \* history: an event was acknowledged before there was a row
    crossed    \* history: a status was written over one its handler had not read

stripe == <<returned, dispute, emitted>>
history == <<early, crossed>>
vars == <<row, stripe, acked, handling, history>>

Outcomes == {"won", "lost"}
Refunds == [type : {"refunded"}, amount : 1..Amount]
Opened == [type |-> "opened"]
Closings == [type : {"closed"}, outcome : Outcomes]
Events == Refunds \cup Closings \cup {Opened}

Statuses == {"succeeded", "partially_refunded", "refunded", "disputed", "dispute_lost"}

\* A handler past its read: the event, the status read, and the one to write.
Writes == [event : Events, from : Statuses, status : Statuses]
Nothing == [status |-> "nothing"]

TypeOK ==
    /\ row \in Statuses \cup {"none"}
    /\ returned \in 0..Amount
    /\ dispute \in Outcomes \cup {"none", "open"}
    /\ emitted \subseteq Events /\ acked \subseteq emitted
    /\ handling \in [Handlers -> Writes \cup {Nothing}]
    /\ early \in BOOLEAN /\ crossed \in BOOLEAN

Init ==
    /\ row = "none"
    /\ returned = 0 /\ dispute = "none"
    /\ emitted = {} /\ acked = {}
    /\ handling = [h \in Handlers |-> Nothing]
    /\ early = FALSE /\ crossed = FALSE

-----------------------------------------------------------------------------
(***************************************************************************)
(* The order's commit, and Stripe.                                         *)
(***************************************************************************)

\* ApplyPaymentSnapshot stores the intent's own status.
CommitOrder ==
    /\ row = "none"
    /\ row' = "succeeded"
    /\ UNCHANGED <<stripe, acked, handling, history>>

\* A refund, partial or of all that is left.  Its event carries the running
\* total.
RefundInStripe(total) ==
    /\ returned < total /\ total <= Amount
    /\ dispute # "lost"
    /\ returned' = total
    /\ emitted' = emitted \cup {[type |-> "refunded", amount |-> total]}
    /\ UNCHANGED <<row, dispute, acked, handling, history>>

OpenDispute ==
    /\ dispute = "none"
    /\ dispute' = "open"
    /\ emitted' = emitted \cup {Opened}
    /\ UNCHANGED <<row, returned, acked, handling, history>>

CloseDispute(outcome) ==
    /\ dispute = "open"
    /\ dispute' = outcome
    /\ emitted' = emitted \cup {[type |-> "closed", outcome |-> outcome]}
    /\ UNCHANGED <<row, returned, acked, handling, history>>

-----------------------------------------------------------------------------
(***************************************************************************)
(* The handlers.  A transition returns the current status to leave it.     *)
(***************************************************************************)

\* Mutant: a refund event says what it says, stale or not.
RefundTransitionBlind(current, amount) ==
    IF amount >= Amount THEN "refunded" ELSE "partially_refunded"

\* Mutant: the amounts are not compared.
RefundTransitionFull(current, amount) == "refunded"

\* A partial refund that arrives after the full one is stale.
RefundTransition(current, amount) ==
    CASE amount >= Amount                           -> "refunded"
      [] amount < Amount /\ current = "refunded"    -> current
      [] OTHER                                      -> "partially_refunded"

\* An opening that arrives after a lost close is stale.
OpenedTransition(current) == IF current = "dispute_lost" THEN current ELSE "disputed"

\* "won", and warning_closed, an inquiry closed with no chargeback.
ClosedTransition(current, outcome) ==
    CASE outcome = "lost"                          -> "dispute_lost"
      [] outcome = "won" /\ current = "disputed"   -> "succeeded"
      [] OTHER                                     -> current

Transition(current, event) ==
    CASE event.type = "refunded" -> RefundTransition(current, event.amount)
      [] event.type = "opened"   -> OpenedTransition(current)
      [] event.type = "closed"   -> ClosedTransition(current, event.outcome)

Idle(h) == handling[h] = Nothing

\* Mutant: an event about an unknown order is answered 404.
AckKnown(h, event) ==
    /\ Idle(h)
    /\ row # "none" /\ Transition(row, event) = row
    /\ acked' = acked \cup {event}
    /\ UNCHANGED <<row, stripe, handling, history>>

\* No row, or nothing to change: acknowledged at once.
AckUnchanged(h, event) ==
    /\ Idle(h)
    /\ row = "none" \/ Transition(row, event) = row
    /\ acked' = acked \cup {event}
    /\ early' = (early \/ row = "none")
    /\ UNCHANGED <<row, stripe, handling, crossed>>

\* The row is read and the next status decided.
Decide(h, event) ==
    /\ Idle(h)
    /\ row # "none" /\ Transition(row, event) # row
    /\ handling' = [handling EXCEPT ![h] =
                        [event |-> event, from |-> row, status |-> Transition(row, event)]]
    /\ UNCHANGED <<row, stripe, acked, history>>

\* SaveChanges: an UPDATE by primary key, over whatever the row holds by now.
Write(h) ==
    /\ ~Idle(h)
    /\ crossed' = (crossed \/ row # handling[h].from)
    /\ row' = handling[h].status
    /\ acked' = acked \cup {handling[h].event}
    /\ handling' = [handling EXCEPT ![h] = Nothing]
    /\ UNCHANGED <<stripe, early>>

\* The write fails, or the process dies: not 2xx, Stripe will deliver again.
WriteFails(h) ==
    /\ ~Idle(h)
    /\ handling' = [handling EXCEPT ![h] = Nothing]
    /\ UNCHANGED <<row, stripe, acked, history>>

Next ==
    \/ CommitOrder
    \/ \E total \in 1..Amount : RefundInStripe(total)
    \/ OpenDispute
    \/ \E outcome \in Outcomes : CloseDispute(outcome)
    \/ \E h \in Handlers :
         \/ \E event \in emitted : AckUnchanged(h, event) \/ Decide(h, event)
         \/ Write(h) \/ WriteFails(h)

Spec == Init /\ [][Next]_vars

\* Stripe delivers an unacknowledged event again and again, so one delivery is
\* not kept out for ever by the others; nor does every write of it fail.
Fairness ==
    \A event \in Events :
        /\ SF_vars(\E h \in Handlers :
              event \in emitted \ acked /\ (AckUnchanged(h, event) \/ Decide(h, event)))
        /\ SF_vars(\E h \in Handlers :
              ~Idle(h) /\ handling[h].event = event /\ Write(h))

FairSpec == Spec /\ Fairness

-----------------------------------------------------------------------------
(***************************************************************************)
(* Properties.                                                             *)
(***************************************************************************)

Quiet == acked = emitted /\ \A h \in Handlers : Idle(h)
RefundStatus == CASE returned = 0 -> "succeeded"
                  [] returned = Amount -> "refunded"
                  [] OTHER -> "partially_refunded"

\* The status never says more than what happened in Stripe, however stale the
\* delivery that wrote it (StripeWebhookService.ReconcileStatusAsync).
StatusHappened ==
    /\ row = "partially_refunded" => \E e \in emitted \cap Refunds : e.amount < Amount
    /\ row = "refunded" => returned = Amount
    /\ row = "disputed" => dispute # "none"
    /\ row = "dispute_lost" => dispute = "lost"

\* What the code cannot put right: an event that came before its order, and a
\* handler that wrote over a status it had not read.
Undisturbed == ~early /\ ~crossed /\ row # "none"

\* With no dispute, a status that has heard of everything is the truth, whatever
\* the order, the repetitions and the overlaps of the deliveries.
RefundsConverge == Quiet /\ Undisturbed /\ dispute = "none" => row = RefundStatus

\* The same for a lost dispute on a charge nobody refunded.
LostDisputeConverges ==
    Quiet /\ Undisturbed /\ dispute = "lost" /\ returned = 0 => row = "dispute_lost"

\* Both: where the code orders the statuses, the order of the deliveries does
\* not matter (RefundTransition, DisputeClosedTransition), and handlers that
\* overlap do no harm either, but by a write that crosses another
\* (ReconcileStatusAsync: no lock, no version).
StatusConverges == RefundsConverge /\ LostDisputeConverges

\* Whatever Stripe has emitted is acknowledged in the end, so that it stops
\* delivering (a charge has finitely many events: again and again none is left).
EventsAcknowledged == []<>(acked = emitted)
=============================================================================

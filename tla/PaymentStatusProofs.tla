------------------------ MODULE PaymentStatusProofs -------------------------
(***************************************************************************)
(* Proofs about PaymentStatus, for any number of concurrent deliveries.    *)
(***************************************************************************)
EXTENDS PaymentStatus, TLAPS

\* A status, in the row or about to be written to it, is backed by Stripe.
Backed(status) ==
    /\ status = "partially_refunded" => \E e \in emitted \cap Refunds : e.amount < Amount
    /\ status = "refunded" => returned = Amount
    /\ status = "disputed" => dispute # "none"
    /\ status = "dispute_lost" => dispute = "lost"

\* Events tell the truth about Stripe, and stay true: amounts returned only
\* grow, an opened dispute is never unopened, a lost one stays lost.
EventsTrue ==
    /\ \A e \in emitted \cap Refunds : e.amount <= returned
    /\ Opened \in emitted => dispute # "none"
    /\ \A e \in emitted \cap Closings : dispute = e.outcome

\* The strengthening that is inductive.
IInv ==
    /\ TypeOK
    /\ EventsTrue
    /\ Backed(row)
    /\ \A h \in Handlers : ~Idle(h) =>
         handling[h].event \in emitted /\ Backed(handling[h].status)

\* It holds at the start ...
LEMMA InitIInv == Init => IInv
<1> SUFFICES ASSUME Init PROVE IInv
  OBVIOUS
<1>1. TypeOK
  <2>1. handling \in [Handlers -> Writes \cup {Nothing}]
    BY DEF Init
  <2>2. returned \in 0..Amount
    BY PaymentStatusAssumption DEF Init
  <2> QED
    BY <2>1, <2>2 DEF Init, TypeOK
<1>2. EventsTrue /\ Backed(row)
  BY DEF Init, EventsTrue, Backed
<1>3. \A h \in Handlers : Idle(h)
  BY DEF Init, Idle
<1> QED
  BY <1>1, <1>2, <1>3 DEF IInv

\* Writing what an emitted event asks for keeps the row backed.
LEMMA TransitionBacked ==
    ASSUME IInv, NEW event \in emitted, row # "none"
    PROVE  Transition(row, event) \in Statuses /\ Backed(Transition(row, event))
<1> USE PaymentStatusAssumption DEF IInv, TypeOK, EventsTrue, Backed, Transition
<1>1. event \in Events
  OBVIOUS
<1>2. CASE event \in Refunds
  BY <1>2 DEF Refunds, RefundTransition, Statuses
<1>3. CASE event = Opened
  BY <1>3 DEF Opened, OpenedTransition, Statuses
<1>4. CASE event \in Closings
  BY <1>4 DEF Closings, Outcomes, ClosedTransition, Statuses
<1> QED
  BY <1>1, <1>2, <1>3, <1>4 DEF Events

\* ... and no step breaks it.
LEMMA NextIInv == IInv /\ [Next]_vars => IInv'
<1> USE PaymentStatusAssumption DEF IInv, stripe, history
<1> SUFFICES ASSUME IInv, [Next]_vars PROVE IInv'
  OBVIOUS
<1>1. CASE CommitOrder
  BY <1>1 DEF CommitOrder, TypeOK, EventsTrue, Backed, Idle, Statuses
<1>2. ASSUME NEW total \in 1..Amount, RefundInStripe(total) PROVE IInv'
  BY <1>2 DEF RefundInStripe, TypeOK, EventsTrue, Backed, Idle, Events, Refunds, Closings, Opened
<1>3. CASE OpenDispute
  BY <1>3 DEF OpenDispute, TypeOK, EventsTrue, Backed, Idle, Events, Refunds, Closings, Opened, Outcomes
<1>4. ASSUME NEW outcome \in Outcomes, CloseDispute(outcome) PROVE IInv'
  BY <1>4 DEF CloseDispute, TypeOK, EventsTrue, Backed, Idle, Events, Refunds, Closings, Opened, Outcomes
<1>5. ASSUME NEW h \in Handlers, NEW event \in emitted, AckUnchanged(h, event) PROVE IInv'
  BY <1>5 DEF AckUnchanged, TypeOK, EventsTrue, Backed, Idle
<1>6. ASSUME NEW h \in Handlers, NEW event \in emitted, Decide(h, event) PROVE IInv'
  <2>1. Transition(row, event) \in Statuses /\ Backed(Transition(row, event))
    BY <1>6, TransitionBacked DEF Decide
  <2> QED
    BY <1>6, <2>1 DEF Decide, TypeOK, EventsTrue, Backed, Idle, Writes
<1>7. ASSUME NEW h \in Handlers, Write(h) PROVE IInv'
  BY <1>7 DEF Write, TypeOK, EventsTrue, Backed, Idle, Writes, Nothing
<1>8. ASSUME NEW h \in Handlers, WriteFails(h) PROVE IInv'
  BY <1>8 DEF WriteFails, TypeOK, EventsTrue, Backed, Idle, Nothing
<1>9. CASE UNCHANGED vars
  BY <1>9 DEF vars, TypeOK, EventsTrue, Backed, Idle
<1> HIDE DEF IInv
<1> QED
  BY <1>1, <1>2, <1>3, <1>4, <1>5, <1>6, <1>7, <1>8, <1>9 DEF Next

\* For any number of handlers and any amount, every variable keeps its type.
THEOREM TypeCorrect == Spec => []TypeOK
<1>1. IInv => TypeOK
  BY DEF IInv
<1> QED
  BY <1>1, InitIInv, NextIInv, PTL DEF Spec

\* However deliveries are repeated, reordered and interleaved, the status never
\* says more than what happened in Stripe.
THEOREM StatusIsTrue == Spec => []StatusHappened
<1>1. IInv => StatusHappened
  BY DEF IInv, Backed, StatusHappened
<1>2. Spec => []IInv
  BY InitIInv, NextIInv, PTL DEF Spec
<1> QED
  BY <1>1, <1>2, PTL

-----------------------------------------------------------------------------
(***************************************************************************)
(* What the status has heard of, as long as no write crossed another.      *)
(***************************************************************************)

\* What is about to be written follows from what its handler read, whoever has
\* written the row since.
DecidedOnRead ==
    \A h \in Handlers : ~Idle(h) =>
        row # "none" /\ handling[h].status = Transition(handling[h].from, handling[h].event)

\* Stripe has emitted the event of what it last did.
EventsEmitted ==
    /\ returned # 0 => [type |-> "refunded", amount |-> returned] \in emitted
    /\ dispute = "lost" => [type |-> "closed", outcome |-> "lost"] \in emitted

\* A refund, or a lost dispute, that was acknowledged shows in the row.
Heard ==
    /\ ~early /\ ~crossed /\ row = "none" => acked = {}
    /\ ~early /\ ~crossed /\ row # "none" /\ dispute = "none" =>
         /\ row = "succeeded" => acked = {}
         /\ row = "partially_refunded" => \A e \in acked \cap Refunds : e.amount # Amount
    /\ ~early /\ ~crossed /\ row # "none" /\ dispute = "lost" /\ returned = 0 =>
         ([type |-> "closed", outcome |-> "lost"] \in acked => row = "dispute_lost")

HeardInv == EventsEmitted /\ DecidedOnRead /\ Heard

\* It holds at the start ...
LEMMA InitHeardInv == Init => HeardInv
  BY DEF Init, HeardInv, EventsEmitted, DecidedOnRead, Heard, Idle

\* What an event asks for, with no dispute and after a lost one.
LEMMA TransitionHears ==
    ASSUME IInv, NEW event \in emitted, row # "none"
    PROVE  /\ dispute = "none" =>
                /\ event \in Refunds
                /\ Transition(row, event) # "succeeded"
                /\ Transition(row, event) = "partially_refunded" =>
                     event.amount # Amount /\ row # "refunded"
           /\ dispute = "lost" /\ returned = 0 =>
                /\ event \notin Refunds
                /\ row = "dispute_lost" => Transition(row, event) = "dispute_lost"
                /\ event = [type |-> "closed", outcome |-> "lost"]
                     => Transition(row, event) = "dispute_lost"
<1> USE PaymentStatusAssumption DEF IInv, TypeOK, EventsTrue, Transition
<1>1. event \in Events
  OBVIOUS
<1>2. CASE event \in Refunds
  BY <1>2 DEF Refunds, RefundTransition
<1>3. CASE event = Opened
  BY <1>3 DEF Refunds, Opened, OpenedTransition
<1>4. CASE event \in Closings
  BY <1>4 DEF Refunds, Closings, Outcomes, ClosedTransition
<1> QED
  BY <1>1, <1>2, <1>3, <1>4 DEF Events

\* ... and no step breaks it, however many deliveries are handled at once.
LEMMA NextHeardInv == IInv /\ HeardInv /\ [Next]_vars => HeardInv'
<1> SUFFICES ASSUME IInv, HeardInv, [Next]_vars PROVE HeardInv'
  OBVIOUS
<1> USE DEF HeardInv
<1>0. TypeOK /\ EventsTrue
  BY DEF IInv
<1>1. CASE CommitOrder
  BY <1>1 DEF CommitOrder, stripe, history, EventsEmitted, DecidedOnRead, Heard, Idle
<1>2. ASSUME NEW total \in 1..Amount, RefundInStripe(total) PROVE HeardInv'
  <2>1. EventsEmitted' /\ DecidedOnRead'
    BY <1>2 DEF RefundInStripe, history, EventsEmitted, DecidedOnRead, Idle
  <2>2. Heard'
    BY <1>2, <1>0 DEF RefundInStripe, history, Heard, TypeOK
  <2> QED
    BY <2>1, <2>2
<1>3. CASE OpenDispute
  BY <1>3 DEF OpenDispute, history, EventsEmitted, DecidedOnRead, Heard, Idle
<1>4. ASSUME NEW outcome \in Outcomes, CloseDispute(outcome) PROVE HeardInv'
  <2>1. EventsEmitted' /\ DecidedOnRead'
    BY <1>4 DEF CloseDispute, history, EventsEmitted, DecidedOnRead, Idle
  <2>2. [type |-> "closed", outcome |-> "lost"] \notin acked
    BY <1>4, <1>0 DEF CloseDispute, TypeOK, EventsTrue, Closings, Outcomes, Events
  <2>3. Heard'
    BY <1>4, <2>2 DEF CloseDispute, history, Heard, Outcomes
  <2> QED
    BY <2>1, <2>3
<1>5. ASSUME NEW h \in Handlers, NEW event \in emitted, AckUnchanged(h, event) PROVE HeardInv'
  <2>1. EventsEmitted' /\ DecidedOnRead'
    BY <1>5 DEF AckUnchanged, stripe, history, EventsEmitted, DecidedOnRead, Idle
  <2>2. Heard'
    BY <1>5, TransitionHears DEF AckUnchanged, stripe, history, Heard
  <2> QED
    BY <2>1, <2>2
<1>6. ASSUME NEW h \in Handlers, NEW event \in emitted, Decide(h, event) PROVE HeardInv'
  <2>1. EventsEmitted' /\ Heard'
    BY <1>6 DEF Decide, stripe, history, EventsEmitted, Heard
  <2>2. DecidedOnRead'
    BY <1>6, <1>0 DEF Decide, DecidedOnRead, Idle, TypeOK, Writes, Nothing
  <2> QED
    BY <2>1, <2>2
<1>7. ASSUME NEW h \in Handlers, Write(h) PROVE HeardInv'
  <2> DEFINE event == handling[h].event
  <2>1. event \in emitted /\ row # "none" /\ handling[h] \in Writes
    BY <1>7, <1>0 DEF Write, DecidedOnRead, IInv, Idle, TypeOK
  <2>2. row' \in Statuses /\ (~crossed' => ~crossed /\ row' = Transition(row, event))
    BY <1>7, <2>1 DEF Write, DecidedOnRead, Writes
  <2>3. EventsEmitted'
    BY <1>7 DEF Write, stripe, EventsEmitted
  <2>4. DecidedOnRead'
    <3>1. \A g \in Handlers : ~Idle(g)' => g # h /\ ~Idle(g) /\ handling'[g] = handling[g]
      BY <1>7, <1>0 DEF Write, Idle, TypeOK
    <3>2. row' # "none"
      BY <2>2 DEF Statuses
    <3> QED
      BY <3>1, <3>2 DEF DecidedOnRead, Idle
  <2>5. acked' = acked \cup {event} /\ UNCHANGED <<returned, dispute, emitted, early>>
    BY <1>7 DEF Write, stripe
  <2>6. row' # "none"
    BY <2>2 DEF Statuses
  <2>7. ASSUME ~early, ~crossed', dispute = "none"
        PROVE  /\ row' = "succeeded" => acked' = {}
               /\ row' = "partially_refunded" => \A e \in acked' \cap Refunds : e.amount # Amount
    <3>1. row' # "succeeded"
      BY <2>1, <2>2, <2>7, TransitionHears
    <3>2. ASSUME row' = "partially_refunded" PROVE event.amount # Amount /\ row # "refunded"
      BY <2>1, <2>2, <2>7, <3>2, TransitionHears
    <3>3. row \in {"succeeded", "partially_refunded", "refunded"}
      BY <2>1, <2>7, <1>0 DEF IInv, TypeOK, Backed, Statuses
    <3> QED
      BY <3>1, <3>2, <3>3, <2>1, <2>2, <2>5, <2>7 DEF Heard
  <2>8. ASSUME ~early, ~crossed', dispute = "lost", returned = 0,
               [type |-> "closed", outcome |-> "lost"] \in acked'
        PROVE  row' = "dispute_lost"
    BY <2>1, <2>2, <2>5, <2>8, TransitionHears DEF Heard
  <2> HIDE DEF event
  <2> QED
    BY <2>3, <2>4, <2>5, <2>6, <2>7, <2>8 DEF Heard
<1>8. ASSUME NEW h \in Handlers, WriteFails(h) PROVE HeardInv'
  <2>1. EventsEmitted' /\ Heard'
    BY <1>8 DEF WriteFails, stripe, history, EventsEmitted, Heard
  <2>2. DecidedOnRead'
    BY <1>8, <1>0 DEF WriteFails, DecidedOnRead, Idle, TypeOK
  <2> QED
    BY <2>1, <2>2
<1>9. CASE UNCHANGED vars
  BY <1>9 DEF vars, stripe, history, EventsEmitted, DecidedOnRead, Heard, Idle
<1> HIDE DEF HeardInv
<1> QED
  BY <1>1, <1>2, <1>3, <1>4, <1>5, <1>6, <1>7, <1>8, <1>9 DEF Next

\* With all its events acknowledged, a row that heard them tells the truth.
LEMMA HeardIsTruth == IInv /\ HeardInv => StatusConverges
<1> USE PaymentStatusAssumption DEF IInv, HeardInv, TypeOK
<1> SUFFICES ASSUME IInv, HeardInv PROVE RefundsConverge /\ LostDisputeConverges
  BY DEF StatusConverges
<1>1. RefundsConverge
  <2> SUFFICES ASSUME acked = emitted, ~early, ~crossed, row # "none", dispute = "none"
               PROVE  row = RefundStatus
    BY DEF RefundsConverge, Quiet, Undisturbed
  <2>1. row \in {"succeeded", "partially_refunded", "refunded"}
    BY DEF Backed, Statuses
  <2>2. CASE returned = 0
    BY <2>1, <2>2 DEF Backed, EventsTrue, RefundStatus, Refunds
  <2>3. CASE returned # 0
    <3> DEFINE e == [type |-> "refunded", amount |-> returned]
    <3>1. e \in acked \cap Refunds /\ e.amount = returned
      BY <2>3 DEF EventsEmitted, Refunds
    <3>2. row # "succeeded" /\ (returned = Amount => row # "partially_refunded")
      BY <3>1 DEF Heard
    <3> QED
      BY <2>1, <2>3, <3>2 DEF Backed, RefundStatus
  <2> QED
    BY <2>2, <2>3
<1>2. LostDisputeConverges
  BY DEF LostDisputeConverges, Quiet, Undisturbed, Heard, EventsEmitted
<1> QED
  BY <1>1, <1>2

\* For any charge and however many deliveries are handled at once: a row that was
\* there for all of them ends as what Stripe holds, whatever their order and their
\* repetitions, unless a handler wrote over a status it had not read.
THEOREM StatusFollowsStripe == Spec => []StatusConverges
  BY InitIInv, NextIInv, InitHeardInv, NextHeardInv, HeardIsTruth, PTL DEF Spec
=============================================================================

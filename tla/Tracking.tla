------------------------------- MODULE Tracking -------------------------------
(***************************************************************************)
(* One order's tracking in the Tracking service: its creation, the status  *)
(* updates of the carrier webhook, the TestMode progression that advances  *)
(* it in the background, the soft delete that hides it, and a restart of   *)
(* the task in between.  A call is split where the code leaves the         *)
(* database: every read is a step of its own, and every transaction is one *)
(* step, for the row's lock orders it with the others.                     *)
(*                                                                         *)
(* announced holds the outbox messages in commit order; Outbox models what *)
(* becomes of them.  Trackings of other orders share no row with this one. *)
(***************************************************************************)
EXTENDS Naturals, Sequences, SequencesExt, FiniteSets

CONSTANTS Creators,   \* concurrent calls of POST init-tracking
          Carriers,   \* concurrent callers of PUT status
          TestMode    \* whether the created tracking runs the progression

ASSUME TrackingAssumption == TestMode \in BOOLEAN

VARIABLES row,        \* the tracking row: its status and whether it is live
          history,    \* the statuses with a history row
          announced,  \* the messages written to the outbox
          creator,    \* per creator: its step and what it was answered
          carrier,    \* per carrier: its step, the status read and requested
          run         \* the progression goroutine
vars == <<row, history, announced, creator, carrier, run>>

statusOrder == <<"PLACED", "PROCESSING", "SHIPPED", "OUT_FOR_DELIVERY",
                 "DELIVERED">>
Statuses == {statusOrder[i] : i \in 1..5}
InitialStatus == "PLACED"
TerminalStatus == "DELIVERED"
StatusIndex(s) == CHOOSE i \in 1..5 : statusOrder[i] = s
\* Mutant: the ordering guard is left out.
CanTransitionUnordered(current, requested) ==
  current # TerminalStatus /\ current # requested

CanTransition(current, requested) ==
  current # TerminalStatus /\ StatusIndex(current) < StatusIndex(requested)
\* Mutant: the last status but one is taken for the last.
HasNextShort(s) == StatusIndex(s) < 4

HasNext(s) == s # TerminalStatus
NextStatus(s) == statusOrder[StatusIndex(s) + 1]

NoRow == [status |-> "none", live |-> FALSE]
Missing == ~row.live

\* What a caller or the run remembers of a finished transition: nothing but
\* its outcome, and for the run the snapshot the next tick falls back on.
Answered(outcome) == [at |-> outcome, read |-> InitialStatus,
                      requested |-> InitialStatus]
Resting(at, status) == [at |-> at, snapshot |-> status,
                        read |-> InitialStatus, next |-> InitialStatus]

Init == /\ row = NoRow
        /\ history = {}
        /\ announced = <<>>
        /\ creator = [c \in Creators |-> "idle"]
        /\ carrier = [c \in Carriers |-> Answered("none")]
        /\ run = Resting("off", InitialStatus)

-----------------------------------------------------------------------------
(* Creation: a pre-check, then the insert the unique index adjudicates. *)

\* ExistsByOrderID sees live rows only.
Check(c) ==
  /\ creator[c] # "checked"
  /\ creator' = [creator EXCEPT ![c] = IF Missing THEN "checked" ELSE "conflict"]
  /\ UNCHANGED <<row, history, announced, carrier, run>>

\* The unique index on order_id holds the deleted row too.
OrderIdFree == row = NoRow

\* The progression starts once the response is written.
Create(c) ==
  /\ creator[c] = "checked"
  /\ OrderIdFree
  /\ row' = [status |-> InitialStatus, live |-> TRUE]
  /\ history' = {InitialStatus}
  /\ creator' = [creator EXCEPT ![c] = "created"]
  /\ run' = IF TestMode THEN [run EXCEPT !.at = "sleeping"] ELSE run
  /\ UNCHANGED <<announced, carrier>>

CreateRefused(c) ==
  /\ creator[c] = "checked"
  /\ creator' = [creator EXCEPT ![c] = IF OrderIdFree THEN "failed" ELSE "conflict"]
  /\ UNCHANGED <<row, history, announced, carrier, run>>

-----------------------------------------------------------------------------
(* ApplyTransition, the one write path of the carrier and the progression. *)

\* The update's WHERE: the live row, whatever its status is by now.
RowMatches == row.live

\* The primary key of tracking_history: one row per status.
HistoryKeyFree(status) == status \notin history

\* Mutant: an outbox write that fails (here, of the last status) is swallowed.
StoreSwallowed(message) ==
  IF message.status = TerminalStatus THEN announced ELSE Append(announced, message)

Store(message) == Append(announced, message)

\* One transaction: the guarded update, the history row and the outbox row.
ApplyTransition(from, to) ==
  /\ RowMatches
  /\ HistoryKeyFree(to)
  /\ row' = [row EXCEPT !.status = to]
  /\ history' = history \cup {to}
  /\ announced' = Store([status |-> to, previous |-> from])

Idle(c) == carrier[c].at # "applying"

\* PUT status arrives; Execute reads the row without a lock and checks it.
Read(c) ==
  /\ Idle(c)
  /\ \E requested \in Statuses :
       carrier' = [carrier EXCEPT ![c] =
         IF Missing THEN Answered("not_found")
         ELSE IF CanTransition(row.status, requested)
           THEN [at |-> "applying", read |-> row.status, requested |-> requested]
         ELSE Answered("rejected")]
  /\ UNCHANGED <<row, history, announced, creator, run>>

Update(c) ==
  /\ carrier[c].at = "applying"
  /\ ApplyTransition(carrier[c].read, carrier[c].requested)
  /\ carrier' = [carrier EXCEPT ![c] = Answered("updated")]
  /\ UNCHANGED <<creator, run>>

\* The tracking is gone, or MySQL reports no row because an identical update
\* of the same second left every column as it was.
UpdateMissed(c) ==
  /\ carrier[c].at = "applying"
  /\ Missing \/ row.status = carrier[c].requested
  /\ carrier' = [carrier EXCEPT ![c] = Answered("not_found")]
  /\ UNCHANGED <<row, history, announced, creator, run>>

\* The database fails, or the history row exists: the transaction rolls back.
UpdateFails(c) ==
  /\ carrier[c].at = "applying"
  /\ carrier' = [carrier EXCEPT ![c] = Answered("failed")]
  /\ UNCHANGED <<row, history, announced, creator, run>>

-----------------------------------------------------------------------------
(* The TestMode progression: advanceOnce per tick. *)

\* Mutant: a run that cannot go on tries again at the next tick.
RunToRetry(at) ==
  run' = Resting(IF at = "stopped" THEN "sleeping" ELSE at, InitialStatus)

RunTo(at) == run' = Resting(at, InitialStatus)

\* ContinueDeletedTestMode steps the snapshot and announces nothing: the
\* outbox is wired, so the inline publisher is nil.
AdvanceDeleted ==
  IF HasNext(run.snapshot)
    THEN run' = Resting("sleeping", NextStatus(run.snapshot))
    ELSE RunTo("succeeded")

\* The tick's own read: the next status is taken from it.
Tick ==
  /\ run.at = "sleeping"
  /\ IF Missing THEN AdvanceDeleted
     ELSE IF HasNext(row.status)
            THEN run' = [run EXCEPT !.at = "reading", !.snapshot = row.status,
                                    !.next = NextStatus(row.status)]
     ELSE RunTo("succeeded")
  /\ UNCHANGED <<row, history, announced, creator, carrier>>

\* Execute's read, and the guard; a rejection ends the run.
TickRead ==
  /\ run.at = "reading"
  /\ IF Missing THEN AdvanceDeleted
     ELSE IF CanTransition(row.status, run.next)
            THEN run' = [run EXCEPT !.at = "applying", !.read = row.status]
     ELSE RunTo("stopped")
  /\ UNCHANGED <<row, history, announced, creator, carrier>>

TickUpdate ==
  /\ run.at = "applying"
  /\ ApplyTransition(run.read, run.next)
  /\ run' = Resting("sleeping", run.next)
  /\ UNCHANGED <<creator, carrier>>

TickMissed ==
  /\ run.at = "applying"
  /\ Missing
  /\ AdvanceDeleted
  /\ UNCHANGED <<row, history, announced, creator, carrier>>

\* A failed read or transaction ends the run as well.
TickFails ==
  /\ run.at \in {"sleeping", "reading", "applying"}
  /\ RunTo("stopped")
  /\ UNCHANGED <<row, history, announced, creator, carrier>>

-----------------------------------------------------------------------------
\* The account deletion's or the teardown's sweep: history and row in one
\* transaction.
SoftDelete ==
  /\ row.live
  /\ row' = [row EXCEPT !.live = FALSE]
  /\ UNCHANGED <<history, announced, creator, carrier, run>>

\* The task restarts: calls in flight are cut off and the run is lost.
Restart ==
  /\ creator' = [c \in Creators |->
       IF creator[c] = "checked" THEN "failed" ELSE creator[c]]
  /\ carrier' = [c \in Carriers |->
       IF Idle(c) THEN carrier[c] ELSE Answered("failed")]
  /\ run' = IF run.at \in {"sleeping", "reading", "applying"}
              THEN Resting("stopped", InitialStatus) ELSE run
  /\ UNCHANGED <<row, history, announced>>

Create_(c) == Check(c) \/ Create(c) \/ CreateRefused(c)
CarrierStep(c) == Read(c) \/ Update(c) \/ UpdateMissed(c) \/ UpdateFails(c)
RunStep == Tick \/ TickRead \/ TickUpdate \/ TickMissed \/ TickFails

Next == \/ \E c \in Creators : Create_(c)
        \/ \E c \in Carriers : CarrierStep(c)
        \/ RunStep
        \/ SoftDelete
        \/ Restart

Spec == Init /\ [][Next]_vars
\* The ticker fires while the task lives, and a database call returns.
FairSpec == Spec /\ WF_vars(RunStep)

-----------------------------------------------------------------------------
(* What the tracking promises. *)

\* Type invariant: a status, a step or an answer of the ones the code has.
TypeOK ==
  /\ row \in {NoRow} \cup [status : Statuses, live : BOOLEAN]
  /\ history \subseteq Statuses
  /\ announced \in Seq([status : Statuses, previous : Statuses])
  /\ creator \in [Creators ->
       {"idle", "checked", "created", "conflict", "failed"}]
  /\ carrier \in [Carriers ->
       [at : {"none", "applying", "updated", "not_found", "rejected", "failed"},
        read : Statuses, requested : Statuses]]
  /\ run \in [at : {"off", "sleeping", "reading", "applying", "succeeded",
                    "stopped"},
              snapshot : Statuses, read : Statuses, next : Statuses]

\* Whatever fails or interleaves, the outbox holds a message for exactly the
\* statuses the history holds besides the first: a transition is recorded and
\* announced together or not at all (ApplyTransition's one transaction).
OutboxMatchesHistory ==
  {announced[i].status : i \in 1..Len(announced)} = history \ {InitialStatus}

\* Two racing updates never announce one status twice: (order, status) is the
\* natural key DeriveEventID makes the event id of.
EntersEachStatusOnce ==
  \A i, j \in 1..Len(announced) :
    announced[i].status = announced[j].status => i = j

\* Of the calls that create one order's tracking, racing or retried, at most
\* one is answered 201, also after the tracking was deleted (Create's unique
\* index behind the pre-check).
OneCreation ==
  \A c, d \in Creators :
    creator[c] = "created" /\ creator[d] = "created" => c = d

\* One tracking, whose history and announcements tell one story: every
\* transition recorded is announced, once (ApplyTransition, Create).
HistoryTold == OutboxMatchesHistory /\ EntersEachStatusOnce /\ OneCreation

\* An update that read the row before it was deleted writes nothing after:
\* the tombstone, its history and its announcements are final.
DeletedIsFrozen ==
  [][row # NoRow /\ ~row.live => UNCHANGED <<row, history, announced>>]_vars

\* A run that ends as succeeded ended at DELIVERED, unless a delete cut the
\* tracking short, whoever else moved it meanwhile (advanceOnce).
SuccessMeansDelivered ==
  run.at = "succeeded" => TerminalStatus \in history \/ Missing

\* A step that writes with a status read that is no longer the row's.
UpdatedOnStaleRead(c) == /\ carrier[c].at = "applying"
                         /\ carrier'[c].at = "updated"
                         /\ carrier[c].read # row.status
TickedOnStaleRead == /\ run.at = "applying"
                     /\ run' = Resting("sleeping", run.next)
                     /\ run.read # row.status

\* The status only moves forward, and DELIVERED is never left
\* (domain/status.go).
ForwardOnly ==
  [][row # NoRow /\ row'.status # row.status
       => StatusIndex(row.status) < StatusIndex(row'.status)]_vars

\* Only a caller whose read another one has overtaken moves the status anywhere
\* but forward: while every writer holds the current status, nothing goes back
\* and DELIVERED is never left (CheckTransition before the unguarded UPDATE).
BackwardOnlyOnStaleRead ==
  [][row # NoRow /\ row'.status # row.status
       => \/ StatusIndex(row.status) < StatusIndex(row'.status)
          \/ \E c \in Carriers : UpdatedOnStaleRead(c)
          \/ TickedOnStaleRead]_vars

\* Where the status of a tracking may go: nowhere once it is deleted, and back
\* only on a stale read (UpdateTrackingStatus's WHERE, CheckTransition).
StatusMoves == DeletedIsFrozen /\ BackwardOnlyOnStaleRead

\* Every run ends (Run: "every ending is explicit").
RunEnds == (run.at = "sleeping") ~> (run.at \in {"succeeded", "stopped"})
=============================================================================

---------------------------- MODULE TrackingProofs ----------------------------
(***************************************************************************)
(* What holds of a tracking for any number of creators and carriers, and,  *)
(* after it, of the outbox its events leave by.  The tracking's            *)
(* inductive invariant adds to the outbox's agreement with the history     *)
(* where that history begins: empty before the row exists, and with PLACED *)
(* in it from then on, so that no transition can announce PLACED.          *)
(***************************************************************************)
EXTENDS Tracking, Outbox, TLAPS

\* The history begins with the row, at PLACED.
HistoryBegins == /\ row = NoRow => history = {}
                 /\ row # NoRow => InitialStatus \in history

IInv == TypeOK /\ HistoryBegins /\ OutboxMatchesHistory /\ EntersEachStatusOnce

\* The five statuses, spelled out for the provers.
LEMMA FiveStatuses ==
  Statuses = {"PLACED", "PROCESSING", "SHIPPED", "OUT_FOR_DELIVERY", "DELIVERED"}
<1>1. 1..5 = {1, 2, 3, 4, 5}
  OBVIOUS
<1> QED
  BY <1>1 DEF Statuses, statusOrder

\* A status that has a successor has one of the five for it.
LEMMA NextIsStatus ==
  ASSUME NEW s \in Statuses, HasNext(s)
  PROVE  NextStatus(s) \in Statuses
<1>1. PICK i \in 1..5 : statusOrder[i] = s
  BY DEF Statuses
<1>2. StatusIndex(s) \in 1..5 /\ statusOrder[StatusIndex(s)] = s
  BY <1>1 DEF StatusIndex
<1>3. StatusIndex(s) # 5
  BY <1>2 DEF HasNext, TerminalStatus, statusOrder
<1>4. StatusIndex(s) + 1 \in 1..5
  BY <1>2, <1>3
<1> QED
  BY <1>4 DEF NextStatus, Statuses

\* Initially nothing is recorded and nothing is announced.
LEMMA InitIInv == Init => IInv
<1> SUFFICES ASSUME Init PROVE IInv
  OBVIOUS
<1> USE DEF Init
<1>1. TypeOK
  <2>1. carrier \in [Carriers ->
          [at : {"none", "applying", "updated", "not_found", "rejected", "failed"},
           read : Statuses, requested : Statuses]]
    BY FiveStatuses DEF Answered, InitialStatus
  <2>2. run \in [at : {"off", "sleeping", "reading", "applying", "succeeded",
                       "stopped"},
                 snapshot : Statuses, read : Statuses, next : Statuses]
    BY FiveStatuses DEF Resting, InitialStatus
  <2>3. announced \in Seq([status : Statuses, previous : Statuses])
    OBVIOUS
  <2> QED
    BY <2>1, <2>2, <2>3 DEF TypeOK, NoRow
<1>2. HistoryBegins
  BY DEF HistoryBegins
<1>3. OutboxMatchesHistory /\ EntersEachStatusOnce
  BY DEF OutboxMatchesHistory, EntersEachStatusOnce
<1> QED
  BY <1>1, <1>2, <1>3 DEF IInv

\* The transaction of a transition keeps what the invariant says of the rows,
\* whoever asks for it and whatever was read before.
LEMMA TransitionKeeps ==
  ASSUME IInv, NEW from \in Statuses, NEW to \in Statuses, ApplyTransition(from, to)
  PROVE  /\ row' \in {NoRow} \cup [status : Statuses, live : BOOLEAN]
         /\ history' \subseteq Statuses
         /\ announced' \in Seq([status : Statuses, previous : Statuses])
         /\ HistoryBegins'
         /\ OutboxMatchesHistory'
         /\ EntersEachStatusOnce'
<1> DEFINE message == [status |-> to, previous |-> from]
<1>1. /\ row.live /\ to \notin history
      /\ row' = [row EXCEPT !.status = to]
      /\ history' = history \cup {to}
      /\ announced' = Append(announced, message)
  BY DEF ApplyTransition, RowMatches, HistoryKeyFree, Store
<1>2. announced \in Seq([status : Statuses, previous : Statuses])
      /\ row \in {NoRow} \cup [status : Statuses, live : BOOLEAN]
      /\ history \subseteq Statuses
  BY DEF IInv, TypeOK
<1>3. /\ row # NoRow /\ row' # NoRow
      /\ row' \in [status : Statuses, live : BOOLEAN]
  BY <1>1, <1>2 DEF NoRow
<1>4. InitialStatus \in history /\ to # InitialStatus
  BY <1>1, <1>3 DEF IInv, HistoryBegins
<1>5. HistoryBegins'
  BY <1>1, <1>3, <1>4 DEF HistoryBegins, InitialStatus
<1>6. /\ announced' \in Seq([status : Statuses, previous : Statuses])
      /\ Len(announced') = Len(announced) + 1
      /\ announced'[Len(announced) + 1] = message
      /\ \A i \in 1..Len(announced) : announced'[i] = announced[i]
  <2>1. message \in [status : Statuses, previous : Statuses]
    OBVIOUS
  <2> QED
    BY ONLY <2>1, <1>1, <1>2
<1>7. {announced[i].status : i \in 1..Len(announced)} = history \ {InitialStatus}
  BY DEF IInv, OutboxMatchesHistory
<1>8. {announced'[i].status : i \in 1..Len(announced')}
        = {announced[i].status : i \in 1..Len(announced)} \cup {to}
  <2>1. Len(announced) \in Nat /\ message.status = to
    BY <1>2
  <2> QED
    BY <2>1, <1>6
<1>9. OutboxMatchesHistory'
  BY <1>1, <1>4, <1>7, <1>8 DEF OutboxMatchesHistory, InitialStatus
<1>10. EntersEachStatusOnce'
  <2>1. \A i \in 1..Len(announced) : announced[i].status # to
    BY <1>1, <1>7
  <2>2. \A i, j \in 1..Len(announced) :
          announced[i].status = announced[j].status => i = j
    BY DEF IInv, EntersEachStatusOnce
  <2>3. Len(announced) \in Nat /\ message.status = to
    BY <1>2
  <2> QED
    BY <2>1, <2>2, <2>3, <1>6 DEF EntersEachStatusOnce
<1> QED
  BY <1>1, <1>2, <1>3, <1>5, <1>6, <1>9, <1>10

\* Every step keeps the invariant.
LEMMA NextIInv == IInv /\ [Next]_vars => IInv'
<1> SUFFICES ASSUME IInv, [Next]_vars PROVE IInv'
  OBVIOUS
<1> DEFINE Steps == {"none", "applying", "updated", "not_found", "rejected", "failed"}
           Rows == <<row, history, announced>>
<1>0. InitialStatus \in Statuses /\ TypeOK
  BY FiveStatuses DEF InitialStatus, IInv
\* A step that leaves the rows alone need only keep the types of the rest.
<1>a. ASSUME UNCHANGED Rows,
             creator' \in [Creators ->
               {"idle", "checked", "created", "conflict", "failed"}],
             carrier' \in [Carriers ->
               [at : Steps, read : Statuses, requested : Statuses]],
             run' \in [at : {"off", "sleeping", "reading", "applying",
                             "succeeded", "stopped"},
                       snapshot : Statuses, read : Statuses, next : Statuses]
      PROVE  IInv'
  BY <1>a, <1>0 DEF IInv, TypeOK, HistoryBegins, OutboxMatchesHistory,
                    EntersEachStatusOnce
<1>b. \A at \in {"none", "updated", "not_found", "rejected", "failed"} :
        Answered(at) \in [at : Steps, read : Statuses, requested : Statuses]
  BY <1>0 DEF Answered
<1>c. \A at \in {"off", "sleeping", "succeeded", "stopped"}, s \in Statuses :
        Resting(at, s) \in
          [at : {"off", "sleeping", "reading", "applying", "succeeded", "stopped"},
           snapshot : Statuses, read : Statuses, next : Statuses]
  BY <1>0 DEF Resting
<1>1. ASSUME NEW c \in Creators, Check(c) \/ CreateRefused(c) PROVE IInv'
  BY <1>1, <1>0, <1>a DEF Check, CreateRefused, TypeOK
<1>2. ASSUME NEW c \in Creators, Create(c) PROVE IInv'
  <2>1. row = NoRow /\ history = {}
    BY <1>2 DEF Create, OrderIdFree, IInv, HistoryBegins
  <2>2. run' \in [at : {"off", "sleeping", "reading", "applying", "succeeded",
                        "stopped"},
                  snapshot : Statuses, read : Statuses, next : Statuses]
    BY <1>2, <1>0 DEF Create, TypeOK
  <2>3. TypeOK'
    BY <1>2, <1>0, <2>2 DEF Create, TypeOK
  <2>4. HistoryBegins'
    BY <1>2 DEF Create, HistoryBegins, NoRow, InitialStatus
  <2>5. OutboxMatchesHistory'
    BY <1>2, <2>1 DEF Create, IInv, OutboxMatchesHistory, InitialStatus
  <2>6. EntersEachStatusOnce'
    BY <1>2 DEF Create, IInv, EntersEachStatusOnce
  <2> QED
    BY <2>3, <2>4, <2>5, <2>6 DEF IInv
<1>3. ASSUME NEW c \in Carriers, Read(c) PROVE IInv'
  <2>1. PICK requested \in Statuses :
          carrier' = [carrier EXCEPT ![c] =
            IF Missing THEN Answered("not_found")
            ELSE IF CanTransition(row.status, requested)
              THEN [at |-> "applying", read |-> row.status, requested |-> requested]
            ELSE Answered("rejected")]
    BY <1>3 DEF Read
  <2>2. ~Missing => row.status \in Statuses
    BY <1>0 DEF TypeOK, Missing, NoRow
  <2>3. carrier' \in [Carriers ->
          [at : Steps, read : Statuses, requested : Statuses]]
    BY <1>0, <1>b, <2>1, <2>2 DEF TypeOK
  <2> QED
    BY <1>3, <1>0, <1>a, <2>3 DEF Read, TypeOK
<1>4. ASSUME NEW c \in Carriers, Update(c) PROVE IInv'
  <2>1. carrier[c].read \in Statuses /\ carrier[c].requested \in Statuses
    BY <1>0 DEF TypeOK
  <2>2. carrier' \in [Carriers ->
          [at : Steps, read : Statuses, requested : Statuses]]
    BY <1>4, <1>0, <1>b DEF Update, TypeOK
  <2>3. ApplyTransition(carrier[c].read, carrier[c].requested)
    BY <1>4 DEF Update
  <2>4. UNCHANGED <<creator, run>>
    BY <1>4 DEF Update
  <2> QED
    BY <2>1, <2>2, <2>3, <2>4, <1>0, TransitionKeeps DEF IInv, TypeOK
<1>5. ASSUME NEW c \in Carriers, UpdateMissed(c) \/ UpdateFails(c) PROVE IInv'
  <2>1. carrier' \in [Carriers ->
          [at : Steps, read : Statuses, requested : Statuses]]
    BY <1>5, <1>0, <1>b DEF UpdateMissed, UpdateFails, TypeOK
  <2> QED
    BY <1>5, <2>1, <1>0, <1>a DEF UpdateMissed, UpdateFails, TypeOK
<1>6. ASSUME AdvanceDeleted
      PROVE  run' \in [at : {"off", "sleeping", "reading", "applying",
                             "succeeded", "stopped"},
                       snapshot : Statuses, read : Statuses, next : Statuses]
  <2>1. run.snapshot \in Statuses
    BY <1>0 DEF TypeOK
  <2> QED
    BY <1>6, <2>1, <1>0, <1>c, NextIsStatus DEF AdvanceDeleted, RunTo
<1>7. ~Missing => row.status \in Statuses
  BY <1>0 DEF TypeOK, Missing, NoRow
<1>8. ASSUME Tick \/ TickRead \/ TickMissed \/ TickFails PROVE IInv'
  <2>1. UNCHANGED <<row, history, announced, creator, carrier>>
    BY <1>8 DEF Tick, TickRead, TickMissed, TickFails
  <2>2. run' \in [at : {"off", "sleeping", "reading", "applying", "succeeded",
                        "stopped"},
                  snapshot : Statuses, read : Statuses, next : Statuses]
    <3>1. CASE Tick
      <4>1. CASE ~Missing /\ HasNext(row.status)
        <5>1. /\ row.status \in Statuses
              /\ NextStatus(row.status) \in Statuses
          BY <4>1, <1>7, NextIsStatus
        <5>2. run' = [run EXCEPT !.at = "reading", !.snapshot = row.status,
                                 !.next = NextStatus(row.status)]
          BY <3>1, <4>1 DEF Tick
        <5> QED
          BY <5>1, <5>2, <1>0 DEF TypeOK
      <4>2. CASE Missing \/ ~HasNext(row.status)
        BY <3>1, <4>2, <1>0, <1>c, <1>6 DEF Tick, RunTo
      <4> QED
        BY <4>1, <4>2
    <3>2. CASE TickRead
      <4>1. CASE ~Missing /\ CanTransition(row.status, run.next)
        <5>1. run' = [run EXCEPT !.at = "applying", !.read = row.status]
          BY <3>2, <4>1 DEF TickRead
        <5> QED
          BY <4>1, <5>1, <1>0, <1>7 DEF TypeOK
      <4>2. CASE Missing \/ ~CanTransition(row.status, run.next)
        BY <3>2, <4>2, <1>0, <1>c, <1>6 DEF TickRead, RunTo
      <4> QED
        BY <4>1, <4>2
    <3>3. CASE TickMissed
      BY <3>3, <1>6 DEF TickMissed
    <3>4. CASE TickFails
      BY <3>4, <1>0, <1>c DEF TickFails, RunTo
    <3> QED
      BY <1>8, <3>1, <3>2, <3>3, <3>4
  <2> QED
    BY <2>1, <2>2, <1>0, <1>a DEF TypeOK
<1>9. ASSUME TickUpdate PROVE IInv'
  <2>1. run.read \in Statuses /\ run.next \in Statuses
    BY <1>0 DEF TypeOK
  <2>2. run' \in [at : {"off", "sleeping", "reading", "applying", "succeeded",
                        "stopped"},
                  snapshot : Statuses, read : Statuses, next : Statuses]
    BY <1>9, <2>1, <1>c DEF TickUpdate
  <2>3. ApplyTransition(run.read, run.next) /\ UNCHANGED <<creator, carrier>>
    BY <1>9 DEF TickUpdate
  <2> QED
    BY <2>1, <2>2, <2>3, <1>0, TransitionKeeps DEF IInv, TypeOK
<1>10. ASSUME SoftDelete PROVE IInv'
  <2>1. row \in [status : Statuses, live : BOOLEAN]
    BY <1>10, <1>0 DEF SoftDelete, TypeOK, NoRow
  <2>2. row' \in [status : Statuses, live : BOOLEAN]
    BY <1>10, <2>1 DEF SoftDelete
  <2>3. "none" \notin Statuses
    BY FiveStatuses
  <2>4. row # NoRow /\ row' # NoRow
    BY <2>1, <2>2, <2>3 DEF NoRow
  <2>5. UNCHANGED <<history, announced, creator, carrier, run>>
    BY <1>10 DEF SoftDelete
  <2> QED
    BY <2>2, <2>4, <2>5, <1>0 DEF IInv, TypeOK, HistoryBegins, OutboxMatchesHistory,
                            EntersEachStatusOnce
<1>11. ASSUME Restart PROVE IInv'
  <2>1. UNCHANGED Rows
    BY <1>11 DEF Restart
  <2>2. creator' \in [Creators ->
          {"idle", "checked", "created", "conflict", "failed"}]
    BY <1>11, <1>0 DEF Restart, TypeOK
  <2>3. carrier' \in [Carriers ->
          [at : Steps, read : Statuses, requested : Statuses]]
    BY <1>11, <1>0, <1>b DEF Restart, TypeOK
  <2>4. run' \in [at : {"off", "sleeping", "reading", "applying", "succeeded",
                        "stopped"},
                  snapshot : Statuses, read : Statuses, next : Statuses]
    BY <1>11, <1>0, <1>c DEF Restart, TypeOK
  <2> QED
    BY <2>1, <2>2, <2>3, <2>4, <1>a
<1>12. ASSUME UNCHANGED vars PROVE IInv'
  BY <1>12, <1>0, <1>a DEF vars, TypeOK
<1> QED
  BY <1>1, <1>2, <1>3, <1>4, <1>5, <1>8, <1>9, <1>10, <1>11, <1>12
     DEF Next, Create_, CarrierStep, RunStep

\* For any number of creators, carriers and ticks, every variable keeps its type.
THEOREM TypeCorrect == Spec => []TypeOK
<1>1. IInv => TypeOK
  BY DEF IInv
<1> QED
  BY <1>1, InitIInv, NextIInv, PTL DEF Spec

\* The history and the outbox never disagree, whoever interleaves or fails.
THEOREM OutboxIsAtomic == Spec => []OutboxMatchesHistory
<1>1. IInv => OutboxMatchesHistory
  BY DEF IInv
<1> QED
  BY <1>1, InitIInv, NextIInv, PTL DEF Spec

\* No status is announced twice, however many callers race.
THEOREM EventIdIsAKey == Spec => []EntersEachStatusOnce
<1>1. IInv => EntersEachStatusOnce
  BY DEF IInv
<1> QED
  BY <1>1, InitIInv, NextIInv, PTL DEF Spec

\* A deleted tracking never changes again, late updates included.
THEOREM TombstoneIsFinal == Spec => DeletedIsFrozen
<1>1. TypeOK /\ [Next]_vars
        => [row # NoRow /\ ~row.live => UNCHANGED <<row, history, announced>>]_vars
  <2> SUFFICES ASSUME [Next]_vars, row # NoRow, ~row.live
               PROVE  UNCHANGED <<row, history, announced>>
    OBVIOUS
  <2>1. ASSUME NEW from, NEW to PROVE ~ApplyTransition(from, to)
    BY DEF ApplyTransition, RowMatches
  <2>2. ASSUME NEW c \in Creators, Create_(c)
        PROVE  UNCHANGED <<row, history, announced>>
    BY <2>2 DEF Create_, Check, Create, CreateRefused, OrderIdFree
  <2>3. ASSUME NEW c \in Carriers, CarrierStep(c)
        PROVE  UNCHANGED <<row, history, announced>>
    BY <2>1, <2>3 DEF CarrierStep, Read, Update, UpdateMissed, UpdateFails
  <2>4. ASSUME RunStep PROVE UNCHANGED <<row, history, announced>>
    BY <2>1, <2>4 DEF RunStep, Tick, TickRead, TickUpdate, TickMissed, TickFails
  <2>5. ~SoftDelete
    BY DEF SoftDelete
  <2>6. Restart => UNCHANGED <<row, history, announced>>
    BY DEF Restart
  <2> QED
    BY <2>2, <2>3, <2>4, <2>5, <2>6 DEF Next, vars
<1>2. IInv => TypeOK
  BY DEF IInv
<1> QED
  BY <1>1, <1>2, InitIInv, NextIInv, PTL DEF Spec, DeletedIsFrozen

\* Whoever is about to write has checked its transition against what it read.
ChecksHold ==
  /\ \A c \in Carriers : carrier[c].at = "applying"
       => CanTransition(carrier[c].read, carrier[c].requested)
  /\ run.at = "applying" => CanTransition(run.read, run.next)

\* Initially nobody is writing, and every step keeps the check with its read.
LEMMA InitChecksHold == Init => ChecksHold
  BY DEF Init, ChecksHold, Answered, Resting

LEMMA NextChecksHold == TypeOK /\ ChecksHold /\ [Next]_vars => ChecksHold'
<1> SUFFICES ASSUME TypeOK, ChecksHold, [Next]_vars PROVE ChecksHold'
  OBVIOUS
<1> DEFINE RunChecked == run.at = "applying" => CanTransition(run.read, run.next)
           CarriersChecked ==
             \A c \in Carriers : carrier[c].at = "applying"
               => CanTransition(carrier[c].read, carrier[c].requested)
<1>0. /\ RunChecked /\ CarriersChecked
      /\ carrier \in [Carriers -> [at : {"none", "applying", "updated",
             "not_found", "rejected", "failed"}, read : Statuses,
             requested : Statuses]]
      /\ run \in [at : {"off", "sleeping", "reading", "applying", "succeeded",
             "stopped"}, snapshot : Statuses, read : Statuses, next : Statuses]
  BY DEF ChecksHold, TypeOK
<1>1. ASSUME RunChecked', CarriersChecked' PROVE ChecksHold'
  BY <1>1 DEF ChecksHold
<1> HIDE DEF RunChecked, CarriersChecked
<1>2. /\ UNCHANGED run => RunChecked'
      /\ UNCHANGED carrier => CarriersChecked'
      /\ run'.at # "applying" => RunChecked'
  BY <1>0 DEF RunChecked, CarriersChecked
<1>3. ASSUME NEW c \in Creators, Create_(c) PROVE ChecksHold'
  <2>1. UNCHANGED carrier
    BY <1>3 DEF Create_, Check, Create, CreateRefused
  <2>2. UNCHANGED run \/ run'.at # "applying"
    BY <1>3, <1>0 DEF Create_, Check, Create, CreateRefused
  <2> QED
    BY <2>1, <2>2, <1>1, <1>2
<1>4. ASSUME NEW c \in Carriers, CarrierStep(c) PROVE ChecksHold'
  <2>1. UNCHANGED run
    BY <1>4 DEF CarrierStep, Read, Update, UpdateMissed, UpdateFails
  <2>2. /\ \A d \in Carriers \ {c} : carrier'[d] = carrier[d]
        /\ carrier'[c].at = "applying"
             => CanTransition(carrier'[c].read, carrier'[c].requested)
    BY <1>4, <1>0 DEF CarrierStep, Read, Update, UpdateMissed, UpdateFails, Answered
  <2>3. CarriersChecked'
    BY <2>2, <1>0 DEF CarriersChecked
  <2> QED
    BY <2>1, <2>3, <1>1, <1>2
<1>5. ASSUME RunStep PROVE ChecksHold'
  <2>1. UNCHANGED carrier
    BY <1>5 DEF RunStep, Tick, TickRead, TickUpdate, TickMissed, TickFails
  <2>2. AdvanceDeleted => run'.at # "applying"
    BY DEF AdvanceDeleted, RunTo, Resting
  <2>3. (Tick \/ TickUpdate \/ TickMissed \/ TickFails) => run'.at # "applying"
    <3>1. ASSUME Tick PROVE run'.at # "applying"
      <4>1. CASE ~Missing /\ HasNext(row.status)
        <5>1. run' = [run EXCEPT !.at = "reading", !.snapshot = row.status,
                                 !.next = NextStatus(row.status)]
          BY <3>1, <4>1 DEF Tick
        <5>2. run \in [at : {"off", "sleeping", "reading", "applying",
                             "succeeded", "stopped"},
                       snapshot : Statuses, read : Statuses, next : Statuses]
          BY <1>0
        <5> QED
          BY ONLY <5>1, <5>2
      <4>2. CASE Missing \/ ~HasNext(row.status)
        BY <3>1, <4>2, <2>2 DEF Tick, RunTo, Resting
      <4> QED
        BY <4>1, <4>2
    <3>2. (TickUpdate \/ TickMissed \/ TickFails) => run'.at # "applying"
      BY <2>2 DEF TickUpdate, TickMissed, TickFails, RunTo, Resting
    <3> QED
      BY <3>1, <3>2
  <2>4. ASSUME TickRead PROVE RunChecked'
    <3>1. CASE ~Missing /\ CanTransition(row.status, run.next)
      BY <3>1, <2>4, <1>0 DEF TickRead, RunChecked
    <3>2. CASE Missing \/ ~CanTransition(row.status, run.next)
      BY <3>2, <2>4, <2>2, <1>2 DEF TickRead, RunTo, Resting
    <3> QED
      BY <3>1, <3>2
  <2> QED
    BY <1>5, <2>1, <2>3, <2>4, <1>1, <1>2 DEF RunStep
<1>6. ASSUME SoftDelete \/ UNCHANGED vars PROVE ChecksHold'
  BY <1>6, <1>1, <1>2 DEF SoftDelete, vars
<1>7. ASSUME Restart PROVE ChecksHold'
  <2>1. CarriersChecked'
    BY <1>7, <1>0 DEF Restart, Idle, Answered, CarriersChecked
  <2>2. run'.at # "applying"
    BY <1>7, <1>0 DEF Restart, Resting
  <2> QED
    BY <2>1, <2>2, <1>1, <1>2
<1> QED
  BY <1>3, <1>4, <1>5, <1>6, <1>7 DEF Next

\* However many callers race, only one whose read is stale moves the status
\* anywhere but forward.
THEOREM OnlyStaleReadsGoBack == Spec => BackwardOnlyOnStaleRead
<1>1. TypeOK /\ ChecksHold /\ [Next]_vars
        => [row # NoRow /\ row'.status # row.status
              => \/ StatusIndex(row.status) < StatusIndex(row'.status)
                 \/ \E c \in Carriers : UpdatedOnStaleRead(c)
                 \/ TickedOnStaleRead]_vars
  <2> SUFFICES ASSUME TypeOK, ChecksHold, [Next]_vars, row # NoRow,
                      row'.status # row.status
               PROVE  \/ StatusIndex(row.status) < StatusIndex(row'.status)
                      \/ \E c \in Carriers : UpdatedOnStaleRead(c)
                      \/ TickedOnStaleRead
    OBVIOUS
  <2>0. row \in [status : Statuses, live : BOOLEAN]
    BY DEF TypeOK
  <2>1. (\E c \in Carriers : Update(c)) \/ TickUpdate
    <3>1. ~(\E c \in Creators : Create_(c))
      BY DEF Create_, Check, Create, CreateRefused, OrderIdFree
    <3>2. \A c \in Carriers : ~(Read(c) \/ UpdateMissed(c) \/ UpdateFails(c))
      BY DEF Read, UpdateMissed, UpdateFails
    <3>3. ~(Tick \/ TickRead \/ TickMissed \/ TickFails \/ Restart)
      BY DEF Tick, TickRead, TickMissed, TickFails, Restart
    <3>4. ~SoftDelete /\ ~UNCHANGED vars
      BY <2>0 DEF SoftDelete, vars
    <3> QED
      BY <3>1, <3>2, <3>3, <3>4 DEF Next, CarrierStep, RunStep
  <2>2. ASSUME NEW c \in Carriers, Update(c), carrier[c].read = row.status
        PROVE  StatusIndex(row.status) < StatusIndex(row'.status)
    <3>1. row'.status = carrier[c].requested
      BY <2>0, <2>2 DEF Update, ApplyTransition
    <3>2. CanTransition(carrier[c].read, carrier[c].requested)
      BY <2>2 DEF Update, ChecksHold
    <3> QED
      BY <2>2, <3>1, <3>2 DEF CanTransition
  <2>3. ASSUME NEW c \in Carriers, Update(c), carrier[c].read # row.status
        PROVE  UpdatedOnStaleRead(c)
    <3>1. carrier'[c].at = "updated"
      BY <2>3 DEF Update, Answered, TypeOK
    <3> QED
      BY <2>3, <3>1 DEF Update, UpdatedOnStaleRead
  <2>4. ASSUME TickUpdate, run.read = row.status
        PROVE  StatusIndex(row.status) < StatusIndex(row'.status)
    <3>1. row'.status = run.next
      BY <2>0, <2>4 DEF TickUpdate, ApplyTransition
    <3>2. CanTransition(run.read, run.next)
      BY <2>4 DEF TickUpdate, ChecksHold
    <3> QED
      BY <2>4, <3>1, <3>2 DEF CanTransition
  <2>5. ASSUME TickUpdate, run.read # row.status PROVE TickedOnStaleRead
    BY <2>5 DEF TickUpdate, TickedOnStaleRead
  <2> QED
    BY <2>1, <2>2, <2>3, <2>4, <2>5
<1>2. IInv => TypeOK
  BY DEF IInv
<1> QED
  BY <1>1, <1>2, InitIInv, NextIInv, InitChecksHold, NextChecksHold, PTL
     DEF Spec, BackwardOnlyOnStaleRead

\* However many calls create an order's tracking, one of them is answered 201,
\* also when the tracking was deleted in between.
THEOREM OneAnswer201 == Spec => []OneCreation
<1> DEFINE Rowed == \A c \in Creators : creator[c] = "created" => row # NoRow
<1>1. Init => Rowed /\ OneCreation
  BY DEF Init, OneCreation
<1>2. TypeOK /\ Rowed /\ OneCreation /\ [Next]_vars => Rowed' /\ OneCreation'
  <2> SUFFICES ASSUME TypeOK, Rowed, OneCreation, [Next]_vars
               PROVE  Rowed' /\ OneCreation'
    OBVIOUS
  <2>1. CASE \E c \in Creators : Create(c)
    <3>1. PICK c \in Creators : Create(c)
      BY <2>1
    <3>2. row = NoRow /\ row' # NoRow
      BY <3>1 DEF Create, OrderIdFree, NoRow
    <3>3. \A d \in Creators \ {c} : creator'[d] = creator[d] /\ creator[d] # "created"
      BY <3>1, <3>2 DEF Create, TypeOK
    <3> QED
      BY <3>2, <3>3 DEF OneCreation
  <2>2. CASE ~\E c \in Creators : Create(c)
    <3>1. CASE \E c \in Creators : Check(c) \/ CreateRefused(c)
      <4>1. row' = row
        BY <3>1 DEF Check, CreateRefused
      <4>2. \A c \in Creators : creator'[c] = "created" => creator[c] = "created"
        BY <3>1 DEF Check, CreateRefused, TypeOK
      <4> QED
        BY <4>1, <4>2 DEF OneCreation
    <3>2. CASE Restart
      <4>1. row' = row
        BY <3>2 DEF Restart
      <4>2. \A c \in Creators : creator'[c] = "created" => creator[c] = "created"
        BY <3>2 DEF Restart
      <4> QED
        BY <4>1, <4>2 DEF OneCreation
    <3>3. CASE SoftDelete
      <4>1. row' # NoRow
        BY <3>3, FiveStatuses DEF SoftDelete, TypeOK, NoRow
      <4> QED
        BY <3>3, <4>1 DEF SoftDelete, OneCreation
    <3>4. CASE (\E c \in Carriers : CarrierStep(c)) \/ RunStep \/ UNCHANGED vars
      <4>1. ASSUME NEW from, NEW to, ApplyTransition(from, to) PROVE row'.live
        BY <4>1 DEF ApplyTransition, RowMatches, TypeOK, NoRow
      <4>2. row' = row \/ row'.live
        BY <3>4, <4>1 DEF CarrierStep, Read, Update, UpdateMissed, UpdateFails,
           RunStep, Tick, TickRead, TickUpdate, TickMissed, TickFails, vars
      <4>3. creator' = creator
        BY <3>4 DEF CarrierStep, Read, Update, UpdateMissed, UpdateFails,
           RunStep, Tick, TickRead, TickUpdate, TickMissed, TickFails, vars
      <4>4. row # NoRow => row' # NoRow
        BY <4>2 DEF NoRow
      <4> QED
        BY <4>3, <4>4 DEF OneCreation
    <3> QED
      BY <2>2, <3>1, <3>2, <3>3, <3>4 DEF Next, Create_
  <2> QED
    BY <2>1, <2>2
<1>3. IInv => TypeOK
  BY DEF IInv
<1> QED
  BY <1>1, <1>2, <1>3, InitIInv, NextIInv, PTL DEF Spec

\* One tracking, one story.
THEOREM HistoryIsTold == Spec => []HistoryTold
<1>1. OutboxMatchesHistory /\ EntersEachStatusOnce /\ OneCreation => HistoryTold
  BY DEF HistoryTold
<1> QED
  BY <1>1, OutboxIsAtomic, EventIdIsAKey, OneAnswer201, PTL

\* No status changes but as the code means it to, stale reads aside.
THEOREM StatusMovesAsMeant == Spec => StatusMoves
  BY TombstoneIsFinal, OnlyStaleReadsGoBack DEF StatusMoves

\* A live row's status has its history row, and no run begins before the row
\* does: what a run that meets the end may rely on.
EndsAreRecorded == /\ row.live => row.status \in history
                   /\ row = NoRow => run.at = "off"
                   /\ SuccessMeansDelivered

\* A step that neither ends a run nor creates the row, forgets no history, moves
\* a live row to a recorded status only and raises no dead one, keeps that.
LEMMA NoEndKeeps ==
  ASSUME EndsAreRecorded, history \subseteq history', row # NoRow \/ row' = row,
         row'.live => row.live /\ row'.status \in history',
         row' = NoRow => row = NoRow,
         run'.at = "succeeded" => run.at = "succeeded",
         row = NoRow => run' = run
  PROVE  EndsAreRecorded'
  BY DEF EndsAreRecorded, SuccessMeansDelivered, Missing

\* Initially there is no row and no run, and every step keeps the ends recorded.
LEMMA InitEnds == Init => EndsAreRecorded
  BY DEF Init, EndsAreRecorded, SuccessMeansDelivered, NoRow, Resting

LEMMA NextEnds == TypeOK /\ EndsAreRecorded /\ [Next]_vars => EndsAreRecorded'
<1> SUFFICES ASSUME TypeOK, EndsAreRecorded, [Next]_vars PROVE EndsAreRecorded'
  OBVIOUS
<1>0. /\ row.live => row \in [status : Statuses, live : BOOLEAN]
      /\ row \in {NoRow} \cup [status : Statuses, live : BOOLEAN]
      /\ "none" \notin Statuses
  BY FiveStatuses DEF TypeOK, NoRow
<1>1. row.live => row # NoRow /\ row.status \in history
  BY DEF EndsAreRecorded, NoRow
<1>2. ASSUME NEW from, NEW to, ApplyTransition(from, to),
             run'.at = "succeeded" => run.at = "succeeded"
      PROVE  EndsAreRecorded'
  <2>1. /\ row.live /\ row \in [status : Statuses, live : BOOLEAN]
        /\ row' = [row EXCEPT !.status = to] /\ history' = history \cup {to}
    BY <1>2, <1>0 DEF ApplyTransition, RowMatches
  <2>2. row # NoRow /\ row' # NoRow /\ row'.live /\ row'.status = to
    BY <2>1, <1>1 DEF NoRow
  <2> QED
    BY <1>2, <2>1, <2>2, NoEndKeeps
<1>3. ASSUME NEW c \in Creators, Create(c) PROVE EndsAreRecorded'
  <2>1. run.at = "off" /\ run'.at # "succeeded"
    BY <1>3 DEF Create, OrderIdFree, EndsAreRecorded, TypeOK
  <2> QED
    BY <1>3, <2>1 DEF Create, EndsAreRecorded, SuccessMeansDelivered, NoRow
<1>4. ASSUME UNCHANGED <<row, history, run>> PROVE EndsAreRecorded'
  BY <1>4 DEF EndsAreRecorded, SuccessMeansDelivered, Missing
<1>5. ASSUME NEW c \in Carriers, Update(c) PROVE EndsAreRecorded'
  BY <1>2, <1>5 DEF Update
<1>6. ASSUME TickUpdate PROVE EndsAreRecorded'
  BY <1>2, <1>6 DEF TickUpdate, Resting
<1>7. ASSUME Tick \/ TickRead \/ TickMissed \/ TickFails, row # NoRow
      PROVE  EndsAreRecorded'
  <2>1. UNCHANGED <<row, history>>
    BY <1>7 DEF Tick, TickRead, TickMissed, TickFails
  <2>2. SuccessMeansDelivered'
    <3>1. CASE Missing
      BY <3>1, <2>1 DEF SuccessMeansDelivered, Missing
    <3>2. CASE ~Missing /\ Tick
      <4>1. CASE HasNext(row.status)
        <5>1. run' = [run EXCEPT !.at = "reading", !.snapshot = row.status,
                                 !.next = NextStatus(row.status)]
          BY <3>2, <4>1 DEF Tick
        <5> QED
          BY <5>1 DEF SuccessMeansDelivered, TypeOK
      <4>2. CASE ~HasNext(row.status)
        BY <4>2, <3>2, <1>1, <2>1 DEF HasNext, Missing, SuccessMeansDelivered
      <4> QED
        BY <4>1, <4>2
    <3>3. CASE ~Missing /\ TickRead
      <4>1. CASE CanTransition(row.status, run.next)
        <5>1. run' = [run EXCEPT !.at = "applying", !.read = row.status]
          BY <3>3, <4>1 DEF TickRead
        <5> QED
          BY <5>1 DEF SuccessMeansDelivered, TypeOK
      <4>2. CASE ~CanTransition(row.status, run.next)
        BY <4>2, <3>3 DEF TickRead, RunTo, Resting, SuccessMeansDelivered
      <4> QED
        BY <4>1, <4>2
    <3>4. CASE TickFails
      BY <3>4 DEF TickFails, RunTo, Resting, SuccessMeansDelivered
    <3> QED
      BY <1>7, <3>1, <3>2, <3>3, <3>4 DEF TickMissed
  <2> QED
    BY <1>7, <2>1, <2>2 DEF EndsAreRecorded
<1>8. ASSUME Tick \/ TickRead \/ TickMissed \/ TickFails PROVE row # NoRow
  BY <1>8 DEF Tick, TickRead, TickMissed, TickFails, EndsAreRecorded
<1>9. ASSUME SoftDelete PROVE EndsAreRecorded'
  <2>1. row \in [status : Statuses, live : BOOLEAN] /\ row.live
    BY <1>9, <1>0 DEF SoftDelete
  <2>2. ~row'.live /\ row'.status \in Statuses
    BY <1>9, <2>1 DEF SoftDelete
  <2>3. row # NoRow /\ row' # NoRow /\ UNCHANGED <<history, run>>
    BY <1>9, <2>1, <2>2, <1>0 DEF SoftDelete, NoRow
  <2> QED
    BY <2>2, <2>3, NoEndKeeps
<1>10. ASSUME Restart PROVE EndsAreRecorded'
  <2>1. UNCHANGED <<row, history>>
    BY <1>10 DEF Restart
  <2>2. run' = run \/ (run'.at = "stopped" /\ run.at # "off")
    BY <1>10 DEF Restart, Resting
  <2> QED
    BY <2>1, <2>2 DEF EndsAreRecorded, SuccessMeansDelivered, Missing
<1>11. ASSUME NEW c \in Creators, Check(c) \/ CreateRefused(c) PROVE EndsAreRecorded'
  BY <1>4, <1>11 DEF Check, CreateRefused
<1>12. ASSUME NEW c \in Carriers, Read(c) \/ UpdateMissed(c) \/ UpdateFails(c)
       PROVE  EndsAreRecorded'
  BY <1>4, <1>12 DEF Read, UpdateMissed, UpdateFails
<1>13. UNCHANGED vars => EndsAreRecorded'
  BY <1>4 DEF vars
<1> QED
  BY <1>3, <1>5, <1>6, <1>7, <1>8, <1>9, <1>10, <1>11, <1>12, <1>13
     DEF Next, Create_, CarrierStep, RunStep

\* However many carriers move the tracking meanwhile, a run that is said to have
\* succeeded left it at DELIVERED, or it was deleted.
THEOREM SuccessIsDelivery == Spec => []SuccessMeansDelivered
<1>1. IInv => TypeOK
  BY DEF IInv
<1>2. EndsAreRecorded => SuccessMeansDelivered
  BY DEF EndsAreRecorded
<1> QED
  BY <1>1, <1>2, InitIInv, NextIInv, InitEnds, NextEnds, PTL DEF Spec

-----------------------------------------------------------------------------
(***************************************************************************)
(* The outbox, for any number of messages and pollers: no needless         *)
(* duplicate, nothing lost.  The inductive invariant says what an open     *)
(* transaction holds: its rows are pending and its own, what it has        *)
(* handled is no longer to do, and what it will delete is settled, one way *)
(* or the other.  A poller that has lost its transaction holds nothing, so *)
(* that what is left of its batch may well be another's.                   *)
(***************************************************************************)

\* What a poller deletes or reschedules is among the rows it claimed.
WithinClaim == \A p \in Pollers : /\ removed[p] \subseteq claimed[p]
                                  /\ retried[p] \subseteq claimed[p]
\* The attempts a poller read are those of the row, as long as it holds the row.
SpentAsRead ==
  \A p \in Pollers : \A m \in todo[p] \cap claimed[p] :
    m \in spent[p] <=> attempts[m] = MaxAttempts
\* No row is claimed by two pollers.
ClaimsDisjoint ==
  \A p, q \in Pollers : p # q => claimed[p] \cap claimed[q] = {}
\* A claimed row is in the table.
ClaimedPending ==
  \A p \in Pollers : \A m \in claimed[p] : table[m] = "pending"
\* What a poller deleted or rescheduled it is done with.
HandledOnce == \A p \in Pollers : removed[p] \cap todo[p] = {}
\* Only a message below the limit is rescheduled.
RetriedBelow ==
  \A p \in Pollers : \A m \in retried[p] : attempts[m] < MaxAttempts
\* What SNS has and reported taken is deleted, or about to be.
SentIsLeaving ==
  \A m \in Messages : receipt[m] = "sent" =>
    table[m] = "gone" \/ \E p \in Pollers : m \in removed[p]
\* What is about to be deleted was taken or has used up its attempts.
RemovedSettled ==
  \A p \in Pollers : \A m \in removed[p] :
    receipt[m] # "none" \/ attempts[m] = MaxAttempts

OutboxInv == /\ OutboxTypeOK
        /\ WithinClaim
        /\ SpentAsRead
        /\ ClaimsDisjoint
        /\ ClaimedPending
        /\ HandledOnce
        /\ RetriedBelow
        /\ SentIsLeaving
        /\ RemovedSettled
        /\ NoNeedlessDuplicate
        /\ NothingLost

\* Initially no transaction is open and nothing is out.
LEMMA InitOutboxInv == OutboxInit => OutboxInv
<1> SUFFICES ASSUME OutboxInit PROVE OutboxInv
  OBVIOUS
<1> USE DEF OutboxInit
<1>1. OutboxTypeOK
  <2>1. 0 \in 0..MaxAttempts
    BY OutboxAssumption
  <2>2. claimed \in [Pollers -> SUBSET Messages]
    OBVIOUS
  <2> QED
    BY <2>1, <2>2 DEF OutboxTypeOK
<1>2. WithinClaim /\ SpentAsRead /\ ClaimsDisjoint /\ ClaimedPending /\ HandledOnce
  BY DEF WithinClaim, SpentAsRead, ClaimsDisjoint, ClaimedPending, HandledOnce
<1>3. RetriedBelow /\ SentIsLeaving /\ RemovedSettled
  BY DEF RetriedBelow, SentIsLeaving, RemovedSettled
<1>4. NoNeedlessDuplicate /\ NothingLost
  BY DEF NoNeedlessDuplicate, NothingLost
<1> QED
  BY <1>1, <1>2, <1>3, <1>4 DEF OutboxInv

\* A message a poller is about to handle, and whose row it holds, has not gone out
\* for good: its row would be gone, or in this poller's deletes, or in those of
\* another.
LEMMA TodoNotSent ==
  ASSUME OutboxInv, NEW p \in Pollers, NEW m \in todo[p], Holds(p, m)
  PROVE  m \in Messages /\ receipt[m] # "sent"
<1>1. m \in claimed[p] /\ m \in Messages /\ table[m] = "pending"
  BY DEF OutboxInv, OutboxTypeOK, Holds, ClaimedPending
<1>2. \A q \in Pollers : m \notin removed[q]
  <2>1. m \notin removed[p]
    BY DEF OutboxInv, HandledOnce
  <2>2. ASSUME NEW q \in Pollers, q # p PROVE m \notin removed[q]
    BY <1>1, <2>2 DEF OutboxInv, WithinClaim, ClaimsDisjoint
  <2> QED
    BY <2>1, <2>2
<1> QED
  BY <1>1, <1>2 DEF OutboxInv, SentIsLeaving

\* Handling a message keeps the invariant: it changes this poller's part of
\* its open transaction, if it has one, and what SNS has of this one message.
LEMMA HandleKeeps ==
  ASSUME OutboxInv, NEW p \in Pollers, NEW m \in Messages, Handle(p, m)
  PROVE  OutboxInv'
<1>1. m \in todo[p] /\ (Holds(p, m) => receipt[m] # "sent")
  <2>1. m \in todo[p]
    BY DEF Handle, Publish, PublishKept, PublishFails, Discard, Keep, ToPublish, ToDiscard, NextOf
  <2> QED
    BY <2>1, TodoNotSent
<1>2. /\ UNCHANGED <<table, attempts, due, claimed>>
      /\ todo' = [todo EXCEPT ![p] = @ \ {m}]
      /\ spent' = [spent EXCEPT ![p] = @ \ {m}]
  BY DEF Handle, Publish, PublishKept, PublishFails, Discard, Keep, Done, rows
<1>3. UNCHANGED duplicates
  BY <1>1 DEF Handle, Publish, PublishKept, PublishFails, Discard, Keep, Taken
<1> DEFINE Typed == /\ todo \in [Pollers -> SUBSET Messages]
                    /\ spent \in [Pollers -> SUBSET Messages]
                    /\ removed \in [Pollers -> SUBSET Messages]
                    /\ retried \in [Pollers -> SUBSET Messages]
                    /\ receipt \in [Messages -> {"none", "sent", "unsettled"}]
<1>4. Typed
  BY DEF OutboxInv, OutboxTypeOK
<1>5. attempts[m] \in 0..MaxAttempts /\ MaxAttempts \in Nat
  BY OutboxAssumption DEF OutboxInv, OutboxTypeOK
<1>6. \/ /\ Holds(p, m) /\ removed' = [removed EXCEPT ![p] = @ \cup {m}] /\ UNCHANGED retried
         /\ \/ receipt' = [receipt EXCEPT ![m] = "sent"]
            \/ UNCHANGED receipt /\ attempts[m] = MaxAttempts
      \/ /\ Holds(p, m) /\ retried' = [retried EXCEPT ![p] = @ \cup {m}] /\ UNCHANGED removed
         /\ attempts[m] < MaxAttempts
         /\ \/ receipt[m] # "sent" /\ receipt' = [receipt EXCEPT ![m] = "unsettled"]
            \/ UNCHANGED receipt
      \/ /\ UNCHANGED <<removed, retried>>
         /\ \/ receipt[m] # "sent" /\ receipt' = [receipt EXCEPT ![m] = "unsettled"]
            \/ UNCHANGED receipt
  <2>1. Holds(p, m) => (m \in spent[p] <=> attempts[m] = MaxAttempts)
    BY <1>1 DEF OutboxInv, SpentAsRead, Holds
  <2>2. ASSUME Taken(p, m, "unsettled")
        PROVE  \/ receipt[m] # "sent" /\ receipt' = [receipt EXCEPT ![m] = "unsettled"]
               \/ UNCHANGED receipt
    <3>1. CASE receipt[m] = "sent"
      BY <1>1, <1>4, <2>2, <3>1 DEF Taken
    <3>2. CASE receipt[m] # "sent"
      BY <2>2, <3>2 DEF Taken
    <3> QED
      BY <3>1, <3>2
  <2>3. CASE Publish(p, m)
    BY <2>3 DEF Publish, Taken, RemoveRow
  <2>4. CASE PublishKept(p, m)
    BY <2>2, <2>4 DEF PublishKept
  <2>5. CASE PublishFails(p, m)
    <3>1. Holds(p, m) /\ attempts[m] < MaxAttempts
      BY <1>5, <2>1, <2>5 DEF PublishFails, ToPublish, RetryLater
    <3>2. \/ receipt[m] # "sent" /\ receipt' = [receipt EXCEPT ![m] = "unsettled"]
          \/ UNCHANGED receipt
      BY <2>2, <2>5 DEF PublishFails
    <3> QED
      BY <2>5, <3>1, <3>2 DEF PublishFails, RetryLater
  <2>6. CASE Discard(p, m)
    BY <2>1, <2>6 DEF Discard, ToDiscard, RemoveRow
  <2>7. CASE Keep(p, m)
    BY <2>2, <2>7 DEF Keep
  <2> QED
    BY <2>3, <2>4, <2>5, <2>6, <2>7 DEF Handle
<1>7. Typed'
  BY <1>2, <1>4, <1>6
<1>8. OutboxTypeOK'
  BY <1>2, <1>3, <1>7 DEF OutboxInv, OutboxTypeOK
<1>9. WithinClaim' /\ SpentAsRead' /\ ClaimsDisjoint' /\ ClaimedPending'
  <2>1. WithinClaim'
    BY <1>2, <1>4, <1>6 DEF OutboxInv, WithinClaim, Holds
  <2>2. SpentAsRead'
    BY <1>2, <1>4 DEF OutboxInv, SpentAsRead
  <2> QED
    BY <1>2, <2>1, <2>2 DEF OutboxInv, ClaimsDisjoint, ClaimedPending
<1>10. HandledOnce' /\ RetriedBelow'
  BY <1>2, <1>4, <1>6 DEF OutboxInv, HandledOnce, RetriedBelow
<1>11. SentIsLeaving'
  <2> SUFFICES ASSUME NEW n \in Messages, receipt'[n] = "sent"
               PROVE  table'[n] = "gone" \/ \E q \in Pollers : n \in removed'[q]
    BY DEF SentIsLeaving
  <2>1. CASE receipt[n] = "sent"
    <3>1. \A q \in Pollers : removed[q] \subseteq removed'[q]
      BY <1>4, <1>6
    <3> QED
      BY <2>1, <3>1, <1>2 DEF OutboxInv, SentIsLeaving
  <2>2. CASE receipt[n] # "sent"
    BY <2>2, <1>4, <1>6
  <2> QED
    BY <2>1, <2>2
<1>12. RemovedSettled'
  <2>1. \A n \in Messages : receipt[n] # "none" => receipt'[n] # "none"
    BY <1>4, <1>6
  <2> SUFFICES ASSUME NEW q \in Pollers, NEW n \in removed'[q]
               PROVE  receipt'[n] # "none" \/ attempts'[n] = MaxAttempts
    BY DEF RemovedSettled
  <2>2. CASE n \in removed[q]
    BY <2>1, <2>2, <1>2, <1>4 DEF OutboxInv, RemovedSettled
  <2>3. CASE n \notin removed[q]
    BY <2>3, <1>2, <1>4, <1>6
  <2> QED
    BY <2>2, <2>3
<1>13. NoNeedlessDuplicate' /\ NothingLost'
  <2>1. \A n \in Messages : receipt[n] # "none" => receipt'[n] # "none"
    BY <1>4, <1>6
  <2> QED
    BY <2>1, <1>2, <1>3 DEF OutboxInv, NoNeedlessDuplicate, NothingLost
<1> QED
  BY <1>8, <1>9, <1>10, <1>11, <1>12, <1>13 DEF OutboxInv

\* Committing deletes settled rows only, and reschedules within the limit.
LEMMA CommitKeeps ==
  ASSUME OutboxInv, NEW p \in Pollers, Commit(p)
  PROVE  OutboxInv'
<1>1. /\ table' = [m \in Messages |->
           IF m \in removed[p] THEN "gone" ELSE table[m]]
      /\ attempts' = [m \in Messages |->
           IF m \in retried[p] THEN attempts[m] + 1 ELSE attempts[m]]
      /\ due' = due \ retried[p]
      /\ UNCHANGED <<receipt, duplicates>>
  BY DEF Commit
<1>2. /\ claimed' = [claimed EXCEPT ![p] = {}]
      /\ todo' = [todo EXCEPT ![p] = {}]
      /\ spent' = [spent EXCEPT ![p] = {}]
      /\ removed' = [removed EXCEPT ![p] = {}]
      /\ retried' = [retried EXCEPT ![p] = {}]
  BY DEF Commit, Release, Unlock
<1>3. OutboxTypeOK /\ MaxAttempts \in Nat
  BY OutboxAssumption DEF OutboxInv
<1>4. \A m \in retried[p] : attempts[m] + 1 \in 0..MaxAttempts
  BY <1>3 DEF OutboxInv, OutboxTypeOK, RetriedBelow
<1>5. OutboxTypeOK'
  <2>1. attempts' \in [Messages -> 0..MaxAttempts]
    BY <1>1, <1>3, <1>4 DEF OutboxTypeOK
  <2>2. table' \in [Messages -> {"absent", "pending", "gone"}]
    BY <1>1, <1>3 DEF OutboxTypeOK
  <2> QED
    BY <1>1, <1>2, <1>3, <2>1, <2>2 DEF OutboxTypeOK
<1>6. WithinClaim' /\ ClaimsDisjoint' /\ HandledOnce'
  BY <1>2, <1>3 DEF OutboxInv, OutboxTypeOK, WithinClaim, ClaimsDisjoint, HandledOnce
\* The other pollers' rows are not in this transaction.
<1>7. \A q \in Pollers \ {p} : \A m \in claimed[q] :
        m \in Messages /\ m \notin removed[p] /\ m \notin retried[p]
  BY <1>3 DEF OutboxInv, OutboxTypeOK, WithinClaim, ClaimsDisjoint
<1>8. ClaimedPending' /\ SpentAsRead'
  <2>1. ClaimedPending'
    BY <1>1, <1>2, <1>3, <1>7 DEF OutboxInv, OutboxTypeOK, ClaimedPending
  <2>2. SpentAsRead'
    BY <1>1, <1>2, <1>3, <1>7 DEF OutboxInv, OutboxTypeOK, SpentAsRead
  <2> QED
    BY <2>1, <2>2
<1>9. RetriedBelow'
  BY <1>1, <1>2, <1>3, <1>7 DEF OutboxInv, OutboxTypeOK, RetriedBelow, WithinClaim
<1>10. SentIsLeaving'
  BY <1>1, <1>2, <1>3 DEF OutboxInv, OutboxTypeOK, SentIsLeaving
<1>11. RemovedSettled'
  BY <1>1, <1>2, <1>3, <1>7 DEF OutboxInv, OutboxTypeOK, RemovedSettled, WithinClaim
<1>12. NoNeedlessDuplicate' /\ NothingLost'
  <2> SUFFICES ASSUME NEW m \in Messages, table'[m] = "gone"
               PROVE  receipt'[m] # "none" \/ attempts'[m] = MaxAttempts
    BY <1>1 DEF OutboxInv, NoNeedlessDuplicate, NothingLost
  <2>1. CASE m \in removed[p]
    <3>1. receipt[m] # "none" \/ attempts[m] = MaxAttempts
      BY <2>1 DEF OutboxInv, RemovedSettled
    <3>2. attempts[m] = MaxAttempts => m \notin retried[p]
      BY <1>3 DEF OutboxInv, RetriedBelow
    <3> QED
      BY <3>1, <3>2, <1>1
  <2>2. CASE m \notin removed[p]
    <3>1. table[m] = "gone"
      BY <2>2, <1>1
    <3>2. m \notin retried[p]
      BY <3>1 DEF OutboxInv, WithinClaim, ClaimedPending
    <3> QED
      BY <3>1, <3>2, <1>1 DEF OutboxInv, NothingLost
  <2> QED
    BY <2>1, <2>2
<1> QED
  BY <1>5, <1>6, <1>8, <1>9, <1>10, <1>11, <1>12 DEF OutboxInv

\* A transaction that is undone, the rest of its batch dropped or not, takes the
\* deletes back, and with them that they were settled.
LEMMA UndoKeeps ==
  ASSUME OutboxInv, NEW p \in Pollers, Rollback(p) \/ LoseTransaction(p)
  PROVE  OutboxInv'
<1>1. /\ receipt' = [m \in Messages |->
           IF m \in removed[p] /\ receipt[m] = "sent"
             THEN "unsettled" ELSE receipt[m]]
      /\ UNCHANGED <<table, attempts, due, duplicates>>
  BY DEF Rollback, LoseTransaction, UndoDeletes, rows
<1>2. /\ claimed' = [claimed EXCEPT ![p] = {}]
      /\ removed' = [removed EXCEPT ![p] = {}]
      /\ retried' = [retried EXCEPT ![p] = {}]
      /\ \/ todo' = [todo EXCEPT ![p] = {}] /\ spent' = [spent EXCEPT ![p] = {}]
         \/ UNCHANGED <<todo, spent>>
  BY DEF Rollback, LoseTransaction, Release, Unlock
<1>3. OutboxTypeOK
  BY DEF OutboxInv
<1>4. OutboxTypeOK'
  <2>1. receipt' \in [Messages -> {"none", "sent", "unsettled"}]
    BY <1>1, <1>3 DEF OutboxTypeOK
  <2>2. todo' \in [Pollers -> SUBSET Messages] /\ spent' \in [Pollers -> SUBSET Messages]
    BY <1>2, <1>3 DEF OutboxTypeOK
  <2> QED
    BY <1>1, <1>2, <1>3, <2>1, <2>2 DEF OutboxTypeOK
<1>5. WithinClaim' /\ ClaimsDisjoint' /\ HandledOnce'
  BY <1>2, <1>3 DEF OutboxInv, OutboxTypeOK, WithinClaim, ClaimsDisjoint, HandledOnce
<1>6. ClaimedPending' /\ RetriedBelow' /\ SpentAsRead'
  <2>1. ClaimedPending' /\ RetriedBelow'
    BY <1>1, <1>2, <1>3 DEF OutboxInv, OutboxTypeOK, ClaimedPending, RetriedBelow
  <2>2. SpentAsRead'
    BY <1>1, <1>2, <1>3 DEF OutboxInv, OutboxTypeOK, SpentAsRead
  <2> QED
    BY <2>1, <2>2
<1>7. \A m \in Messages : receipt'[m] = "none" <=> receipt[m] = "none"
  BY <1>1, <1>3 DEF OutboxTypeOK
<1>8. SentIsLeaving'
  <2> SUFFICES ASSUME NEW m \in Messages, receipt'[m] = "sent"
               PROVE  table'[m] = "gone" \/ \E q \in Pollers : m \in removed'[q]
    BY DEF SentIsLeaving
  <2>1. receipt[m] = "sent" /\ m \notin removed[p]
    BY <1>1
  <2>2. table[m] = "gone" \/ \E q \in Pollers \ {p} : m \in removed[q]
    BY <2>1 DEF OutboxInv, SentIsLeaving
  <2> QED
    BY <2>2, <1>1, <1>2, <1>3 DEF OutboxTypeOK
<1>9. RemovedSettled'
  BY <1>1, <1>2, <1>3, <1>7 DEF OutboxInv, OutboxTypeOK, RemovedSettled
<1>10. NoNeedlessDuplicate' /\ NothingLost'
  BY <1>1, <1>7 DEF OutboxInv, NoNeedlessDuplicate, NothingLost
<1> QED
  BY <1>4, <1>5, <1>6, <1>8, <1>9, <1>10 DEF OutboxInv

\* Every step keeps the invariant.
LEMMA NextOutboxInv == OutboxInv /\ [OutboxNext]_outboxVars => OutboxInv'
<1> SUFFICES ASSUME OutboxInv, [OutboxNext]_outboxVars PROVE OutboxInv'
  OBVIOUS
<1>1. ASSUME NEW m \in Messages, StoreRow(m) PROVE OutboxInv'
  <2>1. /\ table[m] = "absent" /\ table' = [table EXCEPT ![m] = "pending"]
        /\ UNCHANGED <<attempts, due, claimed, todo, spent, removed, retried, receipt,
                       duplicates>>
    BY <1>1 DEF StoreRow, batch
  <2>2. OutboxTypeOK'
    BY <2>1 DEF OutboxInv, OutboxTypeOK
  <2> QED
    BY <2>1, <2>2 DEF OutboxInv, OutboxTypeOK, WithinClaim, SpentAsRead, ClaimsDisjoint, ClaimedPending,
       HandledOnce, RetriedBelow, SentIsLeaving, RemovedSettled,
       NoNeedlessDuplicate, NothingLost
<1>2. ASSUME NEW m \in Messages, FallDue(m) PROVE OutboxInv'
  BY <1>2 DEF FallDue, batch, OutboxInv, OutboxTypeOK, WithinClaim, SpentAsRead, ClaimsDisjoint, ClaimedPending,
     HandledOnce, RetriedBelow, SentIsLeaving, RemovedSettled,
     NoNeedlessDuplicate, NothingLost
<1>3. ASSUME NEW p \in Pollers, Claim(p) PROVE OutboxInv'
  <2>1. /\ claimed[p] = {}
        /\ claimed' = [claimed EXCEPT ![p] = Batch]
        /\ todo' = [todo EXCEPT ![p] = Batch]
        /\ spent' = [spent EXCEPT ![p] = {m \in Batch : Exhausted(m)}]
        /\ UNCHANGED <<table, attempts, due, removed, retried, receipt,
                       duplicates>>
    BY <1>3 DEF Claim, rows
  <2>2. /\ Batch \subseteq Messages
        /\ \A m \in Batch : table[m] = "pending"
        /\ \A q \in Pollers : Batch \cap claimed[q] = {}
    BY DEF Batch, Pending, Locked
  <2>3. OutboxTypeOK
    BY DEF OutboxInv
  <2>4. OutboxTypeOK'
    BY <2>1, <2>2, <2>3 DEF OutboxTypeOK
  <2>5. removed[p] = {} /\ retried[p] = {}
    BY <2>1 DEF OutboxInv, WithinClaim
  <2>6. WithinClaim' /\ ClaimsDisjoint' /\ ClaimedPending' /\ HandledOnce'
    BY <2>1, <2>2, <2>3, <2>5
       DEF OutboxInv, OutboxTypeOK, WithinClaim, ClaimsDisjoint, ClaimedPending, HandledOnce
  <2>7. SpentAsRead'
    <3>1. \A m \in Batch : Exhausted(m) <=> attempts[m] = MaxAttempts
      BY <2>2, <2>3, OutboxAssumption DEF OutboxTypeOK, Exhausted
    <3> QED
      BY <2>1, <2>2, <2>3, <3>1 DEF OutboxInv, OutboxTypeOK, SpentAsRead
  <2> QED
    BY <2>1, <2>4, <2>6, <2>7 DEF OutboxInv, RetriedBelow, SentIsLeaving, RemovedSettled,
       NoNeedlessDuplicate, NothingLost
<1>4. CASE UNCHANGED outboxVars
  BY <1>4 DEF outboxVars, rows, batch, OutboxInv, OutboxTypeOK, WithinClaim, SpentAsRead, ClaimsDisjoint, ClaimedPending,
     HandledOnce, RetriedBelow, SentIsLeaving, RemovedSettled,
     NoNeedlessDuplicate, NothingLost
<1> QED
  BY <1>1, <1>2, <1>3, <1>4, HandleKeeps, CommitKeeps, UndoKeeps DEF OutboxNext

\* For any number of messages and pollers, every variable keeps its type.
THEOREM OutboxTypeCorrect == OutboxSpec => []OutboxTypeOK
<1>1. OutboxInv => OutboxTypeOK
  BY DEF OutboxInv
<1> QED
  BY <1>1, InitOutboxInv, NextOutboxInv, PTL DEF OutboxSpec

\* However many tasks poll and whatever fails, transactions lost in mid-batch included: a
\* poller that holds a message's row publishes it again only when its deletion came to
\* nothing (poller.go's RunOnce, claim and handle).
THEOREM OnlyExcusedDuplicates == OutboxSpec => []NoNeedlessDuplicate
<1>1. OutboxInv => NoNeedlessDuplicate
  BY DEF OutboxInv
<1> QED
  BY <1>1, InitOutboxInv, NextOutboxInv, PTL DEF OutboxSpec

\* The same for the other promise: delivered, or given every attempt it is owed.
THEOREM DeliveredOrExhausted == OutboxSpec => []NothingLost
<1>1. OutboxInv => NothingLost
  BY DEF OutboxInv
<1> QED
  BY <1>1, InitOutboxInv, NextOutboxInv, PTL DEF OutboxSpec

\* The two together: what a consumer of the topic can count on.
THEOREM SentAsTheOutboxSays == OutboxSpec => []SentAsPromised
<1>1. NoNeedlessDuplicate /\ NothingLost => SentAsPromised
  BY DEF SentAsPromised
<1> QED
  BY <1>1, OnlyExcusedDuplicates, DeliveredOrExhausted, PTL

=============================================================================

------------------------- MODULE EventsPipelineProofs -------------------------
(***************************************************************************)
(* What holds of the events-pipeline for any number of messages, events and *)
(* invocations.  The inductive invariant rests on ownership: the record    *)
(* whose insert made the document is the only one to run its event, and    *)
(* the document tells how far it got, so whoever finds the document cannot *)
(* be running it.                                                          *)
(***************************************************************************)
EXTENDS EventsPipeline, TLAPS

Running == {"started", "dispatched", "sent", "permanent", "transient"}
Steps == Running \cup {"none", "received", "ack", "retry"}
Statuses == {"none", "STARTED", "IN_PROGRESS", "COMPLETED", "FAILED"}

\* The document of a running record's event, by the record's step.
Owned ==
  \A l \in Lambdas, m \in Messages : at[l][m] \in Running =>
    /\ body[m] \in Events
    /\ docs[body[m]] = IF at[l][m] = "started" THEN "STARTED" ELSE "IN_PROGRESS"

\* No event is run by two records.
Alone ==
  \A k, l \in Lambdas, n, m \in Messages :
    /\ at[k][n] \in Running /\ at[l][m] \in Running /\ body[n] = body[m]
    => k = l /\ n = m

\* SES has not been asked before the handler is, and what was sent was taken.
Unasked ==
  /\ \A e \in Events : docs[e] \in {"none", "STARTED"} => requests[e] = 0
  /\ \A l \in Lambdas, m \in Messages :
       /\ at[l][m] = "dispatched" => requests[body[m]] = 0
       /\ at[l][m] = "sent" => body[m] \in mailed

\* The part of the type invariant the argument uses.
Types == /\ body \in [Messages -> Events \cup {Malformed}]
         /\ docs \in [Events -> Statuses]
         /\ requests \in [Events -> Nat]
         /\ mailed \subseteq Events
         /\ at \in [Lambdas -> [Messages -> Steps]]

IInv == Types /\ Owned /\ Alone /\ Unasked /\ OneRequest /\ CompletedMeansMailed

\* What one record's change of step does to everybody's.
LEMMA GotoMoves ==
  ASSUME at \in [Lambdas -> [Messages -> Steps]],
         NEW l \in Lambdas, NEW m \in Messages, NEW step \in Steps,
         Goto(l, m, step)
  PROVE  /\ at' \in [Lambdas -> [Messages -> Steps]]
         /\ at'[l][m] = step
         /\ \A k \in Lambdas, n \in Messages :
              k # l \/ n # m => at'[k][n] = at[k][n]
<1>1. at' = [at EXCEPT ![l] = [at[l] EXCEPT ![m] = step]]
  BY DEF Goto
<1>2. at[l] \in [Messages -> Steps]
  OBVIOUS
<1>3. [at[l] EXCEPT ![m] = step] \in [Messages -> Steps]
  BY <1>2
<1> QED
  BY <1>1, <1>2, <1>3

\* A step that starts no record and touches neither documents nor mail.
LEMMA QuietStep ==
  ASSUME IInv, UNCHANGED <<body, docs, mail>>,
         at' \in [Lambdas -> [Messages -> Steps]],
         \A l \in Lambdas, m \in Messages :
           at'[l][m] \in Running => at'[l][m] = at[l][m]
  PROVE  IInv'
<1>1. Types'
  BY DEF IInv, Types, mail
<1>2. Owned'
  BY DEF IInv, Owned, mail
<1>3. Alone'
  BY DEF IInv, Alone, mail
<1>4. Unasked'
  BY DEF IInv, Unasked, mail, Running
<1> QED
  BY <1>1, <1>2, <1>3, <1>4 DEF IInv, OneRequest, CompletedMeansMailed, mail

\* A step of the record that owns the event, or of one that creates the document
\* while nobody runs the event.
OwnChange(l, m, step, status, count) ==
  /\ body[m] \in Events
  /\ at[l][m] \in Running \/ docs[body[m]] = "none"
  /\ UNCHANGED body
  /\ Goto(l, m, step)
  /\ docs' = [docs EXCEPT ![body[m]] = status]
  /\ requests' = [requests EXCEPT ![body[m]] = count]
  /\ mailed' = mailed \/ mailed' = mailed \cup {body[m]}
  /\ step \in Running => status = IF step = "started" THEN "STARTED"
                                  ELSE "IN_PROGRESS"
  /\ status \in {"none", "STARTED"} \/ step = "dispatched" => count = 0
  /\ status = "COMPLETED" \/ step = "sent" => body[m] \in mailed'

\* It leaves the others what they have.
LEMMA OwnStep ==
  ASSUME IInv, NEW l \in Lambdas, NEW m \in Messages, NEW step \in Steps,
         NEW status \in Statuses, NEW count \in {0, 1},
         OwnChange(l, m, step, status, count)
  PROVE  IInv'
<1> DEFINE e == body[m]
<1> USE DEF OwnChange
<1>0. /\ Types /\ e \in Events
      /\ docs'[e] = status /\ requests'[e] = count
      /\ \A f \in Events : f # e => docs'[f] = docs[f] /\ requests'[f] = requests[f]
      /\ mailed \subseteq mailed' /\ mailed' \subseteq Events
  BY DEF IInv, Types
<1>1. /\ at' \in [Lambdas -> [Messages -> Steps]]
      /\ at'[l][m] = step
      /\ \A k \in Lambdas, n \in Messages :
           k # l \/ n # m => at'[k][n] = at[k][n]
  BY <1>0, GotoMoves DEF Types
<1>2. ASSUME NEW k \in Lambdas, NEW n \in Messages, k # l \/ n # m,
             at'[k][n] \in Running
      PROVE  at[k][n] = at'[k][n] /\ body[n] \in Events /\ body[n] # e
  <2>1. at[k][n] = at'[k][n]
    BY <1>1, <1>2
  <2>2. body[n] \in Events /\ docs[body[n]] # "none"
    BY <1>2, <2>1 DEF IInv, Owned
  <2>3. at[l][m] \in Running => body[n] # e
    BY <1>2, <2>1 DEF IInv, Alone
  <2> QED
    BY <2>1, <2>2, <2>3
<1>3. Types'
  BY <1>0, <1>1 DEF Types
<1>4. Owned'
  BY <1>0, <1>1, <1>2 DEF IInv, Owned
<1>5. Alone'
  <2> SUFFICES ASSUME NEW j \in Lambdas, NEW k \in Lambdas,
                      NEW n \in Messages, NEW p \in Messages,
                      at'[j][n] \in Running, at'[k][p] \in Running,
                      body[n] = body[p]
               PROVE  j = k /\ n = p
    BY <1>0 DEF Alone
  <2>1. CASE j = l /\ n = m
    BY <2>1, <1>2
  <2>2. CASE k = l /\ p = m
    BY <2>2, <1>2
  <2>3. CASE (j # l \/ n # m) /\ (k # l \/ p # m)
    BY <2>3, <1>2 DEF IInv, Alone
  <2> QED
    BY <2>1, <2>2, <2>3
<1>6. Unasked'
  <2>1. \A f \in Events : docs'[f] \in {"none", "STARTED"} => requests'[f] = 0
    BY <1>0 DEF IInv, Unasked
  <2>2. ASSUME NEW k \in Lambdas, NEW n \in Messages
        PROVE  /\ at'[k][n] = "dispatched" => requests'[body[n]] = 0
               /\ at'[k][n] = "sent" => body[n] \in mailed'
    <3>1. CASE k = l /\ n = m
      BY <3>1, <1>0, <1>1
    <3>2. CASE k # l \/ n # m
      BY <3>2, <1>0, <1>2 DEF IInv, Unasked, Running
    <3> QED
      BY <3>1, <3>2
  <2> QED
    BY <2>1, <2>2 DEF Unasked
<1>7. OneRequest'
  BY <1>0 DEF IInv, OneRequest
<1>8. CompletedMeansMailed'
  BY <1>0 DEF IInv, CompletedMeansMailed
<1> QED
  BY <1>3, <1>4, <1>5, <1>6, <1>7, <1>8 DEF IInv

\* Initially no event has a document, and no record runs.
LEMMA InitIInv == PipelineInit => IInv
  BY DEF PipelineInit, IInv, Types, Statuses, Steps, Running, NoBatch, Owned, Alone,
         Unasked, OneRequest, CompletedMeansMailed

\* Every step of a record keeps the invariant.
LEMMA ProcessIInv ==
  ASSUME IInv, NEW l \in Lambdas, NEW m \in Messages, Process(l, m)
  PROVE  IInv'
<1> DEFINE e == body[m]
<1>0. /\ Types
      /\ body[m] \in Events \cup {Malformed}
      /\ at[l][m] \in Running =>
           e \in Events
           /\ docs[e] = IF at[l][m] = "started" THEN "STARTED" ELSE "IN_PROGRESS"
      /\ e \in Events => requests[e] \in {0, 1} /\ docs[e] \in Statuses
                         /\ requests = [requests EXCEPT ![e] = requests[e]]
                         /\ docs = [docs EXCEPT ![e] = docs[e]]
      /\ UNCHANGED body
  <2>1. Types /\ Owned /\ OneRequest
    BY DEF IInv
  <2>2. body[m] \in Events \cup {Malformed}
    BY <2>1 DEF Types
  <2>3. e \in Events => requests[e] \in {0, 1}
    <3>1. \A f \in Events : requests[f] \in Nat /\ requests[f] <= 1
      BY <2>1 DEF Types, OneRequest
    <3>2. \A n \in Nat : n <= 1 => n \in {0, 1}
      OBVIOUS
    <3> QED
      BY <3>1, <3>2
  <2>4. UNCHANGED body
    BY DEF Process, Reject, Quarantine, InsertStarted, Duplicate, InsertFails, UnknownType,
           Dispatch, HandlerRefuses, SendEmail, SendFails, Complete, Fail,
           TransitionFails
  <2>5. /\ requests = [requests EXCEPT ![e] = requests[e]]
        /\ docs = [docs EXCEPT ![e] = docs[e]]
    BY <2>1 DEF Types
  <2>6. at[l][m] \in Running =>
          /\ e \in Events
          /\ docs[e] = IF at[l][m] = "started" THEN "STARTED" ELSE "IN_PROGRESS"
    BY <2>1 DEF Owned
  <2>7. e \in Events => docs[e] \in Statuses
    BY <2>1 DEF Types
  <2> QED
    BY <2>1, <2>2, <2>3, <2>4, <2>5, <2>6, <2>7
<1>1. ASSUME Reject(l, m) \/ Duplicate(l, m) PROVE IInv'
  <2>1. UNCHANGED <<body, docs, mail>> /\ Goto(l, m, "ack")
    BY <1>1 DEF Reject, Quarantine, Duplicate, DuplicateVerdict
  <2>2. /\ at' \in [Lambdas -> [Messages -> Steps]]
        /\ at'[l][m] = "ack"
        /\ \A k \in Lambdas, n \in Messages :
             k # l \/ n # m => at'[k][n] = at[k][n]
    BY <2>1, <1>0, GotoMoves DEF Types, Steps
  <2> QED
    BY <2>1, <2>2, QuietStep DEF Running
<1>2. ASSUME InsertStarted(l, m) PROVE IInv'
  <2>1. e \in Events /\ docs[e] = "none" /\ requests[e] = 0
    BY <1>2, <1>0 DEF InsertStarted, Holds, EventIdFree, IInv, Unasked
  <2>2. /\ docs' = [docs EXCEPT ![e] = "STARTED"]
        /\ Goto(l, m, "started") /\ UNCHANGED mailed
        /\ requests' = [requests EXCEPT ![e] = 0]
    BY <1>2, <1>0, <2>1 DEF InsertStarted, mail
  <2>9. OwnChange(l, m, "started", "STARTED", 0)
    BY <2>1, <2>2, <1>0 DEF OwnChange, Running
  <2> QED
    BY <2>9, <1>0, OwnStep DEF Statuses, Steps, Running
<1>3. ASSUME InsertFails(l, m) PROVE IInv'
  <2>1. Goto(l, m, "retry") /\ UNCHANGED mail /\ e \in Events
    BY <1>3, <1>0 DEF InsertFails, PersistVerdict, Retry, Holds
  <2>2. CASE UNCHANGED docs
    <3>1. /\ at' \in [Lambdas -> [Messages -> Steps]]
          /\ at'[l][m] = "retry"
          /\ \A k \in Lambdas, n \in Messages :
               k # l \/ n # m => at'[k][n] = at[k][n]
      BY <2>1, <1>0, GotoMoves DEF Types, Steps
    <3> QED
      BY <2>1, <2>2, <3>1, <1>0, QuietStep DEF Running
  <2>3. CASE EventIdFree(e) /\ docs' = [docs EXCEPT ![e] = "STARTED"]
    <3>1. docs[e] = "none" /\ requests[e] = 0
      BY <2>1, <2>3, <1>0 DEF EventIdFree, IInv, Unasked
    <3>2. requests' = [requests EXCEPT ![e] = 0] /\ UNCHANGED mailed
      BY <2>1, <3>1, <1>0 DEF mail
    <3>9. OwnChange(l, m, "retry", "STARTED", 0)
      BY <2>1, <2>3, <3>1, <3>2, <1>0 DEF OwnChange, Running
    <3> QED
      BY <3>9, <1>0, OwnStep DEF Statuses, Steps, Running
  <2> QED
    BY <1>3, <2>2, <2>3 DEF InsertFails
<1>4. ASSUME UnknownType(l, m) \/ Dispatch(l, m) PROVE IInv'
  <2>1. at[l][m] = "started" /\ UNCHANGED mail
    BY <1>4 DEF UnknownType, Dispatch, Holds
  <2>2. e \in Events /\ docs[e] = "STARTED" /\ requests[e] = 0
    BY <2>1, <1>0 DEF Running, IInv, Unasked
  <2>3. requests' = [requests EXCEPT ![e] = 0] /\ UNCHANGED mailed
    BY <2>1, <2>2, <1>0 DEF mail
  <2>4. \/ docs' = [docs EXCEPT ![e] = "FAILED"] /\ Goto(l, m, "ack")
        \/ docs' = [docs EXCEPT ![e] = "IN_PROGRESS"] /\ Goto(l, m, "dispatched")
    BY <1>4 DEF UnknownType, Dispatch, Transition
  <2>9. \/ OwnChange(l, m, "ack", "FAILED", 0)
         \/ OwnChange(l, m, "dispatched", "IN_PROGRESS", 0)
    BY <2>1, <2>2, <2>3, <2>4, <1>0 DEF OwnChange, Running
  <2> QED
    BY <2>9, <1>0, OwnStep DEF Statuses, Steps, Running
<1>5. ASSUME HandlerRefuses(l, m) PROVE IInv'
  <2>1. /\ at[l][m] = "dispatched" /\ UNCHANGED <<docs, mail>>
        /\ Goto(l, m, "permanent")
    BY <1>5 DEF HandlerRefuses, Holds
  <2>2. e \in Events /\ docs[e] = "IN_PROGRESS"
    BY <2>1, <1>0 DEF Running
  <2>3. /\ docs' = [docs EXCEPT ![e] = "IN_PROGRESS"]
        /\ requests' = [requests EXCEPT ![e] = requests[e]]
        /\ UNCHANGED mailed
    BY <2>1, <2>2, <1>0 DEF mail
  <2>9. OwnChange(l, m, "permanent", "IN_PROGRESS", requests[e])
    BY <2>1, <2>2, <2>3, <1>0 DEF OwnChange, Running
  <2> QED
    BY <2>9, <2>2, <1>0, OwnStep DEF Statuses, Steps, Running
<1>6. ASSUME SendEmail(l, m) \/ SendFails(l, m) PROVE IInv'
  <2>1. at[l][m] = "dispatched" /\ UNCHANGED docs
    BY <1>6 DEF SendEmail, SendFails, Holds
  <2>2. e \in Events /\ docs[e] = "IN_PROGRESS" /\ requests[e] = 0
    BY <2>1, <1>0 DEF Running, IInv, Unasked
  <2>3. docs' = [docs EXCEPT ![e] = "IN_PROGRESS"]
    BY <2>1, <2>2, <1>0
  <2>4. CASE UNCHANGED mail /\ Goto(l, m, "transient")
    <3>1. requests' = [requests EXCEPT ![e] = 0] /\ UNCHANGED mailed
      BY <2>4, <2>2, <1>0 DEF mail
    <3>9. OwnChange(l, m, "transient", "IN_PROGRESS", 0)
      BY <2>1, <2>2, <2>3, <2>4, <3>1, <1>0 DEF OwnChange, Running
    <3> QED
      BY <3>9, <1>0, OwnStep DEF Statuses, Steps, Running
  <2>5. CASE Request(m) /\ mailed' \in {mailed, mailed \cup {e}}
             /\ Goto(l, m, "transient")
    <3>1. requests' = [requests EXCEPT ![e] = 1]
      BY <2>5, <2>2 DEF Request
    <3>9. OwnChange(l, m, "transient", "IN_PROGRESS", 1)
      BY <2>1, <2>2, <2>3, <2>5, <3>1, <1>0 DEF OwnChange, Running
    <3> QED
      BY <3>9, <1>0, OwnStep DEF Statuses, Steps, Running
  <2>6. CASE Request(m) /\ mailed' = mailed \cup {e} /\ Goto(l, m, "sent")
    <3>1. requests' = [requests EXCEPT ![e] = 1] /\ e \in mailed'
      BY <2>6, <2>2 DEF Request
    <3>9. OwnChange(l, m, "sent", "IN_PROGRESS", 1)
      BY <2>1, <2>2, <2>3, <2>6, <3>1, <1>0 DEF OwnChange, Running
    <3> QED
      BY <3>9, <1>0, OwnStep DEF Statuses, Steps, Running
  <2> QED
    BY <1>6, <2>4, <2>5, <2>6 DEF SendEmail, SendFails, SendFailure
<1>7. ASSUME Complete(l, m) \/ Fail(l, m) \/ TransitionFails(l, m) PROVE IInv'
  <2>1. at[l][m] \in {"started", "sent", "permanent", "transient"} /\ UNCHANGED mail
    BY <1>7 DEF Complete, Fail, TransitionFails, Holds
  <2>2. e \in Events /\ UNCHANGED mailed
        /\ requests' = [requests EXCEPT ![e] = requests[e]]
    BY <2>1, <1>0 DEF mail, Running
  <2>3. PICK step \in {"ack", "retry"} : Goto(l, m, step)
    BY <1>7 DEF Complete, Fail, TransitionFails, Retry
  <2>4. CASE UNCHANGED docs
    <3>1. /\ at' \in [Lambdas -> [Messages -> Steps]]
          /\ at'[l][m] = step
          /\ \A k \in Lambdas, n \in Messages :
               k # l \/ n # m => at'[k][n] = at[k][n]
      BY <2>3, <1>0, GotoMoves DEF Types, Steps
    <3> QED
      BY <2>1, <2>4, <3>1, <1>0, QuietStep DEF Running
  <2>5. ASSUME NEW status \in {"IN_PROGRESS", "FAILED", "COMPLETED"},
               docs' = [docs EXCEPT ![e] = status],
               status = "COMPLETED" => at[l][m] = "sent"
        PROVE  IInv'
    <3>1. at[l][m] = "sent" => e \in mailed'
      BY <2>2 DEF IInv, Unasked
    <3>9. OwnChange(l, m, step, status, requests[e])
      BY <2>1, <2>2, <2>3, <2>5, <3>1, <1>0 DEF OwnChange, Running
    <3> QED
      BY <3>9, <2>2, <1>0, OwnStep DEF Statuses, Steps, Running
  <2>6. CASE Complete(l, m) \/ Fail(l, m)
    BY <2>5, <2>6 DEF Complete, Fail, Transition, Holds
  <2>7. CASE TransitionFails(l, m)
    BY <2>4, <2>5, <2>7 DEF TransitionFails, Transition, Following, Holds
  <2> QED
    BY <1>7, <2>6, <2>7
<1> QED
  BY <1>1, <1>2, <1>3, <1>4, <1>5, <1>6, <1>7 DEF Process

\* Every step keeps the invariant.
LEMMA NextIInv == IInv /\ [PipelineNext]_pipelineVars => IInv'
<1> SUFFICES ASSUME IInv, [PipelineNext]_pipelineVars PROVE IInv'
  OBVIOUS
<1>0. at \in [Lambdas -> [Messages -> Steps]]
  BY DEF IInv, Types
<1>1. ASSUME NEW l \in Lambdas,
             Deliver(l) \/ BootstrapFails(l) \/ Report(l) \/ Crash(l)
      PROVE  IInv'
  <2>1. PICK batch \in [Messages -> {"none", "received", "retry"}] :
          at' = [at EXCEPT ![l] = batch]
    BY <1>1 DEF Deliver, BootstrapFails, Report, Crash, NoBatch
  <2>2. UNCHANGED <<body, docs, mail>>
    BY <1>1 DEF Deliver, BootstrapFails, Report, Crash
  <2>3. at' \in [Lambdas -> [Messages -> Steps]]
    BY <1>0, <2>1 DEF Steps
  <2>4. \A k \in Lambdas, m \in Messages :
          at'[k][m] \in Running => at'[k][m] = at[k][m]
    BY <1>0, <2>1 DEF Running
  <2> QED
    BY <2>2, <2>3, <2>4, QuietStep
<1>2. ASSUME NEW m \in Messages, Redrive(m) PROVE IInv'
  BY <1>0, <1>2, QuietStep DEF Redrive
<1>3. CASE UNCHANGED pipelineVars
  BY <1>0, <1>3, QuietStep DEF pipelineVars, mail
<1> QED
  BY <1>1, <1>2, <1>3, ProcessIInv DEF PipelineNext, Invocation

\* However often an event is delivered, by whom and how concurrently, SES is
\* asked for its email once at most.
THEOREM OneRequestPerEvent == PipelineSpec => []OneRequest
<1>1. IInv => OneRequest
  BY DEF IInv
<1> QED
  BY <1>1, InitIInv, NextIInv, PTL DEF PipelineSpec

\* Whatever fails, a COMPLETED document stands for an email SES took.
THEOREM CompletedIsTrue == PipelineSpec => []CompletedMeansMailed
<1>1. IInv => CompletedMeansMailed
  BY DEF IInv
<1> QED
  BY <1>1, InitIInv, NextIInv, PTL DEF PipelineSpec

\* What a step of a record can do to the documents.
LEMMA DocsMove ==
  ASSUME IInv, NEW l \in Lambdas, NEW m \in Messages, Process(l, m)
  PROVE  \/ UNCHANGED docs
         \/ /\ body[m] \in Events
            /\ docs[body[m]] \in {"none", "STARTED", "IN_PROGRESS"}
            /\ \E status \in Statuses \ {"none"} :
                 docs' = [docs EXCEPT ![body[m]] = status]
<1>1. CASE Reject(l, m) \/ Duplicate(l, m) \/ HandlerRefuses(l, m)
           \/ SendEmail(l, m) \/ SendFails(l, m)
  BY <1>1 DEF Reject, Quarantine, Duplicate, HandlerRefuses, SendEmail, SendFails
<1>2. CASE InsertStarted(l, m) \/ InsertFails(l, m)
  <2>1. body[m] \in Events
    BY <1>2 DEF IInv, Types, InsertStarted, InsertFails, Holds
  <2> QED
    BY <1>2, <2>1 DEF InsertStarted, InsertFails, EventIdFree, Statuses
<1>3. CASE UnknownType(l, m) \/ Dispatch(l, m) \/ Complete(l, m) \/ Fail(l, m)
           \/ TransitionFails(l, m)
  <2>1. at[l][m] \in Running
    BY <1>3 DEF UnknownType, Dispatch, Complete, Fail, TransitionFails, Holds, Running
  <2>2. body[m] \in Events /\ docs[body[m]] \in {"STARTED", "IN_PROGRESS"}
    BY <2>1 DEF IInv, Owned
  <2>3. UNCHANGED docs \/ \E status \in {"IN_PROGRESS", "COMPLETED", "FAILED"} :
                            docs' = [docs EXCEPT ![body[m]] = status]
    BY <1>3 DEF UnknownType, Dispatch, Complete, Fail, TransitionFails,
                Transition, Following
  <2> QED
    BY <2>2, <2>3 DEF Statuses
<1> QED
  BY <1>1, <1>2, <1>3 DEF Process

\* No late or concurrent run writes over a status that is final.
THEOREM TerminalStays == PipelineSpec => TerminalIsFinal
<1>1. IInv /\ [PipelineNext]_pipelineVars
        => [\A e \in Events :
              docs[e] \in {"COMPLETED", "FAILED"} => docs'[e] = docs[e]]_pipelineVars
  <2> SUFFICES ASSUME IInv, [PipelineNext]_pipelineVars,
                      NEW e \in Events, docs[e] \in {"COMPLETED", "FAILED"}
               PROVE  docs'[e] = docs[e]
    OBVIOUS
  <2>1. ASSUME NEW l \in Lambdas, NEW m \in Messages, Process(l, m)
        PROVE  docs'[e] = docs[e]
    BY <2>1, DocsMove DEF IInv, Types
  <2>2. ASSUME ~(\E l \in Lambdas, m \in Messages : Process(l, m))
        PROVE  UNCHANGED docs
    BY <2>2 DEF PipelineNext, Invocation, Redrive, Deliver, BootstrapFails, Report, Crash, pipelineVars
  <2> QED
    BY <2>1, <2>2
<1> QED
  BY <1>1, InitIInv, NextIInv, PTL DEF PipelineSpec, TerminalIsFinal

\* The trace a message leaves, and its being there before the acknowledgement.
Trace(m) == IF body[m] = Malformed THEN m \in copies \cup refused
            ELSE docs[body[m]] # "none"
Traced == \A l \in Lambdas, m \in Messages : at[l][m] = "ack" => Trace(m)

\* Every step keeps the traces there are, and acknowledges only what left one.
LEMMA NextTraced ==
  IInv /\ Traced /\ NothingVanishes /\ [PipelineNext]_pipelineVars => Traced' /\ NothingVanishes'
<1> SUFFICES ASSUME IInv, Traced, NothingVanishes, [PipelineNext]_pipelineVars
             PROVE  Traced' /\ NothingVanishes'
  OBVIOUS
<1>0. /\ body \in [Messages -> Events \cup {Malformed}]
      /\ docs \in [Events -> Statuses]
      /\ at \in [Lambdas -> [Messages -> Steps]]
      /\ Malformed \notin Events
  BY PipelineAssumption DEF IInv, Types
<1>1. ASSUME NEW l \in Lambdas, NEW m \in Messages, Process(l, m)
      PROVE  Traced' /\ NothingVanishes'
  <2>1. /\ UNCHANGED <<body, queue>>
        /\ copies \subseteq copies' /\ refused \subseteq refused'
    BY <1>1 DEF Process, Reject, Quarantine, InsertStarted, Duplicate, InsertFails, UnknownType,
                Dispatch, HandlerRefuses, SendEmail, SendFails, Complete, Fail,
                TransitionFails, Retry, PersistVerdict, sqs, dlq
  <2>2. \A e \in Events : docs[e] # "none" => docs'[e] # "none"
    BY <1>0, <1>1, DocsMove
  <2>3. ASSUME NEW n \in Messages, Trace(n) PROVE Trace(n)'
    BY <1>0, <2>1, <2>2, <2>3 DEF Trace
  <2>4. NothingVanishes'
    BY <2>1, <2>3 DEF NothingVanishes, Trace
  <2>5. PICK step \in Steps : Goto(l, m, step) /\ (step = "ack" => Trace(m)')
    <3>1. CASE Reject(l, m)
      BY <3>1, <2>1 DEF Reject, Quarantine, Trace, Steps
    <3>2. CASE ~Reject(l, m)
      <4>1. \E step \in Steps : Goto(l, m, step)
        BY <1>1, <3>2 DEF Process, InsertStarted, Duplicate, InsertFails,
             UnknownType, Dispatch, HandlerRefuses, SendEmail, SendFails, Complete,
             Fail, TransitionFails, Retry, PersistVerdict, DuplicateVerdict,
             SendFailure, Steps, Running
      <4>2. \/ InsertFails(l, m)
            \/ Trace(m)'
        <5>1. CASE InsertStarted(l, m)
          <6>1. body[m] \in Events /\ docs' = [docs EXCEPT ![body[m]] = "STARTED"]
            BY <5>1, <1>0 DEF InsertStarted, Holds
          <6> QED
            BY <6>1, <2>1, <1>0 DEF Trace
        <5>2. CASE Duplicate(l, m)
          BY <5>2, <2>3, <1>0 DEF Duplicate, EventIdFree, Holds, Trace
        <5>3. CASE at[l][m] \in Running
          BY <5>3, <2>3, <1>0 DEF IInv, Owned, Trace
        <5> QED
          BY <1>1, <3>2, <5>1, <5>2, <5>3 DEF Process, UnknownType, Dispatch,
             HandlerRefuses, SendEmail, SendFails, Complete, Fail, TransitionFails,
             Holds, Running
      <4>3. InsertFails(l, m) => Goto(l, m, "retry")
        BY DEF InsertFails, PersistVerdict, Retry
      <4> QED
        BY <4>1, <4>2, <4>3 DEF Steps
    <3> QED
      BY <3>1, <3>2
  <2>6. Traced'
    <3>1. /\ at'[l][m] = step
          /\ \A k \in Lambdas, n \in Messages :
               k # l \/ n # m => at'[k][n] = at[k][n]
      BY <1>0, <2>5, GotoMoves
    <3> QED
      BY <2>3, <2>5, <3>1 DEF Traced
  <2> QED
    BY <2>4, <2>6
<1>2. ASSUME ~(\E l \in Lambdas, m \in Messages : Process(l, m))
      PROVE  UNCHANGED <<body, docs, copies, refused>>
  BY <1>2 DEF PipelineNext, Invocation, Redrive, Deliver, BootstrapFails, Report, Crash, pipelineVars, dlq
<1>3. ASSUME UNCHANGED <<body, docs, copies, refused>>,
             \A l \in Lambdas, m \in Messages :
               at'[l][m] = "ack" => at[l][m] = "ack",
             \A m \in Messages : queue'[m] = "acked" =>
               queue[m] = "acked" \/ \E l \in Lambdas : at[l][m] = "ack"
      PROVE  Traced' /\ NothingVanishes'
  <2>1. \A m \in Messages : Trace(m)' <=> Trace(m)
    BY <1>3 DEF Trace
  <2> QED
    BY <1>3, <2>1 DEF Traced, NothingVanishes, Trace
<1>4. ASSUME NEW l \in Lambdas,
             Deliver(l) \/ BootstrapFails(l) \/ Report(l) \/ Crash(l)
      PROVE  Traced' /\ NothingVanishes'
  <2>1. PICK batch \in [Messages -> {"none", "received", "retry"}] :
          at' = [at EXCEPT ![l] = batch]
    BY <1>4 DEF Deliver, BootstrapFails, Report, Crash, NoBatch
  <2>2. \A k \in Lambdas, m \in Messages : at'[k][m] = "ack" => at[k][m] = "ack"
    BY <1>0, <2>1
  <2>3. \A m \in Messages : queue'[m] = "acked" =>
          queue[m] = "acked" \/ at[l][m] = "ack"
    BY <1>4 DEF Deliver, BootstrapFails, Report, Crash
  <2>4. UNCHANGED <<body, docs, copies, refused>>
    BY <1>4 DEF Deliver, BootstrapFails, Report, Crash, dlq
  <2> QED
    BY <1>3, <2>2, <2>3, <2>4
<1>5. ASSUME NEW m \in Messages, Redrive(m) PROVE Traced' /\ NothingVanishes'
  <2>1. /\ UNCHANGED <<body, docs, copies, refused, at>>
        /\ \A n \in Messages : queue'[n] = "acked" => queue[n] = "acked"
    BY <1>5 DEF Redrive, dlq
  <2> QED
    BY <1>3, <2>1
<1>6. CASE UNCHANGED pipelineVars
  BY <1>3, <1>6 DEF pipelineVars
<1> QED
  BY <1>1, <1>4, <1>5, <1>6 DEF PipelineNext, Invocation

\* A message SQS deletes has left its event's document or a copy for the DLQ.
THEOREM DeletedIsTraced == PipelineSpec => []NothingVanishes
<1>1. PipelineInit => Traced /\ NothingVanishes
  BY DEF PipelineInit, Traced, NothingVanishes, NoBatch
<1> QED
  BY <1>1, InitIInv, NextIInv, NextTraced, PTL DEF PipelineSpec

\* An event's one email is accounted for, whatever fails.
THEOREM EmailIsAccounted == PipelineSpec => []EmailAccounted
<1>1. OneRequest /\ CompletedMeansMailed /\ NothingVanishes => EmailAccounted
  BY DEF EmailAccounted
<1> QED
  BY <1>1, OneRequestPerEvent, CompletedIsTrue, DeletedIsTraced, PTL


-----------------------------------------------------------------------------
(* The queue's side: who holds a message, and what its deliveries are for. *)

\* A message in some batch is in flight, in that batch alone, and every delivery of it
\* but the present one came to nothing by a fault; the present one too, once the
\* record asks for another.
InFlight ==
  \A l \in Lambdas, m \in Messages : at[l][m] # "none" =>
    /\ queue[m] = "inflight"
    /\ \A k \in Lambdas : at[k][m] # "none" => k = l
    /\ receives[m] = IF at[l][m] = "retry" THEN faults[m] ELSE faults[m] + 1

QInv == PipelineTypeOK /\ InFlight /\ RetriesHaveCause

\* A record's step that is no delivery and no response: it counts a fault exactly
\* when it asks for a retry.
LEMMA RecordStep ==
  ASSUME QInv, Types', copies' \subseteq Messages, refused' \subseteq Messages,
         NEW l \in Lambdas, NEW m \in Messages, NEW step \in Steps \ {"none"},
         at[l][m] \notin {"none", "retry"}, Goto(l, m, step),
         UNCHANGED <<body, queue, receives>>,
         step # "retry" => UNCHANGED faults,
         step = "retry" => Faulted(m)
  PROVE  QInv'
<1>1. /\ at \in [Lambdas -> [Messages -> Steps]]
      /\ faults \in [Messages -> Nat] /\ receives \in [Messages -> 0 .. MaxReceives]
      /\ queue \in [Messages -> {"visible", "inflight", "acked", "dead"}]
  BY DEF QInv, PipelineTypeOK, Steps, Running
<1>2. /\ at'[l][m] = step
      /\ \A k \in Lambdas, n \in Messages : k # l \/ n # m => at'[k][n] = at[k][n]
  BY <1>1, GotoMoves
<1>3. /\ faults' \in [Messages -> Nat]
      /\ \A n \in Messages : n # m => faults'[n] = faults[n]
      /\ faults'[m] = IF step = "retry" THEN faults[m] + 1 ELSE faults[m]
  BY <1>1 DEF Faulted
<1>4. PipelineTypeOK'
  BY <1>1, <1>3 DEF QInv, PipelineTypeOK, Types, Steps, Running, Statuses
<1>5. queue[m] = "inflight" /\ receives[m] = faults[m] + 1
  BY DEF QInv, InFlight
<1>6. InFlight'
  <2> SUFFICES ASSUME NEW k \in Lambdas, NEW n \in Messages, at'[k][n] # "none"
               PROVE  /\ queue[n] = "inflight"
                      /\ \A j \in Lambdas : at'[j][n] # "none" => j = k
                      /\ receives[n] = IF at'[k][n] = "retry" THEN faults'[n] ELSE faults'[n] + 1
    BY DEF InFlight
  <2>1. at[k][n] # "none" /\ \A j \in Lambdas : at'[j][n] # "none" => at[j][n] # "none"
    BY <1>2
  <2>2. queue[n] = "inflight" /\ \A j \in Lambdas : at'[j][n] # "none" => j = k
    BY <2>1 DEF QInv, InFlight
  <2>3. CASE n = m
    <3>1. k = l
      BY <2>1, <2>3 DEF QInv, InFlight
    <3> QED
      BY <2>2, <2>3, <3>1, <1>1, <1>2, <1>3, <1>5
  <2>4. CASE n # m
    BY <2>1, <2>2, <2>4, <1>2, <1>3 DEF QInv, InFlight
  <2> QED
    BY <2>3, <2>4
<1>7. RetriesHaveCause'
  BY <1>3, <1>5 DEF QInv, RetriesHaveCause
<1> QED
  BY <1>4, <1>6, <1>7 DEF QInv

\* Every step of a record is of that kind.
LEMMA ProcessQInv ==
  ASSUME IInv, IInv', QInv, NEW l \in Lambdas, NEW m \in Messages, Process(l, m)
  PROVE  QInv'
<1>1. Types' /\ copies \subseteq Messages /\ refused \subseteq Messages
  BY DEF IInv, QInv, PipelineTypeOK
<1> USE DEF Holds, sqs, dlq, Steps, Running
<1>2. CASE Reject(l, m)
  BY <1>1, <1>2, RecordStep DEF Reject, Quarantine
<1>3. CASE InsertStarted(l, m)
  BY <1>1, <1>3, RecordStep DEF InsertStarted
<1>4. CASE Duplicate(l, m)
  BY <1>1, <1>4, RecordStep DEF Duplicate, DuplicateVerdict
<1>5. CASE InsertFails(l, m)
  BY <1>1, <1>5, RecordStep DEF InsertFails, PersistVerdict, Retry
<1>6. CASE UnknownType(l, m)
  BY <1>1, <1>6, RecordStep DEF UnknownType
<1>7. CASE Dispatch(l, m)
  BY <1>1, <1>7, RecordStep DEF Dispatch
<1>8. CASE HandlerRefuses(l, m)
  BY <1>1, <1>8, RecordStep DEF HandlerRefuses
<1>9. CASE SendEmail(l, m)
  BY <1>1, <1>9, RecordStep DEF SendEmail
<1>10. CASE SendFails(l, m)
  BY <1>1, <1>10, RecordStep DEF SendFails, SendFailure
<1>11. CASE Complete(l, m)
  BY <1>1, <1>11, RecordStep DEF Complete
<1>12. CASE Fail(l, m)
  BY <1>1, <1>12, RecordStep DEF Fail, Retry
<1>13. CASE TransitionFails(l, m)
  BY <1>1, <1>13, RecordStep DEF TransitionFails, Retry
<1> QED
  BY <1>2, <1>3, <1>4, <1>5, <1>6, <1>7, <1>8, <1>9, <1>10, <1>11, <1>12, <1>13 DEF Process

\* A delivery begins with as many faults as deliveries, and ends so when it fails.
LEMMA NextQInv == IInv /\ IInv' /\ QInv /\ [PipelineNext]_pipelineVars => QInv'
<1> SUFFICES ASSUME IInv, IInv', QInv, [PipelineNext]_pipelineVars
             PROVE  QInv'
  OBVIOUS
<1>1. /\ at \in [Lambdas -> [Messages -> Steps]]
      /\ faults \in [Messages -> Nat] /\ receives \in [Messages -> 0 .. MaxReceives]
      /\ queue \in [Messages -> {"visible", "inflight", "acked", "dead"}]
      /\ copies \subseteq Messages /\ refused \subseteq Messages
  BY DEF QInv, PipelineTypeOK, Steps, Running
<1>2. Types'
  BY DEF IInv
<1>3. CASE UNCHANGED pipelineVars
  <2>1. UNCHANGED <<body, queue, receives, faults, docs, requests, mailed, copies, refused, at>>
    BY <1>3 DEF pipelineVars
  <2> QED
    BY <2>1 DEF QInv, PipelineTypeOK, InFlight, RetriesHaveCause
<1>4. ASSUME NEW m \in Messages, Redrive(m)
      PROVE  QInv'
  <2>1. /\ UNCHANGED <<at, receives, faults, copies, refused>>
        /\ queue[m] = "visible" /\ queue'[m] = "dead"
        /\ \A n \in Messages : n # m => queue'[n] = queue[n]
        /\ queue' \in [Messages -> {"visible", "inflight", "acked", "dead"}]
    BY <1>1, <1>4 DEF Redrive, dlq
  <2>2. PipelineTypeOK'
    BY <1>1, <1>2, <2>1 DEF PipelineTypeOK, Types, Steps, Running, Statuses
  <2>3. InFlight' /\ RetriesHaveCause'
    BY <2>1 DEF QInv, InFlight, RetriesHaveCause
  <2> QED
    BY <2>2, <2>3 DEF QInv
<1>5. ASSUME NEW l \in Lambdas, Invocation(l)
      PROVE  QInv'
  <2>1. CASE Deliver(l)
    <3>1. PICK batch \in SUBSET {m \in Messages : Deliverable(m)} :
            /\ queue' = [m \in Messages |-> IF m \in batch THEN "inflight" ELSE queue[m]]
            /\ receives' = [m \in Messages |-> IF m \in batch THEN receives[m] + 1 ELSE receives[m]]
            /\ at' = [at EXCEPT ![l] = [m \in Messages |-> IF m \in batch THEN "received" ELSE "none"]]
      BY <2>1 DEF Deliver
    <3>2. /\ UNCHANGED <<faults, copies, refused>>
          /\ \A m \in Messages : at[l][m] = "none"
          /\ \A m \in batch : queue[m] = "visible" /\ receives[m] < MaxReceives
      BY <2>1 DEF Deliver, Records, Deliverable, dlq
    <3>3. /\ \A m \in Messages : at'[l][m] = IF m \in batch THEN "received" ELSE "none"
          /\ \A k \in Lambdas, m \in Messages : k # l => at'[k][m] = at[k][m]
      BY <1>1, <3>1
    <3>4. PipelineTypeOK'
      BY <1>1, <1>2, <3>1, <3>2, PipelineAssumption
      DEF PipelineTypeOK, Types, Steps, Running, Statuses
    <3>5. InFlight'
      <4> SUFFICES ASSUME NEW k \in Lambdas, NEW m \in Messages, at'[k][m] # "none"
                   PROVE  /\ queue'[m] = "inflight"
                          /\ \A j \in Lambdas : at'[j][m] # "none" => j = k
                          /\ receives'[m] = IF at'[k][m] = "retry" THEN faults'[m] ELSE faults'[m] + 1
        BY DEF InFlight
      <4>1. CASE m \in batch
        <5>1. queue[m] = "visible" /\ receives[m] = faults[m]
          BY <3>2, <4>1 DEF QInv, RetriesHaveCause
        <5>2. \A j \in Lambdas : at[j][m] = "none"
          BY <5>1 DEF QInv, InFlight
        <5>3. k = l /\ \A j \in Lambdas : at'[j][m] # "none" => j = l
          BY <5>2, <3>3
        <5> QED
          BY <1>1, <3>1, <3>2, <3>3, <4>1, <5>1, <5>3
      <4>2. CASE m \notin batch
        <5>1. k # l /\ at'[k][m] = at[k][m] /\ at'[l][m] = "none"
          BY <3>3, <4>2
        <5>2. /\ queue[m] = "inflight"
              /\ \A j \in Lambdas : at[j][m] # "none" => j = k
              /\ receives[m] = IF at[k][m] = "retry" THEN faults[m] ELSE faults[m] + 1
          BY <5>1 DEF QInv, InFlight
        <5>3. queue'[m] = queue[m] /\ receives'[m] = receives[m]
          BY <3>1, <4>2
        <5>4. \A j \in Lambdas : at'[j][m] # "none" => at[j][m] # "none"
          BY <3>3, <5>1
        <5> QED
          BY <3>2, <5>1, <5>2, <5>3, <5>4
      <4> QED
        BY <4>1, <4>2
    <3>6. RetriesHaveCause'
      <4>1. \A m \in Messages : queue'[m] \in {"visible", "dead"} => m \notin batch
        BY <3>1
      <4> QED
        BY <4>1, <3>1, <3>2 DEF QInv, RetriesHaveCause
    <3> QED
      BY <3>4, <3>5, <3>6 DEF QInv
  <2>2. CASE BootstrapFails(l)
    <3>1. /\ UNCHANGED <<queue, receives, copies, refused>>
          /\ \A m \in Messages : at[l][m] # "none" => at[l][m] = "received"
          /\ at' = [at EXCEPT ![l] = [m \in Messages |-> IF m \in Records(l) THEN "retry" ELSE "none"]]
          /\ faults' = [m \in Messages |-> IF m \in Records(l) THEN faults[m] + 1 ELSE faults[m]]
      BY <2>2 DEF BootstrapFails, Records, dlq
    <3>2. /\ \A m \in Messages : at'[l][m] = IF at[l][m] # "none" THEN "retry" ELSE "none"
          /\ \A k \in Lambdas, m \in Messages : k # l => at'[k][m] = at[k][m]
          /\ \A m \in Messages : faults'[m] = IF at[l][m] # "none" THEN faults[m] + 1 ELSE faults[m]
          /\ faults' \in [Messages -> Nat]
      BY <1>1, <3>1 DEF Records
    <3>3. PipelineTypeOK'
      BY <1>1, <1>2, <3>1, <3>2 DEF PipelineTypeOK, Types, Steps, Running, Statuses
    <3>4. InFlight'
      <4> SUFFICES ASSUME NEW k \in Lambdas, NEW m \in Messages, at'[k][m] # "none"
                   PROVE  /\ queue[m] = "inflight"
                          /\ \A j \in Lambdas : at'[j][m] # "none" => j = k
                          /\ receives[m] = IF at'[k][m] = "retry" THEN faults'[m] ELSE faults'[m] + 1
        BY <3>1 DEF InFlight
      <4>1. at[k][m] # "none" /\ \A j \in Lambdas : at'[j][m] # "none" => at[j][m] # "none"
        BY <3>2
      <4>2. /\ queue[m] = "inflight"
            /\ \A j \in Lambdas : at[j][m] # "none" => j = k
            /\ receives[m] = IF at[k][m] = "retry" THEN faults[m] ELSE faults[m] + 1
        BY <4>1 DEF QInv, InFlight
      <4>3. CASE k = l
        BY <1>1, <3>1, <3>2, <4>1, <4>2, <4>3
      <4>4. CASE k # l
        <5>1. at[l][m] = "none" /\ at'[k][m] = at[k][m] /\ faults'[m] = faults[m]
          BY <3>2, <4>2, <4>4
        <5> QED
          BY <4>1, <4>2, <5>1
      <4> QED
        BY <4>3, <4>4
    <3>5. RetriesHaveCause'
      <4>1. \A m \in Messages : queue[m] \in {"visible", "dead"} => at[l][m] = "none"
        BY DEF QInv, InFlight
      <4> QED
        BY <3>1, <3>2, <4>1 DEF QInv, RetriesHaveCause
    <3> QED
      BY <3>3, <3>4, <3>5 DEF QInv
  <2>3. CASE Report(l)
    <3>1. /\ UNCHANGED <<receives, faults, copies, refused>>
          /\ \A m \in Messages : at[l][m] \in {"none", "ack", "retry"}
          /\ \A m \in Messages : queue'[m] = CASE at[l][m] = "ack" -> "acked"
                                               [] at[l][m] = "retry" -> "visible"
                                               [] OTHER -> queue[m]
          /\ queue' \in [Messages -> {"visible", "inflight", "acked", "dead"}]
      BY <1>1, <2>3 DEF Report, Records, dlq
    <3>2. /\ \A m \in Messages : at'[l][m] = "none"
          /\ \A k \in Lambdas, m \in Messages : k # l => at'[k][m] = at[k][m]
      BY <1>1, <2>3 DEF Report, NoBatch
    <3>3. PipelineTypeOK'
      BY <1>1, <1>2, <3>1 DEF PipelineTypeOK, Types, Steps, Running, Statuses
    <3>4. InFlight'
      BY <3>1, <3>2 DEF QInv, InFlight
    <3>5. RetriesHaveCause'
      BY <3>1 DEF QInv, InFlight, RetriesHaveCause
    <3> QED
      BY <3>3, <3>4, <3>5 DEF QInv
  <2>4. CASE Crash(l)
    <3>1. /\ UNCHANGED <<receives, copies, refused>>
          /\ \A m \in Messages : queue'[m] = IF at[l][m] # "none" THEN "visible" ELSE queue[m]
          /\ \A m \in Messages : faults'[m] = IF at[l][m] \notin {"none", "retry"} THEN faults[m] + 1
                                              ELSE faults[m]
          /\ queue' \in [Messages -> {"visible", "inflight", "acked", "dead"}]
          /\ faults' \in [Messages -> Nat]
      BY <1>1, <2>4 DEF Crash, Records, dlq
    <3>2. /\ \A m \in Messages : at'[l][m] = "none"
          /\ \A k \in Lambdas, m \in Messages : k # l => at'[k][m] = at[k][m]
      BY <1>1, <2>4 DEF Crash, NoBatch
    <3>3. PipelineTypeOK'
      BY <1>1, <1>2, <3>1 DEF PipelineTypeOK, Types, Steps, Running, Statuses
    <3>4. InFlight'
      BY <3>1, <3>2 DEF QInv, InFlight
    <3>5. RetriesHaveCause'
      BY <1>1, <3>1 DEF QInv, InFlight, RetriesHaveCause
    <3> QED
      BY <3>3, <3>4, <3>5 DEF QInv
  <2>5. ASSUME NEW m \in Messages, Process(l, m)
        PROVE  QInv'
    BY <2>5, ProcessQInv
  <2> QED
    BY <1>5, <2>1, <2>2, <2>3, <2>4, <2>5 DEF Invocation
<1> QED
  BY <1>3, <1>4, <1>5 DEF PipelineNext

LEMMA QInvHolds == PipelineSpec => []QInv
<1>1. PipelineInit => QInv
  BY PipelineAssumption DEF PipelineInit, QInv, PipelineTypeOK, InFlight, RetriesHaveCause, NoBatch
<1>2. PipelineInit => IInv
  BY InitIInv
<1>3. IInv /\ QInv /\ [PipelineNext]_pipelineVars => (IInv /\ QInv)'
  BY NextIInv, NextQInv
<1> QED
  BY <1>1, <1>2, <1>3, PTL DEF PipelineSpec

\* The statuses, queue states, counters and steps stay those the code has (handler,
\* processRecord).
THEOREM TypeCorrect == PipelineSpec => []PipelineTypeOK
<1>1. QInv => PipelineTypeOK
  BY DEF QInv
<1> QED
  BY <1>1, QInvHolds, PTL

\* However many messages and invocations there are, a message is delivered again only
\* for as many faults: what is reported as batchItemFailures is what failed (handler).
THEOREM RetriesAreCaused == PipelineSpec => []RetriesHaveCause
<1>1. QInv => RetriesHaveCause
  BY DEF QInv
<1> QED
  BY <1>1, QInvHolds, PTL
=============================================================================

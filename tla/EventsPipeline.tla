---------------------------- MODULE EventsPipeline ----------------------------
(***************************************************************************)
(* The events-pipeline Lambda: SQS hands an invocation a batch of messages, *)
(* the records are processed concurrently, and the response names those to *)
(* be delivered again.  A record is one event's life in DocumentDB         *)
(* (STARTED, IN_PROGRESS, then COMPLETED or FAILED) around the handler that *)
(* renders and sends its email.                                            *)
(*                                                                         *)
(* Several messages may carry one event: a producer's outbox publishes at  *)
(* least once, and SQS delivers at least once.  One message is with one    *)
(* invocation at a time, for the queue's visibility timeout is six times   *)
(* the Lambda's.  Of a handler, the model has the call to SES; the push to *)
(* the sockets never fails a record and is left out.                       *)
(***************************************************************************)
EXTENDS Naturals, FiniteSets

CONSTANTS Messages,     \* the messages on the events queue
          Events,       \* the event ids
          Unhandled,    \* the events of a type with no handler
          Invalid,      \* the events whose payload or template is refused
          Malformed,    \* what a body that is no envelope carries
          Lambdas,      \* the concurrent invocations
          BatchSize,    \* messages per invocation
          MaxReceives   \* deliveries before SQS moves a message to the DLQ

ASSUME PipelineAssumption == /\ BatchSize \in Nat \ {0}
                             /\ MaxReceives \in Nat \ {0}
                             /\ Malformed \notin Events

VARIABLES body,       \* per message: its event, or Malformed; never changes
          queue,      \* per message: where SQS has it
          receives,   \* per message: how often it was delivered
          faults,     \* per message: how many deliveries an outage or a crash
                      \* took (a history variable)
          docs,       \* per event: the status of its document
          requests,   \* per event: how often SES was asked to send its email
          mailed,     \* the events whose email SES took
          copies,     \* the messages whose body was copied to the DLQ
          refused,    \* the messages whose copy failed
          at          \* per invocation and message: the step of the record
pipelineVars == <<body, queue, receives, faults, docs, requests, mailed, copies,
                  refused, at>>
sqs == <<queue, receives, faults>>
dlq == <<copies, refused>>
mail == <<requests, mailed>>

NoBatch == [m \in Messages |-> "none"]
Records(l) == {m \in Messages : at[l][m] # "none"}

PipelineInit ==
  /\ body \in [Messages -> Events \cup {Malformed}]
  /\ queue = [m \in Messages |-> "visible"]
  /\ receives = [m \in Messages |-> 0]
  /\ faults = receives
  /\ docs = [e \in Events |-> "none"]
  /\ requests = [e \in Events |-> 0]
  /\ mailed = {}
  /\ copies = {}
  /\ refused = {}
  /\ at = [l \in Lambdas |-> NoBatch]

Goto(l, m, step) == at' = [at EXCEPT ![l][m] = step]
Faulted(m) == faults' = [faults EXCEPT ![m] = @ + 1]
Retry(l, m) == /\ Goto(l, m, "retry")
               /\ Faulted(m)
               /\ UNCHANGED <<queue, receives>>

-----------------------------------------------------------------------------
(* SQS: the batch an invocation gets, and what becomes of its response. *)

\* Mutant: a queue with no redrive policy.
NeverExhausted(m) == FALSE

\* maxReceiveCount deliveries came to nothing.
Exhausted(m) == receives[m] >= MaxReceives

Deliverable(m) == queue[m] = "visible" /\ receives[m] < MaxReceives

Deliver(l) ==
  /\ Records(l) = {}
  /\ \E batch \in SUBSET {m \in Messages : Deliverable(m)} :
       /\ Cardinality(batch) \in 1..BatchSize
       /\ queue' = [m \in Messages |-> IF m \in batch THEN "inflight" ELSE queue[m]]
       /\ receives' = [m \in Messages |->
                         IF m \in batch THEN receives[m] + 1 ELSE receives[m]]
       /\ at' = [at EXCEPT ![l] =
                   [m \in Messages |-> IF m \in batch THEN "received" ELSE "none"]]
  /\ UNCHANGED <<body, faults, docs, mail, dlq>>

Redrive(m) ==
  /\ queue[m] = "visible" /\ Exhausted(m)
  /\ queue' = [queue EXCEPT ![m] = "dead"]
  /\ UNCHANGED <<body, receives, faults, docs, mail, dlq, at>>

\* The response lists the records to be delivered again; SQS deletes the rest.
Report(l) ==
  /\ Records(l) # {}
  /\ \A m \in Records(l) : at[l][m] \in {"ack", "retry"}
  /\ queue' = [m \in Messages |->
       CASE at[l][m] = "ack" -> "acked"
         [] at[l][m] = "retry" -> "visible"
         [] OTHER -> queue[m]]
  /\ at' = [at EXCEPT ![l] = NoBatch]
  /\ UNCHANGED <<body, receives, faults, docs, mail, dlq>>

\* The invocation is killed or times out: it answers nothing, and the whole
\* batch becomes visible again, the records it was done with as well.
Crash(l) ==
  /\ Records(l) # {}
  /\ queue' = [m \in Messages |-> IF m \in Records(l) THEN "visible" ELSE queue[m]]
  /\ faults' = [m \in Messages |->
       IF m \in Records(l) /\ at[l][m] # "retry" THEN faults[m] + 1 ELSE faults[m]]
  /\ at' = [at EXCEPT ![l] = NoBatch]
  /\ UNCHANGED <<body, receives, docs, mail, dlq>>

\* DocumentDB cannot be reached: every record of the batch is reported failed.
BootstrapFails(l) ==
  /\ Records(l) # {}
  /\ \A m \in Records(l) : at[l][m] = "received"
  /\ at' = [at EXCEPT ![l] = [m \in Messages |->
       IF m \in Records(l) THEN "retry" ELSE "none"]]
  /\ faults' = [m \in Messages |->
       IF m \in Records(l) THEN faults[m] + 1 ELSE faults[m]]
  /\ UNCHANGED <<body, queue, receives, docs, mail, dlq>>

-----------------------------------------------------------------------------
(* One record: processRecordSafely, processOneRecord and processRecord. *)

Holds(l, m, step) == at[l][m] = step /\ body[m] # Malformed

\* Best effort: a failure to copy the body is swallowed.
Quarantine(m) == \/ copies' = copies \cup {m} /\ UNCHANGED refused
                 \/ refused' = refused \cup {m} /\ UNCHANGED copies

\* A body that is no envelope is copied to the DLQ and acknowledged.
Reject(l, m) ==
  /\ at[l][m] = "received" /\ body[m] = Malformed
  /\ Quarantine(m)
  /\ Goto(l, m, "ack")
  /\ UNCHANGED <<body, sqs, docs, mail>>

\* Mutant: the insert replaces a document that is there.
EventIdFreeForAll(e) == TRUE

\* The unique index on event_id.
EventIdFree(e) == docs[e] = "none"

InsertStarted(l, m) ==
  /\ Holds(l, m, "received")
  /\ EventIdFree(body[m])
  /\ docs' = [docs EXCEPT ![body[m]] = "STARTED"]
  /\ Goto(l, m, "started")
  /\ UNCHANGED <<body, sqs, mail, dlq>>

\* Mutant: DuplicateEventError is no PermanentError.
DuplicateRetried(l, m) == Goto(l, m, "retry")

\* "We already did this": skipped, and acknowledged.
DuplicateVerdict(l, m) == Goto(l, m, "ack")

Duplicate(l, m) ==
  /\ Holds(l, m, "received")
  /\ ~EventIdFree(body[m])
  /\ DuplicateVerdict(l, m)
  /\ UNCHANGED <<body, sqs, docs, mail, dlq>>

\* An unclassified error is transient.
PersistVerdict(l, m) == Retry(l, m)

\* The insert fails, though it may have reached DocumentDB.
InsertFails(l, m) ==
  /\ Holds(l, m, "received")
  /\ \/ EventIdFree(body[m]) /\ docs' = [docs EXCEPT ![body[m]] = "STARTED"]
     \/ UNCHANGED docs
  /\ PersistVerdict(l, m)
  /\ UNCHANGED <<body, mail, dlq>>

Transition(m, status) == docs' = [docs EXCEPT ![body[m]] = status]

UnknownType(l, m) ==
  /\ Holds(l, m, "started") /\ body[m] \in Unhandled
  /\ Transition(m, "FAILED")
  /\ Goto(l, m, "ack")
  /\ UNCHANGED <<body, sqs, mail, dlq>>

Dispatch(l, m) ==
  /\ Holds(l, m, "started") /\ body[m] \notin Unhandled
  /\ Transition(m, "IN_PROGRESS")
  /\ Goto(l, m, "dispatched")
  /\ UNCHANGED <<body, sqs, mail, dlq>>

PayloadRefused(m) == body[m] \in Invalid

\* The handler refuses the payload, or finds no template for it.
HandlerRefuses(l, m) ==
  /\ Holds(l, m, "dispatched") /\ PayloadRefused(m)
  /\ Goto(l, m, "permanent")
  /\ UNCHANGED <<body, sqs, docs, mail, dlq>>

Request(m) == requests' = [requests EXCEPT ![body[m]] = @ + 1]

SendEmail(l, m) ==
  /\ Holds(l, m, "dispatched") /\ ~PayloadRefused(m)
  /\ Request(m)
  /\ mailed' = mailed \cup {body[m]}
  /\ Goto(l, m, "sent")
  /\ UNCHANGED <<body, sqs, docs, dlq>>

\* Mutant: an SES failure is logged and swallowed.
SendFailureSwallowed(l, m) == Goto(l, m, "sent")

\* sendEmail throws a TransientError.
SendFailure(l, m) == Goto(l, m, "transient")

\* The rendering throws, or SES fails though it may have taken the email.
SendFails(l, m) ==
  /\ Holds(l, m, "dispatched") /\ ~PayloadRefused(m)
  /\ \/ UNCHANGED mail
     \/ Request(m) /\ mailed' \in {mailed, mailed \cup {body[m]}}
  /\ SendFailure(l, m)
  /\ UNCHANGED <<body, sqs, docs, dlq>>

Complete(l, m) ==
  /\ Holds(l, m, "sent")
  /\ Transition(m, "COMPLETED")
  /\ Goto(l, m, "ack")
  /\ UNCHANGED <<body, sqs, mail, dlq>>

\* The failure is recorded; only a permanent one is acknowledged.
Fail(l, m) ==
  /\ \/ Holds(l, m, "permanent") /\ Goto(l, m, "ack") /\ UNCHANGED sqs
     \/ Holds(l, m, "transient") /\ Retry(l, m)
  /\ Transition(m, "FAILED")
  /\ UNCHANGED <<body, mail, dlq>>

\* What the update after a step would write.
Following(m, step) ==
  CASE step = "started" -> IF body[m] \in Unhandled THEN "FAILED" ELSE "IN_PROGRESS"
    [] step = "sent" -> "COMPLETED"
    [] OTHER -> "FAILED"

\* A status update throws, though it may have landed: the record is retried.
TransitionFails(l, m) ==
  /\ \E step \in {"started", "sent", "permanent", "transient"} :
       /\ Holds(l, m, step)
       /\ Transition(m, Following(m, step)) \/ UNCHANGED docs
  /\ Retry(l, m)
  /\ UNCHANGED <<body, mail, dlq>>

Process(l, m) ==
  \/ Reject(l, m) \/ InsertStarted(l, m) \/ Duplicate(l, m) \/ InsertFails(l, m)
  \/ UnknownType(l, m) \/ Dispatch(l, m) \/ HandlerRefuses(l, m)
  \/ SendEmail(l, m) \/ SendFails(l, m) \/ Complete(l, m) \/ Fail(l, m)
  \/ TransitionFails(l, m)

\* One call of the handler, from its batch to its response.
Invocation(l) == \/ Deliver(l) \/ BootstrapFails(l) \/ Report(l) \/ Crash(l)
                 \/ \E m \in Messages : Process(l, m)

PipelineNext == \/ \E m \in Messages : Redrive(m)
                \/ \E l \in Lambdas : Invocation(l)

PipelineSpec == PipelineInit /\ [][PipelineNext]_pipelineVars

\* SQS polls for as long as it has messages, and an invocation goes on until it
\* answers: if nothing else, its timeout ends it.
Fairness ==
  /\ \A m \in Messages : WF_pipelineVars(Redrive(m))
  /\ \A l \in Lambdas :
       /\ WF_pipelineVars(Deliver(l))
       /\ WF_pipelineVars(Report(l) \/ Crash(l) \/ \E m \in Messages : Process(l, m))
PipelineFairSpec == PipelineSpec /\ Fairness

-----------------------------------------------------------------------------
(* What the pipeline promises. *)

\* Type invariant: a document status, a queue state or a step of the code's.
PipelineTypeOK ==
  /\ body \in [Messages -> Events \cup {Malformed}]
  /\ queue \in [Messages -> {"visible", "inflight", "acked", "dead"}]
  /\ receives \in [Messages -> 0..MaxReceives]
  /\ faults \in [Messages -> Nat]
  /\ docs \in [Events -> {"none", "STARTED", "IN_PROGRESS", "COMPLETED", "FAILED"}]
  /\ requests \in [Events -> Nat]
  /\ mailed \subseteq Events
  /\ copies \subseteq Messages
  /\ refused \subseteq Messages
  /\ at \in [Lambdas -> [Messages ->
       {"none", "received", "started", "dispatched", "sent", "permanent",
        "transient", "ack", "retry"}]]

\* However often an event is published, delivered, retried or processed by two
\* invocations at once, SES is asked for its email once at most (the unique
\* index on event_id, claimed before dispatch).
OneRequest == \A e \in Events : requests[e] <= 1

\* A COMPLETED document stands for an email SES took, whatever failed on the
\* way (processRecord).
CompletedMeansMailed == \A e \in Events : docs[e] = "COMPLETED" => e \in mailed

\* What SQS deletes leaves a trace: the document of its event, or its body in
\* the DLQ unless that write failed too (persist before dispatch, quarantine).
NothingVanishes ==
  \A m \in Messages : queue[m] = "acked" =>
    IF body[m] = Malformed THEN m \in copies \cup refused
    ELSE docs[body[m]] # "none"

\* The documents and the queue tell what became of an event's one email
\* (processRecord, ensureIndexes, quarantine).
EmailAccounted == OneRequest /\ CompletedMeansMailed /\ NothingVanishes

\* A message is delivered again, and in the end redriven to the DLQ, only for
\* as many outages or crashes: neither a sibling of its batch that failed nor an
\* event that was processed already sends it there.
RetriesHaveCause ==
  \A m \in Messages : queue[m] \in {"visible", "dead"} => receives[m] = faults[m]

\* Once COMPLETED or FAILED, a document keeps that status: no second run of the
\* event, late or concurrent, writes over it.
TerminalIsFinal ==
  [][\A e \in Events : docs[e] \in {"COMPLETED", "FAILED"} => docs'[e] = docs[e]]_pipelineVars

\* Every message leaves the queue, acknowledged or redriven, whatever keeps
\* failing.
Settled == \A m \in Messages : <>(queue[m] \in {"acked", "dead"})

\* An email SES failed to take is retried, and is never consumed unsent (the
\* comments in email/sender.ts and the handlers).
TransientIsNotConsumed ==
  \A m \in Messages :
    queue[m] = "acked" /\ body[m] \in Events \ (Unhandled \cup Invalid)
      => (docs[body[m]] = "FAILED" => body[m] \in mailed)
=============================================================================

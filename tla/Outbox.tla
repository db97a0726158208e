-------------------------------- MODULE Outbox --------------------------------
(***************************************************************************)
(* The Tracking service's transactional outbox: the rows its transitions   *)
(* store, and the pollers, one per task, that claim them, publish them to  *)
(* SNS and delete them.  A cycle is one transaction that stays open while  *)
(* it publishes: the claim locks its rows, every message is then handled,  *)
(* oldest first, and only the commit makes the deletes and the reschedules *)
(* real.  Whatever goes wrong in between rolls them back; the loop does not *)
(* stop for a transaction it has lost, and publishes the rest of its batch *)
(* with no row locked.                                                     *)
(*                                                                         *)
(* A message is the rank of its created_at.                                *)
(***************************************************************************)
EXTENDS Naturals, FiniteSets

CONSTANTS Messages,     \* the messages ever stored
          Pollers,      \* the tasks, each running one poller
          BatchSize,    \* how many rows a claim takes
          MaxAttempts   \* failed publishes after which a message is discarded

ASSUME OutboxAssumption == /\ Messages \subseteq Nat
                           /\ BatchSize \in Nat \ {0}
                           /\ MaxAttempts \in Nat \ {0}

VARIABLES table,      \* per message: not stored yet, pending in the table, gone
          attempts,   \* times_attempted
          due,        \* the messages whose scheduled_at has come
          claimed,    \* per poller: the rows its open transaction has locked
          todo,       \* per poller: the messages it claimed and has yet to handle
          spent,      \* per poller: those whose attempts, as claimed, are used up
          removed,    \* per poller: its uncommitted deletes
          retried,    \* per poller: its uncommitted reschedules
          receipt,    \* per message: what SNS has of it (see below)
          duplicates  \* history: the messages published again, by a poller that
                      \* held their row, although SNS had them and their deletion
                      \* was on its way or done
rows == <<table, attempts, due>>
batch == <<claimed, todo, spent, removed, retried>>
outboxVars == <<rows, batch, receipt, duplicates>>

(* receipt[m] is "none" until SNS takes the message, "sent" once it has and *)
(* the poller's delete followed, and "unsettled" when SNS has it but the    *)
(* row stays: the call was reported as failed, the delete failed or the     *)
(* transaction rolled back.                                                 *)

Pending == {m \in Messages : table[m] = "pending"}

OutboxInit ==
  /\ table = [m \in Messages |-> "absent"]
  /\ attempts = [m \in Messages |-> 0]
  /\ due = Messages
  /\ claimed = [p \in Pollers |-> {}]
  /\ todo = claimed
  /\ spent = claimed
  /\ removed = claimed
  /\ retried = claimed
  /\ receipt = [m \in Messages |-> "none"]
  /\ duplicates = {}

\* ApplyTransition commits a message, due at once.
StoreRow(m) ==
  /\ table[m] = "absent"
  /\ table' = [table EXCEPT ![m] = "pending"]
  /\ UNCHANGED <<attempts, due, batch, receipt, duplicates>>

\* Mutant: a plain SELECT, which neither takes nor respects a lock.
NoneLocked == {}

\* FOR UPDATE SKIP LOCKED: the rows another transaction holds are passed over.
Locked == UNION {claimed[p] : p \in Pollers}

\* Mutant: scheduled_at compared with a clock that drops the milliseconds,
\* which a rescheduled row is always ahead of.
NotScheduledAgain(m) == attempts[m] = 0

\* scheduled_at <= UTC_TIMESTAMP(3) comes true as time goes by.
Scheduled(m) == TRUE

FallDue(m) ==
  /\ m \in Pending \ due
  /\ Scheduled(m)
  /\ due' = due \cup {m}
  /\ UNCHANGED <<table, attempts, batch, receipt, duplicates>>

\* The oldest due rows nobody holds, at most BatchSize of them.
Batch == LET free == (Pending \cap due) \ Locked
         IN {m \in free : Cardinality({n \in free : n < m}) < BatchSize}

Exhausted(m) == attempts[m] >= MaxAttempts

\* No cycle of p is under way, and one starts.
Claim(p) ==
  /\ claimed[p] = {} /\ todo[p] = {}
  /\ Batch # {}
  /\ claimed' = [claimed EXCEPT ![p] = Batch]
  /\ todo' = [todo EXCEPT ![p] = Batch]
  /\ spent' = [spent EXCEPT ![p] = {m \in Batch : Exhausted(m)}]
  /\ UNCHANGED <<rows, removed, retried, receipt, duplicates>>

-----------------------------------------------------------------------------
(* handle: one message of the batch, in the order the claim read them.  The *)
(* statements on its row work while the transaction does.                   *)

NextOf(p, m) == m \in todo[p] /\ \A n \in todo[p] : m <= n
ToPublish(p, m) == NextOf(p, m) /\ m \notin spent[p]
ToDiscard(p, m) == NextOf(p, m) /\ m \in spent[p]

\* p's transaction is open: the row is still its own.
Holds(p, m) == m \in claimed[p]

RemoveRow(p, m) == Holds(p, m) /\ removed' = [removed EXCEPT ![p] = @ \cup {m}]

RetryLater(p, m) ==
  Holds(p, m) /\ retried' = [retried EXCEPT ![p] = @ \cup {m}] /\ UNCHANGED removed

Done(p, m) == /\ todo' = [todo EXCEPT ![p] = @ \ {m}]
              /\ spent' = [spent EXCEPT ![p] = @ \ {m}]

\* SNS takes the message.  A poller without the row takes nothing back of what the
\* one that has it did.
Taken(p, m, outcome) ==
  /\ receipt' = [receipt EXCEPT ![m] =
       IF @ = "sent" /\ ~Holds(p, m) THEN @ ELSE outcome]
  /\ duplicates' = IF receipt[m] = "sent" /\ Holds(p, m)
                   THEN duplicates \cup {m} ELSE duplicates

Publish(p, m) ==
  /\ ToPublish(p, m)
  /\ Taken(p, m, "sent")
  /\ RemoveRow(p, m)
  /\ Done(p, m)
  /\ UNCHANGED <<rows, claimed, retried>>

\* Published, and the delete fails: logged, and the row stays.
PublishKept(p, m) ==
  /\ ToPublish(p, m)
  /\ Taken(p, m, "unsettled")
  /\ Done(p, m)
  /\ UNCHANGED <<rows, claimed, removed, retried>>

\* The call fails, though SNS may have taken the message before it did.
PublishFails(p, m) ==
  /\ ToPublish(p, m)
  /\ Taken(p, m, "unsettled") \/ UNCHANGED <<receipt, duplicates>>
  /\ RetryLater(p, m)
  /\ Done(p, m)
  /\ UNCHANGED <<rows, claimed>>

Discard(p, m) ==
  /\ ToDiscard(p, m)
  /\ RemoveRow(p, m)
  /\ Done(p, m)
  /\ UNCHANGED <<rows, claimed, retried, receipt, duplicates>>

\* The call fails and so does the reschedule, or a discard's delete: the row
\* keeps its counter and stays due.
Keep(p, m) ==
  /\ NextOf(p, m)
  /\ (Taken(p, m, "unsettled") /\ ToPublish(p, m)) \/ UNCHANGED <<receipt, duplicates>>
  /\ Done(p, m)
  /\ UNCHANGED <<rows, claimed, removed, retried>>

-----------------------------------------------------------------------------
Unlock(p) == /\ claimed' = [claimed EXCEPT ![p] = {}]
             /\ removed' = [removed EXCEPT ![p] = {}]
             /\ retried' = [retried EXCEPT ![p] = {}]

\* The cycle is over.
Release(p) == /\ Unlock(p)
              /\ todo' = [todo EXCEPT ![p] = {}]
              /\ spent' = [spent EXCEPT ![p] = {}]

Commit(p) ==
  /\ claimed[p] # {} /\ todo[p] = {}
  /\ table' = [m \in Messages |->
       IF m \in removed[p] THEN "gone" ELSE table[m]]
  /\ attempts' = [m \in Messages |->
       IF m \in retried[p] THEN attempts[m] + 1 ELSE attempts[m]]
  /\ due' = due \ retried[p]
  /\ Release(p)
  /\ UNCHANGED <<receipt, duplicates>>

\* The rows are as they were, also those of messages SNS has.
UndoDeletes(p) ==
  /\ receipt' = [m \in Messages |->
       IF m \in removed[p] /\ receipt[m] = "sent" THEN "unsettled" ELSE receipt[m]]
  /\ UNCHANGED <<rows, duplicates>>

\* The commit fails, or the task dies.
Rollback(p) ==
  /\ claimed[p] \cup todo[p] # {}
  /\ UndoDeletes(p)
  /\ Release(p)

\* The connection is lost, or the cycle's 30 seconds run out, in the middle of the
\* batch: the rows are anybody's again, and the loop goes on with the rest.
LoseTransaction(p) ==
  /\ claimed[p] # {} /\ todo[p] # {}
  /\ UndoDeletes(p)
  /\ Unlock(p)
  /\ UNCHANGED <<todo, spent>>

Handle(p, m) == \/ Publish(p, m) \/ PublishKept(p, m) \/ PublishFails(p, m)
                \/ Discard(p, m) \/ Keep(p, m)

OutboxNext ==
  \/ \E m \in Messages : StoreRow(m) \/ FallDue(m)
  \/ \E p \in Pollers : \/ Claim(p) \/ Commit(p) \/ Rollback(p) \/ LoseTransaction(p)
                        \/ \E m \in Messages : Handle(p, m)

OutboxSpec == OutboxInit /\ [][OutboxNext]_outboxVars

\* The tickers fire and time passes; and of the statements on one row, and the
\* commits they are part of, not all fail for ever.
Fairness ==
  /\ \A p \in Pollers :
       WF_outboxVars(\/ Claim(p) \/ Commit(p) \/ Rollback(p)
               \/ \E m \in Messages : Handle(p, m))
  /\ \A m \in Messages :
       /\ WF_outboxVars(FallDue(m))
       /\ SF_outboxVars(\E p \in Pollers :
                    Publish(p, m) \/ PublishFails(p, m) \/ Discard(p, m))
       /\ SF_outboxVars(\E p \in Pollers : m \in removed[p] \cup retried[p] /\ Commit(p))
OutboxFairSpec == OutboxSpec /\ Fairness

-----------------------------------------------------------------------------
(* What the outbox promises. *)

\* Type invariant: a discarded message has failed MaxAttempts times, no more.
OutboxTypeOK ==
  /\ table \in [Messages -> {"absent", "pending", "gone"}]
  /\ attempts \in [Messages -> 0..MaxAttempts]
  /\ due \subseteq Messages
  /\ claimed \in [Pollers -> SUBSET Messages]
  /\ todo \in [Pollers -> SUBSET Messages]
  /\ spent \in [Pollers -> SUBSET Messages]
  /\ removed \in [Pollers -> SUBSET Messages]
  /\ retried \in [Pollers -> SUBSET Messages]
  /\ receipt \in [Messages -> {"none", "sent", "unsettled"}]
  /\ duplicates \subseteq Messages

\* However many tasks poll, one whose transaction is open publishes a message that
\* SNS has only when the deletion of its row came to nothing (the claim's FOR UPDATE
\* SKIP LOCKED held until after publishing: "exactly the duplicate SKIP LOCKED is
\* here to prevent").  What else goes out twice is the rest of the batch of a poller
\* that lost its transaction and went on.
NoNeedlessDuplicate == duplicates = {}

\* A message leaves the table only once SNS has it, or after MaxAttempts
\* attempts that failed: no rollback, failed statement or crash loses one
\* (handle and discard).
NothingLost ==
  \A m \in Messages :
    table[m] = "gone" => receipt[m] # "none" \/ attempts[m] = MaxAttempts

\* Sent at least once, and twice only for a lost or undone transaction: what the
\* claim's lock, held until after publishing, buys (RunOnce).
SentAsPromised == NoNeedlessDuplicate /\ NothingLost

\* Again and again the table is empty: every message is delivered or discarded,
\* and a poison message does not hold the others up for ever (retryLater and
\* MaxAttempts).
Drained == []<>(\A m \in Messages : table[m] # "pending")
=============================================================================

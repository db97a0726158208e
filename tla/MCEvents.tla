------------------------------- MODULE MCEvents -------------------------------
\* What becomes of an order's progress: the Tracking service that records it, and
\* the pipeline that mails it.  A queue lies between them, which takes and delivers
\* in any order, so each is explored on its own.
EXTENDS Tracking, EventsPipeline

VARIABLE focus

MCInit == /\ Init /\ PipelineInit /\ focus \in {"tracking", "pipeline"}
          /\ focus = "tracking" => \A m \in Messages : body[m] = Malformed

MCNext == \/ focus = "tracking" /\ Next /\ UNCHANGED <<focus, pipelineVars>>
          \/ focus = "pipeline" /\ PipelineNext /\ UNCHANGED <<focus, vars>>

MCSpec == MCInit /\ [][MCNext]_<<focus, vars, pipelineVars>>

\* The fairness of each part.  Nothing of Tracking's run is enabled while the pipeline
\* is explored, for nothing has begun it.
MCFairSpec == MCSpec /\ WF_vars(RunStep) /\ (focus = "pipeline" => Fairness)

\* Every message leaves the queue, acknowledged or redriven, whatever keeps failing
\* (Settled, of the behaviours that explore the pipeline).
MessagesSettle == focus = "pipeline" => Settled
=============================================================================

------------------------- MODULE SchedulerRefinement -------------------------
(***************************************************************************)
(* SerialScheduler implements SerialExecution, as long as nothing cancels  *)
(* the consumer.  A call waits in the abstract line while it is in the     *)
(* queue and not marked cancelled; a call that its caller gave up on but   *)
(* that is not marked yet still stands in line, and may still be computed. *)
(* The tickets are the times at which jobs were put in the queue.          *)
(***************************************************************************)
EXTENDS SerialScheduler

PhaseOf(j) ==
    IF submit[j] = "new" THEN "new"
    ELSE IF work[j] \in {"pending", "running"} THEN "computing"
    ELSE IF work[j] \in {"value", "error"} THEN "computed"
    ELSE IF j \in Drained /\ ~cancelled[j] THEN "waiting"
    ELSE "gone"

AbstractPhase == [j \in Jobs |-> PhaseOf(j)]

Execution == INSTANCE SerialExecution
                WITH last <- clock, ticket <- enqueuedAt, phase <- AbstractPhase

\* Every fair behaviour of the scheduler is one of the abstract line: calls are
\* computed in order, one at a time, at most once and never after leaving, and
\* the line moves (scheduler.py:47, 130-165).
ImplementsSerialExecution == Execution!FairExecSpec
=============================================================================

--------------------------- MODULE SerialScheduler ---------------------------
(***************************************************************************)
(* The bounded FIFO scheduler of src/maas_tokenizer/scheduler.py.          *)
(*                                                                         *)
(* Every coroutine of the class runs on one event loop, so a step of the   *)
(* loop is the code between two awaits: of the `submit` coroutine of a     *)
(* job, of the consumer task, or of `close`.  The executor's one thread is *)
(* the only actor outside the loop.  A job is one call of `submit`; it     *)
(* never comes back, so Jobs bounds the number of calls.                   *)
(*                                                                         *)
(* Where the code loops without suspending (the consumer skipping jobs     *)
(* that gave up, `close` draining the queue) the whole loop is one step.   *)
(*                                                                         *)
(* A definition whose name begins with Bug is a wrong variant of the one   *)
(* after it.  Nothing uses them: each is a mistake the code could contain, *)
(* and some property fails when it takes the place of the right one.       *)
(***************************************************************************)
EXTENDS Integers, Sequences, FiniteSets

CONSTANTS
    Jobs,                \* the calls of submit
    QueueSize,           \* maxsize of the asyncio.Queue
    MaxConsumerCancels,  \* bound: how often something cancels the consumer task
    None,                \* no job
    Stop                 \* the _STOP item

ASSUME ItemsAssumption == None \notin Jobs /\ Stop \notin Jobs
ASSUME QueueSizeAssumption == QueueSize \in Nat \ {0}
ASSUME CancelsAssumption == MaxConsumerCancels \in Nat

VARIABLES
    queue,       \* _queue: jobs and the stop item, oldest first
    unfinished,  \* _queue._unfinished_tasks: put and not yet task_done
    clock,       \* perf_counter, as far as it orders the enqueued jobs
    enqueuedAt,  \* job.enqueued_at; 0 before the put
    cancelled,   \* job.cancelled
    started,     \* job.started: the future submit waits for first
    completed,   \* job.completed: the future submit waits for next
    submit,      \* where each call of submit is, or how it ended
    consumer,    \* the consumer task
    current,     \* the consumer's job, or None
    active,      \* whether active_started_at is set
    backlog,     \* work items handed to the executor, not yet picked up
    thread,      \* the job the executor's thread is running, or None
    work,        \* the executor's future of each job's call
    closed,      \* _closed
    closer,      \* where close() is
    cancels      \* consumer cancellations so far

queueVars == <<queue, unfinished, clock, enqueuedAt>>
futureVars == <<cancelled, started, completed>>
consumerVars == <<consumer, current, active>>
executorVars == <<backlog, thread, work>>
closeVars == <<closed, closer>>
vars == <<queueVars, futureVars, submit, consumerVars, executorVars, closeVars, cancels>>

\* A call of submit is not made yet, or in wait_for, or in wait_for after the
\* timer (expiring) or a task cancellation (aborting) won but before
\* job.cancelled is set, or waiting for job.completed, or answered.
InWaitFor == {"waiting", "expiring", "aborting"}
Answers == {"not_running", "queue_full", "queue_timeout", "cancelled", "value", "error"}
SubmitStates == {"new", "executing"} \cup InWaitFor \cup Answers

FutureStates == {"pending", "set", "cancelled"}
Outcomes == {"pending", "value", "error", "interrupted", "cancelled"}
ConsumerStates == {"none", "idle", "executing", "stopped", "cancelled"}
WorkStates == {"none", "pending", "withdrawn", "running", "value", "error"}
CloserStates == {"none", "awaiting", "joining", "closed", "failed"}

Init ==
    /\ queue = <<>>
    /\ unfinished = 0
    /\ clock = 0
    /\ enqueuedAt = [j \in Jobs |-> 0]
    /\ cancelled = [j \in Jobs |-> FALSE]
    /\ started = [j \in Jobs |-> "pending"]
    /\ completed = [j \in Jobs |-> "pending"]
    /\ submit = [j \in Jobs |-> "new"]
    /\ consumer = "none"
    /\ current = None
    /\ active = FALSE
    /\ backlog = <<>>
    /\ thread = None
    /\ work = [j \in Jobs |-> "none"]
    /\ closed = FALSE
    /\ closer = "none"
    /\ cancels = 0

------------------------------------------------------------------------------
\* executor.shutdown blocks the event loop while it joins the thread.
LoopFree == closer # "joining"

(***************************************************************************)
(* start() creates the consumer task, once.                                *)
(***************************************************************************)
Start ==
    /\ LoopFree
    /\ consumer = "none"
    /\ consumer' = "idle"
    /\ UNCHANGED <<queueVars, futureVars, submit, current, active, executorVars, closeVars, cancels>>

------------------------------------------------------------------------------
(***************************************************************************)
(* submit()                                                                *)
(***************************************************************************)
NotRunning == closed \/ consumer = "none"

QueueFull == Len(queue) >= QueueSize

\* The call ends with this answer and touches nothing else.
Answer(j, answer) ==
    /\ submit' = [submit EXCEPT ![j] = answer]
    /\ UNCHANGED <<queueVars, futureVars, consumerVars, executorVars, closeVars, cancels>>

RefuseNotRunning(j) ==
    /\ LoopFree
    /\ submit[j] = "new"
    /\ NotRunning
    /\ Answer(j, "not_running")

RefuseFull(j) ==
    /\ LoopFree
    /\ submit[j] = "new"
    /\ ~NotRunning
    /\ QueueFull
    /\ Answer(j, "queue_full")

Enqueue(j) ==
    /\ LoopFree
    /\ submit[j] = "new"
    /\ ~NotRunning
    /\ ~QueueFull
    /\ clock' = clock + 1
    /\ enqueuedAt' = [enqueuedAt EXCEPT ![j] = clock + 1]
    /\ queue' = Append(queue, j)
    /\ unfinished' = unfinished + 1
    /\ submit' = [submit EXCEPT ![j] = "waiting"]
    /\ UNCHANGED <<futureVars, consumerVars, executorVars, closeVars, cancels>>

\* wait_for returns: job.started is set and the shield around it passed it on.
ObserveStart(j) ==
    /\ LoopFree
    /\ submit[j] = "waiting"
    /\ started[j] = "set"
    /\ Answer(j, "executing")

\* The timer releases wait_for before the shield is done.  The shield is
\* cancelled and wait_for suspends again, so the consumer may run before
\* RaiseTimeout; it may also have set job.started in the loop iteration
\* before this one.
Expire(j) ==
    /\ LoopFree
    /\ submit[j] = "waiting"
    /\ submit' = [submit EXCEPT ![j] = "expiring"]
    /\ UNCHANGED <<queueVars, futureVars, consumerVars, executorVars, closeVars, cancels>>

\* The task running submit is cancelled while it is in wait_for, which
\* cancels the shield and suspends once more before it raises.
Abort(j) ==
    /\ LoopFree
    /\ submit[j] \in {"waiting", "expiring"}
    /\ submit' = [submit EXCEPT ![j] = "aborting"]
    /\ UNCHANGED <<queueVars, futureVars, consumerVars, executorVars, closeVars, cancels>>

\* An except clause of submit: mark the job and raise.
GiveUp(j, answer) ==
    /\ cancelled' = [cancelled EXCEPT ![j] = TRUE]
    /\ submit' = [submit EXCEPT ![j] = answer]
    /\ UNCHANGED <<queueVars, started, completed, consumerVars, executorVars, closeVars,
                   cancels>>

RaiseTimeout(j) == LoopFree /\ submit[j] = "expiring" /\ GiveUp(j, "queue_timeout")

RaiseAbort(j) == LoopFree /\ submit[j] = "aborting" /\ GiveUp(j, "cancelled")

\* close cancelled job.started: wait_for raises CancelledError.
ObserveClose(j) ==
    /\ LoopFree
    /\ submit[j] = "waiting"
    /\ started[j] = "cancelled"
    /\ GiveUp(j, "cancelled")

\* The task is cancelled while it awaits job.completed: job.completed is
\* shielded and the computation goes on without anyone to tell.
BugAbortExecuting(j) ==
    /\ LoopFree
    /\ submit[j] = "executing"
    /\ submit' = [submit EXCEPT ![j] = "cancelled"]
    /\ active' = FALSE
    /\ UNCHANGED <<queueVars, futureVars, consumer, current, executorVars, closeVars, cancels>>
AbortExecuting(j) == LoopFree /\ submit[j] = "executing" /\ Answer(j, "cancelled")

\* job.completed is done: submit returns the result or raises what it holds.
Deliver(j) ==
    /\ LoopFree
    /\ submit[j] = "executing"
    /\ completed[j] # "pending"
    /\ Answer(j, IF completed[j] \in {"value", "error"} THEN completed[j] ELSE "cancelled")

------------------------------------------------------------------------------
(***************************************************************************)
(* _consume().  A step of the consumer task starts in Queue.get or in      *)
(* run_in_executor and runs to the next await that really suspends: a job  *)
(* that finished is settled and the next one started in the same step.     *)
(* `settled` is 1 if the step also calls task_done for the job it had;     *)
(* `futures` is the executor's futures as the step leaves the old job's.   *)
(***************************************************************************)
BugSkipped(item) == FALSE
Skipped(item) == item # Stop /\ cancelled[item]

\* Position i of the queue holds the first item the consumer does not skip.
BugFirstLive(i) == i \in 1..Len(queue) /\ ~Skipped(queue[i])
FirstLive(i) ==
    /\ i \in 1..Len(queue)
    /\ ~Skipped(queue[i])
    /\ \A k \in 1..(i - 1) : Skipped(queue[k])

\* The items behind position i: get_nowait removed the ones up to i.
BugAfter(i) == SubSeq(queue, i + 2, Len(queue))
After(i) == SubSeq(queue, i + 1, Len(queue))

\* task_done for n items taken from the queue and for `settled`.
BugUnfinishedAfter(settled, n) == unfinished - n
UnfinishedAfter(settled, n) == unfinished - settled - n

\* get() finds nothing to do and suspends.
Park(settled, futures) ==
    /\ \A i \in 1..Len(queue) : Skipped(queue[i])
    /\ queue' = <<>>
    /\ unfinished' = UnfinishedAfter(settled, Len(queue))
    /\ consumer' = "idle"
    /\ current' = None
    /\ active' = FALSE
    /\ work' = futures
    /\ UNCHANGED <<started, backlog>>

\* job.started.set_result, active_started_at, run_in_executor.
Take(settled, futures) ==
    \E i \in 1..Len(queue) :
        /\ FirstLive(i)
        /\ queue[i] # Stop
        /\ queue' = After(i)
        /\ unfinished' = UnfinishedAfter(settled, i - 1)
        /\ consumer' = "executing"
        /\ current' = queue[i]
        /\ active' = TRUE
        /\ started' = [started EXCEPT ![queue[i]] = "set"]
        /\ backlog' = Append(backlog, queue[i])
        /\ work' = [futures EXCEPT ![queue[i]] = "pending"]

\* The stop item: the task returns.
Return(settled, futures) ==
    \E i \in 1..Len(queue) :
        /\ FirstLive(i)
        /\ queue[i] = Stop
        /\ queue' = After(i)
        /\ unfinished' = UnfinishedAfter(settled, i)
        /\ consumer' = "stopped"
        /\ current' = None
        /\ active' = FALSE
        /\ work' = futures
        /\ UNCHANGED <<started, backlog>>

Proceed(settled, futures) ==
    /\ \/ Park(settled, futures)
       \/ Take(settled, futures)
       \/ Return(settled, futures)
    /\ UNCHANGED <<clock, enqueuedAt, cancelled, submit, thread, closeVars>>

\* A put woke the getter.
Wake ==
    /\ LoopFree
    /\ consumer = "idle"
    /\ queue # <<>>
    /\ Proceed(0, work)
    /\ UNCHANGED <<completed, cancels>>

\* Set job.completed unless close already cancelled it.
BugSettleResults(outcome) ==
    [completed EXCEPT ![current] = IF @ = "pending" /\ outcome = "value" THEN outcome ELSE @]
BugSettle(outcome) == [completed EXCEPT ![current] = "value"]
Settle(outcome) == [completed EXCEPT ![current] = IF @ = "pending" THEN outcome ELSE @]

\* run_in_executor returns or raises.
BugFinish ==
    /\ LoopFree
    /\ consumer = "executing"
    /\ work[current] = "value"
    /\ completed' = Settle("value")
    /\ Proceed(1, work)
    /\ UNCHANGED cancels
Finish ==
    /\ LoopFree
    /\ consumer = "executing"
    /\ work[current] \in {"value", "error"}
    /\ completed' = Settle(work[current])
    /\ Proceed(1, work)
    /\ UNCHANGED cancels

\* Something outside the class cancels the consumer task (asyncio.run tearing
\* down, or a cancelled close).  In Queue.get the task ends.  In
\* run_in_executor the except BaseException clause swallows the cancellation:
\* the job is settled with it, a work item the thread has not picked up is
\* withdrawn, and the consumer goes on.
CancelIdle ==
    /\ LoopFree
    /\ consumer = "idle"
    /\ cancels < MaxConsumerCancels
    /\ cancels' = cancels + 1
    /\ consumer' = "cancelled"
    /\ UNCHANGED <<queueVars, futureVars, submit, current, active, executorVars, closeVars>>

Withdraw(jobs) ==
    [j \in Jobs |-> IF j \in jobs /\ work[j] = "pending" THEN "withdrawn" ELSE work[j]]

CancelExecuting ==
    /\ LoopFree
    /\ consumer = "executing"
    /\ cancels < MaxConsumerCancels
    /\ cancels' = cancels + 1
    /\ completed' = Settle("interrupted")
    /\ Proceed(1, Withdraw({current}))

------------------------------------------------------------------------------
(***************************************************************************)
(* The executor: ThreadPoolExecutor(max_workers=1).                        *)
(***************************************************************************)
\* The thread takes the oldest work item; it drops a withdrawn one.
PickUp ==
    /\ thread = None
    /\ backlog # <<>>
    /\ work[Head(backlog)] = "pending"
    /\ thread' = Head(backlog)
    /\ backlog' = Tail(backlog)
    /\ work' = [work EXCEPT ![Head(backlog)] = "running"]
    /\ UNCHANGED <<queueVars, futureVars, submit, consumerVars, closeVars, cancels>>

Drop ==
    /\ thread = None
    /\ backlog # <<>>
    /\ work[Head(backlog)] = "withdrawn"
    /\ backlog' = Tail(backlog)
    /\ UNCHANGED <<queueVars, futureVars, submit, consumerVars, thread, work, closeVars, cancels>>

\* job.call returns or raises.
EndCall(result) ==
    /\ thread # None
    /\ work' = [work EXCEPT ![thread] = result]
    /\ thread' = None
    /\ UNCHANGED <<queueVars, futureVars, submit, consumerVars, backlog, closeVars, cancels>>

------------------------------------------------------------------------------
(***************************************************************************)
(* close()                                                                 *)
(***************************************************************************)
Drained == {queue[i] : i \in 1..Len(queue)}

\* The stop item is put only if there is a consumer to stop.
BugStopItems == <<>>
BugStopIfIdle == IF consumer = "idle" THEN <<Stop>> ELSE <<>>
StopItems == IF consumer = "none" THEN <<>> ELSE <<Stop>>

BugKeepStarts == started
BugCancelStarts == [j \in Jobs |-> IF submit[j] \in InWaitFor THEN "cancelled" ELSE started[j]]
CancelStarts ==
    [j \in Jobs |-> IF j \in Drained /\ started[j] = "pending" THEN "cancelled" ELSE started[j]]

CancelCompletions ==
    [j \in Jobs |-> IF j \in Drained /\ completed[j] = "pending" THEN "cancelled"
                    ELSE completed[j]]

\* Drain the queue and, if there is a consumer, put the stop item (the queue is
\* empty, so the put does not suspend) and await the consumer.
Close ==
    /\ LoopFree
    /\ ~closed
    /\ closed' = TRUE
    /\ cancelled' = [j \in Jobs |-> cancelled[j] \/ j \in Drained]
    /\ started' = CancelStarts
    /\ completed' = CancelCompletions
    /\ queue' = StopItems
    /\ unfinished' = unfinished - Len(queue) + Len(StopItems)
    /\ closer' = IF consumer = "none" THEN "joining" ELSE "awaiting"
    /\ UNCHANGED <<clock, enqueuedAt, submit, consumerVars, executorVars, cancels>>

\* The consumer returned: executor.shutdown(wait=True, cancel_futures=True)
\* drops the backlog and blocks the event loop until the thread has ended.
Shutdown ==
    /\ LoopFree
    /\ closer = "awaiting"
    /\ consumer = "stopped"
    /\ closer' = "joining"
    /\ backlog' = <<>>
    /\ work' = Withdraw({backlog[i] : i \in 1..Len(backlog)})
    /\ UNCHANGED <<queueVars, futureVars, submit, consumerVars, thread, closed, cancels>>

\* The consumer was cancelled: awaiting it raises and the executor is left.
CloseFails ==
    /\ LoopFree
    /\ closer = "awaiting"
    /\ consumer = "cancelled"
    /\ closer' = "failed"
    /\ UNCHANGED <<queueVars, futureVars, submit, consumerVars, executorVars, closed, cancels>>

Joined ==
    /\ closer = "joining"
    /\ thread = None
    /\ closer' = "closed"
    /\ UNCHANGED <<queueVars, futureVars, submit, consumerVars, executorVars, closed, cancels>>

------------------------------------------------------------------------------
SubmitStep(j) ==
    \/ RefuseNotRunning(j)
    \/ RefuseFull(j)
    \/ Enqueue(j)
    \/ ObserveStart(j)
    \/ Expire(j)
    \/ Abort(j)
    \/ RaiseTimeout(j)
    \/ RaiseAbort(j)
    \/ ObserveClose(j)
    \/ AbortExecuting(j)
    \/ Deliver(j)

ConsumerStep == Start \/ Wake \/ Finish \/ CancelIdle \/ CancelExecuting

ThreadStep == PickUp \/ Drop \/ \E result \in {"value", "error"} : EndCall(result)

CloseStep == Close \/ Shutdown \/ CloseFails \/ Joined

\* Nothing is left to do: every call is answered, close came back, no thread runs.
Quiet ==
    /\ \A j \in Jobs : submit[j] \in Answers
    /\ closer \in {"closed", "failed"}
    /\ thread = None
    /\ backlog = <<>>
    /\ UNCHANGED vars

Next ==
    \/ \E j \in Jobs : SubmitStep(j)
    \/ ConsumerStep
    \/ ThreadStep
    \/ CloseStep
    \/ Quiet

Spec == Init /\ [][Next]_vars

\* The event loop runs every callback it has scheduled and the thread ends every
\* call it started.  Nothing is assumed of the timer, of task cancellations, of
\* new calls of submit, or of start and close being called.
Fairness ==
    /\ \A j \in Jobs : WF_vars(\/ ObserveStart(j) \/ RaiseTimeout(j) \/ RaiseAbort(j)
                               \/ ObserveClose(j) \/ Deliver(j))
    /\ WF_vars(Wake \/ Finish)
    /\ WF_vars(Shutdown \/ CloseFails \/ Joined)
    /\ WF_vars(ThreadStep)

FairSpec == Spec /\ Fairness

------------------------------------------------------------------------------
(***************************************************************************)
(* health_failure_reason(), given whether the running job has exceeded     *)
(* max_execution_seconds.                                                  *)
(***************************************************************************)
HealthFailureReason(overrun) ==
    IF NotRunning THEN "scheduler_not_running"
    ELSE IF consumer \in {"stopped", "cancelled"} THEN "scheduler_consumer_stopped"
    ELSE IF active /\ overrun THEN "execution_timeout"
    ELSE "ok"

------------------------------------------------------------------------------
(***************************************************************************)
(* Properties                                                              *)
(***************************************************************************)
Items == Jobs \cup {Stop}
JobsOrNone == Jobs \cup {None}

\* The state has the expected shape; the queue respects its bound.
TypeOK ==
    /\ queue \in Seq(Items)
    /\ Len(queue) <= QueueSize
    /\ unfinished \in Int
    /\ clock \in Nat
    /\ enqueuedAt \in [Jobs -> Nat]
    /\ cancelled \in [Jobs -> BOOLEAN]
    /\ started \in [Jobs -> FutureStates]
    /\ completed \in [Jobs -> Outcomes]
    /\ submit \in [Jobs -> SubmitStates]
    /\ consumer \in ConsumerStates
    /\ current \in JobsOrNone
    /\ active \in BOOLEAN
    /\ backlog \in Seq(Jobs)
    /\ thread \in JobsOrNone
    /\ work \in [Jobs -> WorkStates]
    /\ closed \in BOOLEAN
    /\ closer \in CloserStates
    /\ cancels \in 0..MaxConsumerCancels

\* task_done balances put: the count is what is queued plus the job in hand, so
\* neither close nor the consumer can make task_done raise "called too many
\* times" (scheduler.py:124, 165).
TaskDoneBalanced == unfinished = Len(queue) + (IF consumer = "executing" THEN 1 ELSE 0)

\* No accepted job is lost: while submit waits for a job that has not started,
\* the job is in the queue at one place, and it can be started only once because
\* its futures are untouched (a set_result on a done future would raise
\* InvalidStateError and end the consumer, scheduler.py:144).
NoJobLost ==
    /\ \A j \in Jobs :
          submit[j] \in InWaitFor /\ started[j] = "pending" => j \in Drained
    /\ \A i, k \in 1..Len(queue) : queue[i] = queue[k] => i = k
    /\ \A i \in 1..Len(queue) :
          queue[i] \in Jobs => started[queue[i]] = "pending" /\ completed[queue[i]] = "pending"

\* FIFO: a job started while an earlier one was not means the earlier one had
\* given up (scheduler.py:47, 141).
NoOvertaking ==
    \A j, k \in Jobs :
        0 < enqueuedAt[j] /\ enqueuedAt[j] < enqueuedAt[k] /\ started[k] = "set" =>
            started[j] = "set" \/ cancelled[j]

\* A job that is reported as started really has the thread: the executor never
\* holds a second one, so queue_wait_ms covers the whole wait (scheduler.py:147).
OneJobAtATime ==
    \A j, k \in Jobs :
        work[j] \in {"pending", "running"} /\ work[k] \in {"pending", "running"} => j = k

\* The monitor sees a call that runs too long: while the thread is busy, health
\* cannot answer ok (scheduler.py:69-72).
BusyThreadIsWatched == thread # None => HealthFailureReason(TRUE) # "ok"

\* health blames execution time only on a job the executor was given and whose
\* caller has not been told the result: never on idle time or on a waiting job
\* (scheduler.py:145, 163).
OnlyExecutionTimesOut ==
    HealthFailureReason(TRUE) = "execution_timeout" =>
        /\ consumer = "executing"
        /\ started[current] = "set"
        /\ completed[current] = "pending"

\* A caller gets the fate of its own call: a value or an error only if that call
\* produced it, and a refusal only if the call never reached the queue.
AnswerIsTrue ==
    \A j \in Jobs :
        /\ submit[j] \in {"value", "error"} => work[j] = submit[j]
        /\ submit[j] \in {"not_running", "queue_full"} =>
              work[j] = "none" /\ j \notin Drained

\* When close has returned nothing runs, and no submit is left waiting for a
\* future that nobody will complete (scheduler.py:109-128).
CloseLeavesNobody ==
    closer = "closed" =>
        /\ thread = None /\ backlog = <<>>
        /\ \A j \in Jobs :
              /\ submit[j] \in InWaitFor => started[j] # "pending"
              /\ started[j] = "set" => completed[j] # "pending"

\* A future, once done, keeps its state: set_result and set_exception never meet
\* a done future (scheduler.py:122, 144, 151, 154).
FuturesSettleOnce ==
    [][\A j \in Jobs :
          /\ started[j] # "pending" => started'[j] = started[j]
          /\ completed[j] # "pending" => completed'[j] = completed[j]]_vars

\* A job marked cancelled before it started is never started, and once close has
\* begun no job is (scheduler.py:112-126, 141-142).
NothingStartsInVain ==
    [][\A j \in Jobs :
          (cancelled[j] \/ closed) /\ started[j] # "set" => started'[j] # "set"]_vars

\* Every call that was accepted is answered, even if its timer never fires.
EveryCallAnswered ==
    \A j \in Jobs : submit[j] \in InWaitFor \cup {"executing"} ~> submit[j] \in Answers

\* close comes back, and it comes back with the executor shut down.
CloseReturns == closed ~> closer = "closed"

------------------------------------------------------------------------------
(***************************************************************************)
(* What the documentation says and the code does not do.                   *)
(***************************************************************************)
Executed(j) == work[j] \in {"running", "value", "error"}

\* README.md:47: a job answered queue_timeout is not computed in the background.
TimedOutNeverExecutes ==
    \A j \in Jobs : submit[j] = "queue_timeout" => ~Executed(j)

\* scheduler.py:18: QueueFullError is raised when no waiting slot is available:
\* if a call is refused while another is computed, QueueSize calls wait.
FullMeansWaiting ==
    [][\A j \in Jobs :
          thread # None /\ submit[j] = "new" /\ submit'[j] = "queue_full" =>
              Cardinality({k \in Jobs : submit[k] \in InWaitFor /\ started[k] = "pending"})
                  >= QueueSize]_vars
=============================================================================

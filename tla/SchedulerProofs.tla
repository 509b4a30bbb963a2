-------------------------- MODULE SchedulerProofs ----------------------------
(***************************************************************************)
(* Proofs about SerialScheduler and Lifecycle, for every set of calls,     *)
(* requests and warm-ups, every queue size and any number of consumer      *)
(* cancellations.                                                          *)
(*                                                                         *)
(* The invariant LineInv of the first part carries the others about the    *)
(* scheduler: about the futures of the jobs (who completes them, when, and *)
(* what close makes of them), about the order in which jobs are served and *)
(* the answers given, and, as long as nothing cancels the consumer from    *)
(* outside, about the executor's thread.  Together they show that every    *)
(* step of the scheduler changes the tickets and phases of                 *)
(* SchedulerRefinement as a step of SerialExecution does, or leaves them.  *)
(* The second part shows that the server around the scheduler only ever    *)
(* does to it what any caller may do, so that all this holds in it too.    *)
(***************************************************************************)
EXTENDS SchedulerRefinement, Lifecycle, SequenceTheorems, FiniteSetTheorems, TLAPS

USE ItemsAssumption, QueueSizeAssumption, CancelsAssumption

------------------------------------------------------------------------------
(***************************************************************************)
(* Type correctness                                                        *)
(***************************************************************************)

\* What the consumer leaves behind position i is a sequence of items, shorter
\* by i.
LEMMA AfterType ==
    ASSUME queue \in Seq(Items), NEW i \in 1..Len(queue)
    PROVE  /\ After(i) \in Seq(Items)
           /\ Len(After(i)) = Len(queue) - i
           /\ \A k \in 1..Len(After(i)) : After(i)[k] = queue[i + k]
<1>1. i + 1 \in 1..(Len(queue) + 1) /\ Len(queue) \in Nat
  OBVIOUS
<1>2. \A k \in (i + 1)..Len(queue) : queue[k] \in Items
  OBVIOUS
<1>. QED
  BY <1>1, <1>2, SubSeqProperties DEF After

\* close leaves at most the stop item in the queue.
LEMMA StopItemsType == StopItems \in Seq(Items) /\ Len(StopItems) \in 0..1
<1>1. CASE consumer = "none"
  BY <1>1 DEF StopItems
<1>2. CASE consumer # "none"
  BY <1>2 DEF StopItems, Items
<1>. QED
  BY <1>1, <1>2

\* Every way the consumer goes on keeps the types, whatever it did with the job
\* it had.
LEMMA ProceedType ==
    ASSUME TypeOK, NEW settled \in {0, 1}, NEW futures \in [Jobs -> WorkStates],
           Proceed(settled, futures)
    PROVE  /\ queue' \in Seq(Items)
           /\ Len(queue') <= QueueSize
           /\ unfinished' \in Int
           /\ started' \in [Jobs -> FutureStates]
           /\ consumer' \in ConsumerStates
           /\ current' \in JobsOrNone
           /\ active' \in BOOLEAN
           /\ backlog' \in Seq(Jobs)
           /\ work' \in [Jobs -> WorkStates]
<1>. USE DEF TypeOK, ConsumerStates, JobsOrNone, FutureStates, WorkStates
<1>1. CASE Park(settled, futures)
  <2>1. active' \in BOOLEAN
    BY <1>1 DEF Park
  <2>2. queue' = <<>> /\ queue' \in Seq(Items) /\ Len(queue') = 0
    BY <1>1 DEF Park
  <2>. QED
    BY <1>1, <2>1, <2>2 DEF Park, UnfinishedAfter
<1>2. ASSUME NEW i \in 1..Len(queue), queue' = After(i)
      PROVE  queue' \in Seq(Items) /\ Len(queue') <= QueueSize
  <2>1. After(i) \in Seq(Items) /\ Len(After(i)) = Len(queue) - i
    BY AfterType
  <2>2. Len(queue) \in Nat /\ i \in Nat
    OBVIOUS
  <2>. QED
    BY <1>2, <2>1, <2>2
<1>3. ASSUME NEW n \in Int, unfinished' = UnfinishedAfter(settled, n)
      PROVE  unfinished' \in Int
  BY <1>3 DEF UnfinishedAfter
<1>4. CASE Take(settled, futures)
  <2>1. PICK i \in 1..Len(queue) : Take(settled, futures)!(i)
    BY <1>4 DEF Take
  <2>2. queue[i] \in Jobs
    BY <2>1 DEF Items
  <2>3. queue' \in Seq(Items) /\ Len(queue') <= QueueSize
    BY <1>2, <2>1
  <2>4. unfinished' \in Int
    BY <1>3, <2>1
  <2>5. active' \in BOOLEAN
    BY <2>1
  <2>6. /\ started' \in [Jobs -> FutureStates] /\ consumer' \in ConsumerStates
        /\ current' \in JobsOrNone /\ backlog' \in Seq(Jobs)
        /\ work' \in [Jobs -> WorkStates]
    BY <2>1, <2>2
  <2>. QED
    BY <2>3, <2>4, <2>5, <2>6
<1>5. CASE Return(settled, futures)
  <2>1. PICK i \in 1..Len(queue) : Return(settled, futures)!(i)
    BY <1>5 DEF Return
  <2>2. queue' \in Seq(Items) /\ Len(queue') <= QueueSize
    BY <1>2, <2>1
  <2>3. unfinished' \in Int
    BY <1>3, <2>1
  <2>4. active' \in BOOLEAN
    BY <2>1
  <2>5. /\ started' \in [Jobs -> FutureStates] /\ consumer' \in ConsumerStates
        /\ current' \in JobsOrNone /\ backlog' \in Seq(Jobs)
        /\ work' \in [Jobs -> WorkStates]
    BY <2>1
  <2>. QED
    BY <2>2, <2>3, <2>4, <2>5
<1>. QED
  BY <1>1, <1>4, <1>5 DEF Proceed

LEMMA InitType == Init => TypeOK
<1>. SUFFICES ASSUME Init PROVE TypeOK
  OBVIOUS
<1>1. active \in BOOLEAN /\ closed \in BOOLEAN /\ cancelled \in [Jobs -> BOOLEAN]
  BY DEF Init
<1>. QED
  BY <1>1 DEF Init, TypeOK, Items, JobsOrNone, FutureStates, Outcomes, SubmitStates,
              ConsumerStates, WorkStates, CloserStates

LEMMA NextType == TypeOK /\ [Next]_vars => TypeOK'
<1>. SUFFICES ASSUME TypeOK, [Next]_vars PROVE TypeOK'
  OBVIOUS
<1>. USE DEF TypeOK, vars, queueVars, futureVars, consumerVars, executorVars, closeVars
<1>1. ASSUME NEW j \in Jobs, SubmitStep(j) PROVE TypeOK'
  <2>. USE DEF SubmitStates, InWaitFor, Answers
  <2>1. ASSUME NEW answer \in Answers \cup {"executing"}, Answer(j, answer) PROVE TypeOK'
    BY <2>1 DEF Answer
  <2>2. CASE RefuseNotRunning(j)
    BY <2>1, <2>2 DEF RefuseNotRunning
  <2>3. CASE RefuseFull(j)
    BY <2>1, <2>3 DEF RefuseFull
  <2>4. CASE Enqueue(j)
    BY <2>4 DEF Enqueue, QueueFull, Items
  <2>5. CASE ObserveStart(j)
    BY <2>1, <2>5 DEF ObserveStart
  <2>6. CASE Expire(j)
    BY <2>6 DEF Expire
  <2>7. CASE Abort(j)
    BY <2>7 DEF Abort
  <2>8. ASSUME NEW answer \in Answers, GiveUp(j, answer) PROVE TypeOK'
    BY <2>8 DEF GiveUp
  <2>9. CASE RaiseTimeout(j)
    BY <2>8, <2>9 DEF RaiseTimeout
  <2>10. CASE RaiseAbort(j)
    BY <2>8, <2>10 DEF RaiseAbort
  <2>11. CASE ObserveClose(j)
    BY <2>8, <2>11 DEF ObserveClose
  <2>12. CASE AbortExecuting(j)
    BY <2>1, <2>12 DEF AbortExecuting
  <2>13. CASE Deliver(j)
    BY <2>1, <2>13 DEF Deliver
  <2>. QED
    BY <1>1, <2>2, <2>3, <2>4, <2>5, <2>6, <2>7, <2>9, <2>10, <2>11, <2>12, <2>13
       DEF SubmitStep
<1>2. CASE ConsumerStep
  <2>. USE DEF ConsumerStates
  <2>1. CASE Start
    BY <2>1 DEF Start
  <2>2. CASE Wake
    BY <2>2, ProceedType DEF Wake, Proceed
  <2>3. ASSUME NEW outcome \in Outcomes PROVE Settle(outcome) \in [Jobs -> Outcomes]
    BY DEF Settle
  <2>4. CASE Finish
    BY <2>3, <2>4, ProceedType DEF Finish, Proceed, Outcomes
  <2>5. CASE CancelIdle
    BY <2>5 DEF CancelIdle
  <2>6. CASE CancelExecuting
    <3>1. Withdraw({current}) \in [Jobs -> WorkStates]
      BY DEF Withdraw, WorkStates
    <3>2. Proceed(1, Withdraw({current}))
      BY <2>6 DEF CancelExecuting
    <3>3. completed' = Settle("interrupted") /\ cancels' = cancels + 1
          /\ cancels < MaxConsumerCancels
      BY <2>6 DEF CancelExecuting
    <3>4. cancels' \in 0..MaxConsumerCancels
      BY <3>3
    <3>5. completed' \in [Jobs -> Outcomes]
      BY <2>3, <3>3 DEF Outcomes
    <3>. QED
      BY <3>1, <3>2, <3>4, <3>5, ProceedType DEF Proceed
  <2>. QED
    BY <1>2, <2>1, <2>2, <2>4, <2>5, <2>6 DEF ConsumerStep
<1>3. CASE ThreadStep
  <2>. USE DEF WorkStates, JobsOrNone
  <2>1. CASE PickUp
    BY <2>1 DEF PickUp
  <2>2. CASE Drop
    BY <2>2 DEF Drop
  <2>3. ASSUME NEW result \in {"value", "error"}, EndCall(result) PROVE TypeOK'
    BY <2>3 DEF EndCall
  <2>. QED
    BY <1>3, <2>1, <2>2, <2>3 DEF ThreadStep
<1>4. CASE CloseStep
  <2>. USE DEF CloserStates
  <2>1. CASE Close
    <3>1. cancelled' \in [Jobs -> BOOLEAN]
      BY <2>1 DEF Close
    <3>2. CancelStarts \in [Jobs -> FutureStates] /\ CancelCompletions \in [Jobs -> Outcomes]
      BY DEF CancelStarts, CancelCompletions, FutureStates, Outcomes
    <3>3. StopItems \in Seq(Items) /\ Len(StopItems) \in 0..1
      BY StopItemsType
    <3>4. closed' \in BOOLEAN /\ closer' \in CloserStates
      BY <2>1 DEF Close
    <3>5. queue' = StopItems /\ unfinished' = unfinished - Len(queue) + Len(StopItems)
      BY <2>1 DEF Close
    <3>6. UNCHANGED <<clock, enqueuedAt, submit, consumerVars, executorVars, cancels>>
      BY <2>1 DEF Close
    <3>7. started' \in [Jobs -> FutureStates] /\ completed' \in [Jobs -> Outcomes]
      BY <2>1, <3>2 DEF Close
    <3>8. queue' \in Seq(Items) /\ Len(queue') <= QueueSize /\ unfinished' \in Int
      <4>1. Len(queue') <= QueueSize
        <5>1. Len(StopItems) \in 0..1 /\ Len(queue') = Len(StopItems)
          BY <3>3, <3>5
        <5>2. \A n \in 0..1 : n <= QueueSize
          OBVIOUS
        <5>. QED
          BY <5>1, <5>2
      <4>2. Len(queue) \in Nat
        OBVIOUS
      <4>3. unfinished' \in Int
        BY <3>3, <3>5, <4>2
      <4>. QED
        BY <3>3, <3>5, <4>1, <4>3
    <3>9. /\ enqueuedAt' \in [Jobs -> Nat] /\ clock' \in Nat
          /\ submit' \in [Jobs -> SubmitStates]
          /\ consumer' \in ConsumerStates /\ current' \in JobsOrNone
          /\ backlog' \in Seq(Jobs) /\ thread' \in JobsOrNone
          /\ work' \in [Jobs -> WorkStates]
          /\ cancels' \in 0..MaxConsumerCancels
      BY <3>6
    <3>10. active' \in BOOLEAN
      BY <3>6
    <3>. QED
      BY <3>1, <3>4, <3>7, <3>8, <3>9, <3>10
  <2>2. CASE Shutdown
    BY <2>2 DEF Shutdown, Withdraw, WorkStates
  <2>3. CASE CloseFails
    BY <2>3 DEF CloseFails
  <2>4. CASE Joined
    BY <2>4 DEF Joined
  <2>. QED
    BY <1>4, <2>1, <2>2, <2>3, <2>4 DEF CloseStep
<1>5. CASE Quiet
  BY <1>5 DEF Quiet
<1>6. CASE UNCHANGED vars
  BY <1>6
<1>. QED
  BY <1>1, <1>2, <1>3, <1>4, <1>5, <1>6 DEF Next

\* The state keeps its shape, and the queue its bound, in every behaviour.
THEOREM TypeCorrect == Spec => []TypeOK
BY InitType, NextType, PTL DEF Spec

------------------------------------------------------------------------------
(***************************************************************************)
(* No accepted job is lost                                                 *)
(***************************************************************************)

\* NoJobLost is not inductive by itself.  An enqueued job must be new to the
\* queue and its futures untouched; the job in the consumer's hand must have
\* left the queue; and the consumer must only skip jobs nobody waits for.
QueueInv ==
    /\ \A i \in 1..Len(queue) : queue[i] \in Jobs => submit[queue[i]] # "new"
    /\ \A j \in Jobs :
          submit[j] = "new" => started[j] = "pending" /\ completed[j] = "pending" /\ ~cancelled[j]
    /\ consumer = "executing" =>
          current \in Jobs /\ started[current] = "set" /\ completed[current] = "pending"
    /\ \A j \in Jobs : submit[j] \in InWaitFor /\ started[j] = "pending" => ~cancelled[j]

LineInv == TypeOK /\ NoJobLost /\ QueueInv

LEMMA InitLine == Init => LineInv
<1>. SUFFICES ASSUME Init PROVE LineInv
  OBVIOUS
<1>1. NoJobLost /\ QueueInv
  BY DEF Init, NoJobLost, QueueInv, InWaitFor, Drained
<1>. QED
  BY <1>1, InitType DEF LineInv

\* Answering or giving up one call keeps the line: the call no longer waits, or
\* it has been started.
LEMMA SubmitKeepsLine ==
    ASSUME LineInv, NEW j \in Jobs, SubmitStep(j)
    PROVE  NoJobLost' /\ QueueInv'
<1>. USE DEF InWaitFor, Answers
<1>1. /\ submit \in [Jobs -> SubmitStates] /\ cancelled \in [Jobs -> BOOLEAN]
      /\ queue \in Seq(Items) /\ Len(queue) \in Nat
  BY DEF LineInv, TypeOK
<1>2. NoJobLost /\ QueueInv
  BY DEF LineInv
<1>3. ASSUME NEW answer, Answer(j, answer), answer \notin InWaitFor \cup {"new"}
      PROVE  NoJobLost' /\ QueueInv'
  <2>. /\ submit' = [submit EXCEPT ![j] = answer]
       /\ UNCHANGED <<queue, started, completed, cancelled, consumer, current>>
    BY <1>3 DEF Answer, queueVars, futureVars, consumerVars
  <2>1. NoJobLost'
    BY <1>1, <1>2, <1>3 DEF NoJobLost, Drained
  <2>2. QueueInv'
    BY <1>1, <1>2, <1>3 DEF QueueInv
  <2>. QED
    BY <2>1, <2>2
<1>4. ASSUME NEW answer, GiveUp(j, answer), answer \notin InWaitFor \cup {"new"}
      PROVE  NoJobLost' /\ QueueInv'
  <2>. /\ submit' = [submit EXCEPT ![j] = answer]
       /\ cancelled' = [cancelled EXCEPT ![j] = TRUE]
       /\ UNCHANGED <<queue, started, completed, consumer, current>>
    BY <1>4 DEF GiveUp, queueVars, consumerVars
  <2>1. NoJobLost'
    BY <1>1, <1>2, <1>4 DEF NoJobLost, Drained
  <2>2. QueueInv'
    BY <1>1, <1>2, <1>4 DEF QueueInv
  <2>. QED
    BY <2>1, <2>2
<1>5. ASSUME NEW state \in {"expiring", "aborting"}, submit[j] \in InWaitFor,
             submit' = [submit EXCEPT ![j] = state],
             UNCHANGED <<queue, started, completed, cancelled, consumer, current>>
      PROVE  NoJobLost' /\ QueueInv'
  <2>1. NoJobLost'
    BY <1>1, <1>2, <1>5 DEF NoJobLost, Drained
  <2>2. QueueInv'
    BY <1>1, <1>2, <1>5 DEF QueueInv
  <2>. QED
    BY <2>1, <2>2
<1>6. CASE Enqueue(j)
  <2>. /\ submit[j] = "new" /\ submit' = [submit EXCEPT ![j] = "waiting"]
       /\ queue' = Append(queue, j)
       /\ UNCHANGED <<started, completed, cancelled, consumer, current>>
    BY <1>6 DEF Enqueue, futureVars, consumerVars
  <2>1. /\ Len(queue') = Len(queue) + 1 /\ queue'[Len(queue')] = j
        /\ \A i \in 1..Len(queue) : queue'[i] = queue[i]
    BY <1>1
  <2>2. \A i \in 1..Len(queue) : queue[i] # j
    BY <1>2 DEF QueueInv
  <2>3. started[j] = "pending" /\ completed[j] = "pending" /\ ~cancelled[j]
    BY <1>2 DEF QueueInv
  <2>4. NoJobLost'
    <3>1. \A k \in Jobs : submit'[k] \in InWaitFor /\ started'[k] = "pending" => k \in Drained'
      BY <1>1, <1>2, <2>1 DEF NoJobLost, Drained
    <3>2. \A i, k \in 1..Len(queue') : queue'[i] = queue'[k] => i = k
      BY <1>1, <1>2, <2>1, <2>2 DEF NoJobLost
    <3>3. \A i \in 1..Len(queue') : queue'[i] \in Jobs =>
             started'[queue'[i]] = "pending" /\ completed'[queue'[i]] = "pending"
      BY <1>1, <1>2, <2>1, <2>3 DEF NoJobLost
    <3>. QED
      BY <3>1, <3>2, <3>3 DEF NoJobLost
  <2>5. QueueInv'
    BY <1>1, <1>2, <2>1, <2>3 DEF QueueInv
  <2>. QED
    BY <2>4, <2>5
<1>7. CASE Expire(j) \/ Abort(j)
  BY <1>5, <1>7 DEF Expire, Abort, queueVars, futureVars, consumerVars
<1>8. CASE RefuseNotRunning(j) \/ RefuseFull(j) \/ AbortExecuting(j)
  BY <1>3, <1>8 DEF RefuseNotRunning, RefuseFull, AbortExecuting
<1>9. CASE ObserveStart(j) \/ Deliver(j)
  BY <1>3, <1>9 DEF ObserveStart, Deliver
<1>10. CASE RaiseTimeout(j) \/ RaiseAbort(j) \/ ObserveClose(j)
  BY <1>4, <1>10 DEF RaiseTimeout, RaiseAbort, ObserveClose
<1>. QED
  BY <1>6, <1>7, <1>8, <1>9, <1>10 DEF SubmitStep

\* The consumer's next step keeps the line: what it takes leaves the queue, what
\* it skips has given up, and the job it settles was not in the queue.
LEMMA ProceedKeepsLine ==
    ASSUME LineInv, NEW settled, NEW futures, Proceed(settled, futures),
           \A j \in Jobs : completed'[j] = completed[j] \/ (consumer = "executing" /\ j = current)
    PROVE  NoJobLost' /\ QueueInv'
<1>1. /\ started \in [Jobs -> FutureStates] /\ queue \in Seq(Items) /\ Len(queue) \in Nat
      /\ None \notin Jobs
  BY DEF LineInv, TypeOK
<1>2. NoJobLost /\ QueueInv
  BY DEF LineInv
<1>3. UNCHANGED <<submit, cancelled>>
  BY DEF Proceed
<1>4. \A i \in 1..Len(queue) :
         queue[i] \in Jobs => completed'[queue[i]] = "pending" /\ submit[queue[i]] # "new"
  BY <1>2 DEF NoJobLost, QueueInv
<1>5. \A j \in Jobs : submit[j] = "new" => completed'[j] = "pending"
  BY <1>2 DEF QueueInv
<1>6. \A i \in 1..Len(queue) : Skipped(queue[i]) =>
         queue[i] \in Jobs /\ submit[queue[i]] \notin InWaitFor
  BY <1>1, <1>2 DEF Skipped, Items, NoJobLost, QueueInv
<1>7. CASE Park(settled, futures)
  <2>. /\ queue' = <<>> /\ UNCHANGED started /\ consumer' = "idle"
       /\ \A i \in 1..Len(queue) : Skipped(queue[i])
    BY <1>7 DEF Park
  <2>1. NoJobLost'
    BY <1>2, <1>3, <1>6 DEF NoJobLost, Drained
  <2>2. QueueInv'
    BY <1>2, <1>3, <1>5 DEF QueueInv
  <2>. QED
    BY <2>1, <2>2
<1>8. ASSUME NEW i \in 1..Len(queue), FirstLive(i), queue' = After(i),
             \/ (queue[i] = Stop /\ started' = started /\ consumer' = "stopped")
             \/ /\ queue[i] \in Jobs /\ started' = [started EXCEPT ![queue[i]] = "set"]
                /\ consumer' = "executing" /\ current' = queue[i]
      PROVE  NoJobLost' /\ QueueInv'
  <2>1. /\ Len(queue') = Len(queue) - i
        /\ \A k \in 1..Len(queue') : queue'[k] = queue[i + k] /\ i + k \in 1..Len(queue)
    <3>1. /\ Len(queue') = Len(queue) - i
          /\ \A k \in 1..Len(queue') : queue'[k] = queue[i + k]
      BY <1>1, <1>8, AfterType
    <3>2. i \in Nat /\ \A k \in 1..(Len(queue) - i) : i + k \in 1..Len(queue)
      BY <1>1
    <3>. QED
      BY <3>1, <3>2
  <2>2. \A k \in 1..Len(queue') : queue'[k] # queue[i]
    BY <1>2, <2>1 DEF NoJobLost
  <2>3. \A j \in Jobs : submit'[j] \in InWaitFor /\ started'[j] = "pending" => j \in Drained'
    <3>1. SUFFICES ASSUME NEW j \in Jobs, submit[j] \in InWaitFor, started'[j] = "pending"
                   PROVE  \E k \in 1..Len(queue') : queue'[k] = j
      BY <1>3 DEF Drained
    <3>2. started[j] = "pending" /\ j # queue[i]
      BY <1>1, <1>8, <3>1, ItemsAssumption
    <3>3. PICK k \in 1..Len(queue) : queue[k] = j
      BY <1>2, <3>1, <3>2 DEF NoJobLost, Drained
    <3>4. k > i
      BY <1>6, <1>8, <3>1, <3>2, <3>3 DEF FirstLive
    <3>5. k - i \in 1..Len(queue') /\ i + (k - i) = k
      BY <1>1, <2>1, <3>4
    <3>6. queue'[k - i] = j
      BY <2>1, <3>3, <3>5
    <3>. QED
      BY <3>5, <3>6
  <2>4. \A k, m \in 1..Len(queue') : queue'[k] = queue'[m] => k = m
    <3>1. SUFFICES ASSUME NEW k \in 1..Len(queue'), NEW m \in 1..Len(queue'),
                          queue'[k] = queue'[m]
                   PROVE  k = m
      OBVIOUS
    <3>2. /\ i + k \in 1..Len(queue) /\ i + m \in 1..Len(queue)
          /\ queue[i + k] = queue[i + m]
      BY <2>1, <3>1
    <3>3. i + k = i + m
      BY <1>2, <3>2 DEF NoJobLost
    <3>. QED
      BY <3>3
  <2>5. \A k \in 1..Len(queue') : queue'[k] \in Jobs =>
           started'[queue'[k]] = "pending" /\ completed'[queue'[k]] = "pending"
    <3>1. SUFFICES ASSUME NEW k \in 1..Len(queue'), queue'[k] \in Jobs
                   PROVE  started'[queue'[k]] = "pending" /\ completed'[queue'[k]] = "pending"
      OBVIOUS
    <3>2. /\ started[queue'[k]] = "pending" /\ completed'[queue'[k]] = "pending"
          /\ queue'[k] # queue[i]
      BY <1>2, <1>4, <2>1, <2>2, <3>1 DEF NoJobLost
    <3>. QED
      BY <1>1, <1>8, <3>1, <3>2
  <2>6. NoJobLost'
    BY <2>3, <2>4, <2>5 DEF NoJobLost
  <2>7. QueueInv'
    <3>1. \A k \in 1..Len(queue') : queue'[k] \in Jobs => submit'[queue'[k]] # "new"
      BY <1>3, <1>4, <2>1
    <3>2. \A j \in Jobs : submit'[j] = "new" =>
             started'[j] = "pending" /\ completed'[j] = "pending" /\ ~cancelled'[j]
      BY <1>1, <1>2, <1>3, <1>4, <1>5, <1>8 DEF QueueInv
    <3>3. consumer' = "executing" => /\ current' \in Jobs /\ started'[current'] = "set"
                                     /\ completed'[current'] = "pending"
      BY <1>1, <1>4, <1>8
    <3>4. \A j \in Jobs : submit'[j] \in InWaitFor /\ started'[j] = "pending" => ~cancelled'[j]
      BY <1>1, <1>2, <1>3, <1>8 DEF QueueInv
    <3>. QED
      BY <3>1, <3>2, <3>3, <3>4 DEF QueueInv
  <2>. QED
    BY <2>6, <2>7
<1>9. CASE Take(settled, futures)
  <2>1. PICK i \in 1..Len(queue) : Take(settled, futures)!(i)
    BY <1>9 DEF Take
  <2>2. queue[i] \in Jobs
    BY <1>1, <2>1 DEF Items
  <2>. QED
    BY <1>8, <2>1, <2>2
<1>10. CASE Return(settled, futures)
  <2>1. PICK i \in 1..Len(queue) : Return(settled, futures)!(i)
    BY <1>10 DEF Return
  <2>. QED
    BY <1>8, <2>1
<1>. QED
  BY <1>7, <1>9, <1>10 DEF Proceed

\* close answers everything it takes out of the queue.
LEMMA CloseKeepsLine == LineInv /\ Close => NoJobLost' /\ QueueInv'
<1>. SUFFICES ASSUME LineInv, Close PROVE NoJobLost' /\ QueueInv'
  OBVIOUS
<1>1. NoJobLost /\ QueueInv
  BY DEF LineInv
<1>2. /\ cancelled' = [j \in Jobs |-> cancelled[j] \/ j \in Drained]
      /\ started' = CancelStarts /\ completed' = CancelCompletions /\ queue' = StopItems
      /\ UNCHANGED <<submit, consumer, current>>
  BY DEF Close, consumerVars
<1>3. \A j \in Drained \cap Jobs : started[j] = "pending" /\ submit[j] # "new"
  BY <1>1 DEF NoJobLost, QueueInv, Drained
<1>4. Len(queue') \in 0..1 /\ \A i \in 1..Len(queue') : queue'[i] = Stop
  BY <1>2 DEF StopItems
<1>5. \A j \in Jobs : IF j \in Drained
                      THEN started'[j] = "cancelled"
                      ELSE started'[j] = started[j] /\ completed'[j] = completed[j]
  BY <1>2, <1>3 DEF CancelStarts, CancelCompletions
<1>6. \A j \in Jobs : cancelled'[j] => cancelled[j] \/ j \in Drained
  BY <1>2
<1>7. NoJobLost'
  BY <1>1, <1>2, <1>4, <1>5, ItemsAssumption DEF NoJobLost
<1>8. QueueInv'
  <2>1. \A i \in 1..Len(queue') : queue'[i] \in Jobs => submit'[queue'[i]] # "new"
    BY <1>4, ItemsAssumption
  <2>2. \A j \in Jobs : submit'[j] = "new" =>
           started'[j] = "pending" /\ completed'[j] = "pending" /\ ~cancelled'[j]
    BY <1>1, <1>2, <1>3, <1>5, <1>6 DEF QueueInv
  <2>3. consumer' = "executing" => /\ current' \in Jobs /\ started'[current'] = "set"
                                   /\ completed'[current'] = "pending"
    BY <1>1, <1>2, <1>3, <1>5 DEF QueueInv
  <2>4. \A j \in Jobs : submit'[j] \in InWaitFor /\ started'[j] = "pending" => ~cancelled'[j]
    BY <1>1, <1>2, <1>5, <1>6 DEF QueueInv
  <2>. QED
    BY <2>1, <2>2, <2>3, <2>4 DEF QueueInv
<1>. QED
  BY <1>7, <1>8

LEMMA NextLine == LineInv /\ [Next]_vars => LineInv'
<1>. SUFFICES ASSUME LineInv, [Next]_vars PROVE NoJobLost' /\ QueueInv'
  BY NextType DEF LineInv
<1>1. ASSUME UNCHANGED <<queue, submit, started, completed, cancelled, current>>,
             consumer' = consumer \/ consumer' \in {"idle", "cancelled"}
      PROVE  NoJobLost' /\ QueueInv'
  BY <1>1 DEF LineInv, NoJobLost, QueueInv, Drained
<1>2. ASSUME NEW j \in Jobs, SubmitStep(j) PROVE NoJobLost' /\ QueueInv'
  BY <1>2, SubmitKeepsLine
<1>3. CASE Start \/ CancelIdle
  BY <1>1, <1>3 DEF Start, CancelIdle, queueVars, futureVars
<1>4. ASSUME NEW outcome
      PROVE  \A j \in Jobs : Settle(outcome)[j] = completed[j] \/ j = current
  BY DEF LineInv, TypeOK, Settle
<1>5. CASE Wake
  <2>1. Proceed(0, work) /\ \A j \in Jobs : completed'[j] = completed[j]
    BY <1>5 DEF Wake
  <2>. QED
    BY <2>1, ProceedKeepsLine
<1>6. CASE Finish
  <2>1. Proceed(1, work) /\ consumer = "executing" /\ completed' = Settle(work[current])
    BY <1>6 DEF Finish
  <2>. QED
    BY <1>4, <2>1, ProceedKeepsLine
<1>7. CASE CancelExecuting
  <2>1. /\ Proceed(1, Withdraw({current})) /\ consumer = "executing"
        /\ completed' = Settle("interrupted")
    BY <1>7 DEF CancelExecuting
  <2>. QED
    BY <1>4, <2>1, ProceedKeepsLine
<1>8. CASE ThreadStep
  BY <1>1, <1>8 DEF ThreadStep, PickUp, Drop, EndCall, queueVars, futureVars, consumerVars
<1>9. CASE Close
  BY <1>9, CloseKeepsLine
<1>10. CASE Shutdown \/ CloseFails \/ Joined
  BY <1>1, <1>10 DEF Shutdown, CloseFails, Joined, queueVars, futureVars, consumerVars
<1>11. CASE Quiet \/ UNCHANGED vars
  BY <1>1, <1>11 DEF Quiet, vars, queueVars, futureVars, consumerVars
<1>. QED
  BY <1>2, <1>3, <1>5, <1>6, <1>7, <1>8, <1>9, <1>10, <1>11 DEF Next, ConsumerStep, CloseStep

THEOREM LineCorrect == Spec => []LineInv
BY InitLine, NextLine, PTL DEF Spec

\* A call that waits for its start is in the queue, once, with untouched futures.
THEOREM NoJobIsLost == Spec => []NoJobLost
<1>1. LineInv => NoJobLost
  BY DEF LineInv
<1>. QED
  BY <1>1, LineCorrect, PTL

------------------------------------------------------------------------------
(***************************************************************************)
(* What a step may do to the futures of a job                              *)
(***************************************************************************)

\* job.started is completed once, and set only for a job in the queue that
\* nobody has marked cancelled.
StartsOnce ==
    \A j \in Jobs :
        \/ started'[j] = started[j]
        \/ started[j] = "pending" /\ started'[j] = "cancelled"
        \/ started[j] = "pending" /\ started'[j] = "set" /\ j \in Drained /\ ~cancelled[j]

CompletesOnce == \A j \in Jobs : completed[j] # "pending" => completed'[j] = completed[j]

\* The consumer starts the first job of the line that has not given up.
LEMMA ProceedStarts ==
    ASSUME LineInv, NEW settled, NEW futures, Proceed(settled, futures)
    PROVE  StartsOnce
<1>1. started \in [Jobs -> FutureStates] /\ queue \in Seq(Items) /\ NoJobLost
  BY DEF LineInv, TypeOK
<1>2. CASE Take(settled, futures)
  <2>1. PICK i \in 1..Len(queue) : Take(settled, futures)!(i)
    BY <1>2 DEF Take
  <2>2. queue[i] \in Jobs /\ queue[i] \in Drained
    BY <1>1, <2>1 DEF Items, Drained
  <2>3. started[queue[i]] = "pending" /\ ~cancelled[queue[i]]
    BY <1>1, <2>1, <2>2 DEF NoJobLost, FirstLive, Skipped
  <2>4. started' = [started EXCEPT ![queue[i]] = "set"]
    BY <2>1
  <2>. QED
    BY <1>1, <2>2, <2>3, <2>4 DEF StartsOnce
<1>3. CASE Park(settled, futures) \/ Return(settled, futures)
  BY <1>3 DEF Park, Return, StartsOnce
<1>. QED
  BY <1>2, <1>3 DEF Proceed

\* The consumer settles a job only while job.completed is pending.
LEMMA SettleOnce ==
    ASSUME LineInv, NEW outcome, completed' = Settle(outcome)
    PROVE  CompletesOnce
BY DEF LineInv, TypeOK, Settle, CompletesOnce

LEMMA StepFutures ==
    ASSUME LineInv, [Next]_vars
    PROVE  StartsOnce /\ CompletesOnce
<1>1. CASE UNCHANGED <<started, completed>>
  BY <1>1 DEF StartsOnce, CompletesOnce
<1>2. ASSUME NEW j \in Jobs, SubmitStep(j) PROVE UNCHANGED <<started, completed>>
  BY <1>2 DEF SubmitStep, RefuseNotRunning, RefuseFull, Enqueue, ObserveStart, Expire, Abort,
              RaiseTimeout, RaiseAbort, ObserveClose, AbortExecuting, Deliver, Answer, GiveUp,
              futureVars
<1>3. CASE Start \/ CancelIdle
  BY <1>1, <1>3 DEF Start, CancelIdle, futureVars
<1>4. CASE Wake
  <2>1. Proceed(0, work) /\ UNCHANGED completed
    BY <1>4 DEF Wake
  <2>. QED
    BY <2>1, ProceedStarts DEF CompletesOnce
<1>5. CASE Finish
  <2>1. Proceed(1, work) /\ completed' = Settle(work[current])
    BY <1>5 DEF Finish
  <2>. QED
    BY <2>1, ProceedStarts, SettleOnce
<1>6. CASE CancelExecuting
  <2>1. Proceed(1, Withdraw({current})) /\ completed' = Settle("interrupted")
    BY <1>6 DEF CancelExecuting
  <2>. QED
    BY <2>1, ProceedStarts, SettleOnce
<1>7. CASE ThreadStep
  BY <1>1, <1>7 DEF ThreadStep, PickUp, Drop, EndCall, futureVars
<1>8. CASE Close
  BY <1>8 DEF Close, CancelStarts, CancelCompletions, StartsOnce, CompletesOnce
<1>9. CASE Shutdown \/ CloseFails \/ Joined
  BY <1>1, <1>9 DEF Shutdown, CloseFails, Joined, futureVars
<1>10. CASE Quiet \/ UNCHANGED vars
  BY <1>1, <1>10 DEF Quiet, vars, futureVars
<1>. QED
  BY <1>1, <1>2, <1>3, <1>4, <1>5, <1>6, <1>7, <1>8, <1>9, <1>10
     DEF Next, ConsumerStep, CloseStep

\* A future, once done, keeps its state: set_result and set_exception never meet a
\* done future, so InvalidStateError cannot end the consumer.
THEOREM FuturesAreSettledOnce == Spec => FuturesSettleOnce
<1>1. LineInv /\ [Next]_vars =>
         [\A j \in Jobs :
             /\ started[j] # "pending" => started'[j] = started[j]
             /\ completed[j] # "pending" => completed'[j] = completed[j]]_vars
  BY StepFutures DEF StartsOnce, CompletesOnce
<1>. QED
  BY InitLine, NextLine, <1>1, PTL DEF Spec, FuturesSettleOnce

------------------------------------------------------------------------------
(***************************************************************************)
(* close                                                                   *)
(***************************************************************************)

\* Once close has begun the queue holds no job, because submit refuses them.
DrainedInv ==
    /\ LineInv
    /\ closed => \A i \in 1..Len(queue) : queue[i] = Stop

LEMMA InitDrained == Init => DrainedInv
BY InitLine DEF Init, DrainedInv

LEMMA NextDrained == DrainedInv /\ [Next]_vars => DrainedInv'
<1>. SUFFICES ASSUME DrainedInv, [Next]_vars, closed'
              PROVE  \A i \in 1..Len(queue') : queue'[i] = Stop
  BY NextLine DEF DrainedInv
<1>1. closed => \A i \in 1..Len(queue) : queue[i] = Stop
  BY DEF DrainedInv
<1>2. queue \in Seq(Items)
  BY DEF DrainedInv, LineInv, TypeOK
<1>3. CASE UNCHANGED <<closed, queue>>
  BY <1>1, <1>3
<1>4. ASSUME NEW j \in Jobs, SubmitStep(j) PROVE UNCHANGED <<closed, queue>>
  <2>1. CASE Enqueue(j)
    BY <2>1 DEF Enqueue, NotRunning, closeVars
  <2>2. CASE ~Enqueue(j)
    BY <1>4, <2>2 DEF SubmitStep, RefuseNotRunning, RefuseFull, ObserveStart, Expire, Abort,
              RaiseTimeout, RaiseAbort, ObserveClose, AbortExecuting, Deliver, Answer, GiveUp,
              queueVars, closeVars
  <2>. QED
    BY <2>1, <2>2
<1>5. ASSUME NEW settled, NEW futures, Proceed(settled, futures)
      PROVE  \A i \in 1..Len(queue') : queue'[i] = Stop
  <2>1. \A i \in 1..Len(queue) : queue[i] = Stop
    BY <1>1, <1>5 DEF Proceed, closeVars
  <2>2. CASE Park(settled, futures)
    BY <2>2 DEF Park
  <2>3. ASSUME NEW i \in 1..Len(queue), queue' = After(i)
        PROVE  \A k \in 1..Len(queue') : queue'[k] = Stop
    <3>1. /\ Len(queue') = Len(queue) - i
          /\ \A k \in 1..Len(queue') : queue'[k] = queue[i + k]
      BY <1>2, <2>3, AfterType
    <3>2. \A k \in 1..(Len(queue) - i) : i + k \in 1..Len(queue)
      BY <1>2
    <3>. QED
      BY <2>1, <3>1, <3>2
  <2>4. CASE Take(settled, futures) \/ Return(settled, futures)
    BY <2>3, <2>4 DEF Take, Return
  <2>. QED
    BY <1>5, <2>2, <2>4 DEF Proceed
<1>6. CASE Wake \/ Finish \/ CancelExecuting
  BY <1>5, <1>6 DEF Wake, Finish, CancelExecuting
<1>7. CASE Start \/ CancelIdle \/ ThreadStep
  BY <1>3, <1>7 DEF Start, CancelIdle, ThreadStep, PickUp, Drop, EndCall, queueVars, closeVars
<1>8. CASE Close
  BY <1>8 DEF Close, StopItems
<1>9. CASE Shutdown \/ CloseFails \/ Joined
  BY <1>3, <1>9 DEF Shutdown, CloseFails, Joined, queueVars
<1>10. CASE Quiet \/ UNCHANGED vars
  BY <1>3, <1>10 DEF Quiet, vars, queueVars, closeVars
<1>. QED
  BY <1>3, <1>4, <1>6, <1>7, <1>8, <1>9, <1>10 DEF Next, ConsumerStep, CloseStep

\* A job marked cancelled before it started is never started, and none is once close
\* has begun.
THEOREM StartsAreWanted == Spec => NothingStartsInVain
<1>1. DrainedInv /\ [Next]_vars =>
         [\A j \in Jobs :
             (cancelled[j] \/ closed) /\ started[j] # "set" => started'[j] # "set"]_vars
  BY StepFutures, ItemsAssumption DEF StartsOnce, DrainedInv, Drained
<1>. QED
  BY InitDrained, NextDrained, <1>1, PTL DEF Spec, NothingStartsInVain

------------------------------------------------------------------------------
(***************************************************************************)
(* task_done                                                               *)
(***************************************************************************)
BalanceInv == TypeOK /\ TaskDoneBalanced

LEMMA InitBalance == Init => BalanceInv
<1>1. Init => TaskDoneBalanced
  BY DEF Init, TaskDoneBalanced
<1>. QED
  BY <1>1, InitType DEF BalanceInv

\* The consumer calls task_done for what it skipped and, if it had a job, for that.
LEMMA ProceedBalance ==
    ASSUME BalanceInv, NEW settled \in {0, 1}, NEW futures, Proceed(settled, futures),
           settled = IF consumer = "executing" THEN 1 ELSE 0
    PROVE  TaskDoneBalanced'
<1>1. /\ queue \in Seq(Items) /\ Len(queue) \in Nat /\ unfinished \in Int
      /\ unfinished = Len(queue) + settled
  BY DEF BalanceInv, TypeOK, TaskDoneBalanced
<1>2. CASE Park(settled, futures)
  BY <1>1, <1>2 DEF Park, UnfinishedAfter, TaskDoneBalanced
<1>3. CASE Take(settled, futures)
  <2>1. PICK i \in 1..Len(queue) : Take(settled, futures)!(i)
    BY <1>3 DEF Take
  <2>2. Len(queue') = Len(queue) - i
    BY <1>1, <2>1, AfterType
  <2>. QED
    BY <1>1, <2>1, <2>2 DEF UnfinishedAfter, TaskDoneBalanced
<1>4. CASE Return(settled, futures)
  <2>1. PICK i \in 1..Len(queue) : Return(settled, futures)!(i)
    BY <1>4 DEF Return
  <2>2. Len(queue') = Len(queue) - i
    BY <1>1, <2>1, AfterType
  <2>. QED
    BY <1>1, <2>1, <2>2 DEF UnfinishedAfter, TaskDoneBalanced
<1>. QED
  BY <1>2, <1>3, <1>4 DEF Proceed

LEMMA NextBalance == BalanceInv /\ [Next]_vars => BalanceInv'
<1>. SUFFICES ASSUME BalanceInv, [Next]_vars PROVE TaskDoneBalanced'
  BY NextType DEF BalanceInv
<1>1. /\ queue \in Seq(Items) /\ Len(queue) \in Nat /\ unfinished \in Int
      /\ TaskDoneBalanced
  BY DEF BalanceInv, TypeOK
<1>2. ASSUME UNCHANGED <<queue, unfinished>>,
             consumer' = "executing" <=> consumer = "executing"
      PROVE  TaskDoneBalanced'
  BY <1>1, <1>2 DEF TaskDoneBalanced
<1>3. ASSUME NEW j \in Jobs, SubmitStep(j) PROVE TaskDoneBalanced'
  <2>1. CASE Enqueue(j)
    BY <1>1, <2>1 DEF Enqueue, consumerVars, TaskDoneBalanced
  <2>2. CASE ~Enqueue(j)
    BY <1>2, <1>3, <2>2 DEF SubmitStep, RefuseNotRunning, RefuseFull, ObserveStart, Expire,
       Abort, RaiseTimeout, RaiseAbort, ObserveClose, AbortExecuting, Deliver, Answer, GiveUp,
       queueVars, consumerVars
  <2>. QED
    BY <2>1, <2>2
<1>4. CASE Wake
  <2>1. consumer = "idle" /\ Proceed(0, work)
    BY <1>4 DEF Wake
  <2>. QED
    BY <2>1, ProceedBalance
<1>5. CASE Finish \/ CancelExecuting
  <2>1. consumer = "executing" /\ \E futures : Proceed(1, futures)
    BY <1>5 DEF Finish, CancelExecuting
  <2>. QED
    BY <2>1, ProceedBalance
<1>6. CASE Start \/ CancelIdle
  BY <1>2, <1>6 DEF Start, CancelIdle, queueVars
<1>7. CASE ThreadStep
  BY <1>2, <1>7 DEF ThreadStep, PickUp, Drop, EndCall, queueVars, consumerVars
<1>8. CASE Close
  <2>1. Len(StopItems) \in Nat
    BY StopItemsType
  <2>. QED
    BY <1>1, <1>8, <2>1 DEF Close, consumerVars, TaskDoneBalanced
<1>9. CASE Shutdown \/ CloseFails \/ Joined
  BY <1>2, <1>9 DEF Shutdown, CloseFails, Joined, queueVars, consumerVars
<1>10. CASE Quiet \/ UNCHANGED vars
  BY <1>2, <1>10 DEF Quiet, vars, queueVars, consumerVars
<1>. QED
  BY <1>3, <1>4, <1>5, <1>6, <1>7, <1>8, <1>9, <1>10 DEF Next, ConsumerStep, CloseStep

\* task_done is never called too often, by the consumer or by close.
THEOREM TaskDoneIsBalanced == Spec => []TaskDoneBalanced
<1>1. BalanceInv => TaskDoneBalanced
  BY DEF BalanceInv
<1>. QED
  BY InitBalance, NextBalance, <1>1, PTL DEF Spec

------------------------------------------------------------------------------
(***************************************************************************)
(* The job in the consumer's hand                                          *)
(***************************************************************************)

\* active_started_at is set exactly while the consumer has a job, and only that job
\* is started and not settled.
HandInv ==
    /\ LineInv
    /\ active <=> consumer = "executing"
    /\ \A j \in Jobs :
          started[j] = "set" =>
              completed[j] # "pending" \/ (consumer = "executing" /\ j = current)

LEMMA InitHand == Init => HandInv
BY InitLine DEF Init, HandInv

LEMMA NextHand == HandInv /\ [Next]_vars => HandInv'
<1>. SUFFICES ASSUME HandInv, [Next]_vars
              PROVE  /\ active' <=> consumer' = "executing"
                     /\ \A j \in Jobs : started'[j] = "set" =>
                           completed'[j] # "pending" \/ (consumer' = "executing" /\ j = current')
  BY NextLine DEF HandInv
<1>1. /\ started \in [Jobs -> FutureStates] /\ completed \in [Jobs -> Outcomes]
      /\ queue \in Seq(Items) /\ work \in [Jobs -> WorkStates]
      /\ active <=> consumer = "executing"
      /\ \A j \in Jobs : started[j] = "set" =>
            completed[j] # "pending" \/ (consumer = "executing" /\ j = current)
  BY DEF HandInv, LineInv, TypeOK
<1>2. CASE UNCHANGED <<started, completed, consumer, current, active>>
  BY <1>1, <1>2
<1>3. ASSUME NEW j \in Jobs, SubmitStep(j)
      PROVE  UNCHANGED <<started, completed, consumer, current, active>>
  BY <1>3 DEF SubmitStep, RefuseNotRunning, RefuseFull, Enqueue, ObserveStart, Expire, Abort,
              RaiseTimeout, RaiseAbort, ObserveClose, AbortExecuting, Deliver, Answer, GiveUp,
              futureVars, consumerVars
<1>4. CASE Start \/ CancelIdle
  BY <1>1, <1>4 DEF Start, CancelIdle, futureVars
<1>5. ASSUME NEW settled, NEW futures, Proceed(settled, futures),
             \A j \in Jobs : started[j] = "set" => completed'[j] # "pending"
      PROVE  /\ active' <=> consumer' = "executing"
             /\ \A j \in Jobs : started'[j] = "set" =>
                   completed'[j] # "pending" \/ (consumer' = "executing" /\ j = current')
  <2>1. CASE Take(settled, futures)
    BY <1>1, <1>5, <2>1 DEF Take
  <2>2. CASE Park(settled, futures) \/ Return(settled, futures)
    BY <1>5, <2>2 DEF Park, Return
  <2>. QED
    BY <1>5, <2>1, <2>2 DEF Proceed
<1>6. CASE Wake
  BY <1>1, <1>5, <1>6 DEF Wake
<1>7. ASSUME NEW outcome \in Outcomes \ {"pending"}, consumer = "executing",
             completed' = Settle(outcome)
      PROVE  \A j \in Jobs : started[j] = "set" => completed'[j] # "pending"
  BY <1>1, <1>7 DEF Settle
<1>8. CASE Finish
  <2>1. /\ consumer = "executing" /\ completed' = Settle(work[current]) /\ Proceed(1, work)
        /\ work[current] \in Outcomes \ {"pending"}
    BY <1>8 DEF Finish, Outcomes
  <2>2. \A j \in Jobs : started[j] = "set" => completed'[j] # "pending"
    BY <1>7, <2>1
  <2>. QED
    BY <1>5, <2>1, <2>2
<1>9. CASE CancelExecuting
  <2>1. /\ consumer = "executing" /\ completed' = Settle("interrupted")
        /\ Proceed(1, Withdraw({current}))
    BY <1>9 DEF CancelExecuting
  <2>2. \A j \in Jobs : started[j] = "set" => completed'[j] # "pending"
    BY <1>7, <2>1 DEF Outcomes
  <2>. QED
    BY <1>5, <2>1, <2>2
<1>10. CASE ThreadStep
  BY <1>2, <1>10 DEF ThreadStep, PickUp, Drop, EndCall, futureVars, consumerVars
<1>11. CASE Close
  BY <1>1, <1>11 DEF Close, CancelStarts, CancelCompletions, consumerVars
<1>12. CASE Shutdown \/ CloseFails \/ Joined
  BY <1>2, <1>12 DEF Shutdown, CloseFails, Joined, futureVars, consumerVars
<1>13. CASE Quiet \/ UNCHANGED vars
  BY <1>2, <1>13 DEF Quiet, vars, futureVars, consumerVars
<1>. QED
  BY <1>2, <1>3, <1>4, <1>6, <1>8, <1>9, <1>10, <1>11, <1>12, <1>13
     DEF Next, ConsumerStep, CloseStep

\* health blames execution time only on a job that was started and not settled.
THEOREM HealthBlamesExecution == Spec => []OnlyExecutionTimesOut
<1>1. HandInv => OnlyExecutionTimesOut
  BY DEF HandInv, LineInv, QueueInv, OnlyExecutionTimesOut, HealthFailureReason
<1>. QED
  BY InitHand, NextHand, <1>1, PTL DEF Spec

------------------------------------------------------------------------------
(***************************************************************************)
(* What close leaves behind                                                *)
(***************************************************************************)

\* Before there is a consumer, and once the executor is being shut down, there is
\* nothing in the executor but the call its thread is ending.
LeftInv ==
    /\ HandInv
    /\ DrainedInv
    /\ consumer = "none" => backlog = <<>> /\ thread = None
    /\ closer # "none" => closed
    /\ closer \in {"joining", "closed"} => backlog = <<>> /\ consumer # "executing"
    /\ closer = "closed" => thread = None

LEMMA InitLeft == Init => LeftInv
BY InitHand, InitDrained DEF Init, LeftInv

LEMMA NextLeft == LeftInv /\ [Next]_vars => LeftInv'
<1>. DEFINE Rest ==
       /\ consumer = "none" => backlog = <<>> /\ thread = None
       /\ closer # "none" => closed
       /\ closer \in {"joining", "closed"} => backlog = <<>> /\ consumer # "executing"
       /\ closer = "closed" => thread = None
<1>. SUFFICES ASSUME LeftInv, [Next]_vars PROVE Rest'
  BY NextHand, NextDrained DEF LeftInv
<1>1. Rest /\ (closed => \A i \in 1..Len(queue) : queue[i] = Stop)
  BY DEF LeftInv, DrainedInv
<1>2. CASE UNCHANGED <<consumer, closed, closer, backlog, thread>>
  BY <1>1, <1>2
<1>3. ASSUME NEW j \in Jobs, SubmitStep(j)
      PROVE  UNCHANGED <<consumer, closed, closer, backlog, thread>>
  BY <1>3 DEF SubmitStep, RefuseNotRunning, RefuseFull, Enqueue, ObserveStart, Expire, Abort,
              RaiseTimeout, RaiseAbort, ObserveClose, AbortExecuting, Deliver, Answer, GiveUp,
              consumerVars, executorVars, closeVars
<1>4. CASE Start \/ CancelIdle
  BY <1>1, <1>4 DEF Start, CancelIdle, executorVars, closeVars
<1>5. CASE Wake \/ Finish \/ CancelExecuting
  <2>1. consumer \in {"idle", "executing"}
        /\ \E settled, futures : Proceed(settled, futures)
    BY <1>5 DEF Wake, Finish, CancelExecuting
  <2>2. PICK settled, futures : Proceed(settled, futures)
    BY <2>1
  <2>3. UNCHANGED <<thread, closed, closer>> /\ consumer' # "none"
    BY <2>2 DEF Proceed, Park, Take, Return, closeVars
  <2>4. CASE Take(settled, futures)
    <3>1. ~closed
      BY <1>1, <2>4 DEF Take
    <3>. QED
      BY <1>1, <2>3, <3>1
  <2>5. CASE Park(settled, futures) \/ Return(settled, futures)
    BY <1>1, <2>3, <2>5 DEF Park, Return
  <2>. QED
    BY <2>2, <2>4, <2>5 DEF Proceed
<1>6. CASE ThreadStep
  BY <1>1, <1>6 DEF ThreadStep, PickUp, Drop, EndCall, consumerVars, closeVars
<1>7. CASE Close
  BY <1>1, <1>7 DEF Close, consumerVars, executorVars
<1>8. CASE Shutdown \/ CloseFails \/ Joined
  BY <1>1, <1>8 DEF Shutdown, CloseFails, Joined, consumerVars, executorVars
<1>9. CASE Quiet \/ UNCHANGED vars
  BY <1>2, <1>9 DEF Quiet, vars, consumerVars, executorVars, closeVars
<1>. QED
  BY <1>2, <1>3, <1>4, <1>5, <1>6, <1>7, <1>8, <1>9 DEF Next, ConsumerStep, CloseStep

\* When close has returned, nothing runs and no call waits for a future that nobody
\* will complete.
THEOREM CloseAnswersEverybody == Spec => []CloseLeavesNobody
<1>1. ASSUME LeftInv PROVE CloseLeavesNobody
  <2>. SUFFICES ASSUME closer = "closed" PROVE CloseLeavesNobody
    BY DEF CloseLeavesNobody
  <2>1. thread = None /\ backlog = <<>> /\ consumer # "executing" /\ closed
    BY <1>1 DEF LeftInv
  <2>2. \A j \in Jobs : j \notin Drained
    BY <1>1, <2>1, ItemsAssumption DEF LeftInv, DrainedInv, Drained
  <2>3. \A j \in Jobs : submit[j] \in InWaitFor => started[j] # "pending"
    BY <1>1, <2>2 DEF LeftInv, DrainedInv, LineInv, NoJobLost
  <2>4. \A j \in Jobs : started[j] = "set" => completed[j] # "pending"
    BY <1>1, <2>1 DEF LeftInv, HandInv
  <2>. QED
    BY <2>1, <2>3, <2>4 DEF CloseLeavesNobody
<1>. QED
  BY InitLeft, NextLeft, <1>1, PTL DEF Spec

------------------------------------------------------------------------------
\* What the consumer leaves in the queue when it takes item i: the items behind i.
LEMMA Behind ==
    ASSUME queue \in Seq(Items), NEW i \in 1..Len(queue), queue' = After(i)
    PROVE  /\ Len(queue') = Len(queue) - i
           /\ \A k \in 1..Len(queue') : i + k \in 1..Len(queue) /\ queue'[k] = queue[i + k]
           /\ \A m \in 1..Len(queue) : m > i =>
                 m - i \in 1..Len(queue') /\ queue'[m - i] = queue[m]
<1>1. /\ Len(queue') = Len(queue) - i
      /\ \A k \in 1..Len(queue') : queue'[k] = queue[i + k]
  BY AfterType
<1>2. i \in Nat /\ Len(queue) \in Nat
  OBVIOUS
<1>3. \A m \in 1..Len(queue) : m > i => m - i \in 1..Len(queue') /\ i + (m - i) = m
  BY <1>1, <1>2
<1>4. \A k \in 1..Len(queue') : i + k \in 1..Len(queue)
  BY <1>1, <1>2
<1>. QED
  BY <1>1, <1>3, <1>4

------------------------------------------------------------------------------
(***************************************************************************)
(* First come, first served                                                *)
(***************************************************************************)
\* The queue is in the order of arrival.
Sorted ==
    \A i, k \in 1..Len(queue) :
        i < k /\ queue[i] \in Jobs /\ queue[k] \in Jobs =>
            enqueuedAt[queue[i]] < enqueuedAt[queue[k]]

\* A job that arrived is in the queue, or it was started, or it gave up.
Accounted ==
    \A j \in Jobs : enqueuedAt[j] > 0 => j \in Drained \/ started[j] = "set" \/ cancelled[j]

OrderInv ==
    /\ LineInv
    /\ \A j \in Jobs : enqueuedAt[j] <= clock
    /\ Sorted
    /\ Accounted
    /\ NoOvertaking

LEMMA InitOrder == Init => OrderInv
BY InitLine DEF Init, OrderInv, Sorted, Accounted, NoOvertaking

\* The consumer takes the first job that has not given up.
LEMMA ProceedKeepsOrder ==
    ASSUME OrderInv, NEW settled, NEW futures, Proceed(settled, futures)
    PROVE  Sorted' /\ Accounted' /\ NoOvertaking'
<1>1. /\ queue \in Seq(Items) /\ Len(queue) \in Nat /\ started \in [Jobs -> FutureStates]
      /\ enqueuedAt \in [Jobs -> Nat] /\ UNCHANGED <<enqueuedAt, cancelled>>
  BY DEF OrderInv, LineInv, TypeOK, Proceed
<1>2. Sorted /\ Accounted /\ NoOvertaking
  BY DEF OrderInv
<1>3. CASE Park(settled, futures)
  <2>1. queue' = <<>> /\ started' = started /\ \A j \in Drained \cap Jobs : cancelled[j]
    BY <1>3 DEF Park, Skipped, Drained
  <2>. QED
    BY <1>1, <1>2, <2>1 DEF Sorted, Accounted, NoOvertaking
<1>4. ASSUME NEW i \in 1..Len(queue), FirstLive(i), queue' = After(i)
      PROVE  /\ Sorted'
             /\ \A j \in Jobs : enqueuedAt[j] > 0 =>
                   j \in Drained' \/ started[j] = "set" \/ cancelled[j] \/ j = queue[i]
  <2>1. Sorted'
    <3>1. SUFFICES ASSUME NEW k \in 1..Len(queue'), NEW m \in 1..Len(queue'), k < m,
                          queue'[k] \in Jobs, queue'[m] \in Jobs
                   PROVE  enqueuedAt[queue'[k]] < enqueuedAt[queue'[m]]
      BY <1>1 DEF Sorted
    <3>2. /\ i + k \in 1..Len(queue) /\ queue'[k] = queue[i + k]
          /\ i + m \in 1..Len(queue) /\ queue'[m] = queue[i + m]
      BY <1>1, <1>4, Behind
    <3>3. i + k < i + m
      BY <3>1
    <3>. QED
      BY <1>2, <3>1, <3>2, <3>3 DEF Sorted
  <2>2. ASSUME NEW j \in Jobs, enqueuedAt[j] > 0
        PROVE  j \in Drained' \/ started[j] = "set" \/ cancelled[j] \/ j = queue[i]
    <3>1. CASE j \in Drained
      <4>1. PICK p \in 1..Len(queue) : queue[p] = j
        BY <3>1 DEF Drained
      <4>2. CASE p < i
        BY <1>4, <4>1, <4>2 DEF FirstLive, Skipped
      <4>3. CASE p = i
        BY <4>1, <4>3
      <4>4. CASE p > i
        <5>1. p - i \in 1..Len(queue') /\ queue'[p - i] = j
          BY <1>1, <1>4, <4>1, <4>4, Behind
        <5>. QED
          BY <5>1 DEF Drained
      <4>. QED
        BY <4>2, <4>3, <4>4
    <3>. QED
      BY <1>2, <2>2, <3>1 DEF Accounted
  <2>. QED
    BY <2>1, <2>2
<1>5. CASE Take(settled, futures)
  <2>1. PICK i \in 1..Len(queue) : Take(settled, futures)!(i)
    BY <1>5 DEF Take
  <2>2. queue[i] \in Jobs /\ started' = [started EXCEPT ![queue[i]] = "set"]
    BY <1>1, <2>1 DEF Items
  <2>3. Sorted' /\ Accounted'
    BY <1>1, <1>4, <2>1, <2>2 DEF Accounted
  <2>4. ASSUME NEW j \in Jobs, 0 < enqueuedAt[j], enqueuedAt[j] < enqueuedAt[queue[i]]
        PROVE  started[j] = "set" \/ cancelled[j]
    <3>1. CASE j \in Drained
      <4>1. PICK p \in 1..Len(queue) : queue[p] = j
        BY <3>1 DEF Drained
      <4>2. ~(i < p) /\ p # i
        <5>1. i < p => enqueuedAt[queue[i]] < enqueuedAt[j]
          BY <1>2, <2>2, <4>1 DEF Sorted
        <5>2. enqueuedAt[j] \in Nat /\ enqueuedAt[queue[i]] \in Nat
          BY <1>1, <2>2
        <5>. QED
          BY <2>4, <4>1, <5>1, <5>2
      <4>3. p \in 1..(i - 1)
        BY <4>2
      <4>. QED
        BY <2>1, <4>1, <4>3 DEF FirstLive, Skipped
    <3>. QED
      BY <1>2, <2>4, <3>1 DEF Accounted
  <2>5. NoOvertaking'
    BY <1>1, <1>2, <2>2, <2>4 DEF NoOvertaking
  <2>. QED
    BY <2>3, <2>5
<1>6. CASE Return(settled, futures)
  <2>1. PICK i \in 1..Len(queue) : Return(settled, futures)!(i)
    BY <1>6 DEF Return
  <2>2. queue[i] \notin Jobs /\ started' = started
    BY <2>1, ItemsAssumption
  <2>3. Sorted' /\ Accounted'
    BY <1>1, <1>4, <2>1, <2>2 DEF Accounted
  <2>. QED
    BY <1>1, <1>2, <2>2, <2>3 DEF NoOvertaking
<1>. QED
  BY <1>3, <1>5, <1>6 DEF Proceed

LEMMA NextOrder == OrderInv /\ [Next]_vars => OrderInv'
<1>. SUFFICES ASSUME OrderInv, [Next]_vars
              PROVE  /\ \A j \in Jobs : enqueuedAt'[j] <= clock'
                     /\ Sorted' /\ Accounted' /\ NoOvertaking'
  BY NextLine DEF OrderInv
<1>1. /\ queue \in Seq(Items) /\ Len(queue) \in Nat /\ started \in [Jobs -> FutureStates]
      /\ enqueuedAt \in [Jobs -> Nat] /\ clock \in Nat /\ cancelled \in [Jobs -> BOOLEAN]
      /\ NoJobLost /\ QueueInv
  BY DEF OrderInv, LineInv, TypeOK
<1>2. (\A j \in Jobs : enqueuedAt[j] <= clock) /\ Sorted /\ Accounted /\ NoOvertaking
  BY DEF OrderInv
<1>3. ASSUME UNCHANGED <<queue, clock, enqueuedAt, started>>,
             \A j \in Jobs : cancelled[j] => cancelled'[j]
      PROVE  /\ \A j \in Jobs : enqueuedAt'[j] <= clock'
             /\ Sorted' /\ Accounted' /\ NoOvertaking'
  BY <1>2, <1>3 DEF Sorted, Accounted, Drained, NoOvertaking
<1>4. ASSUME NEW j \in Jobs, Enqueue(j)
      PROVE  /\ \A k \in Jobs : enqueuedAt'[k] <= clock'
             /\ Sorted' /\ Accounted' /\ NoOvertaking'
  <2>1. /\ clock' = clock + 1 /\ enqueuedAt' = [enqueuedAt EXCEPT ![j] = clock + 1]
        /\ queue' = Append(queue, j) /\ UNCHANGED <<started, cancelled>>
    BY <1>4 DEF Enqueue, futureVars
  <2>2. /\ Len(queue') = Len(queue) + 1 /\ queue'[Len(queue')] = j
        /\ \A i \in 1..Len(queue) : queue'[i] = queue[i] /\ queue[i] # j
    BY <1>1, <1>4, <2>1 DEF QueueInv, Enqueue
  <2>3. started[j] = "pending"
    BY <1>1, <1>4 DEF QueueInv, Enqueue
  <2>4. \A k \in Jobs : enqueuedAt'[k] <= clock'
    BY <1>1, <1>2, <2>1
  <2>5. Sorted'
    <3>1. SUFFICES ASSUME NEW i \in 1..Len(queue'), NEW k \in 1..Len(queue'), i < k,
                          queue'[i] \in Jobs, queue'[k] \in Jobs
                   PROVE  enqueuedAt'[queue'[i]] < enqueuedAt'[queue'[k]]
      BY DEF Sorted
    <3>2. i \in 1..Len(queue) /\ enqueuedAt'[queue'[i]] = enqueuedAt[queue[i]]
      BY <1>1, <2>1, <2>2, <3>1
    <3>3. CASE k \in 1..Len(queue)
      BY <1>1, <1>2, <2>1, <2>2, <3>1, <3>2, <3>3 DEF Sorted
    <3>4. CASE k = Len(queue')
      <4>1. enqueuedAt[queue[i]] <= clock /\ enqueuedAt'[queue'[k]] = clock + 1
        BY <1>1, <1>2, <2>1, <2>2, <3>1, <3>2, <3>4
      <4>2. enqueuedAt[queue[i]] \in Nat
        BY <1>1, <2>2, <3>1, <3>2
      <4>. QED
        BY <1>1, <3>2, <4>1, <4>2
    <3>. QED
      BY <1>1, <2>2, <3>3, <3>4
  <2>6. Accounted'
    <3>1. \A k \in Drained \cup {j} : k \in Drained'
      BY <1>1, <2>2 DEF Drained
    <3>. QED
      BY <1>1, <1>2, <2>1, <3>1 DEF Accounted
  <2>7. NoOvertaking'
    BY <1>1, <1>2, <2>1, <2>3 DEF NoOvertaking
  <2>. QED
    BY <2>4, <2>5, <2>6, <2>7
<1>5. ASSUME NEW j \in Jobs, SubmitStep(j), ~Enqueue(j)
      PROVE  /\ UNCHANGED <<queue, clock, enqueuedAt, started>>
             /\ \A k \in Jobs : cancelled[k] => cancelled'[k]
  BY <1>1, <1>5 DEF SubmitStep, RefuseNotRunning, RefuseFull, ObserveStart, Expire, Abort,
     RaiseTimeout, RaiseAbort, ObserveClose, AbortExecuting, Deliver, Answer, GiveUp,
     queueVars, futureVars
<1>6. CASE \E j \in Jobs : SubmitStep(j)
  BY <1>3, <1>4, <1>5, <1>6
<1>7. CASE Start \/ CancelIdle
  BY <1>3, <1>7 DEF Start, CancelIdle, queueVars, futureVars
<1>8. CASE Wake \/ Finish \/ CancelExecuting
  <2>1. \E settled, futures : Proceed(settled, futures)
    BY <1>8 DEF Wake, Finish, CancelExecuting
  <2>2. UNCHANGED <<clock, enqueuedAt>>
    BY <2>1 DEF Proceed
  <2>. QED
    BY <1>2, <2>1, <2>2, ProceedKeepsOrder
<1>9. CASE ThreadStep
  BY <1>3, <1>9 DEF ThreadStep, PickUp, Drop, EndCall, queueVars, futureVars
<1>10. CASE Close
  <2>1. /\ \A j \in Jobs : cancelled[j] \/ j \in Drained => cancelled'[j]
        /\ \A j \in Jobs : started'[j] = "set" <=> started[j] = "set"
        /\ UNCHANGED <<clock, enqueuedAt>>
    BY <1>10 DEF Close, CancelStarts
  <2>2. \A i \in 1..Len(queue') : queue'[i] \notin Jobs
    BY <1>10, ItemsAssumption DEF Close, StopItems
  <2>. QED
    BY <1>2, <2>1, <2>2 DEF Sorted, Accounted, NoOvertaking
<1>11. CASE Shutdown \/ CloseFails \/ Joined
  BY <1>3, <1>11 DEF Shutdown, CloseFails, Joined, queueVars, futureVars
<1>12. CASE Quiet \/ UNCHANGED vars
  BY <1>3, <1>12 DEF Quiet, vars, queueVars, futureVars
<1>. QED
  BY <1>6, <1>7, <1>8, <1>9, <1>10, <1>11, <1>12 DEF Next, ConsumerStep, CloseStep

\* Jobs start in the order they arrived, but for those that gave up.
THEOREM FirstComeFirstServed == Spec => []NoOvertaking
<1>1. OrderInv => NoOvertaking
  BY DEF OrderInv
<1>. QED
  BY InitOrder, NextOrder, <1>1, PTL DEF Spec

------------------------------------------------------------------------------
(***************************************************************************)
(* Everybody gets the answer to their own call                             *)
(***************************************************************************)

\* What submit returns is what the executor's future held, and the executor only
\* gets jobs that were taken from the queue.
AnswerInv ==
    /\ LineInv
    /\ thread # None => work[thread] = "running"
    /\ \A j \in Jobs :
          /\ work[j] # "none" => started[j] = "set"
          /\ completed[j] \in {"value", "error"} => work[j] = completed[j]
          /\ submit[j] \in {"value", "error"} => completed[j] = submit[j]
          /\ submit[j] \in {"new", "not_running", "queue_full"} =>
                work[j] = "none" /\ j \notin Drained

LEMMA InitAnswer == Init => AnswerInv
BY InitLine DEF Init, AnswerInv, Drained

\* The consumer only ever hands a job to the executor for the first time.
LEMMA ProceedKeepsAnswer ==
    ASSUME AnswerInv, NEW settled, NEW futures \in [Jobs -> WorkStates],
           Proceed(settled, futures),
           \A j \in Jobs : /\ futures[j] # "none" <=> work[j] # "none"
                           /\ work[j] \in {"running", "value", "error"} => futures[j] = work[j],
           \A j \in Jobs : \/ completed'[j] = completed[j]
                           \/ completed'[j] = work[j] \/ completed'[j] = "interrupted"
    PROVE  /\ thread' # None => work'[thread'] = "running"
           /\ \A j \in Jobs :
                 /\ work'[j] # "none" => started'[j] = "set"
                 /\ completed'[j] \in {"value", "error"} => work'[j] = completed'[j]
                 /\ submit'[j] \in {"new", "not_running", "queue_full"} =>
                       work'[j] = "none" /\ j \notin Drained'
<1>1. /\ queue \in Seq(Items) /\ started \in [Jobs -> FutureStates]
      /\ work \in [Jobs -> WorkStates] /\ thread \in JobsOrNone /\ NoJobLost
      /\ UNCHANGED <<submit, thread>>
  <2>1. LineInv
    BY DEF AnswerInv
  <2>. QED
    BY <2>1 DEF LineInv, TypeOK, Proceed
<1>2. /\ thread # None => work[thread] = "running"
      /\ \A j \in Jobs :
            /\ work[j] # "none" => started[j] = "set"
            /\ completed[j] \in {"value", "error"} => work[j] = completed[j]
            /\ submit[j] \in {"new", "not_running", "queue_full"} =>
                  work[j] = "none" /\ j \notin Drained
  BY DEF AnswerInv
<1>3. ASSUME NEW i \in 1..Len(queue), queue' = After(i)
      PROVE  \A j \in Jobs : j \in Drained' => j \in Drained
  <2>1. \A k \in 1..Len(queue') : i + k \in 1..Len(queue) /\ queue'[k] = queue[i + k]
    BY <1>1, <1>3, Behind
  <2>. QED
    BY <2>1 DEF Drained
<1>4. CASE Park(settled, futures) \/ Return(settled, futures)
  <2>1. work' = futures /\ started' = started
    BY <1>4 DEF Park, Return
  <2>2. \A j \in Jobs : j \in Drained' => j \in Drained
    BY <1>3, <1>4 DEF Park, Return, Drained
  <2>3. thread' # None => work'[thread'] = "running"
    BY <1>1, <1>2, <2>1 DEF JobsOrNone
  <2>4. ASSUME NEW j \in Jobs
        PROVE  /\ work'[j] # "none" => started'[j] = "set"
               /\ completed'[j] \in {"value", "error"} => work'[j] = completed'[j]
               /\ submit'[j] \in {"new", "not_running", "queue_full"} =>
                     work'[j] = "none" /\ j \notin Drained'
    BY <1>1, <1>2, <2>1, <2>2
  <2>. QED
    BY <2>3, <2>4
<1>5. CASE Take(settled, futures)
  <2>1. PICK i \in 1..Len(queue) : Take(settled, futures)!(i)
    BY <1>5 DEF Take
  <2>2. queue[i] \in Jobs /\ queue[i] \in Drained /\ started[queue[i]] = "pending"
    BY <1>1, <2>1 DEF Items, Drained, NoJobLost
  <2>3. /\ started' = [started EXCEPT ![queue[i]] = "set"]
        /\ work' = [futures EXCEPT ![queue[i]] = "pending"]
    BY <2>1
  <2>4. \A j \in Jobs : j \in Drained' => j \in Drained
    BY <1>3, <2>1
  <2>5. work[queue[i]] = "none"
    BY <1>2, <2>2
  <2>6. completed'[queue[i]] \notin {"value", "error"}
    BY <1>2, <2>2, <2>5
  <2>7. thread' # None => work'[thread'] = "running"
    BY <1>1, <1>2, <2>2, <2>3, <2>5 DEF JobsOrNone
  <2>8. ASSUME NEW j \in Jobs
        PROVE  /\ work'[j] # "none" => started'[j] = "set"
               /\ completed'[j] \in {"value", "error"} => work'[j] = completed'[j]
               /\ submit'[j] \in {"new", "not_running", "queue_full"} =>
                     work'[j] = "none" /\ j \notin Drained'
    BY <1>1, <1>2, <2>2, <2>3, <2>4, <2>6
  <2>. QED
    BY <2>7, <2>8
<1>. QED
  BY <1>4, <1>5 DEF Proceed

LEMMA NextAnswer == AnswerInv /\ [Next]_vars => AnswerInv'
<1>. DEFINE Threads == thread # None => work[thread] = "running"
            Works == \A j \in Jobs :
                        /\ work[j] # "none" => started[j] = "set"
                        /\ completed[j] \in {"value", "error"} => work[j] = completed[j]
                        /\ submit[j] \in {"new", "not_running", "queue_full"} =>
                              work[j] = "none" /\ j \notin Drained
            Told == \A j \in Jobs : submit[j] \in {"value", "error"} => completed[j] = submit[j]
<1>. SUFFICES ASSUME AnswerInv, [Next]_vars PROVE Threads' /\ Works' /\ Told'
  BY NextLine DEF AnswerInv
<1>1. /\ queue \in Seq(Items) /\ started \in [Jobs -> FutureStates]
      /\ completed \in [Jobs -> Outcomes] /\ submit \in [Jobs -> SubmitStates]
      /\ work \in [Jobs -> WorkStates] /\ thread \in JobsOrNone
      /\ backlog \in Seq(Jobs) /\ current \in JobsOrNone /\ NoJobLost /\ QueueInv
      /\ None \notin Jobs
  <2>1. LineInv
    BY DEF AnswerInv
  <2>. QED
    BY <2>1, ItemsAssumption DEF LineInv, TypeOK
<1>2. Threads /\ Works /\ Told
  BY DEF AnswerInv
<1>3. CASE UNCHANGED <<queue, submit, started, completed, thread, work>>
  BY <1>2, <1>3 DEF Drained
<1>4. ASSUME NEW j \in Jobs, SubmitStep(j) PROVE Threads' /\ Works' /\ Told'
  <2>1. UNCHANGED <<started, completed, thread, work>>
    BY <1>4 DEF SubmitStep, RefuseNotRunning, RefuseFull, Enqueue, ObserveStart, Expire, Abort,
       RaiseTimeout, RaiseAbort, ObserveClose, AbortExecuting, Deliver, Answer, GiveUp,
       futureVars, executorVars
  <2>2. CASE Enqueue(j)
    <3>1. /\ submit' = [submit EXCEPT ![j] = "waiting"] /\ queue' = Append(queue, j)
      BY <2>2 DEF Enqueue
    <3>2. \A k \in Jobs \ {j} : k \in Drained' => k \in Drained
      BY <1>1, <3>1 DEF Drained
    <3>. QED
      BY <1>1, <1>2, <2>1, <3>1, <3>2
  <2>3. ASSUME ~Enqueue(j)
        PROVE  /\ UNCHANGED queue
               /\ \E answer \in SubmitStates \ {"new"} :
                     /\ submit' = [submit EXCEPT ![j] = answer]
                     /\ answer \in {"value", "error"} => completed[j] = answer
                     /\ answer \in {"not_running", "queue_full"} => submit[j] = "new"
    <3>. USE DEF SubmitStates, InWaitFor, Answers
    <3>1. CASE RefuseNotRunning(j) \/ RefuseFull(j) \/ AbortExecuting(j) \/ ObserveStart(j)
      BY <3>1 DEF RefuseNotRunning, RefuseFull, AbortExecuting, ObserveStart, Answer, queueVars
    <3>2. CASE Deliver(j)
      <4>. DEFINE answer == IF completed[j] \in {"value", "error"} THEN completed[j]
                            ELSE "cancelled"
      <4>1. UNCHANGED queue /\ submit' = [submit EXCEPT ![j] = answer]
        BY <3>2 DEF Deliver, Answer, queueVars
      <4>2. /\ answer \in SubmitStates \ {"new"} /\ answer \notin {"not_running", "queue_full"}
            /\ answer \in {"value", "error"} => completed[j] = answer
        OBVIOUS
      <4>. HIDE DEF answer
      <4>. QED
        BY <4>1, <4>2
    <3>3. CASE Expire(j) \/ Abort(j)
      BY <3>3 DEF Expire, Abort, queueVars
    <3>4. CASE RaiseTimeout(j) \/ RaiseAbort(j) \/ ObserveClose(j)
      BY <3>4 DEF RaiseTimeout, RaiseAbort, ObserveClose, GiveUp, queueVars
    <3>. QED
      BY <1>4, <2>3, <3>1, <3>2, <3>3, <3>4 DEF SubmitStep
  <2>4. CASE ~Enqueue(j)
    BY <1>1, <1>2, <2>1, <2>3, <2>4 DEF Drained
  <2>. QED
    BY <2>2, <2>4
<1>5. CASE Start \/ CancelIdle
  BY <1>3, <1>5 DEF Start, CancelIdle, queueVars, futureVars, executorVars
<1>6. ASSUME NEW outcome, consumer = "executing", completed' = Settle(outcome)
      PROVE  \A j \in Jobs : \/ completed'[j] = completed[j]
                             \/ (j = current /\ completed[j] = "pending" /\ completed'[j] = outcome)
  BY <1>1, <1>6 DEF Settle
<1>7. ASSUME UNCHANGED submit, \A j \in Jobs : completed'[j] = completed[j] \/ completed[j] = "pending"
      PROVE  Told'
  BY <1>2, <1>7
<1>8. CASE Wake
  <2>1. Proceed(0, work) /\ UNCHANGED completed /\ UNCHANGED submit
    BY <1>8 DEF Wake, Proceed
  <2>. QED
    BY <1>1, <1>7, <2>1, ProceedKeepsAnswer
<1>9. CASE Finish
  <2>1. /\ Proceed(1, work) /\ consumer = "executing" /\ completed' = Settle(work[current])
        /\ UNCHANGED submit
    BY <1>9 DEF Finish, Proceed
  <2>2. Told'
    BY <1>6, <1>7, <2>1
  <2>. QED
    BY <1>1, <1>6, <2>1, <2>2, ProceedKeepsAnswer
<1>10. CASE CancelExecuting
  <2>1. /\ Proceed(1, Withdraw({current})) /\ consumer = "executing"
        /\ completed' = Settle("interrupted") /\ UNCHANGED submit
    BY <1>10 DEF CancelExecuting, Proceed
  <2>2. Told'
    BY <1>6, <1>7, <2>1
  <2>3. /\ Withdraw({current}) \in [Jobs -> WorkStates]
        /\ \A j \in Jobs :
              /\ Withdraw({current})[j] # "none" <=> work[j] # "none"
              /\ work[j] \in {"running", "value", "error"} => Withdraw({current})[j] = work[j]
    BY <1>1 DEF Withdraw, WorkStates
  <2>. QED
    BY <1>6, <2>1, <2>2, <2>3, ProceedKeepsAnswer
<1>11. CASE ThreadStep
  <2>1. CASE PickUp
    BY <1>1, <1>2, <2>1 DEF PickUp, queueVars, futureVars, Drained
  <2>2. CASE Drop
    BY <1>2, <2>2 DEF Drop, queueVars, futureVars, Drained
  <2>3. ASSUME NEW result \in {"value", "error"}, EndCall(result)
        PROVE  Threads' /\ Works' /\ Told'
    BY <1>1, <1>2, <2>3 DEF EndCall, queueVars, futureVars, Drained, JobsOrNone
  <2>. QED
    BY <1>11, <2>1, <2>2, <2>3 DEF ThreadStep
<1>12. CASE Close
  <2>1. /\ \A j \in Jobs : started[j] = "set" => started'[j] = "set"
        /\ \A j \in Jobs : completed'[j] = completed[j]
                            \/ (completed[j] = "pending" /\ completed'[j] = "cancelled")
        /\ UNCHANGED <<submit, thread, work>>
    BY <1>12 DEF Close, CancelStarts, CancelCompletions, executorVars
  <2>2. \A j \in Jobs : j \notin Drained'
    BY <1>12, ItemsAssumption DEF Close, StopItems, Drained
  <2>. QED
    BY <1>2, <1>7, <2>1, <2>2
<1>13. CASE Shutdown
  BY <1>1, <1>2, <1>13 DEF Shutdown, Withdraw, queueVars, futureVars, Drained, JobsOrNone
<1>14. CASE CloseFails \/ Joined
  BY <1>3, <1>14 DEF CloseFails, Joined, queueVars, futureVars, executorVars
<1>15. CASE Quiet \/ UNCHANGED vars
  BY <1>3, <1>15 DEF Quiet, vars, queueVars, futureVars, executorVars
<1>. QED
  BY <1>4, <1>5, <1>8, <1>9, <1>10, <1>11, <1>12, <1>13, <1>14, <1>15
     DEF Next, ConsumerStep, CloseStep

\* A value or an error is that of the caller's own call, and a refused call was never
\* in the queue or in the executor.
THEOREM AnswersAreTrue == Spec => []AnswerIsTrue
<1>1. AnswerInv => AnswerIsTrue
  BY DEF AnswerInv, AnswerIsTrue
<1>. QED
  BY InitAnswer, NextAnswer, <1>1, PTL DEF Spec

------------------------------------------------------------------------------
(***************************************************************************)
(* One job at a time                                                       *)
(***************************************************************************)

\* The executor never has more than the job in the consumer's hand.  This needs
\* that nothing cancels the consumer: see CancelExecuting.
ExecInv ==
    /\ TypeOK
    /\ active <=> consumer = "executing"
    /\ thread # None => work[thread] = "running"
    /\ \A j \in Jobs : work[j] \in {"pending", "running"} => consumer = "executing" /\ j = current

LEMMA InitExec == Init => ExecInv
BY InitType DEF Init, ExecInv

\* With nothing left in the executor, the consumer goes on to one job at most.
LEMMA ProceedKeepsExec ==
    ASSUME ExecInv, NEW settled, Proceed(settled, work),
           \A j \in Jobs : work[j] \notin {"pending", "running"}
    PROVE  /\ active' <=> consumer' = "executing"
           /\ thread' # None => work'[thread'] = "running"
           /\ \A j \in Jobs : work'[j] \in {"pending", "running"} =>
                 consumer' = "executing" /\ j = current'
<1>1. work \in [Jobs -> WorkStates] /\ thread \in JobsOrNone /\ queue \in Seq(Items)
  BY DEF ExecInv, TypeOK
<1>2. thread = None /\ thread' = thread
  BY <1>1 DEF ExecInv, Proceed, JobsOrNone
<1>3. CASE Take(settled, work)
  <2>1. PICK i \in 1..Len(queue) : Take(settled, work)!(i)
    BY <1>3 DEF Take
  <2>. QED
    BY <1>1, <1>2, <2>1
<1>4. CASE Park(settled, work) \/ Return(settled, work)
  BY <1>2, <1>4 DEF Park, Return
<1>. QED
  BY <1>3, <1>4 DEF Proceed

LEMMA NextExec == MaxConsumerCancels = 0 /\ ExecInv /\ [Next]_vars => ExecInv'
<1>. DEFINE Rest ==
       /\ active <=> consumer = "executing"
       /\ thread # None => work[thread] = "running"
       /\ \A j \in Jobs : work[j] \in {"pending", "running"} =>
             consumer = "executing" /\ j = current
<1>. SUFFICES ASSUME MaxConsumerCancels = 0, ExecInv, [Next]_vars PROVE Rest'
  BY NextType DEF ExecInv
<1>1. /\ work \in [Jobs -> WorkStates] /\ thread \in JobsOrNone /\ backlog \in Seq(Jobs)
      /\ cancels \in 0..0 /\ Rest
  BY DEF ExecInv, TypeOK
<1>2. CASE UNCHANGED <<consumer, current, active, thread, work>>
  BY <1>1, <1>2
<1>3. ASSUME NEW j \in Jobs, SubmitStep(j)
      PROVE  UNCHANGED <<consumer, current, active, thread, work>>
  BY <1>3 DEF SubmitStep, RefuseNotRunning, RefuseFull, Enqueue, ObserveStart, Expire, Abort,
              RaiseTimeout, RaiseAbort, ObserveClose, AbortExecuting, Deliver, Answer, GiveUp,
              consumerVars, executorVars
<1>4. CASE Start
  BY <1>1, <1>4 DEF Start, executorVars
<1>5. CASE Wake
  <2>1. Proceed(0, work) /\ \A j \in Jobs : work[j] \notin {"pending", "running"}
    BY <1>1, <1>5 DEF Wake
  <2>. QED
    BY <2>1, ProceedKeepsExec
<1>6. CASE Finish
  <2>1. Proceed(1, work) /\ \A j \in Jobs : work[j] \notin {"pending", "running"}
    BY <1>1, <1>6 DEF Finish
  <2>. QED
    BY <2>1, ProceedKeepsExec
<1>7. ~CancelIdle /\ ~CancelExecuting
  BY <1>1 DEF CancelIdle, CancelExecuting
<1>8. CASE ThreadStep
  <2>1. CASE PickUp
    BY <1>1, <2>1 DEF PickUp, consumerVars
  <2>2. CASE Drop
    BY <1>1, <2>2 DEF Drop, consumerVars
  <2>3. ASSUME NEW result \in {"value", "error"}, EndCall(result) PROVE Rest'
    BY <1>1, <2>3 DEF EndCall, consumerVars, JobsOrNone
  <2>. QED
    BY <1>8, <2>1, <2>2, <2>3 DEF ThreadStep
<1>9. CASE Close \/ CloseFails \/ Joined
  BY <1>2, <1>9 DEF Close, CloseFails, Joined, consumerVars, executorVars
<1>10. CASE Shutdown
  BY <1>1, <1>10 DEF Shutdown, Withdraw, consumerVars, JobsOrNone
<1>11. CASE Quiet \/ UNCHANGED vars
  BY <1>2, <1>11 DEF Quiet, vars, consumerVars, executorVars
<1>. QED
  BY <1>2, <1>3, <1>4, <1>5, <1>6, <1>7, <1>8, <1>9, <1>10, <1>11
     DEF Next, ConsumerStep, CloseStep

LEMMA ExecInvariant == ASSUME MaxConsumerCancels = 0 PROVE Spec => []ExecInv
<1>1. ExecInv /\ [Next]_vars => ExecInv'
  BY NextExec
<1>. QED
  BY InitExec, <1>1, PTL DEF Spec

\* If nothing cancels the consumer, a job that is reported as started has the thread
\* for itself.
THEOREM OneAtATime == ASSUME MaxConsumerCancels = 0 PROVE Spec => []OneJobAtATime
<1>1. ExecInv => OneJobAtATime
  BY DEF ExecInv, OneJobAtATime
<1>. QED
  BY ExecInvariant, <1>1, PTL

\* If nothing cancels the consumer, health never answers ok while a call overruns.
THEOREM OverrunIsSeen == ASSUME MaxConsumerCancels = 0 PROVE Spec => []BusyThreadIsWatched
<1>1. ExecInv => BusyThreadIsWatched
  BY DEF ExecInv, TypeOK, JobsOrNone, BusyThreadIsWatched, HealthFailureReason
<1>. QED
  BY ExecInvariant, <1>1, PTL

------------------------------------------------------------------------------
(***************************************************************************)
(* The scheduler implements SerialExecution                                *)
(***************************************************************************)

\* The order of the queue, what is known of a call whose job is new or queued, and
\* the executor's only job.
MapInv == OrderInv /\ AnswerInv /\ ExecInv

LEMMA MapInvariant == ASSUME MaxConsumerCancels = 0 PROVE Spec => []MapInv
<1>1. MapInv /\ [Next]_vars => MapInv'
  BY NextOrder, NextAnswer, NextExec DEF MapInv
<1>2. Init => MapInv
  BY InitOrder, InitAnswer, InitExec DEF MapInv
<1>. QED
  BY <1>1, <1>2, PTL DEF Spec

\* The parts of the invariant that the mapping uses.
LEMMA MapFacts ==
    ASSUME MapInv
    PROVE  /\ TypeOK /\ Sorted
           /\ \A j \in Jobs : work[j] # "none" => started[j] = "set"
           /\ \A j \in Jobs : submit[j] = "new" => work[j] = "none" /\ j \notin Drained
                                                     /\ ~cancelled[j]
           /\ \A j \in Jobs : j \in Drained => work[j] = "none" /\ submit[j] # "new"
           /\ thread # None => work[thread] = "running"
           /\ \A j \in Jobs : work[j] \in {"pending", "running"} =>
                 consumer = "executing" /\ j = current
<1>1. /\ TypeOK /\ NoJobLost /\ QueueInv /\ Sorted
      /\ \A j \in Jobs : work[j] # "none" => started[j] = "set"
      /\ \A j \in Jobs : submit[j] = "new" => work[j] = "none" /\ j \notin Drained
      /\ thread # None => work[thread] = "running"
      /\ \A j \in Jobs : work[j] \in {"pending", "running"} =>
            consumer = "executing" /\ j = current
  BY DEF MapInv, OrderInv, AnswerInv, ExecInv, LineInv
<1>2. \A j \in Jobs : j \in Drained => started[j] = "pending"
  BY <1>1 DEF NoJobLost, Drained
<1>. QED
  BY <1>1, <1>2 DEF QueueInv

------------------------------------------------------------------------------
(***************************************************************************)
(* The steps of the abstract line, in terms of one call's phase            *)
(***************************************************************************)

LEMMA Stutter ==
    ASSUME UNCHANGED <<clock, enqueuedAt>>, \A j \in Jobs : PhaseOf(j)' = PhaseOf(j)
    PROVE  UNCHANGED Execution!execVars
BY DEF AbstractPhase, Execution!execVars

\* A step that changes the phase of one call is written with EXCEPT.
LEMMA OnePhase ==
    ASSUME NEW j \in Jobs, NEW p, PhaseOf(j)' = p,
           \A k \in Jobs \ {j} : PhaseOf(k)' = PhaseOf(k)
    PROVE  AbstractPhase' = [AbstractPhase EXCEPT ![j] = p]
BY DEF AbstractPhase

\* The phase of a call depends on these alone.
LEMMA SamePhase ==
    ASSUME NEW j \in Jobs,
           submit'[j] = "new" <=> submit[j] = "new",
           UNCHANGED <<queue, cancelled, work>>
    PROVE  PhaseOf(j)' = PhaseOf(j)
BY DEF PhaseOf, Drained

------------------------------------------------------------------------------
(***************************************************************************)
(* Calls of submit                                                         *)
(***************************************************************************)

LEMMA SubmitMaps ==
    ASSUME MapInv, NEW j \in Jobs, SubmitStep(j)
    PROVE  Execution!ExecNext \/ UNCHANGED Execution!execVars
<1>1. /\ queue \in Seq(Items) /\ Len(queue) \in Nat /\ enqueuedAt \in [Jobs -> Nat]
      /\ cancelled \in [Jobs -> BOOLEAN] /\ submit \in [Jobs -> SubmitStates]
      /\ work \in [Jobs -> WorkStates]
      /\ \A k \in Jobs : submit[k] = "new" => work[k] = "none" /\ k \notin Drained
                                                /\ ~cancelled[k]
  BY MapFacts DEF TypeOK
<1>2. CASE RefuseNotRunning(j) \/ RefuseFull(j)
  <2>1. PICK answer \in {"not_running", "queue_full"} : Answer(j, answer)
    BY <1>2 DEF RefuseNotRunning, RefuseFull
  <2>2. /\ submit[j] = "new" /\ submit' = [submit EXCEPT ![j] = answer]
        /\ UNCHANGED <<queue, clock, enqueuedAt, cancelled, work>>
    BY <1>2, <2>1 DEF RefuseNotRunning, RefuseFull, Answer, queueVars, futureVars,
                      executorVars
  <2>3. PhaseOf(j) = "new" /\ PhaseOf(j)' = "gone"
    BY <1>1, <2>2 DEF PhaseOf, Drained
  <2>4. \A k \in Jobs \ {j} : PhaseOf(k)' = PhaseOf(k)
    BY <1>1, <2>2, SamePhase
  <2>5. AbstractPhase' = [AbstractPhase EXCEPT ![j] = "gone"] /\ AbstractPhase[j] = "new"
    BY <2>3, <2>4, OnePhase DEF AbstractPhase
  <2>6. Execution!Refuse(j)
    BY <2>2, <2>5 DEF Execution!Refuse
  <2>. QED
    BY <2>6 DEF Execution!ExecNext
<1>3. CASE Enqueue(j)
  <2>1. /\ submit[j] = "new" /\ submit' = [submit EXCEPT ![j] = "waiting"]
        /\ clock' = clock + 1 /\ enqueuedAt' = [enqueuedAt EXCEPT ![j] = clock + 1]
        /\ queue' = Append(queue, j) /\ UNCHANGED <<cancelled, work>>
    BY <1>3 DEF Enqueue, futureVars, executorVars
  <2>2. /\ j \in Drained'
        /\ \A k \in Jobs \ {j} : k \in Drained' <=> k \in Drained
    <3>1. Len(queue') = Len(queue) + 1 /\ queue'[Len(queue')] = j
      BY <1>1, <2>1
    <3>2. \A i \in 1..Len(queue) : i \in 1..Len(queue') /\ queue'[i] = queue[i]
      BY <1>1, <2>1
    <3>3. \A i \in 1..Len(queue') : i = Len(queue') \/ i \in 1..Len(queue)
      BY <1>1, <3>1
    <3>4. Len(queue') \in 1..Len(queue')
      BY <1>1, <3>1
    <3>5. j \in Drained'
      BY <3>1, <3>4 DEF Drained
    <3>6. ASSUME NEW k \in Jobs \ {j} PROVE k \in Drained' <=> k \in Drained
      <4>1. k \in Drained => k \in Drained'
        BY <3>2 DEF Drained
      <4>2. k \in Drained' => k \in Drained
        BY <3>1, <3>2, <3>3 DEF Drained
      <4>. QED
        BY <4>1, <4>2
    <3>. QED
      BY <3>5, <3>6
  <2>3. PhaseOf(j) = "new" /\ PhaseOf(j)' = "waiting"
    BY <1>1, <2>1, <2>2 DEF PhaseOf
  <2>4. \A k \in Jobs \ {j} : PhaseOf(k)' = PhaseOf(k)
    BY <1>1, <2>1, <2>2 DEF PhaseOf
  <2>5. AbstractPhase' = [AbstractPhase EXCEPT ![j] = "waiting"] /\ AbstractPhase[j] = "new"
    BY <2>3, <2>4, OnePhase DEF AbstractPhase
  <2>6. Execution!Arrive(j)
    BY <2>1, <2>5 DEF Execution!Arrive
  <2>. QED
    BY <2>6 DEF Execution!ExecNext
<1>4. CASE RaiseTimeout(j) \/ RaiseAbort(j) \/ ObserveClose(j)
  <2>1. PICK answer \in {"queue_timeout", "cancelled"} : GiveUp(j, answer) /\ submit[j] # "new"
    BY <1>4 DEF RaiseTimeout, RaiseAbort, ObserveClose
  <2>2. /\ submit' = [submit EXCEPT ![j] = answer]
        /\ cancelled' = [cancelled EXCEPT ![j] = TRUE]
        /\ UNCHANGED <<queue, clock, enqueuedAt, work>>
    BY <2>1 DEF GiveUp, queueVars, executorVars
  <2>3. UNCHANGED Drained
    BY <2>2 DEF Drained
  <2>4. \A k \in Jobs \ {j} : PhaseOf(k)' = PhaseOf(k)
    BY <1>1, <2>2, <2>3 DEF PhaseOf
  <2>5. CASE PhaseOf(j) = "waiting"
    <3>1. PhaseOf(j)' = "gone"
      BY <1>1, <2>1, <2>2, <2>3, <2>5 DEF PhaseOf
    <3>2. AbstractPhase' =
              [k \in Jobs |-> IF k \in {j} THEN "gone" ELSE AbstractPhase[k]]
      BY <2>4, <3>1 DEF AbstractPhase
    <3>3. {j} \subseteq Execution!Waiting
      BY <2>5 DEF AbstractPhase, Execution!Waiting
    <3>4. Execution!Leave({j})
      BY <2>2, <3>2, <3>3 DEF Execution!Leave
    <3>. QED
      BY <3>4 DEF Execution!ExecNext
  <2>6. CASE PhaseOf(j) # "waiting"
    <3>1. PhaseOf(j)' = PhaseOf(j)
      BY <1>1, <2>1, <2>2, <2>3, <2>6 DEF PhaseOf
    <3>. QED
      BY <2>2, <2>4, <3>1, Stutter
  <2>. QED
    BY <2>5, <2>6
<1>5. CASE \/ ObserveStart(j) \/ Expire(j) \/ Abort(j) \/ AbortExecuting(j) \/ Deliver(j)
  <2>1. /\ UNCHANGED <<queue, clock, enqueuedAt, cancelled, work>>
        /\ \E answer : submit' = [submit EXCEPT ![j] = answer] /\ answer # "new"
        /\ submit[j] # "new"
    BY <1>5 DEF ObserveStart, Expire, Abort, AbortExecuting, Deliver, Answer, queueVars,
                futureVars, executorVars
  <2>2. \A k \in Jobs : PhaseOf(k)' = PhaseOf(k)
    BY <1>1, <2>1, SamePhase
  <2>. QED
    BY <2>1, <2>2, Stutter
<1>. QED
  BY <1>2, <1>3, <1>4, <1>5 DEF SubmitStep

------------------------------------------------------------------------------
(***************************************************************************)
(* The consumer                                                            *)
(***************************************************************************)

\* With nothing in the executor, the consumer begins the first call in line, or
\* what it takes from the queue had left the line.
LEMMA ProceedMaps ==
    ASSUME MapInv, NEW settled, Proceed(settled, work),
           \A j \in Jobs : work[j] \notin {"pending", "running"}
    PROVE  Execution!ExecNext \/ UNCHANGED Execution!execVars
<1>1. /\ queue \in Seq(Items) /\ Len(queue) \in Nat /\ enqueuedAt \in [Jobs -> Nat]
      /\ work \in [Jobs -> WorkStates] /\ Sorted
      /\ \A k \in Jobs : k \in Drained => work[k] = "none" /\ submit[k] # "new"
      /\ UNCHANGED <<clock, enqueuedAt, cancelled, submit>>
  BY MapFacts DEF TypeOK, Proceed
<1>2. ASSUME NEW i \in 1..Len(queue), FirstLive(i), queue' = After(i)
      PROVE  \A j \in Jobs : j # queue[i] /\ ~cancelled[j] =>
                (j \in Drained' <=> j \in Drained)
  <2>1. ASSUME NEW j \in Jobs, j \in Drained' PROVE j \in Drained
    <3>1. PICK k \in 1..Len(queue') : queue'[k] = j
      BY <2>1 DEF Drained
    <3>2. i + k \in 1..Len(queue) /\ queue[i + k] = j
      BY <1>1, <1>2, <3>1, Behind
    <3>. QED
      BY <3>2 DEF Drained
  <2>2. ASSUME NEW j \in Jobs, j # queue[i], ~cancelled[j], j \in Drained PROVE j \in Drained'
    <3>1. PICK k \in 1..Len(queue) : queue[k] = j
      BY <2>2 DEF Drained
    <3>2. k > i
      <4>1. k \notin 1..(i - 1)
        BY <1>2, <2>2, <3>1 DEF FirstLive, Skipped
      <4>2. k # i
        BY <2>2, <3>1
      <4>. QED
        BY <1>1, <4>1, <4>2
    <3>3. k - i \in 1..Len(queue') /\ queue'[k - i] = j
      BY <1>1, <1>2, <3>1, <3>2, Behind
    <3>. QED
      BY <3>3 DEF Drained
  <2>. QED
    BY <2>1, <2>2
<1>3. ASSUME work' = work, \A j \in Jobs : ~cancelled[j] => (j \in Drained' <=> j \in Drained)
      PROVE  UNCHANGED Execution!execVars
  <2>1. \A j \in Jobs : PhaseOf(j)' = PhaseOf(j)
    BY <1>1, <1>3 DEF PhaseOf
  <2>. QED
    BY <1>1, <2>1, Stutter
<1>4. CASE Park(settled, work)
  <2>1. queue' = <<>> /\ work' = work /\ \A i \in 1..Len(queue) : Skipped(queue[i])
    BY <1>4 DEF Park
  <2>2. \A j \in Jobs : ~cancelled[j] => j \notin Drained /\ j \notin Drained'
    BY <2>1 DEF Skipped, Drained
  <2>. QED
    BY <1>3, <2>1, <2>2
<1>5. CASE Return(settled, work)
  <2>1. PICK i \in 1..Len(queue) : Return(settled, work)!(i)
    BY <1>5 DEF Return
  <2>2. queue[i] \notin Jobs
    BY <2>1, ItemsAssumption
  <2>. QED
    BY <1>2, <1>3, <2>1, <2>2
<1>6. CASE Take(settled, work)
  <2>1. PICK i \in 1..Len(queue) : Take(settled, work)!(i)
    BY <1>6 DEF Take
  <2>2. PICK j \in Jobs : j = queue[i]
    BY <1>1, <2>1 DEF Items
  <2>3. work' = [work EXCEPT ![j] = "pending"]
    BY <2>1, <2>2
  <2>4. j \in Drained /\ ~cancelled[j]
    <3>1. ~cancelled[j]
      BY <2>1, <2>2 DEF FirstLive, Skipped
    <3>. QED
      BY <2>2, <3>1 DEF Drained
  <2>5. PhaseOf(j) = "waiting" /\ PhaseOf(j)' = "computing"
    <3>1. submit[j] # "new" /\ work[j] = "none" /\ work'[j] = "pending"
      BY <1>1, <2>3, <2>4
    <3>. QED
      BY <1>1, <2>4, <3>1 DEF PhaseOf
  <2>6. \A k \in Jobs \ {j} : PhaseOf(k)' = PhaseOf(k)
    <3>1. ASSUME NEW k \in Jobs \ {j} PROVE PhaseOf(k)' = PhaseOf(k)
      <4>1. work'[k] = work[k]
        BY <1>1, <2>3
      <4>2. ~cancelled[k] => (k \in Drained' <=> k \in Drained)
        BY <1>2, <2>1, <2>2
      <4>. QED
        BY <1>1, <4>1, <4>2 DEF PhaseOf
    <3>. QED
      BY <3>1
  <2>7. AbstractPhase' = [AbstractPhase EXCEPT ![j] = "computing"]
    BY <2>5, <2>6, OnePhase
  <2>8. Execution!Computing = {} /\ j \in Execution!Waiting
    <3>1. \A k \in Jobs : PhaseOf(k) # "computing"
      BY DEF PhaseOf
    <3>. QED
      BY <2>5, <3>1 DEF AbstractPhase, Execution!Computing, Execution!Waiting
  <2>9. ASSUME NEW k \in Execution!Waiting PROVE enqueuedAt[j] <= enqueuedAt[k]
    <3>1. k \in Jobs /\ k \in Drained /\ ~cancelled[k]
      BY <2>9 DEF AbstractPhase, Execution!Waiting, PhaseOf
    <3>2. PICK m \in 1..Len(queue) : queue[m] = k
      BY <3>1 DEF Drained
    <3>3. m \notin 1..(i - 1)
      BY <2>1, <3>1, <3>2 DEF FirstLive, Skipped
    <3>4. m = i \/ i < m
      BY <1>1, <3>3
    <3>5. i < m => enqueuedAt[j] < enqueuedAt[k]
      BY <1>1, <2>2, <3>1, <3>2 DEF Sorted
    <3>6. m = i => k = j
      BY <2>2, <3>2
    <3>7. enqueuedAt[j] \in Nat /\ enqueuedAt[k] \in Nat
      BY <1>1, <3>1
    <3>. QED
      BY <3>4, <3>5, <3>6, <3>7
  <2>10. Execution!Begin(j)
    BY <1>1, <2>7, <2>8, <2>9 DEF Execution!Begin
  <2>. QED
    BY <2>10 DEF Execution!ExecNext
<1>. QED
  BY <1>4, <1>5, <1>6 DEF Proceed

------------------------------------------------------------------------------
(***************************************************************************)
(* The thread and close                                                    *)
(***************************************************************************)

LEMMA ThreadMaps ==
    ASSUME MapInv, ThreadStep
    PROVE  Execution!ExecNext \/ UNCHANGED Execution!execVars
<1>1. /\ work \in [Jobs -> WorkStates] /\ thread \in JobsOrNone /\ backlog \in Seq(Jobs)
      /\ thread # None => work[thread] = "running"
      /\ \A k \in Jobs : submit[k] = "new" => work[k] = "none"
  BY MapFacts DEF TypeOK
<1>2. UNCHANGED <<queue, clock, enqueuedAt, cancelled, submit>> /\ UNCHANGED Drained
  BY DEF ThreadStep, PickUp, Drop, EndCall, queueVars, futureVars, Drained
<1>3. CASE PickUp
  <2>1. PICK j \in Jobs : j = Head(backlog)
    BY <1>1, <1>3 DEF PickUp
  <2>2. work[j] = "pending" /\ work' = [work EXCEPT ![j] = "running"]
    BY <1>3, <2>1 DEF PickUp
  <2>3. \A k \in Jobs : PhaseOf(k)' = PhaseOf(k)
    BY <1>1, <1>2, <2>2 DEF PhaseOf
  <2>. QED
    BY <1>2, <2>3, Stutter
<1>4. CASE Drop
  <2>1. \A k \in Jobs : PhaseOf(k)' = PhaseOf(k)
    BY <1>2, <1>4 DEF Drop, PhaseOf
  <2>. QED
    BY <1>2, <2>1, Stutter
<1>5. ASSUME NEW result \in {"value", "error"}, EndCall(result)
      PROVE  Execution!ExecNext
  <2>1. PICK j \in Jobs : j = thread
    BY <1>1, <1>5 DEF EndCall, JobsOrNone
  <2>2. work[j] = "running" /\ work' = [work EXCEPT ![j] = result]
    BY <1>1, <1>5, <2>1 DEF EndCall
  <2>3. submit[j] # "new"
    BY <1>1, <2>2
  <2>4. PhaseOf(j) = "computing" /\ PhaseOf(j)' = "computed"
    BY <1>1, <1>2, <2>2, <2>3 DEF PhaseOf
  <2>5. \A k \in Jobs \ {j} : PhaseOf(k)' = PhaseOf(k)
    BY <1>1, <1>2, <2>2 DEF PhaseOf
  <2>6. AbstractPhase' = [AbstractPhase EXCEPT ![j] = "computed"]
    BY <2>4, <2>5, OnePhase
  <2>7. j \in Execution!Computing
    BY <2>4 DEF AbstractPhase, Execution!Computing
  <2>8. Execution!End(j)
    BY <1>2, <2>6, <2>7 DEF Execution!End
  <2>. QED
    BY <2>8 DEF Execution!ExecNext
<1>. QED
  BY <1>3, <1>4, <1>5 DEF ThreadStep

LEMMA CloseMaps ==
    ASSUME MapInv, CloseStep
    PROVE  Execution!ExecNext \/ UNCHANGED Execution!execVars
<1>1. /\ cancelled \in [Jobs -> BOOLEAN] /\ work \in [Jobs -> WorkStates]
      /\ \A k \in Jobs : submit[k] = "new" => work[k] = "none" /\ k \notin Drained
      /\ \A k \in Jobs : work[k] \in {"pending", "running"} => consumer = "executing"
  BY MapFacts DEF TypeOK
<1>2. UNCHANGED <<clock, enqueuedAt, submit>>
  BY DEF CloseStep, Close, Shutdown, CloseFails, Joined, queueVars
<1>3. CASE Close
  <2>1. /\ cancelled' = [j \in Jobs |-> cancelled[j] \/ j \in Drained]
        /\ work' = work /\ queue' = StopItems
    BY <1>3 DEF Close, executorVars
  <2>2. \A k \in Jobs : k \notin Drained'
    BY <2>1, ItemsAssumption DEF StopItems, Drained
  <2>3. PICK leaving : leaving = {k \in Jobs : PhaseOf(k) = "waiting"}
    OBVIOUS
  <2>4. \A k \in Jobs : PhaseOf(k)' = IF k \in leaving THEN "gone" ELSE PhaseOf(k)
    BY <1>1, <1>2, <2>1, <2>2, <2>3 DEF PhaseOf
  <2>5. CASE leaving = {}
    BY <1>2, <2>4, <2>5, Stutter
  <2>6. CASE leaving # {}
    <3>1. AbstractPhase' =
              [k \in Jobs |-> IF k \in leaving THEN "gone" ELSE AbstractPhase[k]]
      BY <2>4 DEF AbstractPhase
    <3>2. leaving \subseteq Execution!Waiting /\ leaving \in SUBSET Jobs
      BY <2>3 DEF AbstractPhase, Execution!Waiting
    <3>3. Execution!Leave(leaving)
      BY <1>2, <2>6, <3>1, <3>2 DEF Execution!Leave
    <3>. QED
      BY <3>2, <3>3 DEF Execution!ExecNext
  <2>. QED
    BY <2>5, <2>6
<1>4. CASE Shutdown
  <2>1. \A k \in Jobs : work'[k] = work[k]
    BY <1>1, <1>4 DEF Shutdown, Withdraw
  <2>2. UNCHANGED <<queue, cancelled, Drained>>
    BY <1>4 DEF Shutdown, queueVars, futureVars, Drained
  <2>3. \A k \in Jobs : PhaseOf(k)' = PhaseOf(k)
    BY <1>2, <2>1, <2>2 DEF PhaseOf
  <2>. QED
    BY <1>2, <2>3, Stutter
<1>5. CASE CloseFails \/ Joined
  <2>1. UNCHANGED <<queue, cancelled, work>>
    BY <1>5 DEF CloseFails, Joined, queueVars, futureVars, executorVars
  <2>2. \A k \in Jobs : PhaseOf(k)' = PhaseOf(k)
    BY <1>2, <2>1, SamePhase
  <2>. QED
    BY <1>2, <2>2, Stutter
<1>. QED
  BY <1>3, <1>4, <1>5 DEF CloseStep

------------------------------------------------------------------------------

LEMMA InitMaps == Init => Execution!ExecInit
BY DEF Init, Execution!ExecInit, AbstractPhase, PhaseOf

LEMMA NextMaps ==
    MaxConsumerCancels = 0 /\ MapInv /\ [Next]_vars =>
        Execution!ExecNext \/ UNCHANGED Execution!execVars
<1>. SUFFICES ASSUME MaxConsumerCancels = 0, MapInv, [Next]_vars
              PROVE  Execution!ExecNext \/ UNCHANGED Execution!execVars
  OBVIOUS
<1>1. ASSUME UNCHANGED <<queue, clock, enqueuedAt, cancelled, submit, work>>
      PROVE  UNCHANGED Execution!execVars
  <2>1. \A k \in Jobs : PhaseOf(k)' = PhaseOf(k)
    BY <1>1, SamePhase
  <2>. QED
    BY <1>1, <2>1, Stutter
<1>2. CASE \E j \in Jobs : SubmitStep(j)
  BY <1>2, SubmitMaps
<1>3. CASE Start
  BY <1>1, <1>3 DEF Start, queueVars, futureVars, executorVars
<1>4. CASE Wake
  <2>1. Proceed(0, work) /\ \A j \in Jobs : work[j] \notin {"pending", "running"}
    BY <1>4, MapFacts DEF Wake
  <2>. QED
    BY <2>1, ProceedMaps
<1>5. CASE Finish
  <2>1. Proceed(1, work) /\ \A j \in Jobs : work[j] \notin {"pending", "running"}
    BY <1>5, MapFacts DEF Finish
  <2>. QED
    BY <2>1, ProceedMaps
<1>6. ~CancelIdle /\ ~CancelExecuting
  <2>1. cancels \in 0..0
    BY MapFacts DEF TypeOK
  <2>. QED
    BY <2>1 DEF CancelIdle, CancelExecuting
<1>7. CASE Quiet \/ UNCHANGED vars
  BY <1>1, <1>7 DEF Quiet, vars, queueVars, futureVars, executorVars
<1>. QED
  BY <1>2, <1>3, <1>4, <1>5, <1>6, <1>7, ThreadMaps, CloseMaps DEF Next, ConsumerStep

\* As long as nothing cancels the consumer, calls are computed one at a time, each at
\* most once, in the order of their arrival and never after they left: the scheduler
\* implements the safety part of SerialExecution (scheduler.py:47, 130-165).
THEOREM SchedulerIsSerial ==
    ASSUME MaxConsumerCancels = 0 PROVE Spec => Execution!ExecSpec
<1>1. MapInv /\ [Next]_vars => [Execution!ExecNext]_(Execution!execVars)
  BY NextMaps
<1>. QED
  BY MapInvariant, InitMaps, <1>1, PTL DEF Spec, Execution!ExecSpec

------------------------------------------------------------------------------
(***************************************************************************)
(* The adapter only ever does to a scheduler what any caller may do        *)
(***************************************************************************)
LEMMA LifeStep == [LifeNext]_lifeVars => [Next]_vars
<1>. SUFFICES ASSUME [LifeNext]_lifeVars PROVE [Next]_vars
  OBVIOUS
<1>. USE DEF Next, CloseStep, ConsumerStep, SubmitStep
<1>1. CASE LifespanStep
  <2>1. CASE Startup \/ StartupFails \/ AccessLogFails \/ WarmUpFails \/ Ready
    BY <2>1 DEF Startup, StartupFails, AccessLogFails, WarmUpFails, Ready
  <2>2. CASE RunLogFails \/ ReportFailure
    BY <2>2 DEF RunLogFails, ReportFailure
  <2>3. CASE WarmUp
    <3>1. \A n \in 1..Len(WarmUps) : WarmUps[n] \in Jobs
      BY WarmUpsAssumption
    <3>. QED
      BY <2>3, <3>1 DEF WarmUp
  <2>4. CASE EndLife \/ CancelLife \/ Released \/ Unreleased
    BY <2>4 DEF EndLife, CancelLife, Released, Unreleased
  <2>. QED
    BY <1>1, <2>1, <2>2, <2>3, <2>4 DEF LifespanStep
<1>2. ASSUME NEW r \in Requests, RequestStep(r) PROVE [Next]_vars
  <2>1. r \in Jobs
    BY DEF Requests
  <2>. QED
    BY <1>2, <2>1 DEF RequestStep, Arrive, RefuseEarly, Unencodable, Continue, Reply,
                      ReportException, WriteLine, LoseLine, Lose, DropReply
<1>3. CASE UvicornStep
  BY <1>3 DEF UvicornStep, Signal, Kill
<1>4. CASE SchedulerStep
  BY <1>4 DEF SchedulerStep, Resume, Teardown, Requests
<1>5. CASE ExecutorStep
  BY <1>5 DEF ExecutorStep
<1>6. CASE DiskStep \/ LoopBlocks \/ ThreadBlocks \/ LifeQuiet \/ UNCHANGED lifeVars
  BY <1>6 DEF DiskStep, LoopBlocks, ThreadBlocks, LifeQuiet, lifeVars
<1>. QED
  BY <1>1, <1>2, <1>3, <1>4, <1>5, <1>6 DEF LifeNext

\* What is proved of the scheduler holds of the one that serves requests.
THEOREM LifecycleUsesScheduler == LifeSpec => Spec
<1>1. LifeInit => Init
  BY DEF LifeInit
<1>. QED
  BY <1>1, LifeStep, PTL DEF LifeSpec, Spec

------------------------------------------------------------------------------
(***************************************************************************)
(* What a step of the scheduler does to the calls and to the consumer      *)
(***************************************************************************)
Unanswered == InWaitFor \cup {"executing"}

\* A new call of submit.
NewCall(j) == Enqueue(j) \/ RefuseFull(j) \/ RefuseNotRunning(j)

LEMMA NewCallEffect ==
    ASSUME TypeOK, NEW j \in Jobs, NewCall(j)
    PROVE  /\ submit[j] = "new" /\ submit'[j] \in {"waiting", "queue_full", "not_running"}
           /\ submit'[j] = "not_running" => NotRunning
           /\ submit'[j] = "waiting" => ~NotRunning
           /\ \A k \in Jobs : k # j => submit'[k] = submit[k]
           /\ UNCHANGED <<completed, started, consumer, closed, closer, thread, work, backlog>>
           /\ queue' = queue \/ (~NotRunning /\ queue' = Append(queue, j))
BY DEF TypeOK, NewCall, Enqueue, RefuseFull, RefuseNotRunning, Answer, futureVars, consumerVars,
       executorVars, closeVars, queueVars

\* What becomes of a call that is waiting.
OldCall(j) == Resume(j) \/ Expire(j) \/ Abort(j) \/ AbortExecuting(j)

LEMMA OldCallEffect ==
    ASSUME TypeOK, NEW j \in Jobs, OldCall(j)
    PROVE  /\ submit[j] \in Unanswered
           /\ submit'[j] \in (Unanswered \cup Answers) \ {"waiting", "queue_full", "not_running"}
           /\ Resume(j) \/ Expire(j) =>
                 /\ submit'[j] # "aborting"
                 /\ submit'[j] = "cancelled" =>
                       \/ submit[j] = "aborting" \/ started[j] = "cancelled"
                       \/ completed[j] \in {"interrupted", "cancelled"}
           /\ \A k \in Jobs : k # j => submit'[k] = submit[k]
           /\ UNCHANGED <<queue, completed, started, consumer, closed, closer, thread, work, backlog>>
<1>. USE DEF TypeOK, Unanswered, InWaitFor, Answers, Answer, GiveUp, futureVars, consumerVars,
             executorVars, closeVars, queueVars, Outcomes, OldCall, Resume,
             ObserveStart, RaiseTimeout, RaiseAbort, ObserveClose, Deliver, Expire, Abort, AbortExecuting
<1>1. CASE ObserveStart(j)
  BY <1>1
<1>2. CASE RaiseTimeout(j) \/ RaiseAbort(j) \/ ObserveClose(j)
  BY <1>2
<1>3. CASE Deliver(j)
  BY <1>3
<1>4. CASE Expire(j)
  BY <1>4
<1>5. CASE Abort(j)
  BY <1>5
<1>6. CASE AbortExecuting(j)
  BY <1>6
<1>. QED
  BY <1>1, <1>2, <1>3, <1>4, <1>5, <1>6

\* The consumer and the thread answer nobody.
LEMMA ConsumerEffect ==
    ASSUME TypeOK, Wake \/ Finish \/ CancelIdle \/ CancelExecuting
    PROVE  /\ UNCHANGED <<submit, closed, closer, thread>>
           /\ consumer # "none" /\ consumer' # "none"
           /\ consumer' = "cancelled" => CancelIdle
           /\ consumer' = "stopped" => \E i \in 1..Len(queue) : queue[i] = Stop
<1>1. ASSUME NEW settled, NEW futures, Proceed(settled, futures)
      PROVE  /\ UNCHANGED <<submit, closed, closer, thread>>
             /\ consumer' \in {"idle", "executing", "stopped"}
             /\ consumer' = "stopped" => \E i \in 1..Len(queue) : queue[i] = Stop
  BY <1>1 DEF Proceed, Park, Take, Return, FirstLive, closeVars
<1>2. CASE Wake
  BY <1>1, <1>2 DEF Wake
<1>3. CASE Finish
  BY <1>1, <1>3 DEF Finish
<1>4. CASE CancelIdle
  BY <1>4 DEF CancelIdle, executorVars, closeVars
<1>5. CASE CancelExecuting
  BY <1>1, <1>5 DEF CancelExecuting
<1>. QED
  BY <1>2, <1>3, <1>4, <1>5

------------------------------------------------------------------------------
(***************************************************************************)
(* The scheduler before close                                              *)
(***************************************************************************)
\* Until close is called nothing stops the consumer and nothing cancels a future.
OpenInv ==
    /\ closed <=> closer # "none"
    /\ ~closed =>
          /\ consumer # "stopped"
          /\ \A i \in 1..Len(queue) : queue[i] # Stop
          /\ \A j \in Jobs : started[j] # "cancelled" /\ completed[j] # "cancelled"

SchedulerInv == LeftInv /\ AnswerInv /\ OpenInv

LEMMA InitScheduler == Init => SchedulerInv
BY InitLeft, InitAnswer DEF Init, SchedulerInv, OpenInv

LEMMA ProceedOpen ==
    ASSUME TypeOK, OpenInv, NEW settled, NEW futures, Proceed(settled, futures), ~closed
    PROVE  /\ consumer' # "stopped"
           /\ \A i \in 1..Len(queue') : queue'[i] # Stop
           /\ \A j \in Jobs : started'[j] # "cancelled"
<1>1. /\ queue \in Seq(Items) /\ started \in [Jobs -> FutureStates]
      /\ \A i \in 1..Len(queue) : queue[i] # Stop
      /\ \A j \in Jobs : started[j] # "cancelled"
  BY DEF TypeOK, OpenInv
<1>2. ASSUME NEW i \in 1..Len(queue), queue' = After(i)
      PROVE  \A k \in 1..Len(queue') : queue'[k] # Stop
  <2>1. /\ Len(queue') = Len(queue) - i
        /\ \A k \in 1..Len(queue') : queue'[k] = queue[i + k]
    BY <1>1, <1>2, AfterType
  <2>2. \A k \in 1..(Len(queue) - i) : i + k \in 1..Len(queue)
    BY <1>1
  <2>. QED
    BY <1>1, <2>1, <2>2
<1>3. CASE Park(settled, futures)
  BY <1>1, <1>3 DEF Park
<1>4. CASE Take(settled, futures)
  BY <1>1, <1>2, <1>4 DEF Take
<1>5. CASE Return(settled, futures)
  BY <1>1, <1>5 DEF Return
<1>. QED
  BY <1>3, <1>4, <1>5 DEF Proceed

LEMMA NextOpen == TypeOK /\ OpenInv /\ [Next]_vars => OpenInv'
<1>. SUFFICES ASSUME TypeOK, OpenInv, [Next]_vars PROVE OpenInv'
  OBVIOUS
<1>1. /\ queue \in Seq(Items) /\ completed \in [Jobs -> Outcomes] /\ work \in [Jobs -> WorkStates]
      /\ closed \in BOOLEAN
  BY DEF TypeOK
<1>2. CASE UNCHANGED <<queue, started, completed, consumer, closed, closer>>
  BY <1>2 DEF OpenInv
<1>3. ASSUME NEW j \in Jobs, SubmitStep(j) PROVE OpenInv'
  <2>1. CASE NewCall(j)
    <3>1. /\ UNCHANGED <<completed, started, consumer, closed, closer>>
          /\ queue' = queue \/ (~NotRunning /\ queue' = Append(queue, j))
      BY <2>1, NewCallEffect
    <3>2. CASE queue' = Append(queue, j)
      <4>1. \A i \in 1..Len(queue') : queue'[i] = j \/ (i \in 1..Len(queue) /\ queue'[i] = queue[i])
        BY <1>1, <3>2 DEF Items
      <4>. QED
        BY <3>1, <4>1, ItemsAssumption DEF OpenInv
    <3>. QED
      BY <1>2, <3>1, <3>2
  <2>2. CASE OldCall(j)
    BY <1>2, <2>2, OldCallEffect
  <2>. QED
    BY <1>3, <2>1, <2>2 DEF SubmitStep, NewCall, OldCall, Resume
<1>4. ASSUME NEW outcome \in {"value", "error", "interrupted"}, completed' = Settle(outcome)
      PROVE  \A j \in Jobs : completed[j] # "cancelled" => completed'[j] # "cancelled"
  BY <1>1, <1>4 DEF Settle
<1>5. CASE Wake
  BY <1>5, ProceedOpen DEF Wake, Proceed, closeVars, OpenInv
<1>6. CASE Finish
  BY <1>4, <1>6, ProceedOpen DEF Finish, Proceed, closeVars, OpenInv
<1>7. CASE CancelExecuting
  BY <1>4, <1>7, ProceedOpen DEF CancelExecuting, Proceed, closeVars, OpenInv
<1>8. CASE Start \/ CancelIdle
  BY <1>8 DEF Start, CancelIdle, OpenInv, queueVars, futureVars, closeVars
<1>9. CASE ThreadStep
  BY <1>2, <1>9 DEF ThreadStep, PickUp, Drop, EndCall, queueVars, futureVars, consumerVars, closeVars
<1>10. CASE CloseStep
  BY <1>10 DEF CloseStep, Close, Shutdown, CloseFails, Joined, OpenInv, consumerVars, queueVars,
              futureVars
<1>11. CASE Quiet \/ UNCHANGED vars
  BY <1>2, <1>11 DEF Quiet, vars, queueVars, futureVars, consumerVars, closeVars
<1>. QED
  BY <1>3, <1>5, <1>6, <1>7, <1>8, <1>9, <1>10, <1>11 DEF Next, ConsumerStep

LEMMA NextScheduler == SchedulerInv /\ [LifeNext]_lifeVars => SchedulerInv'
<1>1. SchedulerInv => TypeOK
  BY DEF SchedulerInv, LeftInv, DrainedInv, LineInv
<1>. QED
  BY <1>1, LifeStep, NextLeft, NextAnswer, NextOpen DEF SchedulerInv

------------------------------------------------------------------------------
(***************************************************************************)
(* Where the lifespan is, and where the server and the scheduler are then  *)
(***************************************************************************)
WebTypeOK ==
    /\ life \in LifeStates
    /\ server \in {"down", "serving", "draining", "killed"}
    /\ request \in [Requests -> RequestStates]
    /\ code \in [Requests -> Codes]
    /\ line \in [Requests -> Codes]
    /\ traced \subseteq Requests
    /\ handler \in [Loggers -> {"none", "main", "run", "access"}]
    /\ open \subseteq {"main", "run", "access"}
    /\ disk \in {"writable", "full", "freed"}
    /\ blocked \subseteq {"loop", "thread"}
    /\ handler["uvicorn"] # "none"

PlaceInv ==
    /\ WebTypeOK
    /\ life = "off" => consumer = "none" /\ ~closed
    /\ life \in {"off", "starting"} => server = "down"
    /\ server = "serving" => life = "ready"
    /\ life \in {"starting", "ready"} => consumer # "none" /\ ~closed
    /\ life \in {"closing", "unwinding"} => closer \in {"awaiting", "joining"}
    /\ life = "ended" => closer = "closed"
    /\ life = "failed" => closer \in {"closed", "failed"} \/ (closer = "none" /\ consumer = "none")
    /\ consumer = "cancelled" => server = "killed"
    /\ closer = "failed" => server = "killed"

LEMMA InitPlace == LifeInit => PlaceInv
BY DEF LifeInit, Init, PlaceInv, WebTypeOK, LifeStates, RequestStates, Codes, Loggers

LEMMA NextWebType == WebTypeOK /\ [LifeNext]_lifeVars => WebTypeOK'
<1>. SUFFICES ASSUME WebTypeOK, [LifeNext]_lifeVars PROVE WebTypeOK'
  OBVIOUS
<1>. USE DEF WebTypeOK, webVars, logVars, LifeStates, RequestStates, Codes, Loggers, KeepLogs,
             SameDisk, ConfigureLogs, ConfigureAllLogs, ReleaseAccessLog
<1>1. CASE Startup
  BY <1>1 DEF Startup
<1>2. CASE RunLogFails
  <2>1. handler' = handler \/ handler' = [handler EXCEPT !["run"] = "none"]
    BY <1>2 DEF RunLogFails
  <2>2. handler' \in [Loggers -> {"none", "main", "run", "access"}] /\ handler'["uvicorn"] # "none"
    BY <2>1
  <2>3. open' \subseteq open
    BY <1>2 DEF RunLogFails
  <2>. QED
    BY <1>2, <2>2, <2>3 DEF RunLogFails
<1>3. CASE StartupFails
  BY <1>3 DEF StartupFails
<1>4. CASE AccessLogFails
  BY <1>4 DEF AccessLogFails
<1>5. CASE ReportFailure
  BY <1>5 DEF ReportFailure
<1>6. CASE WarmUp \/ WarmUpFails \/ Ready
  BY <1>6 DEF WarmUp, WarmUpFails, Ready
<1>7. CASE EndLife \/ CancelLife \/ Unreleased
  BY <1>7 DEF EndLife, CancelLife, Unreleased
<1>8. CASE Released
  BY <1>8 DEF Released
<1>9. ASSUME NEW r \in Requests, RequestStep(r) PROVE WebTypeOK'
  <2>1. CASE Arrive(r) \/ RefuseEarly(r) \/ Unencodable(r)
    BY <2>1 DEF Arrive, RefuseEarly, Unencodable
  <2>2. CASE Reply(r)
    <3>1. \A a : CodesOf(a) \subseteq Codes
      BY DEF CodesOf, Refusals, ErrorsOfTheCall
    <3>. QED
      BY <2>2, <3>1 DEF Reply
  <2>3. CASE WriteLine(r)
    <3>1. /\ line' = [line EXCEPT ![r] = code[r]] /\ request' = [request EXCEPT ![r] = "logged"]
          /\ UNCHANGED <<life, server, code, traced, handler, open, disk, blocked>>
      BY <2>3 DEF WriteLine
    <3>2. line' \in [Requests -> Codes]
      BY <3>1, Zenon
    <3>. QED
      BY <3>1, <3>2
  <2>4. CASE ReportException(r) \/ LoseLine(r) \/ Lose(r) \/ DropReply(r)
    BY <2>4 DEF ReportException, LoseLine, Lose, DropReply
  <2>. QED
    BY <1>9, <2>1, <2>2, <2>3, <2>4 DEF RequestStep, Continue
<1>10. CASE UvicornStep
  BY <1>10 DEF UvicornStep, Signal, Kill
<1>11. CASE SchedulerStep \/ ExecutorStep
  BY <1>11 DEF SchedulerStep, ExecutorStep
<1>12. CASE DiskStep \/ LoopBlocks \/ ThreadBlocks
  BY <1>12 DEF DiskStep, DiskFills, DiskFreed, LoopBlocks, ThreadBlocks
<1>13. CASE LifeQuiet \/ UNCHANGED lifeVars
  BY <1>13 DEF LifeQuiet, lifeVars
<1>. QED
  BY <1>1, <1>2, <1>3, <1>4, <1>5, <1>6, <1>7, <1>8, <1>9, <1>10, <1>11, <1>12, <1>13
     DEF LifeNext, LifespanStep

\* The state of the adapter keeps its shape, and that of its scheduler.
THEOREM LifeTypeCorrect == LifeSpec => []LifeTypeOK
<1>1. LifeInit => SchedulerInv /\ PlaceInv
  BY InitScheduler, InitPlace DEF LifeInit
<1>2. (SchedulerInv /\ WebTypeOK) /\ [LifeNext]_lifeVars => (SchedulerInv /\ WebTypeOK)'
  BY NextScheduler, NextWebType
<1>3. PlaceInv => WebTypeOK
  BY DEF PlaceInv
<1>4. SchedulerInv /\ WebTypeOK => LifeTypeOK
  BY DEF SchedulerInv, LeftInv, DrainedInv, LineInv, WebTypeOK, LifeTypeOK
<1>. QED
  BY <1>1, <1>2, <1>3, <1>4, PTL DEF LifeSpec

\* The calls of the warm-ups and the requests touch neither the lifespan's scheduler nor
\* the consumer.
LEMMA CallsKeepPlace ==
    ASSUME TypeOK, NEW j \in Jobs, NewCall(j) \/ OldCall(j)
    PROVE  UNCHANGED <<consumer, closed, closer>>
BY NewCallEffect, OldCallEffect

LEMMA WarmUpIsCall ==
    ASSUME WarmUp
    PROVE  \E j \in WarmUpJobs : NewCall(j) /\ j \in Jobs
BY WarmUpsAssumption DEF WarmUp, WarmUpJobs, NewCall

LEMMA NextPlace == SchedulerInv /\ PlaceInv /\ [LifeNext]_lifeVars => PlaceInv'
<1>. SUFFICES ASSUME SchedulerInv, PlaceInv, [LifeNext]_lifeVars PROVE PlaceInv'
  OBVIOUS
<1>1. WebTypeOK'
  BY NextWebType DEF PlaceInv
<1>2. TypeOK /\ OpenInv
  BY DEF SchedulerInv, LeftInv, DrainedInv, LineInv
<1>. USE DEF PlaceInv
<1>3. CASE UNCHANGED <<life, server, consumer, closed, closer>>
  BY <1>1, <1>3
<1>4. CASE Startup
  BY <1>1, <1>4 DEF Startup, Start, closeVars
<1>5. CASE RunLogFails \/ StartupFails
  BY <1>1, <1>2, <1>5 DEF RunLogFails, StartupFails, OpenInv, vars, consumerVars, closeVars
<1>6. CASE AccessLogFails \/ WarmUpFails \/ EndLife \/ CancelLife
  BY <1>1, <1>6 DEF AccessLogFails, WarmUpFails, EndLife, CancelLife, Close, consumerVars
<1>7. CASE WarmUp
  <2>1. UNCHANGED <<consumer, closed, closer>>
    BY <1>2, <1>7, WarmUpIsCall, CallsKeepPlace
  <2>. QED
    BY <1>3, <1>7, <2>1 DEF WarmUp, webVars
<1>8. CASE Ready
  BY <1>1, <1>8 DEF Ready, vars, consumerVars, closeVars
<1>9. CASE Released \/ Unreleased
  BY <1>1, <1>9 DEF Released, Unreleased, Joined, CloseFails, consumerVars
<1>10. ASSUME NEW r \in Requests, RequestStep(r) PROVE PlaceInv'
  <2>1. CASE Arrive(r)
    <3>1. UNCHANGED <<consumer, closed, closer>>
      BY <1>2, <2>1, CallsKeepPlace DEF Arrive, NewCall, Requests
    <3>. QED
      BY <1>3, <2>1, <3>1 DEF Arrive
  <2>2. CASE ~Arrive(r)
    BY <1>3, <1>10, <2>2 DEF RequestStep, Continue, RefuseEarly, Unencodable, Reply, WriteLine,
                             ReportException, LoseLine, Lose, DropReply, vars, consumerVars, closeVars
  <2>. QED
    BY <2>1, <2>2
<1>11. CASE UvicornStep
  BY <1>1, <1>11 DEF UvicornStep, Signal, Kill, Serves, vars, consumerVars, closeVars
<1>12. CASE SchedulerStep
  <2>1. UNCHANGED <<life, server>>
    BY <1>12 DEF SchedulerStep, webVars
  <2>2. ASSUME NEW j \in Jobs, OldCall(j) PROVE PlaceInv'
    BY <1>2, <1>3, <2>1, <2>2, CallsKeepPlace
  <2>3. CASE Wake \/ Finish
    <3>1. consumer' # "cancelled"
      BY <2>3 DEF Wake, Finish, Proceed, Park, Take, Return
    <3>. QED
      BY <1>1, <1>2, <2>1, <2>3, <3>1, ConsumerEffect
  <2>4. CASE server = "killed" /\ (CancelIdle \/ CancelExecuting)
    BY <1>1, <1>2, <2>1, <2>4, ConsumerEffect
  <2>5. CASE Shutdown
    BY <1>1, <1>2, <2>1, <2>5 DEF Shutdown, consumerVars, OpenInv
  <2>. QED
    BY <1>12, <2>2, <2>3, <2>4, <2>5 DEF SchedulerStep, Teardown, OldCall, Requests
<1>13. CASE ExecutorStep
  BY <1>3, <1>13 DEF ExecutorStep, ThreadStep, PickUp, Drop, EndCall, webVars, consumerVars,
                     closeVars
<1>14. CASE \/ ReportFailure \/ DiskStep \/ LoopBlocks \/ ThreadBlocks
            \/ LifeQuiet \/ UNCHANGED lifeVars
  BY <1>3, <1>14 DEF ReportFailure, DiskStep, LoopBlocks, ThreadBlocks, LifeQuiet, lifeVars, webVars, vars,
                     consumerVars, closeVars
<1>. QED
  BY <1>4, <1>5, <1>6, <1>7, <1>8, <1>9, <1>10, <1>11, <1>12, <1>13, <1>14
     DEF LifeNext, LifespanStep

------------------------------------------------------------------------------
(***************************************************************************)
(* What is left when the lifespan has ended                                *)
(***************************************************************************)
\* There is no scheduler and nobody was served or warmed up.
Unserved == server = "down" /\ consumer = "none" /\ \A j \in Jobs : submit[j] = "new"

\* No logger has a closed handler, and a closed scheduler's access log is removed.
HandlersOpen ==
    /\ \A l \in Loggers \ {"access"} : handler[l] \in {"main", "run"} \cap open
    /\ handler["access"] \in {"none"} \cup ({"access"} \cap open)
    /\ life = "off" => handler["access"] = "none"
    /\ closer = "closed" => handler["access"] = "none"

\* The run log was closed and could not be opened again.
NoRunLog == life = "failed" /\ Unserved /\ handler["run"] = "none" /\ handler["access"] = "none"

HandlerInv == (life = "off" => Unserved) /\ (HandlersOpen \/ NoRunLog)

LEMMA InitHandler == LifeInit => HandlerInv
BY DEF LifeInit, Init, HandlerInv, HandlersOpen, Unserved, Loggers

\* A lifespan that has no scheduler gets calls only if it makes one.
LEMMA NobodyIsServed ==
    ASSUME TypeOK, PlaceInv, Unserved, life \in {"off", "failed"}, [LifeNext]_lifeVars,
           life' \in {"off", "failed"}
    PROVE  Unserved' /\ (life = "failed" => UNCHANGED <<life, handler>>)
<1>1. CASE UNCHANGED <<server, consumer, submit>> /\ (life = "failed" => UNCHANGED <<life, handler>>)
  BY <1>1 DEF Unserved
<1>2. CASE LifespanStep
  BY <1>1, <1>2 DEF LifespanStep, Startup, RunLogFails, StartupFails, AccessLogFails, ReportFailure,
        WarmUp, WarmUpFails, Ready, EndLife, CancelLife, Released, Unreleased, vars, consumerVars,
        webVars
<1>3. ASSUME NEW r \in Requests, RequestStep(r) PROVE Unserved' /\ UNCHANGED <<life, handler>>
  <2>1. ~Arrive(r)
    BY DEF Arrive, Serves, Unserved
  <2>. QED
    BY <1>3, <2>1 DEF RequestStep, Continue, RefuseEarly, Unencodable, Reply, ReportException,
          WriteLine, LoseLine, Lose, DropReply, Unserved, vars, consumerVars, logVars
<1>4. ASSUME NEW j \in Jobs PROVE ~OldCall(j)
  BY <1>4, OldCallEffect DEF Unserved, Unanswered, InWaitFor
<1>5. CASE SchedulerStep
  <2>1. ~Wake /\ ~Finish /\ ~Teardown
    BY ConsumerEffect DEF Unserved, Teardown
  <2>. QED
    BY <1>1, <1>4, <1>5, <2>1 DEF SchedulerStep, OldCall, Shutdown, consumerVars, webVars, logVars
<1>6. CASE UvicornStep
  BY <1>6 DEF UvicornStep, Signal, Kill, Serves, Unserved
<1>7. CASE ExecutorStep
  BY <1>1, <1>7 DEF ExecutorStep, ThreadStep, PickUp, Drop, EndCall, webVars, logVars, consumerVars
<1>8. CASE DiskStep \/ LoopBlocks \/ ThreadBlocks \/ LifeQuiet \/ UNCHANGED lifeVars
  BY <1>1, <1>8 DEF DiskStep, LoopBlocks, ThreadBlocks, LifeQuiet, lifeVars, webVars, logVars, vars,
                    consumerVars
<1>. QED
  BY <1>2, <1>3, <1>5, <1>6, <1>7, <1>8 DEF LifeNext

LEMMA NextOpenHandlers ==
    ASSUME SchedulerInv, PlaceInv, HandlersOpen, life = "off" => Unserved, [LifeNext]_lifeVars
    PROVE  HandlersOpen' \/ NoRunLog'
<1>1. handler \in [Loggers -> {"none", "main", "run", "access"}] /\ TypeOK /\ OpenInv
  BY DEF SchedulerInv, LeftInv, DrainedInv, LineInv, PlaceInv, WebTypeOK
<1>. USE DEF HandlersOpen, Loggers
<1>2. CASE UNCHANGED <<handler, open>> /\ (life' = "off" => life = "off")
           /\ (closer' = "closed" => closer = "closed")
  BY <1>2
<1>3. CASE Startup
  <2>1. handler' = [l \in Loggers |-> IF l = "access" THEN "access" ELSE "run"]
        /\ {"run", "access"} \subseteq open' /\ life' = "starting" /\ closer' = "none"
    BY <1>1, <1>3 DEF Startup, Start, ConfigureAllLogs, closeVars, PlaceInv, OpenInv
  <2>. QED
    BY <2>1
<1>4. CASE StartupFails \/ AccessLogFails
  <2>1. /\ handler' = [handler EXCEPT !["run"] = "run", !["root"] = "run", !["uvicorn"] = "run"]
        /\ "run" \in open' /\ life' # "off"
    BY <1>4 DEF StartupFails, AccessLogFails, ConfigureLogs
  <2>2. handler["access"] = "none"
    BY <1>4 DEF StartupFails, AccessLogFails
  <2>. QED
    BY <1>1, <2>1, <2>2
<1>5. CASE RunLogFails
  <2>1. CASE UNCHANGED <<handler, open>>
    BY <1>2, <1>5, <2>1 DEF RunLogFails, vars, closeVars
  <2>2. CASE handler' = [handler EXCEPT !["run"] = "none"]
    BY <1>1, <1>5, <2>2 DEF RunLogFails, NoRunLog, Unserved, vars, consumerVars
  <2>. QED
    BY <1>5, <2>1, <2>2 DEF RunLogFails, KeepLogs
<1>6. ~ReportFailure
  BY DEF ReportFailure
<1>7. CASE Released
  <2>1. /\ handler' = [handler EXCEPT !["access"] = "none"]
        /\ open' = open \ {handler["access"]} /\ life' # "off"
    BY <1>7 DEF Released, ReleaseAccessLog
  <2>. QED
    BY <1>1, <2>1
<1>8. CASE WarmUpFails \/ EndLife \/ CancelLife \/ Unreleased
  BY <1>2, <1>8 DEF WarmUpFails, EndLife, CancelLife, Unreleased, Close, CloseFails, KeepLogs,
                    logVars
<1>9. CASE WarmUp
  <2>1. UNCHANGED closer
    BY <1>1, <1>9, WarmUpIsCall, CallsKeepPlace
  <2>. QED
    BY <1>2, <1>9, <2>1 DEF WarmUp, webVars, KeepLogs
<1>10. CASE Ready
  BY <1>2, <1>10 DEF Ready, KeepLogs, vars, closeVars
<1>11. ASSUME NEW r \in Requests, RequestStep(r) PROVE HandlersOpen' \/ NoRunLog'
  <2>1. CASE Arrive(r)
    <3>1. UNCHANGED closer
      BY <1>1, <2>1, CallsKeepPlace DEF Arrive, NewCall, Requests
    <3>. QED
      BY <1>2, <2>1, <3>1 DEF Arrive, logVars
  <2>2. CASE ~Arrive(r)
    BY <1>2, <1>11, <2>2 DEF RequestStep, Continue, RefuseEarly, Unencodable, Reply, WriteLine,
                            ReportException, LoseLine, Lose, DropReply, vars, closeVars, logVars
  <2>. QED
    BY <2>1, <2>2
<1>12. CASE UvicornStep
  BY <1>2, <1>12 DEF UvicornStep, Signal, Kill, vars, closeVars, logVars
<1>13. CASE SchedulerStep
  <2>1. UNCHANGED <<life, handler, open>>
    BY <1>13 DEF SchedulerStep, webVars, logVars
  <2>2. ASSUME NEW j \in Jobs, OldCall(j) PROVE UNCHANGED closer
    BY <1>1, <2>2, CallsKeepPlace
  <2>3. CASE Wake \/ Finish \/ CancelIdle \/ CancelExecuting
    BY <1>1, <1>2, <2>1, <2>3, ConsumerEffect
  <2>4. CASE Shutdown
    BY <1>2, <2>1, <2>4 DEF Shutdown
  <2>. QED
    BY <1>2, <1>13, <2>1, <2>2, <2>3, <2>4 DEF SchedulerStep, Teardown, OldCall, Requests
<1>14. CASE ExecutorStep
  BY <1>2, <1>14 DEF ExecutorStep, ThreadStep, PickUp, Drop, EndCall, webVars, logVars, closeVars
<1>15. CASE DiskStep \/ LoopBlocks \/ ThreadBlocks \/ LifeQuiet \/ UNCHANGED lifeVars
  BY <1>2, <1>15 DEF DiskStep, LoopBlocks, ThreadBlocks, LifeQuiet, lifeVars, webVars, logVars,
                     vars, closeVars
<1>. QED
  BY <1>3, <1>4, <1>5, <1>6, <1>7, <1>8, <1>9, <1>10, <1>11, <1>12, <1>13, <1>14, <1>15
     DEF LifeNext, LifespanStep

LEMMA NextHandler == SchedulerInv /\ PlaceInv /\ HandlerInv /\ [LifeNext]_lifeVars => HandlerInv'
<1>. SUFFICES ASSUME SchedulerInv, PlaceInv, HandlerInv, [LifeNext]_lifeVars PROVE HandlerInv'
  OBVIOUS
<1>1. TypeOK
  BY DEF SchedulerInv, LeftInv, DrainedInv, LineInv
<1>2. life' = "off" => Unserved'
  <2>1. life' = "off" => life = "off"
    BY DEF LifeNext, LifespanStep, Startup, RunLogFails, StartupFails, AccessLogFails, ReportFailure,
          WarmUp, WarmUpFails, Ready, EndLife, CancelLife, Released, Unreleased, RequestStep, Arrive,
          RefuseEarly, Unencodable, Continue, Reply, ReportException, WriteLine, LoseLine, Lose,
          DropReply, UvicornStep, Signal, Kill, SchedulerStep, ExecutorStep, DiskStep, LoopBlocks,
          ThreadBlocks, LifeQuiet, lifeVars, webVars
  <2>. QED
    BY <1>1, <2>1, NobodyIsServed DEF HandlerInv
<1>3. CASE HandlersOpen
  BY <1>2, <1>3, NextOpenHandlers DEF HandlerInv
<1>4. CASE NoRunLog
  <2>1. (life' = "failed" => Unserved') /\ UNCHANGED <<life, handler>>
    <3>1. life' = "failed"
      BY <1>4 DEF NoRunLog, Unserved, LifeNext, LifespanStep, Startup, RunLogFails, StartupFails,
          AccessLogFails, ReportFailure, WarmUp, WarmUpFails, Ready, EndLife, CancelLife, Released,
          Unreleased, RequestStep, Arrive, RefuseEarly, Unencodable, Continue, Reply,
          ReportException, WriteLine, LoseLine, Lose, DropReply, UvicornStep, Signal, Kill,
          SchedulerStep, ExecutorStep, DiskStep, LoopBlocks, ThreadBlocks, LifeQuiet, lifeVars,
          webVars
    <3>. QED
      BY <1>1, <1>4, <3>1, NobodyIsServed DEF NoRunLog
  <2>. QED
    BY <1>2, <1>4, <2>1 DEF NoRunLog, HandlerInv
<1>. QED
  BY <1>3, <1>4 DEF HandlerInv

\* However the lifespan ends, nothing it made is left, unless a second signal made the
\* scheduler's close raise; and a logger has a closed handler only if the run log could not
\* be opened again at the start, before there was a scheduler or anything to serve.
THEOREM NothingIsLeft == LifeSpec => []EverythingReleased
<1>1. ASSUME SchedulerInv, PlaceInv, HandlerInv PROVE EverythingReleased
  <2>1. /\ closed <=> closer # "none"
        /\ closer = "closed" => thread = None /\ backlog = <<>>
    BY <1>1 DEF SchedulerInv, LeftInv, OpenInv
  <2>. QED
    BY <1>1, <2>1 DEF PlaceInv, HandlerInv, HandlersOpen, NoRunLog, Unserved, EverythingReleased
<1>2. LifeInit => SchedulerInv /\ PlaceInv /\ HandlerInv
  BY InitScheduler, InitPlace, InitHandler DEF LifeInit
<1>3. (SchedulerInv /\ PlaceInv /\ HandlerInv) /\ [LifeNext]_lifeVars
         => (SchedulerInv /\ PlaceInv /\ HandlerInv)'
  BY NextScheduler, NextPlace, NextHandler
<1>. QED
  BY <1>1, <1>2, <1>3, PTL DEF LifeSpec

------------------------------------------------------------------------------
(***************************************************************************)
(* What the lifecycle does to the calls                                    *)
(***************************************************************************)
\* Calls that are answered stay so; a request that is not one of the warm-ups begins
\* only when it arrives.
CallSteps ==
    /\ \A j \in Jobs : submit[j] \in Answers => submit'[j] = submit[j]
    /\ \A r \in Requests :
          \/ submit'[r] = submit[r]
          \/ submit[r] \in Unanswered /\ submit'[r] # "new"
          \/ Arrive(r)

LEMMA LifeCalls == TypeOK /\ [LifeNext]_lifeVars => CallSteps
<1>. SUFFICES ASSUME TypeOK, [LifeNext]_lifeVars PROVE CallSteps
  OBVIOUS
<1>1. CASE UNCHANGED submit
  BY <1>1 DEF CallSteps
<1>2. "new" \notin Answers /\ "new" \notin Unanswered /\ Unanswered \cap Answers = {}
  BY DEF Answers, Unanswered, InWaitFor
<1>3. ASSUME NEW j \in Jobs, NewCall(j), j \in Requests => Arrive(j) PROVE CallSteps
  BY <1>2, <1>3, NewCallEffect DEF CallSteps, Requests
<1>4. ASSUME NEW j \in Jobs, OldCall(j) PROVE CallSteps
  BY <1>2, <1>4, OldCallEffect DEF CallSteps, Requests
<1>5. CASE LifespanStep
  <2>1. CASE WarmUp
    BY <1>3, <2>1, WarmUpIsCall DEF Requests
  <2>2. CASE ~WarmUp
    BY <1>1, <1>5, <2>2 DEF LifespanStep, Startup, RunLogFails, StartupFails, AccessLogFails,
              ReportFailure, WarmUpFails, Ready, EndLife, CancelLife, Released, Unreleased, Start, Close, Joined, CloseFails,
              vars
  <2>. QED
    BY <2>1, <2>2
<1>6. ASSUME NEW r \in Requests, RequestStep(r) PROVE CallSteps
  <2>1. CASE Arrive(r)
    BY <1>3, <2>1 DEF Arrive, NewCall, Requests
  <2>2. CASE ~Arrive(r)
    BY <1>1, <1>6, <2>2 DEF RequestStep, Continue, RefuseEarly, Unencodable, Reply, WriteLine,
                            ReportException, LoseLine, Lose, DropReply, vars
  <2>. QED
    BY <2>1, <2>2
<1>7. CASE UvicornStep
  BY <1>1, <1>7 DEF UvicornStep, Signal, Kill, vars
<1>8. CASE SchedulerStep
  <2>1. CASE Wake \/ Finish \/ CancelIdle \/ CancelExecuting
    BY <1>1, <2>1, ConsumerEffect
  <2>. QED
    BY <1>1, <1>4, <1>8, <2>1 DEF SchedulerStep, Teardown, OldCall, Requests, Shutdown
<1>9. CASE ExecutorStep
  BY <1>1, <1>9 DEF ExecutorStep, ThreadStep, PickUp, Drop, EndCall
<1>10. CASE DiskStep \/ LoopBlocks \/ ThreadBlocks \/ LifeQuiet \/ UNCHANGED lifeVars
  BY <1>1, <1>10 DEF DiskStep, LoopBlocks, ThreadBlocks, LifeQuiet, lifeVars, vars
<1>. QED
  BY <1>5, <1>6, <1>7, <1>8, <1>9, <1>10 DEF LifeNext

------------------------------------------------------------------------------
(***************************************************************************)
(* The service is healthy while it serves                                  *)
(***************************************************************************)
WarmInv == life = "ready" => \A j \in WarmUpJobs : submit[j] = "value"

\* As many warm-ups as there are have succeeded only if all have.
LEMMA AllWarmedUp ==
    ASSUME WarmedUp = Len(WarmUps)
    PROVE  \A j \in WarmUpJobs : submit[j] = "value"
<1>1. WarmUps \in Seq(Jobs)
  BY WarmUpsAssumption
<1>. PICK n \in Nat : n = Len(WarmUps)
  BY <1>1
<1>. DEFINE Good == {j \in WarmUpJobs : submit[j] = "value"}
<1>2. WarmUps \in Surjection(1..n, WarmUpJobs)
  BY <1>1 DEF Surjection, WarmUpJobs
<1>3. IsFiniteSet(1..n) /\ Cardinality(1..n) = n
  <2>1. 1 \in Int /\ n \in Int /\ (1 > n => n = 0)
    OBVIOUS
  <2>2. Cardinality(1..n) = IF 1 > n THEN 0 ELSE n - 1 + 1
    BY <2>1, FS_Interval
  <2>3. (IF 1 > n THEN 0 ELSE n - 1 + 1) = n
    OBVIOUS
  <2>4. IsFiniteSet(1..n)
    BY <2>1, FS_Interval
  <2>. QED
    BY <2>2, <2>3, <2>4
<1>4. IsFiniteSet(WarmUpJobs) /\ Cardinality(WarmUpJobs) <= n
  BY <1>2, <1>3, FS_Surjection
<1>5. Good \in SUBSET WarmUpJobs
  OBVIOUS
<1>6. Cardinality(Good) = n
  BY DEF WarmedUp
<1>7. /\ Cardinality(Good) <= Cardinality(WarmUpJobs)
      /\ Cardinality(WarmUpJobs) = Cardinality(Good) => WarmUpJobs = Good
  BY <1>4, <1>5, FS_Subset
<1>8. Cardinality(WarmUpJobs) \in Nat
  BY <1>4, FS_CardinalityType
<1>9. WarmUpJobs = Good
  BY <1>1, <1>4, <1>6, <1>7, <1>8
<1>. QED
  BY <1>9

LEMMA NextWarm == TypeOK /\ WarmInv /\ [LifeNext]_lifeVars => WarmInv'
<1>. SUFFICES ASSUME TypeOK, WarmInv, [LifeNext]_lifeVars, life' = "ready"
              PROVE  \A j \in WarmUpJobs : submit'[j] = "value"
  BY DEF WarmInv
<1>1. WarmUpJobs \subseteq Jobs
  BY WarmUpsAssumption DEF WarmUpJobs
<1>2. CASE Ready
  BY <1>2, AllWarmedUp DEF Ready, vars
<1>3. CASE life = "ready"
  BY <1>1, <1>3, LifeCalls DEF WarmInv, CallSteps, Answers
<1>4. CASE ~Ready
  <2>1. life = "ready"
    BY <1>4 DEF LifeNext, LifespanStep, Startup, RunLogFails, StartupFails, AccessLogFails,
          ReportFailure, WarmUp, WarmUpFails, EndLife, CancelLife, Released, Unreleased, RequestStep,
          Arrive, RefuseEarly, Unencodable, Continue, Reply, ReportException, WriteLine, LoseLine,
          Lose, DropReply, UvicornStep, Signal, Kill, SchedulerStep,
          ExecutorStep, DiskStep, LoopBlocks, ThreadBlocks, LifeQuiet, lifeVars, webVars
  <2>. QED
    BY <1>3, <2>1
<1>. QED
  BY <1>2, <1>4

\* While Uvicorn hands out requests every warm-up has succeeded, and GET /health says 503
\* to nobody.
THEOREM ServiceIsHealthy == LifeSpec => []ServingIsHealthy
<1>1. ASSUME SchedulerInv, PlaceInv, WarmInv PROVE ServingIsHealthy
  <2>. SUFFICES ASSUME server = "serving" PROVE ServingIsHealthy
    BY DEF ServingIsHealthy
  <2>1. ~NotRunning /\ consumer \notin {"stopped", "cancelled"} /\ life = "ready"
    BY <1>1 DEF PlaceInv, SchedulerInv, OpenInv, NotRunning
  <2>2. HealthFailureReason(FALSE) = "ok"
    BY <2>1 DEF HealthFailureReason
  <2>3. HealthStatus(FALSE) = 200
    BY <2>2 DEF HealthStatus
  <2>4. HealthStatus(TRUE) # 503
    BY <2>1 DEF HealthStatus, HealthFailureReason
  <2>. QED
    BY <1>1, <2>1, <2>3, <2>4 DEF ServingIsHealthy, WarmInv
<1>2. LifeInit => SchedulerInv /\ PlaceInv /\ WarmInv
  BY InitScheduler, InitPlace DEF LifeInit, WarmInv
<1>3. (SchedulerInv /\ PlaceInv /\ WarmInv) /\ [LifeNext]_lifeVars
         => (SchedulerInv /\ PlaceInv /\ WarmInv)'
  BY NextScheduler, NextPlace, NextWarm DEF SchedulerInv, LeftInv, DrainedInv, LineInv
<1>. QED
  BY <1>1, <1>2, <1>3, PTL DEF LifeSpec

------------------------------------------------------------------------------
(***************************************************************************)
(* What becomes of a request                                               *)
(***************************************************************************)
\* An exception that is no APIError ended the request: before its call, or behind one that
\* raised.
Uncounted(r) == code[r] = "unhandled" /\ submit[r] \in {"new", "error"}

\* The code of a request is that of the answer of its call; the code of a line is that of
\* its request.
RequestInv ==
    \A r \in Requests :
        /\ request[r] = "away" => submit[r] = "new" /\ code[r] = "none"
        /\ request[r] = "handling" => submit[r] # "new" /\ code[r] = "none"
        /\ request[r] \in {"replied", "logged"} =>
              (code[r] = "unrouted" /\ submit[r] = "new") \/ code[r] \in CodesOf(submit[r])
        /\ request[r] = "failing" => Uncounted(r)
        /\ request[r] = "lost" => Uncounted(r) \/ server = "killed"
        /\ line[r] # "none" => request[r] = "logged" /\ line[r] = code[r]
        /\ r \in traced <=> code[r] = "server_error"
        /\ server = "down" => request[r] = "away"

\* Unless Uvicorn left, no request is cancelled or finds the scheduler closed, and nobody
\* waits in a scheduler that is closed.
MeetInv ==
    server # "killed" =>
        /\ \A r \in Requests :
              /\ submit[r] \notin {"aborting", "cancelled", "not_running"}
              /\ closed => submit[r] \notin Unanswered
        /\ \A j \in Jobs : completed[j] # "interrupted"

\* There is a code only for a call that returned or raised an Exception.
LEMMA CodesAreOfAnswers ==
    ASSUME NEW answer, NEW c \in CodesOf(answer)
    PROVE  /\ answer \in {"value", "queue_full", "queue_timeout", "error", "not_running"}
           /\ c \notin {"none", "unrouted", "unhandled"}
           /\ c = "ok" <=> answer = "value"
           /\ c \in Refusals \/ answer \in Refusals => c = answer
           /\ c \in ErrorsOfTheCall => answer \in {"error", "not_running"}
           /\ c = "client_error" => answer = "error"
BY DEF CodesOf, Refusals, ErrorsOfTheCall

LEMMA InitRequest == LifeInit => RequestInv /\ MeetInv
BY DEF LifeInit, Init, RequestInv, Uncounted, MeetInv, Requests

\* A step that leaves the requests alone may go on with the calls of those in the handler.
LEMMA RequestsWait ==
    ASSUME RequestInv, CallSteps, UNCHANGED <<request, code, line, traced>>,
           server = "killed" => server' = "killed",
           server' = "down" => server = "down",
           \A r \in Requests : ~Arrive(r)
    PROVE  RequestInv'
<1>. SUFFICES ASSUME NEW r \in Requests
              PROVE  /\ request[r] = "away" => submit'[r] = "new"
                     /\ request[r] = "handling" => submit'[r] # "new"
                     /\ request[r] \in {"replied", "logged"} =>
                           (code[r] = "unrouted" /\ submit'[r] = "new") \/ code[r] \in CodesOf(submit'[r])
                     /\ request[r] = "failing" =>
                           code[r] = "unhandled" /\ submit'[r] \in {"new", "error"}
                     /\ request[r] = "lost" =>
                           \/ code[r] = "unhandled" /\ submit'[r] \in {"new", "error"}
                           \/ server = "killed"
  BY DEF RequestInv, Uncounted
<1>1. CASE submit'[r] = submit[r]
  BY <1>1 DEF RequestInv, Uncounted
<1>2. CASE submit[r] \in Unanswered /\ submit'[r] # "new"
  <2>1. CodesOf(submit[r]) = {} /\ submit[r] # "new"
    BY <1>2, CodesAreOfAnswers DEF Unanswered, InWaitFor
  <2>2. submit[r] \notin {"new", "error"}
    BY <1>2 DEF Unanswered, InWaitFor
  <2>. QED
    BY <1>2, <2>1, <2>2 DEF RequestInv, Uncounted
<1>. QED
  BY <1>1, <1>2 DEF CallSteps

LEMMA NextRequest ==
    SchedulerInv /\ PlaceInv /\ RequestInv /\ MeetInv /\ [LifeNext]_lifeVars => RequestInv'
<1>. SUFFICES ASSUME SchedulerInv, PlaceInv, RequestInv, MeetInv, [LifeNext]_lifeVars
              PROVE  RequestInv'
  OBVIOUS
<1>1. /\ TypeOK /\ CallSteps
      /\ request \in [Requests -> RequestStates] /\ code \in [Requests -> Codes]
      /\ line \in [Requests -> Codes]
  BY LifeCalls DEF SchedulerInv, LeftInv, DrainedInv, LineInv, PlaceInv, WebTypeOK
<1>2. ASSUME NEW r \in Requests, Arrive(r) PROVE RequestInv'
  <2>1. submit'[r] # "new" /\ \A q \in Requests : q # r => submit'[q] = submit[q]
    BY <1>1, <1>2, NewCallEffect DEF Arrive, NewCall, Requests
  <2>2. /\ request[r] = "away" /\ request' = [request EXCEPT ![r] = "handling"]
        /\ UNCHANGED <<server, code, line, traced>> /\ server = "serving"
    BY <1>2 DEF Arrive, Serves
  <2>. QED
    BY <1>1, <2>1, <2>2 DEF RequestInv, Uncounted
<1>3. ASSUME NEW r \in Requests, RequestStep(r), ~Arrive(r) PROVE RequestInv'
  <2>1. UNCHANGED <<submit, server>>
    BY <1>3 DEF RequestStep, Continue, RefuseEarly, Unencodable, Reply, ReportException, WriteLine,
                LoseLine, Lose, DropReply, vars
  <2>2. CASE RefuseEarly(r)
    <3>1. /\ request[r] = "away" /\ request' = [request EXCEPT ![r] = "replied"]
          /\ code' = [code EXCEPT ![r] = "unrouted"] /\ UNCHANGED <<line, traced>>
          /\ server = "serving"
      BY <2>2 DEF RefuseEarly, Serves
    <3>. QED
      BY <1>1, <2>1, <3>1 DEF RequestInv, Uncounted
  <2>3. CASE Unencodable(r)
    <3>1. /\ request[r] \in {"away", "handling"} /\ request' = [request EXCEPT ![r] = "failing"]
          /\ code' = [code EXCEPT ![r] = "unhandled"] /\ UNCHANGED <<line, traced>>
      BY <2>3 DEF Unencodable, Noticed
    <3>2. submit[r] \in {"new", "error"} /\ server # "down"
      BY <2>3, CodesAreOfAnswers DEF Unencodable, Noticed, Serves, RequestInv
    <3>. QED
      BY <1>1, <2>1, <3>1, <3>2 DEF RequestInv, Uncounted
  <2>4. CASE Reply(r)
    <3>1. PICK c \in CodesOf(submit[r]) :
             /\ code' = [code EXCEPT ![r] = c]
             /\ traced' = IF c = "server_error" THEN traced \cup {r} ELSE traced
      BY <2>4 DEF Reply
    <3>2. /\ request[r] = "handling" /\ request' = [request EXCEPT ![r] = "replied"]
          /\ line' = line
      BY <2>4 DEF Reply
    <3>. QED
      BY <1>1, <2>1, <3>1, <3>2 DEF RequestInv, Uncounted
  <2>5. CASE WriteLine(r)
    <3>1. /\ request[r] = "replied" /\ request' = [request EXCEPT ![r] = "logged"]
          /\ line' = [line EXCEPT ![r] = code[r]] /\ UNCHANGED <<code, traced>>
      BY <2>5 DEF WriteLine
    <3>. QED
      BY <1>1, <2>1, <3>1 DEF RequestInv, Uncounted
  <2>6. CASE ReportException(r)
    <3>1. /\ request[r] = "failing" /\ request' = [request EXCEPT ![r] = "lost"]
          /\ UNCHANGED <<line, code, traced>>
      BY <2>6 DEF ReportException
    <3>. QED
      BY <1>1, <2>1, <3>1 DEF RequestInv, Uncounted
  <2>7. CASE LoseLine(r)
    <3>1. /\ request[r] = "replied" /\ request' = [request EXCEPT ![r] = "logged"]
          /\ UNCHANGED <<line, code, traced>>
      BY <2>7 DEF LoseLine
    <3>. QED
      BY <1>1, <2>1, <3>1 DEF RequestInv, Uncounted
  <2>8. CASE Lose(r) \/ DropReply(r)
    <3>1. /\ request[r] \in {"handling", "replied", "failing"} /\ request' = [request EXCEPT ![r] = "lost"]
          /\ UNCHANGED <<line, code, traced>> /\ server = "killed"
      BY <2>8 DEF Lose, DropReply, MeetInv
    <3>. QED
      BY <1>1, <2>1, <3>1 DEF RequestInv, Uncounted
  <2>. QED
    BY <1>3, <2>2, <2>3, <2>4, <2>5, <2>6, <2>7, <2>8 DEF RequestStep, Continue
<1>4. CASE \A r \in Requests : ~RequestStep(r)
  <2>1. \A r \in Requests : ~Arrive(r)
    BY <1>4 DEF RequestStep
  <2>2. UNCHANGED <<request, code, line, traced>>
    BY <1>4 DEF LifeNext, LifespanStep, Startup, RunLogFails, StartupFails, AccessLogFails,
           ReportFailure, WarmUp, WarmUpFails, Ready, EndLife, CancelLife, Released, Unreleased, UvicornStep, Signal, Kill,
           SchedulerStep, ExecutorStep, DiskStep, LoopBlocks, ThreadBlocks, LifeQuiet, lifeVars,
           webVars
  <2>3. (server = "killed" => server' = "killed") /\ (server' = "down" => server = "down")
    BY <1>4 DEF LifeNext, LifespanStep, Startup, RunLogFails, StartupFails, AccessLogFails,
           ReportFailure, WarmUp, WarmUpFails, Ready, EndLife, CancelLife, Released, Unreleased, UvicornStep, Signal, Kill, Serves,
           SchedulerStep, ExecutorStep, DiskStep, LoopBlocks, ThreadBlocks, LifeQuiet, lifeVars,
           webVars, PlaceInv
  <2>. QED
    BY <1>1, <2>1, <2>2, <2>3, RequestsWait
<1>. QED
  BY <1>2, <1>3, <1>4

\* A call that has a code is over, and so is a request in nobody's hands.
LEMMA NobodyWaits ==
    ASSUME RequestInv, server # "killed", NEW r \in Requests,
           request[r] \in {"away", "replied", "logged", "failing", "lost"}
    PROVE  submit[r] \notin Unanswered
BY CodesAreOfAnswers DEF RequestInv, Uncounted, Unanswered, InWaitFor

LEMMA NextMeet ==
    SchedulerInv /\ PlaceInv /\ RequestInv /\ MeetInv /\ [LifeNext]_lifeVars => MeetInv'
<1>. SUFFICES ASSUME SchedulerInv, PlaceInv, RequestInv, MeetInv, [LifeNext]_lifeVars,
                     server' # "killed"
              PROVE  /\ \A r \in Requests :
                           /\ submit'[r] \notin {"aborting", "cancelled", "not_running"}
                           /\ closed' => submit'[r] \notin Unanswered
                     /\ \A j \in Jobs : completed'[j] # "interrupted"
  BY DEF MeetInv
<1>1. /\ TypeOK /\ OpenInv /\ CallSteps
      /\ completed \in [Jobs -> Outcomes] /\ request \in [Requests -> RequestStates]
      /\ Requests \subseteq Jobs
  BY LifeCalls DEF SchedulerInv, LeftInv, DrainedInv, LineInv, PlaceInv, WebTypeOK, TypeOK, Requests
<1>2. server # "killed"
  BY DEF LifeNext, LifespanStep, Startup, RunLogFails, StartupFails, AccessLogFails, ReportFailure,
         WarmUp, WarmUpFails, Ready, EndLife, CancelLife, Released, Unreleased, RequestStep, Arrive,
         RefuseEarly, Unencodable, Continue, Reply, ReportException, WriteLine, LoseLine, Lose,
         DropReply, UvicornStep, Signal, Kill,
         Serves, SchedulerStep, ExecutorStep, DiskStep, LoopBlocks, ThreadBlocks, LifeQuiet,
         lifeVars, webVars, PlaceInv
<1>3. /\ \A r \in Requests :
            /\ submit[r] \notin {"aborting", "cancelled", "not_running"}
            /\ closed => submit[r] \notin Unanswered
      /\ \A j \in Jobs : completed[j] # "interrupted"
  BY <1>2 DEF MeetInv
<1>4. CASE UNCHANGED <<submit, completed, closed>>
  BY <1>3, <1>4
<1>5. ASSUME NEW j \in Jobs \ Requests, NewCall(j) PROVE UNCHANGED <<completed, closed>>
                                            /\ \A r \in Requests : submit'[r] = submit[r]
  BY <1>1, <1>5, NewCallEffect
<1>6. CASE LifespanStep
  <2>1. CASE WarmUp
    BY <1>3, <1>5, <2>1, WarmUpIsCall DEF Requests
  <2>2. CASE AccessLogFails \/ WarmUpFails \/ EndLife
    <3>1. \A r \in Requests : request[r] \in {"away", "logged", "lost"}
      <4>1. CASE EndLife
        BY <1>1, <4>1 DEF EndLife, InFlight, RequestStates
      <4>2. CASE AccessLogFails \/ WarmUpFails
        BY <4>2 DEF AccessLogFails, WarmUpFails, PlaceInv, RequestInv
      <4>. QED
        BY <2>2, <4>1, <4>2
    <3>2. \A r \in Requests : submit[r] \notin Unanswered
      BY <1>2, <3>1, NobodyWaits
    <3>3. submit' = submit /\ \A j \in Jobs : completed'[j] # "interrupted"
      BY <1>1, <1>3, <2>2 DEF AccessLogFails, WarmUpFails, EndLife, Close, CancelCompletions
    <3>. QED
      BY <1>3, <3>2, <3>3
  <2>3. CASE CancelLife
    BY <1>2, <2>3 DEF CancelLife
  <2>4. CASE Startup \/ RunLogFails \/ StartupFails \/ ReportFailure \/ Ready \/ Released \/ Unreleased
    BY <1>4, <2>4 DEF Startup, RunLogFails, StartupFails, ReportFailure, Ready, Released, Unreleased, Start, Joined,
                      CloseFails, vars, futureVars, closeVars
  <2>. QED
    BY <1>6, <2>1, <2>2, <2>3, <2>4 DEF LifespanStep
<1>7. ASSUME NEW r \in Requests, Arrive(r)
      PROVE  /\ \A q \in Requests :
                   /\ submit'[q] \notin {"aborting", "cancelled", "not_running"}
                   /\ closed' => submit'[q] \notin Unanswered
             /\ \A j \in Jobs : completed'[j] # "interrupted"
  <2>1. ~closed /\ ~NotRunning
    BY <1>7 DEF Arrive, Serves, PlaceInv, NotRunning
  <2>2. /\ submit'[r] \in {"waiting", "queue_full", "not_running"}
        /\ submit'[r] = "not_running" => NotRunning
        /\ \A q \in Requests : q # r => submit'[q] = submit[q]
        /\ UNCHANGED <<completed, closed>>
    BY <1>1, <1>7, NewCallEffect DEF Arrive, NewCall
  <2>. QED
    BY <1>3, <2>1, <2>2
<1>8. ASSUME NEW r \in Requests, RequestStep(r), ~Arrive(r)
      PROVE  UNCHANGED <<submit, completed, closed>>
  BY <1>8 DEF RequestStep, Continue, RefuseEarly, Unencodable, Reply, ReportException, WriteLine,
              LoseLine, Lose, DropReply, vars, futureVars, closeVars
<1>9. CASE SchedulerStep
  <2>1. ASSUME NEW j \in Jobs, Resume(j) \/ Expire(j)
        PROVE  /\ UNCHANGED <<completed, closed>>
               /\ \A r \in Requests :
                     /\ submit'[r] \notin {"aborting", "cancelled", "not_running"}
                     /\ closed => submit'[r] \notin Unanswered
    <3>1. /\ submit[j] \in Unanswered
          /\ submit'[j] \in (Unanswered \cup Answers) \ {"waiting", "queue_full", "not_running"}
          /\ submit'[j] # "aborting"
          /\ submit'[j] = "cancelled" =>
                \/ submit[j] = "aborting" \/ started[j] = "cancelled"
                \/ completed[j] \in {"interrupted", "cancelled"}
          /\ \A k \in Jobs : k # j => submit'[k] = submit[k]
          /\ UNCHANGED <<completed, closed>>
      BY <1>1, <2>1, OldCallEffect DEF OldCall
    <3>2. CASE j \in Requests
      <4>1. ~closed
        BY <1>3, <3>1, <3>2
      <4>2. started[j] # "cancelled" /\ completed[j] # "cancelled"
        BY <1>1, <4>1 DEF OpenInv
      <4>. QED
        BY <1>1, <1>3, <3>1, <3>2, <4>1, <4>2
    <3>3. CASE j \notin Requests
      BY <1>1, <1>3, <3>1, <3>3
    <3>. QED
      BY <3>2, <3>3
  <2>2. CASE Wake
    BY <1>1, <1>4, <2>2, ConsumerEffect DEF Wake
  <2>3. CASE Finish
    <3>1. UNCHANGED <<submit, closed>>
      BY <1>1, <2>3, ConsumerEffect
    <3>2. \A j \in Jobs : completed'[j] # "interrupted"
      BY <1>1, <1>3, <2>3 DEF Finish, Settle
    <3>. QED
      BY <1>3, <3>1, <3>2
  <2>4. CASE Shutdown
    BY <1>4, <2>4 DEF Shutdown, futureVars
  <2>. QED
    BY <1>2, <1>3, <1>9, <2>1, <2>2, <2>3, <2>4 DEF SchedulerStep, Teardown
<1>10. CASE UvicornStep
  BY <1>4, <1>10 DEF UvicornStep, Signal, Kill, vars, futureVars, closeVars
<1>11. CASE ExecutorStep
  BY <1>4, <1>11 DEF ExecutorStep, ThreadStep, PickUp, Drop, EndCall, futureVars, closeVars
<1>12. CASE DiskStep \/ LoopBlocks \/ ThreadBlocks \/ LifeQuiet \/ UNCHANGED lifeVars
  BY <1>4, <1>12 DEF DiskStep, LoopBlocks, ThreadBlocks, LifeQuiet, lifeVars, vars, futureVars,
                     closeVars
<1>. QED
  BY <1>4, <1>6, <1>7, <1>8, <1>9, <1>10, <1>11, <1>12 DEF LifeNext

LifeInv == SchedulerInv /\ PlaceInv /\ RequestInv /\ MeetInv

LEMMA LifeInvariant == LifeSpec => []LifeInv
<1>1. LifeInit => LifeInv
  BY InitScheduler, InitPlace, InitRequest DEF LifeInit, LifeInv
<1>2. LifeInv /\ [LifeNext]_lifeVars => LifeInv'
  BY NextScheduler, NextPlace, NextRequest, NextMeet DEF LifeInv
<1>. QED
  BY <1>1, <1>2, PTL DEF LifeSpec

\* Unless a second signal cuts it short, the end of the service meets no request.
THEOREM NobodyIsMet == LifeSpec => []EndMeetsNobody
<1>1. ASSUME LifeInv PROVE EndMeetsNobody
  BY <1>1 DEF LifeInv, RequestInv, Uncounted, MeetInv, EndMeetsNobody
<1>. QED
  BY <1>1, LifeInvariant, PTL

\* The access log tells of every request what became of its call, and run.log has the
\* traceback of exactly those that are answered 500.
THEOREM LinesAreTrue == LifeSpec => []LineIsTrue
<1>1. ASSUME LifeInv PROVE LineIsTrue
  <2>1. SUFFICES ASSUME NEW r \in Requests, line[r] # "none"
                 PROVE  /\ line[r] = "ok" <=> (submit[r] = "value" /\ work[r] = "value")
                        /\ line[r] \in Refusals \/ submit[r] \in Refusals => line[r] = submit[r]
                        /\ line[r] \in ErrorsOfTheCall => submit[r] \in {"error", "not_running"}
                        /\ line[r] = "unrouted" <=> submit[r] = "new"
                        /\ line[r] = "server_error" <=> r \in traced
    BY DEF LineIsTrue
  <2>2. /\ line[r] = code[r]
        /\ r \in traced <=> code[r] = "server_error"
        /\ (code[r] = "unrouted" /\ submit[r] = "new") \/ code[r] \in CodesOf(submit[r])
    BY <1>1, <2>1 DEF LifeInv, RequestInv
  <2>3. submit[r] = "value" => work[r] = "value"
    BY <1>1 DEF LifeInv, SchedulerInv, AnswerInv, Requests
  <2>4. CASE code[r] = "unrouted" /\ submit[r] = "new"
    BY <2>2, <2>4 DEF Refusals, ErrorsOfTheCall
  <2>5. CASE code[r] \in CodesOf(submit[r])
    <3>1. /\ submit[r] # "new" /\ code[r] # "unrouted"
          /\ code[r] = "ok" <=> submit[r] = "value"
          /\ code[r] \in Refusals \/ submit[r] \in Refusals => code[r] = submit[r]
          /\ code[r] \in ErrorsOfTheCall => submit[r] \in {"error", "not_running"}
      BY <2>5, CodesAreOfAnswers
    <3>. QED
      BY <2>2, <2>3, <3>1
  <2>. QED
    BY <2>2, <2>4, <2>5
<1>. QED
  BY <1>1, LifeInvariant, PTL
==============================================================================

--------------------------- MODULE SerialExecution ---------------------------
(***************************************************************************)
(* What SerialScheduler promises, without its queue, futures and tasks:    *)
(* calls take a ticket when they arrive, may leave while they wait, and    *)
(* are computed one at a time, each at most once and in the order of their *)
(* tickets.                                                                *)
(***************************************************************************)
EXTENDS Naturals

CONSTANT Jobs

VARIABLES
    last,    \* the last ticket
    ticket,  \* the ticket of each call
    phase    \* how far each call has come

execVars == <<last, ticket, phase>>

Waiting == {j \in Jobs : phase[j] = "waiting"}
Computing == {j \in Jobs : phase[j] = "computing"}

ExecInit ==
    /\ last = 0
    /\ ticket = [j \in Jobs |-> 0]
    /\ phase = [j \in Jobs |-> "new"]

Arrive(j) ==
    /\ phase[j] = "new"
    /\ last' = last + 1
    /\ ticket' = [ticket EXCEPT ![j] = last + 1]
    /\ phase' = [phase EXCEPT ![j] = "waiting"]

Refuse(j) ==
    /\ phase[j] = "new"
    /\ phase' = [phase EXCEPT ![j] = "gone"]
    /\ UNCHANGED <<last, ticket>>

\* Calls give up, one alone or, when the scheduler closes, all that wait.
Leave(leaving) ==
    /\ leaving # {}
    /\ leaving \subseteq Waiting
    /\ phase' = [j \in Jobs |-> IF j \in leaving THEN "gone" ELSE phase[j]]
    /\ UNCHANGED <<last, ticket>>

Begin(j) ==
    /\ Computing = {}
    /\ j \in Waiting
    /\ \A k \in Waiting : ticket[j] <= ticket[k]
    /\ phase' = [phase EXCEPT ![j] = "computing"]
    /\ UNCHANGED <<last, ticket>>

End(j) ==
    /\ j \in Computing
    /\ phase' = [phase EXCEPT ![j] = "computed"]
    /\ UNCHANGED <<last, ticket>>

ExecNext ==
    \/ \E j \in Jobs : Arrive(j) \/ Refuse(j) \/ Begin(j) \/ End(j)
    \/ \E leaving \in SUBSET Jobs : Leave(leaving)

\* The line moves: its head is computed unless it leaves, and computing ends.
ExecFairness == WF_execVars(\E j \in Jobs : Begin(j) \/ End(j))

ExecSpec == ExecInit /\ [][ExecNext]_execVars
FairExecSpec == ExecSpec /\ ExecFairness
=============================================================================

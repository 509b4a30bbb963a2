-------------------------- MODULE MCSerialScheduler --------------------------
(***************************************************************************)
(* SerialScheduler for TLC.  Jobs are interchangeable: the specification   *)
(* and its safety properties never tell one from another.                  *)
(***************************************************************************)
EXTENDS SchedulerRefinement, TLC

JobSymmetry == Permutations(Jobs)
=============================================================================

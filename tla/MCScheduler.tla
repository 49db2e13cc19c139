---------------------------- MODULE MCScheduler ----------------------------
(***************************************************************************)
(* Instances of Scheduler for TLC: interchangeable workers, jobs and       *)
(* fibers.                                                                 *)
(***************************************************************************)
EXTENDS SchedulerInv, SchedulerJobPool

Symmetry == Permutations(Workers) \cup Permutations(Jobs) \cup Permutations(Fibers)
=============================================================================

---------------------------- MODULE DynamicJobs ----------------------------
(***************************************************************************)
(* The jobs of dyn_proc_demo: the processes that one begins with and what  *)
(* it asks the runtime for.                                                *)
(***************************************************************************)
EXTENDS Integers, SequencesExt

CONSTANTS
  Spare,  \* processes that may be started, a sequence
  Jobs    \* records [processes, num_adaptations, reduction]; a job begins with
          \* a sequence of processes

num_add_proc == 2
num_shrink_proc == 2

\* A job keeps a process, and the runtime has those that it is asked for.
\* One that makes no adaptations may be without processes.
JobFits(j) ==
  /\ j.processes \in Seq(ToSet(j.processes)) /\ IsInjective(j.processes \o Spare)
  /\ j.num_adaptations \in Nat /\ j.reduction \in BOOLEAN
  /\ j.num_adaptations > 0 =>
       IF j.reduction
       THEN Len(j.processes) > num_shrink_proc * j.num_adaptations
       ELSE j.processes # <<>> /\ Len(Spare) >= num_add_proc * j.num_adaptations

ASSUME JobAssumption ==
  Spare \in Seq(ToSet(Spare)) /\ \A j \in Jobs : JobFits(j)
=============================================================================

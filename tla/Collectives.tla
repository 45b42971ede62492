---------------------------- MODULE Collectives ----------------------------
(***************************************************************************)
(* The programs in which processes agree through collectives alone, that   *)
(* MPI matches by communicator and order: constructions of                 *)
(* inter-communicators, as every shuffle makes them, or dyn_proc_demo,     *)
(* whose communicators come and go with its processes.  A behaviour is one *)
(* or the other; the one that it is not has an empty program.              *)
(***************************************************************************)
EXTENDS InterCommunicatorInvariant, DynamicProcesses

Constructs == script # <<>>

BothInit == Init /\ DynInit /\ (Constructs <=> job.processes = <<>>)

BothNext ==
  \/ Constructs /\ Next /\ UNCHANGED dyn_vars
  \/ ~Constructs /\ DynNext /\ UNCHANGED vars

\* Each process keeps running, in either.
BothSpec ==
  /\ BothInit /\ [][BothNext]_<<vars, dyn_vars>>
  /\ \A r \in Rank : WF_vars(Constructs /\ Step(r) /\ UNCHANGED dyn_vars)
  /\ \A p \in Process : WF_dyn_vars(~Constructs /\ DynStep(p) /\ UNCHANGED vars)
=============================================================================

----------------------------- MODULE Strategies -----------------------------
(***************************************************************************)
(* Both strategies on the same weights, one after the other, as the tests  *)
(* and the benchmarks call them.  Neither leaves anything behind for the   *)
(* other; what is of interest is each and their results.                   *)
(***************************************************************************)
EXTENDS HungarianOrder

VARIABLES
  greedy_pc, greedy_i, greedy_order, greedy_used   \* those of GreedyOrder

greedy_vars == <<greedy_pc, greedy_i, greedy_order, greedy_used>>

Greedy == INSTANCE GreedyOrder
            WITH pc <- greedy_pc, i <- greedy_i, permutation <- greedy_order, used <- greedy_used

StartBoth == Start /\ Greedy!Start

HungarianStep == Step /\ UNCHANGED greedy_vars

GreedyStep ==
  /\ pc = "done"
  /\ Greedy!Step
  /\ UNCHANGED vars
-----------------------------------------------------------------------------
\* Either order has every rank of the larger grid once: get_reordered_comm
\* looks all of them up in it.
BothPermutations == IsPermutation /\ Greedy!IsPermutation

\* A row that the greedy strategy serves earlier never wants what a later
\* one gets, or what is filled in: to keep more in all, it has to give up
\* something.
NoRegret == Greedy!NoRegret

\* Both end: the search always finds a column, the way back comes to its
\* start, and there is a column for every hole.
BothTerminate == <>(pc = "done" /\ greedy_pc = "done")
=============================================================================

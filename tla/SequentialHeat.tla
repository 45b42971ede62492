--------------------------- MODULE SequentialHeat ---------------------------
(***************************************************************************)
(* What the heat simulation promises: the files that a single process      *)
(* would write.  Each has the whole grid after one more step, in which a   *)
(* value that is not on the boundary becomes the mean of its four          *)
(* neighbours.                                                             *)
(***************************************************************************)
EXTENDS Integers, Sequences

CONSTANT Simulations  \* the command lines: records as in HeatTransfer

VARIABLES
  flags,   \* the command line
  files,   \* how many files there are
  grid     \* the grid of the last one

vars == <<flags, files, grid>>

Cold == 0
Hot == 4 ^ flags.num_iterations  \* 100 degrees, as a number to divide by 4

OnBoundary(i, j) == i \in {1, flags.num_rows} \/ j \in {1, flags.num_columns}

InitialGrid ==
  [i \in 1..flags.num_rows |-> [j \in 1..flags.num_columns |->
     IF OnBoundary(i, j) THEN Hot ELSE Cold]]

Warmed(heat) ==
  [i \in 1..flags.num_rows |-> [j \in 1..flags.num_columns |->
     IF OnBoundary(i, j)
     THEN heat[i][j]
     ELSE (heat[i-1][j] + heat[i+1][j] + heat[i][j-1] + heat[i][j+1]) \div 4]]

Init == flags \in Simulations /\ files = 0 /\ grid = <<>>

Record ==
  /\ files < flags.num_iterations
  /\ files' = files + 1
  /\ grid' = IF files = 0 THEN InitialGrid ELSE Warmed(grid)
  /\ UNCHANGED flags

Spec == Init /\ [][Record]_vars /\ WF_vars(Record)
=============================================================================

--------------------------- MODULE MCHeatTransfer ---------------------------
(***************************************************************************)
(* One to four processes, a number after the other and back to one, on     *)
(* grids that not all can share evenly; the number changes in every        *)
(* iteration, in every second or in every third.  Six processes make a     *)
(* grid in which some have three neighbours.                               *)
(***************************************************************************)
EXTENDS HeatTransfer

Simulation(num_ranks, num_iterations, num_rows, num_columns, adaptation_frequency) ==
  [num_ranks |-> num_ranks, num_iterations |-> num_iterations, num_rows |-> num_rows,
   num_columns |-> num_columns, adaptation_frequency |-> adaptation_frequency]

MCSimulations ==
  {Simulation(6, 7, 5, 4, 1), Simulation(4, 9, 5, 4, 2), Simulation(3, 7, 3, 5, 2), Simulation(2, 11, 4, 3, 3)}
=============================================================================

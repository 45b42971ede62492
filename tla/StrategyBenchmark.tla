-------------------------- MODULE StrategyBenchmark --------------------------
(***************************************************************************)
(* The weights on which strategy_benchmark times both strategies: matrices *)
(* of any size, of which the Hungarian and the greedy strategy are given   *)
(* the same ones.  Ranks count from 0.                                     *)
(***************************************************************************)
EXTENDS Integers

communication_matrix(matrix_size, weight) ==
  [r \in 1..matrix_size |-> [c \in 1..matrix_size |-> weight[r - 1, c - 1]]]

\* Most stays where it is, and all ranks communicate.
rank_order_strategy(matrix_size) ==
  LET weight[i, j \in 0..matrix_size-1] ==
        IF i = j THEN 100 + ((i * j) % 50) ELSE ((i + j) % 30) + 1
  IN  communication_matrix(matrix_size, weight)

\* Ranks communicate with those next to them.
rank_order_strategy_sparse(matrix_size) ==
  LET weight[i, j \in 0..matrix_size-1] ==
        IF i - j \in -2..2 THEN 50 + ((i * j) % 100) ELSE (i + j) % 5
  IN  communication_matrix(matrix_size, weight)

\* The first quarter of the ranks have the most to send and to receive.
rank_order_strategy_skewed(matrix_size) ==
  LET first == 0..(matrix_size \div 4)-1
      weight[i, j \in 0..matrix_size-1] ==
        IF i \in first /\ j \in first THEN 200 + ((i * j) % 100)
        ELSE IF i \in first \/ j \in first THEN 50 + ((i + j) % 50)
        ELSE (i + j) % 10
  IN  communication_matrix(matrix_size, weight)
=============================================================================

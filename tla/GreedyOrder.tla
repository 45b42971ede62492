---------------------------- MODULE GreedyOrder ----------------------------
(***************************************************************************)
(* GreedyRankOrderStrategy::get_optimal_order: each row of a matrix of     *)
(* weights in turn takes, of the columns that are left, the one of its     *)
(* greatest weight; what remains is filled up in ascending order.          *)
(***************************************************************************)
EXTENDS Integers, Sequences, Sums

VARIABLES
  matrix,       \* the weights
  pc,           \* "choose" (the for loop), "fill" (find -1), "done"
  i,            \* the row whose turn it is
  permutation,  \* permutation[x]: the column of row x, or -1
  used          \* the columns taken

vars == <<matrix, pc, i, permutation, used>>

rows == Len(matrix)
cols == Len(matrix[1])
Columns == 0..cols-1
num_considered_rows == IF rows < cols THEN rows ELSE cols

Start ==
  /\ pc = "choose"
  /\ i = 0
  /\ permutation = [x \in Columns |-> -1]
  /\ used = {}
-----------------------------------------------------------------------------
\* The sum of a row is part of the score and the same for all its candidates.
row_sum(x) == SumTo(matrix[x + 1], cols)
\* Mutant: the least weight scores most.
score_Least(x, c) == row_sum(x) - matrix[x + 1][c + 1]

score(x, c) == matrix[x + 1][c + 1] - row_sum(x)

\* Mutant: used columns are candidates too.
best_rank_AlsoUsed(x) ==
  CHOOSE c \in Columns :
    \A d \in Columns : score(x, d) < score(x, c) \/ (score(x, d) = score(x, c) /\ c =< d)

\* The first of the best candidates
best_rank(x) ==
  CHOOSE c \in Columns \ used :
    \A d \in Columns \ used : score(x, d) < score(x, c) \/ (score(x, d) = score(x, c) /\ c =< d)

Choose ==
  /\ pc = "choose"
  /\ permutation' = [permutation EXCEPT ![i] = best_rank(i)]
  /\ used' = used \cup {best_rank(i)}
  /\ i' = i + 1
  /\ pc' = IF i + 1 = num_considered_rows THEN "fill" ELSE "choose"
  /\ UNCHANGED matrix

FirstOf(S) == CHOOSE x \in S : \A y \in S : x =< y
Holes == {x \in DOMAIN permutation : permutation[x] = -1}

\* One turn of the loop that fills the holes; without a column left to fill
\* them it would turn for ever.
Fill ==
  /\ pc = "fill"
  /\ Holes # {}
  /\ LET unused == Columns \ used
     IN  IF unused # {}
         THEN /\ permutation' = [permutation EXCEPT ![FirstOf(Holes)] = FirstOf(unused)]
              /\ used' = used \cup {FirstOf(unused)}
         ELSE UNCHANGED <<permutation, used>>
  /\ UNCHANGED <<matrix, pc, i>>

\* Rows beyond the number of columns take ranks beyond it.
Extend ==
  /\ pc = "fill"
  /\ Holes = {}
  /\ permutation' = [x \in 0..(IF rows > cols THEN rows ELSE cols)-1 |->
                       IF x < cols THEN permutation[x] ELSE x]
  /\ pc' = "done"
  /\ UNCHANGED <<matrix, i, used>>

Step == Choose \/ Fill \/ Extend
-----------------------------------------------------------------------------
\* The result has every rank of the larger grid once.
IsPermutation ==
  pc = "done" => {permutation[x] : x \in DOMAIN permutation} = DOMAIN permutation

\* No row would keep more with a column that a later row has, or that was
\* filled in: to keep more in all, an earlier row must give something up.
NoRegret ==
  pc = "done" =>
    \A x, y \in Columns :
      x < y /\ x < rows => matrix[x + 1][permutation[y] + 1] =< matrix[x + 1][permutation[x] + 1]
=============================================================================

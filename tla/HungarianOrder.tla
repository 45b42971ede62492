--------------------------- MODULE HungarianOrder ---------------------------
(***************************************************************************)
(* HungarianRankOrderStrategy::get_optimal_order: which column (a rank of  *)
(* the final grid) each row (a rank of the initial grid) of a matrix of    *)
(* weights should take, for the sum of the weights taken to be greatest.   *)
(* It is the algorithm of Kuhn and Munkres: row after row is matched along *)
(* a path of columns that costs the least, and potentials of rows and      *)
(* columns keep every cost reduced by them from being negative.  As in the *)
(* code, rows and columns count from 1 and 0 stands for none.              *)
(***************************************************************************)
EXTENDS Integers, SequencesExt, Sums

CONSTANT high_weight   \* a cost that none reaches

ASSUME HighWeightAssumption == high_weight \in Nat

Weights(m) == UNION {{m[r][c] : c \in DOMAIN m[r]} : r \in DOMAIN m}

IsMatrix(m) ==
  /\ m \in Seq(Seq(Nat)) /\ m # <<>> /\ m[1] # <<>>
  /\ \A r \in DOMAIN m : Len(m[r]) = Len(m[1])
  /\ \A w \in Weights(m) : w + 1 < high_weight

VARIABLES
  matrix,   \* the weights, a sequence of rows
  pc,       \* "row", "scan", "augment" (the loops) or "order", "done"
  i,        \* the row to be matched
  j0,       \* the column that the path has come to
  u, v,     \* the potentials of rows and of columns
  p,        \* p[j]: the row that is matched with column j
  way,      \* way[j]: the column before j on the path
  minv,     \* minv[j]: the least reduced cost by which j can be reached
  used,     \* the columns that the path search is through with
  order     \* the result: order[x] is the column of row x, from 0

vars == <<matrix, pc, i, j0, u, v, p, way, minv, used, order>>

rows == Len(matrix)
cols == Len(matrix[1])
Columns == 1..cols
max_val == LET W == Weights(matrix) IN CHOOSE w \in W : \A x \in W : x =< w

\* Mutant: the greatest weight is the greatest cost.
a_Uninverted(r, c) == IF r =< rows THEN matrix[r][c] ELSE max_val + 1

\* The costs: rows that the matrix does not have are dearer than any other.
\* Only the first cols rows are ever matched.
a(r, c) == IF r =< rows THEN max_val - matrix[r][c] ELSE max_val + 1
-----------------------------------------------------------------------------
Start ==
  /\ pc = "row"
  /\ i = 1
  /\ j0 = 0
  /\ u = [r \in 0..cols |-> 0]
  /\ v = [c \in 0..cols |-> 0]
  /\ p = [c \in 0..cols |-> 0]
  /\ way = [c \in 0..cols |-> 0]
  /\ minv = [c \in 0..cols |-> high_weight]
  /\ used = {}
  /\ order = <<>>

\* The search for row i starts at column 0, which stands for the row itself.
StartRow ==
  /\ pc = "row"
  /\ p' = [p EXCEPT ![0] = i]
  /\ j0' = 0
  /\ minv' = [c \in 0..cols |-> high_weight]
  /\ used' = {}
  /\ pc' = "scan"
  /\ UNCHANGED <<matrix, i, u, v, way, order>>

\* Mutant: the potential of the column is left out.
cur_RowOnly(c) == a(p[j0], c) - u[p[j0]]

\* The reduced cost of column c in the row that the path has come to
cur(c) == a(p[j0], c) - u[p[j0]] - v[c]

\* Mutant: the column that the path has come to is not marked.
Seen_Unmarked == used

Seen == used \cup {j0}

\* The columns that are still to be reached, and those that are nearer to the
\* row of j0 than they were to any before
Free == Columns \ Seen
Nearer == {c \in Free : cur(c) < minv[c]}
least == [c \in 0..cols |-> IF c \in Nearer THEN cur(c) ELSE minv[c]]

\* The first of the nearest columns, and how far that is.  One has to be nearer
\* than high_weight.
Nearest == {c \in Free : least[c] < high_weight /\ \A d \in Free : least[c] =< least[d]}
j1 == IF Nearest = {} THEN 0 ELSE CHOOSE c \in Nearest : \A d \in Nearest : c =< d
delta == IF Nearest = {} THEN high_weight ELSE least[j1]

\* One iteration of the search: the columns are measured from the row of j0,
\* the least measure goes into the potentials and its column is next.
Scan ==
  /\ pc = "scan"
  /\ used' = Seen
  /\ way' = [c \in 0..cols |-> IF c \in Nearer THEN j0 ELSE way[c]]
  /\ u' = [r \in 0..cols |-> IF \E c \in Seen : p[c] = r THEN u[r] + delta ELSE u[r]]
  /\ v' = [c \in 0..cols |-> IF c \in Seen THEN v[c] - delta ELSE v[c]]
  /\ minv' = [c \in 0..cols |-> IF c \in Seen THEN least[c] ELSE least[c] - delta]
  /\ j0' = j1
  /\ pc' = IF p[j1] = 0 THEN "augment" ELSE "scan"
  /\ UNCHANGED <<matrix, i, p, order>>

\* One iteration of the way back: each column takes the row before it.
Augment ==
  /\ pc = "augment"
  /\ p' = [p EXCEPT ![j0] = p[way[j0]]]
  /\ j0' = way[j0]
  /\ IF way[j0] = 0
     THEN /\ i' = i + 1
          /\ pc' = IF i = cols THEN "order" ELSE "row"
     ELSE UNCHANGED <<pc, i>>
  /\ UNCHANGED <<matrix, u, v, way, minv, used, order>>

\* The columns of the rows of the matrix, then the others in their order
unused == {c \in Columns : p[c] \notin 1..rows}
column_of(r) == CHOOSE c \in Columns : p[c] = r
unused_at(k) == CHOOSE c \in unused : Cardinality({d \in unused : d < c}) = k
permutation ==
  [x \in 0..cols-1 |-> IF x < rows THEN column_of(x + 1) - 1 ELSE unused_at(x - rows) - 1]

num_ranks == IF rows > cols THEN rows ELSE cols

\* Rows beyond the number of columns take ranks beyond it.
Order ==
  /\ pc = "order"
  /\ order' = [x \in 0..num_ranks-1 |-> IF x < cols THEN permutation[x] ELSE x]
  /\ pc' = "done"
  /\ UNCHANGED <<matrix, i, j0, u, v, p, way, minv, used>>

Step == StartRow \/ Scan \/ Augment \/ Order
-----------------------------------------------------------------------------
\* No cost is below the potentials of its row and its column, and the cost
\* of a matched pair is just their sum: what makes the matching a cheapest
\* one.  It holds all the time, while a path is sought and on the way back.
Potentials ==
  /\ \A r, c \in Columns : u[r] + v[c] =< a(r, c)
  /\ \A c \in Columns : p[c] # 0 => u[p[c]] + v[c] = a(p[c], c)

\* The weight that stays where it is when row x takes column f[x], of as many
\* rows as there are columns
kept_rows == IF rows < cols THEN rows ELSE cols
Kept(f) == SumTo([r \in 1..kept_rows |-> matrix[r][f[r-1] + 1]], kept_rows)

\* No other choice of columns keeps more.
Optimal ==
  pc = "done" =>
    \A f \in Injection(0..kept_rows-1, 0..cols-1) : Kept(f) =< Kept(order)

\* The result has every rank of the larger grid once: get_reordered_comm
\* looks all of them up in it.
IsPermutation ==
  pc = "done" => {order[x] : x \in DOMAIN order} = DOMAIN order
=============================================================================

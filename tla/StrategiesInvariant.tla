------------------------ MODULE StrategiesInvariant ------------------------
(***************************************************************************)
(* The inductive invariants of the two strategies.  In the Hungarian one,  *)
(* columns that the search is through with lie on paths back to column 0,  *)
(* along which costs are just the potentials, and minv is the least that   *)
(* it costs to come from them to another column.  A column that minv does  *)
(* not know yet is farther than some column without a row, so the search   *)
(* never goes there.                                                       *)
(***************************************************************************)
EXTENDS RankOrder

\* By f the columns of C have the rows 1..k, each row one column.
Matched(f, C, k) ==
  /\ \A c \in C : f[c] \in 0..k
  /\ \A r \in 1..k : \E c \in C : f[c] = r
  /\ \A c, d \in C : f[c] = f[d] /\ f[c] # 0 => c = d

\* The cost that is left of a, from the row of column k to column c
Reduced(k, c) == a(p[k], c) - u[p[k]] - v[c]

HungarianTypeOK ==
  /\ IsMatrix(matrix)
  /\ pc \in {"row", "scan", "augment", "order", "done"}
  /\ i \in 1..cols+1 /\ j0 \in 0..cols
  /\ u \in [0..cols -> Int] /\ v \in [0..cols -> Int] /\ minv \in [0..cols -> Int]
  /\ p \in [0..cols -> 0..cols] /\ way \in [0..cols -> 0..cols]
  /\ used \in SUBSET (0..cols)

MatchInv ==
  /\ pc = "row" => i <= cols /\ Matched(p, Columns, i - 1)
  /\ pc = "scan" =>
       /\ i <= cols /\ Matched(p, 0..cols, i)
       /\ p[0] = i /\ p[j0] # 0 /\ j0 \notin used
       /\ \A c \in used : p[c] # 0
       /\ IF used = {} THEN j0 = 0 ELSE 0 \in used
  /\ pc = "augment" =>
       /\ i <= cols /\ Matched(p, 0..cols \ {j0}, i)
       /\ j0 # 0 /\ 0 \in used
       /\ \A c \in used : p[c] # 0
  /\ pc \in {"order", "done"} => i = cols + 1 /\ Matched(p, Columns, cols)

PotentialInv ==
  /\ Potentials
  /\ \A r \in Columns : r > i \/ (r = i /\ pc = "row") => u[r] = 0
  /\ \A c \in Columns : p[c] = 0 => v[c] = 0
  /\ pc = "scan" => u[i] >= 0 /\ (used = {} => u[i] = 0)

\* The column before c on its path is nearer to the start, and it is no detour.
OnPath(c, time) ==
  /\ way[c] \in used /\ time[way[c]] < time[c]
  /\ Reduced(way[c], c) = 0

PathInv ==
  /\ pc = "scan" =>
       \E time \in [0..cols -> Nat] : \A c \in Seen \ {0} : OnPath(c, time)
  /\ pc = "augment" =>
       \E time \in [0..cols -> Nat] :
         \A c \in Seen \ {0} : time[c] <= time[j0] => OnPath(c, time)

MinvInv ==
  pc = "scan" =>
    \A c \in Columns \ Seen :
      /\ \A k \in used : minv[c] <= Reduced(k, c)
      /\ \/ minv[c] = high_weight - u[i]
         \/ way[c] \in used /\ minv[c] = Reduced(way[c], c)

\* The result is read off the matching.
OrderInv ==
  pc = "done" => order = [x \in 0..num_ranks-1 |-> IF x < cols THEN permutation[x] ELSE x]

HungarianInv ==
  HungarianTypeOK /\ MatchInv /\ PotentialInv /\ PathInv /\ MinvInv /\ OrderInv
-----------------------------------------------------------------------------
\* No two of the rows that have a column share it, ...
NoneShared(f) ==
  \A x, y \in 0..cols-1 : f[x] = f[y] /\ f[x] # -1 => x = y

\* ... and none of those that chose would rather have one that was left then.
Contented(f) ==
  \A x \in 0..kept_rows-1, c \in 0..cols-1 :
    f[x] # -1 /\ (\A z \in 0..x-1 : f[z] # c) => matrix[x + 1][c + 1] =< matrix[x + 1][f[x] + 1]

GreedyInv ==
  /\ greedy_pc \in {"choose", "fill", "done"}
  /\ Contented(greedy_order) /\ NoneShared(greedy_order)
  /\ greedy_pc # "done" =>
       /\ greedy_order \in [0..cols-1 -> -1..cols-1]
       /\ greedy_used \subseteq 0..cols-1
       /\ \A c \in 0..cols-1 : c \in greedy_used <=> \E x \in 0..cols-1 : greedy_order[x] = c
  /\ greedy_pc = "choose" =>
       /\ greedy_i \in 0..kept_rows-1
       /\ \A x \in 0..cols-1 : greedy_order[x] = -1 <=> x >= greedy_i
  /\ greedy_pc = "fill" => \A x \in 0..kept_rows-1 : greedy_order[x] # -1
  /\ greedy_pc = "done" =>
       /\ \A x \in 0..cols-1 : greedy_order[x] \in 0..cols-1
       /\ greedy_order = [x \in 0..num_ranks-1 |-> IF x < cols THEN greedy_order[x] ELSE x]
-----------------------------------------------------------------------------
\* In a communicator made of a swap each process has the rank that the order
\* has for it.
RanksAreOrder(strategy, new_order) ==
  strategy \in DOMAIN new_rank /\ IsSwap(new_order) =>
    \A q \in Process : new_rank[strategy][q] = new_order[q]

RanksInv ==
  /\ greedy_pc # "choose" => pc = "done"
  /\ context # NoContext => context \in Contexts
  /\ new_rank # <<>> =>
       greedy_pc = "done" /\ context # NoContext /\ "hungarian" \in DOMAIN new_rank
  /\ RanksAreOrder("hungarian", order)
  /\ RanksAreOrder("greedy", greedy_order)
=============================================================================

-------------------------- MODULE StrategiesProofs --------------------------
(***************************************************************************)
(* Proofs about the two strategies.  A step of the Hungarian one is proved *)
(* to keep HungarianInv whatever the matrix is.                            *)
(***************************************************************************)
EXTENDS StrategiesInvariant, FiniteSetTheorems, CommonLemmas

\* The costs are naturals below high_weight.
LEMMA Costs ==
  ASSUME IsMatrix(matrix)
  PROVE  /\ rows \in Nat \ {0} /\ cols \in Nat \ {0}
         /\ max_val \in Nat /\ max_val + 1 < high_weight
         /\ \A r \in 1..rows, c \in Columns : matrix[r][c] \in 0..max_val
         /\ \A r \in Nat \ {0}, c \in Columns : a(r, c) \in 0..max_val + 1
<1> DEFINE W == Weights(matrix)
<1>1. rows \in Nat \ {0} /\ cols \in Nat \ {0}
  BY DEF IsMatrix, rows, cols
<1>2. ASSUME NEW r \in 1..rows, NEW c \in Columns
      PROVE  matrix[r][c] \in W
  <2>1. r \in DOMAIN matrix /\ c \in DOMAIN matrix[r]
    BY DEF IsMatrix, rows, cols, Columns
  <2>2. QED
    BY <2>1 DEF Weights
<1>3. ASSUME NEW w \in W PROVE w \in 0..high_weight /\ w + 1 < high_weight
  <2>1. PICK r \in DOMAIN matrix : \E c \in DOMAIN matrix[r] : w = matrix[r][c]
    BY DEF Weights
  <2>2. w \in Nat
    BY <2>1 DEF IsMatrix
  <2>3. w + 1 < high_weight
    BY DEF IsMatrix
  <2>4. QED
    BY <2>2, <2>3, HighWeightAssumption
<1>4. W # {}
  <2>1. 1 \in 1..rows /\ 1 \in Columns
    BY <1>1 DEF Columns
  <2>2. QED
    BY <1>2, <2>1
<1>5. PICK w \in W : \A x \in W : x <= w
  <2> HIDE DEF W
  <2>1. W \subseteq 0..high_weight
    BY <1>3
  <2>2. QED
    BY <1>4, <2>1, GreatestNatural, HighWeightAssumption
<1>6. max_val \in W /\ \A x \in W : x <= max_val
  <2>1. max_val = CHOOSE y \in W : \A x \in W : x <= y
    BY DEF max_val
  <2> HIDE DEF W
  <2>2. QED
    BY <1>5, <2>1
<1>7. max_val \in Nat /\ max_val + 1 < high_weight
  BY <1>3, <1>6
<1>8. ASSUME NEW r \in 1..rows, NEW c \in Columns
      PROVE  matrix[r][c] \in 0..max_val
  <2>1. matrix[r][c] \in W
    BY <1>2
  <2>2. matrix[r][c] <= max_val /\ matrix[r][c] \in Nat
    BY <2>1, <1>3, <1>6
  <2>3. QED
    BY <2>2, <1>7
<1>9. ASSUME NEW r \in Nat \ {0}, NEW c \in Columns
      PROVE  a(r, c) \in 0..max_val + 1
  BY <1>1, <1>7, <1>8 DEF a
<1>10. QED
  BY <1>1, <1>7, <1>8, <1>9

\* While a column is sought, there is one without a row that is still to be
\* reached: there are more columns, column 0 among them, than rows so far.
LEMMA Unmatched ==
  ASSUME HungarianTypeOK, MatchInv, pc = "scan"
  PROVE  \E d \in Free : p[d] = 0
<1> DEFINE S == 0..cols
           T == 1..i
<1>1. cols \in Nat \ {0} /\ i \in 1..cols /\ i <= cols /\ Matched(p, S, i)
      /\ Seen \subseteq S /\ 0 \in Seen /\ \A c \in Seen : p[c] # 0
  <2>1. cols \in Nat \ {0}
    BY Costs DEF HungarianTypeOK
  <2>2. i <= cols /\ Matched(p, S, i) /\ p[j0] # 0 /\ (IF used = {} THEN j0 = 0 ELSE 0 \in used)
        /\ \A c \in used : p[c] # 0
    BY DEF MatchInv
  <2>3. i \in 1..cols+1 /\ j0 \in S /\ used \in SUBSET S
    BY DEF HungarianTypeOK
  <2> HIDE DEF S
  <2>4. i \in 1..cols
    BY <2>1, <2>2, <2>3
  <2>5. QED
    BY <2>1, <2>2, <2>3, <2>4 DEF Seen
<1>2. SUFFICES ASSUME \A d \in Free : p[d] # 0
               PROVE  FALSE
  OBVIOUS
<1>3. ASSUME NEW c \in S PROVE p[c] \in T
  <2>1. p[c] # 0
    BY <1>1, <1>2 DEF Free, Columns
  <2>2. QED
    BY <1>1, <2>1 DEF Matched
<1>4. IsFiniteSet(S) /\ Cardinality(S) = cols + 1 /\ IsFiniteSet(T) /\ Cardinality(T) = i
  BY <1>1, FS_Interval
<1> DEFINE f == [c \in S |-> p[c]]
<1>5. f \in [S -> T]
  BY <1>3
<1>6. PICK c \in S, d \in S : c # d /\ f[c] = f[d]
  <2> HIDE DEF S, T, f
  <2>1. Cardinality(T) < Cardinality(S)
    BY <1>1, <1>4
  <2>2. QED
    BY <1>4, <1>5, <2>1, FS_PigeonHole
<1>7. p[c] = p[d] /\ p[c] # 0
  <2>1. f[c] = p[c] /\ f[d] = p[d]
    OBVIOUS
  <2>2. QED
    BY <1>3, <1>6, <2>1
<1>8. QED
  BY <1>1, <1>6, <1>7 DEF Matched

\* What the types and the invariant of a search give for its columns
LEMMA Searching ==
  ASSUME HungarianTypeOK, MatchInv, pc = "scan"
  PROVE  /\ cols \in Nat \ {0} /\ i \in 1..cols /\ i \in Columns
         /\ Seen \subseteq 0..cols /\ 0 \in Seen /\ j0 \in Seen /\ used \subseteq Seen
         /\ Free \subseteq Columns /\ \A c \in Columns : c \in Free \/ c \in Seen
         /\ \A c \in Free : c \notin Seen
         /\ \A k \in Seen : p[k] \in 1..i /\ p[k] \in Columns /\ k \in 0..cols
         /\ Columns \subseteq 0..cols
         /\ p[0] = i
<1>1. cols \in Nat \ {0}
  BY Costs DEF HungarianTypeOK
<1>2. i <= cols /\ Matched(p, 0..cols, i) /\ p[j0] # 0 /\ p[0] = i
      /\ (IF used = {} THEN j0 = 0 ELSE 0 \in used) /\ \A c \in used : p[c] # 0
  BY DEF MatchInv
<1>3. i \in 1..cols+1 /\ j0 \in 0..cols /\ used \in SUBSET (0..cols)
  BY DEF HungarianTypeOK
<1>4. i \in 1..cols /\ i \in Columns
  BY <1>1, <1>2, <1>3 DEF Columns
<1>5. Seen \subseteq 0..cols /\ 0 \in Seen /\ j0 \in Seen /\ used \subseteq Seen
  BY <1>1, <1>2, <1>3 DEF Seen
<1>6. ASSUME NEW k \in Seen PROVE p[k] \in 1..i /\ p[k] \in Columns /\ k \in 0..cols
  <2>1. k \in 0..cols
    BY <1>5
  <2>2. p[k] # 0
    BY <1>2 DEF Seen
  <2>3. p[k] \in 0..i
    BY <1>2, <2>1 DEF Matched
  <2>4. QED
    BY <1>1, <1>4, <2>1, <2>2, <2>3 DEF Columns
<1>7. Columns \subseteq 0..cols
  BY <1>1 DEF Columns
<1>8. Free \subseteq Columns /\ (\A c \in Columns : c \in Free \/ c \in Seen)
      /\ \A c \in Free : c \notin Seen
  BY DEF Free
<1>9. QED
  BY <1>1, <1>2, <1>4, <1>5, <1>6, <1>7, <1>8

\* The measures are naturals, and the least of them is that of a column that
\* some path comes to.
LEMMA Measures ==
  ASSUME HungarianTypeOK, MatchInv, PotentialInv, MinvInv, pc = "scan"
  PROVE  /\ \A k \in Seen, c \in Columns : Reduced(k, c) \in Nat
         /\ \A c \in Free : least[c] \in Nat /\ least[c] <= minv[c] /\ least[c] <= cur(c)
         /\ \A k \in Seen, c \in Free : least[c] <= Reduced(k, c)
         /\ u[i] \in Int
         /\ \E d \in Free : least[d] < high_weight - u[i] /\ least[d] < high_weight
<1>1. /\ cols \in Nat \ {0} /\ i \in 1..cols /\ i \in Columns
      /\ Seen \subseteq 0..cols /\ 0 \in Seen /\ j0 \in Seen /\ used \subseteq Seen
      /\ Free \subseteq Columns /\ \A c \in Columns : c \in Free \/ c \in Seen
      /\ \A c \in Free : c \notin Seen
      /\ \A k \in Seen : p[k] \in 1..i /\ p[k] \in Columns /\ k \in 0..cols
      /\ Columns \subseteq 0..cols
      /\ p[0] = i
  BY Searching
<1>2. /\ max_val \in Nat /\ max_val + 1 < high_weight
      /\ \A r \in Nat \ {0}, c \in Columns : a(r, c) \in 0..max_val + 1
  BY Costs DEF HungarianTypeOK
<1>3. u \in [0..cols -> Int] /\ v \in [0..cols -> Int] /\ minv \in [0..cols -> Int]
  BY DEF HungarianTypeOK
<1>4. ASSUME NEW k \in Seen, NEW c \in Columns PROVE Reduced(k, c) \in Nat
  <2>1. p[k] \in Columns /\ p[k] \in 0..cols /\ p[k] \in Nat \ {0} /\ c \in 0..cols
    BY <1>1
  <2>2. u[p[k]] + v[c] <= a(p[k], c)
    BY <2>1 DEF PotentialInv, Potentials
  <2>3. a(p[k], c) \in Int /\ u[p[k]] \in Int /\ v[c] \in Int
    <3>1. a(p[k], c) \in 0..max_val + 1
      BY <1>2, <2>1
    <3>2. u[p[k]] \in Int
      BY <1>3, <2>1
    <3>3. v[c] \in Int
      BY <1>3, <2>1
    <3>4. QED
      BY <3>1, <3>2, <3>3
  <2>4. QED
    BY <2>2, <2>3 DEF Reduced
<1>5. \A c \in Columns : cur(c) = Reduced(j0, c)
  BY DEF cur, Reduced
<1>6. PICK d \in Free : p[d] = 0
  BY Unmatched
<1>7. v[d] = 0 /\ u[i] \in Int /\ u[i] >= 0 /\ a(i, d) \in Int /\ a(i, d) + 0 < high_weight
      /\ u[i] + v[d] <= a(i, d)
  <2>1. d \in Columns
    BY <1>1
  <2>2. v[d] = 0
    BY <1>6, <2>1 DEF PotentialInv
  <2>3. u[i] >= 0
    BY DEF PotentialInv
  <2>4. a(i, d) \in 0..max_val + 1
    BY <1>1, <1>2, <2>1
  <2>5. u[i] + v[d] <= a(i, d)
    BY <1>1, <2>1 DEF PotentialInv, Potentials
  <2>6. u[i] \in Int
    BY <1>1, <1>3
  <2>7. QED
    BY <1>2, <2>2, <2>3, <2>4, <2>5, <2>6, HighWeightAssumption
<1>8. ASSUME NEW c \in Free
      PROVE  minv[c] \in Nat /\ \A k \in used : minv[c] <= Reduced(k, c)
  <2>1. c \in Columns \ Seen
    BY DEF Free
  <2>2. \A k \in used : minv[c] <= Reduced(k, c)
    BY <2>1 DEF MinvInv
  <2>3. minv[c] = high_weight - u[i] \/ (way[c] \in used /\ minv[c] = Reduced(way[c], c))
    BY <2>1 DEF MinvInv
  <2>4. high_weight - u[i] \in Nat
    BY <1>7, HighWeightAssumption
  <2>5. QED
    BY <1>1, <1>4, <2>1, <2>2, <2>3, <2>4
<1>9. ASSUME NEW c \in Free
      PROVE  least[c] \in Nat /\ least[c] <= minv[c] /\ least[c] <= cur(c)
  <2>1. minv[c] \in Nat /\ cur(c) \in Nat
    BY <1>1, <1>4, <1>5, <1>8
  <2>2. least[c] = IF c \in Nearer THEN cur(c) ELSE minv[c]
    BY <1>1 DEF least
  <2>3. c \in Nearer <=> cur(c) < minv[c]
    BY DEF Nearer
  <2>4. QED
    BY <2>1, <2>2, <2>3
<1>10. ASSUME NEW k \in Seen, NEW c \in Free PROVE least[c] <= Reduced(k, c)
  <2>1. CASE k = j0
    BY <2>1, <1>1, <1>5, <1>9
  <2>2. CASE k \in used
    <3>1. minv[c] <= Reduced(k, c) /\ minv[c] \in Nat /\ least[c] \in Nat /\ least[c] <= minv[c]
      BY <1>8, <1>9, <2>2
    <3>2. Reduced(k, c) \in Nat
      BY <1>1, <1>4
    <3>3. QED
      BY <3>1, <3>2
  <2>3. QED
    BY <2>1, <2>2 DEF Seen
<1>11. least[d] < high_weight - u[i] /\ least[d] < high_weight
  <2>1. least[d] <= Reduced(0, d) /\ least[d] \in Nat
    BY <1>1, <1>9, <1>10
  <2>2. Reduced(0, d) = a(i, d) - u[i]
    BY <1>1, <1>7 DEF Reduced
  <2>3. QED
    BY <1>7, <2>1, <2>2, HighWeightAssumption
<1>12. QED
  BY <1>4, <1>7, <1>9, <1>10, <1>11

\* So the search finds a column to go on with, the nearest.
LEMMA Found ==
  ASSUME HungarianTypeOK, MatchInv, PotentialInv, MinvInv, pc = "scan"
  PROVE  /\ j1 \in Free /\ delta = least[j1] /\ delta \in Nat
         /\ delta < high_weight - u[i] /\ \A c \in Free : delta <= least[c]
<1>1. Free \subseteq Columns /\ cols \in Nat \ {0}
  BY Searching
<1>2. \A c \in Free : least[c] \in Nat
  BY Measures
<1>3. u[i] \in Int /\ \E d \in Free : least[d] < high_weight - u[i] /\ least[d] < high_weight
  BY Measures
<1>4. PICK d \in Free : least[d] < high_weight - u[i] /\ least[d] < high_weight
  BY <1>3
<1> DEFINE M == {least[c] : c \in Free}
<1>5. M \subseteq Nat /\ least[d] \in M
  BY <1>2
<1>6. PICK m \in M : \A n \in M : m <= n
  <2> HIDE DEF M
  <2>1. QED
    BY <1>5, LeastNatural
<1>7. PICK e \in Free : m = least[e]
  OBVIOUS
<1>8. \A c \in Free : least[e] <= least[c]
  BY <1>6, <1>7
<1>9. least[e] < high_weight - u[i] /\ least[e] < high_weight
  <2>1. least[e] <= least[d] /\ least[e] \in Nat /\ least[d] \in Nat
    BY <1>2, <1>8
  <2>2. QED
    BY <1>3, <1>4, <2>1, HighWeightAssumption
<1>10. e \in Nearest
  BY <1>8, <1>9 DEF Nearest
<1>11. Nearest \subseteq Nat /\ Nearest # {} /\ Nearest \subseteq Free
  <2>1. Nearest \subseteq Free /\ Nearest # {}
    BY <1>10 DEF Nearest
  <2>2. Columns \subseteq Nat
    BY <1>1 DEF Columns
  <2>3. QED
    BY <1>1, <2>1, <2>2
<1>12. PICK c \in Nearest : \A x \in Nearest : c <= x
  BY <1>11, LeastNatural
<1>13. j1 = CHOOSE x \in Nearest : \A y \in Nearest : x <= y
  BY <1>11 DEF j1
<1>14. j1 \in Nearest
  BY <1>12, <1>13
<1>15. j1 \in Free /\ delta = least[j1] /\ \A x \in Free : least[j1] <= least[x]
  BY <1>11, <1>14 DEF delta, Nearest
<1>16. least[j1] <= least[e] /\ least[j1] \in Nat /\ least[e] \in Nat
  BY <1>2, <1>15
<1>17. least[j1] < high_weight - u[i]
  BY <1>3, <1>9, <1>16, HighWeightAssumption
<1>18. QED
  BY <1>15, <1>16, <1>17

\* Costs depend on the matrix only, and no step changes that.
LEMMA SameCosts ==
  ASSUME matrix' = matrix
  PROVE  /\ rows' = rows /\ cols' = cols /\ Columns' = Columns /\ max_val' = max_val
         /\ \A r, c : a(r, c)' = a(r, c)
<1>1. rows' = rows /\ cols' = cols
  BY DEF rows, cols
<1>2. Columns' = Columns
  BY <1>1 DEF Columns
<1>3. max_val' = max_val
  BY DEF max_val
<1>4. \A r, c : a(r, c)' = a(r, c)
  BY <1>1, <1>3 DEF a
<1>5. QED
  BY <1>1, <1>2, <1>3, <1>4

\* What one iteration of the search does to the costs that are left: those of
\* the columns that are still to be reached fall by delta.
LEMMA ScanEffect ==
  ASSUME HungarianTypeOK, MatchInv, PotentialInv, MinvInv, Scan
  PROVE  /\ u' \in [0..cols -> Int] /\ v' \in [0..cols -> Int] /\ minv' \in [0..cols -> Int]
         /\ \A k \in Seen : u'[p[k]] = u[p[k]] + delta
         /\ \A r \in 0..cols : u'[r] = u[r] \/ (u'[r] = u[r] + delta /\ \E k \in Seen : p[k] = r)
         /\ \A c \in Seen : v'[c] = v[c] - delta
         /\ \A c \in Free : v'[c] = v[c] /\ minv'[c] = least[c] - delta
         /\ \A k \in Seen, c \in Free : Reduced(k, c)' = Reduced(k, c) - delta
         /\ \A k \in Seen, c \in Seen \ {0} : Reduced(k, c)' = Reduced(k, c)
<1>1. /\ cols \in Nat \ {0} /\ i \in 1..cols /\ i \in Columns
      /\ Seen \subseteq 0..cols /\ 0 \in Seen /\ j0 \in Seen /\ used \subseteq Seen
      /\ Free \subseteq Columns /\ \A c \in Columns : c \in Free \/ c \in Seen
      /\ \A c \in Free : c \notin Seen
      /\ \A k \in Seen : p[k] \in 1..i /\ p[k] \in Columns /\ k \in 0..cols
      /\ Columns \subseteq 0..cols
  BY Searching DEF Scan
<1>2. delta \in Nat /\ \A c \in Free : least[c] \in Nat
  BY Found, Measures DEF Scan
<1>3. u \in [0..cols -> Int] /\ v \in [0..cols -> Int] /\ minv \in [0..cols -> Int]
  BY DEF HungarianTypeOK
<1>4. /\ u' = [r \in 0..cols |-> IF \E c \in Seen : p[c] = r THEN u[r] + delta ELSE u[r]]
      /\ v' = [c \in 0..cols |-> IF c \in Seen THEN v[c] - delta ELSE v[c]]
      /\ minv' = [c \in 0..cols |-> IF c \in Seen THEN least[c] ELSE least[c] - delta]
      /\ p' = p /\ matrix' = matrix
  BY DEF Scan
<1>5. u' \in [0..cols -> Int]
  <2>1. \A r \in 0..cols : (IF \E c \in Seen : p[c] = r THEN u[r] + delta ELSE u[r]) \in Int
    BY <1>2, <1>3
  <2>2. QED
    BY <1>4, <2>1
<1>6. v' \in [0..cols -> Int]
  <2>1. \A c \in 0..cols : (IF c \in Seen THEN v[c] - delta ELSE v[c]) \in Int
    BY <1>2, <1>3
  <2>2. QED
    BY <1>4, <2>1
<1>7. minv' \in [0..cols -> Int]
  <2>1. \A c \in Columns : cur(c) \in Int
    <3>1. \A c \in Columns : cur(c) = Reduced(j0, c)
      BY DEF cur, Reduced
    <3>2. \A c \in Columns : Reduced(j0, c) \in Nat
      BY <1>1, Measures DEF Scan
    <3>3. QED
      BY <3>1, <3>2
  <2>2. \A c \in 0..cols : least[c] \in Int
    <3>1. TAKE c \in 0..cols
    <3>2. CASE c \in Nearer
      <4>1. c \in Columns
        BY <1>1, <3>2 DEF Nearer
      <4>2. least[c] = cur(c)
        BY <3>2 DEF least
      <4>3. QED
        BY <2>1, <4>1, <4>2
    <3>3. CASE c \notin Nearer
      <4>1. least[c] = minv[c]
        BY <3>3 DEF least
      <4>2. QED
        BY <1>3, <4>1
    <3>4. QED
      BY <3>2, <3>3
  <2>3. \A c \in 0..cols : (IF c \in Seen THEN least[c] ELSE least[c] - delta) \in Int
    BY <1>2, <2>2
  <2>4. QED
    BY <1>4, <2>3
<1>8. \A k \in Seen : u'[p[k]] = u[p[k]] + delta
  <2>1. TAKE k \in Seen
  <2>2. p[k] \in 0..cols
    BY <1>1
  <2>3. QED
    BY <1>4, <2>2
<1>9. \A r \in 0..cols : u'[r] = u[r] \/ (u'[r] = u[r] + delta /\ \E k \in Seen : p[k] = r)
  BY <1>4
<1>10. \A c \in Seen : v'[c] = v[c] - delta
  BY <1>1, <1>4
<1>11. ASSUME NEW c \in Free PROVE v'[c] = v[c] /\ minv'[c] = least[c] - delta
  BY <1>1, <1>4
<1>12. ASSUME NEW k \in Seen, NEW c \in Columns
       PROVE  /\ Reduced(k, c)' = a(p[k], c) - u'[p[k]] - v'[c]
              /\ Reduced(k, c) = a(p[k], c) - u[p[k]] - v[c]
              /\ a(p[k], c) \in Int /\ u[p[k]] \in Int /\ v[c] \in Int
  <2>1. a(p[k], c)' = a(p[k], c)
    BY <1>4, SameCosts
  <2>2. a(p[k], c) \in 0..max_val + 1 /\ max_val \in Nat
    <3>1. p[k] \in Nat \ {0}
      BY <1>1
    <3>2. QED
      BY <3>1, Costs DEF HungarianTypeOK
  <2>3. u[p[k]] \in Int /\ v[c] \in Int
    <3>1. p[k] \in 0..cols /\ c \in 0..cols
      BY <1>1
    <3>2. QED
      BY <1>3, <3>1
  <2>4. Reduced(k, c)' = a(p[k], c)' - u'[p'[k]] - v'[c]
    BY DEF Reduced
  <2>5. QED
    BY <1>4, <2>1, <2>2, <2>3, <2>4 DEF Reduced
<1>13. ASSUME NEW k \in Seen, NEW c \in Free PROVE Reduced(k, c)' = Reduced(k, c) - delta
  <2>1. c \in Columns
    BY <1>1
  <2>2. QED
    BY <1>2, <1>8, <1>11, <1>12, <2>1
<1>14. ASSUME NEW k \in Seen, NEW c \in Seen \ {0} PROVE Reduced(k, c)' = Reduced(k, c)
  <2>1. c \in Columns
    BY <1>1 DEF Columns
  <2>2. QED
    BY <1>2, <1>8, <1>10, <1>12, <2>1
<1>15. QED
  BY <1>5, <1>6, <1>7, <1>8, <1>9, <1>10, <1>11, <1>13, <1>14

\* The search keeps the types, the matching and the potentials ...
LEMMA ScanMatching ==
  ASSUME HungarianTypeOK, MatchInv, PotentialInv, MinvInv, Scan
  PROVE  HungarianTypeOK' /\ MatchInv' /\ PotentialInv'
<1>1. /\ cols \in Nat \ {0} /\ i \in 1..cols /\ i \in Columns
      /\ Seen \subseteq 0..cols /\ 0 \in Seen /\ j0 \in Seen /\ used \subseteq Seen
      /\ Free \subseteq Columns /\ \A c \in Columns : c \in Free \/ c \in Seen
      /\ \A c \in Free : c \notin Seen
      /\ \A k \in Seen : p[k] \in 1..i /\ p[k] \in Columns /\ k \in 0..cols
      /\ Columns \subseteq 0..cols
      /\ p[0] = i
  BY Searching DEF Scan
<1>2. j1 \in Free /\ delta \in Nat /\ \A c \in Free : delta <= least[c]
  BY Found DEF Scan
<1>3. /\ u' \in [0..cols -> Int] /\ v' \in [0..cols -> Int] /\ minv' \in [0..cols -> Int]
      /\ \A k \in Seen : u'[p[k]] = u[p[k]] + delta
      /\ \A r \in 0..cols : u'[r] = u[r] \/ (u'[r] = u[r] + delta /\ \E k \in Seen : p[k] = r)
      /\ \A c \in Seen : v'[c] = v[c] - delta
      /\ \A c \in Free : v'[c] = v[c]
  BY ScanEffect
<1>4. /\ used' = Seen /\ j0' = j1 /\ pc' = (IF p[j1] = 0 THEN "augment" ELSE "scan")
      /\ matrix' = matrix /\ i' = i /\ p' = p /\ order' = order /\ pc = "scan"
      /\ way' = [c \in 0..cols |-> IF c \in Nearer THEN j0 ELSE way[c]]
  BY DEF Scan
<1>5. rows' = rows /\ cols' = cols /\ Columns' = Columns /\ \A r, c : a(r, c)' = a(r, c)
  BY <1>4, SameCosts
<1>6. /\ IsMatrix(matrix) /\ j0 \in 0..cols /\ u \in [0..cols -> Int] /\ v \in [0..cols -> Int]
      /\ p \in [0..cols -> 0..cols] /\ way \in [0..cols -> 0..cols]
      /\ i \in 1..cols+1
  BY DEF HungarianTypeOK
<1>7. Matched(p, 0..cols, i)
  BY DEF MatchInv, Scan
<1>8. HungarianTypeOK'
  <2>1. way' \in [0..cols -> 0..cols]
    BY <1>4, <1>6
  <2>2. j0' \in 0..cols
    BY <1>1, <1>2, <1>4
  <2>3. pc' \in {"row", "scan", "augment", "order", "done"}
    BY <1>4
  <2>4. IsMatrix(matrix)' /\ i' \in 1..cols+1 /\ p' \in [0..cols -> 0..cols]
        /\ used' \in SUBSET (0..cols)
    BY <1>1, <1>4, <1>6 DEF IsMatrix
  <2>5. QED
    BY <1>3, <1>5, <2>1, <2>2, <2>3, <2>4 DEF HungarianTypeOK
<1>9. MatchInv'
  <2>1. ASSUME pc' = "scan"
        PROVE  p[j1] # 0
    BY <1>4, <2>1
  <2>2. ASSUME pc' = "augment"
        PROVE  p[j1] = 0
    BY <1>4, <2>2
  <2>3. i <= cols /\ p[0] = i /\ j1 \notin Seen /\ (\A c \in Seen : p[c] # 0) /\ Seen # {} /\ j1 # 0
    <3>1. \A c \in Seen : p[c] # 0
      BY <1>1
    <3>2. j1 # 0
      BY <1>1, <1>2
    <3>3. QED
      BY <1>1, <1>2, <3>1, <3>2
  <2>4. ASSUME p[j1] = 0
        PROVE  Matched(p, 0..cols \ {j1}, i)
    BY <1>1, <1>7, <2>4 DEF Matched
  <2>6. pc' # "row" /\ pc' # "order" /\ pc' # "done"
    BY <1>4
  <2>7. ASSUME pc' = "scan"
        PROVE  /\ i' <= cols' /\ Matched(p', 0..cols', i')
               /\ p'[0] = i' /\ p'[j0'] # 0 /\ j0' \notin used'
               /\ \A c \in used' : p'[c] # 0
               /\ IF used' = {} THEN j0' = 0 ELSE 0 \in used'
    <3>1. Matched(p', 0..cols, i)
      BY <1>4, <1>5, <1>7 DEF Matched
    <3>2. QED
      BY <1>1, <1>4, <1>5, <2>1, <2>3, <2>7, <3>1
  <2>8. ASSUME pc' = "augment"
        PROVE  /\ i' <= cols' /\ Matched(p', 0..cols' \ {j0'}, i')
               /\ j0' # 0 /\ 0 \in used'
               /\ \A c \in used' : p'[c] # 0
    <3>1. Matched(p', 0..cols' \ {j0'}, i')
      BY <1>4, <1>5, <2>2, <2>4, <2>8
    <3>2. QED
      BY <1>1, <1>4, <1>5, <2>3, <3>1
  <2>9. QED
    BY <2>6, <2>7, <2>8 DEF MatchInv
<1>10. ASSUME NEW r \in Columns, NEW c \in Columns
       PROVE  u'[r] + v'[c] <= a(r, c)'
  <2>1. u[r] + v[c] <= a(r, c)
    BY DEF PotentialInv, Potentials
  <2>2. a(r, c)' = a(r, c) /\ a(r, c) \in Int
    <3>1. r \in Nat \ {0}
      BY <1>1 DEF Columns
    <3>2. a(r, c) \in 0..max_val + 1 /\ max_val \in Nat
      BY Costs, <1>6, <3>1
    <3>3. QED
      BY <1>5, <3>2
  <2>3. r \in 0..cols /\ c \in 0..cols /\ u[r] \in Int /\ v[c] \in Int
    BY <1>1, <1>6
  <2>4. CASE c \in Seen
    <3>1. v'[c] = v[c] - delta
      BY <1>3, <2>4
    <3>2. u'[r] = u[r] \/ u'[r] = u[r] + delta
      BY <1>3, <2>3
    <3>3. QED
      BY <1>2, <2>1, <2>2, <2>3, <3>1, <3>2
  <2>5. CASE c \in Free
    <3>1. v'[c] = v[c]
      BY <1>3, <2>5
    <3>2. CASE u'[r] = u[r]
      BY <2>1, <2>2, <3>1, <3>2
    <3>3. CASE u'[r] = u[r] + delta /\ \E k \in Seen : p[k] = r
      <4>1. PICK k \in Seen : p[k] = r
        BY <3>3
      <4>2. least[c] <= Reduced(k, c) /\ least[c] \in Nat /\ Reduced(k, c) \in Nat
        BY <2>5, Measures DEF Scan
      <4>3. Reduced(k, c) = a(r, c) - u[r] - v[c]
        BY <4>1 DEF Reduced
      <4>4. delta <= least[c]
        BY <1>2, <2>5
      <4>5. QED
        BY <1>2, <2>2, <2>3, <3>1, <3>3, <4>2, <4>3, <4>4
    <3>4. QED
      BY <1>3, <2>3, <3>2, <3>3
  <2>6. QED
    BY <1>1, <2>4, <2>5
<1>11. ASSUME NEW c \in Columns, p'[c] # 0
       PROVE  u'[p'[c]] + v'[c] = a(p[c], c)'
  <2>1. u[p[c]] + v[c] = a(p[c], c) /\ a(p[c], c)' = a(p[c], c)
    BY <1>4, <1>5, <1>11 DEF PotentialInv, Potentials
  <2>2. c \in 0..cols /\ p[c] \in 0..cols
    BY <1>1, <1>6
  <2>3. u[p[c]] \in Int /\ v[c] \in Int
    BY <1>6, <2>2
  <2>4. CASE c \in Seen
    <3>1. u'[p[c]] = u[p[c]] + delta /\ v'[c] = v[c] - delta
      BY <1>3, <2>4
    <3>2. QED
      BY <1>2, <1>4, <2>1, <2>3, <3>1
  <2>5. CASE c \in Free
    <3>1. ~\E k \in Seen : p[k] = p[c]
      <4>1. SUFFICES ASSUME NEW k \in Seen, p[k] = p[c]
                     PROVE  FALSE
        OBVIOUS
      <4>2. k = c
        BY <1>1, <1>4, <1>7, <1>11, <2>2, <4>1 DEF Matched
      <4>3. QED
        BY <1>1, <2>5, <4>2
    <3>2. u'[p[c]] = u[p[c]] /\ v'[c] = v[c]
      BY <1>3, <2>2, <2>5, <3>1
    <3>3. QED
      BY <1>4, <2>1, <3>2
  <2>6. QED
    BY <1>1, <2>4, <2>5
<1>12. PotentialInv'
  <2>1. Potentials'
    <3>1. \A c \in Columns : p'[c] # 0 => u'[p'[c]] + v'[c] = a(p[c], c)'
      BY <1>11
    <3>2. QED
      BY <1>5, <1>10, <3>1 DEF Potentials
  <2>2. ASSUME NEW r \in Columns, r > i' \/ (r = i' /\ pc' = "row")
        PROVE  u'[r] = 0
    <3>1. r > i /\ r \in 0..cols /\ r \in Nat
      BY <1>1, <1>4, <2>2 DEF Columns
    <3>2. u[r] = 0
      BY <3>1 DEF PotentialInv
    <3>3. ~\E k \in Seen : p[k] = r
      <4>1. \A k \in Seen : p[k] \in 1..i
        BY <1>1
      <4>2. QED
        BY <1>1, <3>1, <4>1
    <3>4. QED
      BY <1>3, <3>1, <3>2, <3>3
  <2>3. ASSUME NEW c \in Columns, p'[c] = 0
        PROVE  v'[c] = 0
    <3>1. v[c] = 0 /\ c \notin Seen
      <4>1. \A k \in Seen : p[k] # 0
        BY <1>1
      <4>2. QED
        BY <1>4, <2>3, <4>1 DEF PotentialInv
    <3>2. QED
      BY <1>1, <1>3, <3>1
  <2>4. u'[i'] >= 0 /\ used' # {}
    <3>1. u'[i] = u[i] + delta
      BY <1>1, <1>3
    <3>2. u[i] >= 0 /\ u[i] \in Int
      BY <1>1, <1>6 DEF PotentialInv, Scan
    <3>3. QED
      BY <1>1, <1>2, <1>4, <3>1, <3>2
  <2>5. QED
    BY <1>5, <2>1, <2>2, <2>3, <2>4 DEF PotentialInv
<1>13. QED
  BY <1>8, <1>9, <1>12

\* ... and the paths: the column found comes after the one it is nearest to.
LEMMA ScanPaths ==
  ASSUME HungarianInv, Scan
  PROVE  PathInv' /\ MinvInv'
<1> USE DEF HungarianInv
<1>1. /\ cols \in Nat \ {0} /\ i \in 1..cols /\ i \in Columns
      /\ Seen \subseteq 0..cols /\ 0 \in Seen /\ j0 \in Seen /\ used \subseteq Seen
      /\ Free \subseteq Columns /\ \A c \in Columns : c \in Free \/ c \in Seen
      /\ \A c \in Free : c \notin Seen
      /\ \A k \in Seen : p[k] \in 1..i /\ p[k] \in Columns /\ k \in 0..cols
      /\ Columns \subseteq 0..cols
      /\ p[0] = i
  BY Searching DEF Scan
<1>2. j1 \in Free /\ delta = least[j1] /\ delta \in Nat /\ delta < high_weight - u[i]
  BY Found DEF Scan
<1>3. /\ \A k \in Seen : u'[p[k]] = u[p[k]] + delta
      /\ \A c \in Free : minv'[c] = least[c] - delta
      /\ \A k \in Seen, c \in Free : Reduced(k, c)' = Reduced(k, c) - delta
      /\ \A k \in Seen, c \in Seen \ {0} : Reduced(k, c)' = Reduced(k, c)
  BY ScanEffect
<1>4. /\ used' = Seen /\ j0' = j1 /\ pc' = (IF p[j1] = 0 THEN "augment" ELSE "scan")
      /\ matrix' = matrix /\ i' = i /\ p' = p
      /\ way' = [c \in 0..cols |-> IF c \in Nearer THEN j0 ELSE way[c]]
  BY DEF Scan
<1>5. cols' = cols /\ Columns' = Columns
  BY <1>4, SameCosts
<1>6. Seen' = Seen \cup {j1}
  BY <1>4 DEF Seen
<1>7. \A k \in Seen, c \in Columns : Reduced(k, c) \in Nat
  BY Measures DEF Scan
<1>8. \A c \in Free : least[c] \in Nat /\ \A k \in Seen : least[c] <= Reduced(k, c)
  BY Measures DEF Scan
<1>9. u[i] \in Int
  BY Measures DEF Scan
<1>10. ASSUME NEW c \in Free
       PROVE  \/ least[c] = high_weight - u[i]
              \/ way'[c] \in Seen /\ least[c] = Reduced(way'[c], c)
  <2>1. c \in 0..cols /\ c \in Columns \ Seen
    BY <1>1
  <2>2. CASE c \in Nearer
    <3>1. way'[c] = j0 /\ least[c] = cur(c)
      BY <1>4, <2>1, <2>2 DEF least
    <3>2. cur(c) = Reduced(j0, c)
      BY DEF cur, Reduced
    <3>3. QED
      BY <1>1, <3>1, <3>2
  <2>3. CASE c \notin Nearer
    <3>1. way'[c] = way[c] /\ least[c] = minv[c]
      BY <1>4, <2>1, <2>3 DEF least
    <3>2. minv[c] = high_weight - u[i] \/ (way[c] \in used /\ minv[c] = Reduced(way[c], c))
      BY <2>1 DEF MinvInv, Scan
    <3>3. QED
      BY <1>1, <3>1, <3>2
  <2>4. QED
    BY <2>2, <2>3
<1>11. MinvInv'
  <2>1. SUFFICES ASSUME NEW c \in Columns \ (Seen \cup {j1})
                 PROVE  /\ \A k \in Seen : minv'[c] <= Reduced(k, c)'
                        /\ \/ minv'[c] = high_weight - u'[i]
                           \/ way'[c] \in Seen /\ minv'[c] = Reduced(way[c], c)'
    BY <1>4, <1>5, <1>6 DEF MinvInv
  <2>2. c \in Free
    BY <1>1
  <2>3. minv'[c] = least[c] - delta
    BY <1>3, <2>2
  <2>4. ASSUME NEW k \in Seen PROVE minv'[c] <= Reduced(k, c)'
    <3>1. Reduced(k, c)' = Reduced(k, c) - delta
      BY <1>3, <2>2
    <3>2. least[c] <= Reduced(k, c) /\ least[c] \in Nat /\ Reduced(k, c) \in Nat
      BY <1>7, <1>8, <2>2
    <3>3. QED
      BY <1>2, <2>3, <3>1, <3>2
  <2>5. CASE least[c] = high_weight - u[i]
    <3>1. u'[i] = u[i] + delta
      BY <1>1, <1>3
    <3>2. minv'[c] = high_weight - u'[i]
      BY <1>2, <1>9, <2>3, <2>5, <3>1, HighWeightAssumption
    <3>3. QED
      BY <2>4, <3>2
  <2>6. CASE way'[c] \in Seen /\ least[c] = Reduced(way'[c], c)
    <3>1. PICK k \in Seen : k = way'[c]
      BY <2>6
    <3>2. Reduced(way[c], c)' = Reduced(k, c)'
      BY <3>1 DEF Reduced
    <3>3. Reduced(k, c)' = least[c] - delta
      BY <1>3, <2>2, <2>6, <3>1
    <3>4. QED
      BY <2>3, <2>4, <2>6, <3>2, <3>3
  <2>7. QED
    BY <1>10, <2>2, <2>5, <2>6
<1>12. PICK time \in [0..cols -> Nat] : \A c \in Seen \ {0} : OnPath(c, time)
  BY DEF PathInv, Scan
<1> DEFINE later == [time EXCEPT ![j1] = time[way'[j1]] + 1]
<1>13. way'[j1] \in Seen /\ Reduced(way'[j1], j1) = delta
  BY <1>2, <1>10
<1>14. later \in [0..cols -> Nat] /\ later[j1] = time[way'[j1]] + 1
       /\ \A c \in Seen : later[c] = time[c] /\ time[c] \in Nat
  <2>1. j1 \in 0..cols /\ j1 \notin Seen /\ way'[j1] \in 0..cols
    BY <1>1, <1>2, <1>13
  <2>2. time[way'[j1]] + 1 \in Nat
    BY <2>1
  <2>3. QED
    BY <1>1, <2>1, <2>2
<1>15. ASSUME NEW c \in Seen' \ {0}
       PROVE  way'[c] \in used' /\ later[way'[c]] < later[c] /\ Reduced(way[c], c)' = 0
  <2> HIDE DEF later
  <2>1. CASE c = j1
    <3>1. way'[c] \in used' /\ later[way'[c]] < later[c]
      BY <1>4, <1>13, <1>14, <2>1
    <3>2. PICK k \in Seen : k = way'[c]
      BY <1>13, <2>1
    <3>3. Reduced(way[c], c)' = Reduced(k, c)'
      BY <3>2 DEF Reduced
    <3>4. Reduced(k, c)' = Reduced(k, c) - delta
      BY <1>2, <1>3, <2>1
    <3>5. QED
      BY <1>2, <1>13, <2>1, <3>1, <3>2, <3>3, <3>4
  <2>2. CASE c \in Seen \ {0}
    <3>1. way[c] \in used /\ time[way[c]] < time[c] /\ Reduced(way[c], c) = 0
      BY <1>12, <2>2 DEF OnPath
    <3>2. way'[c] = way[c]
      <4>1. c \notin Nearer
        BY <2>2 DEF Nearer, Free
      <4>2. QED
        BY <1>1, <1>4, <2>2, <4>1
    <3>3. later[way[c]] = time[way[c]] /\ later[c] = time[c]
      BY <1>1, <1>14, <2>2, <3>1
    <3>4. PICK k \in Seen : k = way[c]
      BY <1>1, <3>1
    <3>5. Reduced(way[c], c)' = Reduced(k, c)'
      BY <3>2, <3>4 DEF Reduced
    <3>6. Reduced(k, c)' = Reduced(k, c)
      BY <1>3, <2>2
    <3>7. QED
      BY <1>1, <1>4, <3>1, <3>2, <3>3, <3>4, <3>5, <3>6
  <2>3. QED
    BY <1>6, <2>1, <2>2
<1>16. PathInv'
  <2> HIDE DEF later
  <2>1. PICK t \in [0..cols -> Nat] : t = later
    BY <1>14
  <2>2. ASSUME NEW c \in Seen' \ {0} PROVE OnPath(c, t)'
    BY <1>15, <2>1 DEF OnPath
  <2>3. \E s \in [0..cols' -> Nat] : \A c \in Seen' \ {0} : OnPath(c, s)'
    BY <1>5, <2>2
  <2>4. QED
    BY <2>3 DEF PathInv
<1>17. QED
  BY <1>11, <1>16

\* A row that starts has no costs yet, and is matched with column 0.
LEMMA StartRowKeeps ==
  ASSUME HungarianInv, StartRow
  PROVE  HungarianInv'
<1> USE DEF HungarianInv
<1>1. cols \in Nat \ {0} /\ i \in 1..cols /\ i <= cols /\ Matched(p, Columns, i - 1)
  <2>1. cols \in Nat \ {0}
    BY Costs DEF HungarianTypeOK
  <2>2. QED
    BY <2>1 DEF HungarianTypeOK, MatchInv, StartRow
<1>2. /\ IsMatrix(matrix) /\ u \in [0..cols -> Int] /\ v \in [0..cols -> Int]
      /\ p \in [0..cols -> 0..cols] /\ way \in [0..cols -> 0..cols]
      /\ i \in 1..cols+1
  BY DEF HungarianTypeOK
<1>3. /\ p' = [p EXCEPT ![0] = i] /\ j0' = 0 /\ used' = {} /\ pc' = "scan" /\ pc = "row"
      /\ minv' = [c \in 0..cols |-> high_weight]
      /\ matrix' = matrix /\ i' = i /\ u' = u /\ v' = v /\ way' = way
  BY DEF StartRow
<1>4. cols' = cols /\ Columns' = Columns /\ \A r, c : a(r, c)' = a(r, c)
  BY <1>3, SameCosts
<1>5. p'[0] = i /\ p' \in [0..cols -> 0..cols] /\ \A c \in Columns : p'[c] = p[c]
  <2>1. \A c \in Columns : c # 0 /\ c \in 0..cols
    BY <1>1 DEF Columns
  <2>2. 0 \in 0..cols /\ i \in 0..cols
    BY <1>1
  <2>3. QED
    BY <1>2, <1>3, <2>1, <2>2
<1>6. Matched(p', 0..cols, i)
  <2> DEFINE q == p'
  <2>1. \A c \in 0..cols : c = 0 \/ c \in Columns
    BY <1>1 DEF Columns
  <2>2. \A c \in Columns : p'[c] \in 0..i-1
    BY <1>1, <1>5 DEF Matched
  <2>3. ASSUME NEW c \in 0..cols PROVE p'[c] \in 0..i
    <3>1. CASE c = 0
      BY <1>1, <1>5, <3>1
    <3>2. CASE c \in Columns
      BY <1>1, <2>2, <3>2
    <3>3. QED
      BY <2>1, <3>1, <3>2
  <2>4. ASSUME NEW r \in 1..i PROVE \E c \in 0..cols : p'[c] = r
    <3>1. CASE r = i
      BY <1>1, <1>5, <3>1
    <3>2. CASE r # i
      <4>1. r \in 1..i-1
        BY <1>1, <3>2
      <4>2. PICK c \in Columns : p[c] = r
        BY <1>1, <4>1 DEF Matched
      <4>3. c \in 0..cols
        BY <1>1 DEF Columns
      <4>4. QED
        BY <1>5, <4>2, <4>3
    <3>3. QED
      BY <3>1, <3>2
  <2>5. ASSUME NEW c \in 0..cols, NEW d \in 0..cols, p'[c] = p'[d], p'[c] # 0
        PROVE  c = d
    <3>1. CASE c \in Columns /\ d \in Columns
      BY <1>1, <1>5, <2>5, <3>1 DEF Matched
    <3>2. CASE c = 0 /\ d \in Columns
      BY <1>1, <1>5, <2>2, <2>5, <3>2
    <3>3. CASE d = 0 /\ c \in Columns
      BY <1>1, <1>5, <2>2, <2>5, <3>3
    <3>4. QED
      BY <2>1, <3>1, <3>2, <3>3
  <2>6. QED
    BY <1>3, <1>4, <2>3, <2>4, <2>5 DEF Matched
<1>7. HungarianTypeOK'
  <2>1. minv' \in [0..cols -> Int]
    BY <1>3, HighWeightAssumption
  <2>2. IsMatrix(matrix)'
    BY <1>2, <1>3 DEF IsMatrix
  <2>3. j0' \in 0..cols /\ used' \in SUBSET (0..cols)
    BY <1>1, <1>3
  <2>4. QED
    BY <1>2, <1>3, <1>4, <1>5, <2>1, <2>2, <2>3 DEF HungarianTypeOK
<1>8. MatchInv'
  BY <1>1, <1>3, <1>4, <1>5, <1>6 DEF MatchInv
<1>9. PotentialInv'
  <2>1. Potentials'
    <3>1. \A r, c \in Columns : u[r] + v[c] <= a(r, c)
      BY DEF PotentialInv, Potentials
    <3>2. ASSUME NEW c \in Columns, p[c] # 0 PROVE u[p[c]] + v[c] = a(p[c], c)
      BY <3>2 DEF PotentialInv, Potentials
    <3>3. \A c \in Columns : p'[c] # 0 => u'[p'[c]] + v'[c] = a(p[c], c)'
      <4>1. SUFFICES ASSUME NEW c \in Columns, p'[c] # 0
                     PROVE  u'[p'[c]] + v'[c] = a(p[c], c)'
        OBVIOUS
      <4>2. p'[c] = p[c]
        BY <1>5
      <4>3. a(p[c], c)' = a(p[c], c)
        BY <1>4, <4>2 DEF a
      <4>4. QED
        BY <1>3, <3>2, <4>1, <4>2, <4>3
    <3>4. QED
      BY <1>3, <1>4, <3>1, <3>3 DEF Potentials
  <2>2. \A r \in Columns : r > i => u[r] = 0
    BY DEF PotentialInv
  <2>3. \A c \in Columns : p[c] = 0 => v[c] = 0
    BY DEF PotentialInv
  <2>4. u[i] = 0
    <3>1. i \in Columns
      BY <1>1 DEF Columns
    <3>2. QED
      BY <1>3, <3>1 DEF PotentialInv
  <2>5. QED
    BY <1>3, <1>4, <1>5, <2>1, <2>2, <2>3, <2>4 DEF PotentialInv
<1>10. PathInv'
  <2>1. Seen' \ {0} = {}
    BY <1>3 DEF Seen
  <2>2. [c \in 0..cols |-> 0] \in [0..cols -> Nat]
    OBVIOUS
  <2>3. \E t \in [0..cols' -> Nat] : \A c \in Seen' \ {0} : OnPath(c, t)'
    BY <1>4, <2>1, <2>2
  <2>4. QED
    BY <1>3, <2>3 DEF PathInv
<1>11. MinvInv'
  <2>1. ASSUME NEW c \in Columns PROVE minv'[c] = high_weight - u[i]
    <3>1. u[i] = 0
      <4>1. i \in Columns
        BY <1>1 DEF Columns
      <4>2. QED
        BY <1>3, <4>1 DEF PotentialInv
    <3>2. c \in 0..cols
      BY <1>1 DEF Columns
    <3>3. QED
      BY <1>3, <3>1, <3>2, HighWeightAssumption
  <2>2. QED
    BY <1>3, <1>4, <2>1 DEF MinvInv
<1>12. OrderInv'
  BY <1>3 DEF OrderInv
<1>13. QED
  BY <1>7, <1>8, <1>9, <1>10, <1>11, <1>12

\* On the way back a column takes the row of the one before it, which loses
\* it: the pair costs just its potentials, as the path does.
LEMMA AugmentKeeps ==
  ASSUME HungarianInv, Augment
  PROVE  HungarianInv'
<1> USE DEF HungarianInv
<1> DEFINE w == way[j0]
<1>1. /\ IsMatrix(matrix) /\ u \in [0..cols -> Int] /\ v \in [0..cols -> Int]
      /\ minv \in [0..cols -> Int]
      /\ p \in [0..cols -> 0..cols] /\ way \in [0..cols -> 0..cols]
      /\ i \in 1..cols+1 /\ j0 \in 0..cols /\ used \in SUBSET (0..cols)
  BY DEF HungarianTypeOK
<1>2. cols \in Nat \ {0}
  BY <1>1, Costs
<1>3. /\ i <= cols /\ Matched(p, 0..cols \ {j0}, i)
      /\ j0 # 0 /\ 0 \in used
      /\ \A c \in used : p[c] # 0
  BY DEF MatchInv, Augment
<1>4. PICK time \in [0..cols -> Nat] :
        \A c \in Seen \ {0} : time[c] <= time[j0] => OnPath(c, time)
  BY DEF PathInv, Augment
<1>5. w \in used /\ time[w] < time[j0] /\ Reduced(w, j0) = 0
  <2>1. j0 \in Seen \ {0} /\ time[j0] <= time[j0]
    <3>1. time[j0] \in Nat
      BY <1>1, <1>4
    <3>2. QED
      BY <1>3, <3>1 DEF Seen
  <2>2. OnPath(j0, time)
    BY <1>4, <2>1
  <2>3. QED
    BY <2>2 DEF OnPath
<1>6. w \in 0..cols /\ w # j0 /\ p[w] # 0 /\ p[w] \in 0..i
  <2>1. w \in 0..cols /\ time[w] \in Nat /\ time[j0] \in Nat
    BY <1>1, <1>4, <1>5
  <2>2. w # j0
    BY <1>5, <2>1
  <2>3. p[w] \in 0..i
    BY <1>3, <2>1, <2>2 DEF Matched
  <2>4. QED
    BY <1>3, <1>5, <2>1, <2>2, <2>3
<1>7. /\ p' = [p EXCEPT ![j0] = p[w]] /\ j0' = w /\ pc = "augment"
      /\ IF w = 0
         THEN i' = i + 1 /\ pc' = IF i = cols THEN "order" ELSE "row"
         ELSE pc' = pc /\ i' = i
      /\ matrix' = matrix /\ u' = u /\ v' = v /\ way' = way /\ minv' = minv /\ used' = used
  BY DEF Augment
<1> HIDE DEF w
<1>8. cols' = cols /\ Columns' = Columns /\ \A r, c : a(r, c)' = a(r, c)
  BY <1>7, SameCosts
<1>9. p'[j0] = p[w] /\ p' \in [0..cols -> 0..cols] /\ \A c \in 0..cols \ {j0} : p'[c] = p[c]
  BY <1>1, <1>6, <1>7
<1>10. Matched(p', 0..cols \ {w}, i)
  <2>1. ASSUME NEW c \in 0..cols \ {w}
        PROVE  /\ c = j0 => p'[c] = p[w]
               /\ c # j0 => p'[c] = p[c]
    BY <1>9
  <2>2. \A c \in 0..cols \ {w} : p'[c] \in 0..i
    BY <1>3, <1>6, <2>1 DEF Matched
  <2>3. ASSUME NEW r \in 1..i PROVE \E c \in 0..cols \ {w} : p'[c] = r
    <3>1. PICK c \in 0..cols \ {j0} : p[c] = r
      BY <1>3 DEF Matched
    <3>2. CASE c = w
      <4>1. j0 \in 0..cols \ {w} /\ p'[j0] = r
        BY <1>1, <1>6, <1>9, <3>1, <3>2
      <4>2. QED
        BY <4>1
    <3>3. CASE c # w
      BY <1>9, <3>1, <3>3
    <3>4. QED
      BY <3>2, <3>3
  <2>4. \A c, d \in 0..cols \ {j0} : p[c] = p[d] /\ p[c] # 0 => c = d
    BY <1>3 DEF Matched
  <2>5. ASSUME NEW c \in 0..cols \ {w}, NEW d \in 0..cols \ {w}, p'[c] = p'[d], p'[c] # 0
        PROVE  c = d
    <3>1. CASE c # j0 /\ d # j0
      BY <2>1, <2>4, <2>5, <3>1
    <3>2. CASE c = j0 /\ d # j0
      <4>1. p[w] = p[d] /\ d # w
        BY <2>1, <2>5, <3>2
      <4>2. QED
        BY <1>6, <2>4, <3>2, <4>1
    <3>3. CASE d = j0 /\ c # j0
      <4>1. p[c] = p[w] /\ c # w
        BY <2>1, <2>5, <3>3
      <4>2. QED
        BY <1>6, <2>4, <3>3, <4>1
    <3>4. QED
      BY <3>1, <3>2, <3>3
  <2>6. \A r \in 1..i : \E c \in 0..cols \ {w} : p'[c] = r
    BY <2>3
  <2>7. \A c, d \in 0..cols \ {w} : p'[c] = p'[d] /\ p'[c] # 0 => c = d
    BY <2>5
  <2>8. QED
    BY <1>7, <1>8, <2>2, <2>6, <2>7 DEF Matched
<1>11. HungarianTypeOK'
  <2>1. IsMatrix(matrix)'
    BY <1>1, <1>7 DEF IsMatrix
  <2>2. i' \in 1..cols+1
    <3>1. i' = i \/ i' = i + 1
      BY <1>7
    <3>2. i \in 1..cols
      BY <1>1, <1>2, <1>3
    <3>3. QED
      BY <1>2, <3>1, <3>2
  <2>3. pc' \in {"row", "scan", "augment", "order", "done"}
    BY <1>7
  <2>4. QED
    BY <1>1, <1>6, <1>7, <1>8, <1>9, <2>1, <2>2, <2>3 DEF HungarianTypeOK
<1>12. MatchInv'
  <2>1. CASE w = 0
    <3>1. 0..cols \ {w} = Columns
      BY <1>2, <2>1 DEF Columns
    <3>2. Matched(p', Columns, i)
      BY <1>8, <1>10, <3>1 DEF Matched
    <3>3. i' = i + 1 /\ pc' = (IF i = cols THEN "order" ELSE "row") /\ i' - 1 = i /\ i \in Nat
      BY <1>1, <1>7, <2>1
    <3>4. CASE i = cols
      <4>1. Matched(p', Columns, cols)
        BY <1>7, <1>8, <3>2, <3>4 DEF Matched
      <4>2. QED
        BY <1>8, <3>3, <3>4, <4>1 DEF MatchInv
    <3>5. CASE i # cols
      <4>1. i' <= cols
        BY <1>1, <1>2, <1>3, <3>3, <3>5
      <4>2. Matched(p', Columns', i' - 1)
        BY <1>8, <3>2, <3>3
      <4>3. QED
        BY <1>8, <3>3, <3>5, <4>1, <4>2 DEF MatchInv
    <3>6. QED
      BY <3>4, <3>5
  <2>2. CASE w # 0
    <3>1. pc' = "augment" /\ i' = i /\ j0' = w /\ used' = used
      BY <1>7, <2>2
    <3>2. Matched(p', 0..cols' \ {j0'}, i')
      BY <1>8, <1>10, <3>1
    <3>3. \A c \in used : p'[c] # 0
      BY <1>1, <1>3, <1>6, <1>9
    <3>4. QED
      BY <1>3, <1>8, <2>2, <3>1, <3>2, <3>3 DEF MatchInv
  <2>3. QED
    BY <2>1, <2>2
<1>13. PotentialInv'
  <2>1. \A r, c \in Columns : u[r] + v[c] <= a(r, c)
    BY DEF PotentialInv, Potentials
  <2>2. \A c \in Columns : p[c] # 0 => u[p[c]] + v[c] = a(p[c], c)
    BY DEF PotentialInv, Potentials
  <2>3. ASSUME NEW c \in Columns, p'[c] # 0
        PROVE  u'[p'[c]] + v'[c] = a(p[c], c)'
    <3>1. a(p[c], c)' = a(p'[c], c)
      BY <1>7, <1>8 DEF a, rows, max_val
    <3>2. CASE c = j0
      <4>1. a(p[w], j0) - u[p[w]] - v[j0] = 0
        BY <1>5 DEF Reduced
      <4>2. a(p[w], j0) \in 0..max_val + 1 /\ max_val \in Nat
        <5>1. p[w] \in Nat \ {0}
          BY <1>1, <1>6
        <5>2. QED
          BY <1>1, <3>2, <5>1, Costs
      <4>3. u[p[w]] \in Int /\ v[j0] \in Int
        <5>1. p[w] \in 0..cols
          BY <1>1, <1>6
        <5>2. QED
          BY <1>1, <5>1
      <4>4. QED
        BY <1>7, <1>9, <3>1, <3>2, <4>1, <4>2, <4>3
    <3>3. CASE c # j0
      <4>1. p'[c] = p[c]
        <5>1. c \in 0..cols
          BY <1>2 DEF Columns
        <5>2. QED
          BY <1>9, <3>3, <5>1
      <4>2. QED
        BY <1>7, <2>2, <2>3, <3>1, <4>1
    <3>4. QED
      BY <3>2, <3>3
  <2>4. Potentials'
    BY <1>7, <1>8, <2>1, <2>3 DEF Potentials
  <2>5. \A r \in Columns : r > i => u[r] = 0
    BY DEF PotentialInv
  <2>6. ASSUME NEW r \in Columns, r > i' \/ (r = i' /\ pc' = "row") PROVE u'[r] = 0
    <3>1. r \in Nat
      BY <1>2 DEF Columns
    <3>2. r > i
      BY <1>1, <1>7, <2>6, <3>1
    <3>3. QED
      BY <1>7, <2>5, <3>2
  <2>7. ASSUME NEW c \in Columns, p'[c] = 0 PROVE v'[c] = 0
    <3>1. p[c] = 0
      <4>1. c \in 0..cols
        BY <1>2 DEF Columns
      <4>2. QED
        BY <1>6, <1>9, <2>7, <4>1
    <3>2. QED
      BY <1>7, <3>1 DEF PotentialInv
  <2>8. pc' # "scan"
    BY <1>7
  <2>9. QED
    BY <1>8, <2>4, <2>6, <2>7, <2>8 DEF PotentialInv
<1>14. PathInv'
  <2>1. SUFFICES ASSUME pc' = "augment"
                 PROVE  \A c \in Seen' \ {0} : time[c] <= time[w] => OnPath(c, time)'
    <3>1. pc' # "scan"
      BY <1>7
    <3>2. \A c \in Seen' \ {0} : pc' = "augment" => (time[c] <= time[j0'] => OnPath(c, time)')
      BY <1>7, <2>1
    <3>3. QED
      BY <1>4, <1>8, <3>1, <3>2 DEF PathInv
  <2>2. TAKE c \in Seen' \ {0}
  <2>3. HAVE time[c] <= time[w]
  <2>4. c \in Seen \ {0} /\ c \in 0..cols
    BY <1>1, <1>5, <1>6, <1>7 DEF Seen
  <2>5. time[c] \in Nat /\ time[w] \in Nat /\ time[j0] \in Nat
    BY <1>1, <1>4, <1>6, <2>4
  <2>6. OnPath(c, time)
    BY <1>4, <1>5, <2>3, <2>4, <2>5
  <2>7. way[c] \in used /\ time[way[c]] < time[c] /\ Reduced(way[c], c) = 0
    BY <2>6 DEF OnPath
  <2>8. way[c] # j0 /\ way[c] \in 0..cols
    <3>1. way[c] \in 0..cols
      BY <1>1, <2>7
    <3>2. time[way[c]] \in Nat
      BY <1>4, <3>1
    <3>3. QED
      BY <1>5, <2>3, <2>5, <2>7, <3>1, <3>2
  <2>9. p'[way[c]] = p[way[c]]
    BY <1>9, <2>8
  <2>10. Reduced(way[c], c)' = 0
    <3>1. a(p[way[c]], c)' = a(p[way[c]], c)
      BY <1>7, <1>8, <2>9 DEF a, rows, max_val
    <3>2. QED
      BY <1>7, <2>7, <2>9, <3>1 DEF Reduced
  <2>11. QED
    BY <1>7, <2>7, <2>10 DEF OnPath
<1>15. MinvInv'
  BY <1>7 DEF MinvInv
<1>16. OrderInv'
  BY <1>7 DEF OrderInv
<1>17. QED
  BY <1>11, <1>12, <1>13, <1>14, <1>15, <1>16

LEMMA SameResult ==
  ASSUME matrix' = matrix, p' = p
  PROVE  permutation' = permutation /\ num_ranks' = num_ranks
<1>1. rows' = rows /\ cols' = cols /\ Columns' = Columns
  BY SameCosts
<1>2. permutation' = permutation
  <2>1. unused' = unused
    BY <1>1 DEF unused
  <2>2. \A r : column_of(r)' = column_of(r)
    BY <1>1, Zenon DEF column_of
  <2>3. \A k : unused_at(k)' = unused_at(k)
    BY <2>1, Zenon DEF unused_at
  <2>4. QED
    BY <1>1, <2>2, <2>3 DEF permutation
<1>3. num_ranks' = num_ranks
  BY <1>1 DEF num_ranks
<1>4. QED
  BY <1>2, <1>3

\* The invariant is about the variables of the Hungarian strategy only.
LEMMA HungarianStays ==
  ASSUME HungarianInv, UNCHANGED vars
  PROVE  HungarianInv'
<1>1. /\ matrix' = matrix /\ pc' = pc /\ i' = i /\ j0' = j0 /\ u' = u /\ v' = v /\ p' = p
      /\ way' = way /\ minv' = minv /\ used' = used
  BY DEF vars
<1>2. cols' = cols /\ Columns' = Columns /\ \A r, c : a(r, c)' = a(r, c)
  BY <1>1, SameCosts
<1>3. Seen' = Seen
  BY <1>1 DEF Seen
<1>4. \A k, c : a(p[k], c)' = a(p[k], c)
  BY <1>1 DEF a, rows, max_val
<1>5. \A k, c : Reduced(k, c)' = Reduced(k, c)
  BY <1>1, <1>4 DEF Reduced
<1>6. \A c : Reduced(way[c], c)' = Reduced(way[c], c)
  BY <1>1, <1>4 DEF Reduced, a, rows, max_val
<1>7. HungarianTypeOK'
  BY <1>1, <1>2 DEF HungarianInv, HungarianTypeOK, IsMatrix
<1>8. MatchInv'
  BY <1>1, <1>2 DEF HungarianInv, MatchInv
<1>9. PotentialInv'
  BY <1>1, <1>2, <1>4 DEF HungarianInv, PotentialInv, Potentials
<1>10. PathInv'
  <2>1. \A c, t : OnPath(c, t)' = OnPath(c, t)
    BY <1>1, <1>6 DEF OnPath
  <2>2. QED
    BY <1>1, <1>2, <1>3, <2>1 DEF HungarianInv, PathInv
<1>11. MinvInv'
  BY <1>1, <1>2, <1>3, <1>5, <1>6 DEF HungarianInv, MinvInv
<1>12. OrderInv'
  <2>1. order' = order
    BY DEF vars
  <2>2. permutation' = permutation /\ num_ranks' = num_ranks
    BY <1>1, SameResult
  <2>3. QED
    BY <1>1, <1>2, <2>1, <2>2 DEF HungarianInv, OrderInv
<1>13. QED
  BY <1>7, <1>8, <1>9, <1>10, <1>11, <1>12 DEF HungarianInv

\* The result is taken from the matching as it is.
LEMMA OrderKeeps ==
  ASSUME HungarianInv, Order
  PROVE  HungarianInv'
<1>1. /\ matrix' = matrix /\ pc = "order" /\ pc' = "done" /\ i' = i /\ j0' = j0 /\ u' = u
      /\ v' = v /\ p' = p /\ way' = way /\ minv' = minv /\ used' = used
  BY DEF Order
<1>2. cols' = cols /\ Columns' = Columns /\ \A r, c : a(r, c)' = a(r, c)
  BY <1>1, SameCosts
<1>3. \A k, c : a(p[k], c)' = a(p[k], c)
  BY <1>1 DEF a, rows, max_val
<1>4. HungarianTypeOK'
  BY <1>1, <1>2 DEF HungarianInv, HungarianTypeOK, IsMatrix
<1>5. MatchInv'
  BY <1>1, <1>2 DEF HungarianInv, MatchInv
<1>6. PotentialInv'
  BY <1>1, <1>2, <1>3 DEF HungarianInv, PotentialInv, Potentials
<1>7. PathInv' /\ MinvInv'
  BY <1>1 DEF PathInv, MinvInv
<1>8. OrderInv'
  <2>1. order' = [x \in 0..num_ranks-1 |-> IF x < cols THEN permutation[x] ELSE x]
    BY DEF Order
  <2>2. permutation' = permutation /\ num_ranks' = num_ranks
    BY <1>1, SameResult
  <2>3. QED
    BY <1>2, <2>1, <2>2 DEF OrderInv
<1>9. QED
  BY <1>4, <1>5, <1>6, <1>7, <1>8 DEF HungarianInv

LEMMA HungarianStarts ==
  ASSUME IsMatrix(matrix), Start
  PROVE  HungarianInv
<1>1. cols \in Nat \ {0} /\ \A r \in Nat \ {0}, c \in Columns : a(r, c) >= 0
  <2>1. \A r \in Nat \ {0}, c \in Columns : a(r, c) \in 0..max_val + 1
    BY Costs
  <2>2. max_val \in Nat /\ cols \in Nat \ {0}
    BY Costs
  <2>3. QED
    BY <2>1, <2>2
<1>2. /\ pc = "row" /\ i = 1 /\ j0 = 0
      /\ u = [r \in 0..cols |-> 0] /\ v = [c \in 0..cols |-> 0] /\ p = [c \in 0..cols |-> 0]
      /\ way = [c \in 0..cols |-> 0] /\ minv = [c \in 0..cols |-> high_weight] /\ used = {}
  BY DEF Start
<1>3. \A c \in Columns : c \in 0..cols /\ c \in Nat \ {0} /\ u[c] = 0 /\ v[c] = 0 /\ p[c] = 0
  <2>1. \A c \in Columns : c \in 0..cols /\ c \in Nat \ {0}
    BY <1>1 DEF Columns
  <2>2. QED
    BY <1>2, <2>1
<1>4. HungarianTypeOK
  BY <1>1, <1>2, HighWeightAssumption DEF HungarianTypeOK
<1>5. MatchInv
  <2>1. Matched(p, Columns, i - 1)
    <3>1. i - 1 = 0 /\ 1..0 = {}
      BY <1>2
    <3>2. QED
      BY <1>3, <3>1 DEF Matched
  <2>2. QED
    BY <1>1, <1>2, <2>1 DEF MatchInv
<1>6. PotentialInv
  <2>1. Potentials
    BY <1>1, <1>3 DEF Potentials
  <2>2. QED
    BY <1>2, <1>3, <2>1 DEF PotentialInv
<1>7. PathInv /\ MinvInv
  BY <1>2 DEF PathInv, MinvInv
<1>8. OrderInv
  BY <1>2 DEF OrderInv
<1>9. QED
  BY <1>4, <1>5, <1>6, <1>7, <1>8 DEF HungarianInv

\* Types, matching, potentials, paths and measures of the Hungarian strategy
\* agree all the time, on every matrix and whatever the other strategy and the
\* making of the communicators do.
THEOREM HungarianInvariance == RankSpec => []HungarianInv
<1>1. RankInit => HungarianInv
  <2>1. SUFFICES ASSUME RankInit
                 PROVE  IsMatrix(matrix) /\ Start
    BY HungarianStarts
  <2>2. Start
    BY <2>1 DEF RankInit, StartBoth
  <2>3. IsMatrix(matrix)
    BY <2>1, ContextAssumption DEF RankInit
  <2>4. QED
    BY <2>2, <2>3
<1>2. HungarianInv /\ [RankNext]_rank_vars => HungarianInv'
  <2> SUFFICES ASSUME HungarianInv, [RankNext]_rank_vars
               PROVE  HungarianInv'
    OBVIOUS
  <2>1. CASE StartRow
    BY <2>1, StartRowKeeps
  <2>2. CASE Scan
    <3>1. HungarianTypeOK' /\ MatchInv' /\ PotentialInv'
      BY <2>2, ScanMatching DEF HungarianInv
    <3>2. PathInv' /\ MinvInv'
      BY <2>2, ScanPaths
    <3>3. OrderInv'
      BY <2>2 DEF Scan, OrderInv
    <3>4. QED
      BY <3>1, <3>2, <3>3 DEF HungarianInv
  <2>3. CASE Augment
    BY <2>3, AugmentKeeps
  <2>4. CASE Order
    BY <2>4, OrderKeeps
  <2>5. CASE UNCHANGED vars
    BY <2>5, HungarianStays
  <2>6. StartRow \/ Scan \/ Augment \/ Order \/ UNCHANGED vars
    BY DEF RankNext, HungarianStep, Step, GreedyStep, Reorder, RankTerminating, rank_vars
  <2>7. QED
    BY <2>1, <2>2, <2>3, <2>4, <2>5, <2>6
<1>3. QED
  BY <1>1, <1>2, PTL DEF RankSpec

\* No cost is below its potentials, and that of a matched pair is their sum:
\* at every step of the search and of the way back.
THEOREM PotentialsHold == RankSpec => []Potentials
<1>1. HungarianInv => Potentials
  BY DEF HungarianInv, PotentialInv
<1>2. QED
  BY <1>1, HungarianInvariance, PTL
-----------------------------------------------------------------------------
\* When all rows are matched no column is without a row: there are as many.
LEMMA AllMatched ==
  ASSUME HungarianTypeOK, Matched(p, Columns, cols)
  PROVE  \A c \in Columns : p[c] \in 1..cols
<1>1. rows \in Nat \ {0} /\ cols \in Nat \ {0}
  BY Costs DEF HungarianTypeOK
<1>2. /\ \A c \in Columns : p[c] \in 0..cols
      /\ \A r \in 1..cols : \E c \in Columns : p[c] = r
      /\ \A c, d \in Columns : p[c] = p[d] /\ p[c] # 0 => c = d
  BY DEF Matched
<1>3. \A r \in 1..cols : column_of(r) \in Columns /\ p[column_of(r)] = r
  BY <1>2 DEF column_of
<1>4. \A c \in Columns : p[c] \in 1..cols
  <2> DEFINE h == [r \in 1..cols |-> column_of(r)]
  <2>1. h \in [1..cols -> Columns]
    BY <1>3
  <2>2. OneToOne(h, 1..cols)
    <3>1. SUFFICES ASSUME NEW r \in 1..cols, NEW s \in 1..cols, h[r] = h[s] PROVE r = s
      BY DEF OneToOne
    <3>2. h[r] = column_of(r) /\ h[s] = column_of(s)
      OBVIOUS
    <3> HIDE DEF h
    <3>3. QED
      BY <1>3, <3>1, <3>2
  <2>3. IsFiniteSet(1..cols) /\ IsFiniteSet(Columns) /\ Cardinality(Columns) = Cardinality(1..cols)
    BY <1>1, FS_Interval DEF Columns
  <2>4. \A c \in Columns : Takes(h, 1..cols, c)
    <3> HIDE DEF h
    <3> QED BY <2>1, <2>2, <2>3, Onto
  <2>5. ASSUME NEW c \in Columns PROVE p[c] \in 1..cols
    <3>1. PICK r \in 1..cols : column_of(r) = c
      BY <2>4 DEF Takes
    <3>2. QED
      BY <1>3, <3>1
  <2>6. QED
    BY <2>5
<1>5. QED
  BY <1>4

\* A matching of all columns gives every rank below cols one of its own, and
\* a row the column that it is matched with.
LEMMA PermutationRight ==
  ASSUME HungarianTypeOK, Matched(p, Columns, cols)
  PROVE  /\ permutation \in [0..cols-1 -> 0..cols-1]
         /\ OneToOne(permutation, 0..cols-1)
         /\ \A x \in 0..cols-1 : x < rows => p[permutation[x] + 1] = x + 1
         /\ \A x \in 0..cols-1 : x >= rows => p[permutation[x] + 1] \notin 1..rows
<1>1. rows \in Nat \ {0} /\ cols \in Nat \ {0}
  BY Costs DEF HungarianTypeOK
<1>2. /\ \A c \in Columns : p[c] \in 0..cols
      /\ \A r \in 1..cols : \E c \in Columns : p[c] = r
      /\ \A c, d \in Columns : p[c] = p[d] /\ p[c] # 0 => c = d
  BY DEF Matched
<1>3. \A r \in 1..cols : column_of(r) \in Columns /\ p[column_of(r)] = r
  BY <1>2 DEF column_of
<1>4. \A c \in Columns : p[c] \in 1..cols
  BY AllMatched
\* As many columns are left over as rows are missing.
<1>5. ASSUME rows < cols
      PROVE  unused \subseteq Int /\ IsFiniteSet(unused) /\ Cardinality(unused) = cols - rows
  <2> DEFINE R == rows+1..cols
             h == [r \in R |-> column_of(r)]
  <2>1. unused \subseteq Columns /\ Columns \subseteq Int /\ IsFiniteSet(Columns)
    BY <1>1, FS_Interval DEF unused, Columns
  <2>2. unused \subseteq Int /\ IsFiniteSet(unused)
    BY <2>1, FS_Subset
  <2>3. \A r \in R : r \in 1..cols /\ r \notin 1..rows
    BY <1>1
  <2>4. h \in Bijection(R, unused)
    <3>1. ASSUME NEW r \in R PROVE h[r] \in unused /\ p[h[r]] = r
      <4>1. h[r] = column_of(r) /\ r \in 1..cols /\ r \notin 1..rows
        BY <2>3
      <4>2. QED
        BY <1>3, <4>1 DEF unused
    <3>2. ASSUME NEW c \in unused PROVE \E r \in R : h[r] = c
      <4>1. c \in Columns /\ p[c] \in 1..cols /\ p[c] \notin 1..rows
        BY <1>4 DEF unused
      <4>2. p[c] \in R
        BY <1>1, <4>1
      <4>3. h[p[c]] = column_of(p[c])
        BY <4>2
      <4>4. column_of(p[c]) = c
        <5>1. column_of(p[c]) \in Columns /\ p[column_of(p[c])] = p[c] /\ p[c] # 0
          BY <1>3, <4>1
        <5>2. QED
          BY <1>2, <4>1, <5>1
      <4>5. QED
        BY <4>2, <4>3, <4>4
    <3>3. h \in [R -> unused]
      <4>1. h = [r \in R |-> h[r]]
        OBVIOUS
      <4> HIDE DEF h, R
      <4>2. QED
        BY <3>1, <4>1
    <3> HIDE DEF h, R
    <3>4. \A r, t \in R : h[r] = h[t] => r = t
      BY <3>1
    <3>5. h \in Injection(R, unused)
      BY <3>3, <3>4 DEF Injection, IsInjective
    <3>6. h \in Surjection(R, unused)
      BY <3>2, <3>3 DEF Surjection
    <3>7. QED
      BY <3>5, <3>6 DEF Bijection
  <2>5. IsFiniteSet(R) /\ Cardinality(R) = cols - rows
    BY <1>1, <1>5, FS_Interval
  <2>6. Cardinality(unused) = cols - rows
    <3> HIDE DEF h, R
    <3>1. ExistsBijection(R, unused)
      BY <2>4 DEF ExistsBijection
    <3>2. QED
      BY <2>5, <3>1, FS_Bijection
  <2>7. QED
    BY <2>2, <2>6
<1>6. ASSUME NEW x \in 0..cols-1, x >= rows
      PROVE  /\ unused_at(x - rows) \in unused
             /\ Cardinality({d \in unused : d < unused_at(x - rows)}) = x - rows
  <2>1. rows < cols /\ x - rows \in 0..(cols - rows)-1 /\ cols - rows \in Nat
    BY <1>1, <1>6
  <2>2. unused \subseteq Int /\ IsFiniteSet(unused) /\ Cardinality(unused) = cols - rows
    BY <1>5, <2>1
  <2>3. \E c \in unused : Cardinality({d \in unused : d < c}) = x - rows
    BY <2>1, <2>2, Places
  <2>4. QED
    BY <2>3 DEF unused_at
<1>7. ASSUME NEW x \in 0..cols-1, x < rows
      PROVE  permutation[x] \in 0..cols-1 /\ p[permutation[x] + 1] = x + 1
  <2>1. permutation[x] = column_of(x + 1) - 1
    BY <1>7 DEF permutation
  <2>2. column_of(x + 1) \in Columns /\ p[column_of(x + 1)] = x + 1
    BY <1>1, <1>3
  <2>3. column_of(x + 1) \in 1..cols
    BY <2>2 DEF Columns
  <2>4. permutation[x] \in 0..cols-1 /\ permutation[x] + 1 = column_of(x + 1)
    BY <1>1, <2>1, <2>3
  <2>5. QED
    BY <2>2, <2>4
<1>8. ASSUME NEW x \in 0..cols-1, x >= rows
      PROVE  /\ permutation[x] \in 0..cols-1 /\ permutation[x] + 1 = unused_at(x - rows)
             /\ p[permutation[x] + 1] \notin 1..rows
  <2>1. permutation[x] = unused_at(x - rows) - 1
    BY <1>1, <1>8 DEF permutation
  <2>2. unused_at(x - rows) \in 1..cols /\ p[unused_at(x - rows)] \notin 1..rows
    BY <1>6, <1>8 DEF unused, Columns
  <2>3. permutation[x] \in 0..cols-1 /\ permutation[x] + 1 = unused_at(x - rows)
    BY <1>1, <2>1, <2>2
  <2>4. QED
    BY <2>2, <2>3
<1>9. permutation \in [0..cols-1 -> 0..cols-1]
  <2>1. permutation = [x \in 0..cols-1 |-> permutation[x]]
    BY DEF permutation
  <2>2. ASSUME NEW x \in 0..cols-1 PROVE permutation[x] \in 0..cols-1
    BY <1>1, <1>7, <1>8
  <2>3. QED
    BY <2>1, <2>2
<1>10. ASSUME NEW x \in 0..cols-1, NEW y \in 0..cols-1, permutation[x] = permutation[y]
       PROVE  x = y
  <2>1. CASE x < rows /\ y < rows
    <3>1. x + 1 = y + 1
      BY <1>7, <1>10, <2>1
    <3>2. QED
      BY <3>1
  <2>2. CASE x >= rows /\ y >= rows
    <3>1. unused_at(x - rows) = unused_at(y - rows)
      BY <1>8, <1>10, <2>2
    <3>2. x - rows = y - rows
      BY <1>6, <2>2, <3>1
    <3>3. QED
      BY <1>1, <3>2
  <2>3. CASE x < rows /\ y >= rows
    <3>1. p[permutation[x] + 1] = x + 1 /\ p[permutation[y] + 1] \notin 1..rows
      BY <1>7, <1>8, <2>3
    <3>2. x + 1 \in 1..rows
      BY <1>1, <2>3
    <3>3. QED
      BY <1>10, <3>1, <3>2
  <2>4. CASE x >= rows /\ y < rows
    <3>1. p[permutation[y] + 1] = y + 1 /\ p[permutation[x] + 1] \notin 1..rows
      BY <1>7, <1>8, <2>4
    <3>2. y + 1 \in 1..rows
      BY <1>1, <2>4
    <3>3. QED
      BY <1>10, <3>1, <3>2
  <2>5. QED
    BY <1>1, <2>1, <2>2, <2>3, <2>4
<1>11. OneToOne(permutation, 0..cols-1)
  BY <1>10 DEF OneToOne
<1>12. QED
  BY <1>7, <1>8, <1>9, <1>11

\* Ranks beyond the columns keep their own: the same in either strategy.
LEMMA Extended ==
  ASSUME NEW n \in Nat, NEW m \in Nat, NEW f \in [0..n-1 -> 0..n-1], OneToOne(f, 0..n-1),
         NEW g, g = [x \in 0..(IF m > n THEN m ELSE n)-1 |-> IF x < n THEN f[x] ELSE x]
  PROVE  {g[x] : x \in DOMAIN g} = DOMAIN g
<1> DEFINE N == IF m > n THEN m ELSE n
<1>1. N \in Nat /\ N >= n /\ g = [x \in 0..N-1 |-> IF x < n THEN f[x] ELSE x] /\ DOMAIN g = 0..N-1
  OBVIOUS
<1>2. ASSUME NEW y \in 0..n-1 PROVE \E x \in 0..n-1 : f[x] = y
  <2>1. IsFiniteSet(0..n-1)
    BY FS_Interval
  <2>2. \A t \in 0..n-1 : Takes(f, 0..n-1, t)
    BY <2>1, Onto
  <2>3. QED
    BY <2>2 DEF Takes
<1> HIDE DEF N
<1>3. ASSUME NEW x \in 0..N-1 PROVE g[x] \in 0..N-1
  <2>1. g[x] = IF x < n THEN f[x] ELSE x
    BY <1>1
  <2>2. CASE x < n
    <3>1. f[x] \in 0..n-1
      BY <2>2
    <3>2. QED
      BY <1>1, <2>1, <2>2, <3>1
  <2>3. CASE ~(x < n)
    BY <2>1, <2>3
  <2>4. QED
    BY <2>2, <2>3
<1>4. ASSUME NEW y \in 0..N-1 PROVE \E x \in 0..N-1 : g[x] = y
  <2>1. CASE y < n
    <3>1. PICK x \in 0..n-1 : f[x] = y
      BY <1>2, <2>1
    <3>2. x \in 0..N-1 /\ x < n
      BY <1>1
    <3>3. g[x] = y
      BY <1>1, <3>1, <3>2
    <3>4. QED
      BY <3>2, <3>3
  <2>2. CASE ~(y < n)
    BY <1>1, <2>2
  <2>3. QED
    BY <2>1, <2>2
<1>5. \A x \in 0..N-1 : g[x] \in 0..N-1
  BY <1>3
<1>6. \A y \in 0..N-1 : \E x \in 0..N-1 : g[x] = y
  BY <1>4
<1>7. DOMAIN g = 0..N-1
  BY <1>1
<1> DEFINE D == 0..N-1
<1>8. {g[x] : x \in D} = D
  <2> HIDE DEF D
  <2>1. (\A x \in D : g[x] \in D) /\ \A y \in D : \E x \in D : g[x] = y
    BY <1>5, <1>6 DEF D
  <2>2. QED
    BY <2>1
<1>9. QED
  BY <1>7, <1>8

\* The order of the Hungarian strategy has every rank of the larger grid once.
LEMMA HungarianPermutes ==
  ASSUME HungarianInv
  PROVE  IsPermutation
<1>1. SUFFICES ASSUME pc = "done"
               PROVE  {order[x] : x \in DOMAIN order} = DOMAIN order
  BY DEF IsPermutation
<1>2. HungarianTypeOK /\ Matched(p, Columns, cols)
  BY <1>1 DEF HungarianInv, MatchInv
<1>3. permutation \in [0..cols-1 -> 0..cols-1] /\ OneToOne(permutation, 0..cols-1)
  BY <1>2, PermutationRight
<1>4. rows \in Nat /\ cols \in Nat
  BY <1>2, Costs DEF HungarianTypeOK
<1>5. order = [x \in 0..(IF rows > cols THEN rows ELSE cols)-1 |->
                 IF x < cols THEN permutation[x] ELSE x]
  BY <1>1 DEF HungarianInv, OrderInv, num_ranks
<1>6. QED
  BY <1>3, <1>4, <1>5, Extended

\* The result keeps as much as any choice of columns: columns that it leaves
\* out are those of the rows that the matrix does not have, whose potentials
\* are the greatest, so any other choice costs as much in potentials, and
\* what it costs in all is not less than that.
LEMMA HungarianOptimal ==
  ASSUME HungarianInv
  PROVE  Optimal
<1> DEFINE K == kept_rows
<1>1. SUFFICES ASSUME pc = "done", NEW f \in Injection(0..K-1, 0..cols-1)
               PROVE  Kept(f) <= Kept(order)
  BY DEF Optimal
<1>2. HungarianTypeOK /\ Matched(p, Columns, cols) /\ Potentials
  BY <1>1 DEF HungarianInv, MatchInv, PotentialInv
<1>3. /\ rows \in Nat \ {0} /\ cols \in Nat \ {0} /\ max_val \in Nat
      /\ \A r \in 1..rows, c \in Columns : matrix[r][c] \in 0..max_val
  BY <1>2, Costs DEF HungarianTypeOK
<1>4. K \in Nat \ {0} /\ K <= rows /\ K <= cols /\ (K = rows \/ K = cols)
  BY <1>3 DEF kept_rows
<1> HIDE DEF K
<1>5. /\ permutation \in [0..cols-1 -> 0..cols-1]
      /\ \A x \in 0..cols-1 : x < rows => p[permutation[x] + 1] = x + 1
  BY <1>2, PermutationRight
<1>6. /\ u \in [0..cols -> Int] /\ v \in [0..cols -> Int]
      /\ \A c \in Columns : p[c] \in 1..cols
      /\ \A c, d \in Columns : p[c] = p[d] /\ p[c] # 0 => c = d
  BY <1>2, AllMatched DEF HungarianTypeOK, Matched
<1>7. \A c \in Columns : u[c] \in Int /\ v[c] \in Int /\ c \in Nat
  BY <1>3, <1>6 DEF Columns
<1> DEFINE F == [r \in 1..K |-> f[r-1] + 1]
           G == [r \in 1..K |-> order[r-1] + 1]
<1>8. Picks(F, Columns, K)
  <2>1. f \in [0..K-1 -> 0..cols-1] /\ \A x, y \in 0..K-1 : f[x] = f[y] => x = y
    BY DEF Injection, IsInjective
  <2>2. ASSUME NEW r \in 1..K PROVE F[r] \in Columns
    <3>1. r - 1 \in 0..K-1
      BY <1>4
    <3>2. f[r-1] \in 0..cols-1
      BY <2>1, <3>1
    <3>3. QED
      BY <1>3, <3>2 DEF Columns
  <2>3. ASSUME NEW r \in 1..K, NEW s \in 1..K, F[r] = F[s] PROVE r = s
    <3>1. r - 1 \in 0..K-1 /\ s - 1 \in 0..K-1
      BY <1>4
    <3>2. f[r-1] \in 0..cols-1 /\ f[s-1] \in 0..cols-1 /\ f[r-1] + 1 = f[s-1] + 1
      BY <2>1, <2>3, <3>1
    <3>3. f[r-1] = f[s-1]
      BY <1>3, <3>2
    <3>4. r - 1 = s - 1
      BY <2>1, <3>1, <3>3
    <3>5. QED
      BY <1>4, <3>4
  <2>4. F \in [1..K -> Columns]
    BY <2>2
  <2> HIDE DEF F
  <2>5. QED
    BY <2>3, <2>4 DEF Picks
<1>9. \A r \in 1..K : G[r] \in Columns /\ p[G[r]] = r
  <2>1. TAKE r \in 1..K
  <2>2. r - 1 \in 0..cols-1 /\ r - 1 < rows /\ r - 1 \in 0..num_ranks-1 /\ r - 1 < cols
    BY <1>3, <1>4 DEF num_ranks
  <2>3. order[r-1] = permutation[r-1]
    BY <1>1, <2>2 DEF HungarianInv, OrderInv
  <2>4. permutation[r-1] \in 0..cols-1 /\ p[permutation[r-1] + 1] = r - 1 + 1
    BY <1>5, <2>2
  <2>5. QED
    BY <1>3, <2>3, <2>4 DEF Columns
<1>10. Picks(G, Columns, K)
  <2>1. G \in [1..K -> Columns]
    BY <1>9
  <2> HIDE DEF G
  <2>2. QED
    BY <1>9, <2>1 DEF Picks
<1> HIDE DEF F, G
<1>11. ASSUME NEW x \in 1..K, NEW d \in Columns, \A y \in 1..K : G[y] # d
       PROVE  v[G[x]] <= v[d]
  <2> DEFINE r == p[d]
             c == G[x]
  <2>1. r \in 1..cols /\ r \in Columns /\ c \in Columns
    BY <1>6, <1>9 DEF Columns
  <2>2. r \notin 1..K
    <3>1. SUFFICES ASSUME r \in 1..K PROVE FALSE
      OBVIOUS
    <3>2. G[r] \in Columns /\ p[G[r]] = p[d] /\ p[d] # 0
      BY <1>4, <1>9, <3>1
    <3>3. G[r] = d
      BY <1>6, <3>2
    <3>4. QED
      BY <1>11, <3>1, <3>3
  <2>3. r > rows /\ r # 0
    BY <1>3, <1>4, <2>1, <2>2
  <2>4. u[r] + v[d] = a(r, d)
    BY <1>2, <2>3 DEF Potentials
  <2>5. u[r] + v[c] <= a(r, c)
    BY <1>2, <2>1 DEF Potentials
  <2>6. a(r, c) = max_val + 1 /\ a(r, d) = max_val + 1
    BY <1>3, <2>1, <2>3 DEF a
  <2>7. u[r] \in Int /\ v[d] \in Int /\ v[c] \in Int
    BY <1>7, <2>1
  <2> HIDE DEF r, c
  <2>8. v[c] <= v[d]
    BY <1>3, <2>4, <2>5, <2>6, <2>7
  <2>9. QED
    BY <2>8 DEF c
<1>12. SumTo(Along(v, G, K), K) <= SumTo(Along(v, F, K), K)
  <2>1. Lightest(v, G, Columns, K)
    BY <1>10, <1>11 DEF Lightest
  <2>2. \A c \in Columns : v[c] \in Int
    BY <1>7
  <2>3. QED
    BY <1>4, <1>8, <2>1, <2>2, LightestSum
<1> DEFINE A == [r \in 1..K |-> matrix[r][f[r-1] + 1]]
           B == [r \in 1..K |-> matrix[r][order[r-1] + 1]]
<1>13. ASSUME NEW r \in 1..K
       PROVE  /\ A[r] \in Int /\ B[r] \in Int
              /\ Along(v, F, K)[r] \in Int /\ Along(v, G, K)[r] \in Int
              /\ A[r] + Along(v, F, K)[r] <= B[r] + Along(v, G, K)[r]
  <2>1. F[r] \in Columns /\ G[r] \in Columns /\ p[G[r]] = r
    BY <1>8, <1>9 DEF Picks
  <2>2. A[r] = matrix[r][F[r]] /\ B[r] = matrix[r][G[r]]
    BY DEF F, G
  <2>3. Along(v, F, K)[r] = v[F[r]] /\ Along(v, G, K)[r] = v[G[r]]
    BY DEF Along
  <2>4. r \in 1..rows /\ r \in Columns /\ r # 0
    BY <1>3, <1>4 DEF Columns
  <2>5. u[r] + v[F[r]] <= a(r, F[r])
    BY <1>2, <2>1, <2>4 DEF Potentials
  <2>6. u[r] + v[G[r]] = a(r, G[r])
    BY <1>2, <2>1, <2>4 DEF Potentials
  <2>7. a(r, F[r]) = max_val - matrix[r][F[r]] /\ a(r, G[r]) = max_val - matrix[r][G[r]]
    BY <1>3, <2>4 DEF a
  <2>8. matrix[r][F[r]] \in Int /\ matrix[r][G[r]] \in Int
    <3>1. \A c \in Columns : matrix[r][c] \in 0..max_val
      BY <1>3, <2>4
    <3>2. \A c \in Columns : matrix[r][c] \in Int
      BY <1>3, <3>1
    <3>3. QED
      BY <2>1, <3>2
  <2>9. u[r] \in Int /\ v[F[r]] \in Int /\ v[G[r]] \in Int
    BY <1>7, <2>1, <2>4
  <2>10. matrix[r][F[r]] + v[F[r]] <= matrix[r][G[r]] + v[G[r]]
    <3>1. \A e, g, h, j, k, l \in Int : e + g <= l - j /\ e + h = l - k => j + g <= k + h
      OBVIOUS
    <3>2. u[r] + v[F[r]] <= max_val - matrix[r][F[r]]
      BY <2>5, <2>7, Zenon
    <3>3. u[r] + v[G[r]] = max_val - matrix[r][G[r]]
      BY <2>6, <2>7, Zenon
    <3>4. max_val \in Int
      BY <1>3
    <3>5. QED
      BY <2>8, <2>9, <3>1, <3>2, <3>3, <3>4, Zenon
  <2> HIDE DEF A, B
  <2>11. QED
    BY <2>2, <2>3, <2>8, <2>9, <2>10
<1>14. Kept(f) = SumTo(A, K) /\ Kept(order) = SumTo(B, K)
  BY DEF Kept, K
<1> HIDE DEF A, B
<1>15. SumTo(A, K) + SumTo(Along(v, F, K), K) <= SumTo(B, K) + SumTo(Along(v, G, K), K)
  BY <1>4, <1>13, SumsCompare
<1>16. /\ SumTo(A, K) \in Int /\ SumTo(B, K) \in Int
       /\ SumTo(Along(v, F, K), K) \in Int /\ SumTo(Along(v, G, K), K) \in Int
  BY <1>4, <1>13, SumInt
<1>17. QED
  BY <1>12, <1>14, <1>15, <1>16

\* On every matrix the Hungarian strategy ends, if it ends, with an order that
\* keeps as much as any other choice of columns would.
THEOREM OptimalAlways == RankSpec => []Optimal
<1>1. HungarianInv => Optimal
  BY HungarianOptimal
<1>2. QED
  BY <1>1, HungarianInvariance, PTL
-----------------------------------------------------------------------------
\* The greedy strategy reads the same matrix.
LEMMA SameShape ==
  /\ Greedy!rows = rows /\ Greedy!cols = cols
  /\ Greedy!Columns = 0..cols-1 /\ Greedy!num_considered_rows = kept_rows
<1>1. Greedy!rows = rows /\ Greedy!cols = cols
  BY DEF Greedy!rows, Greedy!cols, rows, cols
<1>2. QED
  BY <1>1 DEF Greedy!Columns, Greedy!num_considered_rows, kept_rows

LEMMA GreedyShape ==
  ASSUME IsMatrix(matrix)
  PROVE  /\ rows \in Nat \ {0} /\ cols \in Nat \ {0} /\ kept_rows \in Nat \ {0}
         /\ kept_rows <= cols /\ kept_rows <= rows /\ max_val \in Nat
         /\ \A x \in 0..rows-1, c \in 0..cols-1 : matrix[x + 1][c + 1] \in 0..max_val
         /\ \A x \in 0..rows-1 : SumTo(matrix[x + 1], cols) \in Int
<1>1. /\ rows \in Nat \ {0} /\ cols \in Nat \ {0} /\ max_val \in Nat
      /\ \A r \in 1..rows, c \in Columns : matrix[r][c] \in 0..max_val
  BY Costs
<1>2. kept_rows \in Nat \ {0} /\ kept_rows <= cols /\ kept_rows <= rows
  BY <1>1 DEF kept_rows
<1>3. ASSUME NEW x \in 0..rows-1 PROVE x + 1 \in 1..rows
  BY <1>1
<1>4. ASSUME NEW c \in 0..cols-1 PROVE c + 1 \in Columns
  BY <1>1 DEF Columns
<1>5. ASSUME NEW x \in 0..rows-1 PROVE SumTo(matrix[x + 1], cols) \in Int
  <2>1. \A c \in 1..cols : matrix[x + 1][c] \in 0..max_val
    BY <1>1, <1>3 DEF Columns
  <2>2. \A c \in 1..cols : matrix[x + 1][c] \in Int
    BY <1>1, <2>1
  <2>3. QED
    BY <1>1, <2>2, SumInt
<1>6. \A x \in 0..rows-1, c \in 0..cols-1 : matrix[x + 1][c + 1] \in 0..max_val
  BY <1>1, <1>3, <1>4
<1>7. QED
  BY <1>1, <1>2, <1>5, <1>6

\* Whose turn it is finds a column, and none that is left has more weight.
LEMMA BestRank ==
  ASSUME IsMatrix(matrix), GreedyInv, greedy_pc = "choose"
  PROVE  /\ Greedy!best_rank(greedy_i) \in (0..cols-1) \ greedy_used
         /\ \A d \in (0..cols-1) \ greedy_used :
              matrix[greedy_i + 1][d + 1] =< matrix[greedy_i + 1][Greedy!best_rank(greedy_i) + 1]
<1> DEFINE left == (0..cols-1) \ greedy_used
           x == greedy_i
           W(c) == matrix[x + 1][c + 1]
           row == SumTo(matrix[x + 1], cols)
<1>1. /\ rows \in Nat \ {0} /\ cols \in Nat \ {0} /\ kept_rows \in Nat \ {0}
      /\ kept_rows <= cols /\ kept_rows <= rows /\ max_val \in Nat
      /\ \A r \in 0..rows-1, c \in 0..cols-1 : matrix[r + 1][c + 1] \in 0..max_val
      /\ \A r \in 0..rows-1 : SumTo(matrix[r + 1], cols) \in Int
  BY GreedyShape
<1>2. /\ x \in 0..kept_rows-1
      /\ \A r \in 0..cols-1 : greedy_order[r] = -1 <=> r >= x
      /\ \A c \in 0..cols-1 : c \in greedy_used <=> \E r \in 0..cols-1 : greedy_order[r] = c
  BY DEF GreedyInv
<1>3. x \in 0..rows-1 /\ x \in 0..cols-1
  BY <1>1, <1>2
<1>4. row \in Int /\ \A c \in left : W(c) \in 0..max_val
  BY <1>1, <1>3
<1>5. left # {}
  <2>1. SUFFICES ASSUME \A c \in 0..cols-1 : \E r \in 0..cols-1 : greedy_order[r] = c
                 PROVE  FALSE
    BY <1>2
  <2> DEFINE S == 0..cols-1
             T == 0..x-1
             h == [c \in S |-> CHOOSE r \in S : greedy_order[r] = c]
  <2>2. ASSUME NEW c \in S PROVE h[c] \in S /\ greedy_order[h[c]] = c
    BY <2>1
  <2>3. ASSUME NEW c \in S PROVE h[c] \in T
    <3>1. h[c] \in S /\ greedy_order[h[c]] # -1
      BY <2>2
    <3> HIDE DEF h
    <3>2. ~(h[c] >= x)
      BY <1>2, <3>1
    <3>3. QED
      BY <1>1, <1>3, <3>1, <3>2
  <2>4. h \in [S -> T]
    <3>1. h = [c \in S |-> h[c]]
      OBVIOUS
    <3> HIDE DEF h, S, T
    <3>2. QED
      BY <2>3, <3>1
  <2>5. IsFiniteSet(S) /\ IsFiniteSet(T) /\ Cardinality(S) = cols /\ Cardinality(T) = x
    BY <1>1, <1>2, FS_Interval
  <2>6. PICK c \in S, d \in S : c # d /\ h[c] = h[d]
    <3>1. Cardinality(T) < Cardinality(S)
      BY <1>1, <1>2, <2>5
    <3> HIDE DEF h, S, T
    <3>2. QED
      BY <2>4, <2>5, <3>1, FS_PigeonHole
  <2>7. QED
    <3> HIDE DEF h, S
    <3>1. QED
      BY <2>2, <2>6
<1> DEFINE M == {W(c) : c \in left}
<1>6. PICK e \in left : \A d \in left : W(d) <= W(e)
  <2>1. M \subseteq 0..max_val /\ M # {}
    BY <1>4, <1>5
  <2>2. PICK m \in M : \A y \in M : y <= m
    <3> HIDE DEF M
    <3>1. QED
      BY <1>1, <2>1, GreatestNatural
  <2>3. PICK c \in left : m = W(c)
    OBVIOUS
  <2>4. QED
    BY <2>2, <2>3
<1> DEFINE N == {c \in left : W(c) = W(e)}
<1>7. PICK b \in N : \A c \in N : b <= c
  <2>1. N \subseteq Nat /\ N # {}
    BY <1>1, <1>6
  <2> HIDE DEF N
  <2>2. QED
    BY <2>1, LeastNatural
<1> DEFINE Best(c) == \A d \in left : Greedy!score(x, d) < Greedy!score(x, c)
                                      \/ (Greedy!score(x, d) = Greedy!score(x, c) /\ c =< d)
<1>8. ASSUME NEW c \in left PROVE Greedy!score(x, c) = W(c) - row
  <2>1. Greedy!row_sum(x) = Greedy!SumTo(matrix[x + 1], cols)
    BY SameShape DEF Greedy!row_sum
  <2>2. Greedy!SumTo(matrix[x + 1], cols) = row
    BY DEF Greedy!SumTo, SumTo
  <2>3. QED
    BY <2>1, <2>2 DEF Greedy!score
<1>9. Best(b)
  <2>1. SUFFICES ASSUME NEW d \in left
                 PROVE  Greedy!score(x, d) < Greedy!score(x, b)
                        \/ (Greedy!score(x, d) = Greedy!score(x, b) /\ b =< d)
    OBVIOUS
  <2>2. b \in left /\ W(b) = W(e)
    OBVIOUS
  <2>3. W(d) <= W(b) /\ (W(d) = W(b) => b <= d)
    BY <1>6, <1>7, <2>2
  <2>4. W(d) \in Int /\ W(b) \in Int
    BY <1>4, <2>2
  <2>5. Greedy!score(x, d) = W(d) - row /\ Greedy!score(x, b) = W(b) - row
    BY <1>8, <2>2
  <2> HIDE DEF W, row, N
  <2>6. QED
    BY <1>4, <2>3, <2>4, <2>5
<1>10. Greedy!best_rank(x) = CHOOSE c \in left : Best(c)
  BY SameShape, Zenon DEF Greedy!best_rank
<1>11. b \in left
  OBVIOUS
<1> DEFINE k == Greedy!best_rank(x)
<1>12. k \in left /\ Best(k)
  <2> HIDE DEF left, Best
  <2>1. QED
    BY <1>9, <1>10, <1>11
<1> HIDE DEF k
<1>13. ASSUME NEW d \in left PROVE W(d) <= W(k)
  <2>1. Greedy!score(x, d) = W(d) - row /\ Greedy!score(x, k) = W(k) - row
    BY <1>8, <1>12
  <2>2. Greedy!score(x, d) < Greedy!score(x, k) \/ Greedy!score(x, d) = Greedy!score(x, k)
    BY <1>12
  <2>3. W(d) \in Int /\ W(k) \in Int
    BY <1>4, <1>12
  <2> HIDE DEF W, row
  <2>4. QED
    BY <1>4, <2>1, <2>2, <2>3
<1>14. QED
  BY <1>12, <1>13 DEF k

LEMMA GreedyStarts ==
  ASSUME IsMatrix(matrix), Greedy!Start
  PROVE  GreedyInv
<1>1. cols \in Nat \ {0} /\ kept_rows \in Nat \ {0} /\ kept_rows <= cols
  BY GreedyShape
<1>2. /\ greedy_pc = "choose" /\ greedy_i = 0 /\ greedy_used = {}
      /\ greedy_order = [x \in 0..cols-1 |-> -1]
  BY SameShape DEF Greedy!Start
<1>3. \A x \in 0..cols-1 : greedy_order[x] = -1 /\ x >= greedy_i
  BY <1>2
<1>4. \A x \in 0..kept_rows-1 : x \in 0..cols-1
  BY <1>1
<1>5. Contented(greedy_order) /\ NoneShared(greedy_order)
  BY <1>3, <1>4 DEF Contented, NoneShared
<1>6. greedy_order \in [0..cols-1 -> -1..cols-1]
  BY <1>1, <1>2
<1>7. greedy_i \in 0..kept_rows-1
  BY <1>1, <1>2
<1>8. QED
  BY <1>2, <1>3, <1>5, <1>6, <1>7 DEF GreedyInv

\* A row that chooses takes a column that nobody has.
LEMMA ChooseKeeps ==
  ASSUME IsMatrix(matrix), GreedyInv, Greedy!Choose
  PROVE  GreedyInv'
<1> DEFINE c == Greedy!best_rank(greedy_i)
<1>1. /\ rows \in Nat \ {0} /\ cols \in Nat \ {0} /\ kept_rows \in Nat \ {0}
      /\ kept_rows <= cols /\ kept_rows <= rows
  BY GreedyShape
<1>2. /\ greedy_order' = [greedy_order EXCEPT ![greedy_i] = c]
      /\ greedy_used' = greedy_used \cup {c}
      /\ greedy_i' = greedy_i + 1 /\ greedy_pc = "choose"
      /\ greedy_pc' = IF greedy_i + 1 = kept_rows THEN "fill" ELSE "choose"
      /\ matrix' = matrix
  BY SameShape DEF Greedy!Choose
<1>3. /\ c \in 0..cols-1 /\ c \notin greedy_used
      /\ \A d \in 0..cols-1 : d \notin greedy_used =>
           matrix[greedy_i + 1][d + 1] =< matrix[greedy_i + 1][c + 1]
  BY <1>2, BestRank
<1> HIDE DEF c
<1>4. /\ greedy_order \in [0..cols-1 -> -1..cols-1] /\ greedy_used \subseteq 0..cols-1
      /\ \A d \in 0..cols-1 : d \in greedy_used <=> \E x \in 0..cols-1 : greedy_order[x] = d
      /\ greedy_i \in 0..kept_rows-1
      /\ \A x \in 0..cols-1 : greedy_order[x] = -1 <=> x >= greedy_i
      /\ Contented(greedy_order) /\ NoneShared(greedy_order)
  BY <1>2 DEF GreedyInv
<1>5. /\ greedy_i \in 0..cols-1 /\ greedy_i \in Nat /\ c # -1
      /\ \A x \in 0..kept_rows-1 : x \in 0..cols-1
  BY <1>1, <1>3, <1>4
<1>6. /\ greedy_order' \in [0..cols-1 -> -1..cols-1]
      /\ \A x \in 0..cols-1 : greedy_order'[x] = IF x = greedy_i THEN c ELSE greedy_order[x]
  <2>1. c \in -1..cols-1
    BY <1>1, <1>3
  <2>2. QED
    BY <1>2, <1>4, <1>5, <2>1
<1>7. rows' = rows /\ cols' = cols /\ kept_rows' = kept_rows /\ num_ranks' = num_ranks
  BY <1>2, SameCosts DEF kept_rows, num_ranks
<1>8. \A d \in 0..cols-1 : d \in greedy_used' <=> \E x \in 0..cols-1 : greedy_order'[x] = d
  <2>1. TAKE d \in 0..cols-1
  <2>2. greedy_order[greedy_i] = -1 /\ d # -1
    BY <1>1, <1>4, <1>5
  <2>3. CASE d = c
    BY <1>2, <1>5, <1>6, <2>3
  <2>4. CASE d # c
    <3>1. d \in greedy_used' <=> d \in greedy_used
      BY <1>2, <2>4
    <3>2. \A x \in 0..cols-1 : greedy_order'[x] = d <=> greedy_order[x] = d
      BY <1>6, <2>2, <2>4
    <3>3. QED
      BY <1>4, <3>1, <3>2
  <2>5. QED
    BY <2>3, <2>4
<1>9. greedy_used' \subseteq 0..cols-1
  BY <1>2, <1>3, <1>4
<1>10. NoneShared(greedy_order)'
  <2>1. SUFFICES ASSUME NEW x \in 0..cols-1, NEW y \in 0..cols-1,
                        greedy_order'[x] = greedy_order'[y], greedy_order'[x] # -1
                 PROVE  x = y
    BY <1>7 DEF NoneShared
  <2>2. \A z \in 0..cols-1 : greedy_order[z] # c
    BY <1>3, <1>4
  <2>3. QED
    BY <1>4, <1>6, <2>1, <2>2 DEF NoneShared
<1>11. Contented(greedy_order)'
  <2>1. SUFFICES ASSUME NEW x \in 0..kept_rows-1, NEW d \in 0..cols-1,
                        greedy_order'[x] # -1, \A z \in 0..x-1 : greedy_order'[z] # d
                 PROVE  matrix[x + 1][d + 1] =< matrix[x + 1][greedy_order'[x] + 1]
    BY <1>2, <1>7 DEF Contented
  <2>2. x \in 0..cols-1 /\ \A z \in 0..x-1 : z \in 0..cols-1
    BY <1>1
  <2>3. CASE x = greedy_i
    <3>1. \A z \in 0..x-1 : greedy_order[z] # d
      BY <1>6, <2>1, <2>2, <2>3
    <3>2. d \notin greedy_used
      <4>1. SUFFICES ASSUME NEW z \in 0..cols-1, greedy_order[z] = d PROVE FALSE
        BY <1>4
      <4>2. greedy_order[z] # -1
        BY <1>1, <4>1
      <4>3. z \in 0..x-1
        BY <1>1, <1>4, <2>2, <2>3, <4>2
      <4>4. QED
        BY <3>1, <4>1, <4>3
    <3>3. QED
      BY <1>3, <1>6, <2>2, <2>3, <3>2
  <2>4. CASE x # greedy_i
    <3>1. greedy_order'[x] = greedy_order[x] /\ greedy_order[x] # -1
      BY <1>6, <2>1, <2>2, <2>4
    <3>2. x < greedy_i
      BY <1>4, <1>5, <2>2, <3>1
    <3>3. \A z \in 0..x-1 : greedy_order'[z] = greedy_order[z]
      <4>1. TAKE z \in 0..x-1
      <4>2. z # greedy_i /\ z \in 0..cols-1
        BY <1>5, <2>2, <3>2
      <4>3. QED
        BY <1>6, <4>2
    <3>4. QED
      BY <1>4, <2>1, <3>1, <3>3 DEF Contented
  <2>5. QED
    BY <2>3, <2>4
<1>12. \A x \in 0..cols-1 : greedy_order'[x] = -1 <=> x >= greedy_i + 1
  <2>1. TAKE x \in 0..cols-1
  <2>2. CASE x = greedy_i
    BY <1>5, <1>6, <2>2
  <2>3. CASE x # greedy_i
    BY <1>4, <1>5, <1>6, <2>3
  <2>4. QED
    BY <2>2, <2>3
<1>13. CASE greedy_i + 1 = kept_rows
  <2>1. greedy_pc' = "fill"
    BY <1>2, <1>13
  <2>2. \A x \in 0..kept_rows-1 : greedy_order'[x] # -1
    <3>1. TAKE x \in 0..kept_rows-1
    <3>2. x \in 0..cols-1 /\ ~(x >= greedy_i + 1)
      BY <1>1, <1>5, <1>13
    <3>3. QED
      BY <1>12, <3>2
  <2>3. QED
    BY <1>6, <1>7, <1>8, <1>9, <1>10, <1>11, <2>1, <2>2 DEF GreedyInv
<1>14. CASE greedy_i + 1 # kept_rows
  <2>1. greedy_pc' = "choose"
    BY <1>2, <1>14
  <2>2. greedy_i' \in 0..kept_rows-1
    BY <1>1, <1>2, <1>4, <1>14
  <2>3. \A x \in 0..cols-1 : greedy_order'[x] = -1 <=> x >= greedy_i'
    BY <1>2, <1>12
  <2>4. QED
    BY <1>6, <1>7, <1>8, <1>9, <1>10, <1>11, <2>1, <2>2, <2>3 DEF GreedyInv
<1>15. QED
  BY <1>13, <1>14

\* Holes are filled behind the rows that chose, with columns left over.
LEMMA FillKeeps ==
  ASSUME IsMatrix(matrix), GreedyInv, Greedy!Fill
  PROVE  GreedyInv'
<1> DEFINE left == (0..cols-1) \ greedy_used
           h == Greedy!FirstOf(Greedy!Holes)
           c == Greedy!FirstOf(left)
<1>1. /\ rows \in Nat \ {0} /\ cols \in Nat \ {0} /\ kept_rows \in Nat \ {0}
      /\ kept_rows <= cols /\ kept_rows <= rows
  BY GreedyShape
<1>2. /\ greedy_pc = "fill" /\ Greedy!Holes # {}
      /\ IF left # {}
         THEN /\ greedy_order' = [greedy_order EXCEPT ![h] = c]
              /\ greedy_used' = greedy_used \cup {c}
         ELSE greedy_order' = greedy_order /\ greedy_used' = greedy_used
      /\ matrix' = matrix /\ greedy_pc' = "fill" /\ greedy_i' = greedy_i
  BY SameShape DEF Greedy!Fill
<1>3. /\ greedy_order \in [0..cols-1 -> -1..cols-1] /\ greedy_used \subseteq 0..cols-1
      /\ \A d \in 0..cols-1 : d \in greedy_used <=> \E x \in 0..cols-1 : greedy_order[x] = d
      /\ \A x \in 0..kept_rows-1 : greedy_order[x] # -1
      /\ Contented(greedy_order) /\ NoneShared(greedy_order)
  BY <1>2 DEF GreedyInv
<1>4. rows' = rows /\ cols' = cols /\ kept_rows' = kept_rows /\ num_ranks' = num_ranks
  BY <1>2, SameCosts DEF kept_rows, num_ranks
<1>5. Greedy!Holes = {x \in 0..cols-1 : greedy_order[x] = -1}
  BY <1>3 DEF Greedy!Holes
<1>6. \A S : S \subseteq Nat /\ S # {} => Greedy!FirstOf(S) \in S
  <2>1. SUFFICES ASSUME NEW S, S \subseteq Nat, S # {} PROVE Greedy!FirstOf(S) \in S
    OBVIOUS
  <2>2. \E x \in S : \A y \in S : x =< y
    BY <2>1, LeastNatural
  <2>3. QED
    BY <2>2 DEF Greedy!FirstOf
<1>7. h \in 0..cols-1 /\ greedy_order[h] = -1
  <2>1. Greedy!Holes \subseteq Nat
    BY <1>1, <1>5
  <2>2. h \in Greedy!Holes
    BY <1>2, <1>6, <2>1
  <2> HIDE DEF h
  <2>3. QED
    BY <1>5, <2>2
<1>8. CASE left = {}
  <2>1. greedy_order' = greedy_order /\ greedy_used' = greedy_used
    BY <1>2, <1>8
  <2>2. Contented(greedy_order)' /\ NoneShared(greedy_order)'
    BY <1>2, <1>3, <1>4, <2>1 DEF Contented, NoneShared
  <2>3. QED
    BY <1>2, <1>3, <1>4, <2>1, <2>2 DEF GreedyInv
<1>9. CASE left # {}
  <2>1. c \in left
    <3>1. left \subseteq Nat
      BY <1>1
    <3> HIDE DEF left
    <3>2. QED
      BY <1>6, <1>9, <3>1
  <2>2. greedy_order' = [greedy_order EXCEPT ![h] = c] /\ greedy_used' = greedy_used \cup {c}
    BY <1>2, <1>9
  <2>3. c \in 0..cols-1 /\ c \notin greedy_used /\ c # -1
    BY <1>1, <2>1
  <2> HIDE DEF left, h, c
  <2>4. /\ greedy_order' \in [0..cols-1 -> -1..cols-1]
        /\ \A x \in 0..cols-1 : greedy_order'[x] = IF x = h THEN c ELSE greedy_order[x]
    <3>1. c \in -1..cols-1
      BY <1>1, <2>3
    <3>2. QED
      BY <1>3, <1>7, <2>2, <3>1
  <2>5. \A d \in 0..cols-1 : d \in greedy_used' <=> \E x \in 0..cols-1 : greedy_order'[x] = d
    <3>1. TAKE d \in 0..cols-1
    <3>2. greedy_order[h] = -1 /\ d # -1
      BY <1>1, <1>7
    <3>3. CASE d = c
      BY <1>7, <2>2, <2>4, <3>3
    <3>4. CASE d # c
      <4>1. d \in greedy_used' <=> d \in greedy_used
        BY <2>2, <3>4
      <4>2. \A x \in 0..cols-1 : greedy_order'[x] = d <=> greedy_order[x] = d
        BY <2>4, <3>2, <3>4
      <4>3. QED
        BY <1>3, <4>1, <4>2
    <3>5. QED
      BY <3>3, <3>4
  <2>6. greedy_used' \subseteq 0..cols-1
    BY <1>3, <2>2, <2>3
  <2>7. NoneShared(greedy_order)'
    <3>1. SUFFICES ASSUME NEW x \in 0..cols-1, NEW y \in 0..cols-1,
                          greedy_order'[x] = greedy_order'[y], greedy_order'[x] # -1
                   PROVE  x = y
      BY <1>4 DEF NoneShared
    <3>2. \A z \in 0..cols-1 : greedy_order[z] # c
      BY <1>3, <2>3
    <3>3. QED
      BY <1>3, <2>4, <3>1, <3>2 DEF NoneShared
  <2>8. \A x \in 0..kept_rows-1 : x \in 0..cols-1 /\ x # h /\ greedy_order'[x] = greedy_order[x]
    <3>1. \A x \in 0..kept_rows-1 : x \in 0..cols-1
      BY <1>1
    <3>2. QED
      BY <1>3, <1>7, <2>4, <3>1
  <2>9. Contented(greedy_order)'
    <3>1. SUFFICES ASSUME NEW x \in 0..kept_rows-1, NEW d \in 0..cols-1,
                          greedy_order'[x] # -1, \A z \in 0..x-1 : greedy_order'[z] # d
                   PROVE  matrix[x + 1][d + 1] =< matrix[x + 1][greedy_order'[x] + 1]
      BY <1>2, <1>4 DEF Contented
    <3>2. \A z \in 0..x-1 : z \in 0..kept_rows-1
      BY <1>1
    <3>3. \A z \in 0..x-1 : greedy_order[z] # d
      BY <2>8, <3>1, <3>2
    <3>4. QED
      BY <1>3, <2>8, <3>1, <3>3 DEF Contented
  <2>10. \A x \in 0..kept_rows-1 : greedy_order'[x] # -1
    BY <1>3, <2>8
  <2>11. QED
    BY <1>2, <1>4, <2>4, <2>5, <2>6, <2>7, <2>9, <2>10 DEF GreedyInv
<1>10. QED
  BY <1>8, <1>9

LEMMA ExtendKeeps ==
  ASSUME IsMatrix(matrix), GreedyInv, Greedy!Extend
  PROVE  GreedyInv'
<1>1. /\ rows \in Nat \ {0} /\ cols \in Nat \ {0} /\ kept_rows \in Nat \ {0}
      /\ kept_rows <= cols /\ kept_rows <= rows
  BY GreedyShape
<1>2. /\ greedy_order' = [x \in 0..num_ranks-1 |-> IF x < cols THEN greedy_order[x] ELSE x]
      /\ greedy_pc = "fill" /\ greedy_pc' = "done" /\ matrix' = matrix
      /\ Greedy!Holes = {}
  BY SameShape DEF Greedy!Extend, num_ranks
<1>3. /\ greedy_order \in [0..cols-1 -> -1..cols-1]
      /\ Contented(greedy_order) /\ NoneShared(greedy_order)
  BY <1>2 DEF GreedyInv
<1>4. rows' = rows /\ cols' = cols /\ kept_rows' = kept_rows /\ num_ranks' = num_ranks
  BY <1>2, SameCosts DEF kept_rows, num_ranks
<1>5. ASSUME NEW x \in 0..cols-1
      PROVE  greedy_order'[x] = greedy_order[x] /\ greedy_order[x] \in 0..cols-1
  <2>1. x \in 0..num_ranks-1 /\ x < cols
    BY <1>1 DEF num_ranks
  <2>2. greedy_order'[x] = greedy_order[x]
    BY <1>2, <2>1
  <2>3. greedy_order[x] # -1
    BY <1>2, <1>3 DEF Greedy!Holes
  <2>4. greedy_order[x] \in -1..cols-1
    BY <1>3
  <2>5. QED
    BY <1>1, <2>2, <2>3, <2>4
<1>6. \A x \in 0..kept_rows-1 : x \in 0..cols-1 /\ \A z \in 0..x-1 : z \in 0..cols-1
  BY <1>1
<1>7. NoneShared(greedy_order)'
  BY <1>3, <1>4, <1>5 DEF NoneShared
<1>8. Contented(greedy_order)'
  <2>1. SUFFICES ASSUME NEW x \in 0..kept_rows-1, NEW d \in 0..cols-1,
                        greedy_order'[x] # -1, \A z \in 0..x-1 : greedy_order'[z] # d
                 PROVE  matrix[x + 1][d + 1] =< matrix[x + 1][greedy_order'[x] + 1]
    BY <1>2, <1>4 DEF Contented
  <2>2. \A z \in 0..x-1 : greedy_order[z] # d
    BY <1>5, <1>6, <2>1
  <2>3. QED
    BY <1>3, <1>5, <1>6, <2>1, <2>2 DEF Contented
<1>9. greedy_order' = [x \in 0..num_ranks-1 |-> IF x < cols THEN greedy_order'[x] ELSE x]
  <2>1. \A x \in 0..num_ranks-1 : x < cols => x \in 0..cols-1
    BY <1>1 DEF num_ranks
  <2>2. \A x \in 0..num_ranks-1 : x < cols => greedy_order'[x] = greedy_order[x]
    BY <1>5, <2>1
  <2>3. QED
    BY <1>2, <2>2
<1>10. \A x \in 0..cols-1 : greedy_order'[x] \in 0..cols-1
  BY <1>5
<1>11. QED
  BY <1>2, <1>4, <1>7, <1>8, <1>9, <1>10 DEF GreedyInv

LEMMA GreedyStays ==
  ASSUME GreedyInv, matrix' = matrix, UNCHANGED greedy_vars
  PROVE  GreedyInv'
<1>1. /\ greedy_pc' = greedy_pc /\ greedy_i' = greedy_i
      /\ greedy_order' = greedy_order /\ greedy_used' = greedy_used
  BY DEF greedy_vars
<1>2. rows' = rows /\ cols' = cols /\ kept_rows' = kept_rows /\ num_ranks' = num_ranks
  BY SameCosts DEF kept_rows, num_ranks
<1>3. Contented(greedy_order)' /\ NoneShared(greedy_order)'
  BY <1>1, <1>2 DEF GreedyInv, Contented, NoneShared
<1>4. QED
  BY <1>1, <1>2, <1>3 DEF GreedyInv

\* Both invariants hold all the time.
THEOREM GreedyInvariance == RankSpec => [](HungarianInv /\ GreedyInv)
<1>1. RankInit => GreedyInv
  <2>1. SUFFICES ASSUME RankInit
                 PROVE  IsMatrix(matrix) /\ Greedy!Start
    BY GreedyStarts
  <2>2. QED
    BY <2>1, ContextAssumption DEF RankInit, StartBoth
<1>2. HungarianInv /\ GreedyInv /\ [RankNext]_rank_vars => GreedyInv'
  <2> SUFFICES ASSUME HungarianInv, GreedyInv, [RankNext]_rank_vars
               PROVE  GreedyInv'
    OBVIOUS
  <2>1. IsMatrix(matrix)
    BY DEF HungarianInv, HungarianTypeOK
  <2>2. CASE Greedy!Choose
    BY <2>1, <2>2, ChooseKeeps
  <2>3. CASE Greedy!Fill
    BY <2>1, <2>3, FillKeeps
  <2>4. CASE Greedy!Extend
    BY <2>1, <2>4, ExtendKeeps
  <2>5. CASE matrix' = matrix /\ UNCHANGED greedy_vars
    BY <2>5, GreedyStays
  <2>6. CASE HungarianStep
    <3>1. matrix' = matrix
      BY <2>6 DEF HungarianStep, Step, StartRow, Scan, Augment, Order
    <3>2. QED
      BY <2>5, <2>6, <3>1 DEF HungarianStep
  <2>7. CASE UNCHANGED <<vars, greedy_vars>>
    BY <2>5, <2>7 DEF vars
  <2>8. CASE GreedyStep
    BY <2>2, <2>3, <2>4, <2>8 DEF GreedyStep, Greedy!Step
  <2>9. HungarianStep \/ GreedyStep \/ UNCHANGED <<vars, greedy_vars>>
    BY DEF RankNext, Reorder, RankTerminating, rank_vars
  <2>10. QED
    BY <2>6, <2>7, <2>8, <2>9
<1>3. QED
  BY <1>1, <1>2, HungarianInvariance, PTL DEF RankSpec

\* Either result has every rank once.
LEMMA BothPermute == HungarianInv /\ GreedyInv => BothPermutations
<1>1. SUFFICES ASSUME HungarianInv, GreedyInv, greedy_pc = "done"
               PROVE  {greedy_order[x] : x \in DOMAIN greedy_order} = DOMAIN greedy_order
  BY HungarianPermutes DEF BothPermutations, Greedy!IsPermutation
<1>2. rows \in Nat /\ cols \in Nat
  BY <1>1, Costs DEF HungarianInv, HungarianTypeOK
<1> DEFINE f == [x \in 0..cols-1 |-> greedy_order[x]]
<1>3. /\ \A x \in 0..cols-1 : greedy_order[x] \in 0..cols-1
      /\ greedy_order = [x \in 0..num_ranks-1 |-> IF x < cols THEN greedy_order[x] ELSE x]
      /\ NoneShared(greedy_order)
  BY <1>1 DEF GreedyInv
<1>4. f \in [0..cols-1 -> 0..cols-1]
  BY <1>3
<1>5. OneToOne(f, 0..cols-1)
  <2>1. \A x \in 0..cols-1 : f[x] = greedy_order[x]
    OBVIOUS
  <2> HIDE DEF f
  <2>2. \A x \in 0..cols-1 : greedy_order[x] # -1
    BY <1>2, <1>3
  <2>3. \A x, y \in 0..cols-1 : greedy_order[x] = greedy_order[y] => x = y
    BY <1>3, <2>2 DEF NoneShared
  <2>4. QED
    BY <2>1, <2>3 DEF OneToOne
<1>6. greedy_order = [x \in 0..(IF rows > cols THEN rows ELSE cols)-1 |->
                        IF x < cols THEN f[x] ELSE x]
  <2>1. \A x \in 0..num_ranks-1 : x < cols => x \in 0..cols-1 /\ f[x] = greedy_order[x]
    BY <1>2 DEF num_ranks
  <2>2. [x \in 0..num_ranks-1 |-> IF x < cols THEN greedy_order[x] ELSE x]
        = [x \in 0..num_ranks-1 |-> IF x < cols THEN f[x] ELSE x]
    <3> HIDE DEF f
    <3> QED BY <2>1
  <2> HIDE DEF f
  <2>3. QED
    BY <1>3, <2>2 DEF num_ranks
<1> HIDE DEF f
<1>7. QED
  BY <1>2, <1>4, <1>5, <1>6, Extended

\* Either order has every rank of the larger grid once.
THEOREM PermutationsAlways == RankSpec => []BothPermutations
  BY BothPermute, GreedyInvariance, PTL

\* No row of the greedy strategy wants what a later one has.
THEOREM NoRegretAlways == RankSpec => []NoRegret
<1>1. HungarianInv /\ GreedyInv => NoRegret
  <2>1. SUFFICES ASSUME HungarianInv, GreedyInv, greedy_pc = "done",
                        NEW x \in 0..cols-1, NEW y \in 0..cols-1, x < y, x < rows
                 PROVE  matrix[x + 1][greedy_order[y] + 1] =< matrix[x + 1][greedy_order[x] + 1]
    BY SameShape DEF NoRegret, Greedy!NoRegret
  <2>2. rows \in Nat /\ cols \in Nat
    BY <2>1, Costs DEF HungarianInv, HungarianTypeOK
  <2>3. /\ \A z \in 0..cols-1 : greedy_order[z] \in 0..cols-1
        /\ Contented(greedy_order) /\ NoneShared(greedy_order)
    BY <2>1 DEF GreedyInv
  <2>4. x \in 0..kept_rows-1
    BY <2>1, <2>2 DEF kept_rows
  <2>5. greedy_order[x] # -1 /\ greedy_order[y] # -1 /\ greedy_order[y] \in 0..cols-1
    BY <2>2, <2>3
  <2>6. \A z \in 0..x-1 : greedy_order[z] # greedy_order[y]
    <3>1. SUFFICES ASSUME NEW z \in 0..x-1, greedy_order[z] = greedy_order[y] PROVE FALSE
      OBVIOUS
    <3>2. z \in 0..cols-1 /\ z # y
      BY <2>1, <2>2
    <3>3. QED
      BY <2>3, <2>5, <3>1, <3>2 DEF NoneShared
  <2>7. QED
    BY <2>3, <2>4, <2>5, <2>6 DEF Contented
<1>2. QED
  BY <1>1, GreedyInvariance, PTL
-----------------------------------------------------------------------------
\* MPI_Comm_split numbers the processes by their keys: by keys that are the
\* ranks themselves, each once, every process gets its key.
LEMMA SplitByRanks ==
  ASSUME NEW n \in Nat, context.size = n, NEW key \in [Process -> Process],
         \A q, s \in Process : key[q] = key[s] => q = s,
         NEW q \in Process
  PROVE  MPI_Comm_split(key)[q] = key[q]
<1>1. Process = 0..n-1 /\ IsFiniteSet(Process)
  BY FS_Interval DEF Process
<1>2. PICK k \in 0..n-1 : k = key[q]
  BY <1>1
<1> DEFINE S == {s \in Process : key[s] < k}
           h == [s \in S |-> key[s]]
<1>3. {s \in Process : key[s] < key[q] \/ (key[s] = key[q] /\ s < q)} = S
  <2>1. ASSUME NEW s \in Process, key[s] = key[q]
        PROVE  ~(s < q)
    <3>1. s = q /\ q \in 0..n-1
      BY <1>1, <2>1
    <3>2. QED
      BY <3>1
  <2>2. QED
    BY <1>2, <2>1
<1>4. MPI_Comm_split(key)[q] = Cardinality(S)
  BY <1>3 DEF MPI_Comm_split
<1>5. \A t \in Process : \E s \in Process : key[s] = t
  <2>1. OneToOne(key, Process)
    BY DEF OneToOne
  <2>2. \A t \in Process : Takes(key, Process, t)
    BY <1>1, <2>1, Onto
  <2>3. QED
    BY <2>2 DEF Takes
<1>6. h \in Bijection(S, 0..k-1)
  <2>1. h \in [S -> 0..k-1]
    <3>1. ASSUME NEW s \in S PROVE key[s] \in 0..k-1
      BY <1>1, <1>2
    <3>2. QED
      BY <3>1
  <2>2. \A s, t \in S : h[s] = h[t] => s = t
    OBVIOUS
  <2>3. ASSUME NEW t \in 0..k-1 PROVE \E s \in S : h[s] = t
    <3>1. t \in Process /\ t < k
      BY <1>1, <1>2
    <3>2. PICK s \in Process : key[s] = t
      BY <1>5, <3>1
    <3>3. s \in S
      BY <3>1, <3>2
    <3>4. QED
      BY <3>2, <3>3
  <2> HIDE DEF h, S
  <2>4. h \in Injection(S, 0..k-1)
    BY <2>1, <2>2 DEF Injection, IsInjective
  <2>5. h \in Surjection(S, 0..k-1)
    BY <2>1, <2>3 DEF Surjection
  <2>6. QED
    BY <2>4, <2>5 DEF Bijection
<1>7. Cardinality(S) = Cardinality(0..k-1)
  <2>1. IsFiniteSet(S)
    BY <1>1, FS_Subset
  <2>2. ExistsBijection(S, 0..k-1)
    <3> HIDE DEF h, S
    <3> QED BY <1>6 DEF ExistsBijection
  <2>3. QED
    <3> HIDE DEF S
    <3> QED BY <2>1, <2>2, FS_Bijection
<1>8. Cardinality(0..k-1) = k
  BY FS_Interval
<1>9. QED
  <2> HIDE DEF S
  <2> QED BY <1>2, <1>4, <1>7, <1>8

\* A swap is an order of all processes, each once, and gives each the key that
\* it has as a rank.
LEMMA SwapKeys ==
  ASSUME NEW n \in Nat, context.size = n, NEW o, IsSwap(o), {o[x] : x \in DOMAIN o} = DOMAIN o
  PROVE  /\ \A q \in Process : o[q] \in Process /\ position_in_final_communicator(o, q) = o[q]
         /\ \A q, s \in Process : o[q] = o[s] => q = s
<1>1. DOMAIN o = Process /\ \A q \in Process : o[o[q]] = q
  BY DEF IsSwap
<1>2. \A q \in Process : o[q] \in Process
  BY <1>1
<1>3. \A q, s \in Process : o[q] = o[s] => q = s
  BY <1>1
<1>4. ASSUME NEW q \in Process
      PROVE  position_in_final_communicator(o, q) = o[q]
  <2>1. o[q] \in DOMAIN o /\ o[o[q]] = q
    BY <1>1, <1>2
  <2>2. \A x \in DOMAIN o : o[x] = q => x = o[q]
    BY <1>1
  <2>3. QED
    BY <2>1, <2>2 DEF position_in_final_communicator
<1>5. QED
  BY <1>2, <1>3, <1>4

\* get_reordered_comm with a swap
LEMMA SwapRanks ==
  ASSUME NEW n \in Nat, context.size = n, NEW o, IsSwap(o), {o[x] : x \in DOMAIN o} = DOMAIN o,
         NEW s, get_reordered_comm(s, o), NEW q \in Process
  PROVE  new_rank'[s][q] = o[q]
<1> DEFINE Keys(garbage) == [x \in Process |-> IF x \in DOMAIN o
                                               THEN position_in_final_communicator(o, x)
                                               ELSE garbage[x]]
<1>1. PICK garbage :
        new_rank' = [t \in DOMAIN new_rank \cup {s} |->
                       IF t = s THEN MPI_Comm_split(Keys(garbage)) ELSE new_rank[t]]
  BY DEF get_reordered_comm
<1>2. PICK key : key = Keys(garbage)
  OBVIOUS
<1>3. DOMAIN o = Process
  BY DEF IsSwap
<1>4. key = [x \in Process |-> o[x]]
  BY <1>2, <1>3, SwapKeys
<1>5. key \in [Process -> Process] /\ \A x, y \in Process : key[x] = key[y] => x = y
  BY <1>4, SwapKeys
<1>6. MPI_Comm_split(key)[q] = o[q]
  BY <1>4, <1>5, SplitByRanks
<1>7. new_rank'[s] = MPI_Comm_split(key)
  <2> HIDE DEF Keys
  <2>1. PICK r : r = MPI_Comm_split(key)
    OBVIOUS
  <2>2. QED
    BY <1>1, <1>2, <2>1
<1>8. QED
  BY <1>6, <1>7

LEMMA SameRanks ==
  ASSUME RanksInv, UNCHANGED rank_vars
  PROVE  RanksInv'
BY DEF RanksInv, RanksAreOrder, IsSwap, Process, rank_vars, vars, greedy_vars

LEMMA ReorderKeeps ==
  ASSUME RanksInv, BothPermutations, Reorder
  PROVE  RanksInv'
<1>1. /\ greedy_pc = "done" /\ pc = "done" /\ context # NoContext /\ context \in Contexts
      /\ UNCHANGED <<pc, order, greedy_pc, greedy_order, context>>
  BY DEF Reorder, RanksInv, vars, greedy_vars
<1>2. PICK n \in Nat : context.size = n
  BY <1>1, ContextAssumption
<1> DEFINE Permutes(o) == {o[x] : x \in DOMAIN o} = DOMAIN o
<1>3. Permutes(order) /\ Permutes(greedy_order)
  BY <1>1 DEF BothPermutations, IsPermutation, Greedy!IsPermutation
<1>4. Process' = Process /\ (IsSwap(order)' <=> IsSwap(order))
                         /\ (IsSwap(greedy_order)' <=> IsSwap(greedy_order))
  BY <1>1 DEF IsSwap, Process
<1>5. ASSUME NEW s, NEW o, get_reordered_comm(s, o)
      PROVE  /\ s \in DOMAIN new_rank'
             /\ \A t : t # s => /\ t \in DOMAIN new_rank' <=> t \in DOMAIN new_rank
                                /\ t \in DOMAIN new_rank => new_rank'[t] = new_rank[t]
  <2>1. PICK r : new_rank' = [t \in DOMAIN new_rank \cup {s} |-> IF t = s THEN r ELSE new_rank[t]]
    BY <1>5 DEF get_reordered_comm
  <2>2. QED
    BY <2>1
<1>6. ASSUME NEW s, NEW o, NEW t, NEW e, get_reordered_comm(s, o), RanksAreOrder(t, e),
             s # t \/ (o = e /\ Permutes(o))
      PROVE  t \in DOMAIN new_rank' /\ IsSwap(e) => \A q \in Process : new_rank'[t][q] = e[q]
  <2>1. SUFFICES ASSUME t \in DOMAIN new_rank', IsSwap(e), NEW q \in Process
                 PROVE  new_rank'[t][q] = e[q]
    OBVIOUS
  <2>2. CASE s = t
    <3>1. o = e /\ Permutes(o)
      BY <1>6, <2>2
    <3>2. IsSwap(o) /\ get_reordered_comm(s, o)
      BY <1>6, <2>1, <3>1
    <3>3. new_rank'[s][q] = o[q]
      BY <1>2, <3>1, <3>2, SwapRanks
    <3>4. QED
      BY <2>2, <3>1, <3>3
  <2>3. CASE s # t
    BY <1>5, <1>6, <2>1, <2>3 DEF RanksAreOrder
  <2>4. QED
    BY <2>2, <2>3
<1> HIDE DEF Permutes
<1>7. PICK s, o : /\ get_reordered_comm(s, o)
                  /\ \/ s = "hungarian" /\ o = order
                     \/ s = "greedy" /\ o = greedy_order /\ "hungarian" \in DOMAIN new_rank
  BY DEF Reorder
<1>8. "hungarian" \in DOMAIN new_rank'
  BY <1>5, <1>7
<1>9. /\ RanksAreOrder("hungarian", order) /\ RanksAreOrder("greedy", greedy_order)
  BY DEF RanksInv
<1>10. "hungarian" \in DOMAIN new_rank' /\ IsSwap(order)
         => \A q \in Process : new_rank'["hungarian"][q] = order[q]
  <2>1. s # "hungarian" \/ (o = order /\ Permutes(o))
    BY <1>3, <1>7
  <2>2. QED
    BY <1>6, <1>7, <1>9, <2>1
<1>11. "greedy" \in DOMAIN new_rank' /\ IsSwap(greedy_order)
         => \A q \in Process : new_rank'["greedy"][q] = greedy_order[q]
  <2>1. s # "greedy" \/ (o = greedy_order /\ Permutes(o))
    BY <1>3, <1>7
  <2>2. QED
    BY <1>6, <1>7, <1>9, <2>1
<1>12. RanksAreOrder("hungarian", order)' /\ RanksAreOrder("greedy", greedy_order)'
  BY <1>1, <1>4, <1>10, <1>11 DEF RanksAreOrder
<1>13. QED
  BY <1>1, <1>8, <1>12 DEF RanksInv

\* The communicators are made when both orders are there.
LEMMA StrategiesKeep ==
  ASSUME RanksInv, HungarianStep \/ GreedyStep, UNCHANGED <<context, new_rank>>
  PROVE  RanksInv'
<1>1. new_rank = <<>> /\ new_rank' = <<>> /\ context' = context
  <2>1. greedy_pc # "done"
    BY DEF RanksInv, HungarianStep, GreedyStep, Step, StartRow, Scan, Augment, Order,
           Greedy!Step, Greedy!Choose, Greedy!Fill, Greedy!Extend
  <2>2. QED
    BY <2>1 DEF RanksInv
<1>2. greedy_pc' # "choose" => pc' = "done"
  <2>1. CASE HungarianStep
    <3>1. pc # "done" /\ greedy_pc' = greedy_pc
      BY <2>1 DEF HungarianStep, greedy_vars, Step, StartRow, Scan, Augment, Order
    <3>2. QED
      BY <3>1 DEF RanksInv
  <2>2. CASE GreedyStep
    BY <2>2 DEF GreedyStep, vars
  <2>3. QED
    BY <2>1, <2>2
<1>3. DOMAIN new_rank' = {}
  BY <1>1
<1>4. QED
  BY <1>1, <1>2, <1>3 DEF RanksInv, RanksAreOrder

\* What each process is given by the communicators
LEMMA RanksInvariance == RankSpec => [](BothPermutations /\ HungarianInv /\ GreedyInv /\ RanksInv)
<1>1. RankInit => RanksInv
  <2>1. SUFFICES ASSUME RankInit PROVE RanksInv
    OBVIOUS
  <2>2. new_rank = <<>> /\ greedy_pc = "choose" /\ (context # NoContext => context \in Contexts)
    BY <2>1 DEF RankInit, StartBoth, Greedy!Start
  <2>3. DOMAIN new_rank = {}
    BY <2>2
  <2>4. QED
    BY <2>2, <2>3 DEF RanksInv, RanksAreOrder
<1>2. RanksInv /\ BothPermutations /\ [RankNext]_rank_vars => RanksInv'
  BY SameRanks, ReorderKeeps, StrategiesKeep DEF RankNext, RankTerminating
<1>3. HungarianInv /\ GreedyInv => BothPermutations
  BY BothPermute
<1>4. QED
  BY <1>1, <1>2, <1>3, GreedyInvariance, PTL DEF RankSpec

\* On as many processes as the final grid has processors, all values that a
\* choice of columns keeps stay.
LEMMA AllStay ==
  ASSUME IsMatrix(matrix), rows =< cols, NEW f, \A x \in 0..rows-1 : f[x] \in 0..cols-1
  PROVE  Stays(f) = Kept(f)
<1>1. rows \in Nat /\ cols \in Nat /\ kept_rows = rows
  BY Costs DEF kept_rows
<1> DEFINE g == [r \in 1..rows |-> IF f[r - 1] < cols THEN matrix[r][f[r - 1] + 1] ELSE 0]
           h == [r \in 1..rows |-> matrix[r][f[r - 1] + 1]]
<1>2. \A r \in 1..rows : g[r] \in Int /\ g[r] = h[r]
  <2>1. SUFFICES ASSUME NEW r \in 1..rows PROVE g[r] \in Int /\ g[r] = h[r]
    OBVIOUS
  <2>2. r - 1 \in 0..rows-1 /\ f[r - 1] \in 0..cols-1
    BY <1>1
  <2>3. PICK c \in 0..cols-1 : c = f[r - 1]
    BY <2>2
  <2>4. c < cols /\ c + 1 \in Columns /\ matrix[r][c + 1] \in Int
    <3>1. c < cols /\ c + 1 \in Columns
      BY <1>1, <2>3 DEF Columns
    <3>2. max_val \in Nat /\ matrix[r][c + 1] \in 0..max_val
      BY <3>1, Costs
    <3>3. QED
      BY <3>1, <3>2
  <2>5. /\ g[r] = IF f[r - 1] < cols THEN matrix[r][f[r - 1] + 1] ELSE 0
        /\ h[r] = matrix[r][f[r - 1] + 1]
    OBVIOUS
  <2> HIDE DEF g, h
  <2>6. g[r] = matrix[r][c + 1] /\ h[r] = matrix[r][c + 1]
    BY <2>3, <2>4, <2>5
  <2>7. QED
    BY <2>4, <2>6
<1> HIDE DEF g, h
<1>3. SumTo(g, rows) = SumTo(h, rows)
  BY <1>1, <1>2, SumSame
<1>4. Stays(f) = SumTo(g, rows)
  BY DEF Stays, g
<1>5. Kept(f) = SumTo(h, rows)
  BY <1>1 DEF Kept, h
<1>6. QED
  BY <1>3, <1>4, <1>5

\* Where the order is a swap, the communicator does what it promises: the
\* Hungarian one leaves as many values in place as any could, and the greedy
\* one as many as its order keeps.
THEOREM SwapsAlwaysKeepMost == RankSpec => []SwapsKeepMost
<1>1. BothPermutations /\ HungarianInv /\ GreedyInv /\ RanksInv => SwapsKeepMost
  <2>1. SUFFICES ASSUME BothPermutations, HungarianInv, GreedyInv, RanksInv,
                        new_rank # <<>>, rows =< cols
                 PROVE  /\ IsSwap(order) => KeepsMost
                        /\ "greedy" \in DOMAIN new_rank /\ IsSwap(greedy_order) =>
                             Stays(new_rank["greedy"]) = Kept(greedy_order)
    BY DEF SwapsKeepMost
  <2>2. /\ context \in Contexts /\ pc = "done" /\ greedy_pc = "done"
        /\ "hungarian" \in DOMAIN new_rank
        /\ RanksAreOrder("hungarian", order) /\ RanksAreOrder("greedy", greedy_order)
    BY <2>1 DEF RanksInv
  <2>3. IsMatrix(matrix) /\ rows \in Nat \ {0} /\ cols \in Nat \ {0} /\ context.size \in Nat
    BY <2>1, <2>2, Costs, ContextAssumption DEF HungarianInv, HungarianTypeOK
  <2>4. order = [x \in 0..num_ranks-1 |-> IF x < cols THEN permutation[x] ELSE x]
    BY <2>1, <2>2 DEF HungarianInv, OrderInv
  <2>5. ASSUME NEW s, NEW o, DOMAIN o = 0..cols-1, s \in DOMAIN new_rank, IsSwap(o),
               RanksAreOrder(s, o), {o[x] : x \in DOMAIN o} = DOMAIN o
        PROVE  Process = 0..cols-1 /\ Stays(new_rank[s]) = Kept(o)
    <3>1. Process = 0..cols-1
      BY <2>5 DEF IsSwap
    <3>2. \A x \in 0..rows-1 : x \in 0..cols-1
      BY <2>1, <2>3
    <3>3. \A x \in 0..cols-1 : new_rank[s][x] = o[x] /\ o[x] \in 0..cols-1
      BY <2>5, <3>1 DEF RanksAreOrder
    <3>4. Stays(new_rank[s]) = Stays(o)
      <4>1. \A r \in 1..rows : r - 1 \in 0..rows-1
        BY <2>3
      <4>2. \A r \in 1..rows : new_rank[s][r - 1] = o[r - 1]
        BY <3>2, <3>3, <4>1
      <4>3. QED
        BY <4>2 DEF Stays
    <3>5. Stays(o) = Kept(o)
      BY <2>1, <2>3, <3>2, <3>3, AllStay
    <3>6. QED
      BY <3>1, <3>4, <3>5
  <2>6. DOMAIN order = 0..cols-1 /\ {order[x] : x \in DOMAIN order} = DOMAIN order
    BY <2>1, <2>2, <2>3, <2>4 DEF num_ranks, BothPermutations, IsPermutation
  <2>7. ASSUME IsSwap(order), NEW f \in Bijection(Process, Process)
        PROVE  Stays(f) =< Stays(new_rank["hungarian"])
    <3>1. Process = 0..cols-1 /\ Stays(new_rank["hungarian"]) = Kept(order)
      BY <2>2, <2>5, <2>6, <2>7
    <3>2. /\ \A x \in 0..cols-1 : f[x] \in 0..cols-1
          /\ \A x, y \in 0..cols-1 : f[x] = f[y] => x = y
      BY <2>7, <3>1 DEF Bijection, Injection, IsInjective
    <3>3. kept_rows = rows /\ \A x \in 0..rows-1 : x \in 0..cols-1
      BY <2>1, <2>3 DEF kept_rows
    <3> DEFINE g == [x \in 0..kept_rows-1 |-> f[x]]
    <3>4. g \in Injection(0..kept_rows-1, 0..cols-1)
      BY <3>2, <3>3 DEF Injection, IsInjective
    <3>5. Kept(g) =< Kept(order)
      <4> HIDE DEF g
      <4> QED BY <2>1, <2>2, <3>4, HungarianOptimal DEF Optimal
    <3>6. Kept(g) = Kept(f)
      <4>1. \A r \in 1..rows : r - 1 \in 0..kept_rows-1
        BY <2>3, <3>3
      <4>2. \A r \in 1..kept_rows : g[r - 1] = f[r - 1]
        BY <3>3, <4>1
      <4> HIDE DEF g
      <4>3. QED
        BY <4>2 DEF Kept
    <3>7. Stays(f) = Kept(f)
      BY <2>1, <2>3, <3>2, <3>3, AllStay
    <3> HIDE DEF g
    <3>8. QED
      BY <3>1, <3>5, <3>6, <3>7
  <2>8. ASSUME "greedy" \in DOMAIN new_rank, IsSwap(greedy_order)
        PROVE  Stays(new_rank["greedy"]) = Kept(greedy_order)
    <3>1. {greedy_order[x] : x \in DOMAIN greedy_order} = DOMAIN greedy_order
      BY <2>1, <2>2 DEF BothPermutations, Greedy!IsPermutation
    <3>2. greedy_order = [x \in 0..num_ranks-1 |-> IF x < cols THEN greedy_order[x] ELSE x]
      BY <2>1, <2>2 DEF GreedyInv
    <3>3. DOMAIN greedy_order = 0..cols-1
      BY <2>1, <2>3, <3>2 DEF num_ranks
    <3>4. QED
      BY <2>2, <2>5, <2>8, <3>1, <3>3
  <2>9. QED
    BY <2>7, <2>8 DEF KeepsMost
<1>2. QED
  BY <1>1, RanksInvariance, PTL
=============================================================================

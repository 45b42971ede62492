---------------------------- MODULE CommonLemmas ----------------------------
(***************************************************************************)
(* What the proofs of several components rest on: the least number         *)
(* principle for sets, which they use in place of an induction, sums and   *)
(* picks from finite sets, and the layouts that distributions build.       *)
(***************************************************************************)
EXTENDS Blocks, Sums, WellFoundedInduction, FiniteSetTheorems, TLAPS

\* A set of naturals has a least member.
LEMMA LeastNatural ==
  ASSUME NEW T, T \subseteq Nat, T # {}
  PROVE  \E n \in T : \A m \in T : n <= m
<1> DEFINE less == OpToRel(<, Nat)
<1>1. IsWellFoundedOn(less, Nat)
  BY NatLessThanWellFounded
<1>2. ASSUME NEW m \in T, NEW n \in T, m < n
      PROVE  <<m, n>> \in less
  BY <1>2 DEF OpToRel
<1> HIDE DEF less
<1>3. PICK n \in T : \A m \in T : ~(<<m, n>> \in less)
  BY <1>1, WFMin, Zenon
<1>4. ASSUME NEW m \in T PROVE n <= m
  <2>1. ~(m < n)
    BY <1>2, <1>3, Zenon
  <2>2. QED
    BY <2>1
<1>5. QED
  BY <1>4

\* And one of numbers up to a bound has a greatest.
LEMMA GreatestNatural ==
  ASSUME NEW b \in Nat, NEW T, T \subseteq 0..b, T # {}
  PROVE  \E n \in T : \A m \in T : m <= n
<1> DEFINE D == {b - t : t \in T}
<1>1. D \subseteq Nat /\ D # {}
  <2>1. PICK t \in T : TRUE
    OBVIOUS
  <2>2. b - t \in D
    BY <2>1
  <2>3. D \subseteq Nat
    OBVIOUS
  <2>4. QED
    BY <2>2, <2>3
<1>2. PICK d \in D : \A e \in D : d <= e
  <2> HIDE DEF D
  <2> QED BY <1>1, LeastNatural
<1>3. PICK n \in T : d = b - n
  OBVIOUS
<1>4. ASSUME NEW m \in T PROVE m <= n
  <2>1. b - n <= b - m
    BY <1>2, <1>3
  <2>2. QED
    BY <2>1
<1>5. QED
  BY <1>4
\* What holds of 0 and passes from each number to the next holds of all up to
\* a bound.
LEMMA UpTo ==
  ASSUME NEW n \in Nat, NEW T, 0 \in T, \A k \in 0..n-1 : k \in T => k + 1 \in T
  PROVE  \A k \in 0..n : k \in T
<1> DEFINE S == {k \in 0..n : k \notin T}
<1>1. SUFFICES ASSUME S # {} PROVE FALSE
  OBVIOUS
<1>2. PICK m \in S : \A k \in S : m <= k
  <2> HIDE DEF S
  <2>1. S \subseteq Nat
    BY DEF S
  <2>2. QED
    BY <1>1, <2>1, LeastNatural
<1>3. m \in 0..n /\ m \notin T /\ m # 0
  OBVIOUS
<1>4. m - 1 \in 0..n-1 /\ m - 1 \notin S
  BY <1>2, <1>3
<1>5. m - 1 \in T
  BY <1>4
<1>6. (m - 1) + 1 \in T
  BY <1>4, <1>5
<1>7. QED
  BY <1>3, <1>6

\* Division with remainder: the quotient and the remainder, and that there are
\* no other two.
LEMMA Division ==
  ASSUME NEW z \in Nat, NEW b \in Nat \ {0}
  PROVE  /\ z \div b \in Nat /\ z % b \in 0..b-1
         /\ z = (z \div b) * b + (z % b)
         /\ \A x \in Nat, y \in 0..b-1 : z = x * b + y => z \div b = x /\ z % b = y
<1> DEFINE q == z \div b
           r == z % b
<1>1. q \in Nat /\ r \in 0..b-1 /\ z = q * b + r
  OBVIOUS
<1> HIDE DEF q, r
<1>2. ASSUME NEW x \in Nat, NEW y \in 0..b-1, z = x * b + y
      PROVE  q = x /\ r = y
  <2>1. /\ x * b \in Nat /\ q * b \in Nat
        /\ (x + 1) * b = x * b + b /\ (q + 1) * b = q * b + b
    BY <1>1
  <2>2. ASSUME x < q PROVE FALSE
    <3>1. (x + 1) * b <= q * b
      BY <1>1, <2>2
    <3>2. QED
      BY <1>1, <1>2, <2>1, <3>1
  <2>3. ASSUME q < x PROVE FALSE
    <3>1. (q + 1) * b <= x * b
      BY <1>1, <2>3
    <3>2. QED
      BY <1>1, <1>2, <2>1, <3>1
  <2>4. q = x
    BY <1>1, <2>2, <2>3
  <2>5. QED
    BY <1>1, <1>2, <2>1, <2>4
<1>3. /\ q \in Nat /\ r \in 0..b-1 /\ z = q * b + r
      /\ \A x \in Nat, y \in 0..b-1 : z = x * b + y => q = x /\ r = y
  BY <1>1, <1>2
<1>4. QED
  BY <1>3, Zenon DEF q, r
-----------------------------------------------------------------------------
\* s[k] is the sum up to k, for every k up to n.
IsSum(s, f, n) == s = [k \in 0..n |-> IF k = 0 THEN 0 ELSE s[k-1] + f[k]]

\* There is one such function, ...
LEMMA SumExists ==
  ASSUME NEW f, NEW n \in Nat
  PROVE  \E s : IsSum(s, f, n)
<1> DEFINE T == {k \in Nat : ~\E s : IsSum(s, f, k)}
<1>1. SUFFICES ASSUME T # {} PROVE FALSE
  OBVIOUS
<1>2. PICK m \in T : \A k \in T : m <= k
  <2> HIDE DEF T
  <2>1. T \subseteq Nat
    BY DEF T
  <2>2. QED
    BY <1>1, <2>1, LeastNatural
<1>3. m \in Nat /\ ~\E s : IsSum(s, f, m)
  OBVIOUS
<1>4. CASE m = 0
  <2>1. IsSum([k \in 0..0 |-> 0], f, 0)
    BY DEF IsSum
  <2>2. QED
    BY <1>3, <1>4, <2>1
<1>5. CASE m # 0
  <2>1. m - 1 \in Nat /\ m - 1 \notin T
    BY <1>2, <1>3, <1>5
  <2>2. PICK s : IsSum(s, f, m - 1)
    BY <2>1
  <2> HIDE DEF T
  <2> DEFINE t == [k \in 0..m |-> IF k = m THEN s[m-1] + f[m] ELSE s[k]]
  <2>3. \A k \in 0..m-1 : s[k] = IF k = 0 THEN 0 ELSE s[k-1] + f[k]
    BY <2>2 DEF IsSum
  <2>4. ASSUME NEW k \in 0..m PROVE t[k] = IF k = 0 THEN 0 ELSE t[k-1] + f[k]
    BY <1>3, <1>5, <2>3
  <2>5. IsSum(t, f, m)
    BY <2>4 DEF IsSum
  <2>6. QED
    BY <1>3, <2>5
<1>6. QED
  BY <1>4, <1>5

\* ... and only one.
LEMMA SumUnique ==
  ASSUME NEW f, NEW n \in Nat, NEW l \in Nat, l <= n, NEW s, NEW t,
         IsSum(s, f, l), IsSum(t, f, n)
  PROVE  s[l] = t[l]
<1> DEFINE T == {k \in 0..l : s[k] # t[k]}
<1>1. SUFFICES ASSUME T # {} PROVE FALSE
  OBVIOUS
<1>2. PICK m \in T : \A k \in T : m <= k
  <2> HIDE DEF T
  <2>1. T \subseteq Nat
    BY DEF T
  <2>2. QED
    BY <1>1, <2>1, LeastNatural
<1>3. m \in 0..l /\ s[m] # t[m] /\ m \in 0..n
  OBVIOUS
<1>4. s[m] = IF m = 0 THEN 0 ELSE s[m-1] + f[m]
  BY <1>3 DEF IsSum
<1>5. t[m] = IF m = 0 THEN 0 ELSE t[m-1] + f[m]
  BY <1>3 DEF IsSum
<1>6. m # 0
  BY <1>3, <1>4, <1>5
<1>7. m - 1 \in 0..l /\ m - 1 \notin T
  BY <1>2, <1>3, <1>6
<1>8. s[m-1] = t[m-1]
  BY <1>7
<1>9. QED
  BY <1>3, <1>4, <1>5, <1>6, <1>8

LEMMA SumIs ==
  ASSUME NEW f, NEW n \in Nat
  PROVE  \E s : IsSum(s, f, n) /\ SumTo(f, n) = s[n]
<1> DEFINE s == CHOOSE s : IsSum(s, f, n)
<1>1. IsSum(s, f, n)
  BY SumExists
<1>2. SumTo(f, n) = s[n]
  BY DEF SumTo, IsSum
<1>3. QED
  BY <1>1, <1>2

\* The sum of nothing, and of one more
LEMMA SumStep ==
  ASSUME NEW f, NEW n \in Nat
  PROVE  /\ SumTo(f, 0) = 0
         /\ SumTo(f, n + 1) = SumTo(f, n) + f[n + 1]
<1>1. SumTo(f, 0) = 0
  <2>1. PICK s : IsSum(s, f, 0) /\ SumTo(f, 0) = s[0]
    BY SumIs
  <2>2. QED
    BY <2>1 DEF IsSum
<1>2. PICK s : IsSum(s, f, n) /\ SumTo(f, n) = s[n]
  BY SumIs
<1>3. PICK t : IsSum(t, f, n + 1) /\ SumTo(f, n + 1) = t[n + 1]
  BY SumIs
<1>4. t[n + 1] = t[n] + f[n + 1]
  BY <1>3 DEF IsSum
<1>5. s[n] = t[n]
  BY <1>2, <1>3, SumUnique
<1>6. QED
  BY <1>1, <1>2, <1>3, <1>4, <1>5

\* A property of naturals that has no least counterexample holds.
LEMMA SumInt ==
  ASSUME NEW f, NEW n \in Nat, \A x \in 1..n : f[x] \in Int
  PROVE  SumTo(f, n) \in Int
<1> DEFINE T == {k \in 0..n : SumTo(f, k) \notin Int}
<1>1. SUFFICES ASSUME T # {} PROVE FALSE
  OBVIOUS
<1>2. PICK m \in T : \A k \in T : m <= k
  <2> HIDE DEF T
  <2>1. T \subseteq Nat
    BY DEF T
  <2>2. QED
    BY <1>1, <2>1, LeastNatural
<1>3. m \in 0..n /\ SumTo(f, m) \notin Int
  OBVIOUS
<1>4. m # 0
  BY <1>3, SumStep
<1>5. m - 1 \in 0..n /\ m - 1 \notin T
  BY <1>2, <1>3, <1>4
<1>6. SumTo(f, m - 1) \in Int
  BY <1>5
<1>7. SumTo(f, m - 1 + 1) = SumTo(f, m - 1) + f[m - 1 + 1]
  BY <1>5, SumStep
<1>8. m - 1 + 1 = m /\ f[m] \in Int
  BY <1>3, <1>4
<1>9. QED
  BY <1>3, <1>6, <1>7, <1>8

\* What holds between the members of two pairs of sums holds between the sums.
LEMMA SumsCompare ==
  ASSUME NEW f, NEW g, NEW h, NEW e, NEW n \in Nat,
         \A x \in 1..n : f[x] \in Int /\ g[x] \in Int /\ h[x] \in Int /\ e[x] \in Int,
         \A x \in 1..n : f[x] + g[x] <= h[x] + e[x]
  PROVE  SumTo(f, n) + SumTo(g, n) <= SumTo(h, n) + SumTo(e, n)
<1> DEFINE T == {k \in 0..n : ~(SumTo(f, k) + SumTo(g, k) <= SumTo(h, k) + SumTo(e, k))}
<1>1. SUFFICES ASSUME T # {} PROVE FALSE
  OBVIOUS
<1>2. PICK m \in T : \A k \in T : m <= k
  <2> HIDE DEF T
  <2>1. T \subseteq Nat
    BY DEF T
  <2>2. QED
    BY <1>1, <2>1, LeastNatural
<1>3. m \in 0..n /\ ~(SumTo(f, m) + SumTo(g, m) <= SumTo(h, m) + SumTo(e, m))
  OBVIOUS
<1>4. m # 0
  <2>1. SumTo(f, 0) = 0 /\ SumTo(g, 0) = 0 /\ SumTo(h, 0) = 0 /\ SumTo(e, 0) = 0
    BY SumStep
  <2>2. QED
    BY <1>3, <2>1
<1>5. PICK l \in Nat : m = l + 1
  BY <1>3, <1>4
<1>6. l \in 0..n /\ l \notin T
  BY <1>2, <1>3, <1>5
<1>7. SumTo(f, l) + SumTo(g, l) <= SumTo(h, l) + SumTo(e, l)
  BY <1>6
<1>8. /\ SumTo(f, m) = SumTo(f, l) + f[m] /\ SumTo(g, m) = SumTo(g, l) + g[m]
      /\ SumTo(h, m) = SumTo(h, l) + h[m] /\ SumTo(e, m) = SumTo(e, l) + e[m]
  BY <1>5, SumStep
<1>9. /\ SumTo(f, l) \in Int /\ SumTo(g, l) \in Int /\ SumTo(h, l) \in Int /\ SumTo(e, l) \in Int
  <2>1. \A x \in 1..l : x \in 1..n
    BY <1>6
  <2>2. QED
    BY <2>1, SumInt
<1>10. m \in 1..n
  BY <1>3, <1>4
<1>11. f[m] \in Int /\ g[m] \in Int /\ h[m] \in Int /\ e[m] \in Int /\ f[m] + g[m] <= h[m] + e[m]
  BY <1>10
<1>12. QED
  BY <1>3, <1>7, <1>8, <1>9, <1>11

\* Changing one member changes the sum by as much.
LEMMA SumOther ==
  ASSUME NEW f, NEW g, NEW n \in Nat, NEW m \in 1..n,
         \A x \in 1..n : f[x] \in Int /\ g[x] \in Int,
         \A x \in 1..n : x # m => f[x] = g[x]
  PROVE  SumTo(f, n) + g[m] = SumTo(g, n) + f[m]
<1> DEFINE T == {k \in m..n : SumTo(f, k) + g[m] # SumTo(g, k) + f[m]}
           E == {k \in 0..m-1 : SumTo(f, k) # SumTo(g, k)}
<1>1. E = {}
  <2>1. SUFFICES ASSUME E # {} PROVE FALSE
    OBVIOUS
  <2>2. PICK j \in E : \A k \in E : j <= k
    <3> HIDE DEF E
    <3>1. E \subseteq Nat
      BY DEF E
    <3>2. QED
      BY <2>1, <3>1, LeastNatural
  <2>3. j \in 0..m-1 /\ SumTo(f, j) # SumTo(g, j)
    OBVIOUS
  <2>4. j # 0
    BY <2>3, SumStep
  <2>5. PICK l \in Nat : j = l + 1
    BY <2>3, <2>4
  <2>6. l \in 0..m-1 /\ l \notin E
    BY <2>2, <2>3, <2>5
  <2>7. SumTo(f, l) = SumTo(g, l)
    BY <2>6
  <2>8. f[j] = g[j]
    BY <2>3, <2>4
  <2>9. SumTo(f, j) = SumTo(f, l) + f[j] /\ SumTo(g, j) = SumTo(g, l) + g[j]
    BY <2>5, SumStep
  <2>10. QED
    BY <2>3, <2>7, <2>8, <2>9
<1>2. \A k \in 0..n : SumTo(f, k) \in Int /\ SumTo(g, k) \in Int
  <2>1. TAKE k \in 0..n
  <2>2. \A x \in 1..k : x \in 1..n
    OBVIOUS
  <2>3. QED
    BY <2>2, SumInt
<1>3. SUFFICES ASSUME T # {} PROVE FALSE
  OBVIOUS
<1>4. PICK j \in T : \A k \in T : j <= k
  <2> HIDE DEF T
  <2>1. T \subseteq Nat
    BY DEF T
  <2>2. QED
    BY <1>3, <2>1, LeastNatural
<1>5. j \in m..n /\ SumTo(f, j) + g[m] # SumTo(g, j) + f[m]
  OBVIOUS
<1>6. PICK l \in Nat : j = l + 1
  BY <1>5
<1>7. SumTo(f, j) = SumTo(f, l) + f[j] /\ SumTo(g, j) = SumTo(g, l) + g[j]
  BY <1>6, SumStep
<1>8. /\ SumTo(f, l) \in Int /\ SumTo(g, l) \in Int
      /\ f[m] \in Int /\ g[m] \in Int /\ f[j] \in Int /\ g[j] \in Int
  <2>1. l \in 0..n /\ j \in 1..n
    BY <1>5, <1>6
  <2>2. QED
    BY <1>2, <2>1
<1>9. CASE j = m
  <2>1. l \in 0..m-1
    BY <1>6, <1>9
  <2>2. SumTo(f, l) = SumTo(g, l)
    BY <1>1, <2>1
  <2>3. QED
    BY <1>5, <1>7, <1>8, <1>9, <2>2
<1>10. CASE j # m
  <2>1. l \in m..n /\ l \notin T
    BY <1>4, <1>5, <1>6, <1>10
  <2>2. SumTo(f, l) + g[m] = SumTo(g, l) + f[m]
    BY <2>1
  <2>3. f[j] = g[j]
    BY <1>5, <1>10
  <2>4. QED
    BY <1>5, <1>7, <1>8, <2>2, <2>3
<1>11. QED
  BY <1>9, <1>10

LEMMA SumSame ==
  ASSUME NEW f, NEW g, NEW n \in Nat, \A x \in 1..n : f[x] \in Int /\ f[x] = g[x]
  PROVE  SumTo(f, n) = SumTo(g, n)
<1>1. \A x \in 1..n : g[x] \in Int /\ f[x] + f[x] <= g[x] + g[x] /\ g[x] + g[x] <= f[x] + f[x]
  OBVIOUS
<1>2. SumTo(f, n) + SumTo(f, n) <= SumTo(g, n) + SumTo(g, n)
  BY <1>1, SumsCompare
<1>3. SumTo(g, n) + SumTo(g, n) <= SumTo(f, n) + SumTo(f, n)
  BY <1>1, SumsCompare
<1>4. SumTo(f, n) \in Int /\ SumTo(g, n) \in Int
  BY <1>1, SumInt
<1>5. QED
  BY <1>2, <1>3, <1>4

\* k different members of C, and what they weigh
Picks(f, C, k) ==
  /\ f \in [1..k -> C]
  /\ \A x, y \in 1..k : f[x] = f[y] => x = y
Along(w, f, k) == [x \in 1..k |-> w[f[x]]]

\* None that is not picked is lighter than one that is.
Lightest(w, g, C, k) ==
  /\ Picks(g, C, k)
  /\ \A x \in 1..k, d \in C : (\A y \in 1..k : g[y] # d) => w[g[x]] <= w[d]

\* What f has at m is nowhere among the first k of g.
Apart(f, m, g, k) == \A y \in 1..k : g[y] # f[m]

\* Of two picks that are as many there is a member of the first that the
\* second does not have, if the second has one that the first has not.
LEMMA Missed ==
  ASSUME NEW C, NEW f, NEW g, NEW k \in Nat, NEW n \in 1..k,
         Picks(f, C, k), Picks(g, C, k), Apart(g, n, f, k)
  PROVE  \E m \in 1..k : Apart(f, m, g, k)
<1> SUFFICES ASSUME \A m \in 1..k : ~Apart(f, m, g, k)
             PROVE  FALSE
  OBVIOUS
<1>1. \A m \in 1..k : \E y \in 1..k : g[y] = f[m]
  BY DEF Apart
<1> DEFINE S == 1..k
           T == 1..k \ {n}
           h == [m \in S |-> CHOOSE y \in S : g[y] = f[m]]
<1>2. ASSUME NEW m \in S PROVE h[m] \in T /\ g[h[m]] = f[m]
  <2>1. h[m] \in S /\ g[h[m]] = f[m]
    BY <1>1
  <2>2. h[m] # n
    BY <2>1 DEF Apart
  <2>3. QED
    BY <2>1, <2>2
<1>3. h \in [S -> T]
  <2>1. h = [m \in S |-> h[m]]
    OBVIOUS
  <2> HIDE DEF h
  <2>2. QED
    BY <1>2, <2>1
<1>4. IsFiniteSet(S) /\ Cardinality(S) = k /\ IsFiniteSet(T) /\ Cardinality(T) = k - 1
  <2>1. IsFiniteSet(S) /\ Cardinality(S) = k
    BY FS_Interval
  <2>2. n \in S /\ T = S \ {n}
    OBVIOUS
  <2> HIDE DEF S, T
  <2>3. QED
    BY <2>1, <2>2, FS_RemoveElement
<1>5. PICK x \in S, y \in S : x # y /\ h[x] = h[y]
  <2> HIDE DEF S, T, h
  <2>1. Cardinality(T) < Cardinality(S)
    BY <1>4
  <2>2. QED
    BY <1>3, <1>4, <2>1, FS_PigeonHole
<1>6. f[x] = f[y]
  <2> HIDE DEF h
  <2>1. QED
    BY <1>2, <1>5
<1>7. QED
  BY <1>5, <1>6 DEF Picks

\* Whoever picks the lightest has the least weight in all.
LEMMA LightestSum ==
  ASSUME NEW C, NEW w, \A c \in C : w[c] \in Int,
         NEW n \in Nat, NEW f0, NEW g0, Picks(f0, C, n), Lightest(w, g0, C, n)
  PROVE  SumTo(Along(w, g0, n), n) <= SumTo(Along(w, f0, n), n)
<1> DEFINE Worse(f, g, D, k) ==
             /\ Picks(f, D, k) /\ Lightest(w, g, D, k)
             /\ ~(SumTo(Along(w, g, k), k) <= SumTo(Along(w, f, k), k))
           T == {k \in Nat : \E D \in SUBSET C : \E f, g : Worse(f, g, D, k)}
<1>1. SUFFICES ASSUME T # {} PROVE FALSE
  <2>1. T = {} => ~Worse(f0, g0, C, n)
    OBVIOUS
  <2>2. QED
    BY <2>1
<1>2. PICK k \in T : \A m \in T : k <= m
  <2> HIDE DEF T
  <2>1. T \subseteq Nat
    BY DEF T
  <2>2. QED
    BY <1>1, <2>1, LeastNatural
<1>3. PICK D \in SUBSET C : \E f, g : Worse(f, g, D, k)
  OBVIOUS
<1>4. PICK f, g : Worse(f, g, D, k)
  BY <1>3
<1>5. k \in Nat /\ Picks(f, D, k) /\ Lightest(w, g, D, k) /\ Picks(g, D, k)
      /\ ~(SumTo(Along(w, g, k), k) <= SumTo(Along(w, f, k), k))
  BY <1>4 DEF Lightest
<1>6. \A h : Picks(h, D, k) =>
        /\ \A x \in 1..k : h[x] \in D /\ Along(w, h, k)[x] = w[h[x]] /\ w[h[x]] \in Int
        /\ SumTo(Along(w, h, k), k) \in Int
  <2>1. SUFFICES ASSUME NEW h, Picks(h, D, k)
                 PROVE  /\ \A x \in 1..k : h[x] \in D /\ Along(w, h, k)[x] = w[h[x]] /\ w[h[x]] \in Int
                        /\ SumTo(Along(w, h, k), k) \in Int
    OBVIOUS
  <2>2. \A x \in 1..k : h[x] \in D /\ Along(w, h, k)[x] = w[h[x]] /\ w[h[x]] \in Int
    BY <1>3, <2>1 DEF Picks, Along
  <2>3. QED
    BY <1>5, <2>2, SumInt
<1>7. k # 0
  <2>1. SumTo(Along(w, g, 0), 0) = 0 /\ SumTo(Along(w, f, 0), 0) = 0
    BY SumStep
  <2>2. QED
    BY <1>5, <2>1
<1>8. PICK l \in Nat : k = l + 1
  BY <1>5, <1>7
<1> DEFINE c == g[k]
<1>9. k \in 1..k /\ c \in D /\ w[c] \in Int /\ 1..l \subseteq 1..k /\ k \notin 1..l
      /\ \A x \in 1..k : x = k \/ x \in 1..l
  <2>1. k \in 1..k /\ 1..l \subseteq 1..k /\ k \notin 1..l /\ \A x \in 1..k : x = k \/ x \in 1..l
    BY <1>8
  <2>2. QED
    BY <1>5, <1>6, <2>1
<1> HIDE DEF c
<1>10. ASSUME NEW h, Picks(h, D, k), NEW m \in 1..k, h[m] = c
       PROVE  SumTo(Along(w, g, k), k) <= SumTo(Along(w, h, k), k)
  <2> DEFINE B == D \ {c}
             h1 == [x \in 1..l |-> IF x = m THEN h[k] ELSE h[x]]
             g1 == [x \in 1..l |-> g[x]]
  <2>1. Picks(h1, B, l)
    <3>1. \A x, y \in 1..k : h[x] = h[y] => x = y
      BY <1>10 DEF Picks
    <3>2. ASSUME NEW x \in 1..l PROVE h1[x] \in B
      <4>1. h[k] \in D /\ h[x] \in D /\ x \in 1..k /\ x # k
        BY <1>6, <1>9, <1>10
      <4>2. QED
        BY <1>9, <1>10, <3>1, <4>1
    <3>3. ASSUME NEW x \in 1..l, NEW y \in 1..l, h1[x] = h1[y] PROVE x = y
      <4>1. x \in 1..k /\ y \in 1..k /\ x # k /\ y # k
        BY <1>9
      <4>2. QED
        BY <1>9, <3>1, <3>3, <4>1
    <3>4. QED
      BY <3>2, <3>3 DEF Picks
  <2>2. Lightest(w, g1, B, l)
    <3>1. /\ \A x \in 1..k : g[x] \in D
          /\ \A x, y \in 1..k : g[x] = g[y] => x = y
          /\ \A x \in 1..k, d \in D : (\A y \in 1..k : g[y] # d) => w[g[x]] <= w[d]
      BY <1>5, <1>6 DEF Picks, Lightest
    <3>2. Picks(g1, B, l)
      <4>1. ASSUME NEW x \in 1..l PROVE g1[x] \in B
        <5>1. x \in 1..k /\ x # k
          BY <1>9
        <5>2. QED
          BY <1>9, <3>1, <5>1 DEF c
      <4>2. \A x, y \in 1..l : g1[x] = g1[y] => x = y
        BY <1>9, <3>1
      <4>3. QED
        BY <4>1, <4>2 DEF Picks
    <3>3. ASSUME NEW x \in 1..l, NEW d \in B, \A y \in 1..l : g1[y] # d
          PROVE  w[g1[x]] <= w[d]
      <4>1. \A y \in 1..k : g[y] # d
        BY <1>9, <3>3 DEF c
      <4>2. QED
        BY <1>9, <3>1, <4>1
    <3>4. QED
      BY <3>2, <3>3 DEF Lightest
  <2>3. SumTo(Along(w, g1, l), l) <= SumTo(Along(w, h1, l), l)
    <3>1. l \notin T
      BY <1>2, <1>8
    <3>2. B \in SUBSET C
      BY <1>3
    <3>3. ~Worse(h1, g1, B, l)
      <4> HIDE DEF B, h1, g1, Worse
      <4>1. QED
        BY <3>1, <3>2
    <3>4. QED
      BY <2>1, <2>2, <3>3
  <2>4. SumTo(Along(w, g, k), k) = SumTo(Along(w, g1, l), l) + w[c]
    <3>1. SumTo(Along(w, g, k), k) = SumTo(Along(w, g, k), l) + Along(w, g, k)[k]
      BY <1>8, SumStep
    <3>2. Along(w, g, k)[k] = w[c]
      BY <1>9 DEF Along, c
    <3>3. ASSUME NEW x \in 1..l
          PROVE  Along(w, g, k)[x] \in Int /\ Along(w, g, k)[x] = Along(w, g1, l)[x]
      <4>1. Along(w, g, k)[x] = w[g[x]] /\ w[g[x]] \in Int
        BY <1>5, <1>6, <1>9
      <4>2. Along(w, g1, l)[x] = w[g[x]]
        BY DEF Along
      <4>3. QED
        BY <4>1, <4>2
    <3>4. SumTo(Along(w, g, k), l) = SumTo(Along(w, g1, l), l)
      <4> HIDE DEF g1
      <4>1. QED
        BY <3>3, SumSame
    <3>5. QED
      BY <3>1, <3>2, <3>4
  <2>5. SumTo(Along(w, h, k), k) = SumTo(Along(w, h1, l), l) + w[c]
    <3>1. SumTo(Along(w, h, k), k) = SumTo(Along(w, h, k), l) + w[h[k]]
      <4>1. SumTo(Along(w, h, k), k) = SumTo(Along(w, h, k), l) + Along(w, h, k)[k]
        BY <1>8, SumStep
      <4>2. Along(w, h, k)[k] = w[h[k]]
        BY <1>9 DEF Along
      <4>3. QED
        BY <4>1, <4>2
    <3>2. ASSUME NEW x \in 1..l
          PROVE  /\ Along(w, h, k)[x] \in Int /\ Along(w, h, k)[x] = w[h[x]]
                 /\ Along(w, h1, l)[x] = IF x = m THEN w[h[k]] ELSE w[h[x]]
                 /\ Along(w, h1, l)[x] \in Int
      <4>1. Along(w, h, k)[x] = w[h[x]] /\ w[h[x]] \in Int /\ w[h[k]] \in Int
        BY <1>6, <1>9, <1>10
      <4>2. Along(w, h1, l)[x] = IF x = m THEN w[h[k]] ELSE w[h[x]]
        BY DEF Along
      <4>3. QED
        BY <4>1, <4>2
    <3> HIDE DEF h1
    <3>3. CASE m = k
      <4>1. \A x \in 1..l : Along(w, h, k)[x] = Along(w, h1, l)[x]
        BY <1>9, <3>2, <3>3
      <4>2. SumTo(Along(w, h, k), l) = SumTo(Along(w, h1, l), l)
        BY <3>2, <4>1, SumSame
      <4>3. QED
        BY <1>10, <3>1, <3>3, <4>2
    <3>4. CASE m # k
      <4>1. m \in 1..l
        BY <1>9, <3>4
      <4>2. SumTo(Along(w, h, k), l) + Along(w, h1, l)[m]
            = SumTo(Along(w, h1, l), l) + Along(w, h, k)[m]
        BY <3>2, <4>1, SumOther
      <4>3. Along(w, h1, l)[m] = w[h[k]] /\ Along(w, h, k)[m] = w[c]
        BY <1>10, <3>2, <4>1
      <4>4. QED
        BY <3>1, <4>2, <4>3
    <3>5. QED
      BY <3>3, <3>4
  <2>6. SumTo(Along(w, g1, l), l) \in Int /\ SumTo(Along(w, h1, l), l) \in Int
    <3>1. \A b \in B : w[b] \in Int
      BY <1>3
    <3>2. \A e : Picks(e, B, l) => SumTo(Along(w, e, l), l) \in Int
      <4>1. SUFFICES ASSUME NEW e, Picks(e, B, l) PROVE SumTo(Along(w, e, l), l) \in Int
        OBVIOUS
      <4>2. \A x \in 1..l : Along(w, e, l)[x] \in Int
        BY <3>1, <4>1 DEF Picks, Along
      <4>3. QED
        BY <4>2, SumInt
    <3> HIDE DEF B, h1, g1
    <3>3. QED
      BY <2>1, <2>2, <3>2 DEF Lightest
  <2> HIDE DEF h1, g1
  <2>7. QED
    BY <1>9, <2>3, <2>4, <2>5, <2>6
<1>11. CASE \E m \in 1..k : f[m] = c
  BY <1>5, <1>10, <1>11
<1>12. CASE \A m \in 1..k : f[m] # c
  <2>1. PICK m \in 1..k : \A y \in 1..k : g[y] # f[m]
    <3>1. Apart(g, k, f, k)
      BY <1>12 DEF Apart, c
    <3>2. k \in 1..k /\ k \in Nat /\ Picks(f, D, k) /\ Picks(g, D, k)
      BY <1>5, <1>9
    <3>3. \E m \in 1..k : Apart(f, m, g, k)
      <4> HIDE DEF T, Worse
      <4>1. QED
        BY <3>1, <3>2, Missed
    <3>4. QED
      BY <3>3 DEF Apart
  <2> DEFINE h == [f EXCEPT ![m] = c]
  <2>2. \A x \in 1..k : h[x] = IF x = m THEN c ELSE f[x]
    BY <1>5 DEF Picks
  <2>3. Picks(h, D, k)
    <3>1. h \in [1..k -> D]
      BY <1>5, <1>9 DEF Picks
    <3> HIDE DEF h
    <3>2. \A x, y \in 1..k : h[x] = h[y] => x = y
      BY <1>5, <1>12, <2>2 DEF Picks
    <3>3. QED
      BY <3>1, <3>2 DEF Picks
  <2> HIDE DEF h
  <2>4. h[m] = c
    BY <2>2
  <2>5. SumTo(Along(w, g, k), k) <= SumTo(Along(w, h, k), k)
    BY <1>10, <2>3, <2>4
  <2>6. SumTo(Along(w, h, k), k) + Along(w, f, k)[m] = SumTo(Along(w, f, k), k) + Along(w, h, k)[m]
    <3>1. \A x \in 1..k : Along(w, h, k)[x] \in Int /\ Along(w, f, k)[x] \in Int
      BY <1>5, <1>6, <2>3
    <3>2. \A x \in 1..k : x # m => Along(w, h, k)[x] = Along(w, f, k)[x]
      BY <2>2 DEF Along
    <3>3. QED
      BY <1>5, <3>1, <3>2, SumOther
  <2>7. Along(w, f, k)[m] = w[f[m]] /\ Along(w, h, k)[m] = w[c] /\ w[f[m]] \in Int /\ f[m] \in D
    BY <1>5, <1>6, <2>3, <2>4
  <2>8. w[c] <= w[f[m]]
    BY <1>5, <1>9, <2>1, <2>7 DEF Lightest, c
  <2>9. /\ SumTo(Along(w, g, k), k) \in Int /\ SumTo(Along(w, h, k), k) \in Int
        /\ SumTo(Along(w, f, k), k) \in Int
    BY <1>5, <1>6, <2>3
  <2>10. SumTo(Along(w, g, k), k) <= SumTo(Along(w, f, k), k)
    BY <1>9, <2>5, <2>6, <2>7, <2>8, <2>9
  <2>11. QED
    BY <1>5, <2>10
<1>13. QED
  BY <1>5, <1>11, <1>12
-----------------------------------------------------------------------------
\* Between finite sets of one size no two arguments share a value only if
\* every value is taken.
OneToOne(f, S) == \A x, y \in S : f[x] = f[y] => x = y
Takes(f, S, t) == \E x \in S : f[x] = t

LEMMA Onto ==
  ASSUME NEW S, NEW T, IsFiniteSet(S), IsFiniteSet(T), Cardinality(T) = Cardinality(S),
         NEW f, f \in [S -> T], OneToOne(f, S)
  PROVE  \A t \in T : Takes(f, S, t)
<1>1. SUFFICES ASSUME NEW t \in T, \A x \in S : f[x] # t PROVE FALSE
  BY DEF Takes
<1>2. f \in [S -> T \ {t}]
  BY <1>1
<1>3. IsFiniteSet(T \ {t}) /\ Cardinality(T \ {t}) = Cardinality(T) - 1 /\ Cardinality(T) \in Nat
  BY FS_RemoveElement, FS_CardinalityType
<1>4. PICK x \in S, y \in S : x # y /\ f[x] = f[y]
  <2>1. Cardinality(T \ {t}) < Cardinality(S)
    BY <1>3
  <2>2. QED
    BY <1>2, <1>3, <2>1, FS_PigeonHole
<1>5. QED
  BY <1>4 DEF OneToOne

\* The members of a finite set that a numbering r tells apart have the places
\* from 0 on in its order, each a different one.
LowerThan(r, B, c) == {d \in B : r[d] < r[c]}
Numbers(r, B) == \A c \in B : r[c] \in Int

LEMMA Ranking ==
  ASSUME NEW B, IsFiniteSet(B), NEW r, Numbers(r, B), OneToOne(r, B)
  PROVE  /\ Cardinality(B) \in Nat
         /\ \A c \in B : Cardinality(LowerThan(r, B, c)) \in 0..Cardinality(B)-1
         /\ \A k \in 0..Cardinality(B)-1 : \E c \in B : Cardinality(LowerThan(r, B, c)) = k
         /\ \A c, e \in B : Cardinality(LowerThan(r, B, c)) = Cardinality(LowerThan(r, B, e)) => c = e
<1> DEFINE n == Cardinality(B)
           h == [c \in B |-> Cardinality(LowerThan(r, B, c))]
<1>1. n \in Nat
  BY FS_CardinalityType
<1>2. ASSUME NEW c \in B
      PROVE  /\ IsFiniteSet(LowerThan(r, B, c)) /\ Cardinality(LowerThan(r, B, c)) \in Nat
             /\ Cardinality(LowerThan(r, B, c)) < n
  <2>1. LowerThan(r, B, c) \subseteq B \ {c}
    BY DEF LowerThan, Numbers
  <2>2. IsFiniteSet(B \ {c}) /\ Cardinality(B \ {c}) = n - 1
    BY FS_RemoveElement
  <2>3. IsFiniteSet(LowerThan(r, B, c)) /\ Cardinality(LowerThan(r, B, c)) <= n - 1
    BY <2>1, <2>2, FS_Subset
  <2>4. Cardinality(LowerThan(r, B, c)) \in Nat
    BY <2>3, FS_CardinalityType
  <2>5. QED
    BY <1>1, <2>3, <2>4
<1>3. ASSUME NEW c \in B, NEW e \in B, r[c] < r[e]
      PROVE  Cardinality(LowerThan(r, B, c)) < Cardinality(LowerThan(r, B, e))
  <2>1. LowerThan(r, B, c) \cup {c} \subseteq LowerThan(r, B, e) /\ c \notin LowerThan(r, B, c)
    <3>1. r[c] \in Int /\ r[e] \in Int /\ \A d \in B : r[d] \in Int
      BY DEF Numbers
    <3>2. \A d \in LowerThan(r, B, c) : d \in B /\ r[d] < r[e]
      BY <1>3, <3>1 DEF LowerThan
    <3>3. c \in LowerThan(r, B, e) /\ c \notin LowerThan(r, B, c)
      BY <1>3, <3>1 DEF LowerThan
    <3>4. \A d \in LowerThan(r, B, c) : d \in LowerThan(r, B, e)
      BY <3>2 DEF LowerThan
    <3>5. QED
      BY <3>3, <3>4
  <2>2. /\ IsFiniteSet(LowerThan(r, B, c)) /\ IsFiniteSet(LowerThan(r, B, e))
        /\ Cardinality(LowerThan(r, B, c)) \in Nat /\ Cardinality(LowerThan(r, B, e)) \in Nat
    BY <1>2
  <2>3. /\ IsFiniteSet(LowerThan(r, B, c) \cup {c})
        /\ Cardinality(LowerThan(r, B, c) \cup {c}) = Cardinality(LowerThan(r, B, c)) + 1
    BY <2>1, <2>2, FS_AddElement
  <2>4. Cardinality(LowerThan(r, B, c) \cup {c}) <= Cardinality(LowerThan(r, B, e))
    BY <2>1, <2>2, FS_Subset
  <2>5. QED
    BY <2>2, <2>3, <2>4
<1>4. ASSUME NEW c \in B, NEW e \in B, Cardinality(LowerThan(r, B, c)) = Cardinality(LowerThan(r, B, e))
      PROVE  c = e
  <2>1. Cardinality(LowerThan(r, B, c)) \in Nat /\ Cardinality(LowerThan(r, B, e)) \in Nat
    BY <1>2
  <2>2. ~(r[c] < r[e]) /\ ~(r[e] < r[c])
    <3>1. r[c] < r[e] => Cardinality(LowerThan(r, B, c)) < Cardinality(LowerThan(r, B, e))
      BY <1>3
    <3>2. r[e] < r[c] => Cardinality(LowerThan(r, B, e)) < Cardinality(LowerThan(r, B, c))
      BY <1>3
    <3>3. QED
      BY <1>4, <2>1, <3>1, <3>2
  <2>3. r[c] \in Int /\ r[e] \in Int
    BY DEF Numbers
  <2>4. r[c] = r[e]
    BY <2>2, <2>3
  <2>5. QED
    BY <2>4 DEF OneToOne
<1>5. \A c \in B : Cardinality(LowerThan(r, B, c)) \in 0..n-1
  BY <1>1, <1>2
<1>6. ASSUME NEW k \in 0..n-1 PROVE \E c \in B : Cardinality(LowerThan(r, B, c)) = k
  <2> DEFINE R == 0..n-1
  <2>1. IsFiniteSet(R) /\ Cardinality(R) = n /\ k \in R
    BY <1>1, FS_Interval
  <2>2. h \in [B -> R]
    BY <1>5
  <2>3. OneToOne(h, B)
    BY <1>4 DEF OneToOne
  <2> HIDE DEF h, R, n
  <2>4. Takes(h, B, k)
    BY <2>1, <2>2, <2>3, Onto DEF n
  <2>5. QED
    BY <2>4 DEF Takes, h
<1>7. QED
  BY <1>1, <1>4, <1>5, <1>6

LEMMA OneAtEach ==
  ASSUME NEW B, IsFiniteSet(B), NEW r, Numbers(r, B), OneToOne(r, B),
         NEW k \in 0..Cardinality(B)-1
  PROVE  \E c \in B : Cardinality(LowerThan(r, B, c)) = k
  BY Ranking

\* A finite set of numbers has one at every place in its order.
LEMMA Places ==
  ASSUME NEW B, B \subseteq Int, IsFiniteSet(B), NEW n \in Nat, Cardinality(B) = n,
         NEW k \in 0..n-1
  PROVE  \E c \in B : Cardinality({d \in B : d < c}) = k
<1> DEFINE r == [c \in B |-> c]
<1>1. (\A c \in B : r[c] \in Int) /\ OneToOne(r, B)
  BY DEF OneToOne
<1>2. \A c \in B : LowerThan(r, B, c) = {d \in B : d < c}
  BY DEF LowerThan
<1>3. OneToOne(r, B)
  BY <1>1
<1>4. Numbers(r, B)
  BY <1>1 DEF Numbers
<1> HIDE DEF r
<1>5. k \in 0..Cardinality(B)-1
  OBVIOUS
<1>6. IsFiniteSet(B)
  OBVIOUS
<1>7. \A j \in 0..Cardinality(B)-1 : \E c \in B : Cardinality(LowerThan(r, B, c)) = j
  BY ONLY <1>3, <1>4, <1>6, Ranking
<1>8. QED
  BY <1>2, <1>5, <1>7

\* A function with finitely many arguments has finitely many values.
LEMMA FiniteRange ==
  ASSUME NEW S, IsFiniteSet(S), NEW f, f = [x \in S |-> f[x]]
  PROVE  IsFiniteSet({f[x] : x \in S})
<1> DEFINE T == {f[x] : x \in S}
<1>1. f \in [S -> T]
  OBVIOUS
<1>2. \A t \in T : \E x \in S : f[x] = t
  OBVIOUS
<1>3. f \in Surjection(S, T)
  BY <1>1, <1>2 DEF Surjection
<1>4. QED
  BY <1>3, FS_Surjection

\* A finite set of numbers has a least member and a greatest one.
LEMMA Extremes ==
  ASSUME NEW B, B \subseteq Int, IsFiniteSet(B), B # {}
  PROVE  /\ \E b \in B : \A c \in B : b <= c
         /\ \E b \in B : \A c \in B : c <= b
<1>1. ASSUME NEW C, C \subseteq Int, IsFiniteSet(C), C # {}
      PROVE  \E b \in C : \A c \in C : b <= c
  <2>1. Cardinality(C) \in Nat /\ Cardinality(C) # 0
    BY <1>1, FS_CardinalityType, FS_EmptySet
  <2> DEFINE n == Cardinality(C)
  <2>2. PICK b \in C : Cardinality({d \in C : d < b}) = 0
    <3>1. n \in Nat /\ Cardinality(C) = n /\ 0 \in 0..n-1
      BY <2>1
    <3> HIDE DEF n
    <3>2. \A j \in 0..n-1 : \E b \in C : Cardinality({d \in C : d < b}) = j
      BY ONLY <1>1, <3>1, Places
    <3>3. QED
      BY <3>1, <3>2
  <2>3. IsFiniteSet({d \in C : d < b})
    BY <1>1, FS_Subset
  <2>4. {d \in C : d < b} = {}
    BY <2>2, <2>3, FS_EmptySet
  <2>5. QED
    BY <1>1, <2>4
<1> DEFINE f == [b \in B |-> 0 - b]
           D == {f[b] : b \in B}
<1>2. IsFiniteSet(D) /\ D \subseteq Int /\ D # {}
  <2>1. IsFiniteSet(D)
    BY FiniteRange
  <2>2. \A b \in B : f[b] \in Int
    OBVIOUS
  <2> HIDE DEF f
  <2>3. D \subseteq Int /\ D # {}
    BY <2>2
  <2>4. QED
    BY <2>1, <2>3
<1>3. PICK d \in D : \A c \in D : d <= c
  <2> HIDE DEF D, f
  <2> QED BY <1>1, <1>2, Zenon
<1>4. PICK b \in B : d = 0 - b
  OBVIOUS
<1>5. ASSUME NEW c \in B PROVE c <= b
  <2>1. 0 - c \in D
    OBVIOUS
  <2>2. 0 - b <= 0 - c
    <3> HIDE DEF D
    <3> QED BY <1>3, <1>4, <2>1
  <2>3. QED
    BY <2>2
<1>6. QED
  BY <1>1, <1>5

\* Two sets are as large as each other if a function between them is one to
\* one and onto.
LEMMA SameSize ==
  ASSUME NEW S, NEW T, IsFiniteSet(T), NEW f, f \in [S -> T], OneToOne(f, S),
         \A t \in T : Takes(f, S, t)
  PROVE  IsFiniteSet(S) /\ IsFiniteSet(T) /\ Cardinality(S) = Cardinality(T)
<1>1. f \in Injection(S, T) /\ f \in Surjection(S, T)
  BY DEF Injection, Surjection, IsInjective, OneToOne, Takes
<1>2. QED
  BY <1>1, FS_Injection
-----------------------------------------------------------------------------
\* s[k] is the product up to k, for every k up to n.
IsProduct(s, f, n) == s = [k \in 0..n |-> IF k = 0 THEN 1 ELSE s[k-1] * f[k]]

LEMMA ProductExists ==
  ASSUME NEW f, NEW n \in Nat
  PROVE  \E s : IsProduct(s, f, n)
<1> DEFINE T == {k \in 0..n : \E s : IsProduct(s, f, k)}
<1>1. 0 \in T
  <2>1. IsProduct([k \in 0..0 |-> 1], f, 0)
    BY DEF IsProduct
  <2>2. QED
    BY <2>1
<1>2. ASSUME NEW m \in 0..n-1, m \in T PROVE m + 1 \in T
  <2>1. PICK s : IsProduct(s, f, m)
    BY <1>2
  <2> DEFINE t == [k \in 0..m+1 |-> IF k = m + 1 THEN s[m] * f[m+1] ELSE s[k]]
  <2>2. \A k \in 0..m : s[k] = IF k = 0 THEN 1 ELSE s[k-1] * f[k]
    BY <2>1 DEF IsProduct
  <2>3. ASSUME NEW k \in 0..m+1 PROVE t[k] = IF k = 0 THEN 1 ELSE t[k-1] * f[k]
    BY <2>2
  <2>4. IsProduct(t, f, m + 1)
    BY <2>3 DEF IsProduct
  <2>5. QED
    BY <2>4
<1> HIDE DEF T
<1>3. n \in T
  BY <1>1, <1>2, UpTo
<1>4. QED
  BY <1>3 DEF T

LEMMA ProductUnique ==
  ASSUME NEW f, NEW g, NEW n \in Nat, NEW l \in Nat, l <= n, NEW s, NEW t,
         IsProduct(s, f, l), IsProduct(t, g, n), \A k \in 1..l : f[k] = g[k]
  PROVE  s[l] = t[l]
<1> DEFINE T == {k \in 0..l : s[k] = t[k]}
<1>1. /\ \A k \in 0..l : s[k] = IF k = 0 THEN 1 ELSE s[k-1] * f[k]
      /\ \A k \in 0..l : t[k] = IF k = 0 THEN 1 ELSE t[k-1] * g[k]
  BY DEF IsProduct
<1>2. 0 \in T
  BY <1>1
<1>3. ASSUME NEW m \in 0..l-1, m \in T PROVE m + 1 \in T
  <2>1. /\ m + 1 \in 0..l /\ m + 1 \in 1..l /\ m + 1 # 0 /\ (m + 1) - 1 = m
    OBVIOUS
  <2>2. s[m+1] = s[m] * f[m+1] /\ t[m+1] = t[m] * g[m+1]
    BY <1>1, <2>1
  <2>3. QED
    BY <1>3, <2>1, <2>2
<1> HIDE DEF T
<1>4. l \in T
  BY <1>2, <1>3, UpTo
<1>5. QED
  BY <1>4 DEF T

LEMMA ProductIs ==
  ASSUME NEW f, NEW n \in Nat
  PROVE  \E s : IsProduct(s, f, n) /\ ProductTo(f, n) = s[n]
<1> DEFINE s == CHOOSE s : IsProduct(s, f, n)
<1>1. IsProduct(s, f, n)
  BY ProductExists
<1>2. ProductTo(f, n) = s[n]
  BY DEF ProductTo, IsProduct
<1>3. QED
  BY <1>1, <1>2

\* The product of nothing, and of one more
LEMMA ProductStep ==
  ASSUME NEW f, NEW n \in Nat
  PROVE  /\ ProductTo(f, 0) = 1
         /\ ProductTo(f, n + 1) = ProductTo(f, n) * f[n + 1]
<1>1. ProductTo(f, 0) = 1
  <2>1. PICK s : IsProduct(s, f, 0) /\ ProductTo(f, 0) = s[0]
    BY ProductIs
  <2>2. QED
    BY <2>1 DEF IsProduct
<1>2. PICK s : IsProduct(s, f, n) /\ ProductTo(f, n) = s[n]
  BY ProductIs
<1>3. PICK t : IsProduct(t, f, n + 1) /\ ProductTo(f, n + 1) = t[n + 1]
  BY ProductIs
<1>4. t[n + 1] = t[n] * f[n + 1]
  BY <1>3 DEF IsProduct
<1>5. s[n] = t[n]
  BY <1>2, <1>3, ProductUnique
<1>6. QED
  BY <1>1, <1>2, <1>3, <1>4, <1>5

\* A product of positive numbers is one.
LEMMA ProductPositive ==
  ASSUME NEW f, NEW n \in Nat, \A x \in 1..n : f[x] \in Nat \ {0}
  PROVE  ProductTo(f, n) \in Nat \ {0}
<1> DEFINE T == {k \in 0..n : ProductTo(f, k) \in Nat \ {0}}
<1>1. 0 \in T
  BY ProductStep
<1>2. ASSUME NEW m \in 0..n-1, m \in T PROVE m + 1 \in T
  <2>1. m + 1 \in 1..n /\ m + 1 \in 0..n /\ m \in Nat
    OBVIOUS
  <2>2. ProductTo(f, m + 1) = ProductTo(f, m) * f[m + 1]
    BY <2>1, ProductStep
  <2>3. ProductTo(f, m) \in Nat \ {0} /\ f[m + 1] \in Nat \ {0}
    BY <1>2, <2>1
  <2>4. ProductTo(f, m) * f[m + 1] \in Nat \ {0}
    BY <2>3
  <2>5. QED
    BY <2>1, <2>2, <2>4
<1> HIDE DEF T
<1>3. \A m \in 0..n-1 : m \in T => m + 1 \in T
  BY <1>2
<1>4. \A m \in 0..n : m \in T
  BY <1>1, <1>3, UpTo, Zenon
<1>5. QED
  BY <1>4 DEF T

\* The first factor times the product of the others
LEMMA ProductFirst ==
  ASSUME NEW f, NEW g, NEW n \in Nat, \A x \in 1..n+1 : f[x] \in Int,
         \A x \in 1..n : g[x] = f[x + 1]
  PROVE  ProductTo(f, n + 1) = f[1] * ProductTo(g, n) /\ ProductTo(g, n) \in Int
<1> DEFINE T == {k \in 0..n : /\ ProductTo(f, k + 1) = f[1] * ProductTo(g, k)
                              /\ ProductTo(g, k) \in Int}
<1>1. 0 \in T
  <2>1. ProductTo(f, 0 + 1) = ProductTo(f, 0) * f[0 + 1] /\ ProductTo(f, 0) = 1
    BY ProductStep
  <2>2. ProductTo(g, 0) = 1
    BY ProductStep
  <2>3. f[1] \in Int
    OBVIOUS
  <2>4. QED
    BY <2>1, <2>2, <2>3
<1>2. ASSUME NEW m \in 0..n-1, m \in T PROVE m + 1 \in T
  <2>1. m + 1 \in 1..n /\ m + 1 \in 0..n /\ m \in Nat /\ m + 1 \in Nat /\ (m + 1) + 1 \in 1..n+1
    OBVIOUS
  <2>2. /\ ProductTo(f, (m + 1) + 1) = ProductTo(f, m + 1) * f[(m + 1) + 1]
        /\ ProductTo(g, m + 1) = ProductTo(g, m) * g[m + 1]
    BY <2>1, ProductStep
  <2>3. g[m + 1] = f[(m + 1) + 1] /\ f[(m + 1) + 1] \in Int /\ f[1] \in Int
    BY <2>1
  <2>4. ProductTo(f, m + 1) = f[1] * ProductTo(g, m) /\ ProductTo(g, m) \in Int
    BY <1>2
  <2>5. (f[1] * ProductTo(g, m)) * g[m + 1] = f[1] * (ProductTo(g, m) * g[m + 1])
    BY <2>3, <2>4
  <2>6. ProductTo(f, (m + 1) + 1) = f[1] * ProductTo(g, m + 1) /\ ProductTo(g, m + 1) \in Int
    BY <2>2, <2>3, <2>4, <2>5
  <2>7. QED
    BY <2>1, <2>6
<1> HIDE DEF T
<1>3. n \in T
  BY <1>1, <1>2, UpTo
<1>4. QED
  BY <1>3 DEF T

-----------------------------------------------------------------------------
(***************************************************************************)
(* The layouts that distributions build                                    *)
(***************************************************************************)
\* CeilDiv is the least number of blocks that hold all the values.
LEMMA CeilDivBounds ==
  ASSUME NEW n \in Nat \ {0}, NEW d \in Nat \ {0}
  PROVE  /\ CeilDiv(n, d) \in Nat /\ CeilDiv(n, d) >= 1
         /\ (CeilDiv(n, d) - 1) * d < n
         /\ n =< CeilDiv(n, d) * d
<1> DEFINE q == (n + d - 1) \div d
<1>1. q \in Int /\ d * q =< n + d - 1 /\ n + d - 1 < d * q + d
  OBVIOUS
<1> HIDE DEF q
<1>2. q >= 1
  <2> SUFFICES ASSUME q =< 0 PROVE FALSE
    BY <1>1
  <2>1. d * q =< 0
    BY <1>1
  <2> QED
    BY <1>1, <2>1
<1>3. (q - 1) * d = d * q - d /\ q * d = d * q
  BY <1>1
<1>4. CeilDiv(n, d) = q
  BY DEF CeilDiv, q
<1> QED
  BY <1>1, <1>2, <1>3, <1>4

\* Block boundaries grow with the index.
LEMMA Monotone ==
  ASSUME NEW j \in Int, NEW k \in Int, NEW d \in Nat, j =< k
  PROVE  j * d =< k * d
<1>1. (k - j) * d >= 0
  OBVIOUS
<1>2. (k - j) * d = k * d - j * d
  OBVIOUS
<1>3. j * d \in Int /\ k * d \in Int
  OBVIOUS
<1> QED
  BY <1>1, <1>2, <1>3

\* The blocks of a layout have bounds, and lie between its first and its
\* last bound in ascending order.
LEMMA LayoutBounds ==
  ASSUME NEW s, IsLayout(s)
  PROVE  /\ Len(s) \in Nat /\ Len(s) >= 1
         /\ First(s) \in Int /\ End(s) \in Int
         /\ \A k \in 1..Len(s) : /\ s[k] \in Block
                                 /\ s[k].left \in Int /\ s[k].right \in Int
                                 /\ s[k].owner \in Int
                                 /\ s[k].left < s[k].right
                                 /\ First(s) =< s[k].left
                                 /\ s[k].right =< End(s)
         /\ \A j, k \in 1..Len(s) : j < k => s[j].right =< s[k].left
         /\ \A k \in 1..Len(s)-1 : s[k].right = s[k+1].left
<1>1. s \in Seq(Block) /\ Len(s) \in Nat /\ Len(s) >= 1
  BY DEF IsLayout
<1>2. \A k \in 1..Len(s) : /\ s[k] \in Block
                           /\ s[k].left \in Int /\ s[k].right \in Int
                           /\ s[k].owner \in Int
                           /\ s[k].left < s[k].right
  BY <1>1 DEF Block
<1>3. First(s) \in Int /\ End(s) \in Int
  BY <1>1, <1>2 DEF First, End
<1>4. \A j, k \in 1..Len(s) : j < k => s[j].right =< s[k].left
  BY DEF IsLayout
<1>5. ASSUME NEW k \in 1..Len(s)
      PROVE  First(s) =< s[k].left /\ s[k].right =< End(s)
  <2>1. First(s) =< s[k].left
    <3>1. CASE k = 1
      BY <3>1, <1>2 DEF First
    <3>2. CASE k > 1
      <4>1. 1 \in 1..Len(s)
        BY <1>1
      <4>2. s[1].right =< s[k].left
        BY <4>1, <3>2, <1>4
      <4> QED
        BY <4>1, <4>2, <1>2 DEF First
    <3> QED
      BY <3>1, <3>2
  <2>2. s[k].right =< End(s)
    <3>1. CASE k = Len(s)
      BY <3>1, <1>2 DEF End
    <3>2. CASE k < Len(s)
      <4>1. Len(s) \in 1..Len(s)
        BY <1>1
      <4>2. s[k].right =< s[Len(s)].left
        BY <4>1, <3>2, <1>4
      <4> QED
        BY <4>1, <4>2, <1>2 DEF End
    <3> QED
      BY <3>1, <3>2
  <2> QED
    BY <2>1, <2>2
<1>6. \A k \in 1..Len(s)-1 : s[k].right = s[k+1].left
  BY DEF IsLayout
<1> QED
  BY <1>1, <1>2, <1>3, <1>4, <1>5, <1>6

\* create_blocks cuts [0, num_values) into blocks that follow one another,
\* none of them empty, each owned by one of the processors.
THEOREM CreateBlocksIsLayout ==
  ASSUME NEW num_values \in Nat \ {0}, NEW block_size \in Nat \ {0},
         NEW num_processors \in Nat \ {0}
  PROVE  LET s == create_blocks(num_values, block_size, num_processors)
         IN  /\ IsLayout(s)
             /\ First(s) = 0 /\ End(s) = num_values
             /\ \A k \in 1..Len(s) : s[k].owner \in 0..num_processors-1
<1> DEFINE num == CeilDiv(num_values, block_size)
           s == create_blocks(num_values, block_size, num_processors)
           Bound(k) == k * block_size
<1>1. /\ num \in Nat /\ num >= 1
      /\ Bound(num - 1) < num_values /\ num_values =< Bound(num)
  BY CeilDivBounds
<1>2. s = [k \in 1..num |->
             [left  |-> Bound(k-1),
              right |-> IF k = num THEN num_values ELSE Bound(k),
              owner |-> (k-1) % num_processors]]
  BY DEF create_blocks
<1>3. /\ \A k \in Int : Bound(k) \in Int /\ Bound(k-1) < Bound(k)
      /\ \A j, k \in Int : j =< k => Bound(j) =< Bound(k)
      /\ Bound(0) = 0
  <2>1. ASSUME NEW k \in Int
        PROVE  Bound(k) \in Int /\ Bound(k-1) < Bound(k)
    <3>1. (k - 1) * block_size = k * block_size - block_size
      OBVIOUS
    <3> QED
      BY <3>1
  <2>2. ASSUME NEW j \in Int, NEW k \in Int, j =< k
        PROVE  Bound(j) =< Bound(k)
    BY <2>2, Monotone
  <2> QED
    BY <2>1, <2>2
<1>4. \A k \in 1..num : (k-1) % num_processors \in 0..num_processors-1
  BY <1>1
<1> HIDE DEF num, s, Bound
<1>5. /\ DOMAIN s = 1..num /\ Len(s) = num
      /\ \A k \in 1..num :
           /\ s[k].left = Bound(k-1)
           /\ s[k].right = IF k = num THEN num_values ELSE Bound(k)
           /\ s[k].owner = (k-1) % num_processors
  BY <1>1, <1>2
<1>6. ASSUME NEW k \in 1..num
      PROVE  s[k] \in Block
  <2>1. k - 1 \in Int /\ Bound(k-1) \in Int /\ Bound(k) \in Int /\ Bound(k-1) < Bound(k)
    <3>1. k \in Int /\ k - 1 \in Int
      BY <1>1
    <3>2. Bound(k-1) \in Int
      BY <1>3, <3>1
    <3> QED
      BY <1>3, <3>1, <3>2
  <2>2. s[k] = [left  |-> Bound(k-1),
                right |-> IF k = num THEN num_values ELSE Bound(k),
                owner |-> (k-1) % num_processors]
    BY <1>2
  <2>3. (k-1) % num_processors \in Int
    BY <1>4
  <2> QED
    BY <1>1, <2>1, <2>2, <2>3 DEF Block
<1>7. s \in Seq(Block) /\ s # <<>>
  BY <1>1, <1>2, <1>5, <1>6
<1>8. \A k \in 1..num-1 : s[k].right = s[k+1].left
  BY <1>1, <1>5
<1>9. ASSUME NEW j \in 1..num, NEW k \in 1..num, j < k
      PROVE  s[j].right =< s[k].left
  <2>1. s[j].right = Bound(j) /\ s[k].left = Bound(k-1) /\ j =< k-1
    BY <1>1, <1>5, <1>9
  <2> QED
    BY <1>1, <1>3, <2>1
<1>10. IsLayout(s)
  BY <1>5, <1>7, <1>8, <1>9 DEF IsLayout
<1>11. First(s) = 0 /\ End(s) = num_values
  <2>1. 1 \in 1..num /\ num \in 1..num /\ 1 - 1 = 0
    BY <1>1
  <2>2. s[1].left = Bound(0)
    BY <1>5, <2>1
  <2>3. s[num].right = num_values
    BY <1>5, <2>1
  <2> QED
    BY <1>3, <1>5, <2>2, <2>3 DEF First, End
<1>12. \A k \in 1..Len(s) : s[k].owner \in 0..num_processors-1
  BY <1>4, <1>5
<1> QED
  BY <1>10, <1>11, <1>12 DEF s

\* The same of create_evenly_blocks, whose block size is never zero.
THEOREM CreateEvenlyBlocksIsLayout ==
  ASSUME NEW num_values \in Nat \ {0}, NEW num_processors \in Nat \ {0}
  PROVE  LET s == create_evenly_blocks(num_values, num_processors)
         IN  /\ IsLayout(s)
             /\ First(s) = 0 /\ End(s) = num_values
             /\ \A k \in 1..Len(s) : s[k].owner \in 0..num_processors-1
<1>1. CeilDiv(num_values, num_processors) \in Nat \ {0}
  BY CeilDivBounds
<1> QED
  BY <1>1, CreateBlocksIsLayout DEF create_evenly_blocks
=============================================================================

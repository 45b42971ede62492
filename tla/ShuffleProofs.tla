---------------------------- MODULE ShuffleProofs ----------------------------
(***************************************************************************)
(* That nobody waits in vain in shuffle(): AwaitedAreSent, for every       *)
(* program, any number of processes and dimensions, any two distributions  *)
(* of an array and any order of ranks.  A process sends to the owners of   *)
(* the blocks that it makes contiguous of its part of the overlay in final *)
(* coordinates, and counts the owners in the blocks that it makes          *)
(* contiguous of its part in initial coordinates.  The proof first shows   *)
(* what maps between indices and coordinates, products of lists and        *)
(* make_contiguous give (Grid), then that both sides come to the same      *)
(* pairs of processes (Destinations, Debtors), and last that ShuffleInv is *)
(* inductive.                                                              *)
(***************************************************************************)
EXTENDS Shuffle, CommonLemmas, SequenceTheorems

-----------------------------------------------------------------------------
(***************************************************************************)
(* Indices and digits                                                      *)
(***************************************************************************)
\* The numbers of places in some dimensions, each of which has one
IsShape(dims) == dims \in Seq(Nat \ {0})

\* The stride of a dimension is that of the next one times the places there;
\* before the first it is the number of all places.
LEMMA Strides ==
  ASSUME NEW dims, IsShape(dims)
  PROVE  /\ \A d \in 0..Len(dims) : Stride(dims, d) \in Nat \ {0}
         /\ \A d \in 1..Len(dims) : Stride(dims, d - 1) = dims[d] * Stride(dims, d)
         /\ Stride(dims, 0) = calc_total_num_values(dims)
         /\ Stride(dims, Len(dims)) = 1
<1> DEFINE n == Len(dims)
           Rest(d) == SubSeq(dims, d + 1, n)
<1>1. n \in Nat /\ DOMAIN dims = 1..n /\ \A d \in 1..n : dims[d] \in Nat \ {0}
  BY DEF IsShape
<1>2. ASSUME NEW d \in 0..n
      PROVE  /\ Len(Rest(d)) = n - d
             /\ \A x \in 1..n-d : Rest(d)[x] = dims[d + x]
  <2>1. CASE d = n
    <3>1. Rest(d) = <<>>
      BY <1>1, <2>1, SubSeqEmpty
    <3> HIDE DEF Rest
    <3>2. QED
      BY <1>1, <2>1, <3>1
  <2>2. CASE d < n
    <3> DEFINE m == d + 1
    <3>1. \A i \in m..n : dims[i] \in Nat
      BY <1>1
    <3>2. m \in Int /\ m <= n /\ n \in Int /\ Rest(d) = SubSeq(dims, m, n)
      BY <1>1, <2>2
    <3>3. /\ Len(Rest(d)) = IF m <= n THEN n - m + 1 ELSE 0
          /\ \A i \in 1..n-m+1 : Rest(d)[i] = dims[m + i - 1]
      <4> HIDE DEF m, n
      <4>1. QED
        BY <3>1, <3>2, SubSeqProperties
    <3>4. n - m + 1 = n - d
      BY <1>1
    <3>5. ASSUME NEW x \in 1..n-d PROVE Rest(d)[x] = dims[d + x]
      <4>1. x \in 1..n-m+1 /\ m + x - 1 = d + x
        BY <1>1
      <4> HIDE DEF Rest, m
      <4>2. QED
        BY <3>3, <4>1
    <3> HIDE DEF Rest, m
    <3>6. QED
      BY <3>2, <3>3, <3>4, <3>5
  <2>3. d = n \/ d < n
    <3>1. n \in Nat
      BY <1>1
    <3> HIDE DEF n
    <3>2. QED
      BY <3>1
  <2>4. QED
    BY <2>1, <2>2, <2>3, Zenon
<1>3. ASSUME NEW d \in 0..n
      PROVE  Stride(dims, d) = ProductTo(Rest(d), n - d) /\ Stride(dims, d) \in Nat \ {0}
  <2>1. Stride(dims, d) = ProductTo(Rest(d), n - d)
    BY <1>2 DEF Stride, calc_total_num_values
  <2>2. n - d \in Nat /\ \A x \in 1..n-d : Rest(d)[x] \in Nat \ {0}
    <3> HIDE DEF Rest
    <3>1. ASSUME NEW x \in 1..n-d PROVE Rest(d)[x] \in Nat \ {0}
      <4>1. d + x \in 1..n /\ Rest(d)[x] = dims[d + x]
        <5>1. d + x \in 1..n
          BY <1>1
        <5>2. QED
          BY <1>2, <5>1, Zenon
      <4>2. QED
        BY <1>1, <4>1
    <3>2. QED
      BY <1>1, <3>1
  <2> HIDE DEF Rest
  <2>3. ProductTo(Rest(d), n - d) \in Nat \ {0}
    BY <2>2, ProductPositive
  <2>4. QED
    BY <2>1, <2>3
<1>4. ASSUME NEW d \in 1..n PROVE Stride(dims, d - 1) = dims[d] * Stride(dims, d)
  <2> DEFINE f == Rest(d - 1)
             g == Rest(d)
             m == n - d
  <2>1. d - 1 \in 0..n /\ d \in 0..n /\ n - (d - 1) = m + 1 /\ m \in Nat /\ (d - 1) + 1 = d
    BY <1>1
  <2>2. /\ Stride(dims, d - 1) = ProductTo(f, m + 1)
        /\ Stride(dims, d) = ProductTo(g, m)
    <3>1. Stride(dims, d - 1) = ProductTo(Rest(d - 1), n - (d - 1))
      BY <2>1, <1>3
    <3>2. Stride(dims, d) = ProductTo(Rest(d), n - d)
      BY <2>1, <1>3
    <3> HIDE DEF Rest, n
    <3>3. QED
      BY <3>1, <3>2, <2>1
  <2>3. \A x \in 1..m+1 : f[x] = dims[(d - 1) + x]
    BY <2>1, <1>2
  <2>4. \A x \in 1..m : g[x] = dims[d + x]
    BY <2>1, <1>2
  <2> HIDE DEF f, g, Rest
  <2>5. \A x \in 1..m : g[x] = f[x + 1]
    BY <1>1, <2>1, <2>3, <2>4
  <2>6. \A x \in 1..m+1 : f[x] \in Int
    BY <1>1, <2>1, <2>3
  <2>7. f[1] = dims[d]
    BY <1>1, <2>1, <2>3
  <2> HIDE DEF m
  <2>8. ProductTo(f, m + 1) = f[1] * ProductTo(g, m)
    BY <2>1, <2>5, <2>6, ProductFirst
  <2>9. QED
    BY <2>2, <2>7, <2>8
<1>5. Stride(dims, 0) = calc_total_num_values(dims)
  <2>1. SubSeq(dims, 1, n) = dims
    BY DEF IsShape
  <2>2. SubSeq(dims, 0 + 1, Len(dims)) = dims
    BY <2>1
  <2>3. QED
    BY <2>2 DEF Stride
<1>6. Stride(dims, n) = 1
  <2>1. Stride(dims, n) = ProductTo(Rest(n), n - n) /\ n - n = 0
    BY <1>1, <1>3
  <2> HIDE DEF Rest, n
  <2>2. QED
    BY <2>1, ProductStep
<1> HIDE DEF Rest
<1>7. QED
  BY <1>3, <1>4, <1>5, <1>6

\* The terms of the sum that gives an index
Terms(c, dims) == [d \in DOMAIN dims |-> c[d] * Stride(dims, d)]

\* Within the digits of an index
Fits(c, dims) == \A d \in DOMAIN dims : c[d] \in 0..dims[d]-1

LEMMA IndexIsSum ==
  ASSUME NEW dims, IsShape(dims), NEW c, Fits(c, dims)
  PROVE  map_indices(c, dims) = SumTo(Terms(c, dims), Len(dims))
<1>1. \A d \in DOMAIN dims : c[d] # dims[d]
  BY DEF IsShape, Fits
<1>2. QED
  BY <1>1 DEF map_indices, Terms

LEMMA TermStep ==
  ASSUME NEW dims, IsShape(dims), NEW c, NEW d \in 0..Len(dims)-1
  PROVE  SumTo(Terms(c, dims), d + 1)
           = SumTo(Terms(c, dims), d) + c[d + 1] * Stride(dims, d + 1)
<1>1. Len(dims) \in Nat /\ DOMAIN dims = 1..Len(dims) /\ d \in Nat /\ d + 1 \in DOMAIN dims
  BY DEF IsShape
<1>2. Terms(c, dims)[d + 1] = c[d + 1] * Stride(dims, d + 1)
  BY <1>1 DEF Terms
<1>3. SumTo(Terms(c, dims), d + 1) = SumTo(Terms(c, dims), d) + Terms(c, dims)[d + 1]
  BY <1>1, SumStep
<1>4. QED
  BY <1>2, <1>3

\* To divide by two numbers is to divide by their product.
LEMMA DivideTwice ==
  ASSUME NEW z \in Nat, NEW a \in Nat \ {0}, NEW b \in Nat \ {0}
  PROVE  (z \div b) \div a = z \div (a * b)
<1> DEFINE q == z \div b
           r == z % b
           x == q \div a
           y == q % a
           ab == a * b
<1>1. q \in Nat /\ r \in 0..b-1 /\ z = q * b + r
  BY Division
<1>2. x \in Nat /\ y \in 0..a-1 /\ q = x * a + y
  <2> HIDE DEF q
  <2>1. QED
    BY <1>1, Division
<1>3. ab \in Nat \ {0}
  OBVIOUS
<1> HIDE DEF q, r, x, y
<1>4. (y * b) + r \in 0..ab-1
  <2>1. y * b <= (a - 1) * b /\ y * b \in Nat
    BY <1>2
  <2>2. (a - 1) * b = ab - b
    OBVIOUS
  <2> HIDE DEF ab
  <2>3. QED
    BY <1>1, <1>3, <2>1, <2>2
<1>5. z = (x * ab) + ((y * b) + r)
  <2>1. q * b = (x * a + y) * b
    BY <1>2
  <2>2. (x * a + y) * b = (x * a) * b + y * b
    BY <1>2
  <2>3. (x * a) * b = x * ab
    BY <1>2
  <2>4. y * b \in Int /\ x * ab \in Int
    BY <1>2
  <2> HIDE DEF ab
  <2>5. QED
    BY <1>1, <2>1, <2>2, <2>3, <2>4
<1>6. z \div ab = x
  <2> HIDE DEF ab
  <2> DEFINE w == (y * b) + r
  <2>1. w \in 0..ab-1 /\ z = x * ab + w
    BY <1>4, <1>5
  <2> HIDE DEF w
  <2>2. QED
    BY <1>2, <1>3, <2>1, Division
<1>7. QED
  BY <1>6 DEF q, x

\* An index is that of its digits.
LEMMA DigitsOfIndex ==
  ASSUME NEW dims, IsShape(dims), NEW k \in 0..calc_total_num_values(dims)-1
  PROVE  /\ map_index(k, dims) = [d \in DOMAIN dims |-> Digit(k, dims, d)]
         /\ Fits(map_index(k, dims), dims)
         /\ map_indices(map_index(k, dims), dims) = k
<1> DEFINE c == map_index(k, dims)
           n == Len(dims)
           total == calc_total_num_values(dims)
           S(d) == Stride(dims, d)
           h(d) == k \div S(d)
           Sum(d) == SumTo(Terms(c, dims), d)
<1>1. /\ n \in Nat /\ DOMAIN dims = 1..n /\ \A d \in 1..n : dims[d] \in Nat \ {0}
  BY DEF IsShape
<1>2. /\ \A d \in 0..n : S(d) \in Nat \ {0}
      /\ \A d \in 1..n : S(d - 1) = dims[d] * S(d)
      /\ S(0) = total /\ S(n) = 1
  BY Strides
<1>3. total \in Nat \ {0} /\ k \in Nat /\ k < total
  <2>1. S(0) \in Nat \ {0}
    BY <1>1, <1>2
  <2>2. QED
    BY <1>2, <2>1
<1>4. c = [d \in DOMAIN dims |-> Digit(k, dims, d)]
  BY <1>3 DEF map_index
<1>5. ASSUME NEW d \in 1..n
      PROVE  /\ h(d) \in Nat /\ c[d] = h(d) % dims[d] /\ c[d] \in 0..dims[d]-1
             /\ h(d) = h(d - 1) * dims[d] + c[d]
  <2>1. S(d) \in Nat \ {0} /\ dims[d] \in Nat \ {0} /\ S(d - 1) = dims[d] * S(d)
    BY <1>1, <1>2
  <2>2. h(d) \in Nat
    <3> DEFINE s == S(d)
    <3>1. s \in Nat \ {0}
      BY <2>1
    <3> HIDE DEF s
    <3>2. k \div s \in Nat
      BY <1>3, <3>1, Division
    <3>3. QED
      BY <3>2 DEF s
  <2>3. c[d] = h(d) % dims[d]
    BY <1>1, <1>4 DEF Digit
  <2>4. h(d - 1) = h(d) \div dims[d]
    <3>1. (k \div S(d)) \div dims[d] = k \div (dims[d] * S(d))
      BY <1>3, <2>1, DivideTwice
    <3>2. QED
      BY <2>1, <3>1
  <2> DEFINE q == h(d)
             a == dims[d]
  <2>5. q \in Nat /\ a \in Nat \ {0} /\ c[d] = q % a /\ h(d - 1) = q \div a
    BY <2>1, <2>2, <2>3, <2>4
  <2> HIDE DEF q, a, h, c
  <2>6. q % a \in 0..a-1 /\ q = (q \div a) * a + (q % a)
    BY <2>5, Division
  <2>7. q \in Nat /\ c[d] = q % a /\ c[d] \in 0..a-1 /\ q = h(d - 1) * a + c[d]
    BY <2>5, <2>6
  <2>8. QED
    BY <2>7 DEF q, a
<1>6. Fits(c, dims)
  BY <1>1, <1>5 DEF Fits
<1>7. h(0) = 0 /\ h(n) = k
  <2>1. k \div total = 0
    <3> DEFINE q == k \div total
               r == k % total
    <3>1. q \in Nat /\ r \in 0..total-1 /\ k = (q * total) + r
      BY <1>3, Division
    <3> HIDE DEF q, r, total
    <3>2. q >= 1 => q * total >= total
      BY <1>3, <3>1
    <3>3. q * total \in Nat
      BY <1>3, <3>1
    <3>4. q = 0
      BY <1>3, <3>1, <3>2, <3>3
    <3>5. QED
      BY <3>4 DEF q
  <2>2. k \div 1 = k
    BY <1>3
  <2>3. QED
    BY <1>2, <2>1, <2>2
<1> DEFINE T == {d \in 0..n : Sum(d) = h(d) * S(d)}
<1>8. 0 \in T
  <2>1. Sum(0) = 0
    BY SumStep
  <2>2. 0 * S(0) = 0
    BY <1>2, <1>3
  <2>3. QED
    BY <1>1, <1>7, <2>1, <2>2
<1>9. ASSUME NEW d \in 0..n-1, d \in T PROVE d + 1 \in T
  <2> DEFINE e == d + 1
             s == S(e)
             a == dims[e]
             x == h(d)
             y == c[e]
  <2>1. e \in 1..n /\ e \in 0..n /\ e - 1 = d /\ d \in 0..n
    BY <1>1
  <2>2. h(e) = h(e - 1) * a + y /\ y \in 0..a-1
    BY <1>5, <2>1
  <2>3. s \in Nat \ {0} /\ S(e - 1) = a * s /\ a \in Nat \ {0}
    BY <1>1, <1>2, <2>1
  <2>4. x \in Nat
    <3>1. S(d) \in Nat \ {0}
      BY <1>2, <2>1
    <3> DEFINE u == S(d)
    <3> HIDE DEF u
    <3>2. k \div u \in Nat
      BY <1>3, <3>1, Division DEF u
    <3>3. QED
      BY <3>2 DEF u
  <2>5. Sum(d) = x * S(d)
    BY <1>9
  <2>6. Sum(e) = Sum(d) + y * s
    <3>1. d \in 0..Len(dims)-1
      OBVIOUS
    <3> HIDE DEF c
    <3>2. SumTo(Terms(c, dims), d + 1) = SumTo(Terms(c, dims), d) + c[d + 1] * Stride(dims, d + 1)
      BY <3>1, TermStep
    <3>3. QED
      BY <3>2
  <2>7. h(e) = x * a + y /\ S(d) = a * s
    BY <2>1, <2>2, <2>3
  <2> HIDE DEF e, s, a, x, y, h, S, Sum, c
  <2>8. Sum(e) = (x * (a * s)) + (y * s)
    BY <2>5, <2>6, <2>7
  <2>9. (x * (a * s)) + (y * s) = ((x * a) + y) * s
    BY <2>2, <2>3, <2>4
  <2>10. Sum(e) = h(e) * S(e)
    BY <2>7, <2>8, <2>9 DEF s
  <2>11. QED
    BY <2>1, <2>10 DEF e
<1>10. n \in T
  <2> HIDE DEF T, n
  <2>1. \A d \in 0..n-1 : d \in T => d + 1 \in T
    BY <1>9
  <2>2. \A d \in 0..n : d \in T
    BY <1>1, <1>8, <2>1, UpTo, Zenon
  <2>3. QED
    BY <1>1, <2>2
<1>11. Sum(n) = k
  <2>1. Sum(n) = h(n) * S(n)
    BY <1>10
  <2> HIDE DEF h, S, Sum
  <2>2. QED
    BY <1>2, <1>3, <1>7, <2>1
<1>12. map_indices(c, dims) = k
  <2>1. map_indices(c, dims) = SumTo(Terms(c, dims), n)
    <3> HIDE DEF c
    <3>1. QED
      BY <1>6, IndexIsSum
  <2>2. QED
    BY <1>11, <2>1
<1>13. QED
  BY <1>4, <1>6, <1>12

\* Digits within their dimensions are those of one index.
LEMMA IndexOfDigits ==
  ASSUME NEW dims, IsShape(dims), NEW c, Fits(c, dims)
  PROVE  /\ map_indices(c, dims) \in 0..calc_total_num_values(dims)-1
         /\ \A d \in DOMAIN dims : Digit(map_indices(c, dims), dims, d) = c[d]
<1> DEFINE n == Len(dims)
           total == calc_total_num_values(dims)
           S(d) == Stride(dims, d)
           Sum(d) == SumTo(Terms(c, dims), d)
           k == map_indices(c, dims)
<1>1. /\ n \in Nat /\ DOMAIN dims = 1..n /\ \A d \in 1..n : dims[d] \in Nat \ {0}
  BY DEF IsShape
<1>2. /\ \A d \in 0..n : S(d) \in Nat \ {0}
      /\ \A d \in 1..n : S(d - 1) = dims[d] * S(d)
      /\ S(0) = total /\ S(n) = 1
  BY Strides
<1>3. \A d \in 1..n : c[d] \in 0..dims[d]-1
  BY <1>1 DEF Fits
<1>4. k = Sum(n)
  BY IndexIsSum
<1>5. ASSUME NEW d \in 0..n-1
      PROVE  /\ d + 1 \in 1..n /\ d \in 0..n /\ d + 1 \in 0..n
             /\ Sum(d + 1) = Sum(d) + c[d + 1] * S(d + 1)
             /\ S(d) = dims[d + 1] * S(d + 1)
             /\ S(d + 1) \in Nat \ {0} /\ dims[d + 1] \in Nat \ {0}
             /\ c[d + 1] \in 0..dims[d + 1]-1
  <2>1. d + 1 \in 1..n /\ d \in 0..n /\ d + 1 \in 0..n /\ (d + 1) - 1 = d
    BY <1>1
  <2>2. Sum(d + 1) = Sum(d) + c[d + 1] * S(d + 1)
    BY TermStep
  <2>3. S((d + 1) - 1) = dims[d + 1] * S(d + 1)
    BY <1>2, <2>1
  <2>4. S(d + 1) \in Nat \ {0}
    BY <1>2, <2>1
  <2> HIDE DEF S, Sum, n
  <2>5. QED
    BY <1>1, <1>3, <2>1, <2>2, <2>3, <2>4
<1>6. Sum(0) = 0
  BY SumStep
<1> HIDE DEF S, Sum, n, k, total
\* Up to a dimension the sum is a multiple of its stride.
<1> DEFINE T == {d \in 0..n : \E x \in Nat : Sum(d) = x * S(d)}
<1>7. ASSUME NEW d \in 0..n-1, NEW x \in Nat, Sum(d) = x * S(d)
      PROVE  Sum(d + 1) = ((x * dims[d + 1]) + c[d + 1]) * S(d + 1)
  <2> DEFINE s == S(d + 1)
             a == dims[d + 1]
             y == c[d + 1]
  <2>1. s \in Nat \ {0} /\ a \in Nat \ {0} /\ y \in 0..a-1 /\ S(d) = a * s
        /\ Sum(d + 1) = Sum(d) + y * s
    BY <1>5
  <2> HIDE DEF s, a, y
  <2>2. Sum(d + 1) = (x * (a * s)) + (y * s)
    BY <1>7, <2>1
  <2>3. (x * (a * s)) + (y * s) = ((x * a) + y) * s
    BY <2>1
  <2>4. QED
    BY <2>2, <2>3 DEF s, a, y
<1>8. \A d \in 0..n : d \in T
  <2>1. 0 \in T
    <3>1. 0 \in 0..n /\ S(0) \in Nat
      BY <1>1, <1>2
    <3>2. 0 * S(0) = 0
      BY <3>1
    <3>3. QED
      BY <1>6, <3>1, <3>2
  <2>2. ASSUME NEW d \in 0..n-1, d \in T PROVE d + 1 \in T
    <3>1. PICK x \in Nat : Sum(d) = x * S(d)
      BY <2>2
    <3>2. (x * dims[d + 1]) + c[d + 1] \in Nat
      BY <1>5
    <3>3. Sum(d + 1) = ((x * dims[d + 1]) + c[d + 1]) * S(d + 1)
      BY <1>7, <3>1
    <3>4. d + 1 \in 0..n
      BY <1>5
    <3>5. QED
      BY <3>2, <3>3, <3>4
  <2> HIDE DEF T
  <2>3. \A d \in 0..n-1 : d \in T => d + 1 \in T
    BY <2>2
  <2>4. QED
    BY <1>1, <2>1, <2>3, UpTo, Zenon
<1>9. \A d \in 0..n : Sum(d) \in Nat /\ S(d) \in Nat \ {0}
  <2>1. TAKE d \in 0..n
  <2>2. PICK x \in Nat : Sum(d) = x * S(d)
    BY <1>8
  <2>3. S(d) \in Nat \ {0}
    BY <1>2
  <2>4. QED
    BY <2>2, <2>3
\* What comes after a dimension stays below its stride.
<1>10. ASSUME NEW d \in 0..n
       PROVE  Sum(d) <= k /\ k - Sum(d) <= S(d) - 1
  <2> DEFINE U == {i \in 0..n-d : /\ Sum(d) <= Sum(d + i)
                                  /\ Sum(d + i) - Sum(d) <= S(d) - S(d + i)}
  <2>1. 0 \in U
    <3>1. d + 0 = d /\ 0 \in 0..n-d /\ Sum(d) \in Nat /\ S(d) \in Nat
      BY <1>1, <1>9
    <3>2. QED
      BY <3>1
  <2>2. ASSUME NEW i \in 0..(n-d)-1, i \in U PROVE i + 1 \in U
    <3> DEFINE j == d + i
    <3>1. j \in 0..n-1 /\ i + 1 \in 0..n-d /\ d + (i + 1) = j + 1 /\ j \in 0..n /\ j + 1 \in 0..n
      BY <1>1
    <3> DEFINE s == S(j + 1)
               a == dims[j + 1]
               y == c[j + 1]
               v == Sum(j)
               w == Sum(j + 1)
    <3>2. s \in Nat \ {0} /\ a \in Nat \ {0} /\ y \in 0..a-1 /\ S(j) = a * s /\ w = v + y * s
      BY <1>5, <3>1
    <3>3. Sum(d) <= v /\ v - Sum(d) <= S(d) - S(j)
      BY <2>2
    <3>4. Sum(d) \in Nat /\ v \in Nat /\ S(d) \in Nat /\ S(j) \in Nat /\ w \in Nat
      BY <1>9, <3>1
    <3> HIDE DEF s, a, y, v, w, j
    <3>5. y * s \in Nat /\ y * s <= (a - 1) * s
      BY <3>2
    <3>6. (a - 1) * s = (a * s) - s /\ a * s \in Nat
      BY <3>2
    <3>7. w - Sum(d) <= S(d) - s /\ Sum(d) <= w
      BY <3>2, <3>3, <3>4, <3>5, <3>6
    <3>8. QED
      BY <3>1, <3>7 DEF s, w
  <2>3. n - d \in U
    <3> DEFINE m == n - d
    <3>1. m \in Nat
      BY <1>1
    <3>2. \A i \in 0..m-1 : i \in U => i + 1 \in U
      BY <2>2
    <3> HIDE DEF U, m
    <3>3. \A i \in 0..m : i \in U
      BY <2>1, <3>1, <3>2, UpTo, Zenon
    <3>4. QED
      BY <3>1, <3>3 DEF m
  <2>4. d + (n - d) = n
    BY <1>1
  <2>5. Sum(d) <= Sum(n) /\ Sum(n) - Sum(d) <= S(d) - S(n)
    BY <2>3, <2>4
  <2>6. QED
    BY <1>2, <1>4, <2>5
<1>11. k \in 0..total-1
  <2>1. 0 \in 0..n /\ n \in 0..n
    BY <1>1
  <2>2. k - 0 <= total - 1 /\ k \in Nat /\ total \in Nat
    BY <1>2, <1>4, <1>6, <1>9, <1>10, <2>1
  <2>3. QED
    BY <2>2
<1>12. ASSUME NEW d \in 1..n PROVE Digit(k, dims, d) = c[d]
  <2> DEFINE e == d - 1
  <2>1. e \in 0..n-1 /\ e + 1 = d /\ e \in 0..n /\ d \in 0..n
    BY <1>1
  <2>2. PICK x \in Nat : Sum(e) = x * S(e)
    BY <1>8, <2>1
  <2> DEFINE s == S(d)
             a == dims[d]
             y == c[d]
             z == (x * a) + y
             t == k - Sum(d)
  <2>3. s \in Nat \ {0} /\ a \in Nat \ {0} /\ y \in 0..a-1
    BY <1>5, <2>1
  <2>4. Sum(d) = z * s
    BY <1>7, <2>1, <2>2
  <2>5. t \in 0..s-1 /\ k \in Nat
    <3>1. Sum(d) <= k /\ k - Sum(d) <= S(d) - 1
      BY <1>10, <2>1
    <3>2. Sum(d) \in Nat /\ k \in Nat
      BY <1>4, <1>9, <1>1, <2>1
    <3>3. QED
      BY <2>3, <3>1, <3>2
  <2>6. z \in Nat
    BY <2>3
  <2>7. k = (z * s) + t
    <3>1. Sum(d) \in Nat
      BY <1>9, <2>1
    <3> HIDE DEF z, s
    <3>2. QED
      BY <2>4, <2>5, <3>1
  <2>8. k \div s = z
    <3> HIDE DEF z, s, t
    <3>1. QED
      BY <2>3, <2>5, <2>6, <2>7, Division
  <2>9. z % a = y
    <3> HIDE DEF a, y, s, t
    <3>1. QED
      BY <2>3, <2>6, Division
  <2>10. Digit(k, dims, d) = (k \div s) % a
    BY DEF Digit, S
  <2>11. QED
    <3> HIDE DEF z, s, a
    <3>1. Digit(k, dims, d) = y
      BY <2>8, <2>9, <2>10
    <3>2. QED
      BY <3>1
<1>13. QED
  BY <1>1, <1>11, <1>12 DEF k, total
-----------------------------------------------------------------------------
(***************************************************************************)
(* Products of lists, and lists of what a set has                          *)
(***************************************************************************)
Among(x, v) == \E i \in 1..Len(v) : x = v[i]

\* Lists of something in n dimensions, and their tuples
Lists(vs, n) == n \in Nat /\ DOMAIN vs = 1..n /\ \A d \in 1..n : Len(vs[d]) \in Nat \ {0}
IsTuple(t, vs, n) == t = [d \in 1..n |-> t[d]] /\ \A d \in 1..n : Among(t[d], vs[d])

\* A list has places from 1 on.
IsList(s) == \E m \in Nat : DOMAIN s = 1..m

LEMMA CartesianProduct ==
  ASSUME NEW n, NEW vs, Lists(vs, n)
  PROVE  /\ IsList(get_cartesian_product(vs))
         /\ \A k \in DOMAIN get_cartesian_product(vs) :
              IsTuple(get_cartesian_product(vs)[k], vs, n)
         /\ \A t : IsTuple(t, vs, n) => \E k \in DOMAIN get_cartesian_product(vs) :
                                          get_cartesian_product(vs)[k] = t
<1> DEFINE P == get_cartesian_product(vs)
           L == [d \in DOMAIN vs |-> Len(vs[d])]
           total == calc_total_num_values(L)
<1>1. n \in Nat /\ DOMAIN vs = 1..n /\ \A d \in 1..n : Len(vs[d]) \in Nat \ {0}
  BY DEF Lists
<1>2. IsShape(L) /\ DOMAIN L = 1..n /\ \A d \in 1..n : L[d] = Len(vs[d])
  <2>1. L \in [1..n -> Nat \ {0}]
    BY <1>1
  <2>2. L \in Seq(Nat \ {0})
    BY <1>1, <2>1
  <2>3. QED
    BY <1>1, <2>2 DEF IsShape
<1> HIDE DEF L
<1>3. total \in Nat \ {0}
  <2>1. 0 \in 0..Len(L)
    BY <1>2 DEF IsShape
  <2>2. QED
    BY <1>2, <2>1, Strides
<1>4. P = [k \in 1..total |-> [d \in 1..n |-> vs[d][Digit(k - 1, L, d) + 1]]]
  BY <1>1 DEF get_cartesian_product, L
<1>5. DOMAIN P = 1..total
  BY <1>4
<1> HIDE DEF total, P
<1>6. ASSUME NEW k \in DOMAIN P PROVE IsTuple(P[k], vs, n)
  <2>1. P[k] = [d \in 1..n |-> vs[d][Digit(k - 1, L, d) + 1]]
    BY <1>4, <1>5
  <2>2. k - 1 \in 0..total-1
    BY <1>3, <1>5
  <2>3. /\ map_index(k - 1, L) = [d \in DOMAIN L |-> Digit(k - 1, L, d)]
        /\ Fits(map_index(k - 1, L), L)
    BY <1>2, <2>2, DigitsOfIndex DEF total
  <2>4. ASSUME NEW d \in 1..n PROVE Among(P[k][d], vs[d])
    <3>1. Digit(k - 1, L, d) \in 0..L[d]-1
      BY <1>2, <2>3 DEF Fits
    <3>2. Digit(k - 1, L, d) + 1 \in 1..Len(vs[d])
      BY <1>1, <1>2, <3>1
    <3>3. QED
      BY <2>1, <3>2 DEF Among
  <2>5. QED
    BY <2>1, <2>4 DEF IsTuple
<1>7. ASSUME NEW t, IsTuple(t, vs, n) PROVE \E k \in DOMAIN P : P[k] = t
  <2> DEFINE c == [d \in 1..n |-> (CHOOSE i \in 1..Len(vs[d]) : t[d] = vs[d][i]) - 1]
             k == map_indices(c, L)
  <2>1. ASSUME NEW d \in 1..n PROVE c[d] \in 0..L[d]-1 /\ t[d] = vs[d][c[d] + 1]
    <3>1. \E i \in 1..Len(vs[d]) : t[d] = vs[d][i]
      BY <1>7 DEF IsTuple, Among
    <3>2. PICK i \in 1..Len(vs[d]) : c[d] = i - 1 /\ t[d] = vs[d][i]
      BY <3>1
    <3> HIDE DEF c
    <3>3. QED
      BY <1>1, <1>2, <3>2
  <2> HIDE DEF c
  <2>2. Fits(c, L)
    BY <1>2, <2>1 DEF Fits
  <2>3. k \in 0..total-1 /\ \A d \in 1..n : Digit(k, L, d) = c[d]
    BY <1>2, <2>2, IndexOfDigits DEF total
  <2>4. k + 1 \in 1..total /\ (k + 1) - 1 = k
    BY <1>3, <2>3
  <2>5. P[k + 1] = [d \in 1..n |-> vs[d][Digit(k, L, d) + 1]]
    BY <1>4, <2>4
  <2>6. P[k + 1] = [d \in 1..n |-> t[d]]
    BY <2>1, <2>3, <2>5
  <2>7. QED
    BY <1>5, <1>7, <2>4, <2>6 DEF IsTuple
<1>8. IsList(P)
  BY <1>3, <1>5 DEF IsList
<1>9. QED
  BY <1>6, <1>7, <1>8 DEF P

\* The blocks of a set can be told apart by their right bounds.
RightsTell(B) ==
  /\ \A b \in B : b.right \in Int
  /\ \A b, c \in B : b.right = c.right => b = c

LEMMA RemoveDuplicates ==
  ASSUME NEW B, IsFiniteSet(B), RightsTell(B)
  PROVE  /\ Cardinality(B) \in Nat
         /\ remove_duplicates(B) = [k \in 1..Cardinality(B) |-> remove_duplicates(B)[k]]
         /\ Len(remove_duplicates(B)) = Cardinality(B)
         /\ \A k \in 1..Cardinality(B) : remove_duplicates(B)[k] \in B
         /\ \A b \in B : Among(b, remove_duplicates(B))
<1> DEFINE s == remove_duplicates(B)
           n == Cardinality(B)
           r == [b \in B |-> b.right]
           At(b) == Cardinality(LowerThan(r, B, b))
<1>1. Numbers(r, B)
  BY DEF Numbers, RightsTell
<1>2. OneToOne(r, B)
  BY DEF OneToOne, RightsTell
<1>3. \A b \in B : LowerThan(r, B, b) = {c \in B : Before(c, b)}
  BY DEF LowerThan, Before
<1>4. s = [k \in 1..n |-> CHOOSE b \in B : At(b) = k - 1]
  <2> DEFINE F(k) == CHOOSE b \in B : Cardinality({c \in B : Before(c, b)}) = k
             G(k) == CHOOSE b \in B : At(b) = k
  <2>1. \A k : F(k) = G(k)
    BY <1>3
  <2>2. s = [k \in 1..n |-> F(k - 1)]
    BY DEF remove_duplicates
  <2> HIDE DEF F, G
  <2>3. s = [k \in 1..n |-> G(k - 1)]
    BY <2>1, <2>2
  <2>4. QED
    BY <2>3 DEF G
<1> HIDE DEF r
<1>5. /\ n \in Nat
      /\ \A b \in B : At(b) \in 0..n-1
      /\ \A k \in 0..n-1 : \E b \in B : At(b) = k
      /\ \A b, c \in B : At(b) = At(c) => b = c
  BY <1>1, <1>2, Ranking
<1> HIDE DEF At, n, s
<1>6. ASSUME NEW k \in 1..n PROVE s[k] \in B /\ At(s[k]) = k - 1
  <2>1. k - 1 \in 0..n-1
    BY <1>5
  <2>2. QED
    BY <1>4, <1>5, <2>1
<1>7. Len(s) = n
  <2>1. s \in [1..n -> B]
    BY <1>4, <1>6
  <2>2. s \in Seq(B)
    BY <1>5, <2>1
  <2>3. QED
    BY <1>5, <2>1, <2>2
<1>8. ASSUME NEW b \in B PROVE Among(b, s)
  <2>1. At(b) + 1 \in 1..n /\ (At(b) + 1) - 1 = At(b)
    BY <1>5
  <2>2. s[At(b) + 1] \in B /\ At(s[At(b) + 1]) = At(b)
    BY <1>6, <2>1
  <2>3. s[At(b) + 1] = b
    BY <1>5, <2>2
  <2>4. QED
    BY <1>7, <2>1, <2>3 DEF Among
<1>9. s = [k \in 1..n |-> s[k]]
  BY <1>4
<1>10. QED
  BY <1>5, <1>6, <1>7, <1>8, <1>9 DEF s, n

\* What stands at some places of a list, in order, is all that stands there.
LEMMA WhatIsAtPlaces ==
  ASSUME NEW bs, IsList(bs), NEW S, S \subseteq DOMAIN bs
  PROVE  /\ Cardinality(S) \in Nat /\ (Cardinality(S) = 0 <=> S = {})
         /\ DOMAIN AtPlaces(bs, S) = 1..Cardinality(S)
         /\ \A k \in 1..Cardinality(S) : \E j \in S : AtPlaces(bs, S)[k] = bs[j]
         /\ \A j \in S : \E k \in 1..Cardinality(S) : AtPlaces(bs, S)[k] = bs[j]
<1> DEFINE n == Cardinality(S)
           r == [j \in S |-> j]
           At(j) == Cardinality(LowerThan(r, S, j))
<1>1. PICK m \in Nat : DOMAIN bs = 1..m
  BY DEF IsList
<1>2. IsFiniteSet(S)
  BY <1>1, FS_Interval, FS_Subset
<1>3. Numbers(r, S)
  BY <1>1 DEF Numbers
<1>4. OneToOne(r, S)
  BY DEF OneToOne
<1>5. \A j \in S : LowerThan(r, S, j) = {i \in S : i < j}
  BY DEF LowerThan
<1>6. \A k : Kth(S, k) = CHOOSE j \in S : At(j) = k
  BY <1>5 DEF Kth
<1> HIDE DEF r
<1>7. /\ n \in Nat
      /\ \A j \in S : At(j) \in 0..n-1
      /\ \A k \in 0..n-1 : \E j \in S : At(j) = k
      /\ \A i, j \in S : At(i) = At(j) => i = j
  BY <1>2, <1>3, <1>4, Ranking
<1>8. n = 0 <=> S = {}
  BY <1>2, FS_EmptySet
<1> HIDE DEF At, n
<1>9. ASSUME NEW k \in 1..n PROVE Kth(S, k - 1) \in S /\ At(Kth(S, k - 1)) = k - 1
  <2>1. k - 1 \in 0..n-1
    BY <1>7
  <2>2. QED
    BY <1>6, <1>7, <2>1
<1>10. ASSUME NEW j \in S PROVE At(j) + 1 \in 1..n /\ Kth(S, (At(j) + 1) - 1) = j
  <2>1. At(j) + 1 \in 1..n /\ (At(j) + 1) - 1 = At(j)
    BY <1>7
  <2>2. QED
    BY <1>7, <1>9, <2>1
<1>11. AtPlaces(bs, S) = [k \in 1..n |-> bs[Kth(S, k - 1)]]
  BY DEF AtPlaces, n
<1>12. QED
  BY <1>7, <1>8, <1>9, <1>10, <1>11 DEF n

\* Lists of multidimensional blocks, and those of a dimension
IsBlockList(bs, n) ==
  /\ n \in Nat
  /\ IsList(bs)
  /\ \A k \in DOMAIN bs : bs[k] = [d \in 1..n |-> bs[k][d]] /\ \A d \in 1..n : bs[k][d] \in Block
OfDimension(bs, d) == {bs[k][d] : k \in DOMAIN bs}
Told(bs, n) == \A d \in 1..n : RightsTell(OfDimension(bs, d))

\* Selections of a block of a list in each dimension
Selections(bs, n) == [1..n -> DOMAIN bs]

\* The coordinates of the owners of some blocks
Owners(bs) == {get_owner_coordinates(bs[k]) : k \in DOMAIN bs}

\* make_contiguous gives a block for every choice of an owner in each
\* dimension, and no other owners.
LEMMA MakeContiguous ==
  ASSUME NEW n, NEW bs, IsBlockList(bs, n), bs # <<>>, DOMAIN bs # {}, Told(bs, n)
  PROVE  LET r == make_contiguous(bs, n)
         IN  /\ IsList(r)
             /\ \A k \in DOMAIN r : /\ r[k] = [d \in 1..n |-> r[k][d]]
                                    /\ \A d \in 1..n : \E j \in DOMAIN bs :
                                         r[k][d].owner = bs[j][d].owner
             /\ \A c \in Selections(bs, n) : \E k \in DOMAIN r :
                  \A d \in 1..n : r[k][d].owner = bs[c[d]][d].owner
<1> DEFINE each == to_unidimensional_blocks(bs, n)
           vs == [d \in 1..n |-> ContiguousBlocks(each[d])]
           r == make_contiguous(bs, n)
<1>1. /\ n \in Nat
      /\ \A k \in DOMAIN bs : bs[k] = [d \in 1..n |-> bs[k][d]] /\ \A d \in 1..n : bs[k][d] \in Block
  BY DEF IsBlockList
<1>2. IsFiniteSet(DOMAIN bs)
  BY FS_Interval DEF IsBlockList, IsList
<1>3. ASSUME NEW d \in 1..n
      PROVE  /\ each[d] = remove_duplicates(OfDimension(bs, d))
             /\ IsFiniteSet(OfDimension(bs, d)) /\ RightsTell(OfDimension(bs, d))
             /\ OfDimension(bs, d) # {}
  <2> DEFINE f == [k \in DOMAIN bs |-> bs[k][d]]
  <2>1. ToSet(f) = OfDimension(bs, d)
    BY DEF ToSet, OfDimension
  <2>2. each[d] = remove_duplicates(ToSet(f))
    BY DEF to_unidimensional_blocks, unzip
  <2>3. {f[k] : k \in DOMAIN bs} = OfDimension(bs, d)
    BY DEF OfDimension
  <2>4. f = [k \in DOMAIN bs |-> f[k]]
    OBVIOUS
  <2> HIDE DEF f
  <2>5. IsFiniteSet(OfDimension(bs, d))
    BY <1>2, <2>3, <2>4, FiniteRange
  <2>6. OfDimension(bs, d) # {}
    BY DEF OfDimension
  <2>7. QED
    BY <2>1, <2>2, <2>5, <2>6 DEF Told
<1>4. ASSUME NEW d \in 1..n
      PROVE  /\ Len(vs[d]) \in Nat \ {0}
             /\ \A b : Among(b, vs[d]) => \E j \in DOMAIN bs : b.owner = bs[j][d].owner
             /\ \A j \in DOMAIN bs : \E b : Among(b, vs[d]) /\ b.owner = bs[j][d].owner
  <2> DEFINE B == OfDimension(bs, d)
             s == remove_duplicates(B)
             v == ContiguousBlocks(s)
             N1 == Cardinality(B)
  <2>1. vs[d] = v
    BY <1>3
  <2>2. /\ N1 \in Nat
        /\ s = [k \in 1..N1 |-> s[k]]
        /\ Len(s) = N1
        /\ \A k \in 1..N1 : s[k] \in B
        /\ \A b \in B : Among(b, s)
    <3> HIDE DEF B
    <3>1. IsFiniteSet(B) /\ RightsTell(B)
      BY <1>3 DEF B
    <3>2. QED
      BY <3>1, RemoveDuplicates
  <2>3. N1 # 0
    BY <1>3, <2>2, FS_EmptySet
  <2>4. \A b \in B : b \in Block /\ \E j \in DOMAIN bs : b = bs[j][d]
    BY <1>1 DEF OfDimension
  <2>5. \A j \in DOMAIN bs : bs[j][d] \in B
    BY DEF OfDimension
  <2> HIDE DEF B, s
  <2>6. DOMAIN v = 1..N1 /\ \A k \in 1..N1 : v[k].owner = s[k].owner
    <3>1. DOMAIN s = 1..N1
      BY <2>2
    <3>2. ASSUME NEW k \in 1..N1 PROVE v[k].owner = s[k].owner
      <4>1. s[k] \in Block
        BY <2>2, <2>4
      <4>2. s[k] \in [left : Int, right : Int, owner : Int]
        BY <4>1 DEF Block
      <4>3. PICK x : v[k] = MovedTo(s[k], x)
        BY <3>1 DEF ContiguousBlocks
      <4>4. QED
        BY <4>2, <4>3 DEF MovedTo
    <3>3. QED
      BY <3>1, <3>2 DEF ContiguousBlocks
  <2>7. Len(v) = N1
    <3>1. v = [k \in 1..N1 |-> v[k]]
      BY <2>2 DEF ContiguousBlocks
    <3> HIDE DEF v
    <3>2. v \in Seq({v[k] : k \in 1..N1})
      BY <2>2, <3>1
    <3>3. QED
      BY <2>2, <3>1, <3>2
  <2> HIDE DEF v, N1
  <2>8. ASSUME NEW b, Among(b, v) PROVE \E j \in DOMAIN bs : b.owner = bs[j][d].owner
    <3>1. PICK k \in 1..N1 : b = v[k]
      BY <2>7, <2>8 DEF Among
    <3>2. QED
      BY <2>2, <2>4, <2>6, <3>1
  <2>9. ASSUME NEW j \in DOMAIN bs PROVE \E b : Among(b, v) /\ b.owner = bs[j][d].owner
    <3>1. PICK k \in 1..N1 : bs[j][d] = s[k]
      BY <2>2, <2>5 DEF Among
    <3>2. Among(v[k], v) /\ v[k].owner = bs[j][d].owner
      BY <2>6, <2>7, <3>1 DEF Among
    <3>3. QED
      BY <3>2
  <2>10. QED
    BY <2>1, <2>2, <2>3, <2>7, <2>8, <2>9
<1>5. r = get_cartesian_product(vs)
  BY DEF make_contiguous
<1>6. Lists(vs, n)
  BY <1>1, <1>4 DEF Lists
<1> HIDE DEF vs
<1>7. /\ IsList(r)
      /\ \A k \in DOMAIN r : IsTuple(r[k], vs, n)
      /\ \A t : IsTuple(t, vs, n) => \E k \in DOMAIN r : r[k] = t
  BY <1>5, <1>6, CartesianProduct
<1> HIDE DEF r
<1>8. ASSUME NEW k \in DOMAIN r
      PROVE  /\ r[k] = [d \in 1..n |-> r[k][d]]
             /\ \A d \in 1..n : \E j \in DOMAIN bs : r[k][d].owner = bs[j][d].owner
  BY <1>4, <1>7 DEF IsTuple
<1>9. ASSUME NEW c \in Selections(bs, n)
      PROVE  \E k \in DOMAIN r : \A d \in 1..n : r[k][d].owner = bs[c[d]][d].owner
  <2> DEFINE t == [d \in 1..n |-> CHOOSE b : Among(b, vs[d]) /\ b.owner = bs[c[d]][d].owner]
  <2>1. ASSUME NEW d \in 1..n PROVE Among(t[d], vs[d]) /\ t[d].owner = bs[c[d]][d].owner
    <3>1. c[d] \in DOMAIN bs
      BY DEF Selections
    <3>2. \E b : Among(b, vs[d]) /\ b.owner = bs[c[d]][d].owner
      BY <1>4, <3>1
    <3>3. QED
      BY <3>2
  <2>2. t = [d \in 1..n |-> t[d]]
    OBVIOUS
  <2> HIDE DEF t
  <2>3. IsTuple(t, vs, n)
    BY <2>1, <2>2 DEF IsTuple
  <2>4. QED
    BY <1>7, <2>1, <2>3
<1>10. QED
  BY <1>7, <1>8, <1>9 DEF r

\* Two lists of blocks over the same places, closed under the choice of a
\* place in each dimension: the blocks of an overlay, seen from either side
IsPlan(X, Y, n) ==
  /\ IsBlockList(X, n) /\ IsBlockList(Y, n)
  /\ DOMAIN X = DOMAIN Y
  /\ Told(Y, n)
  /\ \A c \in Selections(X, n) : \E k \in DOMAIN X :
       \A d \in 1..n : X[k][d] = X[c[d]][d] /\ Y[k][d] = Y[c[d]][d]

\* The blocks that are made contiguous have the owners of the blocks that
\* they are made of: what one side owns goes to owners of the other side.
LEMMA WhoseBlocks ==
  ASSUME NEW n, NEW X, NEW Y, IsPlan(X, Y, n), NEW here
  PROVE  Owners(make_contiguous(AtPlaces(Y, BlocksOf(X, here)), n))
           = {get_owner_coordinates(Y[k]) : k \in BlocksOf(X, here)}
<1> DEFINE S == BlocksOf(X, here)
           bs == AtPlaces(Y, S)
           r == make_contiguous(bs, n)
<1>1. /\ n \in Nat /\ IsList(Y) /\ DOMAIN X = DOMAIN Y
      /\ \A k \in DOMAIN X : X[k] = [d \in 1..n |-> X[k][d]]
      /\ \A k \in DOMAIN X : Y[k] = [d \in 1..n |-> Y[k][d]] /\ \A d \in 1..n : Y[k][d] \in Block
  BY DEF IsPlan, IsBlockList
<1>2. S \subseteq DOMAIN Y
  BY <1>1 DEF BlocksOf
<1>3. /\ Cardinality(S) \in Nat /\ (Cardinality(S) = 0 <=> S = {})
      /\ DOMAIN bs = 1..Cardinality(S)
      /\ \A k \in 1..Cardinality(S) : \E j \in S : bs[k] = Y[j]
      /\ \A j \in S : \E k \in 1..Cardinality(S) : bs[k] = Y[j]
  <2> HIDE DEF S
  <2>1. QED
    BY <1>1, <1>2, WhatIsAtPlaces
<1>4. CASE S = {}
  <2>1. bs = <<>>
    BY <1>4, FS_EmptySet DEF AtPlaces
  <2>2. r = <<>>
    BY <2>1 DEF make_contiguous
  <2>3. QED
    BY <1>4, <2>2 DEF Owners
<1>5. CASE S # {}
  <2>1. DOMAIN bs # {} /\ bs # <<>>
    <3>1. Cardinality(S) \in Nat \ {0}
      BY <1>3, <1>5
    <3> HIDE DEF S, bs
    <3>2. 1 \in DOMAIN bs
      BY <1>3, <3>1
    <3>3. QED
      BY <3>2
  <2>2. IsBlockList(bs, n)
    <3> HIDE DEF S, bs
    <3>1. IsList(bs)
      BY <1>3 DEF IsList
    <3>2. ASSUME NEW k \in DOMAIN bs
          PROVE  bs[k] = [d \in 1..n |-> bs[k][d]] /\ \A d \in 1..n : bs[k][d] \in Block
      BY <1>1, <1>2, <1>3
    <3>3. QED
      BY <1>1, <3>1, <3>2 DEF IsBlockList
  <2>3. Told(bs, n)
    <3> HIDE DEF S, bs
    <3>1. ASSUME NEW d \in 1..n PROVE OfDimension(bs, d) \subseteq OfDimension(Y, d)
      BY <1>2, <1>3 DEF OfDimension
    <3>2. Told(Y, n)
      BY DEF IsPlan
    <3>3. QED
      BY <3>1, <3>2 DEF Told, RightsTell
  <2>4. /\ \A k \in DOMAIN r : /\ r[k] = [d \in 1..n |-> r[k][d]]
                               /\ \A d \in 1..n : \E j \in DOMAIN bs :
                                    r[k][d].owner = bs[j][d].owner
        /\ \A c \in Selections(bs, n) : \E k \in DOMAIN r :
             \A d \in 1..n : r[k][d].owner = bs[c[d]][d].owner
    <3> HIDE DEF S, bs
    <3>1. QED
      BY <2>1, <2>2, <2>3, MakeContiguous
  <2>5. PICK s \in S : TRUE
    BY <1>5
  <2>6. here = [d \in 1..n |-> here[d]] /\ \A k \in S : \A d \in 1..n : X[k][d].owner = here[d]
    <3>1. ASSUME NEW k \in S PROVE here = [d \in 1..n |-> X[k][d].owner]
      <4>1. k \in DOMAIN X /\ get_owner_coordinates(X[k]) = here
        BY DEF BlocksOf
      <4>2. DOMAIN X[k] = 1..n
        BY <1>1, <4>1
      <4>3. QED
        BY <4>1, <4>2 DEF get_owner_coordinates
    <3> HIDE DEF S
    <3>2. QED
      BY <2>5, <3>1
  <2>7. ASSUME NEW k \in DOMAIN r
        PROVE  \E i \in S : get_owner_coordinates(r[k]) = get_owner_coordinates(Y[i])
    <3> DEFINE c == [d \in 1..n |-> CHOOSE j \in S : r[k][d].owner = Y[j][d].owner]
    <3> HIDE DEF bs, r
    <3>1. ASSUME NEW d \in 1..n PROVE c[d] \in S /\ r[k][d].owner = Y[c[d]][d].owner
      <4> HIDE DEF S
      <4>1. PICK j \in DOMAIN bs : r[k][d].owner = bs[j][d].owner
        BY <2>4
      <4>2. PICK i \in S : bs[j] = Y[i]
        BY <1>3
      <4>3. \E h \in S : r[k][d].owner = Y[h][d].owner
        BY <4>1, <4>2
      <4>4. QED
        BY <4>3
    <3>2. c \in Selections(X, n)
      BY <1>1, <1>2, <3>1 DEF Selections
    <3> HIDE DEF c, S
    <3>3. PICK i \in DOMAIN X : \A d \in 1..n : X[i][d] = X[c[d]][d] /\ Y[i][d] = Y[c[d]][d]
      BY <3>2 DEF IsPlan
    <3>4. DOMAIN X[i] = 1..n /\ DOMAIN Y[i] = 1..n
      BY <1>1
    <3>5. get_owner_coordinates(X[i]) = [d \in 1..n |-> here[d]]
      BY <2>6, <3>1, <3>3, <3>4 DEF get_owner_coordinates
    <3>6. i \in S
      BY <2>6, <3>5 DEF S, BlocksOf
    <3>7. DOMAIN r[k] = 1..n
      BY <2>4
    <3>8. get_owner_coordinates(r[k]) = get_owner_coordinates(Y[i])
      BY <3>1, <3>3, <3>4, <3>7 DEF get_owner_coordinates
    <3>9. QED
      BY <3>6, <3>8
  <2>8. ASSUME NEW i \in S
        PROVE  \E k \in DOMAIN r : get_owner_coordinates(r[k]) = get_owner_coordinates(Y[i])
    <3> HIDE DEF bs, r, S
    <3>1. PICK j \in DOMAIN bs : bs[j] = Y[i]
      BY <1>3
    <3> DEFINE c == [d \in 1..n |-> j]
    <3>2. c \in Selections(bs, n) /\ \A d \in 1..n : c[d] = j
      BY DEF Selections
    <3> HIDE DEF c
    <3>3. PICK k \in DOMAIN r : \A d \in 1..n : r[k][d].owner = bs[c[d]][d].owner
      BY <2>4, <3>2
    <3>4. DOMAIN r[k] = 1..n /\ DOMAIN Y[i] = 1..n
      BY <1>1, <1>2, <2>4
    <3>5. \A d \in 1..n : r[k][d].owner = Y[i][d].owner
      BY <3>1, <3>2, <3>3
    <3>6. QED
      BY <3>4, <3>5 DEF get_owner_coordinates
  <2>9. Owners(r) = {get_owner_coordinates(Y[k]) : k \in S}
    <3> HIDE DEF r, S, bs
    <3>1. QED
      BY <2>7, <2>8 DEF Owners
  <2>10. QED
    BY <2>9
<1>6. QED
  BY <1>4, <1>5

-----------------------------------------------------------------------------
(***************************************************************************)
(* The overlay of two distributions of an array                            *)
(***************************************************************************)
\* The overlays of the blocks of two layouts
OverlaySet(a, b) ==
  {Overlay(p[1], p[2]) : p \in {q \in ToSet(a) \X ToSet(b) : ~is_disjoint(q[1], q[2])}}

IsOverlayOf(o, a, b) ==
  /\ o.left \in Int /\ o.right \in Int /\ o.left < o.right
  /\ \E j \in DOMAIN a : o.id_origin = a[j].owner
  /\ \E k \in DOMAIN b : o.id_target = b[k].owner

\* Two intervals that end no earlier than some value before which they begin
LEMMA BothHold ==
  ASSUME NEW v \in Int, NEW l \in Int, NEW r \in Int, NEW k \in Int, NEW s \in Int,
         l < v, v =< r, k < v, v =< s
  PROVE  ~(r =< k) /\ ~(s =< l)
OBVIOUS

LEMMA OverlaysOfLayouts ==
  ASSUME NEW a, NEW b, IsLayout(a), IsLayout(b), First(a) = First(b)
  PROVE  /\ IsFiniteSet(OverlaySet(a, b)) /\ OverlaySet(a, b) # {}
         /\ RightsTell(OverlaySet(a, b))
         /\ \A o \in OverlaySet(a, b) : IsOverlayOf(o, a, b)
<1> DEFINE P == {q \in ToSet(a) \X ToSet(b) : ~is_disjoint(q[1], q[2])}
           f == [p \in P |-> Overlay(p[1], p[2])]
<1>1. /\ DOMAIN a = 1..Len(a) /\ DOMAIN b = 1..Len(b)
      /\ Len(a) \in Nat \ {0} /\ Len(b) \in Nat \ {0}
  BY DEF IsLayout
<1>2. /\ \A j \in 1..Len(a) : a[j].left \in Int /\ a[j].right \in Int /\ a[j].left < a[j].right
      /\ \A j, k \in 1..Len(a) : j < k => a[j].right =< a[k].left
      /\ \A j \in 1..Len(b) : b[j].left \in Int /\ b[j].right \in Int /\ b[j].left < b[j].right
      /\ \A j, k \in 1..Len(b) : j < k => b[j].right =< b[k].left
  BY LayoutBounds
<1>3. IsFiniteSet(ToSet(a)) /\ IsFiniteSet(ToSet(b))
  <2>1. IsFiniteSet(DOMAIN a) /\ IsFiniteSet(DOMAIN b)
    BY <1>1, FS_Interval
  <2>2. a = [k \in DOMAIN a |-> a[k]] /\ b = [k \in DOMAIN b |-> b[k]]
    BY DEF IsLayout
  <2>3. QED
    BY <2>1, <2>2, FiniteRange DEF ToSet
<1>4. IsFiniteSet(P)
  BY <1>3, FS_Product, FS_Subset
<1>5. OverlaySet(a, b) = {f[p] : p \in P}
  BY DEF OverlaySet
<1>6. IsFiniteSet(OverlaySet(a, b))
  <2>1. f = [p \in P |-> f[p]]
    OBVIOUS
  <2> HIDE DEF f, P
  <2>2. QED
    BY <1>4, <1>5, <2>1, FiniteRange
<1>7. OverlaySet(a, b) # {}
  <2>1. 1 \in DOMAIN a /\ 1 \in DOMAIN b /\ a[1].left = b[1].left
    BY <1>1 DEF First
  <2>2. <<a[1], b[1]>> \in ToSet(a) \X ToSet(b)
    BY <2>1 DEF ToSet
  <2>3. ~is_disjoint(a[1], b[1])
    BY <1>1, <1>2, <2>1 DEF is_disjoint
  <2>4. <<a[1], b[1]>> \in P
    BY <2>2, <2>3
  <2> HIDE DEF P, f
  <2>5. QED
    BY <1>5, <2>4
\* Each overlay is that of a block of either, whose last value is in both.
<1>8. ASSUME NEW o \in OverlaySet(a, b)
      PROVE  \E j \in 1..Len(a), k \in 1..Len(b) :
               /\ o = Overlay(a[j], b[k])
               /\ o.left \in Int /\ o.right \in Int /\ o.left < o.right
               /\ a[j].left < o.right /\ o.right =< a[j].right
               /\ b[k].left < o.right /\ o.right =< b[k].right
  <2>1. PICK p \in P : o = Overlay(p[1], p[2])
    BY DEF OverlaySet
  <2>2. PICK j \in 1..Len(a), k \in 1..Len(b) : p[1] = a[j] /\ p[2] = b[k]
    BY <1>1, <2>1 DEF ToSet
  <2>3. o = Overlay(a[j], b[k]) /\ ~is_disjoint(a[j], b[k])
    BY <2>1, <2>2
  <2>4. o.left = Greatest(a[j].left, b[k].left) /\ o.right = Least(a[j].right, b[k].right)
    BY <2>3 DEF Overlay
  <2>5. a[j].left < b[k].right /\ b[k].left < a[j].right
    BY <1>2, <2>3 DEF is_disjoint
  <2>6. /\ o.left \in Int /\ o.right \in Int /\ o.left < o.right
        /\ a[j].left < o.right /\ o.right =< a[j].right
        /\ b[k].left < o.right /\ o.right =< b[k].right
    <3>1. /\ a[j].left \in Int /\ a[j].right \in Int /\ a[j].left < a[j].right
          /\ b[k].left \in Int /\ b[k].right \in Int /\ b[k].left < b[k].right
      BY <1>2
    <3>2. QED
      BY <2>4, <2>5, <3>1 DEF Greatest, Least
  <2>7. QED
    BY <2>3, <2>6, Zenon
<1>9. RightsTell(OverlaySet(a, b))
  <2>1. ASSUME NEW o \in OverlaySet(a, b), NEW p \in OverlaySet(a, b), o.right = p.right
        PROVE  o = p
    <3>1. PICK j \in 1..Len(a), k \in 1..Len(b) :
            /\ o = Overlay(a[j], b[k]) /\ o.right \in Int
            /\ a[j].left < o.right /\ o.right =< a[j].right
            /\ b[k].left < o.right /\ o.right =< b[k].right
      BY <1>8
    <3>2. PICK i \in 1..Len(a), l \in 1..Len(b) :
            /\ p = Overlay(a[i], b[l])
            /\ a[i].left < p.right /\ p.right =< a[i].right
            /\ b[l].left < p.right /\ p.right =< b[l].right
      BY <1>8
    <3>3. i = j
      <4>1. /\ a[i].left \in Int /\ a[i].right \in Int
            /\ a[j].left \in Int /\ a[j].right \in Int
            /\ i < j => a[i].right =< a[j].left
            /\ j < i => a[j].right =< a[i].left
        BY <1>2
      <4>2. /\ o.right \in Int
            /\ a[j].left < o.right /\ o.right =< a[j].right
            /\ a[i].left < o.right /\ o.right =< a[i].right
        BY <2>1, <3>1, <3>2
      <4>3. i \in Int /\ j \in Int
        OBVIOUS
      <4>4. ~(a[i].right =< a[j].left) /\ ~(a[j].right =< a[i].left)
        BY <4>1, <4>2, BothHold
      <4>5. ~(i < j) /\ ~(j < i)
        BY <4>1, <4>4
      <4>6. QED
        BY <4>3, <4>5
    <3>4. l = k
      <4>1. /\ b[l].left \in Int /\ b[l].right \in Int
            /\ b[k].left \in Int /\ b[k].right \in Int
            /\ l < k => b[l].right =< b[k].left
            /\ k < l => b[k].right =< b[l].left
        BY <1>2
      <4>2. /\ o.right \in Int
            /\ b[k].left < o.right /\ o.right =< b[k].right
            /\ b[l].left < o.right /\ o.right =< b[l].right
        BY <2>1, <3>1, <3>2
      <4>3. l \in Int /\ k \in Int
        OBVIOUS
      <4>4. ~(b[l].right =< b[k].left) /\ ~(b[k].right =< b[l].left)
        BY <4>1, <4>2, BothHold
      <4>5. ~(l < k) /\ ~(k < l)
        BY <4>1, <4>4
      <4>6. QED
        BY <4>3, <4>5
    <3>5. QED
      BY <3>1, <3>2, <3>3, <3>4
  <2>2. \A o \in OverlaySet(a, b) : o.right \in Int
    BY <1>8
  <2>3. QED
    BY <2>1, <2>2 DEF RightsTell
<1>10. ASSUME NEW o \in OverlaySet(a, b) PROVE IsOverlayOf(o, a, b)
  <2>1. PICK j \in 1..Len(a), k \in 1..Len(b) :
          o = Overlay(a[j], b[k]) /\ o.left \in Int /\ o.right \in Int /\ o.left < o.right
    BY <1>8
  <2>2. o.id_origin = a[j].owner /\ o.id_target = b[k].owner
    BY <2>1 DEF Overlay
  <2>3. QED
    BY <1>1, <2>1, <2>2 DEF IsOverlayOf
<1>11. QED
  BY <1>6, <1>7, <1>9, <1>10

\* Coordinates in a grid
Within(c, grid) == c = [d \in DOMAIN grid |-> c[d]] /\ Fits(c, grid)

\* The blocks of an overlay are a plan seen from either side, and their owners
\* are in the grids.
LEMMA OverlayIsPlan ==
  ASSUME NEW a, NEW b, IsDistribution(a), IsDistribution(b), SameArray(a, b),
         NEW X, X = OriginBlocks(GridOverlay(a, b)),
         NEW Y, Y = TargetBlocks(GridOverlay(a, b))
  PROVE  /\ Len(a.grid) \in Nat \ {0}
         /\ IsShape(a.grid) /\ DOMAIN a.grid = 1..Len(a.grid)
         /\ IsShape(b.grid) /\ DOMAIN b.grid = 1..Len(a.grid)
         /\ IsPlan(X, Y, Len(a.grid)) /\ IsPlan(Y, X, Len(a.grid))
         /\ \A k \in DOMAIN X : /\ Within(get_owner_coordinates(X[k]), a.grid)
                                /\ Within(get_owner_coordinates(Y[k]), b.grid)
<1> DEFINE n == Len(a.grid)
           o == GridOverlay(a, b)
           P == get_cartesian_product(o)
           B(d) == OverlaySet(a.layouts[d], b.layouts[d])
<1>1. /\ a.grid \in Seq(Nat \ {0}) /\ a.grid # <<>> /\ b.grid \in Seq(Nat \ {0})
      /\ DOMAIN a.layouts = DOMAIN a.grid /\ DOMAIN b.layouts = DOMAIN b.grid
      /\ n = Len(b.grid)
  BY DEF IsDistribution, SameArray
<1>2. n \in Nat \ {0} /\ DOMAIN a.grid = 1..n /\ DOMAIN b.grid = 1..n
  BY <1>1
<1>3. /\ \A d \in 1..n : IsLayout(a.layouts[d]) /\ IsLayout(b.layouts[d])
      /\ \A d \in 1..n : First(a.layouts[d]) = First(b.layouts[d])
      /\ \A d \in 1..n : \A k \in DOMAIN a.layouts[d] : a.layouts[d][k].owner \in 0..a.grid[d]-1
      /\ \A d \in 1..n : \A k \in DOMAIN b.layouts[d] : b.layouts[d][k].owner \in 0..b.grid[d]-1
  BY <1>2 DEF IsDistribution, SameArray
<1>4. o = [d \in 1..n |-> remove_duplicates(B(d))]
  BY <1>1, <1>2 DEF GridOverlay, get_blocks_overlay, BlocksOverlay, OverlaySet
<1> HIDE DEF n, o
<1>5. ASSUME NEW d \in 1..n
      PROVE  /\ Len(o[d]) \in Nat \ {0}
             /\ RightsTell(B(d))
             /\ \A x : Among(x, o[d]) => x \in B(d) /\ IsOverlayOf(x, a.layouts[d], b.layouts[d])
  <2> DEFINE D == B(d)
             s == remove_duplicates(D)
  <2>1. /\ IsFiniteSet(D) /\ D # {} /\ RightsTell(D)
        /\ \A x \in D : IsOverlayOf(x, a.layouts[d], b.layouts[d])
    BY <1>3, OverlaysOfLayouts
  <2>2. o[d] = s
    BY <1>4
  <2> HIDE DEF D
  <2>3. /\ Cardinality(D) \in Nat /\ Len(s) = Cardinality(D)
        /\ \A k \in 1..Cardinality(D) : s[k] \in D
    BY <2>1, RemoveDuplicates
  <2>4. Cardinality(D) # 0
    BY <2>1, FS_EmptySet
  <2> HIDE DEF s
  <2>5. \A x : Among(x, s) => x \in D
    BY <2>3 DEF Among
  <2>6. Len(o[d]) \in Nat \ {0}
    BY <2>2, <2>3, <2>4
  <2>7. \A x : Among(x, o[d]) => x \in D /\ IsOverlayOf(x, a.layouts[d], b.layouts[d])
    BY <2>1, <2>2, <2>5
  <2>8. QED
    BY <2>1, <2>6, <2>7 DEF D
<1>6. Lists(o, n)
  BY <1>2, <1>4, <1>5 DEF Lists
<1>7. /\ IsList(P)
      /\ \A k \in DOMAIN P : IsTuple(P[k], o, n)
      /\ \A t : IsTuple(t, o, n) => \E k \in DOMAIN P : P[k] = t
  BY <1>6, CartesianProduct
<1>8. /\ X = [k \in DOMAIN P |-> get_multidimensional_block_origin(P[k])]
      /\ Y = [k \in DOMAIN P |-> get_multidimensional_block_target(P[k])]
  BY DEF OriginBlocks, TargetBlocks, o
<1> HIDE DEF P, B
<1>9. ASSUME NEW k \in DOMAIN P
      PROVE  /\ P[k] = [d \in 1..n |-> P[k][d]]
             /\ \A d \in 1..n : /\ P[k][d] \in B(d)
                                /\ IsOverlayOf(P[k][d], a.layouts[d], b.layouts[d])
  BY <1>5, <1>7 DEF IsTuple
<1> DEFINE x(k, d) == [left |-> P[k][d].left, right |-> P[k][d].right,
                       owner |-> P[k][d].id_origin]
           y(k, d) == [left |-> P[k][d].left, right |-> P[k][d].right,
                       owner |-> P[k][d].id_target]
<1>10. ASSUME NEW k \in DOMAIN P
       PROVE  /\ X[k] = [d \in 1..n |-> X[k][d]] /\ Y[k] = [d \in 1..n |-> Y[k][d]]
              /\ \A d \in 1..n : X[k][d] = x(k, d) /\ Y[k][d] = y(k, d)
  <2>1. DOMAIN P[k] = 1..n
    BY <1>9
  <2>2. X[k] = [d \in 1..n |-> x(k, d)] /\ Y[k] = [d \in 1..n |-> y(k, d)]
    BY <1>8, <2>1 DEF get_multidimensional_block_origin, get_multidimensional_block_target
  <2> HIDE DEF x, y
  <2>3. QED
    BY <2>2
<1>11. DOMAIN X = DOMAIN P /\ DOMAIN Y = DOMAIN P
  BY <1>8
<1>12. ASSUME NEW k \in DOMAIN P, NEW d \in 1..n
       PROVE  /\ P[k][d].left \in Int /\ P[k][d].right \in Int /\ P[k][d].left < P[k][d].right
              /\ P[k][d].id_origin \in 0..a.grid[d]-1
              /\ P[k][d].id_target \in 0..b.grid[d]-1
  <2>1. IsOverlayOf(P[k][d], a.layouts[d], b.layouts[d])
    BY <1>9
  <2>2. /\ P[k][d].left \in Int /\ P[k][d].right \in Int /\ P[k][d].left < P[k][d].right
        /\ \E j \in DOMAIN a.layouts[d] : P[k][d].id_origin = a.layouts[d][j].owner
        /\ \E j \in DOMAIN b.layouts[d] : P[k][d].id_target = b.layouts[d][j].owner
    BY <2>1 DEF IsOverlayOf
  <2>3. QED
    BY <1>3, <2>2
<1>13. ASSUME NEW k \in DOMAIN P, NEW d \in 1..n
       PROVE  /\ X[k][d].left = P[k][d].left /\ X[k][d].right = P[k][d].right
              /\ X[k][d].owner = P[k][d].id_origin
              /\ Y[k][d].left = P[k][d].left /\ Y[k][d].right = P[k][d].right
              /\ Y[k][d].owner = P[k][d].id_target
  <2>1. X[k][d] = x(k, d) /\ Y[k][d] = y(k, d)
    BY <1>10
  <2>2. QED
    BY <2>1
<1>14. ASSUME NEW k \in DOMAIN P, NEW d \in 1..n
       PROVE  X[k][d] \in Block /\ Y[k][d] \in Block
  <2>1. a.grid[d] \in Int /\ b.grid[d] \in Int
    BY <1>1, <1>2
  <2>2. P[k][d].id_origin \in Int /\ P[k][d].id_target \in Int
    BY <1>12, <2>1
  <2>3. X[k][d] = x(k, d) /\ Y[k][d] = y(k, d)
    BY <1>10
  <2>4. P[k][d].left \in Int /\ P[k][d].right \in Int /\ P[k][d].left < P[k][d].right
    BY <1>12
  <2>5. QED
    BY <2>2, <2>3, <2>4 DEF Block
<1>15. IsBlockList(X, n) /\ IsBlockList(Y, n)
  <2>1. IsList(X) /\ IsList(Y)
    BY <1>7, <1>11 DEF IsList
  <2>2. \A k \in DOMAIN P : X[k] = [d \in 1..n |-> X[k][d]] /\ Y[k] = [d \in 1..n |-> Y[k][d]]
    BY <1>10
  <2>3. n \in Nat
    BY <1>2
  <2>4. QED
    BY <1>11, <1>14, <2>1, <2>2, <2>3 DEF IsBlockList
<1>16. Told(X, n) /\ Told(Y, n)
  <2>1. ASSUME NEW d \in 1..n, NEW j \in DOMAIN P, NEW k \in DOMAIN P, P[j][d].right = P[k][d].right
        PROVE  P[j][d] = P[k][d]
    <3>1. P[j][d] \in B(d) /\ P[k][d] \in B(d) /\ RightsTell(B(d))
      BY <1>5, <1>9
    <3>2. QED
      BY <2>1, <3>1 DEF RightsTell
  <2>2. ASSUME NEW d \in 1..n PROVE RightsTell(OfDimension(X, d))
    <3>1. ASSUME NEW j \in DOMAIN P, NEW k \in DOMAIN P, X[j][d].right = X[k][d].right
          PROVE  X[j][d] = X[k][d]
      <4>1. P[j][d] = P[k][d]
        BY <1>13, <2>1, <3>1
      <4>2. x(j, d) = x(k, d)
        BY <4>1
      <4>3. X[j][d] = x(j, d) /\ X[k][d] = x(k, d)
        BY <1>10
      <4> HIDE DEF x, y
      <4>4. QED
        BY <4>2, <4>3
    <3>2. \A k \in DOMAIN P : X[k][d].right \in Int
      BY <1>12, <1>13
    <3>3. QED
      BY <1>11, <3>1, <3>2 DEF RightsTell, OfDimension
  <2>3. ASSUME NEW d \in 1..n PROVE RightsTell(OfDimension(Y, d))
    <3>1. ASSUME NEW j \in DOMAIN P, NEW k \in DOMAIN P, Y[j][d].right = Y[k][d].right
          PROVE  Y[j][d] = Y[k][d]
      <4>1. P[j][d] = P[k][d]
        BY <1>13, <2>1, <3>1
      <4>2. y(j, d) = y(k, d)
        BY <4>1
      <4>3. Y[j][d] = y(j, d) /\ Y[k][d] = y(k, d)
        BY <1>10
      <4> HIDE DEF x, y
      <4>4. QED
        BY <4>2, <4>3
    <3>2. \A k \in DOMAIN P : Y[k][d].right \in Int
      BY <1>12, <1>13
    <3>3. QED
      BY <1>11, <3>1, <3>2 DEF RightsTell, OfDimension
  <2>4. QED
    BY <2>2, <2>3 DEF Told
<1>17. ASSUME NEW c \in [1..n -> DOMAIN P]
       PROVE  \E k \in DOMAIN P : \A d \in 1..n : /\ X[k][d] = X[c[d]][d]
                                                  /\ Y[k][d] = Y[c[d]][d]
  <2> DEFINE t == [d \in 1..n |-> P[c[d]][d]]
  <2>1. \A d \in 1..n : c[d] \in DOMAIN P /\ t[d] = P[c[d]][d]
    OBVIOUS
  <2>2. t = [d \in 1..n |-> t[d]]
    OBVIOUS
  <2> HIDE DEF t
  <2>3. IsTuple(t, o, n)
    BY <1>7, <2>1, <2>2 DEF IsTuple
  <2>4. PICK k \in DOMAIN P : P[k] = t
    BY <1>7, <2>3
  <2>5. ASSUME NEW d \in 1..n PROVE X[k][d] = X[c[d]][d] /\ Y[k][d] = Y[c[d]][d]
    <3>1. P[k][d] = P[c[d]][d] /\ c[d] \in DOMAIN P
      BY <2>1, <2>4
    <3>2. x(k, d) = x(c[d], d) /\ y(k, d) = y(c[d], d)
      BY <3>1
    <3>3. /\ X[k][d] = x(k, d) /\ X[c[d]][d] = x(c[d], d)
          /\ Y[k][d] = y(k, d) /\ Y[c[d]][d] = y(c[d], d)
      BY <1>10, <3>1
    <3> HIDE DEF x, y
    <3>4. QED
      BY <3>2, <3>3
  <2>6. QED
    BY <2>5
<1>18. IsPlan(X, Y, n) /\ IsPlan(Y, X, n)
  BY <1>11, <1>15, <1>16, <1>17 DEF IsPlan, Selections
<1>19. ASSUME NEW k \in DOMAIN P
       PROVE  /\ Within(get_owner_coordinates(X[k]), a.grid)
              /\ Within(get_owner_coordinates(Y[k]), b.grid)
  <2>1. DOMAIN X[k] = 1..n /\ DOMAIN Y[k] = 1..n
    BY <1>10
  <2>2. /\ get_owner_coordinates(X[k]) = [d \in 1..n |-> P[k][d].id_origin]
        /\ get_owner_coordinates(Y[k]) = [d \in 1..n |-> P[k][d].id_target]
    BY <1>13, <2>1 DEF get_owner_coordinates
  <2>3. QED
    BY <1>2, <1>12, <2>2 DEF Within, Fits
<1>20. QED
  BY <1>1, <1>2, <1>11, <1>18, <1>19 DEF n, IsShape

-----------------------------------------------------------------------------
(***************************************************************************)
(* Who owes whom                                                           *)
(***************************************************************************)
\* A rank has some coordinates in a grid if and only if it is their rank.
LEMMA Coordinates ==
  ASSUME NEW grid, IsShape(grid), Len(grid) # 0, NEW c, Within(c, grid), NEW r \in Int
  PROVE  /\ get_processor_id(c, grid) \in 0..calc_total_num_values(grid)-1
         /\ get_processor_coordinates(r, grid) = c <=> r = get_processor_id(c, grid)
<1> DEFINE total == calc_total_num_values(grid)
           k == map_indices(c, grid)
<1>1. Len(grid) \in Nat \ {0} /\ DOMAIN grid = 1..Len(grid) /\ 1 \in 1..Len(grid)
  BY DEF IsShape
<1>2. c = [d \in DOMAIN grid |-> c[d]] /\ Fits(c, grid)
  BY DEF Within
<1>3. k \in 0..total-1 /\ \A d \in DOMAIN grid : Digit(k, grid, d) = c[d]
  BY <1>2, IndexOfDigits
<1> HIDE DEF k
<1>4. map_index(k, grid) = c
  <2>1. map_index(k, grid) = [d \in DOMAIN grid |-> Digit(k, grid, d)]
    BY <1>3, DigitsOfIndex
  <2>2. QED
    BY <1>2, <1>3, <2>1
<1>5. ASSUME map_index(r, grid) = c PROVE r = k
  <2>1. r \in 0..total-1
    <3>1. SUFFICES ASSUME r < 0 \/ r > total - 1 PROVE FALSE
      <4>1. total \in Int
        <5>1. 0 \in 0..Len(grid)
          BY <1>1
        <5>2. QED
          BY <5>1, Strides
      <4>2. QED
        BY <4>1
    <3>2. map_index(r, grid) = get_invalid_coordinates(Len(grid))
      BY <3>1 DEF map_index
    <3>3. c[1] = -1
      BY <1>1, <1>5, <3>2 DEF get_invalid_coordinates
    <3>4. grid[1] \in Nat /\ c[1] \in 0..grid[1]-1
      BY <1>1, <1>2 DEF IsShape, Fits
    <3>5. QED
      BY <3>3, <3>4
  <2>2. map_indices(map_index(r, grid), grid) = r
    BY <2>1, DigitsOfIndex
  <2>3. QED
    BY <1>5, <2>2 DEF k
<1>6. QED
  BY <1>3, <1>4, <1>5 DEF k, get_processor_id, get_processor_coordinates

\* The context and the overlay of a call
LEMMA CallFacts ==
  ASSUME CallInv
  PROVE  /\ IsCall(context) /\ N \in Nat \ {0}
         /\ IsShape(context.initial.grid) /\ Len(context.initial.grid) # 0
         /\ IsShape(context.final.grid) /\ Len(context.final.grid) # 0
         /\ IsPlan(overlay.origin, overlay.target, N)
         /\ IsPlan(overlay.target, overlay.origin, N)
         /\ DOMAIN overlay.origin = DOMAIN overlay.target
         /\ \A k \in DOMAIN overlay.origin :
              /\ Within(get_owner_coordinates(overlay.origin[k]), context.initial.grid)
              /\ Within(get_owner_coordinates(overlay.target[k]), context.final.grid)
<1>1. IsCall(context)
  BY ProgramAssumption DEF CallInv, ToSet
<1>2. /\ IsDistribution(context.initial) /\ IsDistribution(context.final)
      /\ SameArray(context.initial, context.final)
  BY <1>1 DEF IsCall, IsContext
<1>3. /\ overlay.origin = OriginBlocks(GridOverlay(context.initial, context.final))
      /\ overlay.target = TargetBlocks(GridOverlay(context.initial, context.final))
  BY DEF CallInv, OverlayOf
<1>4. /\ N \in Nat \ {0}
      /\ IsShape(context.initial.grid) /\ IsShape(context.final.grid)
      /\ IsPlan(overlay.origin, overlay.target, N)
      /\ IsPlan(overlay.target, overlay.origin, N)
      /\ \A k \in DOMAIN overlay.origin :
           /\ Within(get_owner_coordinates(overlay.origin[k]), context.initial.grid)
           /\ Within(get_owner_coordinates(overlay.target[k]), context.final.grid)
  BY <1>2, <1>3, OverlayIsPlan DEF N
<1>5. Len(context.final.grid) # 0 /\ Len(context.initial.grid) # 0
  BY <1>2, <1>4 DEF SameArray, N
<1>6. DOMAIN overlay.origin = DOMAIN overlay.target
  BY <1>4 DEF IsPlan
<1>7. QED
  BY <1>1, <1>4, <1>5, <1>6

\* The processes that own a block of the overlay, before and after the call
LEMMA RanksOfBlocks ==
  ASSUME CallInv, NEW k \in DOMAIN overlay.origin
  PROVE  /\ \A p \in Proc :
              /\ get_owner_coordinates(overlay.origin[k]) = RankInformation(p).initial
                   <=> context.initial_id[p]
                         = get_processor_id(get_owner_coordinates(overlay.origin[k]),
                                            context.initial.grid)
              /\ get_owner_coordinates(overlay.target[k]) = RankInformation(p).final
                   <=> context.final_id[p]
                         = get_processor_id(get_owner_coordinates(overlay.target[k]),
                                            context.final.grid)
         /\ get_processor_id(get_owner_coordinates(overlay.origin[k]), context.initial.grid)
              \in 0..calc_total_num_values(context.initial.grid)-1
         /\ get_processor_id(get_owner_coordinates(overlay.target[k]), context.final.grid)
              \in 0..calc_total_num_values(context.final.grid)-1
<1> DEFINE c == get_owner_coordinates(overlay.origin[k])
           e == get_owner_coordinates(overlay.target[k])
<1>1. /\ IsShape(context.initial.grid) /\ Len(context.initial.grid) # 0
      /\ IsShape(context.final.grid) /\ Len(context.final.grid) # 0
      /\ Within(c, context.initial.grid) /\ Within(e, context.final.grid)
  BY CallFacts
<1>2. /\ \A p \in Proc : context.initial_id[p] \in Int /\ context.final_id[p] \in Int
  BY CallFacts DEF IsCall, IsContext
<1> HIDE DEF c, e
<1>3. ASSUME NEW p \in Proc
      PROVE  /\ c = RankInformation(p).initial
                  <=> context.initial_id[p] = get_processor_id(c, context.initial.grid)
             /\ e = RankInformation(p).final
                  <=> context.final_id[p] = get_processor_id(e, context.final.grid)
  <2>1. get_processor_coordinates(context.initial_id[p], context.initial.grid) = c
          <=> context.initial_id[p] = get_processor_id(c, context.initial.grid)
    BY <1>1, <1>2, Coordinates
  <2>2. get_processor_coordinates(context.final_id[p], context.final.grid) = e
          <=> context.final_id[p] = get_processor_id(e, context.final.grid)
    BY <1>1, <1>2, Coordinates
  <2>3. QED
    BY <2>1, <2>2 DEF RankInformation
<1>4. /\ get_processor_id(c, context.initial.grid)
           \in 0..calc_total_num_values(context.initial.grid)-1
      /\ get_processor_id(e, context.final.grid)
           \in 0..calc_total_num_values(context.final.grid)-1
  <2>1. 0 \in Int
    OBVIOUS
  <2>2. QED
    BY <1>1, <2>1, Coordinates
<1>5. QED
  BY <1>3, <1>4 DEF c, e

\* The blocks that a process derives have the owners that its blocks of the
\* overlay have on the other side.
LEMMA DerivedBlocks ==
  ASSUME CallInv, NEW p \in Proc
  PROVE  /\ Owners(get_send_and_receive_blocks(p).send)
              = {get_owner_coordinates(overlay.target[k]) :
                   k \in BlocksOf(overlay.origin, RankInformation(p).initial)}
         /\ Owners(get_send_and_receive_blocks(p).receive)
              = {get_owner_coordinates(overlay.origin[k]) :
                   k \in BlocksOf(overlay.target, RankInformation(p).final)}
<1>1. IsPlan(overlay.origin, overlay.target, N) /\ IsPlan(overlay.target, overlay.origin, N)
  BY CallFacts
<1>2. /\ get_send_and_receive_blocks(p).send
           = make_contiguous(AtPlaces(overlay.target,
                                      BlocksOf(overlay.origin, RankInformation(p).initial)), N)
      /\ get_send_and_receive_blocks(p).receive
           = make_contiguous(AtPlaces(overlay.origin,
                                      BlocksOf(overlay.target, RankInformation(p).final)), N)
  BY DEF get_send_and_receive_blocks, SendReceiveBlocks
<1>3. QED
  BY <1>1, <1>2, WhoseBlocks

\* A process sends to those that it owes something ...
LEMMA Destinations ==
  ASSUME CallInv, NEW p \in Proc, NEW q \in Proc
  PROVE  context.final_id[q] \in Destinies(get_send_and_receive_blocks(p).send) <=> Owes(p, q)
<1> DEFINE bs == get_send_and_receive_blocks(p).send
<1>1. Destinies(bs) = {get_processor_id(c, context.final.grid) : c \in Owners(bs)}
  BY DEF Destinies, Destiny, Owners
<1>2. Owners(bs) = {get_owner_coordinates(overlay.target[k]) :
                      k \in BlocksOf(overlay.origin, RankInformation(p).initial)}
  BY DerivedBlocks
<1> HIDE DEF bs
<1>3. context.final_id[q] \in Destinies(bs)
        <=> \E k \in BlocksOf(overlay.origin, RankInformation(p).initial) :
              context.final_id[q]
                = get_processor_id(get_owner_coordinates(overlay.target[k]), context.final.grid)
  BY <1>1, <1>2
<1>4. \A k \in DOMAIN overlay.origin :
        context.final_id[q]
          = get_processor_id(get_owner_coordinates(overlay.target[k]), context.final.grid)
          <=> get_owner_coordinates(overlay.target[k]) = RankInformation(q).final
  BY RanksOfBlocks
<1>5. QED
  BY <1>3, <1>4 DEF Owes, BlocksOf, bs

\* ... and awaits as many messages, one of them maybe its own, as there are
\* processes that owe it something.
LEMMA Debtors ==
  ASSUME CallInv, NEW p \in Proc
  PROVE  /\ IsFiniteSet({q \in Proc : Owes(q, p)})
         /\ Cardinality({q \in Proc : Owes(q, p)})
              = Cardinality(Owners(get_send_and_receive_blocks(p).receive))
<1> DEFINE S == {q \in Proc : Owes(q, p)}
           K == BlocksOf(overlay.target, RankInformation(p).final)
           g == [k \in K |-> get_owner_coordinates(overlay.origin[k])]
           T == {g[k] : k \in K}
           f == [q \in S |-> RankInformation(q).initial]
<1>1. Owners(get_send_and_receive_blocks(p).receive) = T
  BY DerivedBlocks
<1>2. DOMAIN overlay.target = DOMAIN overlay.origin
  BY CallFacts
<1>3. IsFiniteSet(T)
  <2>1. IsList(overlay.target)
    BY CallFacts DEF IsPlan, IsBlockList
  <2>2. K \subseteq DOMAIN overlay.target
    BY DEF BlocksOf
  <2>3. IsFiniteSet(K)
    <3>1. PICK m \in Nat : DOMAIN overlay.target = 1..m
      BY <2>1 DEF IsList
    <3>2. IsFiniteSet(1..m)
      BY FS_Interval
    <3> HIDE DEF K
    <3>3. QED
      BY <2>2, <3>1, <3>2, FS_Subset
  <2>4. g = [k \in K |-> g[k]]
    OBVIOUS
  <2> HIDE DEF g, K
  <2>5. QED
    BY <2>3, <2>4, FiniteRange
<1>4. \A k \in DOMAIN overlay.origin :
        k \in K <=> get_owner_coordinates(overlay.target[k]) = RankInformation(p).final
  BY <1>2 DEF BlocksOf
<1>5. ASSUME NEW q \in Proc
      PROVE  q \in S <=> \E k \in K : g[k] = RankInformation(q).initial
  <2>1. K \subseteq DOMAIN overlay.origin
    BY <1>2 DEF BlocksOf
  <2>2. Owes(q, p) <=> \E k \in K : get_owner_coordinates(overlay.origin[k])
                                      = RankInformation(q).initial
    <3> HIDE DEF K
    <3>1. QED
      BY <1>4, <2>1 DEF Owes
  <2>3. \A k \in K : g[k] = get_owner_coordinates(overlay.origin[k])
    OBVIOUS
  <2> HIDE DEF g, K
  <2>4. QED
    BY <2>2, <2>3
<1>6. \A k \in K : k \in DOMAIN overlay.origin /\ g[k] = get_owner_coordinates(overlay.origin[k])
  BY <1>2 DEF BlocksOf
<1> HIDE DEF g, K
<1>7. f \in [S -> T]
  BY <1>5
<1>8. OneToOne(f, S)
  <2>1. ASSUME NEW q \in S, NEW r \in S, f[q] = f[r] PROVE q = r
    <3>1. q \in Proc /\ r \in Proc /\ RankInformation(q).initial = RankInformation(r).initial
      BY <2>1
    <3>2. PICK k \in K : g[k] = RankInformation(q).initial
      BY <1>5
    <3>3. k \in DOMAIN overlay.origin
          /\ get_owner_coordinates(overlay.origin[k]) = RankInformation(q).initial
          /\ get_owner_coordinates(overlay.origin[k]) = RankInformation(r).initial
      BY <1>6, <3>1, <3>2
    <3> DEFINE id == get_processor_id(get_owner_coordinates(overlay.origin[k]),
                                      context.initial.grid)
    <3>4. context.initial_id[q] = id /\ context.initial_id[r] = id
      BY <3>1, <3>3, RanksOfBlocks
    <3>5. id \in 0..calc_total_num_values(context.initial.grid)-1
      BY <3>3, RanksOfBlocks
    <3> HIDE DEF id
    <3>6. id # INVALID_RANK_ID
      BY <3>5 DEF INVALID_RANK_ID
    <3>7. QED
      BY <3>1, <3>4, <3>6, CallFacts DEF IsCall, IsContext
  <2>2. QED
    BY <2>1 DEF OneToOne
<1>9. ASSUME NEW t \in T PROVE Takes(f, S, t)
  <2>1. PICK k \in K : t = g[k]
    OBVIOUS
  <2> DEFINE id == get_processor_id(get_owner_coordinates(overlay.origin[k]),
                                    context.initial.grid)
  <2>2. k \in DOMAIN overlay.origin /\ t = get_owner_coordinates(overlay.origin[k])
    BY <1>6, <2>1
  <2>3. id \in 0..calc_total_num_values(context.initial.grid)-1
    BY <2>2, RanksOfBlocks
  <2>4. PICK q \in Proc : context.initial_id[q] = id
    BY <2>3, CallFacts DEF IsCall, IsContext
  <2>5. t = RankInformation(q).initial
    BY <2>2, <2>4, RanksOfBlocks
  <2>6. q \in S
    BY <1>5, <2>1, <2>5
  <2> HIDE DEF S
  <2>7. f[q] = t
    BY <2>5, <2>6
  <2>8. QED
    BY <2>6, <2>7 DEF Takes
<1> HIDE DEF f, S, T
<1>10. IsFiniteSet(S) /\ Cardinality(S) = Cardinality(T)
  BY <1>3, <1>7, <1>8, <1>9, SameSize
<1>11. QED
  BY <1>1, <1>10 DEF S

\* Of two processes one of which owes the other something, both take part in
\* the exchange or neither does.
LEMMA BothOrNeither ==
  ASSUME CallInv, NEW p \in Proc, NEW q \in Proc, Owes(p, q)
  PROVE  Participates(p) <=> Participates(q)
<1>1. context.initial_id[p] # INVALID_RANK_ID /\ context.final_id[q] # INVALID_RANK_ID
  <2>1. PICK k \in DOMAIN overlay.origin :
          /\ get_owner_coordinates(overlay.origin[k]) = RankInformation(p).initial
          /\ get_owner_coordinates(overlay.target[k]) = RankInformation(q).final
    BY DEF Owes
  <2>2. /\ context.initial_id[p] \in 0..calc_total_num_values(context.initial.grid)-1
        /\ context.final_id[q] \in 0..calc_total_num_values(context.final.grid)-1
    BY <2>1, RanksOfBlocks
  <2>3. QED
    BY <2>2 DEF INVALID_RANK_ID
<1>2. ~IsOutside(p) /\ ~IsOutside(q)
  BY <1>1 DEF IsOutside
<1>3. comm(p, 1) = context.comms[1] /\ comm(q, 2) = context.comms[2]
  BY <1>1 DEF comm
<1>4. /\ context.comms[1] # <<>> /\ context.comms[2] # <<>>
      /\ context.comms[1] = context.comms[2] => context.initial_id = context.final_id
  BY CallFacts DEF IsCall
<1>5. ASSUME NEW r \in Proc, context.comms[1] = context.comms[2] PROVE comm(r, 1) = comm(r, 2)
  BY <1>4, <1>5 DEF comm
<1>6. comm(p, 1) = comm(p, 2) => context.comms[1] = context.comms[2]
  BY <1>3, <1>4 DEF comm
<1>7. comm(q, 1) = comm(q, 2) => context.comms[1] = context.comms[2]
  BY <1>3, <1>4 DEF comm
<1>8. comm(p, 1) = comm(p, 2) <=> comm(q, 1) = comm(q, 2)
  BY <1>5, <1>6, <1>7
<1>9. QED
  BY <1>2, <1>8 DEF Participates, EqualContexts

-----------------------------------------------------------------------------
(***************************************************************************)
(* The invariant                                                           *)
(***************************************************************************)
\* Those whose message p counts on once it has sent its own, and how many
\* they are
Debt(p) == {q \in Proc \ {p} : Owes(q, p)}

LEMMA DebtCounted ==
  ASSUME CallInv, NEW p \in Proc
  PROVE  /\ IsFiniteSet(Debt(p))
         /\ Cardinality(Debt(p))
              = Cardinality(Owners(get_send_and_receive_blocks(p).receive))
                  - (IF Owes(p, p) THEN 1 ELSE 0)
<1> DEFINE S == {q \in Proc : Owes(q, p)}
<1>1. /\ IsFiniteSet(S) /\ Cardinality(S) \in Nat
      /\ Cardinality(S) = Cardinality(Owners(get_send_and_receive_blocks(p).receive))
  BY Debtors, FS_CardinalityType
<1>2. Debt(p) = S \ {p} /\ (p \in S <=> Owes(p, p))
  BY DEF Debt
<1> HIDE DEF S
<1>3. /\ IsFiniteSet(S \ {p})
      /\ Cardinality(S \ {p}) = IF p \in S THEN Cardinality(S) - 1 ELSE Cardinality(S)
  BY <1>1, FS_RemoveElement
<1>4. QED
  BY <1>1, <1>2, <1>3

LEMMA PendingFinite ==
  ASSUME CallInv, NEW p \in Proc
  PROVE  /\ IsFiniteSet(Pending(p)) /\ Cardinality(Pending(p)) \in Nat
         /\ Cardinality(Pending(p)) = 0 => Pending(p) = {}
<1>1. Pending(p) \subseteq Debt(p)
  BY DEF Pending, Debt
<1>2. IsFiniteSet(Pending(p))
  BY <1>1, DebtCounted, FS_Subset
<1>3. QED
  BY <1>2, FS_CardinalityType, FS_EmptySet

LEMMA InitInv == ShuffleInit => ShuffleInv
<1> SUFFICES ASSUME ShuffleInit PROVE ShuffleInv
  OBVIOUS
<1>1. CallInv
  <2>1. PICK s \in Programs : s[1] = context /\ later = Tail(s)
    BY DEF ShuffleInit
  <2>2. s \in Seq(ToSet(s)) /\ s # <<>>
    BY ProgramAssumption
  <2>3. context \in ToSet(s) /\ later \in Seq(ToSet(s))
    BY <2>1, <2>2, HeadTailProperties
  <2>4. QED
    BY <2>3 DEF CallInv, ShuffleInit, Init
<1>2. PhaseInv
  BY DEF PhaseInv, PhaseOf, ShuffleInit, Init
<1>3. NetworkInv
  BY DEF NetworkInv, ShuffleInit, Init
<1>4. AwaitingInv
  BY DEF AwaitingInv, HasSent, ShuffleInit, Init
<1>5. QED
  BY <1>1, <1>2, <1>3, <1>4 DEF ShuffleInv

\* A step of a process leaves the call as it is, and with it who owes whom and
\* who takes part.
LEMMA SameCall ==
  ASSUME context' = context, overlay' = overlay
  PROVE  /\ \A p, q : Owes(p, q)' = Owes(p, q)
         /\ \A p : /\ Participates(p)' = Participates(p)
                   /\ get_send_and_receive_blocks(p)' = get_send_and_receive_blocks(p)
         /\ IsGeneral' = IsGeneral
<1>1. \A p : RankInformation(p)' = RankInformation(p)
  BY DEF RankInformation
<1>2. N' = N
  BY DEF N
<1>3. \A p, q : Owes(p, q)' = Owes(p, q)
  BY <1>1 DEF Owes
<1>4. \A p : Participates(p)' = Participates(p)
  BY DEF Participates, EqualContexts, IsOutside, comm
<1>5. \A p : get_send_and_receive_blocks(p)' = get_send_and_receive_blocks(p)
  BY <1>1, <1>2 DEF get_send_and_receive_blocks
<1>6. IsGeneral' = IsGeneral
  BY DEF IsGeneral
<1>7. QED
  BY <1>3, <1>4, <1>5, <1>6

LEMMA SameCallInv ==
  ASSUME CallInv, context' = context, overlay' = overlay, later' = later
  PROVE  CallInv'
  BY DEF CallInv

\* As long as nobody sends or receives, what is on its way stays the same.
LEMMA SameNetwork ==
  ASSUME ShuffleInv, context' = context, overlay' = overlay, network' = network,
         awaiting' = awaiting, \A p \in Proc : Participates(p) => HasSent(p)' = HasSent(p),
         \A p \in Proc : HasSent(p) => HasSent(p)'
  PROVE  NetworkInv' /\ AwaitingInv'
<1>1. /\ \A p, q : Owes(p, q)' = Owes(p, q)
      /\ \A p : Participates(p)' = Participates(p)
      /\ IsGeneral' = IsGeneral
  BY SameCall
<1>2. \A p, q : UnderWay(p, q)' = UnderWay(p, q)
  BY DEF UnderWay
<1>3. NetworkInv'
  BY <1>1 DEF ShuffleInv, NetworkInv
<1>4. ASSUME IsGeneral, NEW p \in Proc, Participates(p)
      PROVE  /\ Pending(p)' = Pending(p)
             /\ \A q \in Proc : Owes(q, p) => HasSent(q)' = HasSent(q)
  <2>1. \A q \in Proc : Owes(q, p) => Participates(q)
    BY <1>4, BothOrNeither DEF ShuffleInv
  <2>2. \A q \in Proc : Owes(q, p) => HasSent(q)' = HasSent(q)
    BY <2>1
  <2>3. Pending(p)' = Pending(p)
    BY <1>1, <1>2, <2>2 DEF Pending
  <2>4. QED
    BY <2>2, <2>3
<1>5. AwaitingInv'
  <2>1. SUFFICES ASSUME IsGeneral, NEW p \in Proc, Participates(p)
                 PROVE  IF HasSent(p)'
                        THEN awaiting'[p] = Cardinality(Pending(p)')
                        ELSE \A q \in Proc \ {p} :
                               Owes(q, p)' /\ HasSent(q)' => UnderWay(q, p)'
    BY <1>1 DEF AwaitingInv
  <2>2. IF HasSent(p)
        THEN awaiting[p] = Cardinality(Pending(p))
        ELSE \A q \in Proc \ {p} : Owes(q, p) /\ HasSent(q) => UnderWay(q, p)
    BY <2>1 DEF ShuffleInv, AwaitingInv
  <2>3. HasSent(p)' = HasSent(p)
    BY <2>1
  <2>4. CASE HasSent(p)
    BY <1>4, <2>1, <2>2, <2>3, <2>4
  <2>5. CASE ~HasSent(p)
    BY <1>1, <1>2, <1>4, <2>1, <2>2, <2>3, <2>5
  <2>6. QED
    BY <2>4, <2>5
<1>6. QED
  BY <1>3, <1>5

\* Where a process has got and what it has derived, when a step is another's
LEMMA PhaseKept ==
  ASSUME PhaseInv, context' = context, overlay' = overlay, NEW q \in Proc,
         pc'[q] = pc[q], awaiting'[q] = awaiting[q], blocks'[q] = blocks[q],
         package'[q] = package[q]
  PROVE  PhaseOf(q)'
<1>1. /\ Participates(q)' = Participates(q)
      /\ get_send_and_receive_blocks(q)' = get_send_and_receive_blocks(q)
  BY SameCall
<1>2. Destinies(blocks[q].send)' = Destinies(blocks[q].send)
  BY DEF Destinies, Destiny
<1>3. PhaseOf(q)
  BY DEF PhaseInv
<1>4. QED
  BY <1>1, <1>2, <1>3 DEF PhaseOf

\* A step that takes p to another place
LEMMA PhaseStep ==
  ASSUME PhaseInv, context' = context, overlay' = overlay, NEW p \in Proc,
         NEW next \in {"pack", "send", "receive", "done", "throw"},
         pc' = [pc EXCEPT ![p] = next],
         DOMAIN blocks' = Proc, DOMAIN package' = Proc, DOMAIN awaiting' = Proc,
         \A q \in Proc \ {p} : /\ awaiting'[q] = awaiting[q] /\ blocks'[q] = blocks[q]
                               /\ package'[q] = package[q],
         pc'[p] = next => PhaseOf(p)'
  PROVE  /\ PhaseInv'
         /\ pc'[p] = next /\ \A q \in Proc \ {p} : pc'[q] = pc[q]
<1>1. pc' \in [Proc -> {"begin", "pack", "send", "receive", "done", "throw"}]
  BY DEF PhaseInv
<1>2. pc'[p] = next /\ \A q \in Proc \ {p} : pc'[q] = pc[q]
  BY DEF PhaseInv
<1>3. ASSUME NEW q \in Proc \ {p} PROVE PhaseOf(q)'
  BY <1>2, PhaseKept
<1>4. QED
  BY <1>1, <1>2, <1>3 DEF PhaseInv

LEMMA ReturnKeeps ==
  ASSUME ShuffleInv, NEW p \in Proc, ReturnEqual(p) \/ ReturnNothing(p), later' = later
  PROVE  ShuffleInv'
<1>1. /\ pc[p] = "begin" /\ ~Participates(p)
      /\ pc' = [pc EXCEPT ![p] = "done"]
      /\ context' = context /\ overlay' = overlay /\ blocks' = blocks
      /\ package' = package /\ awaiting' = awaiting /\ network' = network
  BY DEF ReturnEqual, ReturnNothing, Return, Participates
<1>2. PhaseInv
  BY DEF ShuffleInv
<1>3. pc'[p] = "done" => PhaseOf(p)'
  BY <1>1, <1>2 DEF PhaseInv, PhaseOf
<1>4. PhaseInv' /\ pc'[p] = "done" /\ \A q \in Proc \ {p} : pc'[q] = pc[q]
  BY <1>1, <1>2, <1>3, PhaseStep DEF PhaseInv
<1>5. NetworkInv' /\ AwaitingInv'
  BY <1>1, <1>4, SameNetwork DEF HasSent
<1>6. CallInv'
  BY <1>1, SameCallInv DEF ShuffleInv
<1>7. QED
  BY <1>4, <1>5, <1>6 DEF ShuffleInv

LEMMA PrepareKeeps ==
  ASSUME ShuffleInv, NEW p \in Proc, Prepare(p), later' = later
  PROVE  ShuffleInv'
<1>1. /\ Participates(p) /\ pc[p] \in {"begin", "pack"}
      /\ context' = context /\ overlay' = overlay
      /\ awaiting' = awaiting /\ network' = network
  BY DEF Prepare, Begin, Pack, Participates
<1>2. PhaseInv /\ PhaseOf(p)
  BY DEF ShuffleInv, PhaseInv
<1>3. Participates(p)' /\ get_send_and_receive_blocks(p)' = get_send_and_receive_blocks(p)
  BY <1>1, SameCall
<1>4. PhaseInv' /\ ~HasSent(p)' /\ \A q \in Proc \ {p} : pc'[q] = pc[q]
  <2>1. CASE Begin(p)
    <3>1. /\ pc' = [pc EXCEPT ![p] = "pack"] /\ package' = package
          /\ blocks' = [blocks EXCEPT ![p] = get_send_and_receive_blocks(p)]
      BY <2>1 DEF Begin
    <3>2. pc'[p] = "pack" => PhaseOf(p)'
      BY <1>1, <1>2, <1>3, <3>1 DEF PhaseInv, PhaseOf
    <3>3. PhaseInv' /\ pc'[p] = "pack" /\ \A q \in Proc \ {p} : pc'[q] = pc[q]
      BY <1>1, <1>2, <3>1, <3>2, PhaseStep DEF PhaseInv
    <3>4. QED
      BY <3>3 DEF HasSent
  <2>2. CASE Pack(p) /\ pc' = [pc EXCEPT ![p] = "send"]
    <3>1. /\ pc[p] = "pack" /\ blocks' = blocks
          /\ package' = [package EXCEPT ![p] = get_send_package(local[p], blocks[p].send)]
      BY <1>2, <2>2 DEF Pack, PhaseInv
    <3>2. DOMAIN package'[p].assignments = Destinies(blocks[p].send)
      BY <1>2, <3>1 DEF PhaseInv, get_send_package, Assignments
    <3>3. Destinies(blocks[p].send)' = Destinies(blocks[p].send)
      BY <1>1, <3>1 DEF Destinies, Destiny
    <3>4. pc'[p] = "send" => PhaseOf(p)'
      BY <1>1, <1>2, <1>3, <3>1, <3>2, <3>3 DEF PhaseOf
    <3>5. PhaseInv' /\ pc'[p] = "send" /\ \A q \in Proc \ {p} : pc'[q] = pc[q]
      BY <1>1, <1>2, <2>2, <3>1, <3>4, PhaseStep DEF PhaseInv
    <3>6. QED
      BY <3>5 DEF HasSent
  <2>3. CASE Pack(p) /\ pc' = [pc EXCEPT ![p] = "throw"]
    <3>1. blocks' = blocks /\ package' = package /\ pc[p] = "pack"
      BY <1>2, <2>3 DEF Pack, PhaseInv
    <3>2. pc'[p] = "throw" => PhaseOf(p)'
      BY <1>1, <1>2, <1>3, <3>1 DEF PhaseOf
    <3>3. PhaseInv' /\ pc'[p] = "throw" /\ \A q \in Proc \ {p} : pc'[q] = pc[q]
      BY <1>1, <1>2, <2>3, <3>1, <3>2, PhaseStep DEF PhaseInv
    <3>4. QED
      BY <3>3 DEF HasSent
  <2>4. Begin(p) \/ (Pack(p) /\ (\/ pc' = [pc EXCEPT ![p] = "send"]
                                 \/ pc' = [pc EXCEPT ![p] = "throw"]))
    BY DEF Prepare, Pack
  <2>5. QED
    BY <2>1, <2>2, <2>3, <2>4
<1>5. ~HasSent(p)
  BY <1>1 DEF HasSent
<1>6. NetworkInv' /\ AwaitingInv'
  <2>1. \A q \in Proc : HasSent(q)' = HasSent(q)
    BY <1>4, <1>5 DEF HasSent
  <2>2. QED
    BY <1>1, <2>1, SameNetwork
<1>7. CallInv'
  BY <1>1, SameCallInv DEF ShuffleInv
<1>8. QED
  BY <1>4, <1>6, <1>7 DEF ShuffleInv

LEMMA FinishKeeps ==
  ASSUME ShuffleInv, NEW p \in Proc, Finish(p), later' = later
  PROVE  ShuffleInv'
<1>1. /\ pc[p] = "receive" /\ awaiting[p] = 0
      /\ pc' = [pc EXCEPT ![p] = "done"]
      /\ context' = context /\ overlay' = overlay /\ blocks' = blocks
      /\ package' = package /\ awaiting' = awaiting /\ network' = network
  BY DEF Finish
<1>2. PhaseInv
  BY DEF ShuffleInv
<1>3. pc'[p] = "done" => PhaseOf(p)'
  BY <1>1, <1>2 DEF PhaseInv, PhaseOf
<1>4. PhaseInv' /\ pc'[p] = "done" /\ \A q \in Proc \ {p} : pc'[q] = pc[q]
  BY <1>1, <1>2, <1>3, PhaseStep DEF PhaseInv
<1>5. NetworkInv' /\ AwaitingInv'
  BY <1>1, <1>4, SameNetwork DEF HasSent
<1>6. CallInv'
  BY <1>1, SameCallInv DEF ShuffleInv
<1>7. QED
  BY <1>4, <1>5, <1>6 DEF ShuffleInv

LEMMA ScatterKeeps ==
  ASSUME ShuffleInv, NEW p \in Proc, ExchangeScatter(p), later' = later
  PROVE  ShuffleInv'
<1>1. /\ ~IsGeneral
      /\ context' = context /\ overlay' = overlay /\ blocks' = blocks
      /\ package' = package /\ network' = network
  BY DEF ExchangeScatter, ScatterCounts, ScatterValues
<1>2. PhaseInv /\ PhaseOf(p)
  BY DEF ShuffleInv, PhaseInv
<1>3. Participates(p)' = Participates(p) /\ IsGeneral' = IsGeneral
  BY <1>1, SameCall
<1>4. PhaseInv'
  <2>1. CASE ScatterCounts(p)
    <3>1. /\ pc[p] = "send" /\ pc' = [pc EXCEPT ![p] = "receive"]
          /\ awaiting' = [awaiting EXCEPT ![p] = Amount(inter_id(p))]
      BY <2>1 DEF ScatterCounts
    <3>2. pc'[p] = "receive" => PhaseOf(p)'
      BY <1>2, <1>3, <3>1 DEF PhaseOf
    <3>3. QED
      BY <1>1, <1>2, <3>1, <3>2, PhaseStep DEF PhaseInv
  <2>2. CASE ScatterValues(p)
    <3>1. pc' = [pc EXCEPT ![p] = "done"] /\ awaiting' = [awaiting EXCEPT ![p] = 0]
      BY <2>2 DEF ScatterValues
    <3>2. pc'[p] = "done" => PhaseOf(p)'
      BY <1>2, <3>1 DEF PhaseOf, PhaseInv
    <3>3. QED
      BY <1>1, <1>2, <3>1, <3>2, PhaseStep DEF PhaseInv
  <2>3. QED
    BY <2>1, <2>2 DEF ExchangeScatter
<1>5. NetworkInv' /\ AwaitingInv'
  BY <1>1, <1>3 DEF ShuffleInv, NetworkInv, AwaitingInv
<1>6. CallInv'
  BY <1>1, SameCallInv DEF ShuffleInv
<1>7. QED
  BY <1>4, <1>5, <1>6 DEF ShuffleInv

\* The members of the communicators are told apart by their ranks.
LEMMA OneRankEach ==
  ASSUME CallInv, NEW p \in Proc, NEW q \in Proc, NEW r \in Proc, Owes(p, q),
         context.final_id[q] = context.final_id[r]
  PROVE  q = r
<1>1. PICK k \in DOMAIN overlay.origin :
        get_owner_coordinates(overlay.target[k]) = RankInformation(q).final
  BY DEF Owes
<1>2. context.final_id[q] \in 0..calc_total_num_values(context.final.grid)-1
  BY <1>1, RanksOfBlocks
<1>3. context.final_id[q] # INVALID_RANK_ID
  BY <1>2 DEF INVALID_RANK_ID
<1>4. QED
  BY <1>3, CallFacts DEF IsCall, IsContext

\* Those to whom p owes a message
Creditors(p) == {q \in Proc \ {p} : Owes(p, q)}

\* Exactly those to whom p owes something get a message from it, and p counts
\* on as many messages as it is owed.
LEMMA SendFacts ==
  ASSUME ShuffleInv, NEW p \in Proc, Send(p)
  PROVE  /\ pc[p] = "send" /\ pc' = [pc EXCEPT ![p] = "receive"]
         /\ Participates(p)
         /\ \E f : network' = network \cup
                     {[from |-> p, to |-> q, values |-> f[q]] : q \in Creditors(p)}
         /\ awaiting' = [awaiting EXCEPT ![p] = Cardinality(Debt(p))]
<1> DEFINE bs == get_send_and_receive_blocks(p)
           to == package[p].assignments
           me == context.final_id[p]
           R == {r \in Proc : context.final_id[r] \in DOMAIN to \ {me}}
           f == [q \in Proc |-> async_send(p, to[context.final_id[q]])]
<1>1. /\ pc[p] = "send" /\ pc' = [pc EXCEPT ![p] = "receive"]
      /\ PhaseOf(p) /\ CallInv
  BY DEF Send, ShuffleInv, PhaseInv
<1>2. Participates(p) /\ blocks[p] = bs /\ DOMAIN to = Destinies(bs.send)
  BY <1>1 DEF PhaseOf
<1>3. \A q \in Proc : context.final_id[q] \in DOMAIN to <=> Owes(p, q)
  BY <1>1, <1>2, Destinations
<1>4. R = Creditors(p)
  <2>1. \A q \in Proc : Owes(p, q) /\ context.final_id[q] = me => q = p
    BY <1>1, OneRankEach
  <2> HIDE DEF to
  <2>2. QED
    BY <1>3, <2>1 DEF Creditors
<1>5. network' = network \cup {[from |-> p, to |-> q, values |-> f[q]] : q \in R}
  <2>1. network' = network \cup
          {[from |-> p, to |-> q, values |-> async_send(p, to[context.final_id[q]])] : q \in R}
    BY DEF Send
  <2>2. \A q \in R : f[q] = async_send(p, to[context.final_id[q]])
    OBVIOUS
  <2> HIDE DEF R, f
  <2>3. {[from |-> p, to |-> q, values |-> async_send(p, to[context.final_id[q]])] : q \in R}
          = {[from |-> p, to |-> q, values |-> f[q]] : q \in R}
    BY <2>2
  <2>4. QED
    BY <2>1, <2>3
<1>6. awaiting' = [awaiting EXCEPT ![p] = Cardinality(Sources(p)) - (IF Owes(p, p) THEN 1 ELSE 0)]
  <2>1. me \in DOMAIN to <=> Owes(p, p)
    BY <1>3
  <2>2. CASE me \in DOMAIN to
    BY <2>1, <2>2 DEF Send
  <2>3. CASE me \notin DOMAIN to
    <3>1. awaiting' = [awaiting EXCEPT ![p] = Cardinality(Sources(p))]
      BY <2>3 DEF Send
    <3>2. Cardinality(Sources(p)) - 0 = Cardinality(Sources(p))
      <4>1. Sources(p) = Owners(bs.receive)
        BY <1>2 DEF Sources, Owners
      <4>2. Cardinality(Sources(p)) \in Nat
        BY <1>1, <4>1, Debtors, FS_CardinalityType
      <4>3. QED
        BY <4>2
    <3>3. QED
      BY <2>1, <2>3, <3>1, <3>2
  <2>4. QED
    BY <2>2, <2>3
<1>7. Cardinality(Sources(p)) - (IF Owes(p, p) THEN 1 ELSE 0) = Cardinality(Debt(p))
  <2>1. Sources(p) = Owners(bs.receive)
    BY <1>2 DEF Sources, Owners
  <2>2. QED
    BY <1>1, <2>1, DebtCounted
<1> HIDE DEF f, R
<1>8. network' = network \cup {[from |-> p, to |-> q, values |-> f[q]] : q \in Creditors(p)}
  BY <1>4, <1>5
<1>9. awaiting' = [awaiting EXCEPT ![p] = Cardinality(Debt(p))]
  BY <1>6, <1>7
<1>10. QED
  BY <1>1, <1>2, <1>8, <1>9

LEMMA SendKeeps ==
  ASSUME ShuffleInv, NEW p \in Proc, IsGeneral, Send(p), later' = later
  PROVE  ShuffleInv'
<1>1. /\ pc[p] = "send" /\ pc' = [pc EXCEPT ![p] = "receive"] /\ Participates(p)
      /\ CallInv /\ PhaseInv /\ NetworkInv /\ AwaitingInv
  BY SendFacts DEF ShuffleInv
<1> DEFINE D == Creditors(p)
<1>2. D = {q \in Proc \ {p} : Owes(p, q)}
  BY DEF Creditors
<1>3. PICK f : network' = network \cup {[from |-> p, to |-> q, values |-> f[q]] : q \in D}
  BY SendFacts
<1>4. awaiting' = [awaiting EXCEPT ![p] = Cardinality(Debt(p))]
  BY SendFacts
<1> HIDE DEF D
<1>5. /\ context' = context /\ overlay' = overlay /\ blocks' = blocks /\ package' = package
  BY DEF Send
<1>6. /\ \A q, r : Owes(q, r)' = Owes(q, r)
      /\ \A q : Participates(q)' = Participates(q)
      /\ IsGeneral' = IsGeneral
  BY <1>5, SameCall
<1>7. pc'[p] = "receive" => PhaseOf(p)'
  BY <1>1, <1>6 DEF PhaseOf
<1>8. PhaseInv' /\ pc'[p] = "receive" /\ \A q \in Proc \ {p} : pc'[q] = pc[q]
  BY <1>1, <1>4, <1>5, <1>7, PhaseStep DEF PhaseInv
<1>9. /\ ~HasSent(p) /\ HasSent(p)'
      /\ \A q \in Proc \ {p} : HasSent(q)' = HasSent(q)
  BY <1>1, <1>8 DEF HasSent
\* The messages are those that were there and those that p sends now.
<1>10. ASSUME NEW m \in network'
       PROVE  \/ m \in network /\ m.from # p
              \/ m.from = p /\ m.to \in D /\ m = [from |-> p, to |-> m.to, values |-> f[m.to]]
  <2>1. CASE m \in network
    BY <1>1, <1>9, <2>1 DEF NetworkInv
  <2>2. CASE m \notin network
    <3>1. PICK q \in D : m = [from |-> p, to |-> q, values |-> f[q]]
      BY <1>3, <2>2
    <3>2. m.from = p /\ m.to = q
      BY <3>1
    <3>3. QED
      BY <3>1, <3>2
  <2>3. QED
    BY <2>1, <2>2
<1>11. /\ \A q \in D : UnderWay(p, q)'
       /\ \A q, r : q # p => UnderWay(q, r)' = UnderWay(q, r)
  <2>1. ASSUME NEW q \in D PROVE UnderWay(p, q)'
    <3>1. [from |-> p, to |-> q, values |-> f[q]] \in network'
      BY <1>3
    <3>2. QED
      BY <3>1 DEF UnderWay
  <2>2. ASSUME NEW q, NEW r, q # p PROVE UnderWay(q, r)' = UnderWay(q, r)
    <3>1. UnderWay(q, r)' => UnderWay(q, r)
      BY <1>10, <2>2 DEF UnderWay
    <3>2. UnderWay(q, r) => UnderWay(q, r)'
      BY <1>3 DEF UnderWay
    <3>3. QED
      BY <3>1, <3>2 DEF UnderWay
  <2>3. QED
    BY <2>1, <2>2
<1>12. NetworkInv'
  <2>1. ASSUME NEW m \in network'
        PROVE  /\ m.from \in Proc /\ m.to \in Proc \ {m.from}
               /\ Participates(m.from) /\ HasSent(m.from)' /\ Owes(m.from, m.to)
    <3>1. CASE m \in network /\ m.from # p
      BY <1>1, <1>9, <3>1 DEF NetworkInv
    <3>2. CASE m.from = p /\ m.to \in D
      BY <1>1, <1>2, <1>9, <3>2
    <3>3. QED
      BY <1>10, <3>1, <3>2
  <2>2. ASSUME NEW m \in network', NEW l \in network', m.from = l.from, m.to = l.to
        PROVE  m = l
    <3>1. CASE m.from = p
      BY <1>10, <2>2, <3>1
    <3>2. CASE m.from # p
      BY <1>1, <1>10, <2>2, <3>2 DEF NetworkInv
    <3>3. QED
      BY <3>1, <3>2
  <2>3. QED
    BY <1>6, <2>1, <2>2 DEF NetworkInv
<1>13. AwaitingInv'
  <2>1. SUFFICES ASSUME NEW r \in Proc, Participates(r)
                 PROVE  IF HasSent(r)'
                        THEN awaiting'[r] = Cardinality(Pending(r)')
                        ELSE \A q \in Proc \ {r} :
                               Owes(q, r)' /\ HasSent(q)' => UnderWay(q, r)'
    BY <1>6 DEF AwaitingInv
  <2>2. IF HasSent(r)
        THEN awaiting[r] = Cardinality(Pending(r))
        ELSE \A q \in Proc \ {r} : Owes(q, r) /\ HasSent(q) => UnderWay(q, r)
    BY <1>1, <2>1 DEF AwaitingInv
  <2>3. CASE r = p
    <3>1. Pending(p)' = Debt(p)
      <4>1. \A q \in Proc \ {p} : Owes(q, p) /\ HasSent(q)' => UnderWay(q, p)'
        BY <1>9, <1>11, <2>2, <2>3
      <4>2. QED
        BY <1>6, <4>1 DEF Pending, Debt
    <3>2. awaiting'[p] = Cardinality(Debt(p))
      BY <1>1, <1>4 DEF PhaseInv
    <3>3. QED
      BY <1>9, <2>3, <3>1, <3>2
  <2>4. CASE r # p
    <3>1. Owes(p, r) => UnderWay(p, r)'
      BY <1>2, <1>11, <2>4
    <3>2. Pending(r)' = Pending(r)
      BY <1>6, <1>9, <1>11, <3>1 DEF Pending
    <3>3. awaiting'[r] = awaiting[r]
      BY <1>1, <1>4, <2>4 DEF PhaseInv
    <3>4. \A q \in Proc \ {r} : Owes(q, r) /\ HasSent(q)' =>
            UnderWay(q, r)' \/ (HasSent(q) /\ ~UnderWay(q, r))
      BY <1>9, <1>11, <3>1
    <3>5. HasSent(r)' = HasSent(r)
      BY <1>9, <2>4
    <3>6. CASE HasSent(r)
      BY <2>2, <3>2, <3>3, <3>5, <3>6
    <3>7. CASE ~HasSent(r)
      BY <1>6, <2>2, <3>4, <3>5, <3>7
    <3>8. QED
      BY <3>6, <3>7
  <2>5. QED
    BY <2>3, <2>4
<1>14. CallInv'
  BY <1>1, <1>5, SameCallInv
<1>15. QED
  BY <1>8, <1>12, <1>13, <1>14 DEF ShuffleInv

LEMMA ReceiveKeeps ==
  ASSUME ShuffleInv, NEW p \in Proc, IsGeneral, Receive(p), later' = later
  PROVE  ShuffleInv'
<1>1. /\ pc[p] = "receive" /\ pc' = pc
      /\ context' = context /\ overlay' = overlay /\ blocks' = blocks /\ package' = package
      /\ awaiting' = [awaiting EXCEPT ![p] = @ - 1]
      /\ CallInv /\ PhaseInv /\ NetworkInv /\ AwaitingInv
  BY DEF Receive, ShuffleInv
<1>2. PICK m \in network : m.to = p /\ network' = network \ {m}
  BY DEF Receive
<1>3. /\ \A q, r : Owes(q, r)' = Owes(q, r)
      /\ \A q : Participates(q)' = Participates(q)
      /\ IsGeneral' = IsGeneral
  BY <1>1, SameCall
<1>4. \A q : HasSent(q)' = HasSent(q)
  BY <1>1 DEF HasSent
<1>5. PhaseInv'
  <2>1. PhaseOf(p)'
    <3>1. Destinies(blocks[p].send)' = Destinies(blocks[p].send)
      BY <1>1 DEF Destinies, Destiny
    <3>2. QED
      BY <1>1, <1>3 DEF PhaseInv, PhaseOf
  <2>2. ASSUME NEW q \in Proc \ {p} PROVE PhaseOf(q)'
    <3>1. awaiting'[q] = awaiting[q]
      BY <1>1 DEF PhaseInv
    <3>2. QED
      BY <1>1, <3>1, PhaseKept
  <2>3. QED
    BY <1>1, <2>1, <2>2 DEF PhaseInv
<1>6. NetworkInv'
  BY <1>1, <1>2, <1>3, <1>4 DEF NetworkInv
<1>7. /\ m.from \in Proc \ {p} /\ Owes(m.from, p) /\ HasSent(m.from)
      /\ UnderWay(m.from, p) /\ ~UnderWay(m.from, p)'
      /\ \A q, r : ~(q = m.from /\ r = p) => UnderWay(q, r)' = UnderWay(q, r)
  <2>1. m.from \in Proc \ {p} /\ Owes(m.from, p) /\ HasSent(m.from)
    BY <1>1, <1>2 DEF NetworkInv
  <2>2. UnderWay(m.from, p)
    BY <1>2 DEF UnderWay
  <2>3. ~UnderWay(m.from, p)'
    BY <1>1, <1>2 DEF UnderWay, NetworkInv
  <2>4. ASSUME NEW q, NEW r, ~(q = m.from /\ r = p) PROVE UnderWay(q, r)' = UnderWay(q, r)
    <3>1. UnderWay(q, r)' => UnderWay(q, r)
      BY <1>2 DEF UnderWay
    <3>2. UnderWay(q, r) => UnderWay(q, r)'
      BY <1>2, <2>4 DEF UnderWay
    <3>3. QED
      BY <3>1, <3>2 DEF UnderWay
  <2>5. QED
    BY <2>1, <2>2, <2>3, <2>4
<1>8. AwaitingInv'
  <2>1. SUFFICES ASSUME NEW r \in Proc, Participates(r)
                 PROVE  IF HasSent(r)'
                        THEN awaiting'[r] = Cardinality(Pending(r)')
                        ELSE \A q \in Proc \ {r} :
                               Owes(q, r)' /\ HasSent(q)' => UnderWay(q, r)'
    BY <1>3 DEF AwaitingInv
  <2>2. IF HasSent(r)
        THEN awaiting[r] = Cardinality(Pending(r))
        ELSE \A q \in Proc \ {r} : Owes(q, r) /\ HasSent(q) => UnderWay(q, r)
    BY <1>1, <2>1 DEF AwaitingInv
  <2>3. CASE r = p
    <3>1. HasSent(p) /\ awaiting[p] = Cardinality(Pending(p))
      BY <1>1, <2>2, <2>3 DEF HasSent
    <3>2. Pending(p)' = Pending(p) \ {m.from} /\ m.from \in Pending(p)
      BY <1>3, <1>4, <1>7 DEF Pending
    <3>3. IsFiniteSet(Pending(p))
      BY <1>1, PendingFinite
    <3>4. Cardinality(Pending(p) \ {m.from}) = Cardinality(Pending(p)) - 1
      BY <3>2, <3>3, FS_RemoveElement
    <3>5. awaiting'[p] = awaiting[p] - 1
      BY <1>1 DEF PhaseInv
    <3>6. QED
      BY <1>4, <2>3, <3>1, <3>2, <3>4, <3>5
  <2>4. CASE r # p
    <3>1. \A q : UnderWay(q, r)' = UnderWay(q, r)
      BY <1>7, <2>4
    <3>2. Pending(r)' = Pending(r)
      BY <1>3, <1>4, <3>1 DEF Pending
    <3>3. awaiting'[r] = awaiting[r]
      BY <1>1, <2>4 DEF PhaseInv
    <3>4. CASE HasSent(r)
      BY <1>4, <2>2, <3>2, <3>3, <3>4
    <3>5. CASE ~HasSent(r)
      BY <1>3, <1>4, <2>2, <3>1, <3>5
    <3>6. QED
      BY <3>4, <3>5
  <2>5. QED
    BY <2>3, <2>4
<1>9. CallInv'
  BY <1>1, SameCallInv
<1>10. QED
  BY <1>5, <1>6, <1>8, <1>9 DEF ShuffleInv

\* When a call is over no message of it is left.
LEMMA NothingLeft ==
  ASSUME ShuffleInv, \A p \in Proc : pc[p] = "done"
  PROVE  network = {}
<1>1. CallInv /\ PhaseInv /\ NetworkInv /\ AwaitingInv
  BY DEF ShuffleInv
<1>2. SUFFICES ASSUME NEW m \in network PROVE FALSE
  OBVIOUS
<1>3. /\ IsGeneral /\ m.from \in Proc /\ m.to \in Proc \ {m.from}
      /\ Participates(m.from) /\ Owes(m.from, m.to)
  BY <1>1 DEF NetworkInv
<1>4. Participates(m.to)
  BY <1>1, <1>3, BothOrNeither
<1>5. awaiting[m.to] = Cardinality(Pending(m.to))
  BY <1>1, <1>3, <1>4 DEF AwaitingInv, HasSent
<1>6. awaiting[m.to] = 0
  BY <1>1, <1>3 DEF PhaseInv, PhaseOf
<1>7. Pending(m.to) = {}
  BY <1>1, <1>3, <1>5, <1>6, PendingFinite
<1>8. m.from \in Pending(m.to)
  BY <1>3 DEF Pending, UnderWay
<1>9. QED
  BY <1>7, <1>8

LEMMA NextCallKeeps ==
  ASSUME ShuffleInv, NextCall
  PROVE  ShuffleInv'
<1>1. /\ \A p \in Proc : pc[p] = "done"
      /\ pc' = [p \in Proc |-> "begin"]
      /\ blocks' = blocks /\ package' = package /\ awaiting' = awaiting /\ network' = network
  BY DEF NextCall
<1>2. CallInv'
  <2>1. /\ later # <<>> /\ context' = Head(later) /\ later' = Tail(later)
        /\ overlay' = OverlayOf(context')
    BY DEF NextCall
  <2>2. PICK s \in Programs : later \in Seq(ToSet(s))
    BY DEF ShuffleInv, CallInv
  <2>3. context' \in ToSet(s) /\ later' \in Seq(ToSet(s))
    BY <2>1, <2>2, HeadTailProperties
  <2>4. OverlayOf(context)' = OverlayOf(context')
    BY DEF OverlayOf
  <2>5. QED
    BY <2>1, <2>3, <2>4 DEF CallInv
<1>3. \A p \in Proc : awaiting[p] = 0
  BY <1>1 DEF ShuffleInv, PhaseInv, PhaseOf
<1>4. PhaseInv'
  BY <1>1, <1>3 DEF ShuffleInv, PhaseInv, PhaseOf
<1>5. network' = {}
  BY <1>1, NothingLeft
<1>6. NetworkInv'
  BY <1>5 DEF NetworkInv
<1>7. \A p \in Proc : ~HasSent(p)'
  BY <1>1 DEF HasSent
<1>8. AwaitingInv'
  BY <1>7 DEF AwaitingInv
<1>9. QED
  BY <1>2, <1>4, <1>6, <1>8 DEF ShuffleInv

\* Every step of a program keeps the invariant.
LEMMA StepKeeps ==
  ASSUME ShuffleInv, [ShuffleNext]_shuffle_vars
  PROVE  ShuffleInv'
<1>1. CASE UNCHANGED shuffle_vars
  <2>1. /\ context' = context /\ overlay' = overlay /\ later' = later /\ network' = network
        /\ awaiting' = awaiting /\ pc' = pc /\ blocks' = blocks /\ package' = package
    BY <1>1 DEF shuffle_vars, vars
  <2>2. NetworkInv' /\ AwaitingInv'
    BY <2>1, SameNetwork DEF HasSent
  <2>3. PhaseInv'
    <3>1. \A q \in Proc : PhaseOf(q)'
      BY <2>1, PhaseKept DEF ShuffleInv
    <3>2. QED
      BY <2>1, <3>1 DEF ShuffleInv, PhaseInv
  <2>4. CallInv'
    BY <2>1, SameCallInv DEF ShuffleInv
  <2>5. QED
    BY <2>2, <2>3, <2>4 DEF ShuffleInv
<1>2. ASSUME NEW p \in Proc, ReturnEqual(p) \/ ReturnNothing(p), later' = later
      PROVE  ShuffleInv'
  BY <1>2, ReturnKeeps
<1>3. ASSUME NEW p \in Proc, Prepare(p), later' = later PROVE ShuffleInv'
  BY <1>3, PrepareKeeps
<1>4. ASSUME NEW p \in Proc, ExchangeGeneral(p), later' = later PROVE ShuffleInv'
  <2>1. IsGeneral /\ (Send(p) \/ Receive(p) \/ Finish(p))
    BY <1>4 DEF ExchangeGeneral
  <2>2. QED
    BY <1>4, <2>1, SendKeeps, ReceiveKeeps, FinishKeeps
<1>5. ASSUME NEW p \in Proc, ExchangeScatter(p), later' = later PROVE ShuffleInv'
  BY <1>5, ScatterKeeps
<1>6. CASE NextCall
  BY <1>6, NextCallKeeps
<1>7. CASE ShuffleOver
  BY <1>1, <1>7 DEF ShuffleOver
<1>8. CASE \E p \in Proc :
             /\ \/ ReturnEqual(p) \/ ReturnNothing(p) \/ Prepare(p)
                \/ ExchangeGeneral(p) \/ ExchangeScatter(p)
             /\ UNCHANGED <<later, array>>
  BY <1>2, <1>3, <1>4, <1>5, <1>8
<1>9. QED
  BY <1>1, <1>6, <1>7, <1>8 DEF ShuffleNext

\* Who owes whom, what has been derived from it and what is on its way agree
\* in every state of every program, for any number of processes, any two
\* distributions of an array of any dimensions, and any order of ranks.
THEOREM ShuffleInvariance == ShuffleSpec => []ShuffleInv
<1>1. ShuffleInit => ShuffleInv
  BY InitInv
<1>2. ShuffleInv /\ [ShuffleNext]_shuffle_vars => ShuffleInv'
  BY StepKeeps
<1>3. QED
  BY <1>1, <1>2, PTL DEF ShuffleSpec

\* The messages that a process counts on are those that are on their way to
\* it, once everybody has sent.
LEMMA InvIsEnough == ShuffleInv => AwaitedAreSent
<1>1. SUFFICES ASSUME ShuffleInv, IsGeneral, \A q \in Proc : pc[q] \in {"receive", "done"},
                      NEW p \in Proc
               PROVE  awaiting[p] = Cardinality({m \in network : m.to = p})
  BY DEF AwaitedAreSent
<1> DEFINE M == {m \in network : m.to = p}
           f == [m \in M |-> m.from]
<1>2. CallInv /\ PhaseInv /\ NetworkInv /\ AwaitingInv
  BY <1>1 DEF ShuffleInv
<1>3. CASE Participates(p)
  <2>1. awaiting[p] = Cardinality(Pending(p))
    BY <1>1, <1>2, <1>3 DEF AwaitingInv, HasSent
  <2>2. IsFiniteSet(Pending(p))
    BY <1>2, PendingFinite
  <2>3. \A m \in M : /\ m.from \in Proc \ {p} /\ Owes(m.from, p)
                     /\ m \in network /\ m.to = p
    BY <1>2 DEF NetworkInv
  <2>4. f \in [M -> Pending(p)]
    BY <2>3 DEF Pending, UnderWay
  <2>5. OneToOne(f, M)
    BY <1>2 DEF OneToOne, NetworkInv
  <2>6. ASSUME NEW q \in Pending(p) PROVE Takes(f, M, q)
    <3>1. UnderWay(q, p)
      BY <1>1 DEF Pending, HasSent
    <3>2. PICK m \in network : m.from = q /\ m.to = p
      BY <3>1 DEF UnderWay
    <3>3. m \in M /\ f[m] = q
      BY <3>2
    <3>4. QED
      BY <3>3 DEF Takes
  <2> HIDE DEF f, M
  <2>7. Cardinality(M) = Cardinality(Pending(p))
    BY <2>2, <2>4, <2>5, <2>6, SameSize
  <2>8. QED
    BY <2>1, <2>7 DEF M
<1>4. CASE ~Participates(p)
  <2>1. awaiting[p] = 0
    BY <1>1, <1>2, <1>4 DEF PhaseInv, PhaseOf
  <2>2. M = {}
    <3>1. ASSUME NEW m \in network, m.to = p PROVE FALSE
      <4>1. m.from \in Proc /\ Participates(m.from) /\ Owes(m.from, p)
        BY <1>2, <3>1 DEF NetworkInv
      <4>2. QED
        BY <1>2, <1>4, <4>1, BothOrNeither
    <3>2. QED
      BY <3>1
  <2>3. QED
    BY <2>1, <2>2, FS_EmptySet
<1>5. QED
  BY <1>3, <1>4

\* Nobody waits for a message that no one sends, nor leaves one behind: sender
\* and receiver agree on who gets a message from whom, although each derives it
\* on its own from its blocks of one of the distributions.
THEOREM AwaitedIsSent == ShuffleSpec => []AwaitedAreSent
BY ShuffleInvariance, InvIsEnough, PTL
=============================================================================

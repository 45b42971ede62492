-------------------------- MODULE HeatTransferProofs --------------------------
(***************************************************************************)
(* That the invariant of HeatTransferInvariant.tla holds of every          *)
(* simulation, on any number of processes, grid and adaptation frequency,  *)
(* and what follows from it about the layers that the processes exchange.  *)
(***************************************************************************)
EXTENDS HeatTransferInvariant, CommonLemmas, SequenceTheorems

-----------------------------------------------------------------------------
(***************************************************************************)
(* Neighbours in the processor grid                                        *)
(***************************************************************************)

\* get_processor_grid has a place for every process and no other.
LEMMA ProcessorGrid ==
  ASSUME NEW n \in Nat \ {0}
  PROVE  /\ get_processor_grid(n)[1] \in Nat \ {0}
         /\ get_processor_grid(n)[2] \in Nat \ {0}
         /\ get_processor_grid(n)[1] * get_processor_grid(n)[2] = n
<1> DEFINE T == {d \in 1..n : n % d = 0 /\ d * d =< n}
           Fits(d) == /\ n % d = 0 /\ d * d =< n
                      /\ \A e \in d+1..n : n % e = 0 => e * e > n
           second == CHOOSE d \in 1..n : Fits(d)
<1>1. \E d \in 1..n : Fits(d)
  <2>1. T \subseteq 0..n
    OBVIOUS
  <2>2. 1 \in T
    OBVIOUS
  <2>3. PICK d \in T : \A e \in T : e <= d
    <3> HIDE DEF T
    <3> QED BY <2>1, <2>2, GreatestNatural
  <2>4. ASSUME NEW e \in d+1..n, n % e = 0
        PROVE  e * e > n
    <3>1. e \in 1..n /\ e \notin T
      BY <2>3
    <3>2. ~(e * e =< n)
      BY <2>4, <3>1
    <3>3. QED
      BY <3>1, <3>2
  <2>5. QED
    BY <2>3, <2>4
<1>2. second \in 1..n /\ n % second = 0
  <2>1. second \in 1..n /\ Fits(second)
    <3> HIDE DEF Fits
    <3> QED BY <1>1
  <2>2. QED
    BY <2>1
<1>3. get_processor_grid(n) = <<n \div second, second>>
  BY DEF get_processor_grid
<1> HIDE DEF second
<1>4. n \div second \in Nat \ {0} /\ (n \div second) * second = n
  BY <1>2
<1>5. QED
  BY <1>2, <1>3, <1>4

\* A rank and its coordinates determine each other.
LEMMA Coordinates ==
  ASSUME NEW n \in Nat \ {0}, NEW g, g = get_processor_grid(n)
  PROVE  /\ \A p \in 0..n-1 :
              /\ MPI_Cart_coords(p, g)[1] \in 0..g[1]-1
              /\ MPI_Cart_coords(p, g)[2] \in 0..g[2]-1
              /\ MPI_Cart_rank(MPI_Cart_coords(p, g), g) = p
         /\ \A x \in 0..g[1]-1, y \in 0..g[2]-1 :
              /\ MPI_Cart_rank(<<x, y>>, g) \in 0..n-1
              /\ MPI_Cart_coords(MPI_Cart_rank(<<x, y>>, g), g) = <<x, y>>
<1>1. g[1] \in Nat \ {0} /\ g[2] \in Nat \ {0} /\ g[1] * g[2] = n
  BY ProcessorGrid
<1> DEFINE a == g[1]
           b == g[2]
<1>2. ASSUME NEW p \in 0..n-1
      PROVE  p \div b \in 0..a-1 /\ p % b \in 0..b-1 /\ (p \div b) * b + (p % b) = p
  <2>1. a \in Nat /\ b \in Nat \ {0} /\ a * b = n /\ p \in Nat
    BY <1>1
  <2> DEFINE q == p \div b
             r == p % b
  <2>2. q \in Nat /\ r \in 0..b-1 /\ p = q * b + r
    BY <2>1, Division, Zenon
  <2> HIDE DEF a, b, q, r
  <2>3. ASSUME a <= q PROVE FALSE
    <3>1. a * b <= q * b
      BY <2>1, <2>2, <2>3
    <3>2. QED
      BY <2>1, <2>2, <3>1
  <2>4. q \in 0..a-1
    BY <2>1, <2>2, <2>3
  <2>5. q * b + r = p
    BY <2>2
  <2>6. QED
    BY <2>2, <2>4, <2>5, Zenon DEF a, b, q, r
<1>3. ASSUME NEW x \in 0..a-1, NEW y \in 0..b-1
      PROVE  x * b + y \in 0..n-1 /\ (x * b + y) \div b = x /\ (x * b + y) % b = y
  <2>1. a \in Nat /\ b \in Nat \ {0} /\ a * b = n
    BY <1>1
  <2> HIDE DEF a, b
  <2>2. x * b \in Nat /\ (x + 1) * b <= a * b /\ (x + 1) * b = x * b + b
    BY <2>1
  <2>3. x * b + y \in 0..n-1
    BY <2>1, <2>2
  <2>4. x * b + y \in Nat /\ x \in Nat
    BY <2>3
  <2>5. (x * b + y) \div b = x /\ (x * b + y) % b = y
    <3>1. ASSUME NEW z \in Nat, z = x * b + y
          PROVE  z \div b = x /\ z % b = y
      <4>1. \A i \in Nat, j \in 0..b-1 : z = i * b + j => z \div b = i /\ z % b = j
        BY <2>1, Division, Zenon
      <4>2. QED
        BY <2>4, <3>1, <4>1, Zenon
    <3>2. QED
      BY <2>4, <3>1, Zenon
  <2>6. QED
    BY <2>3, <2>5
<1>4. ASSUME NEW p \in 0..n-1
      PROVE  /\ MPI_Cart_coords(p, g)[1] \in 0..g[1]-1
             /\ MPI_Cart_coords(p, g)[2] \in 0..g[2]-1
             /\ MPI_Cart_rank(MPI_Cart_coords(p, g), g) = p
  <2> DEFINE i == p \div b
             j == p % b
  <2>1. i \in 0..a-1 /\ j \in 0..b-1 /\ i * b + j = p
    BY <1>2, Zenon
  <2>2. MPI_Cart_coords(p, g) = <<i, j>>
    BY DEF MPI_Cart_coords
  <2> HIDE DEF i, j
  <2>3. MPI_Cart_rank(<<i, j>>, g) = i * b + j
    BY <2>1 DEF MPI_Cart_rank
  <2>4. QED
    BY <2>1, <2>2, <2>3
<1>5. ASSUME NEW x \in 0..a-1, NEW y \in 0..b-1
      PROVE  /\ MPI_Cart_rank(<<x, y>>, g) \in 0..n-1
             /\ MPI_Cart_coords(MPI_Cart_rank(<<x, y>>, g), g) = <<x, y>>
  <2>1. MPI_Cart_rank(<<x, y>>, g) = x * b + y
    BY DEF MPI_Cart_rank
  <2>2. QED
    BY <1>3, <2>1 DEF MPI_Cart_coords
<1>6. QED
  BY <1>4, <1>5

\* Each neighbour is one step away in the grid.
LEMMA NeighbourAt ==
  ASSUME NEW n \in Nat \ {0}, NEW g, g = get_processor_grid(n),
         NEW p \in 0..n-1, NEW q \in 0..n-1
  PROVE  LET P == MPI_Cart_coords(p, g)
             Q == MPI_Cart_coords(q, g)
         IN  /\ q = ProcessorInfo(p, n).up    <=> Q[1] = P[1] - 1 /\ Q[2] = P[2]
             /\ q = ProcessorInfo(p, n).down  <=> Q[1] = P[1] + 1 /\ Q[2] = P[2]
             /\ q = ProcessorInfo(p, n).left  <=> Q[1] = P[1] /\ Q[2] = P[2] - 1
             /\ q = ProcessorInfo(p, n).right <=> Q[1] = P[1] /\ Q[2] = P[2] + 1
<1> DEFINE P == MPI_Cart_coords(p, g)
           Q == MPI_Cart_coords(q, g)
<1>1. /\ P[1] \in 0..g[1]-1 /\ P[2] \in 0..g[2]-1
      /\ Q[1] \in 0..g[1]-1 /\ Q[2] \in 0..g[2]-1
      /\ MPI_Cart_rank(Q, g) = q /\ Q = <<Q[1], Q[2]>>
      /\ g[1] \in Nat /\ g[2] \in Nat
  <2>1. g[1] \in Nat /\ g[2] \in Nat
    BY ProcessorGrid
  <2>2. Q = <<Q[1], Q[2]>>
    BY DEF MPI_Cart_coords
  <2>3. \A m \in 0..n-1 :
          /\ MPI_Cart_coords(m, g)[1] \in 0..g[1]-1
          /\ MPI_Cart_coords(m, g)[2] \in 0..g[2]-1
          /\ MPI_Cart_rank(MPI_Cart_coords(m, g), g) = m
    BY Coordinates
  <2>4. QED
    BY <2>1, <2>2, <2>3
<1>2. ASSUME NEW x \in Int, NEW y \in Int
      PROVE  q = MPI_Cart_rank(<<x, y>>, g) <=> Q[1] = x /\ Q[2] = y
  <2>1. CASE x \in 0..g[1]-1 /\ y \in 0..g[2]-1
    <3>1. MPI_Cart_coords(MPI_Cart_rank(<<x, y>>, g), g) = <<x, y>>
      BY <2>1, Coordinates
    <3>2. q = MPI_Cart_rank(<<x, y>>, g) => Q = <<x, y>>
      BY <3>1
    <3>3. Q[1] = x /\ Q[2] = y => q = MPI_Cart_rank(<<x, y>>, g)
      <4>1. SUFFICES ASSUME Q[1] = x, Q[2] = y PROVE q = MPI_Cart_rank(<<x, y>>, g)
        OBVIOUS
      <4>2. <<x, y>> = Q
        BY <1>1, <4>1, Zenon
      <4>3. QED
        BY <1>1, <4>2, Zenon
    <3>4. QED
      BY <3>2, <3>3
  <2>2. CASE ~(x \in 0..g[1]-1 /\ y \in 0..g[2]-1)
    <3>1. MPI_Cart_rank(<<x, y>>, g) = MPI_PROC_NULL
      BY <2>2 DEF MPI_Cart_rank
    <3>2. q # MPI_PROC_NULL
      BY DEF MPI_PROC_NULL
    <3>3. QED
      BY <1>1, <2>2, <3>1, <3>2
  <2>3. QED
    BY <2>1, <2>2
<1>3. ProcessorInfo(p, n) = get_neighbours(P, g)
  BY DEF ProcessorInfo, Rank, get_cartesian_comm
<1>4. P[1] \in Int /\ P[2] \in Int
  BY <1>1
<1> HIDE DEF P, Q
<1>5. /\ q = ProcessorInfo(p, n).up    <=> Q[1] = P[1] - 1 /\ Q[2] = P[2]
      /\ q = ProcessorInfo(p, n).down  <=> Q[1] = P[1] + 1 /\ Q[2] = P[2]
      /\ q = ProcessorInfo(p, n).left  <=> Q[1] = P[1] /\ Q[2] = P[2] - 1
      /\ q = ProcessorInfo(p, n).right <=> Q[1] = P[1] /\ Q[2] = P[2] + 1
  <2>1. /\ q = MPI_Cart_rank(<<P[1] - 1, P[2]>>, g) <=> Q[1] = P[1] - 1 /\ Q[2] = P[2]
        /\ q = MPI_Cart_rank(<<P[1] + 1, P[2]>>, g) <=> Q[1] = P[1] + 1 /\ Q[2] = P[2]
        /\ q = MPI_Cart_rank(<<P[1], P[2] - 1>>, g) <=> Q[1] = P[1] /\ Q[2] = P[2] - 1
        /\ q = MPI_Cart_rank(<<P[1], P[2] + 1>>, g) <=> Q[1] = P[1] /\ Q[2] = P[2] + 1
    BY <1>2, <1>4
  <2>2. QED
    BY <1>3, <2>1 DEF get_neighbours, Neighbours
<1>6. QED
  BY <1>5 DEF P, Q

\* Being neighbours, in a row as in a column, is mutual, and nobody is both.
LEMMA NeighboursMutual ==
  ASSUME LoopTypeOK, CommInv, NEW p \in Processes, NEW q \in Processes
  PROVE  /\ Beside(p, q) <=> Beside(q, p)
         /\ Above(p, q) <=> Above(q, p)
         /\ ~(Beside(p, q) /\ Above(p, q))
         /\ Beside(p, q) \/ Above(p, q) => p < current_comm[0] /\ q < current_comm[0] /\ p # q
<1> DEFINE n == current_comm[0]
           g == get_processor_grid(n)
           X(m) == MPI_Cart_coords(m, g)[1]
           Y(m) == MPI_Cart_coords(m, g)[2]
<1>1. /\ n \in Nat \ {0} /\ n <= flags.num_ranks /\ flags.num_ranks \in Nat
      /\ \A m \in Processes : m \in Int /\ 0 <= m
      /\ \A m \in Processes : current_comm[m] = IF m < n THEN n ELSE 0
  BY SimulationAssumption DEF LoopTypeOK, CommInv, get_comm, Processes
<1>2. ASSUME NEW m \in Processes, NEW l \in Processes, m < n, l < n
      PROVE  /\ X(m) \in Int /\ Y(m) \in Int /\ X(l) \in Int /\ Y(l) \in Int
             /\ Beside(m, l) <=> X(l) = X(m) /\ (Y(l) = Y(m) - 1 \/ Y(l) = Y(m) + 1)
             /\ Above(m, l) <=> Y(l) = Y(m) /\ (X(l) = X(m) - 1 \/ X(l) = X(m) + 1)
  <2>1. m \in 0..n-1 /\ l \in 0..n-1 /\ Info(m) = ProcessorInfo(m, n)
    BY <1>1, <1>2 DEF Info
  <2>2. /\ l = ProcessorInfo(m, n).up    <=> X(l) = X(m) - 1 /\ Y(l) = Y(m)
        /\ l = ProcessorInfo(m, n).down  <=> X(l) = X(m) + 1 /\ Y(l) = Y(m)
        /\ l = ProcessorInfo(m, n).left  <=> X(l) = X(m) /\ Y(l) = Y(m) - 1
        /\ l = ProcessorInfo(m, n).right <=> X(l) = X(m) /\ Y(l) = Y(m) + 1
    BY <1>1, <2>1, NeighbourAt
  <2>3. X(m) \in Int /\ Y(m) \in Int /\ X(l) \in Int /\ Y(l) \in Int
    <3>1. /\ \A k \in 0..n-1 : X(k) \in 0..g[1]-1 /\ Y(k) \in 0..g[2]-1
          /\ g[1] \in Nat /\ g[2] \in Nat
      BY <1>1, Coordinates, ProcessorGrid
    <3> HIDE DEF X, Y
    <3>2. QED
      BY <2>1, <3>1
  <2> HIDE DEF X, Y
  <2>4. QED
    BY <2>1, <2>2, <2>3 DEF Beside, Above
<1>3. ASSUME NEW m \in Processes, NEW l \in Processes
      PROVE  Beside(m, l) \/ Above(m, l) => m < n /\ l < n
  <2>1. ASSUME ~(m < n) PROVE ~Beside(m, l) /\ ~Above(m, l)
    <3>1. Info(m) = Neighbours(MPI_PROC_NULL, MPI_PROC_NULL, MPI_PROC_NULL, MPI_PROC_NULL)
      BY <1>1, <2>1 DEF Info, ProcessorInfo
    <3>2. l # MPI_PROC_NULL
      BY <1>1 DEF MPI_PROC_NULL
    <3>3. QED
      BY <3>1, <3>2 DEF Beside, Above, Neighbours
  <2>2. ASSUME m < n, ~(l < n) PROVE ~Beside(m, l) /\ ~Above(m, l)
    <3>1. m \in 0..n-1 /\ Info(m) = get_neighbours(<<X(m), Y(m)>>, g)
      BY <1>1, <2>2 DEF Info, ProcessorInfo, Rank, get_cartesian_comm, MPI_Cart_coords
    <3>2. X(m) \in Int /\ Y(m) \in Int
      BY <1>2, <2>2
    <3>3. \A x, y \in Int : MPI_Cart_rank(<<x, y>>, g) # l
      <4>1. ASSUME NEW x \in Int, NEW y \in Int
            PROVE  MPI_Cart_rank(<<x, y>>, g) = MPI_PROC_NULL \/ MPI_Cart_rank(<<x, y>>, g) \in 0..n-1
        <5>1. CASE x \in 0..g[1]-1 /\ y \in 0..g[2]-1
          BY <1>1, <5>1, Coordinates
        <5>2. CASE ~(x \in 0..g[1]-1 /\ y \in 0..g[2]-1)
          BY <5>2 DEF MPI_Cart_rank
        <5>3. QED
          BY <5>1, <5>2
      <4>2. l # MPI_PROC_NULL /\ l \notin 0..n-1
        BY <1>1, <2>2 DEF MPI_PROC_NULL
      <4>3. QED
        BY <4>1, <4>2
    <3> HIDE DEF X, Y
    <3>4. /\ MPI_Cart_rank(<<X(m) - 1, Y(m)>>, g) # l /\ MPI_Cart_rank(<<X(m) + 1, Y(m)>>, g) # l
          /\ MPI_Cart_rank(<<X(m), Y(m) - 1>>, g) # l /\ MPI_Cart_rank(<<X(m), Y(m) + 1>>, g) # l
      BY <3>2, <3>3
    <3>5. QED
      BY <3>1, <3>4 DEF Beside, Above, get_neighbours, Neighbours
  <2>3. QED
    BY <2>1, <2>2
<1> HIDE DEF n, X, Y
<1>4. CASE p < n /\ q < n
  <2>1. /\ X(p) \in Int /\ Y(p) \in Int /\ X(q) \in Int /\ Y(q) \in Int
        /\ Beside(p, q) <=> X(q) = X(p) /\ (Y(q) = Y(p) - 1 \/ Y(q) = Y(p) + 1)
        /\ Above(p, q) <=> Y(q) = Y(p) /\ (X(q) = X(p) - 1 \/ X(q) = X(p) + 1)
    BY <1>2, <1>4
  <2>2. /\ Beside(q, p) <=> X(p) = X(q) /\ (Y(p) = Y(q) - 1 \/ Y(p) = Y(q) + 1)
        /\ Above(q, p) <=> Y(p) = Y(q) /\ (X(p) = X(q) - 1 \/ X(p) = X(q) + 1)
    BY <1>2, <1>4
  <2>3. p # q \/ (~Beside(p, q) /\ ~Above(p, q))
    BY <2>1
  <2>4. QED
    BY <1>4, <2>1, <2>2, <2>3 DEF n
<1>5. CASE ~(p < n /\ q < n)
  BY <1>3, <1>5
<1>6. QED
  BY <1>4, <1>5

-----------------------------------------------------------------------------
(***************************************************************************)
(* Iterations and adaptations                                              *)
(***************************************************************************)

\* An adaptation comes before the iterations that the frequency divides.
LEMMA NextEpoch ==
  ASSUME NEW i \in Nat, NEW f \in Nat \ {0}
  PROVE  (i + 1) \div f = IF (i + 1) % f = 0 THEN (i \div f) + 1 ELSE i \div f
<1> DEFINE q == i \div f
           r == i % f
<1>1. q \in Nat /\ r \in 0..f-1 /\ i = q * f + r
  BY Division, Zenon
<1>2. \A x \in Nat, y \in 0..f-1 :
        i + 1 = x * f + y => (i + 1) \div f = x /\ (i + 1) % f = y
  <2>1. i + 1 \in Nat
    OBVIOUS
  <2>2. QED
    BY <2>1, Division, Zenon
<1> HIDE DEF q, r
<1>3. CASE r + 1 = f
  <2>1. (q + 1) * f = q * f + f /\ q * f \in Nat
    BY <1>1
  <2>2. i + 1 = (q + 1) * f + 0 /\ q + 1 \in Nat /\ 0 \in 0..f-1
    BY <1>1, <1>3, <2>1
  <2>3. (i + 1) \div f = q + 1 /\ (i + 1) % f = 0
    BY <1>2, <2>2, Zenon
  <2>4. QED
    BY <2>3, Zenon DEF q
<1>4. CASE r + 1 # f
  <2>1. i + 1 = q * f + (r + 1) /\ r + 1 \in 0..f-1
    BY <1>1, <1>4
  <2>2. (i + 1) \div f = q /\ (i + 1) % f = r + 1
    BY <1>1, <1>2, <2>1, Zenon
  <2>3. r + 1 # 0
    BY <1>1
  <2>4. QED
    BY <2>2, <2>3, Zenon DEF q
<1>5. QED
  BY <1>3, <1>4

LEMMA EpochOrder ==
  ASSUME NEW i \in Nat, NEW j \in Nat, NEW f \in Nat \ {0}
  PROVE  /\ i <= j => i \div f <= j \div f
         /\ i % f = 0 /\ j % f = 0 /\ i \div f = j \div f => i = j
<1> DEFINE a == i \div f
           b == j \div f
           r == i % f
           s == j % f
<1>1. /\ a \in Nat /\ r \in 0..f-1 /\ i = a * f + r
      /\ b \in Nat /\ s \in 0..f-1 /\ j = b * f + s
  BY Division, Zenon
<1> HIDE DEF a, b, r, s
<1>2. ASSUME i <= j, b < a PROVE FALSE
  <2>1. (b + 1) * f <= a * f /\ (b + 1) * f = b * f + f /\ a * f \in Nat /\ b * f \in Nat
    BY <1>1, <1>2
  <2>2. QED
    BY <1>1, <1>2, <2>1
<1>3. i <= j => a <= b
  BY <1>1, <1>2
<1>4. r = 0 /\ s = 0 /\ a = b => i = j
  BY <1>1
<1>5. QED
  BY <1>3, <1>4, Zenon DEF a, b, r, s

-----------------------------------------------------------------------------
(***************************************************************************)
(* Channels                                                                *)
(***************************************************************************)

\* Whatever its layers are, a channel is a sequence of them.
LEMMA SequenceOfLayers ==
  ASSUME NEW T, NEW s \in Seq(T), NEW layer
  PROVE  /\ s \in Seq(ToSet(s))
         /\ Append(s, layer) \in Seq(ToSet(Append(s, layer)))
         /\ Len(Append(s, layer)) = Len(s) + 1
         /\ s # <<>> => Tail(s) \in Seq(ToSet(Tail(s))) /\ Len(Tail(s)) = Len(s) - 1
         /\ s # <<>> <=> Len(s) > 0
<1>1. ASSUME NEW U, NEW t \in Seq(U)
      PROVE  t \in Seq(ToSet(t))
  <2>1. Len(t) \in Nat /\ t = [i \in 1..Len(t) |-> t[i]]
    OBVIOUS
  <2>2. \A i \in 1..Len(t) : t[i] \in ToSet(t)
    BY DEF ToSet
  <2>3. QED
    BY <2>1, <2>2
<1>2. Append(s, layer) \in Seq(T \cup {layer}) /\ Len(Append(s, layer)) = Len(s) + 1
  OBVIOUS
<1>3. s # <<>> => Tail(s) \in Seq(T) /\ Len(Tail(s)) = Len(s) - 1
  OBVIOUS
<1>4. s # <<>> <=> Len(s) > 0
  OBVIOUS
<1>5. QED
  BY <1>1, <1>2, <1>3, <1>4

\* What Post adds to the channel from u to v
LEMMA Posted ==
  ASSUME ChannelInv, NEW p \in Processes, NEW a, NEW b, NEW layers,
         Post(p, <<a, b>>, layers), NEW u \in Processes, NEW v \in Processes
  PROVE  /\ network'[<<u, v>>] \in Seq(ToSet(network'[<<u, v>>]))
         /\ u = p /\ v \in {a, b} => Len(network'[<<u, v>>]) = Len(network[<<u, v>>]) + 1
         /\ ~(u = p /\ v \in {a, b}) => network'[<<u, v>>] = network[<<u, v>>]
<1> DEFINE c == <<u, v>>
           s == network[c]
<1>1. c \in Channels /\ s \in Seq(ToSet(s))
  BY DEF Channels, ChannelInv
<1>2. (\E k \in 1..2 : c = <<p, <<a, b>>[k]>>) <=> u = p /\ v \in {a, b}
  OBVIOUS
<1>3. CASE u = p /\ v \in {a, b}
  <2>1. PICK layer : network'[c] = Append(s, layer)
    BY <1>1, <1>2, <1>3 DEF Post
  <2> HIDE DEF s, c
  <2>2. Append(s, layer) \in Seq(ToSet(Append(s, layer))) /\ Len(Append(s, layer)) = Len(s) + 1
    BY <1>1, SequenceOfLayers
  <2>3. QED
    BY <1>3, <2>1, <2>2 DEF c, s
<1>4. CASE ~(u = p /\ v \in {a, b})
  BY <1>1, <1>2, <1>4 DEF Post
<1>5. QED
  BY <1>3, <1>4

\* What Take removes from it
LEMMA Taken ==
  ASSUME ChannelInv, NEW p \in Processes, NEW a, NEW b,
         Arrived(p, <<a, b>>), Take(p, <<a, b>>), NEW u \in Processes, NEW v \in Processes
  PROVE  /\ network'[<<u, v>>] \in Seq(ToSet(network'[<<u, v>>]))
         /\ v = p /\ u \in {a, b} => Len(network'[<<u, v>>]) = Len(network[<<u, v>>]) - 1
         /\ ~(v = p /\ u \in {a, b}) => network'[<<u, v>>] = network[<<u, v>>]
<1> DEFINE c == <<u, v>>
           s == network[c]
<1>1. c \in Channels /\ s \in Seq(ToSet(s))
  BY DEF Channels, ChannelInv
<1>2. c \in Awaited(p, <<a, b>>) <=> v = p /\ u \in {a, b}
  BY <1>1 DEF Awaited
<1>3. CASE v = p /\ u \in {a, b}
  <2>1. network'[c] = Tail(s) /\ s # <<>>
    BY <1>1, <1>2, <1>3 DEF Take, Arrived
  <2> HIDE DEF s, c
  <2>2. Tail(s) \in Seq(ToSet(Tail(s))) /\ Len(Tail(s)) = Len(s) - 1
    BY <1>1, <2>1, SequenceOfLayers
  <2>3. QED
    BY <1>3, <2>1, <2>2 DEF c, s
<1>4. CASE ~(v = p /\ u \in {a, b})
  BY <1>1, <1>2, <1>4 DEF Take
<1>5. QED
  BY <1>3, <1>4

-----------------------------------------------------------------------------
(***************************************************************************)
(* Steps of one process                                                    *)
(***************************************************************************)

\* The constants of a simulation
LEMMA Simulation ==
  ASSUME LoopTypeOK
  PROVE  /\ flags.num_ranks \in Nat \ {0} /\ flags.num_iterations \in Nat \ {0}
         /\ flags.adaptation_frequency \in Nat \ {0}
         /\ 0 \in Processes /\ Processes \subseteq Nat
BY SimulationAssumption DEF LoopTypeOK, Processes

\* While the communicator stays, so do the neighbours.
LEMMA SameNeighbours ==
  ASSUME UNCHANGED <<flags, current_comm>>, NEW p, NEW q
  PROVE  /\ Processes' = Processes
         /\ Beside(p, q)' <=> Beside(p, q)
         /\ Above(p, q)' <=> Above(p, q)
BY DEF Processes, Beside, Above, Info

\* The steps from the sends to the gathering are all within an iteration.
LEMMA WithinIteration ==
  ASSUME LayersInv, NEW p \in Processes, NEW where \in Place,
         p < current_comm[0],
         pc[p] \in {"iterate", "left_right", "between", "bottom_up"},
         where \in {"left_right", "between", "bottom_up", "gather"},
         Goto(p, where),
         UNCHANGED <<flags, iteration, current_comm, num_adaptations>>
  PROVE  LoopTypeOK' /\ CommInv' /\ EpochInv' /\ RecordedInv'
<1>1. /\ Processes' = Processes /\ Processes \subseteq Nat /\ 0 \in Processes
      /\ pc' \in [Processes -> Place]
      /\ pc'[p] = where /\ \A q \in Processes : q # p => pc'[q] = pc[q]
  BY Simulation DEF LayersInv, LoopTypeOK, Goto, Processes
<1>2. LoopTypeOK'
  BY <1>1 DEF LayersInv, LoopTypeOK
<1>3. CommInv'
  BY <1>1 DEF LayersInv, CommInv, get_comm, Processes
<1>4. EpochInv'
  BY <1>1 DEF LayersInv, EpochInv, Epoch, LastEpoch
<1>5. RecordedInv'
  BY <1>1 DEF LayersInv, RecordedInv, Recorded, Past
<1>6. QED
  BY <1>2, <1>3, <1>4, <1>5

\* At the end of an iteration its number tells what comes next.
LEMMA IterationEnds ==
  ASSUME LayersInv, NEW p \in Processes, pc[p] \notin {"barrier", "done"},
         NextIteration(p), UNCHANGED <<flags, current_comm, num_adaptations>>
  PROVE  /\ LoopTypeOK' /\ CommInv' /\ EpochInv'
         /\ pc'[p] \in {"barrier", "iterate", "done"} /\ iteration'[p] = iteration[p] + 1
         /\ \A q \in Processes : q # p => pc'[q] = pc[q] /\ iteration'[q] = iteration[q]
<1> DEFINE i == iteration[p]
           f == flags.adaptation_frequency
<1>1. /\ Processes' = Processes /\ Processes \subseteq Nat
      /\ flags.num_iterations \in Nat \ {0} /\ f \in Nat \ {0}
      /\ i \in Nat /\ num_adaptations \in Nat
      /\ pc \in [Processes -> Place] /\ iteration \in [Processes -> Nat]
  BY Simulation DEF LayersInv, LoopTypeOK, Processes
<1>2. /\ iteration'[p] = i + 1
      /\ pc'[p] = IF i + 1 = flags.num_iterations THEN "done"
                  ELSE IF (i + 1) % f = 0 THEN "barrier" ELSE "iterate"
      /\ \A q \in Processes : q # p => pc'[q] = pc[q] /\ iteration'[q] = iteration[q]
      /\ pc' \in [Processes -> Place] /\ iteration' \in [Processes -> Nat]
  BY <1>1 DEF NextIteration, Place
<1>3. LoopTypeOK'
  BY <1>1, <1>2 DEF LayersInv, LoopTypeOK
<1>4. CommInv'
  BY <1>1, <1>2 DEF LayersInv, CommInv, get_comm, Processes
<1>5. EpochInv'
  <2>1. /\ (i \div f) + 1 = num_adaptations /\ i < flags.num_iterations
        /\ i + 1 = flags.num_iterations => LastEpoch = i \div f
    <3>1. i + 1 = flags.num_iterations => i = flags.num_iterations - 1
      BY <1>1
    <3>2. QED
      BY <3>1 DEF LayersInv, EpochInv, Epoch, LastEpoch
  <2>2. (i + 1) \div f = IF (i + 1) % f = 0 THEN (i \div f) + 1 ELSE i \div f
    BY <1>1, NextEpoch
  <2>3. LastEpoch' = LastEpoch
    BY DEF LastEpoch
  <2>4. ASSUME NEW q \in Processes
        PROVE  /\ pc'[q] = "barrier" => iteration'[q] % f = 0
               /\ pc'[q] = "barrier" => iteration'[q] \div f = num_adaptations
               /\ pc'[q] \notin {"barrier", "done"} => (iteration'[q] \div f) + 1 = num_adaptations
               /\ pc'[q] = "done" => LastEpoch + 1 = num_adaptations
               /\ IF pc'[q] = "done" THEN iteration'[q] = flags.num_iterations
                                     ELSE iteration'[q] < flags.num_iterations
    <3>1. CASE q # p
      BY <1>2, <3>1 DEF LayersInv, EpochInv, Epoch
    <3>2. CASE q = p
      <4> DEFINE d == i \div f
                 e == (i + 1) \div f
                 r == (i + 1) % f
      <4>1. /\ d + 1 = num_adaptations /\ i < flags.num_iterations
            /\ i + 1 = flags.num_iterations => LastEpoch = d
            /\ e = IF r = 0 THEN d + 1 ELSE d
        BY <2>1, <2>2
      <4> HIDE DEF d, e, r
      <4>2. /\ pc'[p] = IF i + 1 = flags.num_iterations THEN "done"
                        ELSE IF r = 0 THEN "barrier" ELSE "iterate"
            /\ iteration'[q] = i + 1 /\ iteration'[q] \div f = e /\ iteration'[q] % f = r
        BY <1>2, <3>2 DEF e, r
      <4>3. QED
        BY <1>1, <3>2, <4>1, <4>2
    <3>3. QED
      BY <3>1, <3>2
  <2>5. QED
    BY <1>1, <2>3, <2>4 DEF EpochInv, Epoch
<1>6. QED
  BY <1>2, <1>3, <1>4, <1>5

\* Channels that nobody sends to or takes from, and the counts for them
LEMMA ChannelsStay ==
  ASSUME ChannelInv, UNCHANGED network, Processes' = Processes,
         \A u, v \in Processes : UnderWay(u, v)' = UnderWay(u, v)
  PROVE  ChannelInv'
<1>1. ASSUME NEW u \in Processes, NEW v \in Processes
      PROVE  /\ network'[<<u, v>>] \in Seq(ToSet(network'[<<u, v>>]))
             /\ Len(network'[<<u, v>>]) = UnderWay(u, v)'
  <2>1. network'[<<u, v>>] = network[<<u, v>>]
    OBVIOUS
  <2>2. /\ network[<<u, v>>] \in Seq(ToSet(network[<<u, v>>]))
        /\ Len(network[<<u, v>>]) = UnderWay(u, v)'
    BY DEF ChannelInv
  <2>3. QED
    BY <2>1, <2>2, Zenon
<1>2. QED
  BY <1>1, Zenon DEF ChannelInv

\* The step of a process outside of the communicator
LEMMA SkipKeeps ==
  ASSUME LayersInv, NEW p \in Processes, Skip(p)
  PROVE  LayersInv'
<1> DEFINE n == current_comm[0]
<1>1. /\ UNCHANGED <<flags, current_comm, num_adaptations, network>>
      /\ pc[p] = "iterate" /\ NextIteration(p)
  BY DEF Skip
<1>2. /\ LoopTypeOK' /\ CommInv' /\ EpochInv'
      /\ \A q \in Processes : q # p => pc'[q] = pc[q] /\ iteration'[q] = iteration[q]
  BY <1>1, IterationEnds
<1>3. /\ Processes' = Processes /\ ~(p < n)
      /\ \A u, v \in Processes : (Beside(u, v)' <=> Beside(u, v)) /\ (Above(u, v)' <=> Above(u, v))
      /\ \A u, v \in Processes : Beside(u, v) \/ Above(u, v) => u < n /\ v < n
  <2>1. ~(p < n)
    BY Simulation DEF Skip, LayersInv, CommInv, get_comm, Processes
  <2>2. \A u, v \in Processes : Beside(u, v) \/ Above(u, v) => u < n /\ v < n
    BY NeighboursMutual DEF LayersInv
  <2>3. QED
    BY <1>1, <2>1, <2>2, SameNeighbours
<1>4. RecordedInv'
  BY <1>1, <1>2, <1>3 DEF LayersInv, RecordedInv, Recorded, Past
<1>5. ChannelInv'
  <2>1. ASSUME NEW u \in Processes, NEW v \in Processes
        PROVE  UnderWay(u, v)' = UnderWay(u, v)
    <3>1. u < n /\ v < n => u # p /\ v # p
      BY <1>3
    <3>2. QED
      BY <1>2, <1>3, <3>1
      DEF UnderWay, SentBeside, TakenBeside, SentAbove, TakenAbove, Past
  <2>2. QED
    BY <1>1, <1>3, <2>1, ChannelsStay DEF LayersInv
<1>6. QED
  BY <1>2, <1>4, <1>5 DEF LayersInv


\* What the processes have sent and taken when one of them goes on
LEMMA PlacesCounted ==
  ASSUME LayersInv, NEW p \in Processes, NEW where, Goto(p, where), UNCHANGED iteration,
         NEW q \in Processes
  PROVE  /\ SentBeside(q) \in Nat /\ TakenBeside(q) \in Nat
         /\ SentAbove(q) \in Nat /\ TakenAbove(q) \in Nat
         /\ q # p => /\ SentBeside(q)' = SentBeside(q) /\ TakenBeside(q)' = TakenBeside(q)
                     /\ SentAbove(q)' = SentAbove(q) /\ TakenAbove(q)' = TakenAbove(q)
         /\ pc[p] = "iterate" /\ where = "left_right" =>
              /\ SentBeside(p)' = SentBeside(p) + 1 /\ TakenBeside(p)' = TakenBeside(p)
              /\ SentAbove(p)' = SentAbove(p) /\ TakenAbove(p)' = TakenAbove(p)
         /\ pc[p] = "left_right" /\ where = "between" =>
              /\ SentBeside(p)' = SentBeside(p) /\ TakenBeside(p)' = TakenBeside(p) + 1
              /\ SentAbove(p)' = SentAbove(p) /\ TakenAbove(p)' = TakenAbove(p)
         /\ pc[p] = "between" /\ where = "bottom_up" =>
              /\ SentBeside(p)' = SentBeside(p) /\ TakenBeside(p)' = TakenBeside(p)
              /\ SentAbove(p)' = SentAbove(p) + 1 /\ TakenAbove(p)' = TakenAbove(p)
         /\ pc[p] = "bottom_up" /\ where = "gather" =>
              /\ SentBeside(p)' = SentBeside(p) /\ TakenBeside(p)' = TakenBeside(p)
              /\ SentAbove(p)' = SentAbove(p) /\ TakenAbove(p)' = TakenAbove(p) + 1
<1>1. /\ pc'[p] = where /\ iteration[q] \in Nat /\ iteration[p] \in Nat
      /\ iteration'[q] = iteration[q] /\ iteration'[p] = iteration[p]
      /\ q # p => pc'[q] = pc[q]
  BY DEF LayersInv, LoopTypeOK, Goto
<1>2. QED
  BY <1>1 DEF SentBeside, TakenBeside, SentAbove, TakenAbove, Past

\* The layers of one more iteration are under way to those beside p.
LEMMA SendLeftRightKeeps ==
  ASSUME LayersInv, NEW p \in Processes, SendLeftRight(p)
  PROVE  LayersInv'
<1>1. /\ UNCHANGED <<flags, iteration, current_comm, num_adaptations>>
      /\ pc[p] = "iterate" /\ Goto(p, "left_right") /\ p < current_comm[0]
      /\ Post(p, <<Info(p).left, Info(p).right>>, Columns(local_grid[p]))
  BY Simulation DEF SendLeftRight, Horizontal, LayersInv, CommInv, get_comm, Processes
<1>2. LoopTypeOK' /\ CommInv' /\ EpochInv' /\ RecordedInv'
  BY <1>1, WithinIteration DEF Place
<1>3. ChannelInv'
  <2>1. ASSUME NEW u \in Processes, NEW v \in Processes
        PROVE  /\ network'[<<u, v>>] \in Seq(ToSet(network'[<<u, v>>]))
               /\ Len(network'[<<u, v>>]) = UnderWay(u, v)'
    <3>1. /\ network'[<<u, v>>] \in Seq(ToSet(network'[<<u, v>>]))
          /\ u = p /\ Beside(p, v) => Len(network'[<<u, v>>]) = Len(network[<<u, v>>]) + 1
          /\ ~(u = p /\ Beside(p, v)) => network'[<<u, v>>] = network[<<u, v>>]
      BY <1>1, Posted DEF LayersInv, Beside
    <3>2. Len(network[<<u, v>>]) = UnderWay(u, v)
      BY DEF LayersInv, ChannelInv
    <3>3. UnderWay(u, v)' = IF u = p /\ Beside(p, v) THEN UnderWay(u, v) + 1 ELSE UnderWay(u, v)
      BY <1>1, SameNeighbours, NeighboursMutual, PlacesCounted DEF LayersInv, UnderWay
    <3>4. QED
      BY <3>1, <3>2, <3>3
  <2>2. QED
    BY <1>1, <2>1, SameNeighbours, Zenon DEF ChannelInv
<1>4. QED
  BY <1>2, <1>3 DEF LayersInv

\* And p has taken theirs.
LEMMA AwaitLeftRightKeeps ==
  ASSUME LayersInv, NEW p \in Processes, AwaitLeftRight(p)
  PROVE  LayersInv'
<1>1. /\ UNCHANGED <<flags, iteration, current_comm, num_adaptations>>
      /\ pc[p] = "left_right" /\ Goto(p, "between") /\ p < current_comm[0]
      /\ Arrived(p, <<Info(p).left, Info(p).right>>) /\ Take(p, <<Info(p).left, Info(p).right>>)
  <2>1. p < current_comm[0]
    BY Simulation DEF AwaitLeftRight, LayersInv, CommInv
  <2>2. QED
    BY <2>1 DEF AwaitLeftRight, Horizontal
<1>2. LoopTypeOK' /\ CommInv' /\ EpochInv' /\ RecordedInv'
  BY <1>1, WithinIteration DEF Place
<1>3. ChannelInv'
  <2>1. ASSUME NEW u \in Processes, NEW v \in Processes
        PROVE  /\ network'[<<u, v>>] \in Seq(ToSet(network'[<<u, v>>]))
               /\ Len(network'[<<u, v>>]) = UnderWay(u, v)'
    <3>1. /\ network'[<<u, v>>] \in Seq(ToSet(network'[<<u, v>>]))
          /\ v = p /\ Beside(p, u) => Len(network'[<<u, v>>]) = Len(network[<<u, v>>]) - 1
          /\ ~(v = p /\ Beside(p, u)) => network'[<<u, v>>] = network[<<u, v>>]
      <4> DEFINE a == Info(p).left
                 b == Info(p).right
      <4>1. Beside(p, u) <=> u \in {a, b}
        BY DEF Beside
      <4>2. Arrived(p, <<a, b>>) /\ Take(p, <<a, b>>) /\ ChannelInv
        BY <1>1 DEF LayersInv
      <4> HIDE DEF a, b
      <4>3. /\ network'[<<u, v>>] \in Seq(ToSet(network'[<<u, v>>]))
            /\ v = p /\ u \in {a, b} => Len(network'[<<u, v>>]) = Len(network[<<u, v>>]) - 1
            /\ ~(v = p /\ u \in {a, b}) => network'[<<u, v>>] = network[<<u, v>>]
        BY <4>2, Taken DEF Arrived, Take
      <4>4. QED
        BY <4>1, <4>3, Zenon
    <3>2. Len(network[<<u, v>>]) = UnderWay(u, v)
      BY DEF LayersInv, ChannelInv
    <3>3. UnderWay(u, v)' = IF v = p /\ Beside(p, u) THEN UnderWay(u, v) - 1 ELSE UnderWay(u, v)
      BY <1>1, SameNeighbours, NeighboursMutual, PlacesCounted DEF LayersInv, UnderWay
    <3>4. QED
      BY <3>1, <3>2, <3>3
  <2>2. QED
    BY <1>1, <2>1, SameNeighbours, Zenon DEF ChannelInv
<1>4. QED
  BY <1>2, <1>3 DEF LayersInv

\* The same for those above and below
LEMMA SendBottomUpKeeps ==
  ASSUME LayersInv, NEW p \in Processes, SendBottomUp(p)
  PROVE  LayersInv'
<1>1. /\ UNCHANGED <<flags, iteration, current_comm, num_adaptations>>
      /\ pc[p] = "between" /\ Goto(p, "bottom_up") /\ p < current_comm[0]
      /\ Post(p, <<Info(p).up, Info(p).down>>, Rows(local_grid[p]))
  <2>1. p < current_comm[0]
    BY Simulation DEF SendBottomUp, LayersInv, CommInv
  <2>2. QED
    BY <2>1 DEF SendBottomUp, Vertical
<1>2. LoopTypeOK' /\ CommInv' /\ EpochInv' /\ RecordedInv'
  BY <1>1, WithinIteration DEF Place
<1>3. ChannelInv'
  <2>1. ASSUME NEW u \in Processes, NEW v \in Processes
        PROVE  /\ network'[<<u, v>>] \in Seq(ToSet(network'[<<u, v>>]))
               /\ Len(network'[<<u, v>>]) = UnderWay(u, v)'
    <3>1. /\ network'[<<u, v>>] \in Seq(ToSet(network'[<<u, v>>]))
          /\ u = p /\ Above(p, v) => Len(network'[<<u, v>>]) = Len(network[<<u, v>>]) + 1
          /\ ~(u = p /\ Above(p, v)) => network'[<<u, v>>] = network[<<u, v>>]
      BY <1>1, Posted DEF LayersInv, Above
    <3>2. Len(network[<<u, v>>]) = UnderWay(u, v)
      BY DEF LayersInv, ChannelInv
    <3>3. UnderWay(u, v)' = IF u = p /\ Above(p, v) THEN UnderWay(u, v) + 1 ELSE UnderWay(u, v)
      BY <1>1, SameNeighbours, NeighboursMutual, PlacesCounted DEF LayersInv, UnderWay
    <3>4. QED
      BY <3>1, <3>2, <3>3
  <2>2. QED
    BY <1>1, <2>1, SameNeighbours, Zenon DEF ChannelInv
<1>4. QED
  BY <1>2, <1>3 DEF LayersInv

\* Here p has taken theirs too.
LEMMA AwaitBottomUpKeeps ==
  ASSUME LayersInv, NEW p \in Processes, AwaitBottomUp(p)
  PROVE  LayersInv'
<1>1. /\ UNCHANGED <<flags, iteration, current_comm, num_adaptations>>
      /\ pc[p] = "bottom_up" /\ Goto(p, "gather") /\ p < current_comm[0]
      /\ Arrived(p, <<Info(p).up, Info(p).down>>) /\ Take(p, <<Info(p).up, Info(p).down>>)
  <2>1. p < current_comm[0]
    BY Simulation DEF AwaitBottomUp, LayersInv, CommInv
  <2>2. QED
    BY <2>1 DEF AwaitBottomUp, Vertical
<1>2. LoopTypeOK' /\ CommInv' /\ EpochInv' /\ RecordedInv'
  BY <1>1, WithinIteration DEF Place
<1>3. ChannelInv'
  <2>1. ASSUME NEW u \in Processes, NEW v \in Processes
        PROVE  /\ network'[<<u, v>>] \in Seq(ToSet(network'[<<u, v>>]))
               /\ Len(network'[<<u, v>>]) = UnderWay(u, v)'
    <3>1. /\ network'[<<u, v>>] \in Seq(ToSet(network'[<<u, v>>]))
          /\ v = p /\ Above(p, u) => Len(network'[<<u, v>>]) = Len(network[<<u, v>>]) - 1
          /\ ~(v = p /\ Above(p, u)) => network'[<<u, v>>] = network[<<u, v>>]
      <4> DEFINE a == Info(p).up
                 b == Info(p).down
      <4>1. Above(p, u) <=> u \in {a, b}
        BY DEF Above
      <4>2. Arrived(p, <<a, b>>) /\ Take(p, <<a, b>>) /\ ChannelInv
        BY <1>1 DEF LayersInv
      <4> HIDE DEF a, b
      <4>3. /\ network'[<<u, v>>] \in Seq(ToSet(network'[<<u, v>>]))
            /\ v = p /\ u \in {a, b} => Len(network'[<<u, v>>]) = Len(network[<<u, v>>]) - 1
            /\ ~(v = p /\ u \in {a, b}) => network'[<<u, v>>] = network[<<u, v>>]
        BY <4>2, Taken DEF Arrived, Take
      <4>4. QED
        BY <4>1, <4>3, Zenon
    <3>2. Len(network[<<u, v>>]) = UnderWay(u, v)
      BY DEF LayersInv, ChannelInv
    <3>3. UnderWay(u, v)' = IF v = p /\ Above(p, u) THEN UnderWay(u, v) - 1 ELSE UnderWay(u, v)
      BY <1>1, SameNeighbours, NeighboursMutual, PlacesCounted DEF LayersInv, UnderWay
    <3>4. QED
      BY <3>1, <3>2, <3>3
  <2>2. QED
    BY <1>1, <2>1, SameNeighbours, Zenon DEF ChannelInv
<1>4. QED
  BY <1>2, <1>3 DEF LayersInv

\* After the last place of an iteration the counts are those of the next one.
LEMMA JacobiKeeps ==
  ASSUME LayersInv, NEW p \in Processes, Jacobi(p)
  PROVE  LayersInv'
<1>1. /\ UNCHANGED <<flags, current_comm, num_adaptations, network>>
      /\ pc[p] = "jacobi" /\ NextIteration(p)
  BY DEF Jacobi
<1>2. /\ LoopTypeOK' /\ CommInv' /\ EpochInv'
      /\ pc'[p] \in {"barrier", "iterate", "done"} /\ iteration'[p] = iteration[p] + 1
      /\ \A q \in Processes : q # p => pc'[q] = pc[q] /\ iteration'[q] = iteration[q]
  BY <1>1, IterationEnds
<1>3. ASSUME NEW q \in Processes
      PROVE  /\ SentBeside(q)' = SentBeside(q) /\ TakenBeside(q)' = TakenBeside(q)
             /\ SentAbove(q)' = SentAbove(q) /\ TakenAbove(q)' = TakenAbove(q)
             /\ Recorded(q)' = Recorded(q)
  <2>1. iteration[q] \in Nat
    BY DEF LayersInv, LoopTypeOK
  <2>2. QED
    BY <1>1, <1>2, <2>1
    DEF SentBeside, TakenBeside, SentAbove, TakenAbove, Recorded, Past
<1>4. Processes' = Processes
  BY <1>1, SameNeighbours
<1>5. RecordedInv'
  BY <1>1, <1>3, <1>4 DEF LayersInv, RecordedInv
<1>6. ChannelInv'
  <2>1. \A u, v \in Processes : UnderWay(u, v)' = UnderWay(u, v)
    BY <1>1, <1>3, SameNeighbours DEF UnderWay
  <2>2. QED
    BY <1>1, <1>4, <2>1, ChannelsStay DEF LayersInv
<1>7. QED
  BY <1>2, <1>5, <1>6 DEF LayersInv

-----------------------------------------------------------------------------
(***************************************************************************)
(* Steps of several processes                                              *)
(***************************************************************************)

\* All that gather the grid are in the same iteration, and go on together.
LEMMA RecordTimestepKeeps ==
  ASSUME LayersInv, RecordTimestep
  PROVE  LayersInv'
<1> DEFINE n == current_comm[0]
<1>1. /\ UNCHANGED <<flags, iteration, current_comm, num_adaptations, network>>
      /\ pc' = [p \in Processes |-> IF p < n THEN "jacobi" ELSE pc[p]]
      /\ AllAtGather
  BY DEF RecordTimestep
<1>2. /\ Processes' = Processes /\ Processes \subseteq Nat /\ n \in Nat /\ n <= flags.num_ranks
      /\ \A p \in Processes : p < n => pc[p] = "gather" /\ pc'[p] = "jacobi"
      /\ \A p \in Processes : ~(p < n) => pc'[p] = pc[p]
      /\ \A p \in Processes : iteration[p] \in Nat /\ iteration'[p] = iteration[p]
  <2>1. Processes' = Processes /\ Processes \subseteq Nat /\ n \in Nat /\ n <= flags.num_ranks
    BY <1>1, Simulation, SameNeighbours DEF LayersInv, CommInv
  <2>2. \A p \in Processes : p < n => pc[p] = "gather"
    BY <1>1, <2>1 DEF AllAtGather
  <2>3. QED
    BY <1>1, <2>1, <2>2 DEF LayersInv, LoopTypeOK
<1>3. LoopTypeOK'
  BY <1>1, <1>2 DEF LayersInv, LoopTypeOK, Place
<1>4. CommInv'
  BY <1>1, <1>2 DEF LayersInv, CommInv, get_comm
<1>5. EpochInv'
  BY <1>1, <1>2 DEF LayersInv, EpochInv, Epoch, LastEpoch
<1>6. RecordedInv'
  BY <1>1, <1>2 DEF LayersInv, RecordedInv, Recorded, Past
<1>7. ChannelInv'
  <2>1. ASSUME NEW q \in Processes
        PROVE  /\ SentBeside(q)' = SentBeside(q) /\ TakenBeside(q)' = TakenBeside(q)
               /\ SentAbove(q)' = SentAbove(q) /\ TakenAbove(q)' = TakenAbove(q)
    BY <1>2 DEF SentBeside, TakenBeside, SentAbove, TakenAbove, Past
  <2>2. \A u, v \in Processes : UnderWay(u, v)' = UnderWay(u, v)
    BY <1>1, <2>1, SameNeighbours DEF UnderWay
  <2>3. QED
    BY <1>1, <1>2, <2>2, ChannelsStay DEF LayersInv
<1>8. QED
  BY <1>3, <1>4, <1>5, <1>6, <1>7 DEF LayersInv

\* Those at the barrier are at the start of the same iteration.
LEMMA SameIteration ==
  ASSUME LayersInv, NEW p \in Processes, NEW q \in Processes,
         pc[p] = "barrier", pc[q] = "barrier"
  PROVE  iteration[p] = iteration[q]
<1>1. /\ iteration[p] \in Nat /\ iteration[q] \in Nat /\ flags.adaptation_frequency \in Nat \ {0}
  BY Simulation DEF LayersInv, LoopTypeOK
<1>2. /\ iteration[p] % flags.adaptation_frequency = 0
      /\ iteration[q] % flags.adaptation_frequency = 0
      /\ iteration[p] \div flags.adaptation_frequency = iteration[q] \div flags.adaptation_frequency
  BY DEF LayersInv, EpochInv, Epoch
<1>3. QED
  BY <1>1, <1>2, EpochOrder, Zenon

\* When all are at the barrier no layer is under way, and the communicator may
\* change.
LEMMA AdaptKeeps ==
  ASSUME LayersInv, Adapt
  PROVE  LayersInv'
<1> DEFINE n == get_next_num_ranks
<1>1. /\ UNCHANGED <<flags, iteration, network>>
      /\ \A p \in Processes : pc[p] = "barrier"
      /\ current_comm' = get_comm(n) /\ num_adaptations' = num_adaptations + 1
      /\ pc' = [p \in Processes |-> "iterate"]
  BY DEF Adapt, AllAtBarrier
<1>2. /\ Processes' = Processes /\ Processes \subseteq Nat /\ 0 \in Processes
      /\ num_adaptations \in Nat /\ \A p \in Processes : iteration[p] \in Nat
  BY <1>1, Simulation DEF Processes, LayersInv, LoopTypeOK
<1>3. n \in 1..flags.num_ranks
  <2>1. num_adaptations \in Nat /\ flags.num_ranks \in Nat \ {0}
    BY Simulation DEF LayersInv, LoopTypeOK
  <2>2. num_adaptations % flags.num_ranks \in 0..flags.num_ranks-1
    BY <2>1, Division, Zenon
  <2>3. n = (num_adaptations % flags.num_ranks) + 1
    BY DEF get_next_num_ranks
  <2> HIDE DEF n
  <2>4. QED
    BY <2>1, <2>2, <2>3
<1>4. LoopTypeOK'
  BY <1>1, <1>2 DEF LayersInv, LoopTypeOK, Place
<1>5. CommInv'
  <2>1. current_comm'[0] = n
    BY <1>1, <1>2, <1>3 DEF get_comm
  <2>2. current_comm' = [p \in Processes |-> IF p < n THEN n ELSE 0]
    BY <1>1 DEF get_comm
  <2> HIDE DEF n
  <2>3. get_comm(current_comm[0])' = [p \in Processes |-> IF p < n THEN n ELSE 0]
    BY <1>2, <2>1 DEF get_comm
  <2>4. \A p \in Processes' : p >= current_comm'[0] => pc'[p] \in {"barrier", "iterate", "done"}
    BY <1>1, <1>2
  <2>5. QED
    BY <1>1, <1>3, <2>1, <2>2, <2>3, <2>4 DEF CommInv
<1>6. EpochInv'
  BY <1>1, <1>2 DEF LayersInv, EpochInv, Epoch, LastEpoch
<1>7. \A p, q \in Processes : iteration[p] = iteration[q]
  BY <1>1, SameIteration
<1>8. RecordedInv'
  BY <1>1, <1>2, <1>7 DEF RecordedInv, Recorded, Past
<1>9. ChannelInv'
  <2>1. \A u, v \in Processes : UnderWay(u, v) = 0 /\ UnderWay(u, v)' = 0
    BY <1>1, <1>2, <1>7 DEF UnderWay, SentBeside, TakenBeside, SentAbove, TakenAbove, Past
  <2>2. QED
    BY <1>1, <1>2, <2>1, ChannelsStay DEF LayersInv
<1>10. QED
  BY <1>4, <1>5, <1>6, <1>8, <1>9 DEF LayersInv

LEMMA InitLayers ==
  ASSUME Init
  PROVE  LayersInv
<1>1. /\ flags \in Simulations /\ num_adaptations = 0 /\ current_comm = get_comm(1)
      /\ pc = [p \in Processes |-> "barrier"] /\ iteration = [p \in Processes |-> 0]
      /\ network = [c \in Channels |-> <<>>]
  BY DEF Init
<1>2. LoopTypeOK
  BY <1>1 DEF LoopTypeOK, Place
<1>3. /\ flags.num_ranks \in Nat \ {0} /\ flags.num_iterations \in Nat \ {0}
      /\ flags.adaptation_frequency \in Nat \ {0}
      /\ 0 \in Processes /\ Processes \subseteq Nat
  BY <1>2, Simulation
<1>4. CommInv
  <2>1. current_comm[0] = 1
    BY <1>1, <1>3 DEF get_comm
  <2>2. QED
    BY <1>1, <1>3, <2>1 DEF CommInv
<1>5. 0 \div flags.adaptation_frequency = 0 /\ 0 % flags.adaptation_frequency = 0
  BY <1>3
<1>6. EpochInv
  BY <1>1, <1>3, <1>5 DEF EpochInv, Epoch
<1>7. RecordedInv
  BY <1>1 DEF RecordedInv, Recorded, Past
<1>8. ChannelInv
  <2>1. ASSUME NEW u \in Processes, NEW v \in Processes
        PROVE  network[<<u, v>>] = <<>> /\ UnderWay(u, v) = 0
    BY <1>1 DEF Channels, UnderWay, SentBeside, TakenBeside, SentAbove, TakenAbove, Past
  <2>2. <<>> \in Seq(ToSet(<<>>)) /\ Len(<<>>) = 0
    OBVIOUS
  <2>3. QED
    BY <2>1, <2>2, Zenon DEF ChannelInv
<1>9. QED
  BY <1>2, <1>4, <1>6, <1>7, <1>8 DEF LayersInv

\* A step that changes nothing
LEMMA StutterKeeps ==
  ASSUME LayersInv, UNCHANGED vars
  PROVE  LayersInv'
<1>1. /\ UNCHANGED <<flags, pc, iteration, current_comm, num_adaptations>>
      /\ UNCHANGED network
  BY DEF vars
<1>2. Processes' = Processes
  BY <1>1, SameNeighbours
<1>3. LoopTypeOK' /\ CommInv' /\ EpochInv' /\ RecordedInv'
  BY <1>1, <1>2
  DEF LayersInv, LoopTypeOK, CommInv, get_comm, EpochInv, Epoch, LastEpoch,
      RecordedInv, Recorded, Past
<1>4. \A u, v \in Processes : UnderWay(u, v)' = UnderWay(u, v)
  BY <1>1, SameNeighbours
  DEF UnderWay, SentBeside, TakenBeside, SentAbove, TakenAbove, Past
<1>5. ChannelInv'
  BY <1>1, <1>2, <1>4, ChannelsStay DEF LayersInv
<1>6. QED
  BY <1>3, <1>5 DEF LayersInv

\* The invariant of every simulation: a channel holds the layers that its two
\* ends tell of, and the processes are at most an iteration's meetings apart.
THEOREM LayersInvariance == Spec => []LayersInv
<1>1. Init => LayersInv
  BY InitLayers
<1>2. LayersInv /\ [Next]_vars => LayersInv'
  <2>1. ASSUME LayersInv, NEW p \in Processes, Step(p)
        PROVE  LayersInv'
    BY <2>1, SkipKeeps, SendLeftRightKeeps, AwaitLeftRightKeeps, SendBottomUpKeeps,
       AwaitBottomUpKeeps, JacobiKeeps DEF Step
  <2>2. QED
    BY <2>1, AdaptKeeps, RecordTimestepKeeps, StutterKeeps DEF Next
<1>3. QED
  BY <1>1, <1>2, PTL DEF Spec

-----------------------------------------------------------------------------
(***************************************************************************)
(* What the invariant says of the layers and of who waits for whom         *)
(***************************************************************************)

\* In an iteration that some process is within, nobody is at the barrier before
\* it or at the end.
LEMMA Within ==
  ASSUME LayersInv, NEW p \in Processes, NEW q \in Processes, iteration[p] = iteration[q],
         pc[p] \notin {"barrier", "done"}
  PROVE  pc[q] \notin {"barrier", "done"}
<1>1. /\ Epoch(p) + 1 = num_adaptations /\ iteration[p] < flags.num_iterations
      /\ pc[q] = "barrier" => Epoch(q) = num_adaptations
      /\ pc[q] = "done" => iteration[q] = flags.num_iterations
  BY DEF LayersInv, EpochInv
<1>2. Epoch(p) = Epoch(q)
  BY DEF Epoch
<1>3. iteration[p] \in Nat /\ Epoch(p) \in Nat /\ flags.num_iterations \in Nat
  BY Simulation, Division DEF LayersInv, LoopTypeOK, Epoch
<1>4. QED
  BY <1>1, <1>2, <1>3

\* Nobody is done while another is at the barrier.
LEMMA BarrierOrDone ==
  ASSUME LayersInv, NEW p \in Processes, NEW q \in Processes, pc[p] = "barrier"
  PROVE  pc[q] # "done"
<1>1. SUFFICES ASSUME pc[q] = "done" PROVE FALSE
  OBVIOUS
<1>2. /\ iteration[p] \in Nat /\ flags.num_iterations - 1 \in Nat
      /\ flags.adaptation_frequency \in Nat \ {0} /\ iteration[p] <= flags.num_iterations - 1
  BY Simulation DEF LayersInv, LoopTypeOK, EpochInv
<1>3. Epoch(p) <= LastEpoch
  BY <1>2, EpochOrder DEF Epoch, LastEpoch
<1>4. Epoch(p) = num_adaptations /\ LastEpoch + 1 = num_adaptations
  BY <1>1 DEF LayersInv, EpochInv
<1>5. Epoch(p) \in Nat /\ LastEpoch \in Nat
  BY <1>2, Division DEF Epoch, LastEpoch
<1>6. QED
  BY <1>3, <1>4, <1>5

\* What a process has sent or taken in an iteration that all have come to
LEMMA SentAndTaken ==
  ASSUME LayersInv, NEW p \in Processes
  PROVE  /\ iteration[p] \in Nat /\ pc[p] \in Place
         /\ SentBeside(p) \in Nat /\ TakenBeside(p) \in Nat
         /\ SentAbove(p) \in Nat /\ TakenAbove(p) \in Nat
         /\ Recorded(p) <= TakenAbove(p) /\ TakenAbove(p) <= SentAbove(p)
         /\ SentAbove(p) <= TakenBeside(p) /\ TakenBeside(p) <= SentBeside(p)
         /\ SentBeside(p) <= iteration[p] + 1 /\ iteration[p] <= Recorded(p)
BY DEF LayersInv, LoopTypeOK, SentBeside, TakenBeside, SentAbove, TakenAbove, Recorded, Past

\* A layer is only under way between two processes of the communicator that are
\* within an iteration: none is left for the next communicator to find.
THEOREM NoLayersLeft == Spec => []NoLayerLeft
<1>1. ASSUME LayersInv
      PROVE  NoLayerLeft
  <2>1. SUFFICES ASSUME NEW u \in Processes, NEW v \in Processes, network[<<u, v>>] # <<>>
                 PROVE  /\ pc[u] \notin {"barrier", "done"} /\ current_comm[u] = current_comm[0]
                        /\ pc[v] \notin {"barrier", "done"} /\ current_comm[v] = current_comm[0]
    BY DEF NoLayerLeft, Channels
  <2>2. UnderWay(u, v) > 0
    <3> DEFINE s == network[<<u, v>>]
    <3>1. s \in Seq(ToSet(s)) /\ Len(s) = UnderWay(u, v) /\ s # <<>>
      BY <1>1, <2>1 DEF LayersInv, ChannelInv
    <3> HIDE DEF s
    <3>2. QED
      BY <3>1
  <2>3. /\ Beside(u, v) \/ Above(u, v)
        /\ u < current_comm[0] /\ v < current_comm[0]
    BY <1>1, <2>2, NeighboursMutual DEF LayersInv, UnderWay
  <2>4. current_comm[u] = current_comm[0] /\ current_comm[v] = current_comm[0]
    <3>1. current_comm[0] \in Nat \ {0} /\ 0 \in Processes
      BY <1>1, Simulation DEF LayersInv, CommInv
    <3>2. \A p \in Processes : current_comm[p] = IF p < current_comm[0] THEN current_comm[0] ELSE 0
      BY <1>1 DEF LayersInv, CommInv, get_comm
    <3>3. QED
      BY <2>3, <3>1, <3>2
  <2>5. SentBeside(u) > TakenBeside(v) \/ SentAbove(u) > TakenAbove(v)
    BY <1>1, <2>2, SentAndTaken DEF UnderWay
  <2>6. SentBeside(u) > Recorded(v) /\ Recorded(u) = Recorded(v)
    <3>1. Recorded(u) = Recorded(v)
      BY <1>1, <2>3 DEF LayersInv, RecordedInv
    <3>2. /\ Recorded(v) <= TakenAbove(v) /\ TakenAbove(v) <= TakenBeside(v)
          /\ SentAbove(u) <= SentBeside(u)
          /\ Recorded(v) \in Nat /\ TakenAbove(v) \in Nat /\ TakenBeside(v) \in Nat
          /\ SentAbove(u) \in Nat /\ SentBeside(u) \in Nat
      BY <1>1, SentAndTaken DEF Recorded, Past
    <3>3. QED
      BY <2>5, <3>1, <3>2
  <2>7. pc[u] \notin {"barrier", "done"} /\ (pc[v] \in {"barrier", "done"} => iteration[u] = iteration[v])
    <3>1. iteration[u] \in Nat /\ iteration[v] \in Nat
      BY <1>1, SentAndTaken
    <3>2. QED
      BY <2>6, <3>1 DEF SentBeside, Recorded, Past
  <2>8. QED
    BY <1>1, <2>4, <2>7, Within
<1>2. QED
  BY <1>1, LayersInvariance, PTL

\* The processes never all wait for each other, in whatever order they run: not
\* for a layer, not at the gathering and not at the barrier.
THEOREM DeadlockFreedom == Spec => []NoDeadlock
<1>1. ASSUME LayersInv, \A p \in Processes : ~Ready(p)
      PROVE  Done \/ AllAtBarrier \/ AllAtGather
  <2>1. /\ \A p \in Processes : pc[p] \in {"barrier", "done", "gather", "left_right", "bottom_up"}
        /\ \A p \in Processes : pc[p] = "left_right" => ~Arrived(p, <<Info(p).left, Info(p).right>>)
        /\ \A p \in Processes : pc[p] = "bottom_up" => ~Arrived(p, <<Info(p).up, Info(p).down>>)
    BY <1>1, SentAndTaken DEF Ready, Place, Horizontal, Vertical
  <2>2. ASSUME NEW p \in Processes, NEW q \in Processes, network[<<q, p>>] = <<>>
        PROVE  UnderWay(q, p) = 0
    <3>1. Len(<<>>) = 0
      OBVIOUS
    <3>2. QED
      BY <1>1, <2>2, <3>1 DEF LayersInv, ChannelInv
  <2>3. ASSUME NEW p \in Processes, pc[p] = "left_right"
        PROVE  FALSE
    <3>1. PICK q \in Processes : Beside(p, q) /\ network[<<q, p>>] = <<>>
      BY <2>1, <2>3 DEF Arrived, Awaited, Channels, Beside
    <3>2. /\ SentBeside(q) = TakenBeside(p) /\ Recorded(p) = Recorded(q)
          /\ iteration[p] \in Nat /\ iteration[q] \in Nat
      <4>1. Beside(q, p) /\ p < current_comm[0] /\ q < current_comm[0]
        BY <1>1, <3>1, NeighboursMutual DEF LayersInv
      <4>2. UnderWay(q, p) = 0
        BY <2>2, <3>1
      <4>3. SentBeside(q) = TakenBeside(p)
        BY <1>1, <4>1, <4>2, SentAndTaken DEF UnderWay
      <4>4. QED
        BY <1>1, <4>1, <4>3, SentAndTaken DEF LayersInv, RecordedInv
    <3>3. pc[q] \in {"barrier", "done"} /\ iteration[q] = iteration[p]
      BY <2>1, <2>3, <3>2 DEF SentBeside, TakenBeside, Recorded, Past
    <3>4. QED
      BY <1>1, <2>3, <3>3, Within
  <2>4. ASSUME NEW p \in Processes, pc[p] = "bottom_up"
        PROVE  FALSE
    <3>1. PICK q \in Processes : Above(p, q) /\ network[<<q, p>>] = <<>>
      BY <2>1, <2>4 DEF Arrived, Awaited, Channels, Above
    <3>2. /\ SentAbove(q) = TakenAbove(p) /\ Recorded(p) = Recorded(q)
          /\ iteration[p] \in Nat /\ iteration[q] \in Nat
      <4>1. Above(q, p) /\ ~Beside(q, p) /\ p < current_comm[0] /\ q < current_comm[0]
        BY <1>1, <3>1, NeighboursMutual DEF LayersInv
      <4>2. UnderWay(q, p) = 0
        BY <2>2, <3>1
      <4>3. SentAbove(q) = TakenAbove(p)
        BY <1>1, <4>1, <4>2, SentAndTaken DEF UnderWay
      <4>4. QED
        BY <1>1, <4>1, <4>3, SentAndTaken DEF LayersInv, RecordedInv
    <3>3. pc[q] \in {"barrier", "done"} /\ iteration[q] = iteration[p]
      BY <2>1, <2>3, <2>4, <3>2 DEF SentAbove, TakenAbove, Recorded, Past
    <3>4. QED
      BY <1>1, <2>4, <3>3, Within
  <2>5. \A p \in Processes : pc[p] \in {"barrier", "done", "gather"}
    BY <2>1, <2>3, <2>4
  <2>6. CASE \A p \in Processes : pc[p] # "gather"
    BY <1>1, <2>5, <2>6, BarrierOrDone DEF Done, AllAtBarrier
  <2>7. CASE \E p \in Processes : pc[p] = "gather"
    <3>1. PICK p \in Processes : pc[p] = "gather"
      BY <2>7
    <3>2. p < current_comm[0] /\ \A q \in 0..current_comm[0]-1 : q \in Processes /\ q < current_comm[0]
      <4>1. /\ p \in Nat /\ current_comm[0] \in Nat /\ current_comm[0] <= flags.num_ranks
            /\ flags.num_ranks \in Nat
        BY <1>1, Simulation DEF LayersInv, CommInv
      <4>2. ~(p >= current_comm[0])
        BY <1>1, <3>1 DEF LayersInv, CommInv
      <4>3. QED
        BY <4>1, <4>2 DEF Processes
    <3>3. ASSUME NEW q \in 0..current_comm[0]-1
          PROVE  pc[q] = "gather"
      <4>1. q \in Processes /\ Recorded(p) = Recorded(q)
        BY <1>1, <3>2, <3>3 DEF LayersInv, RecordedInv
      <4>2. iteration[p] = iteration[q]
        BY <1>1, <2>5, <3>1, <4>1, SentAndTaken DEF Recorded, Past
      <4>3. QED
        BY <1>1, <2>5, <3>1, <4>1, <4>2, Within
    <3>4. QED
      BY <3>3 DEF AllAtGather
  <2>8. QED
    BY <2>6, <2>7
<1>2. LayersInv => NoDeadlock
  BY <1>1 DEF NoDeadlock
<1>3. QED
  BY <1>2, LayersInvariance, PTL

-----------------------------------------------------------------------------
(***************************************************************************)
(* The parts of the array and the extents of the grids                     *)
(***************************************************************************)

\* The product of up to two numbers
LEMMA Products ==
  ASSUME NEW f
  PROVE  /\ ProductTo(f, 0) = 1
         /\ f[1] \in Int => ProductTo(f, 1) = f[1]
         /\ f[1] \in Int /\ f[2] \in Int => ProductTo(f, 2) = f[1] * f[2]
<1>1. /\ ProductTo(f, 0) = 1
      /\ ProductTo(f, 0 + 1) = ProductTo(f, 0) * f[0 + 1]
      /\ ProductTo(f, 1 + 1) = ProductTo(f, 1) * f[1 + 1]
  BY ProductStep
<1>2. QED
  BY <1>1

\* The coordinates of a rank in a processor grid are those that MPI gives it.
LEMMA RankCoordinates ==
  ASSUME NEW n \in Nat \ {0}, NEW r \in 0..n-1
  PROVE  LET g == get_processor_grid(n)
         IN  get_processor_coordinates(r, g) = MPI_Cart_coords(r, g)
<1> DEFINE g == get_processor_grid(n)
           a == g[1]
           b == g[2]
<1>1. a \in Nat \ {0} /\ b \in Nat \ {0} /\ a * b = n
  BY ProcessorGrid
<1>2. r \div b \in 0..a-1 /\ r % b \in 0..b-1
  <2>1. MPI_Cart_coords(r, g)[1] \in 0..a-1 /\ MPI_Cart_coords(r, g)[2] \in 0..b-1
    BY Coordinates
  <2>2. MPI_Cart_coords(r, g) = <<r \div b, r % b>>
    BY DEF MPI_Cart_coords
  <2> HIDE DEF a, b, g
  <2>3. QED
    BY <2>1, <2>2
<1>3. g = <<a, b>>
  BY DEF get_processor_grid
<1> HIDE DEF g
<1> HIDE DEF a, b
<1>4. DOMAIN g = 1..2 /\ Len(g) = 2 /\ g[1] = a /\ g[2] = b
  BY <1>3
<1>5. calc_total_num_values(g) = n
  BY <1>1, <1>4, Products DEF calc_total_num_values
<1>6. Stride(g, 1) = b
  <2> DEFINE s == SubSeq(g, 2, 2)
  <2>1. Len(s) = 1 /\ s[1] = b
    <3>1. \A i \in 2..2 : g[i] \in Nat
      BY <1>1, <1>4
    <3>2. /\ Len(s) = IF 2 <= 2 THEN 2 - 2 + 1 ELSE 0
          /\ \A i \in 1..2-2+1 : s[i] = g[2 + i - 1]
      BY <3>1, SubSeqProperties
    <3> HIDE DEF s
    <3>3. QED
      BY <1>4, <3>2
  <2>2. Stride(g, 1) = calc_total_num_values(s)
    BY <1>4 DEF Stride
  <2> HIDE DEF s
  <2>3. QED
    BY <1>1, <2>1, <2>2, Products DEF calc_total_num_values
<1>7. Stride(g, 2) = 1
  <2>1. SubSeq(g, 3, 2) = <<>> /\ Len(<<>>) = 0
    BY SubSeqEmpty
  <2>2. QED
    BY <1>4, <2>1, Products DEF Stride, calc_total_num_values
<1>8. Digit(r, g, 1) = r \div b
  <2> DEFINE q == r \div b
  <2>1. q \in 0..a-1
    BY <1>2
  <2>2. Digit(r, g, 1) = q % a
    BY <1>4, <1>6 DEF Digit
  <2> HIDE DEF q
  <2>3. q % a = q
    BY <1>1, <2>1
  <2>4. QED
    BY <2>2, <2>3 DEF q
<1>9. Digit(r, g, 2) = r % b
  <2>1. r \div 1 = r
    OBVIOUS
  <2>2. QED
    BY <1>4, <1>7, <2>1 DEF Digit
<1>10. map_index(r, g) = [d \in 1..2 |-> Digit(r, g, d)]
  BY <1>1, <1>4, <1>5 DEF map_index
<1>11. map_index(r, g) = <<r \div b, r % b>>
  BY <1>8, <1>9, <1>10
<1>12. QED
  BY <1>4, <1>11 DEF get_processor_coordinates, MPI_Cart_coords, g

\* Where there are as many blocks as processors, each has one, which is the
\* whole array where there is one.
Share(num_values, num, owner) == Cardinality(Owned(create_evenly_blocks(num_values, num), owner))

LEMMA SharesHaveValues ==
  ASSUME NEW v \in Nat \ {0}, NEW num \in Nat \ {0}, Len(create_evenly_blocks(v, num)) = num,
         NEW owner \in 0..num-1
  PROVE  Share(v, num, owner) \in Nat \ {0} /\ (num = 1 => Share(v, num, owner) = v)
<1> DEFINE s == create_evenly_blocks(v, num)
           k == owner + 1
<1>1. /\ s \in Seq(Block) /\ s[1].left = 0 /\ s[Len(s)].right = v
      /\ Len(s) = num
  BY CreateEvenlyBlocksIsLayout DEF IsLayout, First, End
<1>2. DOMAIN s = 1..num /\ \A j \in 1..num : s[j].owner = (j - 1) % num
  <2>1. \A j \in DOMAIN s : s[j].owner = (j - 1) % num
    BY DEF create_evenly_blocks, create_blocks
  <2>2. DOMAIN s = 1..num
    <3> HIDE DEF s
    <3>1. QED
      BY <1>1
  <2>3. QED
    BY <2>1, <2>2
<1> HIDE DEF s
<1>3. ASSUME NEW j \in 1..num PROVE s[j].owner = j - 1
  <2> DEFINE x == j - 1
  <2>1. x \in 0..num-1 /\ s[j].owner = x % num
    BY <1>2
  <2> HIDE DEF x
  <2>2. x % num = x
    BY <2>1
  <2>3. QED
    BY <2>1, <2>2 DEF x
<1>4. {j \in DOMAIN s : s[j].owner = owner} = {k}
  <2>1. k \in 1..num /\ \A j \in 1..num : j - 1 = owner <=> j = k
    OBVIOUS
  <2>2. QED
    BY <1>2, <1>3, <2>1
<1>5. Owned(s, owner) = s[k].left..s[k].right-1
  <2>1. UNION {Indices(s[j]) : j \in {k}} = Indices(s[k])
    OBVIOUS
  <2>2. QED
    BY <1>4, <2>1 DEF Owned, Indices
<1>6. s[k].left \in Int /\ s[k].right \in Int /\ s[k].left < s[k].right
  <2>1. s[k] \in Block
    BY <1>1, <1>2
  <2>2. QED
    BY <2>1 DEF Block
<1>7. Cardinality(Owned(s, owner)) = s[k].right - s[k].left
  <2> DEFINE a == s[k].left
             b == s[k].right - 1
  <2>1. a \in Int /\ b \in Int /\ a <= b /\ Owned(s, owner) = a..b
    BY <1>5, <1>6
  <2> HIDE DEF a, b
  <2>2. Cardinality(a..b) = b - a + 1
    BY <2>1, FS_Interval
  <2>3. QED
    BY <1>6, <2>1, <2>2 DEF a, b
<1>8. Share(v, num, owner) = s[k].right - s[k].left
  BY <1>7 DEF Share, s
<1>9. CASE num = 1
  BY <1>1, <1>6, <1>8, <1>9
<1>10. QED
  BY <1>6, <1>8, <1>9

\* The part of the array that a rank has: its share of the rows by its row in the
\* processor grid, and of the columns by its column.
LEMMA PartOf ==
  ASSUME NEW s \in Simulations, NEW n \in 1..s.num_ranks, NEW r \in 0..n-1
  PROVE  LET g == get_processor_grid(n)
             at == MPI_Cart_coords(r, g)
             part == Spread[s][n][r].dims
         IN  /\ part = <<Share(s.num_rows, g[1], at[1]), Share(s.num_columns, g[2], at[2])>>
             /\ part[1] \in Nat \ {0} /\ part[2] \in Nat \ {0}
             /\ n = 1 => part = <<s.num_rows, s.num_columns>>
<1> DEFINE g == get_processor_grid(n)
           at == MPI_Cart_coords(r, g)
           part == Spread[s][n][r].dims
           values == <<s.num_rows, s.num_columns>>
<1>1. /\ n \in Nat \ {0} /\ s.num_rows \in Nat \ {0} /\ s.num_columns \in Nat \ {0}
      /\ Len(create_evenly_blocks(s.num_rows, g[1])) = g[1]
      /\ Len(create_evenly_blocks(s.num_columns, g[2])) = g[2]
  <2>1. n \in Nat \ {0} /\ s.num_rows \in Nat \ {0} /\ s.num_columns \in Nat \ {0}
    BY SimulationAssumption
  <2>2. \A d \in 1..2 : Len(create_evenly_blocks(values[d], g[d])) = g[d]
    BY SimulationAssumption DEF EveryoneHasValues
  <2> HIDE DEF g
  <2>3. QED
    BY <2>1, <2>2
<1>2. /\ g[1] \in Nat \ {0} /\ g[2] \in Nat \ {0} /\ g[1] * g[2] = n
      /\ at[1] \in 0..g[1]-1 /\ at[2] \in 0..g[2]-1
      /\ get_processor_coordinates(r, g) = at
  BY <1>1, ProcessorGrid, Coordinates, RankCoordinates
<1>3. g = <<g[1], g[2]>> /\ at = <<at[1], at[2]>>
  BY DEF get_processor_grid, MPI_Cart_coords
<1>4. part = LocalDimensions(BlockWise(values, g), r)
  BY DEF Spread, Held
<1> HIDE DEF g, at, part
<1>5. part = [d \in DOMAIN at |-> Share(values[d], g[d], at[d])]
  <2>1. DOMAIN at = 1..2 /\ DOMAIN g = 1..2
    BY <1>3
  <2>2. /\ BlockWise(values, g).grid = g
        /\ \A d \in 1..2 : BlockWise(values, g).layouts[d] = create_evenly_blocks(values[d], g[d])
    BY <2>1 DEF BlockWise
  <2> HIDE DEF values
  <2>3. LocalDimensions(BlockWise(values, g), r)
        = [d \in DOMAIN at |-> Cardinality(Owned(BlockWise(values, g).layouts[d], at[d]))]
    BY <1>2, <2>2 DEF LocalDimensions
  <2>4. \A d \in DOMAIN at : Cardinality(Owned(BlockWise(values, g).layouts[d], at[d]))
                            = Share(values[d], g[d], at[d])
    BY <2>1, <2>2 DEF Share
  <2>5. QED
    BY <1>4, <2>3, <2>4
<1>6. part = <<Share(s.num_rows, g[1], at[1]), Share(s.num_columns, g[2], at[2])>>
  BY <1>3, <1>5
<1>7. /\ Share(s.num_rows, g[1], at[1]) \in Nat \ {0}
      /\ Share(s.num_columns, g[2], at[2]) \in Nat \ {0}
      /\ g[1] = 1 => Share(s.num_rows, g[1], at[1]) = s.num_rows
      /\ g[2] = 1 => Share(s.num_columns, g[2], at[2]) = s.num_columns
  BY <1>1, <1>2, SharesHaveValues
<1>8. n = 1 => g[1] = 1 /\ g[2] = 1
  <2>1. SUFFICES ASSUME g[1] * g[2] = 1 PROVE g[1] = 1 /\ g[2] = 1
    BY <1>2
  <2> DEFINE a == g[1]
             b == g[2]
  <2>2. a \in Nat \ {0} /\ b \in Nat \ {0} /\ a * b = 1
    BY <1>2, <2>1
  <2> HIDE DEF a, b
  <2>3. a * 1 <= a * b /\ 1 * b <= a * b
    BY <2>2
  <2>4. a = 1 /\ b = 1
    BY <2>2, <2>3
  <2>5. QED
    BY <2>4 DEF a, b
<1>9. QED
  BY <1>6, <1>7, <1>8 DEF g, at, part

\* There is a neighbour on a side unless the process is at that border of the
\* processor grid.
LEMMA Borders ==
  ASSUME NEW n \in Nat \ {0}, NEW p \in 0..n-1
  PROVE  LET g == get_processor_grid(n)
             at == MPI_Cart_coords(p, g)
             info == ProcessorInfo(p, n)
         IN  /\ Has(info.up) = IF at[1] = 0 THEN 0 ELSE 1
             /\ Has(info.down) = IF at[1] = g[1] - 1 THEN 0 ELSE 1
             /\ Has(info.left) = IF at[2] = 0 THEN 0 ELSE 1
             /\ Has(info.right) = IF at[2] = g[2] - 1 THEN 0 ELSE 1
             /\ \A q \in {info.up, info.down, info.left, info.right} :
                  q \in 0..n-1 \/ q = MPI_PROC_NULL
<1> DEFINE g == get_processor_grid(n)
           at == MPI_Cart_coords(p, g)
           info == ProcessorInfo(p, n)
<1>1. /\ g[1] \in Nat \ {0} /\ g[2] \in Nat \ {0}
      /\ at[1] \in 0..g[1]-1 /\ at[2] \in 0..g[2]-1
  BY ProcessorGrid, Coordinates
<1>2. ASSUME NEW x \in Int, NEW y \in Int
      PROVE  /\ MPI_Cart_rank(<<x, y>>, g) \in 0..n-1 \/ MPI_Cart_rank(<<x, y>>, g) = MPI_PROC_NULL
             /\ Has(MPI_Cart_rank(<<x, y>>, g)) =
                  IF x \in 0..g[1]-1 /\ y \in 0..g[2]-1 THEN 1 ELSE 0
  <2>1. CASE x \in 0..g[1]-1 /\ y \in 0..g[2]-1
    <3>1. MPI_Cart_rank(<<x, y>>, g) \in 0..n-1
      BY <2>1, Coordinates
    <3>2. QED
      BY <2>1, <3>1 DEF Has, MPI_PROC_NULL
  <2>2. CASE ~(x \in 0..g[1]-1 /\ y \in 0..g[2]-1)
    BY <2>2 DEF MPI_Cart_rank, Has
  <2>3. QED
    BY <2>1, <2>2
<1>3. info = get_neighbours(at, g)
  BY DEF ProcessorInfo, Rank, get_cartesian_comm
<1> HIDE DEF g, at, info
<1>4. /\ info.up = MPI_Cart_rank(<<at[1] - 1, at[2]>>, g)
      /\ info.down = MPI_Cart_rank(<<at[1] + 1, at[2]>>, g)
      /\ info.left = MPI_Cart_rank(<<at[1], at[2] - 1>>, g)
      /\ info.right = MPI_Cart_rank(<<at[1], at[2] + 1>>, g)
  BY <1>3 DEF get_neighbours, Neighbours
<1>5. /\ Has(info.up) = IF at[1] = 0 THEN 0 ELSE 1
      /\ Has(info.down) = IF at[1] = g[1] - 1 THEN 0 ELSE 1
  BY <1>1, <1>2, <1>4
<1>6. /\ Has(info.left) = IF at[2] = 0 THEN 0 ELSE 1
      /\ Has(info.right) = IF at[2] = g[2] - 1 THEN 0 ELSE 1
  BY <1>1, <1>2, <1>4
<1>7. \A q \in {info.up, info.down, info.left, info.right} : q \in 0..n-1 \/ q = MPI_PROC_NULL
  <2>1. /\ info.up \in 0..n-1 \/ info.up = MPI_PROC_NULL
        /\ info.down \in 0..n-1 \/ info.down = MPI_PROC_NULL
        /\ info.left \in 0..n-1 \/ info.left = MPI_PROC_NULL
        /\ info.right \in 0..n-1 \/ info.right = MPI_PROC_NULL
    BY <1>1, <1>2, <1>4
  <2>2. QED
    BY <2>1
<1>8. QED
  BY <1>5, <1>6, <1>7 DEF g, at, info

\* What a process of the communicator knows of its place in it
LEMMA InCommunicator ==
  ASSUME LoopTypeOK, CommInv, NEW p \in Processes
  PROVE  /\ current_comm[0] \in Nat \ {0} /\ current_comm[0] \in 1..flags.num_ranks
         /\ p >= current_comm[0] => current_comm[p] = 0
         /\ p < current_comm[0] =>
              /\ p \in 0..current_comm[0]-1 /\ current_comm[p] = current_comm[0]
              /\ Info(p) = ProcessorInfo(p, current_comm[0])
              /\ Part(p) = Spread[flags][current_comm[0]][p].dims
<1> DEFINE n == current_comm[0]
<1>1. /\ n \in Nat \ {0} /\ n \in 1..flags.num_ranks /\ p \in Nat
      /\ current_comm[p] = IF p < n THEN n ELSE 0
  BY Simulation DEF CommInv, get_comm
<1>2. p < n => Rank(p, n) = p
  BY <1>1 DEF Rank, get_cartesian_comm
<1> HIDE DEF n
<1>3. QED
  BY <1>1, <1>2 DEF Info, Part, n

LEMMA PartHasValues ==
  ASSUME LoopTypeOK, CommInv, NEW p \in Processes, p < current_comm[0]
  PROVE  LET n == current_comm[0]
             g == get_processor_grid(n)
             at == MPI_Cart_coords(p, g)
         IN  /\ Part(p)[1] = Share(flags.num_rows, g[1], at[1])
             /\ Part(p)[2] = Share(flags.num_columns, g[2], at[2])
             /\ Part(p) = <<Part(p)[1], Part(p)[2]>>
             /\ Part(p)[1] \in Nat \ {0} /\ Part(p)[2] \in Nat \ {0}
<1> DEFINE n == current_comm[0]
           g == get_processor_grid(n)
           at == MPI_Cart_coords(p, g)
           part == Spread[flags][n][p].dims
<1>1. /\ flags \in Simulations /\ n \in 1..flags.num_ranks /\ p \in 0..n-1 /\ Part(p) = part
  BY InCommunicator DEF LoopTypeOK
<1>2. /\ part = <<Share(flags.num_rows, g[1], at[1]), Share(flags.num_columns, g[2], at[2])>>
      /\ part[1] \in Nat \ {0} /\ part[2] \in Nat \ {0}
  BY <1>1, PartOf
<1> HIDE DEF n, g, at, part
<1>3. QED
  BY <1>1, <1>2 DEF n, g, at

\* Grids have values, and a layer on a side more where there is a neighbour.
LEMMA Extents ==
  ASSUME LoopTypeOK, CommInv, NEW p \in Processes, p < current_comm[0]
  PROVE  /\ Height(p) \in Nat \ {0} /\ Width(p) \in Nat \ {0}
         /\ Has(Info(p).up) \in {0, 1} /\ Has(Info(p).down) \in {0, 1}
         /\ Has(Info(p).left) \in {0, 1} /\ Has(Info(p).right) \in {0, 1}
<1>1. Part(p)[1] \in Nat \ {0} /\ Part(p)[2] \in Nat \ {0}
  BY PartHasValues
<1>2. \A q : Has(q) \in {0, 1}
  BY DEF Has
<1>3. QED
  BY <1>1, <1>2 DEF Height, Width

\* Neighbours in a row have grids of one height, and in a column of one width.
LEMMA NeighboursFit ==
  ASSUME LoopTypeOK, CommInv, NEW p \in Processes, NEW q \in Processes
  PROVE  /\ Beside(p, q) => Height(p) = Height(q)
         /\ Above(p, q) => Width(p) = Width(q)
<1>1. SUFFICES ASSUME Beside(p, q) \/ Above(p, q)
               PROVE  /\ Beside(p, q) => Height(p) = Height(q)
                      /\ Above(p, q) => Width(p) = Width(q)
  OBVIOUS
<1> DEFINE n == current_comm[0]
           g == get_processor_grid(n)
           X(m) == MPI_Cart_coords(m, g)[1]
           Y(m) == MPI_Cart_coords(m, g)[2]
<1>2. p < n /\ q < n
  BY <1>1, NeighboursMutual
<1>3. ASSUME NEW m \in Processes, m < n
      PROVE  /\ Height(m) = Share(flags.num_rows, g[1], X(m))
                            + (IF X(m) = 0 THEN 0 ELSE 1) + (IF X(m) = g[1] - 1 THEN 0 ELSE 1)
             /\ Width(m) = Share(flags.num_columns, g[2], Y(m))
                            + (IF Y(m) = 0 THEN 0 ELSE 1) + (IF Y(m) = g[2] - 1 THEN 0 ELSE 1)
  <2>1. n \in Nat \ {0} /\ m \in 0..n-1 /\ Info(m) = ProcessorInfo(m, n)
    BY <1>3, InCommunicator
  <2>2. /\ Has(ProcessorInfo(m, n).up) = IF X(m) = 0 THEN 0 ELSE 1
        /\ Has(ProcessorInfo(m, n).down) = IF X(m) = g[1] - 1 THEN 0 ELSE 1
        /\ Has(ProcessorInfo(m, n).left) = IF Y(m) = 0 THEN 0 ELSE 1
        /\ Has(ProcessorInfo(m, n).right) = IF Y(m) = g[2] - 1 THEN 0 ELSE 1
    BY <2>1, Borders
  <2>3. /\ Part(m)[1] = Share(flags.num_rows, g[1], X(m))
        /\ Part(m)[2] = Share(flags.num_columns, g[2], Y(m))
    BY <1>3, PartHasValues
  <2> HIDE DEF n, g, X, Y
  <2>4. QED
    BY <2>1, <2>2, <2>3 DEF Height, Width
<1>4. /\ q = ProcessorInfo(p, n).up    => Y(q) = Y(p)
      /\ q = ProcessorInfo(p, n).down  => Y(q) = Y(p)
      /\ q = ProcessorInfo(p, n).left  => X(q) = X(p)
      /\ q = ProcessorInfo(p, n).right => X(q) = X(p)
  <2>1. n \in Nat \ {0} /\ p \in 0..n-1 /\ q \in 0..n-1
    BY <1>2, InCommunicator
  <2>2. QED
    BY <2>1, NeighbourAt
<1>5. Info(p) = ProcessorInfo(p, n)
  BY <1>2, InCommunicator
<1> HIDE DEF n, g, X, Y
<1>6. (Beside(p, q) => X(q) = X(p)) /\ (Above(p, q) => Y(q) = Y(p))
  BY <1>4, <1>5 DEF Beside, Above
<1>7. QED
  BY <1>2, <1>3, <1>6
-----------------------------------------------------------------------------
(***************************************************************************)
(* What the operations on grids make of their extents                      *)
(***************************************************************************)

LEMMA Tuples ==
  ASSUME NEW n \in Nat, NEW s, IsTuple(s, n)
  PROVE  DOMAIN s = 1..n /\ Len(s) = n
<1>1. DOMAIN s = 1..n
  BY DEF IsTuple
<1>2. s \in [1..n -> {s[k] : k \in 1..n}]
  BY DEF IsTuple
<1>3. Len(s) = n
  BY <1>2
<1>4. QED
  BY <1>1, <1>3

LEMMA GridExtents ==
  ASSUME NEW m \in Nat \ {0}, NEW n \in Nat, NEW grid, IsGrid(grid, m, n)
  PROVE  /\ grid # <<>> /\ GridDimensions(grid) = <<m, n>>
         /\ DOMAIN grid = 1..m /\ Len(grid) = m
         /\ \A i \in 1..m : DOMAIN grid[i] = 1..n /\ Len(grid[i]) = n
<1>1. DOMAIN grid = 1..m /\ Len(grid) = m
  BY Tuples DEF IsGrid
<1>2. \A i \in 1..m : DOMAIN grid[i] = 1..n /\ Len(grid[i]) = n
  BY Tuples DEF IsGrid
<1>3. grid # <<>>
  <2>1. DOMAIN <<>> = {} /\ 1 \in DOMAIN grid
    BY <1>1
  <2>2. QED
    BY <2>1
<1>4. QED
  BY <1>1, <1>2, <1>3 DEF GridDimensions

LEMMA SubSequence ==
  ASSUME NEW n \in Nat, NEW s, IsTuple(s, n), NEW a \in Nat, NEW b \in Nat, a + b <= n
  PROVE  /\ IsTuple(SubSeq(s, 1 + a, n - b), n - a - b)
         /\ \A k \in 1..n-a-b : SubSeq(s, 1 + a, n - b)[k] = s[k + a]
<1> DEFINE t == SubSeq(s, 1 + a, n - b)
           S == {s[k] : k \in 1..n}
<1>1. \A k \in 1+a..n-b : s[k] \in S
  OBVIOUS
<1>2. /\ t \in Seq(S)
      /\ Len(t) = IF 1 + a <= n - b THEN n - b - (1 + a) + 1 ELSE 0
      /\ \A k \in 1..n-b-(1+a)+1 : t[k] = s[1 + a + k - 1]
  <2> HIDE DEF S
  <2>1. 1 + a \in Int /\ n - b \in Int
    OBVIOUS
  <2>2. QED
    BY <1>1, <2>1, SubSeqProperties
<1> HIDE DEF t, S
<1>3. Len(t) = n - a - b /\ \A k \in 1..n-a-b : t[k] = s[k + a]
  <2>1. n - b - (1 + a) + 1 = n - a - b /\ \A k \in 1..n-a-b : 1 + a + k - 1 = k + a
    OBVIOUS
  <2>2. Len(t) = n - a - b
    BY <1>2
  <2>3. ASSUME NEW k \in 1..n-a-b PROVE t[k] = s[k + a]
    <3>1. t[k] = s[1 + a + k - 1]
      BY <1>2, <2>1
    <3>2. QED
      BY <2>1, <3>1
  <2>4. QED
    BY <2>2, <2>3
<1>4. IsTuple(t, n - a - b)
  BY <1>2, <1>3 DEF IsTuple
<1>5. QED
  BY <1>3, <1>4 DEF t

LEMMA WithoutLayers ==
  ASSUME NEW m \in Nat, NEW n \in Nat, NEW grid, IsGrid(grid, m, n),
         NEW top \in Nat, NEW bottom \in Nat, NEW left \in Nat, NEW right \in Nat,
         top + bottom <= m, left + right <= n
  PROVE  IsGrid(Without(grid, top, bottom, left, right), m - top - bottom, n - left - right)
<1> DEFINE rows == SubSeq(grid, 1 + top, m - bottom)
           h == m - top - bottom
           w == n - left - right
<1>1. IsTuple(grid, m) /\ \A i \in 1..m : IsTuple(grid[i], n) /\ Len(grid[i]) = n
  BY Tuples DEF IsGrid
<1>2. Len(grid) = m /\ h \in Nat
  BY <1>1, Tuples
<1>3. IsTuple(rows, h) /\ \A k \in 1..h : rows[k] = grid[k + top]
  BY <1>1, SubSequence
<1>4. DOMAIN rows = 1..h
  BY <1>2, <1>3, Tuples
<1>5. ASSUME NEW k \in 1..h
      PROVE  IsTuple(SubSeq(rows[k], 1 + left, Len(rows[k]) - right), w)
  <2>1. k + top \in 1..m
    BY <1>2
  <2>2. IsTuple(rows[k], n) /\ Len(rows[k]) = n
    BY <1>1, <1>3, <2>1
  <2> HIDE DEF rows
  <2>3. QED
    BY <2>2, SubSequence
<1>6. Without(grid, top, bottom, left, right)
      = [k \in 1..h |-> SubSeq(rows[k], 1 + left, Len(rows[k]) - right)]
  BY <1>2, <1>4 DEF Without
<1> HIDE DEF rows, h, w
<1>7. QED
  BY <1>5, <1>6 DEF IsGrid, IsTuple, h, w

LEMMA SurroundedExtents ==
  ASSUME NEW m \in Nat \ {0}, NEW n \in Nat, NEW grid, IsGrid(grid, m, n)
  PROVE  IsGrid(Surrounded(grid), m + 2, n + 2)
<1>1. GridDimensions(grid) = <<m, n>>
  BY GridExtents
<1> DEFINE Value(i, j) == IF i \in 2..m+1 /\ j \in 2..n+1 THEN grid[i-1][j-1] ELSE 0
           new == [i \in 1..m+2 |-> [j \in 1..n+2 |-> Value(i, j)]]
<1>2. Surrounded(grid) = new
  BY <1>1 DEF Surrounded
<1> HIDE DEF Value
<1>3. IsTuple(new, m + 2) /\ \A i \in 1..m+2 : new[i] = [j \in 1..n+2 |-> Value(i, j)]
  BY DEF IsTuple
<1> HIDE DEF new
<1>4. \A i \in 1..m+2 : IsTuple(new[i], n + 2)
  BY <1>3 DEF IsTuple
<1>5. QED
  BY <1>2, <1>3, <1>4 DEF IsGrid

LEMMA AddGhostLayers ==
  ASSUME NEW m \in Nat \ {0}, NEW n \in Nat \ {0}, NEW grid, IsGrid(grid, m, n), NEW info
  PROVE  IsGrid(add_ghost_layers(grid, info), m + Has(info.up) + Has(info.down),
                n + Has(info.left) + Has(info.right))
<1>1. IsGrid(Surrounded(grid), m + 2, n + 2) /\ grid # <<>>
  BY SurroundedExtents, GridExtents
<1> DEFINE a == 1 - Has(info.up)
           b == 1 - Has(info.down)
           c == 1 - Has(info.left)
           d == 1 - Has(info.right)
<1>2. a \in {0, 1} /\ b \in {0, 1} /\ c \in {0, 1} /\ d \in {0, 1}
  BY DEF Has
<1> DEFINE M == m + 2
           N == n + 2
           h == m + Has(info.up) + Has(info.down)
           w == n + Has(info.left) + Has(info.right)
<1>3. h = M - a - b /\ w = N - c - d
  BY DEF Has
<1>4. add_ghost_layers(grid, info) = Without(Surrounded(grid), a, b, c, d)
  BY <1>1 DEF add_ghost_layers
<1> HIDE DEF a, b, c, d
<1>5. IsGrid(Without(Surrounded(grid), a, b, c, d), M - a - b, N - c - d)
  <2>1. /\ M \in Nat /\ N \in Nat /\ a \in Nat /\ b \in Nat /\ c \in Nat /\ d \in Nat
        /\ a + b <= M /\ c + d <= N
    BY <1>2
  <2>2. IsGrid(Surrounded(grid), M, N)
    BY <1>1
  <2> HIDE DEF M, N
  <2>3. QED
    BY <2>1, <2>2, WithoutLayers
<1> HIDE DEF M, N, h, w
<1>6. IsGrid(Without(Surrounded(grid), a, b, c, d), h, w)
  BY <1>3, <1>5
<1>7. QED
  BY <1>4, <1>6, Zenon DEF h, w

LEMMA SetGhostLayer ==
  ASSUME NEW m \in Nat \ {0}, NEW n \in Nat \ {0}, NEW grid, IsGrid(grid, m, n), NEW values,
         NEW location \in {"TOP", "BOTTOM", "LEFT", "RIGHT"},
         IsTuple(values, IF location \in {"TOP", "BOTTOM"} THEN n ELSE m)
  PROVE  IsGrid(set_ghost_layer(grid, values, location), m, n)
<1>1. /\ DOMAIN grid = 1..m /\ Len(grid) = m
      /\ \A i \in 1..m : DOMAIN grid[i] = 1..n /\ Len(grid[i]) = n
  BY GridExtents
<1>2. grid = [i \in 1..m |-> grid[i]] /\ \A i \in 1..m : grid[i] = [j \in 1..n |-> grid[i][j]]
  BY DEF IsGrid, IsTuple
<1>3. CASE location \in {"TOP", "BOTTOM"}
  <2>1. ASSUME NEW k \in 1..m PROVE IsGrid([grid EXCEPT ![k] = values], m, n)
    BY <1>1, <1>2, <1>3, <2>1 DEF IsGrid, IsTuple
  <2>2. set_ghost_layer(grid, values, location) \in {[grid EXCEPT ![1] = values], [grid EXCEPT ![m] = values]}
    BY <1>1, <1>3 DEF set_ghost_layer, set_top_row, set_bottom_row
  <2>3. QED
    BY <2>1, <2>2
<1>4. CASE location \in {"LEFT", "RIGHT"}
  <2>1. ASSUME NEW l \in 1..n
        PROVE  IsGrid([i \in 1..m |-> [grid[i] EXCEPT ![l] = values[i]]], m, n)
    <3> DEFINE new == [i \in 1..m |-> [grid[i] EXCEPT ![l] = values[i]]]
    <3>1. IsTuple(new, m)
      BY DEF IsTuple
    <3>2. ASSUME NEW i \in 1..m PROVE IsTuple(new[i], n)
      <4> DEFINE row == grid[i]
                 v == values[i]
      <4>1. new[i] = [row EXCEPT ![l] = v] /\ row = [j \in 1..n |-> row[j]]
        BY <1>2
      <4> HIDE DEF row, v
      <4>2. IsTuple([row EXCEPT ![l] = v], n)
        BY <4>1 DEF IsTuple
      <4>3. QED
        BY <4>1, <4>2
    <3> HIDE DEF new
    <3>3. IsGrid(new, m, n)
      BY <3>1, <3>2 DEF IsGrid
    <3>4. QED
      BY <3>3 DEF new
  <2>2. /\ set_left_column(grid, values) = [i \in 1..m |-> [grid[i] EXCEPT ![1] = values[i]]]
        /\ set_right_column(grid, values) = [i \in 1..m |-> [grid[i] EXCEPT ![n] = values[i]]]
    BY <1>1 DEF set_left_column, set_right_column
  <2>3. /\ IsGrid(set_left_column(grid, values), m, n)
        /\ IsGrid(set_right_column(grid, values), m, n)
    <3>1. 1 \in 1..n /\ n \in 1..n
      OBVIOUS
    <3>2. QED
      BY <2>1, <2>2, <3>1
  <2>4. QED
    BY <1>4, <2>3 DEF set_ghost_layer
<1>5. QED
  BY <1>3, <1>4

LEMMA JacobiExtents ==
  ASSUME NEW m \in Nat \ {0}, NEW n \in Nat, NEW grid, IsGrid(grid, m, n)
  PROVE  IsGrid(apply_jacobi(grid), m, n)
<1>1. DOMAIN grid = 1..m /\ \A i \in 1..m : DOMAIN grid[i] = 1..n
  BY GridExtents
<1>2. QED
  BY <1>1 DEF apply_jacobi, IsGrid, IsTuple

LEMMA InitialExtents ==
  ASSUME NEW m \in Nat \ {0}, NEW n \in Nat \ {0}, NEW heat
  PROVE  IsGrid(initialize_grid(m, n, heat), m, n)
<1> DEFINE grid == [i \in 1..m |-> [j \in 1..n |-> 0]]
<1>1. IsGrid(grid, m, n)
  BY DEF IsGrid, IsTuple
<1>2. DOMAIN grid = 1..m /\ \A i \in 1..m : DOMAIN grid[i] = 1..n
  OBVIOUS
<1> HIDE DEF grid
<1>3. IsGrid(set_boundary_to(grid, heat), m, n)
  BY <1>2 DEF set_boundary_to, IsGrid, IsTuple
<1>4. QED
  BY <1>3 DEF initialize_grid, grid
-----------------------------------------------------------------------------
(***************************************************************************)
(* Steps and the extents of the grids and the layers                       *)
(***************************************************************************)

\* While the communicator stays, so do the extents.
LEMMA SameExtents ==
  ASSUME UNCHANGED <<flags, current_comm>>, NEW p
  PROVE  /\ Height(p)' = Height(p) /\ Width(p)' = Width(p)
         /\ Part(p)' = Part(p) /\ Info(p)' = Info(p)
BY DEF Height, Width, Part, Info

\* Grids that keep their extents
LEMMA GridsStay ==
  ASSUME GridsInv, UNCHANGED <<flags, current_comm>>, Processes' = Processes,
         DOMAIN local_grid' = Processes,
         \A p \in Processes :
           \/ local_grid'[p] = local_grid[p]
           \/ current_comm[p] # 0 /\ IsGrid(local_grid'[p], Height(p), Width(p))
  PROVE  GridsInv'
<1>1. ASSUME NEW p \in Processes
      PROVE  IF current_comm'[p] = 0 THEN local_grid'[p] = <<>>
             ELSE IsGrid(local_grid'[p], Height(p)', Width(p)')
  <2>1. Height(p)' = Height(p) /\ Width(p)' = Width(p)
    BY SameExtents
  <2>2. CASE local_grid'[p] = local_grid[p]
    BY <2>1, <2>2, Zenon DEF GridsInv
  <2>3. CASE current_comm[p] # 0 /\ IsGrid(local_grid'[p], Height(p), Width(p))
    BY <2>1, <2>3, Zenon
  <2>4. QED
    BY <2>2, <2>3
<1>2. QED
  BY <1>1, Zenon DEF GridsInv

LEMMA SameGrids ==
  ASSUME GridsInv, UNCHANGED <<flags, current_comm, local_grid>>
  PROVE  GridsInv'
<1>1. Processes' = Processes
  BY SameNeighbours
<1>2. DOMAIN local_grid' = Processes
      /\ \A p \in Processes :
           \/ local_grid'[p] = local_grid[p]
           \/ current_comm[p] # 0 /\ IsGrid(local_grid'[p], Height(p), Width(p))
  BY DEF GridsInv
<1>3. UNCHANGED <<flags, current_comm>>
  OBVIOUS
<1>4. QED
  BY <1>1, <1>2, <1>3, GridsStay

LEMMA SetGridFits ==
  ASSUME GridsInv, UNCHANGED <<flags, current_comm>>, NEW p \in Processes, NEW grid,
         SetGrid(p, grid), current_comm[p] # 0, IsGrid(grid, Height(p), Width(p))
  PROVE  GridsInv'
<1>1. Processes' = Processes
  BY SameNeighbours
<1>2. DOMAIN local_grid' = Processes
      /\ \A q \in Processes : local_grid'[q] = IF q = p THEN grid ELSE local_grid[q]
  BY DEF GridsInv, SetGrid
<1>3. \A q \in Processes :
        \/ local_grid'[q] = local_grid[q]
        \/ current_comm[q] # 0 /\ IsGrid(local_grid'[q], Height(q), Width(q))
  BY <1>2
<1>4. QED
  BY <1>1, <1>2, <1>3, GridsStay

\* The length of the layers from q to p
Fitting(q, p) == IF Beside(p, q) THEN Height(p) ELSE Width(p)

LEMMA FittingStays ==
  ASSUME UNCHANGED <<flags, current_comm>>, NEW p, NEW q
  PROVE  Fitting(q, p)' = Fitting(q, p)
<1>1. Height(p)' = Height(p) /\ Width(p)' = Width(p) /\ (Beside(p, q)' <=> Beside(p, q))
  BY SameExtents, SameNeighbours
<1>2. QED
  BY <1>1 DEF Fitting

\* Channels that get no layer but one that fits
LEMMA LengthsStay ==
  ASSUME LengthsInv, UNCHANGED <<flags, current_comm>>, Processes' = Processes,
         \A p, q \in Processes : \A k \in DOMAIN network'[<<q, p>>] :
           \/ \E l \in DOMAIN network[<<q, p>>] : network'[<<q, p>>][k] = network[<<q, p>>][l]
           \/ IsTuple(network'[<<q, p>>][k], Fitting(q, p))
  PROVE  LengthsInv'
<1>1. ASSUME NEW p \in Processes, NEW q \in Processes, NEW k \in DOMAIN network'[<<q, p>>]
      PROVE  IsTuple(network'[<<q, p>>][k], Fitting(q, p)')
  <2>1. \A l \in DOMAIN network[<<q, p>>] : IsTuple(network[<<q, p>>][l], Fitting(q, p))
    BY DEF LengthsInv, Fitting
  <2>2. IsTuple(network'[<<q, p>>][k], Fitting(q, p))
    BY <2>1
  <2>3. QED
    BY <2>2, FittingStays
<1>2. QED
  BY <1>1 DEF LengthsInv, Fitting

\* What Post adds to a channel
LEMMA PostedLengths ==
  ASSUME LayersInv, ShapesInv, NEW p \in Processes, NEW a, NEW b, NEW layers,
         Post(p, <<a, b>>, layers), UNCHANGED <<flags, current_comm>>,
         \A q \in Processes : q \in {a, b} =>
           IsTuple(layers[1], Fitting(p, q)) /\ IsTuple(layers[2], Fitting(p, q))
  PROVE  LengthsInv'
<1>1. ASSUME NEW u \in Processes, NEW v \in Processes, NEW k \in DOMAIN network'[<<u, v>>]
      PROVE  \/ \E l \in DOMAIN network[<<u, v>>] : network'[<<u, v>>][k] = network[<<u, v>>][l]
             \/ IsTuple(network'[<<u, v>>][k], Fitting(u, v))
  <2> DEFINE c == <<u, v>>
             s == network[c]
  <2>1. c \in Channels /\ s \in Seq(ToSet(s))
    BY DEF Channels, ChannelInv, LayersInv
  <2>2. CASE u = p /\ v \in {a, b}
    <3>1. \E l \in 1..2 : c = <<p, <<a, b>>[l]>>
      BY <2>2
    <3>2. PICK l \in 1..2 : network'[c] = Append(s, layers[l])
      <4> DEFINE l == CHOOSE l \in 1..2 : c = <<p, <<a, b>>[l]>>
      <4>1. l \in 1..2
        BY <3>1
      <4>2. network'[c] = Append(s, layers[l])
        BY <2>1, <3>1 DEF Post
      <4>3. QED
        BY <4>1, <4>2
    <3>3. IsTuple(layers[l], Fitting(u, v))
      BY <2>2
    <3> DEFINE t == network'[c]
               layer == layers[l]
    <3>4. t = Append(s, layer) /\ k \in DOMAIN t
      BY <3>2
    <3> HIDE DEF s, t, layer
    <3>5. t[k] = layer \/ (k \in DOMAIN s /\ t[k] = s[k])
      BY <2>1, <3>4
    <3>6. QED
      BY <3>3, <3>5 DEF s, t, layer
  <2>3. CASE ~(u = p /\ v \in {a, b})
    BY <2>3, Posted DEF LayersInv
  <2>4. QED
    BY <2>2, <2>3
<1>2. Processes' = Processes
  BY SameNeighbours
<1>3. QED
  BY <1>1, <1>2, LengthsStay DEF ShapesInv

\* What Take leaves in it
LEMMA TakenLengths ==
  ASSUME LayersInv, ShapesInv, NEW p \in Processes, NEW a, NEW b,
         Arrived(p, <<a, b>>), Take(p, <<a, b>>), UNCHANGED <<flags, current_comm>>
  PROVE  /\ LengthsInv'
         /\ \A q \in Processes : q \in {a, b} => IsTuple(Received(p, q), Fitting(q, p))
<1>1. ASSUME NEW u \in Processes, NEW v \in Processes
      PROVE  /\ u \in {a, b} /\ v = p => <<u, v>> \in Awaited(p, <<a, b>>)
             /\ ~(u \in {a, b} /\ v = p) => <<u, v>> \notin Awaited(p, <<a, b>>)
             /\ <<u, v>> \in Channels
             /\ network[<<u, v>>] \in Seq(ToSet(network[<<u, v>>]))
  BY DEF Channels, ChannelInv, LayersInv, Awaited
<1>2. ASSUME NEW u \in Processes, NEW v \in Processes, NEW k \in DOMAIN network'[<<u, v>>]
      PROVE  \E l \in DOMAIN network[<<u, v>>] : network'[<<u, v>>][k] = network[<<u, v>>][l]
  <2> DEFINE s == network[<<u, v>>]
             t == network'[<<u, v>>]
  <2>1. CASE u \in {a, b} /\ v = p
    <3>1. t = Tail(s) /\ s # <<>> /\ s \in Seq(ToSet(s)) /\ k \in DOMAIN t
      BY <1>1, <2>1 DEF Take, Arrived
    <3> HIDE DEF s, t
    <3>2. k + 1 \in DOMAIN s /\ t[k] = s[k + 1]
      BY <3>1
    <3>3. QED
      BY <3>2 DEF s, t
  <2>2. CASE ~(u \in {a, b} /\ v = p)
    <3>1. t = s
      BY <1>1, <2>2 DEF Take
    <3>2. QED
      BY <3>1
  <2>3. QED
    BY <2>1, <2>2
<1>3. Processes' = Processes
  BY SameNeighbours
<1>4. LengthsInv'
  BY <1>2, <1>3, LengthsStay DEF ShapesInv
<1>5. ASSUME NEW q \in Processes, q \in {a, b}
      PROVE  IsTuple(Received(p, q), Fitting(q, p))
  <2> DEFINE s == network[<<q, p>>]
  <2>1. s # <<>> /\ s \in Seq(ToSet(s))
    BY <1>1, <1>5 DEF Arrived
  <2>2. \A k \in DOMAIN s : IsTuple(s[k], Fitting(q, p))
    BY DEF ShapesInv, LengthsInv, Fitting
  <2>3. Received(p, q) = Head(s)
    BY DEF Received
  <2> HIDE DEF s
  <2>4. 1 \in DOMAIN s /\ Head(s) = s[1]
    BY <2>1
  <2>5. QED
    BY <2>2, <2>3, <2>4
<1>6. QED
  BY <1>4, <1>5

\* Neighbours are other processes of the communicator.
LEMMA NeighboursAreProcesses ==
  ASSUME LoopTypeOK, CommInv, NEW p \in Processes, p < current_comm[0],
         NEW q \in {Info(p).up, Info(p).down, Info(p).left, Info(p).right}
  PROVE  q \in Processes \/ q = MPI_PROC_NULL
<1> DEFINE n == current_comm[0]
           info == ProcessorInfo(p, n)
<1>1. n \in Nat \ {0} /\ n \in 1..flags.num_ranks /\ p \in 0..n-1 /\ Info(p) = info
  BY InCommunicator
<1>2. \A r \in {info.up, info.down, info.left, info.right} : r \in 0..n-1 \/ r = MPI_PROC_NULL
  BY <1>1, Borders
<1> HIDE DEF n, info
<1>3. q \in 0..n-1 \/ q = MPI_PROC_NULL
  BY <1>1, <1>2
<1>4. QED
  BY <1>1, <1>3, Simulation DEF Processes

\* A grid with a layer received is as large as before.
LEMMA WithLayer ==
  ASSUME NEW m \in Nat \ {0}, NEW n \in Nat \ {0}, NEW grid, IsGrid(grid, m, n),
         NEW location \in {"TOP", "BOTTOM", "LEFT", "RIGHT"}, NEW p, NEW q,
         q # MPI_PROC_NULL =>
           IsTuple(Received(p, q), IF location \in {"TOP", "BOTTOM"} THEN n ELSE m)
  PROVE  IsGrid(With(location, grid, p, q), m, n)
<1>1. CASE q = MPI_PROC_NULL
  BY <1>1 DEF With
<1>2. CASE q # MPI_PROC_NULL
  BY <1>2, SetGhostLayer DEF With
<1>3. QED
  BY <1>1, <1>2

\* What a step begins with
LEMMA OwnGrid ==
  ASSUME LayersInv, ShapesInv, NEW p \in Processes,
         pc[p] \notin {"barrier", "iterate", "done"} \/ current_comm[p] # 0
  PROVE  /\ p < current_comm[0] /\ current_comm[p] # 0
         /\ Height(p) \in Nat \ {0} /\ Width(p) \in Nat \ {0}
         /\ IsGrid(local_grid[p], Height(p), Width(p))
<1>1. current_comm[0] \in Nat \ {0} /\ p \in Nat
  BY InCommunicator, Simulation DEF LayersInv
<1>2. p < current_comm[0]
  BY <1>1, InCommunicator DEF LayersInv, CommInv
<1>3. current_comm[p] # 0
  BY <1>1, <1>2, InCommunicator DEF LayersInv
<1>4. Height(p) \in Nat \ {0} /\ Width(p) \in Nat \ {0}
  BY <1>2, Extents DEF LayersInv
<1>5. QED
  BY <1>2, <1>3, <1>4 DEF ShapesInv, GridsInv

LEMMA SendLeftRightFits ==
  ASSUME LayersInv, ShapesInv, NEW p \in Processes, SendLeftRight(p)
  PROVE  ShapesInv'
<1> DEFINE a == Info(p).left
           b == Info(p).right
           layers == Columns(local_grid[p])
<1>1. /\ UNCHANGED <<flags, current_comm, local_grid>> /\ current_comm[p] # 0
      /\ Post(p, <<a, b>>, layers)
  BY DEF SendLeftRight, Horizontal
<1>2. IsGrid(local_grid[p], Height(p), Width(p)) /\ Height(p) \in Nat \ {0} /\ Width(p) \in Nat \ {0}
  BY <1>1, OwnGrid
<1>3. DOMAIN local_grid[p] = 1..Height(p)
  BY <1>2, GridExtents
<1>4. IsTuple(layers[1], Height(p)) /\ IsTuple(layers[2], Height(p))
  <2>1. \A k : IsTuple(get_column(local_grid[p], k), Height(p))
    BY <1>3 DEF get_column, IsTuple
  <2>2. /\ layers[1] = get_column(local_grid[p], 1)
        /\ layers[2] = get_column(local_grid[p], GridDimensions(local_grid[p])[2] - 2)
    BY DEF Columns
  <2>3. QED
    BY <2>1, <2>2
<1>5. ASSUME NEW q \in Processes, q \in {a, b}
      PROVE  Fitting(p, q) = Height(p)
  <2>1. Beside(p, q)
    BY <1>5 DEF Beside
  <2>2. Beside(q, p) /\ Height(p) = Height(q)
    BY <2>1, NeighboursMutual, NeighboursFit DEF LayersInv
  <2>3. QED
    BY <2>2 DEF Fitting
<1> HIDE DEF a, b, layers
<1>6. LengthsInv'
  BY <1>1, <1>4, <1>5, PostedLengths
<1>7. GridsInv'
  BY <1>1, SameGrids DEF ShapesInv
<1>8. QED
  BY <1>6, <1>7 DEF ShapesInv

LEMMA SendBottomUpFits ==
  ASSUME LayersInv, ShapesInv, NEW p \in Processes, SendBottomUp(p)
  PROVE  ShapesInv'
<1> DEFINE a == Info(p).up
           b == Info(p).down
           layers == Rows(local_grid[p])
<1>1. /\ UNCHANGED <<flags, current_comm, local_grid>> /\ pc[p] = "between"
      /\ Post(p, <<a, b>>, layers)
  BY DEF SendBottomUp, Vertical
<1>2. /\ IsGrid(local_grid[p], Height(p), Width(p)) /\ Height(p) \in Nat \ {0}
      /\ Width(p) \in Nat \ {0} /\ p < current_comm[0]
  BY <1>1, OwnGrid
<1>3. GridDimensions(local_grid[p]) = <<Height(p), Width(p)>>
  BY <1>2, GridExtents
<1>4. ASSUME NEW q \in Processes, q \in {a, b}
      PROVE  /\ Fitting(p, q) = Width(p)
             /\ IsTuple(layers[1], Width(p)) /\ IsTuple(layers[2], Width(p))
  <2>1. Above(p, q)
    BY <1>4 DEF Above
  <2>2. ~Beside(q, p) /\ Width(p) = Width(q)
    BY <2>1, NeighboursMutual, NeighboursFit DEF LayersInv
  <2>3. Fitting(p, q) = Width(p)
    BY <2>2 DEF Fitting
  <2>4. Height(p) >= 2
    <3>1. q \in Nat
      BY Simulation DEF LayersInv
    <3>2. Has(a) = 1 \/ Has(b) = 1
      BY <1>4, <3>1 DEF Has, MPI_PROC_NULL
    <3>3. Part(p)[1] \in Nat \ {0} /\ Has(a) \in {0, 1} /\ Has(b) \in {0, 1}
      BY <1>2, PartHasValues, Extents DEF LayersInv
    <3>4. Height(p) = Part(p)[1] + Has(a) + Has(b)
      BY DEF Height
    <3> HIDE DEF a, b
    <3>5. QED
      BY <3>2, <3>3, <3>4
  <2>5. /\ layers[1] = local_grid[p][2]
        /\ layers[2] = local_grid[p][Height(p) - 1]
    <3>1. /\ layers[1] = get_row(local_grid[p], 1)
          /\ layers[2] = get_row(local_grid[p], Height(p) - 2)
      BY <1>3 DEF Rows
    <3>2. 1 + 1 = 2 /\ Height(p) - 2 + 1 = Height(p) - 1
      BY <1>2
    <3> HIDE DEF layers
    <3>3. QED
      BY <3>1, <3>2 DEF get_row
  <2>6. 2 \in 1..Height(p) /\ Height(p) - 1 \in 1..Height(p)
    BY <1>2, <2>4
  <2> HIDE DEF layers
  <2>7. IsTuple(layers[1], Width(p)) /\ IsTuple(layers[2], Width(p))
    BY <1>2, <2>5, <2>6 DEF IsGrid
  <2>8. QED
    BY <2>3, <2>7
<1> HIDE DEF a, b, layers
<1>5. LengthsInv'
  BY <1>1, <1>4, PostedLengths
<1>6. GridsInv'
  BY <1>1, SameGrids DEF ShapesInv
<1>7. QED
  BY <1>5, <1>6 DEF ShapesInv

LEMMA AwaitLeftRightFits ==
  ASSUME LayersInv, ShapesInv, NEW p \in Processes, AwaitLeftRight(p)
  PROVE  ShapesInv'
<1> DEFINE a == Info(p).left
           b == Info(p).right
           grid == With("RIGHT", With("LEFT", local_grid[p], p, a), p, b)
<1>1. /\ UNCHANGED <<flags, current_comm>> /\ pc[p] = "left_right"
      /\ Arrived(p, <<a, b>>) /\ Take(p, <<a, b>>) /\ SetGrid(p, grid)
  BY DEF AwaitLeftRight, Horizontal
<1>2. /\ IsGrid(local_grid[p], Height(p), Width(p)) /\ Height(p) \in Nat \ {0}
      /\ Width(p) \in Nat \ {0} /\ p < current_comm[0] /\ current_comm[p] # 0
  BY <1>1, OwnGrid
<1>3. /\ LengthsInv'
      /\ \A q \in Processes : q \in {a, b} => IsTuple(Received(p, q), Fitting(q, p))
  <2>1. Arrived(p, <<a, b>>) /\ Take(p, <<a, b>>) /\ UNCHANGED <<flags, current_comm>>
    BY <1>1
  <2> HIDE DEF a, b
  <2>2. QED
    BY <2>1, TakenLengths
<1>4. ASSUME NEW q, q \in {a, b}, q # MPI_PROC_NULL
      PROVE  IsTuple(Received(p, q), Height(p))
  <2>1. q \in Processes
    BY <1>2, <1>4, NeighboursAreProcesses DEF LayersInv
  <2>2. Fitting(q, p) = Height(p)
    BY <1>4 DEF Fitting, Beside
  <2>3. QED
    BY <1>3, <1>4, <2>1, <2>2, Zenon
<1>5. IsGrid(grid, Height(p), Width(p))
  <2> HIDE DEF a, b
  <2>1. IsGrid(With("LEFT", local_grid[p], p, a), Height(p), Width(p))
    BY <1>2, <1>4, WithLayer
  <2>2. QED
    BY <1>2, <1>4, <2>1, WithLayer
<1> HIDE DEF grid
<1>6. GridsInv'
  BY <1>1, <1>2, <1>5, SetGridFits DEF ShapesInv
<1>7. QED
  BY <1>3, <1>6 DEF ShapesInv

LEMMA AwaitBottomUpFits ==
  ASSUME LayersInv, ShapesInv, NEW p \in Processes, AwaitBottomUp(p)
  PROVE  ShapesInv'
<1> DEFINE a == Info(p).up
           b == Info(p).down
           grid == With("BOTTOM", With("TOP", local_grid[p], p, a), p, b)
<1>1. /\ UNCHANGED <<flags, current_comm>> /\ pc[p] = "bottom_up"
      /\ Arrived(p, <<a, b>>) /\ Take(p, <<a, b>>) /\ SetGrid(p, grid)
  BY DEF AwaitBottomUp, Vertical
<1>2. /\ IsGrid(local_grid[p], Height(p), Width(p)) /\ Height(p) \in Nat \ {0}
      /\ Width(p) \in Nat \ {0} /\ p < current_comm[0] /\ current_comm[p] # 0
  BY <1>1, OwnGrid
<1>3. /\ LengthsInv'
      /\ \A q \in Processes : q \in {a, b} => IsTuple(Received(p, q), Fitting(q, p))
  <2>1. Arrived(p, <<a, b>>) /\ Take(p, <<a, b>>) /\ UNCHANGED <<flags, current_comm>>
    BY <1>1
  <2> HIDE DEF a, b
  <2>2. QED
    BY <2>1, TakenLengths
<1>4. ASSUME NEW q, q \in {a, b}, q # MPI_PROC_NULL
      PROVE  IsTuple(Received(p, q), Width(p))
  <2>1. q \in Processes
    BY <1>2, <1>4, NeighboursAreProcesses DEF LayersInv
  <2>2. Above(p, q)
    BY <1>4 DEF Above
  <2>3. ~Beside(p, q)
    BY <2>1, <2>2, NeighboursMutual DEF LayersInv
  <2>4. Fitting(q, p) = Width(p)
    BY <2>3 DEF Fitting
  <2>5. QED
    BY <1>3, <1>4, <2>1, <2>4, Zenon
<1>5. IsGrid(grid, Height(p), Width(p))
  <2> HIDE DEF a, b
  <2>1. IsGrid(With("TOP", local_grid[p], p, a), Height(p), Width(p))
    BY <1>2, <1>4, WithLayer
  <2>2. QED
    BY <1>2, <1>4, <2>1, WithLayer
<1> HIDE DEF grid
<1>6. GridsInv'
  BY <1>1, <1>2, <1>5, SetGridFits DEF ShapesInv
<1>7. QED
  BY <1>3, <1>6 DEF ShapesInv

LEMMA SameLengths ==
  ASSUME LengthsInv, UNCHANGED <<flags, current_comm, network>>
  PROVE  LengthsInv'
<1>1. Processes' = Processes
  BY SameNeighbours
<1>2. ASSUME NEW p \in Processes, NEW q \in Processes, NEW k \in DOMAIN network'[<<q, p>>]
      PROVE  \E l \in DOMAIN network[<<q, p>>] : network'[<<q, p>>][k] = network[<<q, p>>][l]
  OBVIOUS
<1>3. UNCHANGED <<flags, current_comm>>
  OBVIOUS
<1>4. QED
  BY <1>1, <1>2, <1>3, LengthsStay

LEMMA JacobiFits ==
  ASSUME LayersInv, ShapesInv, NEW p \in Processes, Jacobi(p)
  PROVE  ShapesInv'
<1>1. /\ UNCHANGED <<flags, current_comm, network>> /\ pc[p] = "jacobi"
      /\ SetGrid(p, apply_jacobi(local_grid[p]))
  BY DEF Jacobi
<1>2. /\ IsGrid(local_grid[p], Height(p), Width(p)) /\ Height(p) \in Nat \ {0}
      /\ Width(p) \in Nat \ {0} /\ current_comm[p] # 0
  BY <1>1, OwnGrid
<1>3. IsGrid(apply_jacobi(local_grid[p]), Height(p), Width(p))
  BY <1>2, JacobiExtents
<1>4. GridsInv'
  BY <1>1, <1>2, <1>3, SetGridFits DEF ShapesInv
<1>5. LengthsInv'
  BY <1>1, SameLengths DEF ShapesInv
<1>6. QED
  BY <1>4, <1>5 DEF ShapesInv

\* Steps that leave the grids and the channels as they are
LEMMA UnchangedFits ==
  ASSUME ShapesInv, UNCHANGED <<flags, current_comm, local_grid, network>>
  PROVE  ShapesInv'
<1>1. GridsInv'
  BY SameGrids DEF ShapesInv
<1>2. LengthsInv'
  BY SameLengths DEF ShapesInv
<1>3. QED
  BY <1>1, <1>2 DEF ShapesInv

\* A shuffle() gives a process of its target a grid of its part's extents.
LEMMA ShuffleGives ==
  ASSUME NEW grids, NEW from, NEW m, NEW to, NEW n, NEW p \in Processes
  PROVE  /\ p < n => IsGrid(shuffle(grids, from, m, to, n)[p],
                            to[Rank(p, n)].dims[1], to[Rank(p, n)].dims[2])
         /\ ~(p < n) => shuffle(grids, from, m, to, n)[p] = <<>>
<1> DEFINE part == to[Rank(p, n)]
<1>1. \A values, dims : IsGrid(to_grid(values, dims), dims[1], dims[2])
  <2>1. SUFFICES ASSUME NEW values, NEW dims PROVE IsGrid(to_grid(values, dims), dims[1], dims[2])
    OBVIOUS
  <2> DEFINE Value(i, j) == values[layout_right(<<i - 1, j - 1>>, dims)]
             new == [i \in 1..dims[1] |-> [j \in 1..dims[2] |-> Value(i, j)]]
  <2>2. to_grid(values, dims) = new
    BY DEF to_grid, to_matrix
  <2> HIDE DEF Value
  <2>3. IsTuple(new, dims[1]) /\ \A i \in 1..dims[1] : new[i] = [j \in 1..dims[2] |-> Value(i, j)]
    BY DEF IsTuple
  <2> HIDE DEF new
  <2>4. \A i \in 1..dims[1] : IsTuple(new[i], dims[2])
    BY <2>3 DEF IsTuple
  <2>5. QED
    BY <2>2, <2>3, <2>4 DEF IsGrid
<1>2. p < n => \E values : shuffle(grids, from, m, to, n)[p] = to_grid(values, part.dims)
  BY DEF shuffle
<1>3. ~(p < n) => shuffle(grids, from, m, to, n)[p] = <<>>
  BY DEF shuffle
<1>4. QED
  BY <1>1, <1>2, <1>3

\* The next communicator is of some of the processes.
LEMMA NextRanks ==
  ASSUME LoopTypeOK
  PROVE  get_next_num_ranks \in 1..flags.num_ranks
<1> DEFINE r == num_adaptations % flags.num_ranks
<1>1. num_adaptations \in Nat /\ flags.num_ranks \in Nat \ {0}
  BY Simulation DEF LoopTypeOK
<1>2. r \in 0..flags.num_ranks-1
  BY <1>1, Division, Zenon
<1>3. get_next_num_ranks = r + 1
  BY DEF get_next_num_ranks
<1> HIDE DEF r
<1>4. QED
  BY <1>1, <1>2, <1>3

\* At the barrier no layer is under way.
LEMMA BarrierEmpty ==
  ASSUME LayersInv, AllAtBarrier, NEW u \in Processes, NEW v \in Processes
  PROVE  DOMAIN network[<<u, v>>] = {}
<1>1. \A p \in Processes : pc[p] = "barrier" /\ iteration[p] \in Nat
  BY DEF AllAtBarrier, LayersInv, LoopTypeOK
<1>2. iteration[u] = iteration[v]
  BY <1>1, SameIteration
<1>3. UnderWay(u, v) = 0
  BY <1>1, <1>2 DEF UnderWay, SentBeside, TakenBeside, SentAbove, TakenAbove, Past
<1> DEFINE s == network[<<u, v>>]
<1>4. s \in Seq(ToSet(s)) /\ Len(s) = 0
  BY <1>3 DEF LayersInv, ChannelInv
<1> HIDE DEF s
<1>5. DOMAIN s = {}
  BY <1>4
<1>6. QED
  BY <1>5 DEF s

LEMMA AdaptFits ==
  ASSUME LayersInv, ShapesInv, Adapt
  PROVE  ShapesInv'
<1> DEFINE n == get_next_num_ranks
           Bare(p) == remove_ghost_layers(local_grid[p], ProcessorInfo(p, current_comm[0]))
           moved == shuffle([p \in Processes |-> Bare(p)], Spread[flags][current_comm[0]],
                            current_comm[0], Spread[flags][n], n)
<1>1. /\ UNCHANGED <<flags, network>> /\ current_comm' = get_comm(n) /\ AllAtBarrier
      /\ local_grid' = [p \in Processes |-> add_ghost_layers(moved[p], ProcessorInfo(p, n))]
  BY DEF Adapt, do_adaptation
<1>2. /\ Processes' = Processes /\ n \in 1..flags.num_ranks /\ flags \in Simulations
      /\ n \in Nat \ {0} /\ Processes \subseteq Nat
  BY <1>1, NextRanks, Simulation DEF LayersInv, LoopTypeOK, Processes
<1>3. LengthsInv'
  BY <1>1, <1>2, BarrierEmpty DEF LengthsInv
<1>4. ASSUME NEW p \in Processes
      PROVE  IF current_comm'[p] = 0 THEN local_grid'[p] = <<>>
             ELSE IsGrid(local_grid'[p], Height(p)', Width(p)')
  <2> DEFINE info == ProcessorInfo(p, n)
             part == Spread[flags][n][p].dims
             grid == moved[p]
  <2>1. /\ current_comm'[p] = IF p < n THEN n ELSE 0
        /\ local_grid'[p] = add_ghost_layers(grid, info)
    BY <1>1 DEF get_comm
  <2>2. CASE p < n
    <3>1. Rank(p, n) = p /\ p \in 0..n-1
      BY <1>2, <2>2 DEF Rank, get_cartesian_comm
    <3>2. part[1] \in Nat \ {0} /\ part[2] \in Nat \ {0}
      BY <1>2, <3>1, PartOf
    <3>3. IsGrid(grid, part[1], part[2])
      <4>1. IsGrid(grid, Spread[flags][n][Rank(p, n)].dims[1], Spread[flags][n][Rank(p, n)].dims[2])
        BY <2>2, ShuffleGives
      <4>2. QED
        BY <3>1, <4>1
    <3>4. current_comm'[p] = n /\ n # 0 /\ Part(p)' = part /\ Info(p)' = info
      <4>1. current_comm'[p] = n /\ n # 0
        BY <1>2, <2>1, <2>2
      <4>2. Info(p)' = info
        BY <4>1 DEF Info
      <4>3. Part(p)' = part
        BY <1>1, <3>1, <4>1 DEF Part
      <4>4. QED
        BY <4>1, <4>2, <4>3
    <3>5. /\ Height(p)' = part[1] + Has(info.up) + Has(info.down)
          /\ Width(p)' = part[2] + Has(info.left) + Has(info.right)
      BY <3>4 DEF Height, Width
    <3> HIDE DEF n, moved, info, part, grid
    <3>6. IsGrid(add_ghost_layers(grid, info), part[1] + Has(info.up) + Has(info.down),
                 part[2] + Has(info.left) + Has(info.right))
      BY <3>2, <3>3, AddGhostLayers
    <3>7. QED
      BY <2>1, <3>4, <3>5, <3>6, Zenon
  <2>3. CASE ~(p < n)
    <3>1. grid = <<>>
      BY <2>3, ShuffleGives
    <3> HIDE DEF grid, info
    <3>2. add_ghost_layers(grid, info) = <<>>
      BY <3>1 DEF add_ghost_layers
    <3>3. QED
      BY <2>1, <2>3, <3>2
  <2>4. QED
    BY <2>2, <2>3
<1>5. DOMAIN local_grid' = Processes
  BY <1>1
<1>6. GridsInv'
  BY <1>2, <1>4, <1>5, Zenon DEF GridsInv
<1>7. QED
  BY <1>3, <1>6 DEF ShapesInv

LEMMA InitFits ==
  ASSUME Init
  PROVE  ShapesInv
<1>1. /\ flags \in Simulations /\ current_comm = get_comm(1)
      /\ local_grid = [p \in Processes |->
           IF p < 1 THEN initialize_grid(flags.num_rows, flags.num_columns, hot) ELSE <<>>]
      /\ network = [c \in Channels |-> <<>>]
  BY DEF Init
<1>2. /\ Processes \subseteq Nat /\ 0 \in Processes /\ flags.num_ranks \in Nat \ {0}
      /\ flags.num_rows \in Nat \ {0} /\ flags.num_columns \in Nat \ {0}
  BY <1>1, SimulationAssumption DEF Processes
<1>3. LengthsInv
  <2>1. \A p, q \in Processes : DOMAIN network[<<q, p>>] = {}
    BY <1>1 DEF Channels
  <2>2. QED
    BY <2>1 DEF LengthsInv
<1>4. ASSUME NEW p \in Processes
      PROVE  IF current_comm[p] = 0 THEN local_grid[p] = <<>>
             ELSE IsGrid(local_grid[p], Height(p), Width(p))
  <2>1. /\ current_comm[p] = IF p < 1 THEN 1 ELSE 0
        /\ ~(p < 1) => local_grid[p] = <<>>
    BY <1>1 DEF get_comm
  <2>2. CASE p < 1
    <3>1. p = 0 /\ current_comm[p] = 1 /\ 0 \in 0..1-1
      BY <1>2, <2>1, <2>2
    <3>2. Part(p) = <<flags.num_rows, flags.num_columns>>
      <4>1. Part(p) = Spread[flags][1][0].dims
        BY <3>1 DEF Part, Rank, get_cartesian_comm
      <4>2. 1 \in 1..flags.num_ranks
        BY <1>2
      <4>3. Spread[flags][1][0].dims = <<flags.num_rows, flags.num_columns>>
        BY <1>1, <3>1, <4>2, PartOf
      <4>4. QED
        BY <4>1, <4>3
    <3>3. /\ Has(Info(p).up) = 0 /\ Has(Info(p).down) = 0
          /\ Has(Info(p).left) = 0 /\ Has(Info(p).right) = 0
      <4> DEFINE g == get_processor_grid(1)
                 a == g[1]
                 b == g[2]
                 at == MPI_Cart_coords(0, g)
      <4>1. a \in Nat \ {0} /\ b \in Nat \ {0} /\ a * b = 1
        BY ProcessorGrid
      <4>2. at[1] \in 0..a-1 /\ at[2] \in 0..b-1
        BY <3>1, Coordinates
      <4>3. /\ Has(ProcessorInfo(0, 1).up) = IF at[1] = 0 THEN 0 ELSE 1
            /\ Has(ProcessorInfo(0, 1).down) = IF at[1] = a - 1 THEN 0 ELSE 1
            /\ Has(ProcessorInfo(0, 1).left) = IF at[2] = 0 THEN 0 ELSE 1
            /\ Has(ProcessorInfo(0, 1).right) = IF at[2] = b - 1 THEN 0 ELSE 1
        BY <3>1, Borders
      <4>4. Info(p) = ProcessorInfo(0, 1)
        BY <3>1 DEF Info
      <4> HIDE DEF a, b, at
      <4>5. a * 1 <= a * b /\ 1 * b <= a * b
        BY <4>1
      <4>6. a = 1 /\ b = 1
        BY <4>1, <4>5
      <4>7. QED
        BY <4>2, <4>3, <4>4, <4>6
    <3>4. Height(p) = flags.num_rows /\ Width(p) = flags.num_columns
      BY <1>2, <3>2, <3>3 DEF Height, Width
    <3>5. local_grid[p] = initialize_grid(flags.num_rows, flags.num_columns, hot)
      BY <1>1, <2>2
    <3>6. IsGrid(local_grid[p], flags.num_rows, flags.num_columns)
      BY <1>2, <3>5, InitialExtents
    <3>7. QED
      BY <3>1, <3>4, <3>6
  <2>3. CASE ~(p < 1)
    BY <2>1, <2>3
  <2>4. QED
    BY <2>2, <2>3
<1>5. DOMAIN local_grid = Processes
  BY <1>1
<1>6. QED
  BY <1>3, <1>4, <1>5 DEF ShapesInv, GridsInv

\* The invariant of every simulation: the grids are as large as the parts and the
\* layers towards the neighbours make them, and the layers on their way as long
\* as the sides that they go to.
THEOREM ShapesInvariance == Spec => []ShapesInv
<1>1. Init => ShapesInv
  BY InitFits
<1>2. LayersInv /\ ShapesInv /\ [Next]_vars => ShapesInv'
  <2>1. ASSUME LayersInv, ShapesInv, NEW p \in Processes, Step(p)
        PROVE  ShapesInv'
    <3>1. CASE Skip(p)
      BY <2>1, <3>1, UnchangedFits DEF Skip
    <3>2. QED
      BY <2>1, <3>1, SendLeftRightFits, AwaitLeftRightFits, SendBottomUpFits, AwaitBottomUpFits,
         JacobiFits DEF Step
  <2>2. ASSUME ShapesInv, RecordTimestep PROVE ShapesInv'
    BY <2>2, UnchangedFits DEF RecordTimestep
  <2>3. ASSUME ShapesInv, UNCHANGED vars PROVE ShapesInv'
    BY <2>3, UnchangedFits DEF vars
  <2>4. QED
    BY <2>1, <2>2, <2>3, AdaptFits DEF Next
<1>3. QED
  BY <1>1, <1>2, LayersInvariance, PTL DEF Spec

\* The grid of a process has the extents of its part of the array and a layer for
\* each neighbour, in every simulation.
THEOREM TypeCorrectness == Spec => []TypeOK
<1>1. ASSUME LayersInv, ShapesInv
      PROVE  TypeOK
  <2>1. pc \in [Processes -> {"barrier", "iterate", "left_right", "between", "bottom_up",
                              "gather", "jacobi", "done"}]
    BY <1>1 DEF LayersInv, LoopTypeOK, Place
  <2>2. ASSUME NEW p \in Processes
        PROVE  get_dimensions_without_ghost_layers(local_grid[p], Info(p)) =
                 IF p < current_comm[p]
                 THEN Spread[flags][current_comm[p]][Rank(p, current_comm[p])].dims
                 ELSE <<0, 0>>
    <3>1. /\ p \in Nat /\ current_comm[0] \in Nat \ {0}
          /\ p >= current_comm[0] => current_comm[p] = 0
          /\ p < current_comm[0] => current_comm[p] = current_comm[0]
      BY <1>1, InCommunicator, Simulation DEF LayersInv
    <3>2. CASE p < current_comm[0]
      <4> DEFINE grid == local_grid[p]
                 info == Info(p)
                 h == Height(p)
                 w == Width(p)
      <4>1. IsGrid(grid, h, w) /\ h \in Nat \ {0} /\ w \in Nat \ {0}
        BY <1>1, <3>1, <3>2, OwnGrid
      <4>2. /\ Part(p)[1] \in Nat \ {0} /\ Part(p)[2] \in Nat \ {0}
            /\ Part(p) = <<Part(p)[1], Part(p)[2]>>
        BY <1>1, <3>2, PartHasValues DEF LayersInv
      <4>3. h - Has(info.up) - Has(info.down) = Part(p)[1] /\ w - Has(info.left) - Has(info.right) = Part(p)[2]
        BY <4>2 DEF Height, Width, Has
      <4> HIDE DEF grid, info, h, w
      <4>4. GridDimensions(grid) = <<h, w>>
        BY <4>1, GridExtents
      <4>5. get_dimensions_without_ghost_layers(grid, info) = Part(p)
        BY <4>1, <4>2, <4>3, <4>4 DEF get_dimensions_without_ghost_layers
      <4>6. QED
        BY <3>1, <3>2, <4>5 DEF Part, grid, info
    <3>3. CASE ~(p < current_comm[0])
      <4>1. current_comm[p] = 0 /\ local_grid[p] = <<>>
        BY <1>1, <3>1, <3>3 DEF ShapesInv, GridsInv
      <4>2. get_dimensions_without_ghost_layers(local_grid[p], Info(p)) = <<0, 0>>
        BY <4>1 DEF get_dimensions_without_ghost_layers, GridDimensions
      <4>3. QED
        BY <3>1, <4>1, <4>2
    <3>4. QED
      BY <3>2, <3>3
  <2>3. QED
    BY <2>1, <2>2 DEF TypeOK
<1>2. QED
  BY <1>1, LayersInvariance, ShapesInvariance, PTL

\* In every simulation a layer under way is as long as the ghost layer that its
\* receiver puts it in.
THEOREM LayersAlwaysFit == Spec => []LayersFit
<1>1. ASSUME LayersInv, ShapesInv
      PROVE  LayersFit
  <2>1. SUFFICES ASSUME NEW p \in Processes, NEW q \in Processes, NEW k \in DOMAIN network[<<q, p>>]
                 PROVE  Len(network[<<q, p>>][k]) = Len(get_ghost_layer(local_grid[p], Side(p, q)))
    BY DEF LayersFit
  <2> DEFINE layer == network[<<q, p>>][k]
             grid == local_grid[p]
             h == Height(p)
             w == Width(p)
  <2>2. Beside(p, q) \/ Above(p, q)
    <3> DEFINE s == network[<<q, p>>]
    <3>1. s \in Seq(ToSet(s)) /\ Len(s) = UnderWay(q, p) /\ k \in DOMAIN s
      BY <1>1 DEF LayersInv, ChannelInv
    <3> HIDE DEF s
    <3>2. UnderWay(q, p) # 0
      BY <3>1
    <3>3. Beside(q, p) \/ Above(q, p)
      BY <3>2 DEF UnderWay
    <3>4. QED
      BY <1>1, <3>3, NeighboursMutual DEF LayersInv
  <2>3. p < current_comm[0] /\ ~(Beside(p, q) /\ Above(p, q))
    BY <1>1, <2>2, NeighboursMutual DEF LayersInv
  <2>4. IsGrid(grid, h, w) /\ h \in Nat \ {0} /\ w \in Nat \ {0}
    <3>1. current_comm[p] # 0
      BY <1>1, <2>3, InCommunicator DEF LayersInv
    <3>2. QED
      BY <1>1, <3>1, OwnGrid
  <2>5. IsTuple(layer, IF Beside(p, q) THEN h ELSE w)
    BY <1>1 DEF ShapesInv, LengthsInv
  <2> HIDE DEF layer, grid, h, w
  <2>6. /\ grid # <<>> /\ DOMAIN grid = 1..h /\ Len(grid) = h
        /\ \A i \in 1..h : Len(grid[i]) = w
    BY <2>4, GridExtents
  <2>7. CASE Beside(p, q)
    <3>1. Side(p, q) \in {"LEFT", "RIGHT"}
      BY <2>3, <2>7 DEF Side, Beside, Above
    <3>2. \A j : Len(get_column(grid, j)) = h
      <4>1. \A j : IsTuple(get_column(grid, j), h)
        BY <2>6 DEF get_column, IsTuple
      <4>2. QED
        BY <2>4, <4>1, Tuples
    <3>3. Len(get_ghost_layer(grid, Side(p, q))) = h
      BY <2>6, <3>1, <3>2 DEF get_ghost_layer, get_left_column, get_right_column
    <3>4. Len(layer) = h
      BY <2>4, <2>5, <2>7, Tuples
    <3>5. QED
      BY <3>3, <3>4 DEF layer, grid
  <2>8. CASE ~Beside(p, q)
    <3>1. Side(p, q) \in {"TOP", "BOTTOM"}
      BY <2>2, <2>8 DEF Side, Beside, Above
    <3>2. Len(get_row(grid, 0)) = w /\ Len(get_row(grid, Len(grid) - 1)) = w
      <4>1. get_row(grid, 0) = grid[1] /\ get_row(grid, Len(grid) - 1) = grid[h]
        <5>1. 0 + 1 = 1 /\ h - 1 + 1 = h
          BY <2>4
        <5>2. QED
          BY <2>6, <5>1 DEF get_row
      <4>2. 1 \in 1..h /\ h \in 1..h
        BY <2>4
      <4>3. QED
        BY <2>6, <4>1, <4>2
    <3>3. Len(get_ghost_layer(grid, Side(p, q))) = w
      BY <2>6, <3>1, <3>2 DEF get_ghost_layer, get_top_row, get_bottom_row
    <3>4. Len(layer) = w
      BY <2>4, <2>5, <2>8, Tuples
    <3>5. QED
      BY <3>3, <3>4 DEF layer, grid
  <2>9. QED
    BY <2>7, <2>8
<1>2. QED
  BY <1>1, LayersInvariance, ShapesInvariance, PTL
=============================================================================

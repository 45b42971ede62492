----------------------- MODULE DynamicProcessesProofs -----------------------
(***************************************************************************)
(* That the invariant of DynamicProcessesInvariant.tla holds of every job  *)
(* that grows or shrinks, however often, and what follows from it.         *)
(***************************************************************************)
EXTENDS DynamicProcessesInvariant, CommonLemmas

-----------------------------------------------------------------------------
(***************************************************************************)
(* Sequences of processes                                                  *)
(***************************************************************************)

\* The elements of a part of a sequence
LEMMA PartOf ==
  ASSUME NEW S, NEW s \in Seq(S), NEW a \in Nat \ {0}, NEW b \in 0..Len(s)
  PROVE  /\ SubSeq(s, a, b) \in Seq(S)
         /\ ToSet(SubSeq(s, a, b)) = {s[i] : i \in a..b}
<1> DEFINE t == SubSeq(s, a, b)
<1>1. t \in Seq(S) /\ DOMAIN t = 1..(IF a <= b THEN b - a + 1 ELSE 0)
  OBVIOUS
<1>2. \A i \in DOMAIN t : t[i] = s[a + i - 1]
  OBVIOUS
<1>3. ASSUME NEW i \in DOMAIN t PROVE t[i] \in {s[k] : k \in a..b}
  <2>1. a + i - 1 \in a..b
    BY <1>1
  <2>2. QED
    BY <1>2, <2>1
<1>4. ASSUME NEW k \in a..b PROVE s[k] \in {t[i] : i \in DOMAIN t}
  <2>1. k - a + 1 \in DOMAIN t /\ a + (k - a + 1) - 1 = k
    BY <1>1
  <2>2. QED
    BY <1>2, <2>1
<1> HIDE DEF t
<1>5. ToSet(t) = {s[i] : i \in a..b}
  BY <1>3, <1>4 DEF ToSet
<1>6. QED
  BY <1>1, <1>5 DEF t

\* The start of a sequence in two parts
LEMMA TwoParts ==
  ASSUME NEW S, NEW s \in Seq(S), NEW l \in 0..Len(s), NEW b \in 0..Len(s), l <= b
  PROVE  SubSeq(s, 1, l) \o SubSeq(s, l + 1, b) = SubSeq(s, 1, b)
<1> DEFINE t == SubSeq(s, 1, l)
           u == SubSeq(s, l + 1, b)
           v == SubSeq(s, 1, b)
<1>1. t \in Seq(S) /\ Len(t) = l /\ \A i \in 1..l : t[i] = s[i]
  OBVIOUS
<1>2. u \in Seq(S) /\ Len(u) = b - l /\ \A i \in 1..b - l : u[i] = s[l + i]
  OBVIOUS
<1>3. v \in Seq(S) /\ Len(v) = b /\ \A i \in 1..b : v[i] = s[i]
  OBVIOUS
<1> HIDE DEF t, u, v
<1>4. t \o u \in Seq(S) /\ Len(t \o u) = b
  BY <1>1, <1>2
<1>5. ASSUME NEW i \in 1..b PROVE (t \o u)[i] = v[i]
  <2>1. CASE i <= l
    BY <1>1, <1>2, <1>3, <2>1
  <2>2. CASE i > l
    <3>1. i - l \in 1..b - l /\ l + (i - l) = i
      BY <2>2
    <3>2. (t \o u)[i] = u[i - l]
      BY <1>1, <1>2, <2>2
    <3>3. QED
      BY <1>2, <1>3, <3>1, <3>2
  <2>3. i <= l \/ i > l
    OBVIOUS
  <2>4. QED
    BY <2>1, <2>2, <2>3, Zenon
<1> DEFINE w == t \o u
<1> HIDE DEF w
<1>6. w \in Seq(S) /\ Len(w) = Len(v) /\ \A i \in 1..Len(v) : w[i] = v[i]
  BY <1>3, <1>4, <1>5 DEF w
<1>7. w = v
  BY <1>3, <1>6
<1>8. QED
  BY <1>7 DEF t, u, v, w

\* A sequence followed by another
LEMMA Joined2 ==
  ASSUME NEW S, NEW s \in Seq(S), NEW t \in Seq(S)
  PROVE  /\ s \o t \in Seq(S)
         /\ ToSet(s \o t) = ToSet(s) \cup ToSet(t)
<1>1. /\ s \o t \in Seq(S) /\ DOMAIN (s \o t) = 1..Len(s)+Len(t)
      /\ DOMAIN s = 1..Len(s) /\ DOMAIN t = 1..Len(t) /\ Len(s) \in Nat /\ Len(t) \in Nat
      /\ \A i \in 1..Len(s)+Len(t) : (s \o t)[i] = IF i <= Len(s) THEN s[i] ELSE t[i - Len(s)]
  OBVIOUS
<1>2. ASSUME NEW i \in DOMAIN (s \o t) PROVE (s \o t)[i] \in ToSet(s) \cup ToSet(t)
  <2>1. CASE i <= Len(s)
    BY <1>1, <2>1 DEF ToSet
  <2>2. CASE i > Len(s)
    <3>1. i - Len(s) \in 1..Len(t)
      BY <1>1, <2>2
    <3>2. QED
      BY <1>1, <2>2, <3>1 DEF ToSet
  <2>3. QED
    BY <1>1, <2>1, <2>2
<1>3. ASSUME NEW i \in DOMAIN s PROVE s[i] \in ToSet(s \o t)
  <2>1. i \in DOMAIN (s \o t) /\ (s \o t)[i] = s[i]
    BY <1>1
  <2>2. QED
    BY <2>1 DEF ToSet
<1>4. ASSUME NEW i \in DOMAIN t PROVE t[i] \in ToSet(s \o t)
  <2>1. Len(s) + i \in DOMAIN (s \o t) /\ (s \o t)[Len(s) + i] = t[i]
    BY <1>1
  <2>2. QED
    BY <2>1 DEF ToSet
<1>5. ToSet(s) = {s[i] : i \in DOMAIN s} /\ ToSet(t) = {t[i] : i \in DOMAIN t}
      /\ ToSet(s \o t) = {(s \o t)[i] : i \in DOMAIN (s \o t)}
  BY DEF ToSet
<1> DEFINE u == s \o t
<1> HIDE DEF u
<1>6. ToSet(u) \subseteq ToSet(s) \cup ToSet(t)
  BY <1>2, <1>5 DEF u
<1>7. ToSet(s) \subseteq ToSet(u) /\ ToSet(t) \subseteq ToSet(u)
  <2>1. \A i \in DOMAIN s : s[i] \in ToSet(u)
    BY <1>3 DEF u
  <2>2. \A i \in DOMAIN t : t[i] \in ToSet(u)
    BY <1>4 DEF u
  <2>3. QED
    BY <1>5, <2>1, <2>2
<1>8. QED
  BY <1>1, <1>6, <1>7 DEF u

\* What is left of a set is in it, and all that does not leave is left.
LEMMA WithoutKeeps ==
  ASSUME NEW S, NEW s \in Seq(S), NEW leaving
  PROVE  /\ Without(s, leaving) \in Seq(S)
         /\ ToSet(s) \ leaving \subseteq ToSet(Without(s, leaving))
<1> DEFINE kept == {k \in DOMAIN s : s[k] \notin leaving}
           place(k) == Cardinality({l \in kept : l < k})
           at(n) == CHOOSE k \in kept : place(k) = n - 1
           w == [n \in 1..Cardinality(kept) |-> s[at(n)]]
<1>1. Without(s, leaving) = w
  BY DEF Without
<1>2. kept \subseteq Int /\ IsFiniteSet(kept) /\ Cardinality(kept) \in Nat
  <2>1. DOMAIN s = 1..Len(s) /\ Len(s) \in Nat
    OBVIOUS
  <2>2. IsFiniteSet(1..Len(s))
    BY <2>1, FS_Interval
  <2>3. kept \subseteq 1..Len(s)
    BY <2>1
  <2>4. QED
    BY <2>2, <2>3, FS_Subset, FS_CardinalityType
<1>3. ASSUME NEW n \in 1..Cardinality(kept) PROVE at(n) \in kept /\ place(at(n)) = n - 1
  <2>1. n - 1 \in 0..Cardinality(kept) - 1
    BY <1>2
  <2> HIDE DEF kept
  <2>2. \E k \in kept : place(k) = n - 1
    BY <1>2, <2>1, Places
  <2> HIDE DEF place
  <2>3. QED
    BY <2>2
<1>4. ASSUME NEW k \in kept PROVE place(k) \in 0..Cardinality(kept) - 1
  <2>1. {l \in kept : l < k} \subseteq kept \ {k}
    BY <1>2
  <2> HIDE DEF kept
  <2>2. IsFiniteSet(kept \ {k}) /\ Cardinality(kept \ {k}) = Cardinality(kept) - 1
    BY <1>2, FS_RemoveElement
  <2>3. IsFiniteSet({l \in kept : l < k}) /\ place(k) <= Cardinality(kept) - 1
    BY <2>1, <2>2, FS_Subset
  <2>4. place(k) \in Nat
    BY <2>3, FS_CardinalityType
  <2>5. QED
    BY <1>2, <2>3, <2>4
<1>5. ASSUME NEW k \in kept, NEW l \in kept, place(k) = place(l) PROVE k = l
  <2>1. ASSUME NEW x \in kept, NEW y \in kept, x < y PROVE place(x) < place(y)
    <3>0. place(x) \in Nat /\ place(y) \in Nat
      <4> HIDE DEF kept, place
      <4> QED BY <1>2, <1>4
    <3>1. {z \in kept : z < x} \subseteq {z \in kept : z < y} \ {x}
      BY <1>2, <2>1
    <3>2. x \in {z \in kept : z < y}
      BY <2>1
    <3> HIDE DEF kept
    <3>3. IsFiniteSet({z \in kept : z < y})
      BY <1>2, FS_Subset
    <3>4. /\ IsFiniteSet({z \in kept : z < y} \ {x})
          /\ Cardinality({z \in kept : z < y} \ {x}) = place(y) - 1
      BY <3>2, <3>3, FS_RemoveElement
    <3>5. place(x) <= place(y) - 1
      BY <3>1, <3>4, FS_Subset
    <3>6. QED
      BY <3>0, <3>5
  <2>2. place(k) \in Nat /\ place(l) \in Nat
    <3> HIDE DEF kept, place
    <3> QED BY <1>2, <1>4
  <2>3. k \in Int /\ l \in Int
    BY <1>2
  <2> HIDE DEF place, kept
  <2>4. QED
    BY <1>5, <2>1, <2>2, <2>3
<1>6. ASSUME NEW x \in ToSet(s) \ leaving PROVE x \in ToSet(w)
  <2>1. PICK k \in kept : s[k] = x
    BY <1>6 DEF ToSet
  <2>2. place(k) + 1 \in 1..Cardinality(kept) /\ (place(k) + 1) - 1 = place(k)
    <3> HIDE DEF kept, place
    <3> QED BY <1>2, <1>4
  <2>3. at(place(k) + 1) = k
    <3> HIDE DEF at, place, kept
    <3>1. at(place(k) + 1) \in kept /\ place(at(place(k) + 1)) = place(k)
      BY <1>3, <2>2
    <3>2. QED
      BY <1>5, <3>1
  <2>4. w[place(k) + 1] = x
    <3> HIDE DEF at, place, kept
    <3> QED BY <2>1, <2>2, <2>3
  <2>5. place(k) + 1 \in DOMAIN w
    BY <2>2
  <2> HIDE DEF w
  <2>6. QED
    BY <2>4, <2>5 DEF ToSet
<1>7. w \in Seq(S)
  <2>1. ASSUME NEW n \in 1..Cardinality(kept) PROVE s[at(n)] \in S
    <3>1. at(n) \in DOMAIN s
      BY <1>3
    <3> HIDE DEF at
    <3>2. QED
      BY <3>1
  <2> HIDE DEF at, kept
  <2>2. w \in [1..Cardinality(kept) -> S]
    BY <2>1
  <2> HIDE DEF w
  <2>3. QED
    BY <1>2, <2>2
<1>8. QED
  <2> HIDE DEF w
  <2> QED BY <1>1, <1>6, <1>7

-----------------------------------------------------------------------------
(***************************************************************************)
(* Jobs, and the sets that they come to                                    *)
(***************************************************************************)

LEMMA JobFacts ==
  ASSUME job \in Jobs
  PROVE  /\ job.processes \in Seq(Process) /\ Spare \in Seq(Process)
         /\ job.num_adaptations \in Nat /\ job.reduction \in BOOLEAN
         /\ Grows /\ job.num_adaptations > 0 =>
              job.processes # <<>> /\ Len(Spare) >= num_add_proc * job.num_adaptations
         /\ \A i, k \in 1..Len(Spare) : Spare[i] = Spare[k] => i = k
         /\ \A i \in 1..Len(Spare) : New(Spare[i])
<1> DEFINE s == job.processes
<1>1. JobFits(job) /\ Spare \in Seq(ToSet(Spare))
  BY JobAssumption
<1>2. s \in Seq(ToSet(s))
  BY <1>1 DEF JobFits
<1>3. s \in Seq(ToSet(s) \cup ToSet(Spare)) /\ Spare \in Seq(ToSet(s) \cup ToSet(Spare))
  <2> HIDE DEF s
  <2> QED BY <1>1, <1>2
<1>4. ToSet(s \o Spare) = ToSet(s) \cup ToSet(Spare)
  <2> HIDE DEF s
  <2> QED BY <1>3, Joined2
<1>5. ToSet(s) \cup ToSet(Spare) \subseteq Process
  BY <1>4 DEF Process
<1>6. s \in Seq(Process) /\ Spare \in Seq(Process)
  <2> HIDE DEF s
  <2> QED BY <1>1, <1>2, <1>5
<1>7. \A x, y \in DOMAIN (s \o Spare) : (s \o Spare)[x] = (s \o Spare)[y] => x = y
  BY <1>1 DEF JobFits, IsInjective
<1>8. \A i, k \in 1..Len(Spare) : Spare[i] = Spare[k] => i = k
  <2> HIDE DEF s
  <2>1. SUFFICES ASSUME NEW i \in 1..Len(Spare), NEW k \in 1..Len(Spare), Spare[i] = Spare[k]
                 PROVE  i = k
    OBVIOUS
  <2>2. /\ Len(s) + i \in DOMAIN (s \o Spare) /\ (s \o Spare)[Len(s) + i] = Spare[i]
        /\ Len(s) + k \in DOMAIN (s \o Spare) /\ (s \o Spare)[Len(s) + k] = Spare[k]
        /\ Len(s) \in Nat
    BY <1>6
  <2>3. Len(s) + i = Len(s) + k
    BY <1>7, <2>1, <2>2
  <2>4. QED
    BY <2>2, <2>3
<1>9. \A i \in 1..Len(Spare) : New(Spare[i])
  <2>1. SUFFICES ASSUME NEW i \in 1..Len(Spare), Spare[i] \in ToSet(s) PROVE FALSE
    BY DEF New
  <2> HIDE DEF s
  <2>2. PICK k \in DOMAIN s : s[k] = Spare[i]
    BY <2>1 DEF ToSet
  <2>3. /\ Len(s) + i \in DOMAIN (s \o Spare) /\ (s \o Spare)[Len(s) + i] = Spare[i]
        /\ k \in DOMAIN (s \o Spare) /\ (s \o Spare)[k] = s[k]
        /\ Len(s) \in Nat /\ k \in 1..Len(s)
    BY <1>6
  <2>4. Len(s) + i = k
    BY <1>7, <2>2, <2>3
  <2>5. QED
    BY <2>3, <2>4
<1>10. QED
  BY <1>1, <1>6, <1>8, <1>9 DEF JobFits, Grows

\* The sets of a job that grows
LEMMA GrownSet ==
  ASSUME TypeOK, OperationsInv, Grows, NEW c \in 0..Len(operations)
  PROVE  /\ num_add_proc * c \in 0..Len(Spare)
         /\ ToSet(SetMembers(c)) = ToSet(job.processes) \cup {Spare[i] : i \in 1..num_add_proc * c}
         /\ job.processes # <<>> =>
              SetMembers(c)[1] = job.processes[1] /\ job.processes[1] \in ToSet(job.processes)
<1>1. /\ job.processes \in Seq(Process) /\ Spare \in Seq(Process) /\ Len(operations) \in Nat
      /\ job.num_adaptations \in Nat /\ Len(operations) <= job.num_adaptations
      /\ job.num_adaptations > 0 => Len(Spare) >= num_add_proc * job.num_adaptations
  BY JobFacts DEF TypeOK, OperationsInv, Sets
<1>2. num_add_proc * c \in 0..Len(Spare)
  BY <1>1 DEF num_add_proc
<1> DEFINE t == SubSeq(Spare, 1, num_add_proc * c)
<1>3. t \in Seq(Process) /\ ToSet(t) = {Spare[i] : i \in 1..num_add_proc * c}
  BY <1>1, <1>2, PartOf
<1>4. SetMembers(c) = job.processes \o t
  <2>1. CASE c = 0
    <3>1. t = <<>> /\ SetMembers(c) = job.processes
      BY <1>1, <2>1 DEF num_add_proc, SetMembers
    <3> HIDE DEF t
    <3>2. QED
      BY <1>1, <3>1
  <2>2. CASE c # 0
    <3>1. c \in 1..Len(operations) /\ SetMembers(c) = operations[c].main
      BY <1>1, <2>2 DEF SetMembers
    <3>2. operations[c].main = job.processes \o SubSeq(Spare, 1, num_add_proc * c)
      BY <3>1 DEF OperationsInv
    <3>3. QED
      BY <3>1, <3>2
  <2>3. QED
    BY <2>1, <2>2
<1> HIDE DEF t
<1>5. ToSet(SetMembers(c)) = ToSet(job.processes) \cup ToSet(t)
  BY <1>1, <1>3, <1>4, Joined2
<1>6. ASSUME job.processes # <<>>
      PROVE  (job.processes \o t)[1] = job.processes[1] /\ 1 \in DOMAIN job.processes
  BY <1>1, <1>3, <1>6
<1>7. QED
  BY <1>2, <1>3, <1>4, <1>5, <1>6 DEF ToSet

LEMMA SetType ==
  ASSUME TypeOK, OperationsInv, NEW c \in 0..Len(operations)
  PROVE  SetMembers(c) \in Seq(Process) /\ ToSet(SetMembers(c)) \subseteq Process
<1>1. SetMembers(c) \in Seq(Process)
  <2>1. CASE c = 0
    BY <2>1, JobFacts DEF TypeOK, SetMembers
  <2>2. CASE c # 0
    <3>1. operations[c] \in Operations
      BY <2>2 DEF TypeOK
    <3>2. QED
      BY <2>2, <3>1 DEF SetMembers, Operations
  <2>3. QED
    BY <2>1, <2>2
<1>2. QED
  BY <1>1 DEF ToSet

\* A communicator has one root.
LEMMA RootIsFirst ==
  ASSUME TypeOK, OperationsInv, NEW c \in 0..Len(operations), NEW p, Root(p, c)
  PROVE  SetMembers(c)[1] = p
<1>1. \E k \in DOMAIN SetMembers(c) : SetMembers(c)[k] = p
  BY DEF Root, ToSet
<1> DEFINE k == CHOOSE k \in DOMAIN SetMembers(c) : SetMembers(c)[k] = p
<1>2. k \in DOMAIN SetMembers(c) /\ SetMembers(c)[k] = p
  BY <1>1
<1>3. k - 1 = 0
  BY DEF Root, get_rank
<1>4. k \in Int
  BY <1>2, SetType
<1> HIDE DEF k
<1>5. QED
  BY <1>2, <1>3, <1>4

\* A process that the job has not begun with is never a root.
LEMMA NewIsNoRoot ==
  ASSUME TypeOK, OperationsInv, Grows, NEW c \in 0..Len(operations), NEW p, New(p)
  PROVE  ~Root(p, c)
<1>1. CASE c = 0
  BY <1>1 DEF Root, New, SetMembers
<1>2. CASE c # 0
  <2>1. job.processes # <<>>
    BY <1>2, JobFacts DEF TypeOK, OperationsInv, Sets
  <2>2. SetMembers(c)[1] \in ToSet(job.processes)
    BY <2>1, GrownSet
  <2>3. QED
    BY <2>2, RootIsFirst DEF New
<1>3. QED
  BY <1>1, <1>2

\* Where the life of a process begins: with the first set that it is in.
LEMMA OriginIs ==
  ASSUME TypeOK, OperationsInv, NEW p \in Process, Started(p)
  PROVE  /\ Origin(p) \in 0..Len(operations)
         /\ Inside(p, Origin(p))
         /\ \A c \in 0..Len(operations) : c < Origin(p) => ~Inside(p, c)
         /\ is_dynamic_process(p) <=> New(p)
         /\ New(p) => Grows /\ Origin(p) # 0
<1>1. Len(operations) \in Nat /\ Spare \in Seq(Process)
  BY JobFacts DEF TypeOK
<1>2. CASE ~New(p)
  BY <1>1, <1>2 DEF New, Origin, Inside, SetMembers, is_dynamic_process
<1>3. CASE New(p)
  <2>1. Grows /\ p \in ToSet(SubSeq(Spare, 1, num_add_proc * Len(operations)))
    BY <1>3 DEF Started
  <2>2. num_add_proc * Len(operations) \in 0..Len(Spare)
    BY <1>1, <2>1, GrownSet
  <2>3. PICK i \in 1..num_add_proc * Len(operations) : p = Spare[i]
    BY <1>1, <2>1, <2>2, PartOf
  <2>4. i \in 1..Len(Spare) /\ \A l \in 1..Len(Spare) : Spare[l] = p => l = i
    <3>1. \A l, k \in 1..Len(Spare) : Spare[l] = Spare[k] => l = k
      BY JobFacts DEF TypeOK
    <3>2. i \in 1..Len(Spare)
      BY <1>1, <2>2, <2>3
    <3>3. QED
      BY <2>3, <3>1, <3>2
  <2>5. ASSUME NEW k \in 1..Len(operations)
        PROVE  /\ operations[k].op = "grow"
               /\ p \in operations[k].delta <=> i \in num_add_proc * (k - 1) + 1..num_add_proc * k
    <3>1. num_add_proc * (k - 1) + 1 \in Nat \ {0} /\ num_add_proc * k \in 0..Len(Spare)
      BY <1>1, <2>2 DEF num_add_proc
    <3>2. operations[k].delta = {Spare[l] : l \in num_add_proc * (k - 1) + 1..num_add_proc * k}
      <4>1. operations[k].delta = ToSet(SubSeq(Spare, num_add_proc * (k - 1) + 1, num_add_proc * k))
        BY <2>1 DEF OperationsInv
      <4>2. PICK a \in Nat \ {0} : a = num_add_proc * (k - 1) + 1
        BY <3>1
      <4>3. PICK b \in 0..Len(Spare) : b = num_add_proc * k
        BY <3>1
      <4>4. ToSet(SubSeq(Spare, a, b)) = {Spare[l] : l \in a..b}
        BY <1>1, PartOf
      <4>5. QED
        BY <4>1, <4>2, <4>3, <4>4
    <3>3. \A l \in num_add_proc * (k - 1) + 1..num_add_proc * k : l \in 1..Len(Spare)
      BY <1>1, <3>1 DEF num_add_proc
    <3>4. QED
      BY <2>1, <2>3, <2>4, <3>2, <3>3 DEF OperationsInv
  <2>6. PICK o \in 1..Len(operations) : i \in num_add_proc * (o - 1) + 1..num_add_proc * o
    <3>1. (i + 1) \div 2 \in 1..Len(operations)
          /\ i \in 2 * (((i + 1) \div 2) - 1) + 1..2 * ((i + 1) \div 2)
      BY <1>1, <2>3 DEF num_add_proc
    <3>2. QED
      BY <3>1 DEF num_add_proc
  <2>7. DOMAIN operations = 1..Len(operations)
    BY DEF TypeOK
  <2>8. Origin(p) \in 1..Len(operations) /\ p \in operations[Origin(p)].delta
    BY <1>3, <2>5, <2>6, <2>7 DEF Origin, New
  <2>9. i \in num_add_proc * (Origin(p) - 1) + 1..num_add_proc * Origin(p)
    BY <2>5, <2>8
  <2>10. ASSUME NEW c \in 0..Len(operations)
         PROVE  Inside(p, c) <=> c >= Origin(p)
    <3>1. num_add_proc * c \in 0..Len(Spare)
          /\ ToSet(SetMembers(c)) = ToSet(job.processes) \cup {Spare[l] : l \in 1..num_add_proc * c}
      BY <2>1, GrownSet
    <3>2. p \in ToSet(SetMembers(c)) <=> i \in 1..num_add_proc * c
      <4>1. p \notin ToSet(job.processes)
        BY <1>3 DEF New
      <4>2. \A l \in 1..num_add_proc * c : l \in 1..Len(Spare)
        BY <1>1, <3>1
      <4>3. QED
        BY <2>3, <2>4, <3>1, <4>1, <4>2
    <3>3. i \in 1..num_add_proc * c <=> c >= Origin(p)
      BY <1>1, <2>8, <2>9 DEF num_add_proc
    <3>4. QED
      BY <3>2, <3>3 DEF Inside
  <2>11. Inside(p, Origin(p))
    BY <1>1, <2>8, <2>10
  <2>12. QED
    BY <1>1, <1>3, <2>1, <2>8, <2>10, <2>11 DEF is_dynamic_process
<1>4. QED
  BY <1>2, <1>3

-----------------------------------------------------------------------------
(***************************************************************************)
(* Entries of collectives                                                  *)
(***************************************************************************)

LEMMA CountType ==
  ASSUME NEW place, NEW current, NEW name, NEW c
  PROVE  Count(place, current, name, c) \in Nat
<1>1. Total(c) \in Nat /\ Settled(c) \in Nat
  BY DEF Total, Settled
<1>2. OnCurrent(place, c) \in Nat
  BY <1>1 DEF OnCurrent
<1>3. OnNext(place, c) \in Nat
  BY <1>1 DEF OnNext
<1>4. QED
  BY <1>1, <1>2, <1>3 DEF Count

LEMMA EnteredIs ==
  ASSUME NEW p \in Process, NEW c \in Sets
  PROVE  /\ entered[p][c] = IF Inside(p, c) THEN Count(dyn_pc[p], comm[p], main_pset[p], c) ELSE 0
         /\ entered[p][c] \in Nat
BY CountType DEF entered

\* As many entries as there are collectives that they are for
LEMMA EntriesAre ==
  ASSUME RegisteredInv, NEW p \in Process, NEW c \in Sets
  PROVE  Entries(p, c) = entered[p][c]
<1> DEFINE S == {x \in dyn_collected : x.comm = c /\ x.from = p}
           n == entered[p][c]
           f == [x \in S |-> x.call]
<1>1. n \in Nat
  BY EnteredIs
<1> HIDE DEF n
<1>2. \A x \in S : x.call \in 1..n
  BY DEF RegisteredInv, Registered, n
<1>3. \A k \in 1..n : \E x \in S : x.call = k
  BY DEF RegisteredInv, Registered, n
<1>4. \A x, y \in S : x.call = y.call => x = y
  BY DEF RegisteredInv, Registered
<1> HIDE DEF S
<1>5. f \in [S -> 1..n]
  BY <1>2
<1>6. \A x, y \in S : f[x] = f[y] => x = y
  BY <1>4
<1>7. \A k \in 1..n : \E x \in S : f[x] = k
  BY <1>3
<1> HIDE DEF f
<1>8. f \in Injection(S, 1..n)
  BY <1>5, <1>6 DEF Injection, IsInjective
<1>9. f \in Surjection(S, 1..n)
  BY <1>5, <1>7 DEF Surjection
<1>10. IsFiniteSet(1..n) /\ Cardinality(1..n) = n
  BY <1>1, FS_Interval
<1>11. Cardinality(S) = n
  BY <1>8, <1>9, <1>10, FS_Injection
<1>12. QED
  BY <1>11 DEF Entries, S, n

\* One more entry
OneMore(E, F, p, c, C) ==
  \A q \in Process, d \in C : F[q][d] = IF q = p /\ d = c THEN E[p][c] + 1 ELSE E[q][d]

LEMMA RegisteredNext ==
  ASSUME NEW S, NEW C, NEW E, NEW F, NEW p \in Process, NEW c \in C, NEW x,
         Registered(S, E, C), E[p][c] \in Nat, OneMore(E, F, p, c, C),
         x.from = p, x.comm = c, x.call = E[p][c] + 1
  PROVE  Registered(S \cup {x}, F, C)
<1> DEFINE T == S \cup {x}
<1>1. \A y \in S : y.from \in Process /\ y.comm \in C /\ y.call \in 1..E[y.from][y.comm]
  BY DEF Registered
<1>2. \A y \in S : y.from = p /\ y.comm = c => y.call \in 1..E[p][c]
  BY <1>1
<1>3. ASSUME NEW y \in T
      PROVE  y.from \in Process /\ y.comm \in C /\ y.call \in 1..F[y.from][y.comm]
  <2>1. CASE y = x
    BY <2>1 DEF OneMore
  <2>2. CASE y \in S /\ y.from = p /\ y.comm = c
    BY <1>2, <2>2 DEF OneMore
  <2>3. CASE y \in S /\ ~(y.from = p /\ y.comm = c)
    BY <1>1, <2>3 DEF OneMore
  <2>4. QED
    BY <2>1, <2>2, <2>3
<1>4. ASSUME NEW q \in Process, NEW d \in C, NEW n \in 1..F[q][d]
      PROVE  \E y \in T : y.from = q /\ y.comm = d /\ y.call = n
  <2>1. CASE q = p /\ d = c /\ n = E[p][c] + 1
    BY <2>1
  <2>2. CASE ~(q = p /\ d = c /\ n = E[p][c] + 1)
    <3>1. n \in 1..E[q][d]
      BY <2>2 DEF OneMore
    <3>2. QED
      BY <3>1 DEF Registered
  <2>3. QED
    BY <2>1, <2>2
<1>5. ASSUME NEW y \in T, NEW z \in T, y.from = z.from, y.comm = z.comm, y.call = z.call
      PROVE  y = z
  <2>1. ASSUME NEW w \in S, w.from = p, w.comm = c PROVE w.call # E[p][c] + 1
    BY <1>2, <2>1
  <2>2. CASE y \in S /\ z \in S
    BY <1>5, <2>2 DEF Registered
  <2>3. CASE y = x /\ z = x
    BY <2>3
  <2>4. CASE y = x /\ z \in S
    BY <1>5, <2>1, <2>4
  <2>5. CASE y \in S /\ z = x
    BY <1>5, <2>1, <2>5
  <2>6. QED
    BY <2>2, <2>3, <2>4, <2>5
<1>6. QED
  BY <1>3, <1>4, <1>5 DEF Registered

-----------------------------------------------------------------------------
(***************************************************************************)
(* Steps                                                                   *)
(***************************************************************************)

\* A step of p that makes no new set: of the operations it can only change
\* what has been published and what is open, and it opens none.
Moves(p) ==
  /\ job' = job
  /\ Len(operations') = Len(operations)
  /\ \A k \in 1..Len(operations) :
       /\ operations'[k].op = operations[k].op
       /\ operations'[k].main = operations[k].main
       /\ operations'[k].delta = operations[k].delta
       /\ operations'[k].open => operations[k].open
  /\ \A q \in Process : q # p =>
       /\ dyn_pc'[q] = dyn_pc[q] /\ main_pset'[q] = main_pset[q] /\ comm'[q] = comm[q]
       /\ iteration'[q] = iteration[q] /\ data'[q] = data[q]

LEMMA SetsStay ==
  ASSUME TypeOK, NEW p, Moves(p)
  PROVE  /\ Sets' = Sets
         /\ \A c \in 0..Len(operations) : SetMembers(c)' = SetMembers(c)
         /\ \A c \in 0..Len(operations) : \A q : Root(q, c)' <=> Root(q, c)
         /\ \A c \in Nat : \A q : Inside(q, c)' <=> Inside(q, c)
         /\ \A q : (New(q)' <=> New(q)) /\ (Started(q)' <=> Started(q))
         /\ Grows' <=> Grows
<1>1. Len(operations) \in Nat /\ job' = job /\ Len(operations') = Len(operations)
  BY DEF TypeOK, Moves
<1>2. ASSUME NEW c \in 0..Len(operations) PROVE SetMembers(c)' = SetMembers(c)
  <2>1. CASE c = 0
    BY <1>1, <2>1 DEF SetMembers
  <2>2. CASE c # 0
    <3>1. c \in 1..Len(operations)
      BY <1>1, <2>2
    <3>2. operations'[c].main = operations[c].main
      BY <3>1 DEF Moves
    <3>3. QED
      BY <2>2, <3>2 DEF SetMembers
  <2>3. QED
    BY <2>1, <2>2
<1>3. ASSUME NEW c \in 0..Len(operations), NEW q PROVE Root(q, c)' <=> Root(q, c)
  BY <1>2 DEF Root, get_rank
<1>4. ASSUME NEW c \in Nat, NEW q PROVE Inside(q, c)' <=> Inside(q, c)
  <2>1. CASE c <= Len(operations)
    <3>1. SetMembers(c)' = SetMembers(c)
      BY <1>1, <1>2, <2>1
    <3>2. QED
      BY <1>1, <3>1 DEF Inside
  <2>2. CASE ~(c <= Len(operations))
    BY <1>1, <2>2 DEF Inside
  <2>3. QED
    BY <2>1, <2>2
<1>5. ASSUME NEW q PROVE (New(q)' <=> New(q)) /\ (Started(q)' <=> Started(q))
  BY <1>1 DEF New, Started, Grows
<1>6. QED
  BY <1>1, <1>2, <1>3, <1>4, <1>5 DEF Sets, Grows

LEMMA OperationsStay ==
  ASSUME TypeOK, OperationsInv, NEW p, Moves(p)
  PROVE  OperationsInv'
<1>1. /\ Len(operations) \in Sets /\ Sets' = Sets /\ (Grows' <=> Grows)
      /\ Len(operations') = Len(operations) /\ job' = job
  BY SetsStay DEF OperationsInv, Moves
<1>2. ASSUME NEW k \in 1..Len(operations)
      PROVE  IF Grows
             THEN /\ operations'[k].op = "grow"
                  /\ operations'[k].main = job.processes \o SubSeq(Spare, 1, num_add_proc * k)
                  /\ operations'[k].delta = ToSet(SubSeq(Spare, num_add_proc * (k - 1) + 1, num_add_proc * k))
             ELSE /\ operations'[k].op = "shrink"
                  /\ ToSet(SetMembers(k - 1)') \ operations'[k].delta \subseteq ToSet(operations'[k].main)
  <2>1. /\ operations'[k].op = operations[k].op
        /\ operations'[k].main = operations[k].main
        /\ operations'[k].delta = operations[k].delta
    BY DEF Moves
  <2>2. k - 1 \in 0..Len(operations)
    OBVIOUS
  <2>3. SetMembers(k - 1)' = SetMembers(k - 1)
    BY <2>2, SetsStay
  <2>4. QED
    BY <2>1, <2>3 DEF OperationsInv
<1>3. \A k \in 1..Len(operations') :
             IF Grows'
             THEN /\ operations'[k].op = "grow"
                  /\ operations'[k].main = job'.processes \o SubSeq(Spare, 1, num_add_proc * k)
                  /\ operations'[k].delta = ToSet(SubSeq(Spare, num_add_proc * (k - 1) + 1, num_add_proc * k))
             ELSE /\ operations'[k].op = "shrink"
                  /\ ToSet(SetMembers(k - 1)') \ operations'[k].delta \subseteq ToSet(operations'[k].main)
  BY <1>1, <1>2
<1>4. QED
  BY <1>1, <1>3 DEF OperationsInv

\* What a process may know at a place does not change, ...
LEMMA FitsStays ==
  ASSUME TypeOK, NEW p, Moves(p),
         NEW q, NEW place, NEW current \in Nat, NEW name \in Nat, NEW i, NEW values
  PROVE  Fits(q, place, current, name, i, values)' <=> Fits(q, place, current, name, i, values)
<1>1. /\ Inside(q, current)' <=> Inside(q, current)
      /\ Inside(q, name)' <=> Inside(q, name)
      /\ (New(q)' <=> New(q)) /\ (Started(q)' <=> Started(q))
      /\ Grows' <=> Grows
      /\ Len(operations)' = Len(operations)
  BY SetsStay DEF Moves
<1>2. QED
  BY <1>1 DEF Fits

LEMMA PlaceNext ==
  ASSUME TypeOK, TypeOK', NEW p, Moves(p), NEW q \in Process,
         Fits(q, dyn_pc'[q], comm'[q], main_pset'[q], iteration'[q], data'[q])
  PROVE  PlaceOK(q)'
<1>1. PICK place : place = dyn_pc'[q]
  OBVIOUS
<1>2. PICK current \in Nat : current = comm'[q]
  BY DEF TypeOK
<1>3. PICK name \in Nat : name = main_pset'[q]
  BY DEF TypeOK
<1>4. PICK i : i = iteration'[q]
  OBVIOUS
<1>5. PICK values : values = data'[q]
  OBVIOUS
<1>6. Fits(q, place, current, name, i, values)
  BY <1>1, <1>2, <1>3, <1>4, <1>5
<1>7. Fits(q, place, current, name, i, values)'
  BY <1>6, FitsStays
<1>8. (place = dyn_pc[q])' /\ (current = comm[q])' /\ (name = main_pset[q])' /\ (i = iteration[q])' /\ (values = data[q])'
  BY <1>1, <1>2, <1>3, <1>4, <1>5
<1>9. QED
  BY <1>7, <1>8 DEF PlaceOK

\* ... and the other processes stay where they are ...
LEMMA OthersStay ==
  ASSUME TypeOK, TypeOK', PlacesInv, NEW p \in Process, Moves(p),
         Fits(p, dyn_pc'[p], comm'[p], main_pset'[p], iteration'[p], data'[p])
  PROVE  PlacesInv'
<1>1. ASSUME NEW q \in Process, q # p PROVE PlaceOK(q)'
  <2>1. /\ dyn_pc'[q] = dyn_pc[q] /\ main_pset'[q] = main_pset[q] /\ comm'[q] = comm[q]
        /\ iteration'[q] = iteration[q] /\ data'[q] = data[q]
    BY <1>1 DEF Moves
  <2>2. Fits(q, dyn_pc'[q], comm'[q], main_pset'[q], iteration'[q], data'[q])
    BY <2>1 DEF PlacesInv, PlaceOK
  <2>3. QED
    BY <2>2, PlaceNext
<1>2. PlaceOK(p)'
  BY PlaceNext
<1>3. QED
  BY <1>1, <1>2 DEF PlacesInv

\* ... and have entered what they had.  What p has entered follows from where
\* it is now.
LEMMA EnteredNext ==
  ASSUME TypeOK, NEW p, Moves(p), NEW q \in Process, NEW d \in Sets
  PROVE  /\ entered'[q][d] = IF Inside(q, d) THEN Count(dyn_pc'[q], comm'[q], main_pset'[q], d) ELSE 0
         /\ q # p => entered'[q][d] = entered[q][d]
<1>1. job' = job /\ Sets' = Sets /\ d \in Nat
  BY SetsStay, JobFacts DEF Moves, TypeOK, Sets
<1>2. Inside(q, d)' <=> Inside(q, d)
  BY <1>1, SetsStay
<1>3. ASSUME NEW place, NEW current, NEW name
      PROVE  Count(place, current, name, d)' = Count(place, current, name, d)
  BY <1>1 DEF Count, OnCurrent, OnNext, Total, Settled, Grows
<1>4. PICK place : place = dyn_pc'[q]
  OBVIOUS
<1>5. PICK current : current = comm'[q]
  OBVIOUS
<1>6. PICK name : name = main_pset'[q]
  OBVIOUS
<1>7. entered'[q][d] = IF Inside(q, d)' THEN Count(place, current, name, d)' ELSE 0
  <2>1. entered'[q][d] = IF Inside(q, d)' THEN (Count(dyn_pc[q], comm[q], main_pset[q], d))' ELSE 0
    BY <1>1 DEF entered
  <2>2. (Count(dyn_pc[q], comm[q], main_pset[q], d))' = Count(place, current, name, d)'
    BY <1>1, <1>4, <1>5, <1>6 DEF Count, OnCurrent, OnNext, Total, Settled, Grows
  <2>3. QED
    BY <2>1, <2>2
<1>8. entered'[q][d] = IF Inside(q, d) THEN Count(place, current, name, d) ELSE 0
  BY <1>2, <1>3, <1>7
<1>9. ASSUME q # p PROVE place = dyn_pc[q] /\ current = comm[q] /\ name = main_pset[q]
  BY <1>4, <1>5, <1>6, <1>9 DEF Moves
<1>10. QED
  BY <1>4, <1>5, <1>6, <1>8, <1>9, EnteredIs

\* An entry can only be in a set that there is.
LEMMA EntryInSet ==
  ASSUME TypeOK, RegisteredInv, NEW x \in dyn_collected
  PROVE  x.comm \in 0..Len(operations) /\ x.from \in Process /\ x.comm \in Sets
<1>1. x.from \in Process /\ x.comm \in Sets /\ x.call \in 1..entered[x.from][x.comm]
  BY DEF RegisteredInv, Registered
<1>2. entered[x.from][x.comm] # 0
  BY <1>1
<1>3. Inside(x.from, x.comm)
  BY <1>1, <1>2, EnteredIs
<1>4. QED
  BY <1>1, <1>3, JobFacts DEF Inside, TypeOK, Sets

LEMMA RightStays ==
  ASSUME TypeOK, RegisteredInv, RightInv, NEW p, Moves(p), NEW x \in dyn_collected
  PROVE  /\ x.what = What(x.comm, x.call)'
         /\ RightValue(x.what, x.value, x.from, x.comm)'
<1>1. x.comm \in 0..Len(operations)
  BY EntryInSet
<1>2. Root(x.from, x.comm)' <=> Root(x.from, x.comm)
  BY <1>1, SetsStay
<1>3. job' = job
  BY DEF Moves
<1>4. QED
  BY <1>2, <1>3 DEF RightInv, What, Total, Grows, RightValue, NextIteration, Spread

\* p stays in the collective that it is in.
LEMMA Stays ==
  ASSUME TypeOK, RegisteredInv, RightInv, NEW p \in Process, Moves(p), dyn_collected' = dyn_collected,
         \A d \in Sets : Inside(p, d) =>
            Count(dyn_pc'[p], comm'[p], main_pset'[p], d) = Count(dyn_pc[p], comm[p], main_pset[p], d)
  PROVE  RegisteredInv' /\ RightInv'
<1>1. Sets' = Sets
  BY SetsStay
<1>2. ASSUME NEW q \in Process, NEW d \in Sets PROVE entered'[q][d] = entered[q][d]
  BY EnteredNext, EnteredIs
<1>3. Registered(dyn_collected, entered', Sets)
  BY <1>2 DEF RegisteredInv, Registered
<1>4. RegisteredInv'
  BY <1>1, <1>3 DEF RegisteredInv, Registered
<1>5. RightInv'
  BY RightStays DEF RightInv
<1>6. QED
  BY <1>4, <1>5

\* p enters the next collective of c.
LEMMA Enters ==
  ASSUME TypeOK, RegisteredInv, RightInv, NEW p \in Process, Moves(p),
         NEW c \in Sets, Inside(p, c), NEW what, NEW value, EnterOn(p, c, what, value),
         \A d \in Sets : Inside(p, d) =>
            Count(dyn_pc'[p], comm'[p], main_pset'[p], d)
              = IF d = c THEN Count(dyn_pc[p], comm[p], main_pset[p], c) + 1
                         ELSE Count(dyn_pc[p], comm[p], main_pset[p], d),
         what = What(c, Count(dyn_pc[p], comm[p], main_pset[p], c) + 1),
         RightValue(what, value, p, c)
  PROVE  RegisteredInv' /\ RightInv'
<1>1. Sets' = Sets /\ c \in 0..Len(operations)
  <2>1. c \in Nat /\ Len(operations) \in Nat /\ c <= Len(operations)
    BY JobFacts DEF TypeOK, Sets, Inside
  <2>2. c \in 0..Len(operations)
    BY <2>1
  <2>3. QED
    BY SetsStay, <2>2
<1>2. PICK n \in Nat : n = entered[p][c]
  BY EnteredIs
<1> DEFINE x == [comm |-> c, call |-> n + 1, from |-> p, what |-> what, value |-> value]
<1>3. dyn_collected' = dyn_collected \cup {x}
  BY <1>2, EntriesAre DEF EnterOn
<1>4. ASSUME NEW q \in Process, NEW d \in Sets
      PROVE  entered'[q][d] = IF q = p /\ d = c THEN entered[p][c] + 1 ELSE entered[q][d]
  BY EnteredNext, EnteredIs
<1>5. Registered(dyn_collected \cup {x}, entered', Sets)
  <2>1. x.from = p /\ x.comm = c /\ x.call = entered[p][c] + 1
    BY <1>2
  <2>2. PICK S : S = dyn_collected
    OBVIOUS
  <2>3. PICK E : E = entered
    OBVIOUS
  <2>4. PICK F : F = entered'
    OBVIOUS
  <2>5. PICK C : C = Sets
    OBVIOUS
  <2>6. Registered(S, E, C) /\ c \in C
    BY <2>2, <2>3, <2>5 DEF RegisteredInv
  <2>7. OneMore(E, F, p, c, C)
    BY <1>4, <2>3, <2>4, <2>5 DEF OneMore
  <2> HIDE DEF x
  <2>8. x.from = p /\ x.comm = c /\ x.call = E[p][c] + 1 /\ E[p][c] \in Nat
    BY <1>2, <2>1, <2>3
  <2>9. Registered(S \cup {x}, F, C)
    BY <2>6, <2>7, <2>8, RegisteredNext
  <2>10. QED
    BY <2>2, <2>4, <2>5, <2>9
<1>6. RegisteredInv'
  <2> HIDE DEF x
  <2> QED BY <1>1, <1>3, <1>5 DEF RegisteredInv, Registered
<1>7. what = What(c, n + 1)' /\ RightValue(what, value, p, c)'
  <2>1. what = What(c, n + 1)
    BY <1>2, EnteredIs
  <2>2. Root(p, c)' <=> Root(p, c)
    BY <1>1, SetsStay
  <2>3. job' = job
    BY DEF Moves
  <2>4. QED
    BY <2>1, <2>2, <2>3 DEF What, Total, RightValue, NextIteration, Spread, Grows
<1>8. x.what = What(x.comm, x.call)' /\ RightValue(x.what, x.value, x.from, x.comm)'
  BY <1>7
<1>9. RightInv'
  <2> HIDE DEF x
  <2> QED BY <1>3, <1>8, RightStays DEF RightInv
<1>10. QED
  BY <1>6, <1>9

\* No operation is opened, and a root that has asked for one has.
LEMMA RootsStay ==
  ASSUME TypeOK, TypeOK', OperationsInv, PlacesInv, RootInv, NEW p \in Process, Moves(p),
         \A c \in 0..Len(operations) : Asked(p, c) => Asked(p, c)',
         dyn_pc'[p] = "loop" => /\ comm'[p] \in 0..Len(operations)
                                /\ comm'[p] # 0 /\ Root(p, comm'[p]) => ~operations'[comm'[p]].open
  PROVE  RootInv'
<1>1. Len(operations') = Len(operations) /\ Len(operations) \in Nat
  BY DEF Moves, TypeOK
<1>2. ASSUME NEW q \in Process, NEW c \in 0..Len(operations), Root(q, c)', ~Asked(q, c)'
      PROVE  c = Len(operations)
  <2>1. Root(q, c)
    BY <1>2, SetsStay
  <2>2. CASE q = p
    BY <1>2, <2>1, <2>2 DEF RootInv
  <2>3. CASE q # p
    <3>1. ~Asked(q, c)
      BY <1>2, <2>3 DEF Asked, Moves
    <3>2. QED
      BY <2>1, <3>1 DEF RootInv
  <2>4. QED
    BY <2>2, <2>3
<1>3. ASSUME NEW q \in Process, dyn_pc'[q] = "loop",
             NEW c \in Nat \ {0}, c = comm'[q], Root(q, c)'
      PROVE  ~operations'[c].open
  <2>1. CASE q = p
    <3>1. c \in 0..Len(operations)
      BY <1>3, <2>1
    <3>2. Root(q, c)
      BY <1>3, <3>1, SetsStay
    <3>3. QED
      BY <1>3, <2>1, <3>2
  <2>2. CASE q # p
    <3>1. dyn_pc[q] = "loop" /\ comm[q] = c
      BY <1>3, <2>2 DEF Moves
    <3>2. Inside(q, c)
      BY <3>1 DEF PlacesInv, PlaceOK, Fits
    <3>3. c \in 1..Len(operations)
      BY <1>1, <3>2 DEF Inside
    <3>4. Root(q, c)
      BY <1>3, <3>3, SetsStay
    <3>5. ~operations[c].open
      BY <3>1, <3>4 DEF RootInv
    <3>6. QED
      BY <3>3, <3>5 DEF Moves
  <2>3. QED
    BY <2>1, <2>2
<1>4. ASSUME NEW q \in Process, dyn_pc'[q] = "loop", comm'[q] # 0,
             (Root(q, comm[q]))'
      PROVE  ~operations'[comm'[q]].open
  <2>1. PICK c \in Nat \ {0} : c = comm'[q]
    BY <1>4 DEF TypeOK
  <2>2. (c = comm[q])'
    BY <2>1
  <2>3. Root(q, c)'
    BY <1>4, <2>2
  <2>4. QED
    BY <1>3, <1>4, <2>1, <2>3
<1>5. ASSUME NEW k \in 1..Len(operations'), operations'[k].open PROVE k = Len(operations')
  BY <1>1, <1>5 DEF RootInv, Moves
<1>6. QED
  BY <1>1, <1>2, <1>4, <1>5 DEF RootInv

\* A step of one process keeps the invariant if ...
LEMMA MoveKeeps ==
  ASSUME DynamicInv, NEW p \in Process, Moves(p), TypeOK',
         Fits(p, dyn_pc'[p], comm'[p], main_pset'[p], iteration'[p], data'[p]),
         RegisteredInv' /\ RightInv',
         \A c \in 0..Len(operations) : Asked(p, c) => Asked(p, c)',
         dyn_pc'[p] = "loop" => /\ comm'[p] \in 0..Len(operations)
                                /\ comm'[p] # 0 /\ Root(p, comm'[p]) => ~operations'[comm'[p]].open
  PROVE  DynamicInv'
<1>1. OperationsInv'
  BY OperationsStay DEF DynamicInv
<1>2. PlacesInv'
  BY OthersStay DEF DynamicInv
<1>3. RootInv'
  BY RootsStay DEF DynamicInv
<1>4. QED
  BY <1>1, <1>2, <1>3 DEF DynamicInv

\* Where a process is, and what it knows
LEMMA AtPlace ==
  ASSUME TypeOK, OperationsInv, PlacesInv, NEW p \in Process
  PROVE  /\ Fits(p, dyn_pc[p], comm[p], main_pset[p], iteration[p], data[p])
         /\ comm[p] \in Nat /\ main_pset[p] \in Nat /\ iteration[p] \in Nat
         /\ Len(operations) \in Nat /\ job.num_adaptations \in Nat
         /\ Len(operations) <= job.num_adaptations
         /\ main_pset[p] \in Sets
         /\ dyn_pc[p] \notin {"absent", "begin"} =>
              comm[p] \in Sets /\ comm[p] \in 0..Len(operations) /\ Inside(p, comm[p])
<1>1. Fits(p, dyn_pc[p], comm[p], main_pset[p], iteration[p], data[p])
  BY DEF PlacesInv, PlaceOK
<1>2. /\ comm[p] \in Nat /\ main_pset[p] \in Nat /\ iteration[p] \in Nat
      /\ Len(operations) \in Nat /\ job.num_adaptations \in Nat
      /\ Len(operations) <= job.num_adaptations
  BY JobFacts DEF TypeOK, OperationsInv, Sets
<1>3. QED
  BY <1>1, <1>2 DEF Fits, Sets

\* The root of the broadcast on a set's communicator sends its number.
LEMMA BroadcastIs ==
  ASSUME TypeOK, RegisteredInv, RightInv, Grows, NEW p \in Process, NEW c \in Sets, c # 0,
         entered[p][c] = 2, NEW v \in Broadcast(p, c)
  PROVE  v = c
<1>1. PICK y \in dyn_collected : /\ y.comm = c /\ y.call = 2 /\ y.value = v
                                 /\ get_rank(y.from, c) = 0
  BY EntriesAre DEF Broadcast, CollectedOn
<1>2. entered[y.from][c] # 0
  BY <1>1 DEF RegisteredInv, Registered
<1>3. Root(y.from, c)
  BY <1>1, <1>2, EntryInSet, EnteredIs DEF Root, Inside
<1>4. y.what = "broadcast"
  BY <1>1 DEF RightInv, What, Total
<1>5. QED
  BY <1>1, <1>3, <1>4 DEF RightInv, RightValue

LEMMA GetMainPsetKeeps ==
  ASSUME DynamicInv, NEW p \in Process, GetMainPset(p)
  PROVE  DynamicInv'
<1> USE DEF DynamicInv
<1>1. dyn_pc[p] = "begin"
  BY DEF GetMainPset
<1>2. Started(p)
  BY <1>1, AtPlace DEF Fits
<1>3. PICK o \in 0..Len(operations) : o = Origin(p)
  BY <1>2, OriginIs
<1>4. /\ o \in Sets /\ o \in Nat /\ Inside(p, o) /\ \A d \in Sets : Inside(p, d) => d >= o
      /\ New(p) <=> o # 0
      /\ New(p) => Grows
  BY <1>2, <1>3, OriginIs, AtPlace DEF Sets, Inside, is_dynamic_process
<1>5. /\ dyn_pc' = [dyn_pc EXCEPT ![p] = "create_first"]
      /\ main_pset' = [main_pset EXCEPT ![p] = o]
      /\ comm' = [comm EXCEPT ![p] = o]
      /\ EnterOn(p, o, "create", 0)
      /\ UNCHANGED <<job, operations, iteration, data>>
  BY <1>3 DEF GetMainPset, Goto
<1>6. Moves(p) /\ TypeOK'
  BY <1>4, <1>5 DEF TypeOK, Moves, Place
<1>7. dyn_pc'[p] = "create_first" /\ comm'[p] = o /\ main_pset'[p] = o /\ iteration'[p] = iteration[p] /\ data'[p] = data[p]
  BY <1>5 DEF TypeOK
<1>8. Fits(p, dyn_pc'[p], comm'[p], main_pset'[p], iteration'[p], data'[p])
  BY <1>1, <1>2, <1>3, <1>4, <1>7, AtPlace DEF Fits, Arriving, Working, Moving
<1>9. RegisteredInv' /\ RightInv'
  <2>1. ASSUME NEW d \in Sets, Inside(p, d)
        PROVE  Count(dyn_pc'[p], comm'[p], main_pset'[p], d)
                 = IF d = o THEN Count(dyn_pc[p], comm[p], main_pset[p], o) + 1
                            ELSE Count(dyn_pc[p], comm[p], main_pset[p], d)
    <3>1. d >= o /\ d \in Nat
      BY <1>4, <2>1 DEF Sets
    <3>2. QED
      BY <1>1, <1>4, <1>7, <3>1 DEF Count, OnCurrent
  <2>2. "create" = What(o, Count(dyn_pc[p], comm[p], main_pset[p], o) + 1)
    BY <1>1 DEF Count, What
  <2>3. RightValue("create", 0, p, o)
    BY DEF RightValue
  <2>4. QED
    BY <1>4, <1>5, <1>6, <2>1, <2>2, <2>3, Enters
<1>10. \A c \in 0..Len(operations) : Asked(p, c) => Asked(p, c)'
  BY <1>1, AtPlace DEF Asked, Fits
<1>11. QED
  BY <1>6, <1>7, <1>8, <1>9, <1>10, MoveKeeps

\* One that has been started is in no set but new ones, and root of none.
LEMMA NewInside ==
  ASSUME TypeOK, OperationsInv, Grows, NEW p, New(p), NEW c \in Nat, Inside(p, c)
  PROVE  c # 0 /\ ~Root(p, c)
<1>1. c \in 0..Len(operations)
  BY DEF Inside
<1>2. c # 0
  BY DEF Inside, SetMembers, New
<1>3. QED
  BY <1>1, <1>2, NewIsNoRoot

LEMMA CreatedKeeps ==
  ASSUME DynamicInv, NEW p \in Process, Created(p)
  PROVE  DynamicInv'
<1> USE DEF DynamicInv
<1>1. dyn_pc[p] = "create_first"
  BY DEF Created
<1>2. PICK c \in Nat : c = comm[p]
  BY AtPlace
<1>3. /\ c \in Sets /\ c \in 0..Len(operations) /\ Inside(p, c) /\ main_pset[p] = c
      /\ iteration[p] = 0 /\ Started(p)
      /\ data[p] = IF New(p) THEN Nothing ELSE 0
      /\ IF New(p) THEN Grows ELSE c = 0
  BY <1>1, <1>2, AtPlace DEF Fits, Arriving
<1>4. is_dynamic_process(p) <=> New(p)
  BY <1>3, OriginIs
<1>5. UNCHANGED <<job, operations, main_pset, comm, iteration, data>>
  BY DEF Created
<1>6. comm'[p] = c /\ main_pset'[p] = c /\ iteration'[p] = iteration[p] /\ data'[p] = data[p]
  BY <1>2, <1>3, <1>5
<1>7. CASE New(p)
  <2>1. c # 0 /\ ~Root(p, c)
    BY <1>3, <1>7, NewInside
  <2>2. dyn_pc' = [dyn_pc EXCEPT ![p] = "joining"] /\ EnterOn(p, c, "broadcast", 0)
    BY <1>2, <1>4, <1>7 DEF Created, Goto
  <2>3. Moves(p) /\ TypeOK'
    BY <1>5, <2>2 DEF TypeOK, Moves, Place
  <2>4. dyn_pc'[p] = "joining"
    BY <2>2 DEF TypeOK
  <2>5. Fits(p, dyn_pc'[p], comm'[p], main_pset'[p], iteration'[p], data'[p])
    BY <1>1, <1>2, <1>3, <1>6, <1>7, <2>4, AtPlace DEF Fits, Arriving, Working, Moving
  <2>6. \A d \in Sets :
          Count(dyn_pc'[p], comm'[p], main_pset'[p], d)
            = IF d = c THEN Count(dyn_pc[p], comm[p], main_pset[p], c) + 1
                       ELSE Count(dyn_pc[p], comm[p], main_pset[p], d)
    BY <1>1, <1>2, <1>3, <1>6, <2>4 DEF Count, OnCurrent
  <2>7. "broadcast" = What(c, Count(dyn_pc[p], comm[p], main_pset[p], c) + 1)
    <3>1. Count(dyn_pc[p], comm[p], main_pset[p], c) = 1
      BY <1>1, <1>2 DEF Count, OnCurrent
    <3>2. QED
      BY <1>3, <1>7, <2>1, <3>1 DEF What, Total
  <2>8. RightValue("broadcast", 0, p, c)
    BY <2>1 DEF RightValue
  <2>9. RegisteredInv' /\ RightInv'
    BY <1>3, <2>2, <2>3, <2>6, <2>7, <2>8, Enters
  <2>10. \A d \in 0..Len(operations) : Asked(p, d) => Asked(p, d)'
    BY <1>1, <1>3, <1>6 DEF Asked
  <2>11. QED
    BY <2>3, <2>4, <2>5, <2>9, <2>10, MoveKeeps
<1>8. CASE ~New(p)
  <2>1. c = 0
    BY <1>3, <1>8
  <2>2. dyn_pc' = [dyn_pc EXCEPT ![p] = "loop"] /\ dyn_collected' = dyn_collected
    BY <1>2, <1>4, <1>8 DEF Created, Goto
  <2>3. Moves(p) /\ TypeOK'
    BY <1>5, <2>2 DEF TypeOK, Moves, Place
  <2>4. dyn_pc'[p] = "loop"
    BY <2>2 DEF TypeOK
  <2>5. Fits(p, dyn_pc'[p], comm'[p], main_pset'[p], iteration'[p], data'[p])
    BY <1>1, <1>2, <1>3, <1>6, <1>8, <2>1, <2>4, AtPlace DEF Fits, Arriving, Working, Moving
  <2>6. \A d \in Sets :
          Count(dyn_pc'[p], comm'[p], main_pset'[p], d) = Count(dyn_pc[p], comm[p], main_pset[p], d)
    BY <1>1, <1>2, <1>3, <1>6, <2>1, <2>4 DEF Count, OnCurrent, Settled
  <2>7. RegisteredInv' /\ RightInv'
    BY <2>2, <2>3, <2>6, Stays
  <2>8. \A d \in 0..Len(operations) : Asked(p, d) => Asked(p, d)'
    BY <1>1, <1>3, <1>6 DEF Asked
  <2>9. QED
    BY <1>3, <1>6, <2>1, <2>3, <2>5, <2>7, <2>8, MoveKeeps
<1>9. QED
  BY <1>7, <1>8

LEMMA JoinKeeps ==
  ASSUME DynamicInv, NEW p \in Process, Join(p)
  PROVE  DynamicInv'
<1> USE DEF DynamicInv
<1>1. dyn_pc[p] = "joining"
  BY DEF Join
<1>2. PICK c \in Nat : c = comm[p]
  BY AtPlace
<1>3. /\ c \in Sets /\ c \in 0..Len(operations) /\ Inside(p, c) /\ main_pset[p] = c
      /\ New(p) /\ Grows /\ data[p] = Nothing
  BY <1>1, <1>2, AtPlace DEF Fits, Arriving
<1>4. c # 0 /\ ~Root(p, c)
  BY <1>3, NewInside
<1>5. Count(dyn_pc[p], comm[p], main_pset[p], c) = 2
  BY <1>1, <1>2 DEF Count, OnCurrent
<1>6. entered[p][c] = 2
  BY <1>3, <1>5, EnteredIs
<1>7. /\ iteration' = [iteration EXCEPT ![p] = c]
      /\ EnterOn(p, c, "shuffle", Contribution(c, Nothing))
  BY <1>2, <1>3, <1>4, <1>6, BroadcastIs DEF Join
<1>8. /\ dyn_pc' = [dyn_pc EXCEPT ![p] = "shuffle_first"]
      /\ UNCHANGED <<job, operations, main_pset, comm, data>>
  BY DEF Join, Goto
<1>9. Moves(p) /\ TypeOK'
  BY <1>7, <1>8 DEF TypeOK, Moves, Place
<1>10. /\ dyn_pc'[p] = "shuffle_first" /\ comm'[p] = c /\ main_pset'[p] = c /\ iteration'[p] = c
       /\ data'[p] = Nothing
  BY <1>2, <1>3, <1>7, <1>8 DEF TypeOK
<1>11. Fits(p, dyn_pc'[p], comm'[p], main_pset'[p], iteration'[p], data'[p])
  BY <1>1, <1>2, <1>3, <1>10, AtPlace DEF Fits, Arriving, Working, Moving
<1>12. RegisteredInv' /\ RightInv'
  <2>1. \A d \in Sets :
          Count(dyn_pc'[p], comm'[p], main_pset'[p], d)
            = IF d = c THEN Count(dyn_pc[p], comm[p], main_pset[p], c) + 1
                       ELSE Count(dyn_pc[p], comm[p], main_pset[p], d)
    BY <1>1, <1>2, <1>3, <1>10 DEF Count, OnCurrent
  <2>2. "shuffle" = What(c, Count(dyn_pc[p], comm[p], main_pset[p], c) + 1)
    BY <1>3, <1>4, <1>5 DEF What, Total
  <2>3. RightValue("shuffle", Contribution(c, Nothing), p, c)
    BY <1>3 DEF RightValue, Contribution, NextIteration
  <2>4. QED
    BY <1>3, <1>7, <1>9, <2>1, <2>2, <2>3, Enters
<1>13. \A d \in 0..Len(operations) : Asked(p, d) => Asked(p, d)'
  BY <1>1, <1>3, <1>10 DEF Asked
<1>14. QED
  BY <1>9, <1>10, <1>11, <1>12, <1>13, MoveKeeps

LEMMA JoinedKeeps ==
  ASSUME DynamicInv, NEW p \in Process, Joined(p)
  PROVE  DynamicInv'
<1> USE DEF DynamicInv
<1>1. dyn_pc[p] = "shuffle_first"
  BY DEF Joined
<1>2. PICK c \in Nat : c = comm[p]
  BY AtPlace
<1>3. /\ c \in Sets /\ c \in 0..Len(operations) /\ Inside(p, c) /\ main_pset[p] = c
      /\ New(p) /\ Grows /\ iteration[p] = c
  BY <1>1, <1>2, AtPlace DEF Fits, Arriving
<1>4. c # 0 /\ ~Root(p, c)
  BY <1>3, NewInside
<1>5. /\ dyn_pc' = [dyn_pc EXCEPT ![p] = "loop"]
      /\ data' = [data EXCEPT ![p] = c]
      /\ UNCHANGED <<job, operations, main_pset, comm, iteration, dyn_collected>>
  BY <1>2 DEF Joined, Goto
<1>6. Moves(p) /\ TypeOK'
  BY <1>5 DEF TypeOK, Moves, Place
<1>7. /\ dyn_pc'[p] = "loop" /\ comm'[p] = c /\ main_pset'[p] = c /\ iteration'[p] = c
      /\ data'[p] = c
  BY <1>2, <1>3, <1>5 DEF TypeOK
<1>8. Fits(p, dyn_pc'[p], comm'[p], main_pset'[p], iteration'[p], data'[p])
  BY <1>1, <1>2, <1>3, <1>7, AtPlace DEF Fits, Arriving, Working, Moving
<1>9. RegisteredInv' /\ RightInv'
  <2>1. \A d \in Sets :
          Count(dyn_pc'[p], comm'[p], main_pset'[p], d) = Count(dyn_pc[p], comm[p], main_pset[p], d)
    BY <1>1, <1>2, <1>3, <1>4, <1>7 DEF Count, OnCurrent, Settled
  <2>2. QED
    BY <1>5, <1>6, <2>1, Stays
<1>10. \A d \in 0..Len(operations) : Asked(p, d) => Asked(p, d)'
  BY <1>1, <1>3, <1>7 DEF Asked
<1>11. QED
  BY <1>3, <1>4, <1>6, <1>7, <1>8, <1>9, <1>10, MoveKeeps

\* One operation of a sequence is changed.
LEMMA OneChanged ==
  ASSUME NEW S, NEW s \in Seq(S), NEW k \in 1..Len(s), NEW r \in S
  PROVE  /\ [s EXCEPT ![k] = r] \in Seq(S) /\ Len([s EXCEPT ![k] = r]) = Len(s)
         /\ \A i \in 1..Len(s) : [s EXCEPT ![k] = r][i] = IF i = k THEN r ELSE s[i]
OBVIOUS

LEMMA PublishKeeps ==
  ASSUME DynamicInv, NEW p \in Process, Publish(p)
  PROVE  DynamicInv'
<1> USE DEF DynamicInv
<1>1. dyn_pc[p] = "publish"
  BY DEF Publish
<1>2. PICK c \in Nat : c = comm[p]
  BY AtPlace
<1>3. /\ c \in Sets /\ Inside(p, c) /\ main_pset[p] = c
      /\ Len(operations) \in Nat /\ c < Len(operations)
  BY <1>1, <1>2, AtPlace DEF Fits, Working
<1>4. /\ dyn_pc' = [dyn_pc EXCEPT ![p] = "query"]
      /\ operations' = [operations EXCEPT ![Len(operations)].published = TRUE]
      /\ UNCHANGED <<job, main_pset, comm, iteration, data, dyn_collected>>
  BY DEF Publish, Goto
<1>5. /\ operations' \in Seq(Operations) /\ Len(operations') = Len(operations)
      /\ \A k \in 1..Len(operations) :
           /\ operations'[k].op = operations[k].op
           /\ operations'[k].main = operations[k].main
           /\ operations'[k].delta = operations[k].delta
           /\ operations'[k].open = operations[k].open
  <2>1. Len(operations) \in 1..Len(operations) /\ operations \in Seq(Operations)
    BY <1>3 DEF TypeOK
  <2>2. operations[Len(operations)] \in Operations
    BY <2>1
  <2> DEFINE r == [operations[Len(operations)] EXCEPT !.published = TRUE]
  <2>3. /\ r \in Operations /\ r.op = operations[Len(operations)].op
        /\ r.main = operations[Len(operations)].main
        /\ r.delta = operations[Len(operations)].delta
        /\ r.open = operations[Len(operations)].open
    BY <2>2 DEF Operations
  <2>4. operations' = [operations EXCEPT ![Len(operations)] = r]
    BY <1>4
  <2> HIDE DEF r
  <2>5. QED
    BY <2>1, <2>3, <2>4, OneChanged
<1>6. Moves(p) /\ TypeOK'
  BY <1>4, <1>5 DEF TypeOK, Moves, Place
<1>7. /\ dyn_pc'[p] = "query" /\ comm'[p] = c /\ main_pset'[p] = c
      /\ iteration'[p] = iteration[p] /\ data'[p] = data[p]
  BY <1>2, <1>3, <1>4 DEF TypeOK
<1>8. Fits(p, dyn_pc'[p], comm'[p], main_pset'[p], iteration'[p], data'[p])
  BY <1>1, <1>2, <1>3, <1>7, AtPlace DEF Fits, Arriving, Working, Moving
<1>9. RegisteredInv' /\ RightInv'
  <2>1. \A d \in Sets :
          Count(dyn_pc'[p], comm'[p], main_pset'[p], d) = Count(dyn_pc[p], comm[p], main_pset[p], d)
    BY <1>1, <1>2, <1>3, <1>7 DEF Count, OnCurrent
  <2>2. QED
    BY <1>4, <1>6, <2>1, Stays
<1>10. \A d \in 0..Len(operations) : Asked(p, d) => Asked(p, d)'
  BY <1>3, <1>7 DEF Asked
<1>11. QED
  BY <1>6, <1>7, <1>8, <1>9, <1>10, MoveKeeps

LEMMA QueryOperationKeeps ==
  ASSUME DynamicInv, NEW p \in Process, QueryOperation(p)
  PROVE  DynamicInv'
<1> USE DEF DynamicInv
<1>1. dyn_pc[p] \in {"query", "loop"}
  BY DEF QueryOperation, InLoop
<1>2. PICK c \in Nat : c = comm[p]
  BY AtPlace
<1>3. /\ c \in Sets /\ Inside(p, c) /\ main_pset[p] = c /\ Len(operations) \in Nat
  BY <1>1, <1>2, AtPlace DEF Fits, Working
<1>4. c < Len(operations)
  <2>1. c + 1 \in DOMAIN operations
    BY <1>3 DEF QueryOperation, Operation
  <2>2. DOMAIN operations = 1..Len(operations)
    BY DEF TypeOK
  <2>3. QED
    BY <1>3, <2>1, <2>2
<1>5. /\ dyn_pc' = [dyn_pc EXCEPT ![p] = "look_up"]
      /\ UNCHANGED <<job, operations, main_pset, comm, iteration, data, dyn_collected>>
  BY DEF QueryOperation, Goto
<1>6. Moves(p) /\ TypeOK'
  BY <1>5 DEF TypeOK, Moves, Place
<1>7. /\ dyn_pc'[p] = "look_up" /\ comm'[p] = c /\ main_pset'[p] = c
      /\ iteration'[p] = iteration[p] /\ data'[p] = data[p]
  BY <1>2, <1>3, <1>5 DEF TypeOK
<1>8. Fits(p, dyn_pc'[p], comm'[p], main_pset'[p], iteration'[p], data'[p])
  BY <1>1, <1>2, <1>3, <1>4, <1>7, AtPlace DEF Fits, Arriving, Working, Moving
<1>9. RegisteredInv' /\ RightInv'
  <2>1. \A d \in Sets :
          Count(dyn_pc'[p], comm'[p], main_pset'[p], d) = Count(dyn_pc[p], comm[p], main_pset[p], d)
    BY <1>1, <1>2, <1>3, <1>7 DEF Count, OnCurrent
  <2>2. QED
    BY <1>5, <1>6, <2>1, Stays
<1>10. \A d \in 0..Len(operations) : Asked(p, d) => Asked(p, d)'
  BY <1>1, <1>3, <1>7 DEF Asked
<1>11. QED
  BY <1>6, <1>7, <1>8, <1>9, <1>10, MoveKeeps

\* Who does not leave a set is in the one that comes of it.
LEMMA KeepsInside ==
  ASSUME TypeOK, OperationsInv, NEW p, NEW c \in Nat, Inside(p, c), c < Len(operations),
         ~is_process_leaving(p, c + 1)
  PROVE  Inside(p, c + 1)
<1>1. /\ Len(operations) \in Nat /\ c \in 0..Len(operations)
      /\ c + 1 \in 1..Len(operations) /\ c + 1 \in 0..Len(operations) /\ (c + 1) - 1 = c
  BY DEF TypeOK
<1>2. CASE Grows
  <2>1. \A i \in 1..num_add_proc * c : i \in 1..num_add_proc * (c + 1)
    BY DEF num_add_proc
  <2>2. ToSet(SetMembers(c)) = ToSet(job.processes) \cup {Spare[i] : i \in 1..num_add_proc * c}
    BY <1>1, <1>2, GrownSet
  <2>3. PICK k \in 0..Len(operations) : k = c + 1
    BY <1>1
  <2>4. ToSet(SetMembers(k)) = ToSet(job.processes) \cup {Spare[i] : i \in 1..num_add_proc * k}
    BY <1>2, GrownSet
  <2>5. QED
    BY <2>1, <2>2, <2>3, <2>4 DEF Inside
<1>3. CASE ~Grows
  <2>1. PICK k \in 1..Len(operations) : k = c + 1 /\ k - 1 = c
    BY <1>1
  <2>2. /\ operations[k].op = "shrink"
        /\ ToSet(SetMembers(k - 1)) \ operations[k].delta \subseteq ToSet(operations[k].main)
    BY <1>3 DEF OperationsInv
  <2>3. SetMembers(k) = operations[k].main
    BY DEF SetMembers
  <2>4. p \in ToSet(SetMembers(c)) /\ p \notin operations[k].delta
    BY <2>1, <2>2 DEF Inside, is_process_leaving
  <2>5. QED
    BY <2>1, <2>2, <2>3, <2>4 DEF Inside
<1>4. QED
  BY <1>2, <1>3

LEMMA LookUpKeeps ==
  ASSUME DynamicInv, NEW p \in Process, LookUp(p)
  PROVE  DynamicInv'
<1> USE DEF DynamicInv
<1>1. dyn_pc[p] = "look_up"
  BY DEF LookUp
<1>2. PICK c \in Nat : c = comm[p]
  BY AtPlace
<1>3. /\ c \in Sets /\ Inside(p, c) /\ main_pset[p] = c /\ Len(operations) \in Nat
      /\ c < Len(operations) /\ iteration[p] = c /\ data[p] = c /\ Started(p)
      /\ job.num_adaptations \in Nat /\ c < job.num_adaptations
  BY <1>1, <1>2, AtPlace DEF Fits, Working
<1>4. PICK k \in 1..Len(operations) : k = c + 1
  BY <1>3
<1>5. k \in Sets /\ k \in Nat /\ Operation(p) = k
  BY <1>3, <1>4, AtPlace DEF Operation, Sets
<1>6. /\ main_pset' = [main_pset EXCEPT ![p] = k]
      /\ UNCHANGED <<job, operations, comm, iteration, data>>
  BY <1>5 DEF LookUp
<1>7. /\ comm'[p] = c /\ main_pset'[p] = k /\ iteration'[p] = c /\ data'[p] = c
  BY <1>2, <1>3, <1>6 DEF TypeOK
<1>8. \A d \in 0..Len(operations) : Asked(p, d) => Asked(p, d)'
  BY <1>3, <1>4, <1>7 DEF Asked
<1>9. CASE is_process_leaving(p, k)
  <2>1. ~Grows
    BY <1>9 DEF is_process_leaving, OperationsInv
  <2>2. /\ dyn_pc' = [dyn_pc EXCEPT ![p] = "leaving"]
        /\ EnterOn(p, c, "shuffle", Contribution(c + 1, c))
    BY <1>2, <1>3, <1>5, <1>9 DEF LookUp, Goto
  <2>3. Moves(p) /\ TypeOK'
    BY <1>5, <1>6, <2>2 DEF TypeOK, Moves, Place
  <2>4. dyn_pc'[p] = "leaving"
    BY <2>2 DEF TypeOK
  <2>5. Fits(p, dyn_pc'[p], comm'[p], main_pset'[p], iteration'[p], data'[p])
    BY <1>3, <1>4, <1>7, <2>1, <2>4, AtPlace DEF Fits, Arriving, Working, Moving
  <2>6. \A d \in Sets :
          Count(dyn_pc'[p], comm'[p], main_pset'[p], d)
            = IF d = c THEN Count(dyn_pc[p], comm[p], main_pset[p], c) + 1
                       ELSE Count(dyn_pc[p], comm[p], main_pset[p], d)
    BY <1>1, <1>2, <1>3, <1>7, <2>1, <2>4 DEF Count, OnCurrent, OnNext, Settled
  <2>7. "shuffle" = What(c, Count(dyn_pc[p], comm[p], main_pset[p], c) + 1)
    <3>1. Count(dyn_pc[p], comm[p], main_pset[p], c) = 1
      BY <1>1, <1>2, <2>1 DEF Count, OnCurrent, Settled
    <3>2. QED
      BY <1>3, <2>1, <3>1 DEF What, Total
  <2>8. RightValue("shuffle", Contribution(c + 1, c), p, c)
    BY <2>1 DEF RightValue, Contribution, NextIteration, Spread
  <2>9. RegisteredInv' /\ RightInv'
    BY <1>3, <2>2, <2>3, <2>6, <2>7, <2>8, Enters
  <2>10. QED
    BY <1>8, <2>3, <2>4, <2>5, <2>9, MoveKeeps
<1>10. CASE ~is_process_leaving(p, k)
  <2>1. Inside(p, k)
    BY <1>3, <1>4, <1>10, KeepsInside
  <2>2. dyn_pc' = [dyn_pc EXCEPT ![p] = "create"] /\ EnterOn(p, k, "create", 0)
    BY <1>5, <1>10 DEF LookUp, Goto
  <2>3. Moves(p) /\ TypeOK'
    BY <1>5, <1>6, <2>2 DEF TypeOK, Moves, Place
  <2>4. dyn_pc'[p] = "create"
    BY <2>2 DEF TypeOK
  <2>5. Fits(p, dyn_pc'[p], comm'[p], main_pset'[p], iteration'[p], data'[p])
    BY <1>3, <1>4, <1>7, <2>1, <2>4, AtPlace DEF Fits, Arriving, Working, Moving
  <2>6. \A d \in Sets :
          Count(dyn_pc'[p], comm'[p], main_pset'[p], d)
            = IF d = k THEN Count(dyn_pc[p], comm[p], main_pset[p], k) + 1
                       ELSE Count(dyn_pc[p], comm[p], main_pset[p], d)
    BY <1>1, <1>2, <1>3, <1>4, <1>7, <2>4 DEF Count, OnCurrent, OnNext
  <2>7. "create" = What(k, Count(dyn_pc[p], comm[p], main_pset[p], k) + 1)
    BY <1>1, <1>2, <1>3, <1>4 DEF Count, What
  <2>8. RightValue("create", 0, p, k)
    BY DEF RightValue
  <2>9. RegisteredInv' /\ RightInv'
    BY <1>5, <2>1, <2>2, <2>3, <2>6, <2>7, <2>8, Enters
  <2>10. QED
    BY <1>8, <2>3, <2>4, <2>5, <2>9, MoveKeeps
<1>11. QED
  BY <1>9, <1>10

LEMMA CreatedNextKeeps ==
  ASSUME DynamicInv, NEW p \in Process, CreatedNext(p)
  PROVE  DynamicInv'
<1> USE DEF DynamicInv
<1>1. dyn_pc[p] = "create"
  BY DEF CreatedNext
<1>2. PICK c \in Nat : c = comm[p]
  BY AtPlace
<1>3. /\ c \in Sets /\ Inside(p, c) /\ main_pset[p] = c + 1 /\ Len(operations) \in Nat
      /\ c < Len(operations) /\ iteration[p] = c /\ data[p] = c /\ Started(p)
      /\ Inside(p, c + 1)
      /\ job.num_adaptations \in Nat /\ c < job.num_adaptations
  BY <1>1, <1>2, AtPlace DEF Fits, Moving
<1>4. PICK k \in 1..Len(operations) : k = c + 1
  BY <1>3
<1>5. k \in Sets /\ k \in Nat /\ (operations[k].op = "grow" <=> Grows)
  BY <1>3, <1>4, AtPlace DEF Sets, OperationsInv
<1>6. UNCHANGED <<job, operations, main_pset, comm, iteration, data>>
  BY DEF CreatedNext
<1>7. /\ comm'[p] = c /\ main_pset'[p] = k /\ iteration'[p] = c /\ data'[p] = c
  BY <1>2, <1>3, <1>4, <1>6
<1>8. \A d \in 0..Len(operations) : Asked(p, d) => Asked(p, d)'
  BY <1>1, <1>3, <1>4, <1>7 DEF Asked
<1>9. CASE Grows
  <2>1. dyn_pc' = [dyn_pc EXCEPT ![p] = "broadcast"] /\ EnterOn(p, k, "broadcast", k)
    BY <1>3, <1>4, <1>5, <1>9 DEF CreatedNext, Goto
  <2>2. Moves(p) /\ TypeOK'
    BY <1>6, <2>1 DEF TypeOK, Moves, Place
  <2>3. dyn_pc'[p] = "broadcast"
    BY <2>1 DEF TypeOK
  <2>4. Fits(p, dyn_pc'[p], comm'[p], main_pset'[p], iteration'[p], data'[p])
    BY <1>3, <1>4, <1>7, <1>9, <2>3 DEF Fits, Arriving, Working, Moving
  <2>5. \A d \in Sets :
          Count(dyn_pc'[p], comm'[p], main_pset'[p], d)
            = IF d = k THEN Count(dyn_pc[p], comm[p], main_pset[p], k) + 1
                       ELSE Count(dyn_pc[p], comm[p], main_pset[p], d)
    BY <1>1, <1>2, <1>3, <1>4, <1>7, <2>3 DEF Count, OnCurrent, OnNext
  <2>6. "broadcast" = What(k, Count(dyn_pc[p], comm[p], main_pset[p], k) + 1)
    <3>1. Count(dyn_pc[p], comm[p], main_pset[p], k) = 1
      BY <1>1, <1>2, <1>3, <1>4 DEF Count, OnNext
    <3>2. QED
      BY <1>9, <3>1 DEF What, Total
  <2>7. RightValue("broadcast", k, p, k)
    BY DEF RightValue
  <2>8. RegisteredInv' /\ RightInv'
    BY <1>3, <1>4, <1>5, <2>1, <2>2, <2>5, <2>6, <2>7, Enters
  <2>9. QED
    BY <1>8, <2>2, <2>3, <2>4, <2>8, MoveKeeps
<1>10. CASE ~Grows
  <2>1. /\ dyn_pc' = [dyn_pc EXCEPT ![p] = "shuffle"]
        /\ EnterOn(p, c, "shuffle", Contribution(c + 1, c))
    BY <1>2, <1>3, <1>4, <1>5, <1>10 DEF CreatedNext, Goto
  <2>2. Moves(p) /\ TypeOK'
    BY <1>6, <2>1 DEF TypeOK, Moves, Place
  <2>3. dyn_pc'[p] = "shuffle"
    BY <2>1 DEF TypeOK
  <2>4. Fits(p, dyn_pc'[p], comm'[p], main_pset'[p], iteration'[p], data'[p])
    BY <1>3, <1>4, <1>7, <2>3 DEF Fits, Arriving, Working, Moving
  <2>5. \A d \in Sets :
          Count(dyn_pc'[p], comm'[p], main_pset'[p], d)
            = IF d = c THEN Count(dyn_pc[p], comm[p], main_pset[p], c) + 1
                       ELSE Count(dyn_pc[p], comm[p], main_pset[p], d)
    BY <1>1, <1>2, <1>3, <1>4, <1>7, <1>10, <2>3 DEF Count, OnCurrent, OnNext, Settled
  <2>6. "shuffle" = What(c, Count(dyn_pc[p], comm[p], main_pset[p], c) + 1)
    <3>1. Count(dyn_pc[p], comm[p], main_pset[p], c) = 1
      BY <1>1, <1>2, <1>10 DEF Count, OnCurrent, Settled
    <3>2. QED
      BY <1>3, <1>10, <3>1 DEF What, Total
  <2>7. RightValue("shuffle", Contribution(c + 1, c), p, c)
    BY <1>10 DEF RightValue, Contribution, NextIteration, Spread
  <2>8. RegisteredInv' /\ RightInv'
    BY <1>3, <2>1, <2>2, <2>5, <2>6, <2>7, Enters
  <2>9. QED
    BY <1>8, <2>2, <2>3, <2>4, <2>8, MoveKeeps
<1>11. QED
  BY <1>9, <1>10

LEMMA ToldKeeps ==
  ASSUME DynamicInv, NEW p \in Process, Told(p)
  PROVE  DynamicInv'
<1> USE DEF DynamicInv
<1>1. dyn_pc[p] = "broadcast"
  BY DEF Told
<1>2. PICK c \in Nat : c = comm[p]
  BY AtPlace
<1>3. /\ c \in Sets /\ Inside(p, c) /\ main_pset[p] = c + 1 /\ Len(operations) \in Nat
      /\ c < Len(operations) /\ iteration[p] = c /\ data[p] = c /\ Started(p)
      /\ Inside(p, c + 1) /\ Grows
  BY <1>1, <1>2, AtPlace DEF Fits, Moving
<1>4. PICK k \in 1..Len(operations) : k = c + 1
  BY <1>3
<1>5. k \in Sets /\ k \in Nat /\ k # 0
  BY <1>3, <1>4, AtPlace DEF Sets
<1>6. Count(dyn_pc[p], comm[p], main_pset[p], k) = 2
  BY <1>1, <1>2, <1>3, <1>4 DEF Count, OnNext
<1>7. entered[p][k] = 2
  BY <1>3, <1>4, <1>5, <1>6, EnteredIs
<1>8. EnterOn(p, k, "shuffle", Contribution(k, c))
  <2>1. \A v \in Broadcast(p, k) : v = k
    BY <1>3, <1>5, <1>7, BroadcastIs
  <2>2. QED
    BY <1>3, <1>4, <2>1 DEF Told
<1>9. /\ dyn_pc' = [dyn_pc EXCEPT ![p] = "shuffle"]
      /\ UNCHANGED <<job, operations, main_pset, comm, iteration, data>>
  BY DEF Told, Goto
<1>10. Moves(p) /\ TypeOK'
  BY <1>9 DEF TypeOK, Moves, Place
<1>11. /\ dyn_pc'[p] = "shuffle" /\ comm'[p] = c /\ main_pset'[p] = k /\ iteration'[p] = c
       /\ data'[p] = c
  BY <1>2, <1>3, <1>4, <1>9 DEF TypeOK
<1>12. Fits(p, dyn_pc'[p], comm'[p], main_pset'[p], iteration'[p], data'[p])
  BY <1>3, <1>4, <1>11 DEF Fits, Arriving, Working, Moving
<1>13. RegisteredInv' /\ RightInv'
  <2>1. \A d \in Sets :
          Count(dyn_pc'[p], comm'[p], main_pset'[p], d)
            = IF d = k THEN Count(dyn_pc[p], comm[p], main_pset[p], k) + 1
                       ELSE Count(dyn_pc[p], comm[p], main_pset[p], d)
    BY <1>1, <1>2, <1>3, <1>4, <1>5, <1>11 DEF Count, OnCurrent, OnNext, Settled
  <2>2. "shuffle" = What(k, Count(dyn_pc[p], comm[p], main_pset[p], k) + 1)
    BY <1>3, <1>5, <1>6 DEF What, Total
  <2>3. RightValue("shuffle", Contribution(k, c), p, k)
    BY <1>3, <1>4 DEF RightValue, Contribution, NextIteration, Spread
  <2>4. QED
    BY <1>3, <1>4, <1>5, <1>8, <1>10, <2>1, <2>2, <2>3, Enters
<1>14. \A d \in 0..Len(operations) : Asked(p, d) => Asked(p, d)'
  BY <1>1, <1>3, <1>4, <1>11 DEF Asked
<1>15. QED
  BY <1>10, <1>11, <1>12, <1>13, <1>14, MoveKeeps

LEMMA ShuffledKeeps ==
  ASSUME DynamicInv, NEW p \in Process, Shuffled(p)
  PROVE  DynamicInv'
<1> USE DEF DynamicInv
<1>1. dyn_pc[p] = "shuffle"
  BY DEF Shuffled
<1>2. PICK c \in Nat : c = comm[p]
  BY AtPlace
<1>3. /\ c \in Sets /\ Inside(p, c) /\ main_pset[p] = c + 1 /\ Len(operations) \in Nat
      /\ c < Len(operations) /\ iteration[p] = c /\ Started(p)
      /\ Inside(p, c + 1)
      /\ job.num_adaptations \in Nat /\ c < job.num_adaptations
  BY <1>1, <1>2, AtPlace DEF Fits, Moving
<1>4. PICK k \in 1..Len(operations) : k = c + 1
  BY <1>3
<1>5. k \in Nat
  BY <1>3, <1>4
<1>6. /\ dyn_pc' = [dyn_pc EXCEPT ![p] = "disconnect"]
      /\ data' = [data EXCEPT ![p] = k]
      /\ EnterOn(p, c, "disconnect", 0)
      /\ UNCHANGED <<job, operations, main_pset, comm, iteration>>
  BY <1>2, <1>3, <1>4 DEF Shuffled, Goto
<1>7. Moves(p) /\ TypeOK'
  BY <1>5, <1>6 DEF TypeOK, Moves, Place
<1>8. /\ dyn_pc'[p] = "disconnect" /\ comm'[p] = c /\ main_pset'[p] = k /\ iteration'[p] = c
      /\ data'[p] = k
  BY <1>2, <1>3, <1>4, <1>6 DEF TypeOK
<1>9. Fits(p, dyn_pc'[p], comm'[p], main_pset'[p], iteration'[p], data'[p])
  BY <1>3, <1>4, <1>8 DEF Fits, Arriving, Working, Moving
<1>10. RegisteredInv' /\ RightInv'
  <2>1. Count(dyn_pc[p], comm[p], main_pset[p], c) + 1 = Total(c)
    BY <1>1, <1>2, <1>3 DEF Count, OnCurrent, Settled, Total
  <2>2. \A d \in Sets :
          Count(dyn_pc'[p], comm'[p], main_pset'[p], d)
            = IF d = c THEN Count(dyn_pc[p], comm[p], main_pset[p], c) + 1
                       ELSE Count(dyn_pc[p], comm[p], main_pset[p], d)
    BY <1>1, <1>2, <1>3, <1>4, <1>8, <2>1 DEF Count, OnCurrent, OnNext
  <2>3. "disconnect" = What(c, Count(dyn_pc[p], comm[p], main_pset[p], c) + 1)
    <3>1. Total(c) # 1
      BY DEF Total
    <3>2. QED
      BY <2>1, <3>1 DEF What
  <2>4. RightValue("disconnect", 0, p, c)
    BY DEF RightValue
  <2>5. QED
    BY <1>3, <1>6, <1>7, <2>2, <2>3, <2>4, Enters
<1>11. \A d \in 0..Len(operations) : Asked(p, d) => Asked(p, d)'
  BY <1>1, <1>3, <1>4, <1>8 DEF Asked
<1>12. QED
  BY <1>7, <1>8, <1>9, <1>10, <1>11, MoveKeeps

LEMMA DisconnectedKeeps ==
  ASSUME DynamicInv, NEW p \in Process, Disconnected(p)
  PROVE  DynamicInv'
<1> USE DEF DynamicInv
<1>1. dyn_pc[p] = "disconnect"
  BY DEF Disconnected
<1>2. PICK c \in Nat : c = comm[p]
  BY AtPlace
<1>3. /\ c \in Sets /\ Inside(p, c) /\ main_pset[p] = c + 1 /\ Len(operations) \in Nat
      /\ c < Len(operations) /\ iteration[p] = c /\ Started(p) /\ data[p] = c + 1
      /\ Inside(p, c + 1)
  BY <1>1, <1>2, AtPlace DEF Fits, Moving
<1>4. PICK k \in 1..Len(operations) : k = c + 1
  BY <1>3
<1>5. k \in Nat /\ k \in 0..Len(operations)
  BY <1>3, <1>4
<1>6. /\ dyn_pc' = [dyn_pc EXCEPT ![p] = "loop"]
      /\ comm' = [comm EXCEPT ![p] = k]
      /\ operations' = IF get_rank(p, k) = 0
                       THEN [operations EXCEPT ![k].open = FALSE]
                       ELSE operations
      /\ iteration' = [iteration EXCEPT ![p] = k]
      /\ UNCHANGED <<job, main_pset, data, dyn_collected>>
  <2>1. iteration[p] + 1 = k /\ main_pset[p] = k
    BY <1>3, <1>4
  <2>2. iteration' = [iteration EXCEPT ![p] = iteration[p] + 1]
    BY DEF Disconnected
  <2>3. QED
    BY <2>1, <2>2 DEF Disconnected, Goto
<1>7. /\ operations' \in Seq(Operations) /\ Len(operations') = Len(operations)
      /\ \A i \in 1..Len(operations) :
           /\ operations'[i].op = operations[i].op
           /\ operations'[i].main = operations[i].main
           /\ operations'[i].delta = operations[i].delta
           /\ operations'[i].open => operations[i].open
      /\ get_rank(p, k) = 0 => ~operations'[k].open
  <2>1. operations \in Seq(Operations) /\ operations[k] \in Operations
    BY <1>4 DEF TypeOK
  <2> DEFINE r == [operations[k] EXCEPT !.open = FALSE]
  <2>2. /\ r \in Operations /\ r.op = operations[k].op
        /\ r.main = operations[k].main
        /\ r.delta = operations[k].delta
        /\ r.open = FALSE
    BY <2>1 DEF Operations
  <2>3. get_rank(p, k) = 0 => operations' = [operations EXCEPT ![k] = r]
    BY <1>6
  <2>4. get_rank(p, k) # 0 => operations' = operations
    BY <1>6
  <2> HIDE DEF r
  <2>5. CASE get_rank(p, k) = 0
    BY <2>1, <2>2, <2>3, <2>5, OneChanged
  <2>6. CASE get_rank(p, k) # 0
    BY <2>1, <2>4, <2>6
  <2>7. QED
    BY <2>5, <2>6
<1>8. Moves(p) /\ TypeOK'
  BY <1>5, <1>6, <1>7 DEF TypeOK, Moves, Place
<1>9. /\ dyn_pc'[p] = "loop" /\ comm'[p] = k /\ main_pset'[p] = k /\ iteration'[p] = k
      /\ data'[p] = k
  BY <1>3, <1>4, <1>6 DEF TypeOK
<1>10. Fits(p, dyn_pc'[p], comm'[p], main_pset'[p], iteration'[p], data'[p])
  BY <1>3, <1>4, <1>9 DEF Fits, Arriving, Working, Moving
<1>11. RegisteredInv' /\ RightInv'
  <2>1. \A d \in Sets : d \in Int
    BY AtPlace DEF Sets
  <2>2. \A d \in Sets :
          Count(dyn_pc'[p], comm'[p], main_pset'[p], d) = Count(dyn_pc[p], comm[p], main_pset[p], d)
    BY <1>1, <1>2, <1>3, <1>4, <1>9, <2>1 DEF Count, OnCurrent, OnNext
  <2>3. QED
    BY <1>6, <1>8, <2>2, Stays
<1>12. \A d \in 0..Len(operations) : Asked(p, d) => Asked(p, d)'
  BY <1>1, <1>3, <1>4, <1>9 DEF Asked
<1>13. Root(p, k) => ~operations'[k].open
  BY <1>7 DEF Root
<1>14. QED
  BY <1>5, <1>8, <1>9, <1>10, <1>11, <1>12, <1>13, MoveKeeps

LEMMA GivenAwayKeeps ==
  ASSUME DynamicInv, NEW p \in Process, GivenAway(p)
  PROVE  DynamicInv'
<1> USE DEF DynamicInv
<1>1. dyn_pc[p] = "leaving"
  BY DEF GivenAway
<1>2. PICK c \in Nat : c = comm[p]
  BY AtPlace
<1>3. /\ c \in Sets /\ Inside(p, c) /\ main_pset[p] = c + 1 /\ Len(operations) \in Nat
      /\ c + 1 <= Len(operations) /\ Started(p) /\ ~Grows
      /\ job.num_adaptations \in Nat /\ c < job.num_adaptations
  BY <1>1, <1>2, AtPlace DEF Fits
<1>4. /\ dyn_pc' = [dyn_pc EXCEPT ![p] = "end"]
      /\ data' = [data EXCEPT ![p] = Nothing]
      /\ EnterOn(p, c, "disconnect", 0)
      /\ UNCHANGED <<job, operations, main_pset, comm, iteration>>
  BY <1>2 DEF GivenAway, Goto
<1>5. Moves(p) /\ TypeOK'
  BY <1>4 DEF TypeOK, Moves, Place
<1>6. /\ dyn_pc'[p] = "end" /\ comm'[p] = c /\ main_pset'[p] = c + 1
  BY <1>2, <1>3, <1>4 DEF TypeOK
<1>7. Fits(p, dyn_pc'[p], comm'[p], main_pset'[p], iteration'[p], data'[p])
  BY <1>3, <1>6 DEF Fits, Arriving, Working, Moving
<1>8. RegisteredInv' /\ RightInv'
  <2>1. Count(dyn_pc[p], comm[p], main_pset[p], c) = 2 /\ Total(c) = 3
    BY <1>1, <1>2, <1>3 DEF Count, OnCurrent, Total
  <2>2. \A d \in Sets :
          Count(dyn_pc'[p], comm'[p], main_pset'[p], d)
            = IF d = c THEN Count(dyn_pc[p], comm[p], main_pset[p], c) + 1
                       ELSE Count(dyn_pc[p], comm[p], main_pset[p], d)
    BY <1>1, <1>2, <1>3, <1>6, <2>1 DEF Count, OnCurrent, OnNext
  <2>3. "disconnect" = What(c, Count(dyn_pc[p], comm[p], main_pset[p], c) + 1)
    BY <2>1 DEF What
  <2>4. RightValue("disconnect", 0, p, c)
    BY DEF RightValue
  <2>5. QED
    BY <1>3, <1>4, <1>5, <2>2, <2>3, <2>4, Enters
<1>9. \A d \in 0..Len(operations) : Asked(p, d) => Asked(p, d)'
  BY <1>1, <1>3, <1>6 DEF Asked
<1>10. QED
  BY <1>5, <1>6, <1>7, <1>8, <1>9, MoveKeeps

LEMMA LeaveLoopKeeps ==
  ASSUME DynamicInv, NEW p \in Process, LeaveLoop(p)
  PROVE  DynamicInv'
<1> USE DEF DynamicInv
<1>1. dyn_pc[p] = "loop"
  BY DEF LeaveLoop
<1>2. PICK c \in Nat : c = comm[p]
  BY AtPlace
<1>3. /\ c \in Sets /\ Inside(p, c) /\ main_pset[p] = c /\ Len(operations) \in Nat
      /\ c <= Len(operations) /\ iteration[p] = c /\ Started(p)
      /\ Len(operations) <= job.num_adaptations /\ job.num_adaptations \in Nat
  BY <1>1, <1>2, AtPlace DEF Fits, Working
<1>4. c = job.num_adaptations
  BY <1>3 DEF LeaveLoop
<1>5. /\ dyn_pc' = [dyn_pc EXCEPT ![p] = "end"]
      /\ EnterOn(p, c, "disconnect", 0)
      /\ UNCHANGED <<job, operations, main_pset, comm, iteration, data>>
  BY <1>2 DEF LeaveLoop, Goto
<1>6. Moves(p) /\ TypeOK'
  BY <1>5 DEF TypeOK, Moves, Place
<1>7. /\ dyn_pc'[p] = "end" /\ comm'[p] = c /\ main_pset'[p] = c
  BY <1>2, <1>3, <1>5 DEF TypeOK
<1>8. Fits(p, dyn_pc'[p], comm'[p], main_pset'[p], iteration'[p], data'[p])
  BY <1>3, <1>7 DEF Fits, Arriving, Working, Moving
<1>9. RegisteredInv' /\ RightInv'
  <2>1. Count(dyn_pc[p], comm[p], main_pset[p], c) + 1 = Total(c)
    BY <1>1, <1>2, <1>4 DEF Count, OnCurrent, Settled, Total
  <2>2. \A d \in Sets :
          Count(dyn_pc'[p], comm'[p], main_pset'[p], d)
            = IF d = c THEN Count(dyn_pc[p], comm[p], main_pset[p], c) + 1
                       ELSE Count(dyn_pc[p], comm[p], main_pset[p], d)
    BY <1>1, <1>2, <1>3, <1>7, <2>1 DEF Count, OnCurrent, OnNext
  <2>3. "disconnect" = What(c, Count(dyn_pc[p], comm[p], main_pset[p], c) + 1)
    <3>1. Total(c) # 1
      BY DEF Total
    <3>2. QED
      BY <2>1, <3>1 DEF What
  <2>4. RightValue("disconnect", 0, p, c)
    BY DEF RightValue
  <2>5. QED
    BY <1>3, <1>5, <1>6, <2>2, <2>3, <2>4, Enters
<1>10. \A d \in 0..Len(operations) : Asked(p, d) => Asked(p, d)'
  BY <1>1, <1>3, <1>7 DEF Asked
<1>11. QED
  BY <1>6, <1>7, <1>8, <1>9, <1>10, MoveKeeps

LEMMA ExitKeeps ==
  ASSUME DynamicInv, NEW p \in Process, Exit(p)
  PROVE  DynamicInv'
<1> USE DEF DynamicInv
<1>1. dyn_pc[p] = "end"
  BY DEF Exit
<1>2. PICK c \in Nat : c = comm[p]
  BY AtPlace
<1>3. PICK k \in Nat : k = main_pset[p]
  BY AtPlace
<1>4. /\ Started(p) /\ c <= k /\ k <= Len(operations) /\ Inside(p, c)
  BY <1>1, <1>2, <1>3, AtPlace DEF Fits
<1>5. /\ dyn_pc' = [dyn_pc EXCEPT ![p] = "done"]
      /\ UNCHANGED <<job, operations, main_pset, comm, iteration, data, dyn_collected>>
  BY DEF Exit, Goto
<1>6. Moves(p) /\ TypeOK'
  BY <1>5 DEF TypeOK, Moves, Place
<1>7. /\ dyn_pc'[p] = "done" /\ comm'[p] = c /\ main_pset'[p] = k
  BY <1>2, <1>3, <1>5 DEF TypeOK
<1>8. Fits(p, dyn_pc'[p], comm'[p], main_pset'[p], iteration'[p], data'[p])
  BY <1>4, <1>7 DEF Fits, Arriving, Working, Moving
<1>9. RegisteredInv' /\ RightInv'
  <2>1. \A d \in Sets :
          Count(dyn_pc'[p], comm'[p], main_pset'[p], d) = Count(dyn_pc[p], comm[p], main_pset[p], d)
    BY <1>1, <1>2, <1>3, <1>7 DEF Count, OnCurrent, OnNext
  <2>2. QED
    BY <1>5, <1>6, <2>1, Stays
<1>10. \A d \in 0..Len(operations) : Asked(p, d) => Asked(p, d)'
  BY <1>1, <1>3, <1>7 DEF Asked
<1>11. QED
  BY <1>6, <1>7, <1>8, <1>9, <1>10, MoveKeeps

-----------------------------------------------------------------------------
(***************************************************************************)
(* The step that makes a new set                                           *)
(***************************************************************************)

\* p asks for an operation; those that are started because of it begin.
Asks(p, operation) ==
  /\ operations' = Append(operations, operation)
  /\ UNCHANGED <<job, main_pset, comm, iteration, data, dyn_collected>>
  /\ dyn_pc'[p] = "publish"
  /\ \A q \in Process : q # p =>
       \/ dyn_pc'[q] = dyn_pc[q]
       \/ dyn_pc'[q] = "begin" /\ New(q) /\ ~Started(q) /\ Started(q)'

\* The root of the last set asks, when all operations have been finalized.
LEMMA RootAsks ==
  ASSUME DynamicInv, NEW p \in Process, dyn_pc[p] = "loop", iteration[p] < job.num_adaptations,
         get_rank(p, comm[p]) = 0
  PROVE  /\ comm[p] = Len(operations) /\ main_pset[p] = Len(operations)
         /\ Len(operations) < job.num_adaptations
         /\ \A q : Root(q, Len(operations)) => q = p
         /\ \A k \in 1..Len(operations) : ~operations[k].open
<1> USE DEF DynamicInv
<1>1. PICK c \in Nat : c = comm[p]
  BY AtPlace
<1>2. /\ c \in Sets /\ c \in 0..Len(operations) /\ Inside(p, c) /\ main_pset[p] = c
      /\ iteration[p] = c
  BY <1>1, AtPlace DEF Fits, Working
<1>3. Root(p, c)
  BY <1>1, <1>2 DEF Root, Inside
<1>4. ~Asked(p, c)
  BY <1>2 DEF Asked
<1>5. c = Len(operations)
  BY <1>2, <1>3, <1>4 DEF RootInv
<1>6. ASSUME NEW q, Root(q, c) PROVE q = p
  BY <1>2, <1>3, <1>6, RootIsFirst
<1>7. ASSUME NEW k \in 1..Len(operations) PROVE ~operations[k].open
  <2>1. operations[k].open => k = c
    BY <1>5 DEF RootInv
  <2>2. c # 0 => ~operations[c].open
    BY <1>1, <1>3 DEF RootInv
  <2>3. QED
    BY <2>1, <2>2
<1>8. QED
  BY <1>1, <1>2, <1>5, <1>6, <1>7

\* The sets that there are stay as they are.
LEMMA SetsStayToo ==
  ASSUME TypeOK, NEW p, NEW operation, Asks(p, operation)
  PROVE  /\ Len(operations') = Len(operations) + 1 /\ Len(operations) \in Nat
         /\ \A k \in 1..Len(operations) : operations'[k] = operations[k]
         /\ operations'[Len(operations) + 1] = operation
         /\ Sets' = Sets /\ (Grows' <=> Grows)
         /\ \A c \in 0..Len(operations) : SetMembers(c)' = SetMembers(c)
         /\ \A c \in 0..Len(operations) : \A q : Root(q, c)' <=> Root(q, c)
         /\ \A c \in 0..Len(operations) : \A q : Inside(q, c)' <=> Inside(q, c)
         /\ \A q : New(q)' <=> New(q)
<1>1. operations \in Seq(Operations) /\ operations' = Append(operations, operation) /\ job' = job
  BY DEF TypeOK, Asks
<1>2. /\ Len(operations') = Len(operations) + 1 /\ Len(operations) \in Nat
      /\ \A k \in 1..Len(operations) : operations'[k] = operations[k]
      /\ operations'[Len(operations) + 1] = operation
  BY <1>1
<1>3. ASSUME NEW c \in 0..Len(operations) PROVE SetMembers(c)' = SetMembers(c)
  <2>1. CASE c = 0
    BY <1>1, <2>1 DEF SetMembers
  <2>2. CASE c # 0
    <3>1. operations'[c] = operations[c]
      BY <1>2, <2>2
    <3>2. QED
      BY <2>2, <3>1 DEF SetMembers
  <2>3. QED
    BY <2>1, <2>2
<1>4. \A c \in 0..Len(operations) : \A q : Root(q, c)' <=> Root(q, c)
  BY <1>3 DEF Root, get_rank
<1>5. \A c \in 0..Len(operations) : \A q : Inside(q, c)' <=> Inside(q, c)
  BY <1>2, <1>3 DEF Inside
<1>6. QED
  BY <1>1, <1>2, <1>3, <1>4, <1>5 DEF New, Sets, Grows

\* Who has been started stays so.
LEMMA StartedStays ==
  ASSUME TypeOK, TypeOK', OperationsInv, OperationsInv', NEW p, NEW operation, Asks(p, operation),
         NEW q, Started(q)
  PROVE  Started(q)'
<1>1. /\ Len(operations') = Len(operations) + 1 /\ Len(operations) \in Nat
      /\ New(q)' <=> New(q)
      /\ Grows' <=> Grows
  BY SetsStayToo
<1>2. CASE ~New(q)
  BY <1>1, <1>2 DEF Started
<1>3. CASE New(q)
  <2>1. Grows /\ q \in ToSet(SubSeq(Spare, 1, num_add_proc * Len(operations)))
    BY <1>3 DEF Started
  <2>2. PICK k \in Nat : k = Len(operations')
    BY <1>1
  <2>3. num_add_proc * k \in 0..Len(Spare)
    <3>1. /\ job.num_adaptations \in Nat
          /\ job.num_adaptations > 0 => Len(Spare) >= num_add_proc * job.num_adaptations
      BY <2>1, JobFacts DEF TypeOK
    <3>2. k \in 0..job.num_adaptations
      BY <1>1, <2>2, SetsStayToo DEF OperationsInv, Sets
    <3>3. k # 0
      BY <1>1, <2>2
    <3>4. QED
      BY <3>1, <3>2, <3>3 DEF num_add_proc
  <2>4. Spare \in Seq(Process) /\ num_add_proc * Len(operations) \in 0..Len(Spare)
    BY <1>1, <2>1, JobFacts, GrownSet DEF TypeOK
  <2>5. \A i \in 1..num_add_proc * Len(operations) : i \in 1..num_add_proc * k
    BY <1>1, <2>2 DEF num_add_proc
  <2>6. ToSet(SubSeq(Spare, 1, num_add_proc * Len(operations)))
          = {Spare[i] : i \in 1..num_add_proc * Len(operations)}
    BY <2>4, PartOf
  <2>7. ToSet(SubSeq(Spare, 1, num_add_proc * k)) = {Spare[i] : i \in 1..num_add_proc * k}
    BY <2>3, <2>4, PartOf
  <2>8. q \in ToSet(SubSeq(Spare, 1, num_add_proc * k))
    BY <2>1, <2>5, <2>6, <2>7
  <2>9. QED
    BY <1>1, <2>1, <2>2, <2>8 DEF Started
<1>4. QED
  BY <1>2, <1>3

\* What a process knew it still knows, ...
LEMMA FitsToo ==
  ASSUME TypeOK, TypeOK', OperationsInv, OperationsInv', NEW p, NEW operation, Asks(p, operation),
         NEW q, NEW place, NEW current \in Nat, NEW name \in Nat, NEW i, NEW values,
         Fits(q, place, current, name, i, values)
  PROVE  Fits(q, place, current, name, i, values)'
<1>1. /\ Len(operations') = Len(operations) + 1 /\ Len(operations) \in Nat
      /\ New(q)' <=> New(q)
      /\ Grows' <=> Grows
      /\ \A c \in 0..Len(operations) : Inside(q, c)' <=> Inside(q, c)
  BY SetsStayToo
<1>2. Started(q) => Started(q)'
  BY StartedStays
<1>3. \A c \in Nat : Inside(q, c) => c \in 0..Len(operations)
  BY DEF Inside
<1>4. /\ Inside(q, current) => Inside(q, current)'
      /\ Inside(q, name) => Inside(q, name)'
  BY <1>1, <1>3
<1>5. name <= Len(operations) => name <= Len(operations')
  BY <1>1
<1>6. name < Len(operations) => name < Len(operations')
  BY <1>1
<1>7. QED
  BY <1>1, <1>2, <1>4, <1>5, <1>6 DEF Fits

LEMMA PlacesToo ==
  ASSUME TypeOK, TypeOK', OperationsInv, OperationsInv', PlacesInv,
         NEW p \in Process, dyn_pc[p] = "loop", main_pset[p] = Len(operations),
         NEW operation, Asks(p, operation)
  PROVE  PlacesInv'
<1> SUFFICES ASSUME NEW q \in Process PROVE PlaceOK(q)'
  BY DEF PlacesInv
<1>1. PICK place : place = dyn_pc'[q]
  OBVIOUS
<1>2. PICK current \in Nat : current = comm[q]
  BY DEF TypeOK
<1>3. PICK name \in Nat : name = main_pset[q]
  BY DEF TypeOK
<1>4. PICK i : i = iteration[q]
  OBVIOUS
<1>5. PICK values : values = data[q]
  OBVIOUS
<1>6. Fits(q, dyn_pc[q], current, name, i, values)
  BY <1>2, <1>3, <1>4, <1>5 DEF PlacesInv, PlaceOK
<1>7. PICK before : before = dyn_pc[q]
  OBVIOUS
<1>8. Fits(q, before, current, name, i, values)'
  BY <1>6, <1>7, FitsToo
<1>9. /\ Len(operations') = Len(operations) + 1 /\ Len(operations) \in Nat
      /\ New(q)' <=> New(q)
  BY SetsStayToo
<1>10. Fits(q, place, current, name, i, values)'
  <2>1. CASE place = before
    BY <1>8, <2>1
  <2>2. CASE q = p
    <3>1. place = "publish" /\ before = "loop" /\ name < Len(operations')
      BY <1>1, <1>3, <1>7, <1>9, <2>2 DEF Asks
    <3>2. QED
      BY <1>8, <3>1 DEF Fits, Arriving, Working, Moving
  <2>3. CASE place = "begin" /\ New(q) /\ ~Started(q) /\ Started(q)'
    <3>1. before = "absent"
      BY <1>6, <1>7, <2>3 DEF Fits
    <3>2. QED
      BY <1>8, <1>9, <2>3, <3>1 DEF Fits, Arriving, Working, Moving
  <2>4. QED
    BY <1>1, <1>7, <2>1, <2>2, <2>3 DEF Asks
<1>11. /\ (place = dyn_pc[q])' /\ (current = comm[q])' /\ (name = main_pset[q])' /\ (i = iteration[q])'
       /\ (values = data[q])'
  BY <1>1, <1>2, <1>3, <1>4, <1>5 DEF Asks
<1>12. QED
  BY <1>10, <1>11 DEF PlaceOK

\* ... has entered what it had, ...
LEMMA EnteredToo ==
  ASSUME TypeOK, OperationsInv, PlacesInv, NEW p \in Process, dyn_pc[p] = "loop",
         NEW operation, Asks(p, operation), NEW q \in Process, NEW d \in Sets
  PROVE  entered'[q][d] = entered[q][d]
<1>1. /\ Len(operations') = Len(operations) + 1 /\ Len(operations) \in Nat
      /\ Sets' = Sets /\ job' = job /\ d \in Nat
      /\ \A c \in 0..Len(operations) : Inside(q, c)' <=> Inside(q, c)
  <2>1. d \in Nat
    BY AtPlace DEF Sets
  <2>2. job' = job
    BY DEF Asks
  <2>3. QED
    BY <2>1, <2>2, SetsStayToo
<1>2. PICK place : place = dyn_pc'[q]
  OBVIOUS
<1>3. PICK current \in Nat : current = comm[q]
  BY DEF TypeOK
<1>4. PICK name \in Nat : name = main_pset[q]
  BY DEF TypeOK
<1>5. entered'[q][d] = IF Inside(q, d)' THEN Count(place, current, name, d) ELSE 0
  <2>1. entered'[q][d] = IF Inside(q, d)' THEN (Count(dyn_pc[q], comm[q], main_pset[q], d))' ELSE 0
    BY <1>1 DEF entered
  <2>2. current = comm'[q] /\ name = main_pset'[q]
    BY <1>3, <1>4 DEF Asks
  <2>3. (Count(dyn_pc[q], comm[q], main_pset[q], d))' = Count(place, current, name, d)
    BY <1>1, <1>2, <2>2 DEF Count, OnCurrent, OnNext, Total, Settled, Grows
  <2>4. QED
    BY <2>1, <2>3
<1>6. entered[q][d] = IF Inside(q, d) THEN Count(dyn_pc[q], current, name, d) ELSE 0
  BY <1>3, <1>4, EnteredIs
<1>7. Fits(q, dyn_pc[q], current, name, iteration[q], data[q])
  BY <1>3, <1>4, AtPlace
<1>8. Count(place, current, name, d) = Count(dyn_pc[q], current, name, d)
  <2>1. CASE place = dyn_pc[q]
    BY <2>1
  <2>2. CASE q = p
    <3>1. place = "publish" /\ dyn_pc[q] = "loop"
      BY <1>2, <2>2 DEF Asks
    <3>2. QED
      BY <3>1 DEF Count, OnCurrent, OnNext
  <2>3. CASE place = "begin" /\ ~Started(q)
    BY <1>7, <2>3 DEF Fits, Count
  <2>4. QED
    BY <1>2, <2>1, <2>2, <2>3 DEF Asks
<1>9. CASE d <= Len(operations)
  <2>1. Inside(q, d)' <=> Inside(q, d)
    BY <1>1, <1>9
  <2>2. QED
    BY <1>5, <1>6, <1>8, <2>1
<1>10. CASE d > Len(operations)
  <2>1. ~Inside(q, d)
    BY <1>1, <1>10 DEF Inside
  <2>2. Count(dyn_pc[q], current, name, d) = 0
    BY <1>1, <1>7, <1>10 DEF Fits, Count
  <2>3. QED
    BY <1>5, <1>6, <1>8, <2>1, <2>2
<1>11. QED
  BY <1>1, <1>9, <1>10

LEMMA RegisteredToo ==
  ASSUME TypeOK, OperationsInv, PlacesInv, RegisteredInv, RightInv,
         NEW p \in Process, dyn_pc[p] = "loop", NEW operation, Asks(p, operation)
  PROVE  RegisteredInv' /\ RightInv'
<1>1. dyn_collected' = dyn_collected /\ Sets' = Sets /\ job' = job
  BY SetsStayToo DEF Asks
<1>2. \A q \in Process, d \in Sets : entered'[q][d] = entered[q][d]
  BY EnteredToo
<1>3. Registered(dyn_collected, entered', Sets)
  BY <1>2 DEF RegisteredInv, Registered
<1>4. RegisteredInv'
  BY <1>1, <1>3 DEF RegisteredInv, Registered
<1>5. ASSUME NEW x \in dyn_collected
      PROVE  x.what = What(x.comm, x.call)' /\ RightValue(x.what, x.value, x.from, x.comm)'
  <2>1. x.comm \in 0..Len(operations)
    BY EntryInSet
  <2>2. Root(x.from, x.comm)' <=> Root(x.from, x.comm)
    BY <2>1, SetsStayToo
  <2>3. QED
    BY <1>1, <2>2 DEF RightInv, What, Total, Grows, RightValue, NextIteration, Spread
<1>6. RightInv'
  BY <1>1, <1>5 DEF RightInv
<1>7. QED
  BY <1>4, <1>6

\* ... and of all the roots only that of the new set has not asked yet.
LEMMA RootsToo ==
  ASSUME TypeOK, TypeOK', OperationsInv, PlacesInv, RootInv,
         NEW p \in Process, dyn_pc[p] = "loop", main_pset[p] = Len(operations),
         \A q : Root(q, Len(operations)) => q = p,
         \A k \in 1..Len(operations) : ~operations[k].open,
         NEW operation, Asks(p, operation)
  PROVE  RootInv'
<1>1. /\ Len(operations') = Len(operations) + 1 /\ Len(operations) \in Nat
      /\ \A k \in 1..Len(operations) : operations'[k] = operations[k]
  BY SetsStayToo
<1>2. ASSUME NEW q \in Process, NEW c \in 0..Len(operations'), Root(q, c)', ~Asked(q, c)'
      PROVE  c = Len(operations')
  <2>1. SUFFICES ASSUME c \in 0..Len(operations) PROVE FALSE
    BY <1>1
  <2>2. Root(q, c)
    BY <1>2, <2>1, SetsStayToo
  <2>3. ~Asked(q, c)
    <3>1. CASE q = p
      BY <1>2, <3>1 DEF Asked, Asks
    <3>2. CASE q # p /\ dyn_pc'[q] = dyn_pc[q]
      BY <1>2, <3>2 DEF Asked, Asks
    <3>3. CASE ~Started(q)
      <4>1. dyn_pc[q] = "absent" /\ main_pset[q] = 0
        BY <3>3, AtPlace DEF Fits
      <4>2. QED
        BY <2>1, <4>1 DEF Asked
    <3>4. QED
      BY <3>1, <3>2, <3>3 DEF Asks
  <2>4. c = Len(operations)
    BY <2>1, <2>2, <2>3 DEF RootInv
  <2>5. q = p
    BY <2>2, <2>4
  <2>6. (main_pset[p] = c /\ dyn_pc[p] = "publish")'
    BY <2>4 DEF Asks
  <2>7. QED
    BY <1>2, <2>5, <2>6 DEF Asked
<1>3. ASSUME NEW q \in Process, dyn_pc'[q] = "loop", comm'[q] # 0
      PROVE  ~operations'[comm'[q]].open
  <2>1. q # p /\ dyn_pc[q] = "loop" /\ comm'[q] = comm[q]
    BY <1>3 DEF Asks
  <2>2. comm[q] \in 1..Len(operations)
    BY <1>3, <2>1, AtPlace
  <2>3. QED
    BY <1>1, <2>1, <2>2
<1>4. ASSUME NEW k \in 1..Len(operations'), operations'[k].open PROVE k = Len(operations')
  BY <1>1, <1>4
<1>5. QED
  BY <1>2, <1>3, <1>4 DEF RootInv

LEMMA AsksKeeps ==
  ASSUME DynamicInv, NEW p \in Process, dyn_pc[p] = "loop", iteration[p] < job.num_adaptations,
         get_rank(p, comm[p]) = 0, NEW operation, Asks(p, operation), TypeOK', OperationsInv'
  PROVE  DynamicInv'
<1>1. PlacesInv'
  BY RootAsks, PlacesToo DEF DynamicInv
<1>2. RegisteredInv' /\ RightInv'
  BY RegisteredToo DEF DynamicInv
<1>3. RootInv'
  BY RootAsks, RootsToo DEF DynamicInv
<1>4. QED
  BY <1>1, <1>2, <1>3 DEF DynamicInv

\* How many have been started so far
LEMMA GoneIs ==
  ASSUME TypeOK, OperationsInv, Grows
  PROVE  gone = num_add_proc * Len(operations)
<1> DEFINE n == num_add_proc * Len(operations)
           T == {Spare[i] : i \in 1..n}
           f == [i \in 1..n |-> Spare[i]]
<1>1. Len(operations) \in Nat /\ Spare \in Seq(Process) /\ DOMAIN operations = 1..Len(operations)
  BY JobFacts DEF TypeOK
<1>2. n \in 0..Len(Spare)
  BY <1>1, GrownSet
<1>3. ASSUME NEW k \in 1..Len(operations)
      PROVE  operations[k].delta = {Spare[i] : i \in num_add_proc * (k - 1) + 1..num_add_proc * k}
  <2>1. operations[k].delta = ToSet(SubSeq(Spare, num_add_proc * (k - 1) + 1, num_add_proc * k))
    BY DEF OperationsInv
  <2>2. PICK a \in Nat \ {0} : a = num_add_proc * (k - 1) + 1
    BY <1>1 DEF num_add_proc
  <2>3. PICK b \in 0..Len(Spare) : b = num_add_proc * k
    BY <1>1, <1>2 DEF num_add_proc
  <2>4. ToSet(SubSeq(Spare, a, b)) = {Spare[i] : i \in a..b}
    BY <1>1, PartOf
  <2>5. QED
    BY <2>1, <2>2, <2>3, <2>4
<1>4. UNION {operations[k].delta : k \in DOMAIN operations} = T
  <2>1. ASSUME NEW k \in 1..Len(operations), NEW x \in operations[k].delta PROVE x \in T
    <3>1. PICK i \in num_add_proc * (k - 1) + 1..num_add_proc * k : x = Spare[i]
      BY <1>3
    <3>2. i \in 1..n
      BY <1>1 DEF num_add_proc
    <3>3. QED
      BY <3>1, <3>2
  <2>2. ASSUME NEW i \in 1..n PROVE \E k \in 1..Len(operations) : Spare[i] \in operations[k].delta
    <3>1. PICK k \in 1..Len(operations) : k = (i + 1) \div 2
      BY <1>1 DEF num_add_proc
    <3>2. i \in num_add_proc * (k - 1) + 1..num_add_proc * k
      BY <1>1, <3>1 DEF num_add_proc
    <3>3. QED
      BY <1>3, <3>2
  <2> HIDE DEF n
  <2>3. QED
    BY <1>1, <2>1, <2>2
<1> HIDE DEF n
<1>5. f \in [1..n -> T] /\ \A i \in 1..n : f[i] = Spare[i]
  OBVIOUS
<1>6. \A i, k \in 1..n : f[i] = f[k] => i = k
  <2>1. \A i \in 1..n : i \in 1..Len(Spare)
    BY <1>1, <1>2
  <2>2. \A i, k \in 1..Len(Spare) : Spare[i] = Spare[k] => i = k
    BY JobFacts DEF TypeOK
  <2>3. QED
    BY <1>5, <2>1, <2>2
<1>7. \A x \in T : \E i \in 1..n : f[i] = x
  BY <1>5
<1> HIDE DEF f, T
<1>8. f \in Injection(1..n, T)
  BY <1>5, <1>6 DEF Injection, IsInjective
<1>9. f \in Surjection(1..n, T)
  BY <1>5, <1>7 DEF Surjection
<1>10. IsFiniteSet(1..n) /\ Cardinality(1..n) = n
  BY <1>1, <1>2, FS_Interval
<1>11. IsFiniteSet(T) /\ Cardinality(T) = n
  <2>1. f \in Bijection(1..n, T)
    BY <1>8, <1>9 DEF Bijection
  <2>2. QED
    BY <1>10, <2>1, FS_Bijection DEF ExistsBijection
<1>12. QED
  BY <1>4, <1>11 DEF gone, n

\* The processes that come are those after the ones that have come before, ...
LEMMA Newcomers ==
  ASSUME TypeOK, OperationsInv, Grows, Len(operations) < job.num_adaptations
  PROVE  LET n == Len(operations) IN
         /\ new = SubSeq(Spare, num_add_proc * n + 1, num_add_proc * (n + 1))
         /\ new \in Seq(Process)
         /\ ToSet(new) = {Spare[i] : i \in num_add_proc * n + 1..num_add_proc * (n + 1)}
         /\ num_add_proc * (n + 1) \in 0..Len(Spare)
         /\ \A q \in ToSet(new) : New(q) /\ ~Started(q)
         /\ SetMembers(n) \o new = job.processes \o SubSeq(Spare, 1, num_add_proc * (n + 1))
<1> DEFINE n == Len(operations)
<1>1. /\ n \in Nat /\ Spare \in Seq(Process) /\ job.processes \in Seq(Process)
      /\ job.num_adaptations \in Nat
      /\ job.num_adaptations > 0 => Len(Spare) >= num_add_proc * job.num_adaptations
  BY JobFacts DEF TypeOK
<1>2. /\ num_add_proc * (n + 1) \in 0..Len(Spare) /\ num_add_proc * n \in 0..Len(Spare)
      /\ num_add_proc * n + 1 \in Nat \ {0}
      /\ num_add_proc * n + num_add_proc = num_add_proc * (n + 1)
  BY <1>1 DEF num_add_proc
<1>3. new = SubSeq(Spare, num_add_proc * n + 1, num_add_proc * (n + 1))
  BY <1>2, GoneIs DEF new
<1>4. PICK a \in Nat \ {0} : a = num_add_proc * n + 1
  BY <1>2
<1>5. PICK b \in 0..Len(Spare) : b = num_add_proc * (n + 1)
  BY <1>2
<1>6. new \in Seq(Process) /\ ToSet(new) = {Spare[i] : i \in a..b}
  <2>1. /\ SubSeq(Spare, a, b) \in Seq(Process)
        /\ ToSet(SubSeq(Spare, a, b)) = {Spare[i] : i \in a..b}
    BY <1>1, PartOf
  <2>2. new = SubSeq(Spare, a, b)
    BY <1>3, <1>4, <1>5
  <2>3. QED
    BY <2>1, <2>2
<1>7. PICK l \in 0..Len(Spare) : l = num_add_proc * n /\ a = l + 1 /\ l <= b
  BY <1>1, <1>2, <1>4, <1>5 DEF num_add_proc
<1>8. ASSUME NEW q \in ToSet(new) PROVE New(q) /\ ~Started(q)
  <2>1. PICK i \in a..b : q = Spare[i]
    BY <1>6
  <2>2. i \in 1..Len(Spare)
    BY <1>1, <1>4, <1>5
  <2>3. New(q)
    BY <2>1, <2>2, JobFacts DEF TypeOK
  <2>4. ToSet(SubSeq(Spare, 1, l)) = {Spare[k] : k \in 1..l}
    BY <1>1, PartOf
  <2>5. q \notin ToSet(SubSeq(Spare, 1, l))
    <3>1. \A x, y \in 1..Len(Spare) : Spare[x] = Spare[y] => x = y
      BY JobFacts DEF TypeOK
    <3>2. \A k \in 1..l : k \in 1..Len(Spare) /\ k # i
      BY <1>1, <1>7
    <3>3. QED
      BY <2>1, <2>2, <2>4, <3>1, <3>2
  <2>6. QED
    BY <1>7, <2>3, <2>5 DEF Started
<1>9. SetMembers(n) = job.processes \o SubSeq(Spare, 1, l)
  <2>1. CASE n = 0
    <3>1. SetMembers(n) = job.processes /\ SubSeq(Spare, 1, l) = <<>>
      BY <1>1, <1>7, <2>1 DEF SetMembers, num_add_proc
    <3> DEFINE s == job.processes
    <3>2. s \o <<>> = s
      <4>1. s \in Seq(Process)
        BY <1>1
      <4> HIDE DEF s
      <4>2. QED
        BY <4>1
    <3>3. QED
      BY <3>1, <3>2
  <2>2. CASE n # 0
    <3>1. n \in 1..Len(operations)
      BY <1>1, <2>2
    <3>2. operations[n].main = job.processes \o SubSeq(Spare, 1, num_add_proc * n)
      BY <3>1 DEF OperationsInv
    <3>3. QED
      BY <1>7, <2>2, <3>2 DEF SetMembers
  <2>3. QED
    BY <2>1, <2>2
<1>10. SubSeq(Spare, 1, l) \o SubSeq(Spare, l + 1, b) = SubSeq(Spare, 1, b)
  BY <1>1, <1>7, TwoParts
<1>11. SetMembers(n) \o new = job.processes \o SubSeq(Spare, 1, b)
  <2> DEFINE s == job.processes
             t == SubSeq(Spare, 1, l)
             u == SubSeq(Spare, l + 1, b)
  <2>1. s \in Seq(Process) /\ t \in Seq(Process)
    BY <1>1, PartOf
  <2>2. new = u /\ u \in Seq(Process)
    BY <1>3, <1>4, <1>5, <1>6, <1>7
  <2>3. (s \o t) \o u = s \o (t \o u)
    <3> HIDE DEF s, t, u
    <3> QED BY <2>1
  <2>4. QED
    BY <1>9, <1>10, <2>2, <2>3
<1>12. QED
  BY <1>2, <1>3, <1>4, <1>5, <1>6, <1>8, <1>11

\* ... and the operation that starts them keeps the invariant.
LEMMA ExpansionKeeps ==
  ASSUME DynamicInv, NEW p \in Process, dyn_pc[p] = "loop", iteration[p] < job.num_adaptations,
         get_rank(p, comm[p]) = 0, request_expansion(p), Grows,
         UNCHANGED <<job, main_pset, comm, iteration, data, dyn_collected>>
  PROVE  DynamicInv'
<1> USE DEF DynamicInv
<1>1. PICK n \in Nat : n = Len(operations) /\ main_pset[p] = n /\ n < job.num_adaptations
  BY RootAsks, AtPlace
<1>2. /\ new = SubSeq(Spare, num_add_proc * n + 1, num_add_proc * (n + 1))
      /\ new \in Seq(Process)
      /\ \A q \in ToSet(new) : New(q) /\ ~Started(q)
      /\ SetMembers(n) \o new = job.processes \o SubSeq(Spare, 1, num_add_proc * (n + 1))
      /\ num_add_proc * (n + 1) \in 0..Len(Spare)
      /\ ToSet(new) = {Spare[i] : i \in num_add_proc * n + 1..num_add_proc * (n + 1)}
  BY <1>1, Newcomers
<1> DEFINE o == [op |-> "grow", main |-> SetMembers(n) \o new, delta |-> ToSet(new),
                 published |-> FALSE, open |-> TRUE]
<1>3. o \in Operations
  <2>1. SetMembers(n) \in Seq(Process) /\ n \in 0..Len(operations)
    BY <1>1, SetType
  <2>2. SetMembers(n) \o new \in Seq(Process)
    BY <1>2, <2>1
  <2>3. ToSet(new) \in SUBSET Process
    <3>1. PICK s \in Seq(Process) : s = new
      BY <1>2
    <3>2. ToSet(s) \subseteq Process
      BY DEF ToSet
    <3>3. QED
      BY <3>1, <3>2
  <2>4. QED
    BY <2>2, <2>3 DEF Operations
<1>4. /\ o.op = "grow"
      /\ o.main = job.processes \o SubSeq(Spare, 1, num_add_proc * (n + 1))
      /\ o.delta = ToSet(SubSeq(Spare, num_add_proc * n + 1, num_add_proc * (n + 1)))
  BY <1>2
<1>5. /\ operations' = Append(operations, o)
      /\ dyn_pc' = [q \in Process |->
                  IF q \in ToSet(new) THEN "begin" ELSE IF q = p THEN "publish" ELSE dyn_pc[q]]
  BY <1>1 DEF request_expansion
<1> HIDE DEF o
<1>6. p \notin ToSet(new)
  BY <1>2, AtPlace DEF Fits
<1>7. TypeOK'
  BY <1>3, <1>5 DEF TypeOK, Place
<1>8. /\ operations \in Seq(Operations) /\ Len(operations') = n + 1
      /\ \A k \in 1..n : operations'[k] = operations[k]
      /\ operations'[n + 1] = o
  BY <1>1, <1>3, <1>5 DEF TypeOK
<1>9. ASSUME NEW q \in ToSet(new) PROVE Started(q)'
  <2>1. PICK b \in 0..Len(Spare) : b = num_add_proc * (n + 1)
    BY <1>2
  <2>2. Spare \in Seq(Process)
    BY JobFacts DEF TypeOK
  <2>3. ToSet(SubSeq(Spare, 1, b)) = {Spare[i] : i \in 1..b}
    BY <2>2, PartOf
  <2>4. \A i \in num_add_proc * n + 1..num_add_proc * (n + 1) : i \in 1..b
    BY <1>1, <2>1 DEF num_add_proc
  <2>5. q \in ToSet(SubSeq(Spare, 1, num_add_proc * Len(operations')))
    BY <1>2, <1>8, <2>1, <2>3, <2>4
  <2>6. QED
    BY <2>5 DEF Started, Grows
<1>10. Asks(p, o)
  <2>1. dyn_pc'[p] = "publish"
    BY <1>5, <1>6
  <2>2. ASSUME NEW q \in Process, q # p
        PROVE  \/ dyn_pc'[q] = dyn_pc[q]
               \/ dyn_pc'[q] = "begin" /\ New(q) /\ ~Started(q) /\ Started(q)'
    BY <1>2, <1>5, <1>9, <2>2
  <2>3. QED
    BY <1>5, <2>1, <2>2 DEF Asks
<1>11. OperationsInv'
  <2>1. n + 1 \in Sets' /\ (Grows' <=> Grows) /\ job' = job
    BY <1>1, AtPlace DEF Sets, Grows
  <2>2. ASSUME NEW k \in 1..n + 1
        PROVE  /\ operations'[k].op = "grow"
               /\ operations'[k].main = job.processes \o SubSeq(Spare, 1, num_add_proc * k)
               /\ operations'[k].delta = ToSet(SubSeq(Spare, num_add_proc * (k - 1) + 1, num_add_proc * k))
    <3>1. CASE k \in 1..n
      BY <1>1, <1>8, <3>1 DEF OperationsInv
    <3>2. CASE k = n + 1
      <4>1. k - 1 = n
        BY <1>1, <3>2
      <4>2. QED
        BY <1>4, <1>8, <3>2, <4>1
    <3>3. k \in 1..n \/ k = n + 1
      BY <1>1
    <3>4. QED
      BY <3>1, <3>2, <3>3
  <2>3. QED
    BY <1>8, <2>1, <2>2 DEF OperationsInv
<1>12. QED
  BY <1>7, <1>10, <1>11, AsksKeeps

LEMMA ReductionKeeps ==
  ASSUME DynamicInv, NEW p \in Process, dyn_pc[p] = "loop", iteration[p] < job.num_adaptations,
         get_rank(p, comm[p]) = 0, request_reduction(p), ~Grows,
         UNCHANGED <<job, main_pset, comm, iteration, data, dyn_collected>>
  PROVE  DynamicInv'
<1> USE DEF DynamicInv
<1>1. PICK n \in Nat : n = Len(operations) /\ main_pset[p] = n /\ n < job.num_adaptations
  BY RootAsks, AtPlace
<1>2. PICK leaving \in SUBSET ToSet(SetMembers(n)) :
        /\ operations' = Append(operations,
             [op |-> "shrink", main |-> Without(SetMembers(n), leaving), delta |-> leaving,
              published |-> FALSE, open |-> TRUE])
        /\ dyn_pc' = [dyn_pc EXCEPT ![p] = "publish"]
  BY <1>1 DEF request_reduction, Goto
<1> DEFINE o == [op |-> "shrink", main |-> Without(SetMembers(n), leaving), delta |-> leaving,
                 published |-> FALSE, open |-> TRUE]
<1>3. SetMembers(n) \in Seq(Process) /\ ToSet(SetMembers(n)) \subseteq Process
  <2>1. n \in 0..Len(operations)
    BY <1>1
  <2>2. QED
    BY <2>1, SetType
<1>4. /\ Without(SetMembers(n), leaving) \in Seq(Process)
      /\ ToSet(SetMembers(n)) \ leaving \subseteq ToSet(Without(SetMembers(n), leaving))
  BY <1>3, WithoutKeeps
<1>5. /\ o \in Operations /\ o.op = "shrink"
      /\ ToSet(SetMembers(n)) \ o.delta \subseteq ToSet(o.main)
  <2>1. leaving \in SUBSET Process
    BY <1>3
  <2>2. QED
    BY <1>4, <2>1 DEF Operations
<1>6. operations' = Append(operations, o)
  BY <1>2
<1> HIDE DEF o
<1>7. TypeOK'
  BY <1>2, <1>5, <1>6 DEF TypeOK, Place
<1>8. /\ operations \in Seq(Operations) /\ Len(operations') = n + 1
      /\ \A k \in 1..n : operations'[k] = operations[k]
      /\ operations'[n + 1] = o
  BY <1>1, <1>5, <1>6 DEF TypeOK
<1>9. Asks(p, o)
  BY <1>2, <1>6 DEF Asks, TypeOK
<1>10. OperationsInv'
  <2>1. n + 1 \in Sets' /\ (Grows' <=> Grows) /\ job' = job
    BY <1>1, AtPlace DEF Sets, Grows
  <2>2. ASSUME NEW k \in 1..n + 1
        PROVE  /\ operations'[k].op = "shrink"
               /\ ToSet(SetMembers(k - 1)') \ operations'[k].delta \subseteq ToSet(operations'[k].main)
    <3>1. k - 1 \in 0..n
      BY <1>1
    <3>2. SetMembers(k - 1)' = SetMembers(k - 1)
      BY <1>1, <1>9, <3>1, SetsStayToo
    <3>3. CASE k \in 1..n
      BY <1>1, <1>8, <3>2, <3>3 DEF OperationsInv
    <3>4. CASE k = n + 1
      <4>1. k - 1 = n
        BY <1>1, <3>4
      <4>2. QED
        BY <1>5, <1>8, <3>2, <3>4, <4>1
    <3>5. QED
      BY <1>1, <3>3, <3>4
  <2>3. QED
    BY <1>8, <2>1, <2>2 DEF OperationsInv
<1>11. QED
  BY <1>7, <1>9, <1>10, AsksKeeps

LEMMA RequestKeeps ==
  ASSUME DynamicInv, NEW p \in Process, Request(p)
  PROVE  DynamicInv'
<1>1. /\ dyn_pc[p] = "loop" /\ iteration[p] < job.num_adaptations /\ get_rank(p, comm[p]) = 0
      /\ UNCHANGED <<job, main_pset, comm, iteration, data, dyn_collected>>
      /\ Grows => request_expansion(p)
      /\ ~Grows => request_reduction(p)
  BY DEF Request, InLoop, Grows
<1>2. QED
  BY <1>1, ExpansionKeeps, ReductionKeeps

-----------------------------------------------------------------------------
(***************************************************************************)
(* Every behaviour                                                         *)
(***************************************************************************)

LEMMA DynamicInit == DynInit => DynamicInv
<1> SUFFICES ASSUME DynInit PROVE DynamicInv
  OBVIOUS
<1>1. /\ job \in Jobs /\ operations = <<>> /\ Len(operations) = 0 /\ DOMAIN operations = {}
      /\ dyn_collected = {}
  BY DEF DynInit
<1>2. job.num_adaptations \in Nat
  BY <1>1, JobFacts
<1>3. TypeOK
  BY <1>1 DEF DynInit, TypeOK, Place
<1>4. OperationsInv
  BY <1>1, <1>2 DEF OperationsInv, Sets
<1>5. ASSUME NEW p \in Process
      PROVE  /\ dyn_pc[p] = IF p \in ToSet(job.processes) THEN "begin" ELSE "absent"
             /\ main_pset[p] = 0 /\ comm[p] = 0 /\ iteration[p] = 0
             /\ data[p] = IF New(p) THEN Nothing ELSE 0
  BY DEF DynInit, New
<1>6. PlacesInv
  BY <1>1, <1>5 DEF PlacesInv, PlaceOK, Fits, Started, New, Arriving, Working, Moving
<1>7. \A p \in Process, c \in Sets : entered[p][c] = 0
  BY <1>5, EnteredIs DEF Count
<1>8. RegisteredInv
  BY <1>1, <1>7 DEF RegisteredInv, Registered
<1>9. RightInv
  BY <1>1 DEF RightInv
<1>10. RootInv
  BY <1>1, <1>5 DEF RootInv
<1>11. QED
  BY <1>3, <1>4, <1>6, <1>8, <1>9, <1>10 DEF DynamicInv

LEMMA DynamicNext == DynamicInv /\ [DynNext]_dyn_vars => DynamicInv'
<1> SUFFICES ASSUME DynamicInv, [DynNext]_dyn_vars PROVE DynamicInv'
  OBVIOUS
<1>1. ASSUME NEW p \in Process, DynStep(p) PROVE DynamicInv'
  <2>1. CASE GetMainPset(p)
    BY <2>1, GetMainPsetKeeps
  <2>2. CASE Created(p)
    BY <2>2, CreatedKeeps
  <2>3. CASE Join(p)
    BY <2>3, JoinKeeps
  <2>4. CASE Joined(p)
    BY <2>4, JoinedKeeps
  <2>5. CASE Request(p)
    BY <2>5, RequestKeeps
  <2>6. CASE Publish(p)
    BY <2>6, PublishKeeps
  <2>7. CASE QueryOperation(p)
    BY <2>7, QueryOperationKeeps
  <2>8. CASE LookUp(p)
    BY <2>8, LookUpKeeps
  <2>9. CASE CreatedNext(p)
    BY <2>9, CreatedNextKeeps
  <2>10. CASE Told(p)
    BY <2>10, ToldKeeps
  <2>11. CASE Shuffled(p)
    BY <2>11, ShuffledKeeps
  <2>12. CASE Disconnected(p)
    BY <2>12, DisconnectedKeeps
  <2>13. CASE GivenAway(p)
    BY <2>13, GivenAwayKeeps
  <2>14. CASE LeaveLoop(p)
    BY <2>14, LeaveLoopKeeps
  <2>15. CASE Exit(p)
    BY <2>15, ExitKeeps
  <2>16. QED
    BY <1>1, <2>1, <2>2, <2>3, <2>4, <2>5, <2>6, <2>7, <2>8, <2>9, <2>10, <2>11, <2>12, <2>13,
       <2>14, <2>15 DEF DynStep
<1>2. CASE UNCHANGED dyn_vars
  <2>1. /\ job' = job /\ operations' = operations /\ dyn_pc' = dyn_pc /\ main_pset' = main_pset
        /\ comm' = comm /\ iteration' = iteration /\ data' = data /\ dyn_collected' = dyn_collected
    BY <1>2 DEF dyn_vars
  <2>2. Sets' = Sets /\ entered' = entered
    BY <2>1 DEF Sets, entered, Inside, SetMembers, Count, OnCurrent, OnNext, Total, Settled, Grows
  <2>3. TypeOK'
    BY <2>1 DEF DynamicInv, TypeOK
  <2>4. OperationsInv'
    BY <2>1 DEF DynamicInv, OperationsInv, Sets, Grows, SetMembers
  <2>5. PlacesInv'
    BY <2>1 DEF DynamicInv, PlacesInv, PlaceOK, Fits, Started, New, Inside, SetMembers, Grows
  <2>6. RegisteredInv'
    BY <2>1, <2>2 DEF DynamicInv, RegisteredInv, Registered
  <2>7. RightInv'
    BY <2>1 DEF DynamicInv, RightInv, RightValue, What, Total, Grows, Root, get_rank, SetMembers,
         NextIteration, Spread
  <2>8. RootInv'
    BY <2>1 DEF DynamicInv, RootInv, Asked, Root, get_rank, SetMembers
  <2>9. QED
    BY <2>3, <2>4, <2>5, <2>6, <2>7, <2>8 DEF DynamicInv
<1>3. QED
  BY <1>1, <1>2 DEF DynNext

\* Where a process of dyn_proc_demo is in its program tells which collectives
\* it has entered on each communicator, how many and with what, although the
\* communicators come and go with the processes.
THEOREM DynamicInvariance == DynSpec => []DynamicInv
<1>1. DynInit => DynamicInv
  BY DynamicInit
<1>2. DynamicInv /\ [DynNext]_dyn_vars => DynamicInv'
  BY DynamicNext
<1>3. QED
  BY <1>1, <1>2, PTL DEF DynSpec

\* In dyn_proc_demo the contributions that MPI matches are to the same
\* collective, those to a shuffle are of the same iteration with values that
\* are spread over the same processes, and no set operation is asked for before
\* the last one has been finalized: for all jobs, however often they adapt and
\* whichever processes leave.
THEOREM CollectivesAlwaysMatch == DynSpec => []CollectivesMatch
<1>1. DynamicInv => CollectivesMatch
  <2> SUFFICES ASSUME DynamicInv PROVE CollectivesMatch
    OBVIOUS
  <2>1. ASSUME NEW x \in dyn_collected, NEW y \in dyn_collected, x.comm = y.comm, x.call = y.call
        PROVE  /\ x.what = y.what
               /\ x.what = "shuffle" =>
                    /\ x.value.next = y.value.next
                    /\ x.value.data = y.value.data \/ Nothing \in {x.value.data, y.value.data}
    BY <2>1 DEF DynamicInv, RightInv, RightValue
  <2>2. ASSUME NEW k \in DOMAIN operations, operations[k].open PROVE k = Len(operations)
    <3>1. DOMAIN operations = 1..Len(operations)
      BY DEF DynamicInv, TypeOK
    <3>2. QED
      BY <2>2, <3>1 DEF DynamicInv, RootInv
  <2>3. QED
    BY <2>1, <2>2 DEF CollectivesMatch
<1>2. QED
  BY <1>1, DynamicInvariance, PTL
=============================================================================

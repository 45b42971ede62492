---------------------- MODULE InterCommunicatorProofs ----------------------
(***************************************************************************)
(* That the invariant of InterCommunicatorInvariant.tla holds of every     *)
(* program of constructions, between any communicators, nested or not, on  *)
(* any number of processes, and what follows from it.                      *)
(***************************************************************************)
EXTENDS InterCommunicatorInvariant, FiniteSetTheorems, CommonLemmas

-----------------------------------------------------------------------------
(***************************************************************************)
(* Communicators                                                           *)
(***************************************************************************)

LEMMA PairOfScript ==
  ASSUME NEW sc \in Scripts, NEW k \in 1..Len(sc)
  PROVE  /\ Len(sc) \in Nat
         /\ sc[k].initial \in Comm /\ sc[k].final \in Comm
         /\ InterComm(sc[k]) \in Comm
<1> DEFINE PairRecord == [initial : Comm, final : Comm]
<1>1. sc \in Seq(PairRecord)
  BY PairAssumption
<1>2. sc[k] \in PairRecord /\ Len(sc) \in Nat
  <2> HIDE DEF PairRecord
  <2> QED BY <1>1
<1>3. sc[k].initial \in Comm /\ sc[k].final \in Comm
  BY <1>2
<1>4. QED
  BY <1>2, <1>3 DEF InterComm

LEMMA RankIdType ==
  ASSUME NEW c \in Comm, NEW r \in Rank
  PROVE  /\ RankId[c][r] \in Int
         /\ r \in Members(c) <=> RankId[c][r] # INVALID_RANK_ID
  BY RankAssumption DEF Members, INVALID_RANK_ID

LEMMA RankIdInjective ==
  ASSUME NEW c \in Comm, NEW q \in Members(c), NEW r \in Members(c),
         RankId[c][q] = RankId[c][r]
  PROVE  q = r
  BY RankAssumption

\* What is_sub_comm answers: some member sees the containment exactly when it
\* holds, because the smaller communicator has a member to see it.
LEMMA SomeoneSees ==
  ASSUME NEW c \in Comm, NEW sub \in Comm
  PROVE  (\E q \in Members(c) : Includes(q, c, sub)) <=> Members(sub) \subseteq Members(c)
  BY MemberAssumption DEF Includes

\* The communicators over which a construction runs its collectives.
LEMMA AsksAndGathers ==
  ASSUME NEW s, NEW c
  PROVE  /\ Gathers(s, c) => Asks(s, c)
         /\ Contained(s) => (Gathers(s, c) <=> c = s.initial)
         /\ ~Contained(s) => /\ s.initial # s.final
                             /\ Gathers(s, c) <=> Nested(s) /\ c = s.final
         /\ ~Contained(s) => (Nested(s) <=> Members(s.initial) \subseteq Members(s.final))
  BY DEF Asks, Gathers, Nested, InterComm, Contained

\* The collectives that a process has entered, by where it is.
LEMMA EnteredAt ==
  ASSUME NEW stage, NEW s, NEW c
  PROVE  /\ Entered(stage, s, c) \in Nat
         /\ stage = "call" => Entered(stage, s, c) = 0
         /\ stage = "ask_initial" => /\ c = s.initial => Entered(stage, s, c) = 1
                                     /\ c # s.initial => Entered(stage, s, c) = 0
         /\ stage = "gather_initial" => /\ c = s.initial => Entered(stage, s, c) = 2
                                        /\ c # s.initial => Entered(stage, s, c) = 0
         /\ stage = "ask_final" =>
              /\ c = s.initial \/ c = s.final => Entered(stage, s, c) = 1
              /\ c # s.initial /\ c # s.final => Entered(stage, s, c) = 0
         /\ stage = "gather_final" =>
              /\ c = s.final => Entered(stage, s, c) = 2
              /\ c = s.initial /\ c # s.final => Entered(stage, s, c) = 1
              /\ c # s.initial /\ c # s.final => Entered(stage, s, c) = 0
  BY DEF Entered, HasAsked, HasGathered

-----------------------------------------------------------------------------
(***************************************************************************)
(* Positions of collectives in the order of their communicator             *)
(***************************************************************************)

LEMMA BelowFinite ==
  ASSUME NEW S, NEW k \in Nat \ {0}
  PROVE  /\ IsFiniteSet(S \cap 1..(k-1))
         /\ Below(S, k) \in Nat
<1>1. IsFiniteSet(1..(k-1))
  BY FS_Interval
<1>2. S \cap 1..(k-1) \in SUBSET (1..(k-1))
  OBVIOUS
<1>3. IsFiniteSet(S \cap 1..(k-1)) /\ Cardinality(S \cap 1..(k-1)) \in Nat
  BY <1>1, <1>2, FS_Subset, FS_CardinalityType
<1>4. QED
  BY <1>3 DEF Below

LEMMA BelowNext ==
  ASSUME NEW S, NEW k \in Nat \ {0}
  PROVE  Below(S, k + 1) = Below(S, k) + (IF k \in S THEN 1 ELSE 0)
<1> DEFINE B == S \cap 1..(k-1)
           C == S \cap 1..((k+1)-1)
<1>0. Below(S, k) = Cardinality(B) /\ Below(S, k + 1) = Cardinality(C)
  BY DEF Below
<1>1. IsFiniteSet(B) /\ Cardinality(B) \in Nat
  BY BelowFinite DEF Below
<1>2. 1..((k+1)-1) = 1..(k-1) \cup {k} /\ k \notin 1..(k-1)
  OBVIOUS
<1>3. CASE k \in S
  <2>1. C = B \cup {k} /\ k \notin B
    BY <1>2, <1>3
  <2>2. Cardinality(C) = Cardinality(B) + 1
    <3> HIDE DEF B, C
    <3> QED BY <1>1, <2>1, FS_AddElement
  <2>3. QED
    BY <1>0, <1>3, <2>2
<1>4. CASE k \notin S
  <2>1. C = B
    BY <1>2, <1>4
  <2>2. QED
    BY <1>0, <1>1, <1>4, <2>1
<1>5. QED
  BY <1>3, <1>4

LEMMA BelowMonotone ==
  ASSUME NEW S, NEW j \in Nat \ {0}, NEW k \in Nat \ {0}, j <= k
  PROVE  Below(S, j) <= Below(S, k)
<1>1. \A i \in 1..(j-1) : i \in 1..(k-1)
  OBVIOUS
<1>2. S \cap 1..(j-1) \in SUBSET (S \cap 1..(k-1))
  BY <1>1
<1>3. IsFiniteSet(S \cap 1..(k-1))
  BY BelowFinite
<1>4. QED
  BY <1>2, <1>3, FS_Subset DEF Below

LEMMA BeforeType ==
  ASSUME NEW sc, NEW c, NEW k \in Nat \ {0}
  PROVE  Before(sc, c, k) \in Nat
<1>1. Below(AskRounds(sc, c), k) \in Nat /\ Below(GatherRounds(sc, c), k) \in Nat
  BY BelowFinite
<1>2. QED
  BY <1>1 DEF Before

\* One construction adds its own collectives to those before it.
LEMMA BeforeNext ==
  ASSUME NEW sc, NEW c, NEW k \in Nat \ {0}, k \in 1..Len(sc)
  PROVE  Before(sc, c, k + 1) = Before(sc, c, k) + Total(sc[k], c)
<1>1. Below(AskRounds(sc, c), k + 1)
        = Below(AskRounds(sc, c), k) + (IF Asks(sc[k], c) THEN 1 ELSE 0)
  <2>1. k \in AskRounds(sc, c) <=> Asks(sc[k], c)
    BY DEF AskRounds
  <2>2. QED
    BY <2>1, BelowNext
<1>2. Below(GatherRounds(sc, c), k + 1)
        = Below(GatherRounds(sc, c), k) + (IF Gathers(sc[k], c) THEN 1 ELSE 0)
  <2>1. k \in GatherRounds(sc, c) <=> Gathers(sc[k], c)
    BY DEF GatherRounds
  <2>2. QED
    BY <2>1, BelowNext
<1>3. Below(AskRounds(sc, c), k) \in Nat /\ Below(GatherRounds(sc, c), k) \in Nat
  BY BelowFinite
<1>4. Gathers(sc[k], c) => Asks(sc[k], c)
  BY AsksAndGathers
<1>5. QED
  BY <1>1, <1>2, <1>3, <1>4 DEF Before, Total

LEMMA BeforeMonotone ==
  ASSUME NEW sc, NEW c, NEW j \in Nat \ {0}, NEW k \in Nat \ {0}, j <= k
  PROVE  Before(sc, c, j) <= Before(sc, c, k)
<1>1. /\ Below(AskRounds(sc, c), j) \in Nat /\ Below(GatherRounds(sc, c), j) \in Nat
      /\ Below(AskRounds(sc, c), k) \in Nat /\ Below(GatherRounds(sc, c), k) \in Nat
  BY BelowFinite
<1>2. /\ Below(AskRounds(sc, c), j) <= Below(AskRounds(sc, c), k)
      /\ Below(GatherRounds(sc, c), j) <= Below(GatherRounds(sc, c), k)
  BY BelowMonotone
<1>3. QED
  BY <1>1, <1>2 DEF Before

\* The position of a collective tells which one it is.
LEMMA PositionInjective ==
  ASSUME NEW sc, NEW c, NEW j, NEW k, NEW v, NEW w,
         Runs(sc, c, j, v), Runs(sc, c, k, w),
         Position(sc, c, j, v) = Position(sc, c, k, w)
  PROVE  j = k /\ v = w
<1>1. ASSUME NEW a \in Nat \ {0}, NEW b \in Nat \ {0}, NEW x, NEW y, a < b,
             Runs(sc, c, a, x), Runs(sc, c, b, y)
      PROVE  Position(sc, c, a, x) < Position(sc, c, b, y)
  <2>1. /\ Before(sc, c, a) \in Nat /\ Before(sc, c, b) \in Nat
        /\ Before(sc, c, a + 1) <= Before(sc, c, b)
    BY <1>1, BeforeType, BeforeMonotone
  <2>2. /\ Asks(sc[a], c) /\ x \in {"allreduce", "allgather"}
        /\ x = "allgather" => Gathers(sc[a], c)
    BY <1>1, AsksAndGathers DEF Runs
  <2>3. Position(sc, c, a, x) <= Before(sc, c, a + 1)
    BY <1>1, <2>1, <2>2, BeforeNext DEF Position, Runs, Total
  <2>4. Before(sc, c, b) < Position(sc, c, b, y)
    BY <2>1 DEF Position
  <2>5. Position(sc, c, a, x) \in Nat /\ Position(sc, c, b, y) \in Nat
    BY <2>1 DEF Position
  <2>6. Before(sc, c, a + 1) \in Nat
    BY BeforeType
  <2>7. QED
    BY <2>1, <2>3, <2>4, <2>5, <2>6
<1>2. j \in Nat \ {0} /\ k \in Nat \ {0}
  BY DEF Runs
<1>3. Position(sc, c, j, v) \in Nat
  BY <1>2, BeforeType DEF Position
<1>4. j = k
  <2>1. ~(j < k) /\ ~(k < j)
    BY <1>1, <1>2, <1>3
  <2>2. QED
    BY <1>2, <2>1
<1>5. v = w
  BY <1>2, <1>4, BeforeType DEF Position, Runs
<1>6. QED
  BY <1>4, <1>5

-----------------------------------------------------------------------------
(***************************************************************************)
(* The initial states, and steps in general                                *)
(***************************************************************************)

LEMMA InitInvariant == Init => ConstructionInv
<1> SUFFICES ASSUME Init PROVE ConstructionInv
  OBVIOUS
<1>1. TypeOK
  BY DEF Init, TypeOK, Stage
<1>2. PcInv /\ CollectedInv
  BY DEF Init, PcInv, CollectedInv
<1>3. CallsInv
  <2>1. \A S : Below(S, 1) = 0
    <3>1. \A S : S \cap 1..(1-1) = {}
      OBVIOUS
    <3>2. QED
      BY <3>1, FS_EmptySet DEF Below
  <2>2. \A c : Before(script, c, 1) = 0
    BY <2>1 DEF Before
  <2>3. ASSUME NEW r \in Rank, NEW c \in Comm
        PROVE  calls[r][c] = 0 /\ round[r] = 1 /\ Entered(pc[r], Pair(r), c) = 0
    BY DEF Init, Entered, HasAsked, HasGathered
  <2>4. QED
    BY <2>2, <2>3 DEF CallsInv
<1>4. BuiltInv
  <2>1. Len(script) \in Nat
    BY PairAssumption DEF Init
  <2>2. QED
    BY <2>1 DEF Init, BuiltInv
<1>5. QED
  BY <1>1, <1>2, <1>3, <1>4 DEF ConstructionInv

\* Where a process in a construction is.
LEMMA CurrentPair ==
  ASSUME TypeOK, NEW r \in Rank, round[r] <= Len(script)
  PROVE  /\ round[r] \in Nat \ {0} /\ round[r] \in 1..Len(script)
         /\ Pair(r).initial \in Comm /\ Pair(r).final \in Comm
         /\ InterComm(Pair(r)) \in Comm
<1>1. script \in Scripts /\ round[r] \in Nat \ {0}
  BY DEF TypeOK
<1>2. Len(script) \in Nat
  BY <1>1, PairAssumption
<1>3. round[r] \in 1..Len(script)
  BY <1>1, <1>2
<1>4. QED
  BY <1>1, <1>3, PairOfScript DEF Pair

\* The processes that take no part in a step are where they were.
LEMMA OthersStay ==
  ASSUME TypeOK, NEW r \in Rank, NEW q \in Rank, q # r,
         script' = script, round'[q] = round[q]
  PROVE  Pair(q)' = Pair(q)
  BY DEF Pair

-----------------------------------------------------------------------------
(***************************************************************************)
(* What a collective has collected                                         *)
(***************************************************************************)

\* MPI matches by communicator and number: the contributions to the
\* collective that r is in are all to the collective that r takes it for.
LEMMA Matched ==
  ASSUME TypeOK, CollectedInv, NEW r \in Rank, NEW c \in Comm, NEW what,
         Runs(script, c, round[r], what),
         calls[r][c] = Position(script, c, round[r], what),
         NEW p \in Collected(r, c)
  PROVE  \E q \in Members(c) : p = Contributed(script, q, c, round[r], what)
<1>1. p \in collected /\ p.comm = c /\ p.call = calls[r][c]
  BY DEF Collected
<1>2. PICK d \in Comm, k \in 1..Len(script), v \in {"allreduce", "allgather"} :
         /\ Runs(script, d, k, v)
         /\ \E q \in Members(d) : p = Contributed(script, q, d, k, v)
  BY <1>1 DEF CollectedInv
<1>3. PICK q \in Members(d) : p = Contributed(script, q, d, k, v)
  BY <1>2
<1>4. p.comm = d /\ p.call = Position(script, d, k, v)
  BY <1>3 DEF Contributed
<1>5. k = round[r] /\ v = what
  BY <1>1, <1>2, <1>4, PositionInjective
<1>6. QED
  BY <1>1, <1>3, <1>4, <1>5

\* Once it is complete there is one from every member, and no other.
LEMMA Gathered ==
  ASSUME TypeOK, CollectedInv, NEW r \in Rank, NEW c \in Comm, NEW what,
         Runs(script, c, round[r], what),
         calls[r][c] = Position(script, c, round[r], what),
         Complete(r, c)
  PROVE  Collected(r, c) = {Contributed(script, q, c, round[r], what) : q \in Members(c)}
<1>1. \A p \in Collected(r, c) :
        \E q \in Members(c) : p = Contributed(script, q, c, round[r], what)
  BY Matched
<1>2. ASSUME NEW q \in Members(c)
      PROVE  Contributed(script, q, c, round[r], what) \in Collected(r, c)
  <2>1. PICK p \in Collected(r, c) : p.from = q
    BY DEF Complete
  <2>2. PICK m \in Members(c) : p = Contributed(script, m, c, round[r], what)
    BY <1>1
  <2>3. p.from = m
    BY <2>2 DEF Contributed
  <2>4. QED
    BY <2>1, <2>2, <2>3
<1>3. QED
  BY <1>1, <1>2

\* So a complete MPI_Allreduce answers the question that was asked.
LEMMA ReducedTells ==
  ASSUME TypeOK, CollectedInv, NEW r \in Rank, NEW c \in Comm, NEW sub \in Comm,
         Runs(script, c, round[r], "allreduce"),
         calls[r][c] = Position(script, c, round[r], "allreduce"),
         sub = IF c = Pair(r).initial THEN Pair(r).final ELSE Pair(r).initial,
         Complete(r, c)
  PROVE  Reduced(r, c) <=> Members(sub) \subseteq Members(c)
<1>1. Collected(r, c)
        = {Contributed(script, q, c, round[r], "allreduce") : q \in Members(c)}
  BY Gathered
<1>2. \A q : Contributed(script, q, c, round[r], "allreduce").yes <=> Includes(q, c, sub)
  BY DEF Contributed, Pair
<1>3. Reduced(r, c) <=> \E q \in Members(c) : Includes(q, c, sub)
  BY <1>1, <1>2 DEF Reduced
<1>4. QED
  BY <1>3, SomeoneSees

-----------------------------------------------------------------------------
(***************************************************************************)
(* Steps                                                                   *)
(***************************************************************************)

\* What r puts into its next collective, whose position follows from how many
\* r has entered on that communicator.
LEMMA EnterContributes ==
  ASSUME TypeOK, CallsInv, NEW r \in Rank, NEW c \in Comm, r \in Members(c),
         NEW what, NEW yes,
         Enter(r, c, what, yes),
         Position(script, c, round[r], what)
           = Before(script, c, round[r]) + Entered(pc[r], Pair(r), c) + 1,
         yes = Contributed(script, r, c, round[r], what).yes
  PROVE  /\ calls' = [calls EXCEPT ![r][c] = calls[r][c] + 1]
         /\ collected' = collected \cup {Contributed(script, r, c, round[r], what)}
<1>1. calls[r][c] + 1 = Position(script, c, round[r], what)
  BY DEF CallsInv
<1>2. collected' = collected \cup {Contributed(script, r, c, round[r], what)}
  BY <1>1 DEF Enter, Contributed, Pair
<1>3. QED
  BY <1>2 DEF Enter

\* A step that enters the collective which the construction prescribes next
\* on that communicator keeps every count and every contribution in place.
LEMMA EnterStep ==
  ASSUME ConstructionInv, NEW r \in Rank, NEW c \in Comm, r \in Members(c),
         NEW what, NEW stage \in Stage,
         round[r] <= Len(script),
         Runs(script, c, round[r], what),
         calls' = [calls EXCEPT ![r][c] = calls[r][c] + 1],
         collected' = collected \cup {Contributed(script, r, c, round[r], what)},
         pc' = [pc EXCEPT ![r] = stage],
         UNCHANGED <<script, round, built>>,
         Entered(stage, Pair(r), c) = Entered(pc[r], Pair(r), c) + 1,
         \A d \in Comm : r \in Members(d) /\ d # c =>
            Entered(stage, Pair(r), d) = Entered(pc[r], Pair(r), d)
  PROVE  TypeOK' /\ CallsInv' /\ CollectedInv' /\ BuiltInv'
<1> USE DEF ConstructionInv
<1>0. /\ round[r] \in Nat \ {0} /\ calls[r][c] \in Nat
      /\ calls \in [Rank -> [Comm -> Nat]]
  BY DEF TypeOK
<1>1. TypeOK'
  BY <1>0 DEF TypeOK
<1>2. CallsInv'
  <2> SUFFICES ASSUME NEW q \in Rank, NEW d \in Comm, q \in Members(d)
               PROVE  calls'[q][d] = Before(script, d, round[q]) + Entered(pc'[q], Pair(q)', d)
    BY DEF CallsInv, Members, Before, AskRounds, GatherRounds
  <2>1. calls[q][d] = Before(script, d, round[q]) + Entered(pc[q], Pair(q), d)
    BY DEF CallsInv
  <2>2. CASE q # r
    <3>1. calls'[q][d] = calls[q][d]
      BY <1>0, <2>2
    <3>2. pc'[q] = pc[q] /\ Pair(q)' = Pair(q)
      BY <2>2, OthersStay DEF TypeOK
    <3>3. QED
      BY <2>1, <3>1, <3>2
  <2>3. CASE q = r
    <3>1. calls'[r][d] = IF d = c THEN calls[r][c] + 1 ELSE calls[r][d]
      BY <1>0
    <3>2. Before(script, d, round[r]) \in Nat /\ Entered(pc[r], Pair(r), d) \in Nat
      BY <1>0, BeforeType DEF Entered
    <3>3. pc'[r] = stage /\ Pair(r)' = Pair(r)
      BY DEF TypeOK, Pair
    <3>4. QED
      BY <2>1, <2>3, <3>1, <3>2, <3>3
  <2>4. QED
    BY <2>2, <2>3
<1>3. CollectedInv'
  <2>1. /\ round[r] \in 1..Len(script)
        /\ what \in {"allreduce", "allgather"}
    BY DEF Runs
  <2>2. ASSUME NEW p \in collected'
        PROVE  \E d \in Comm, k \in 1..Len(script'), v \in {"allreduce", "allgather"} :
                 /\ Runs(script', d, k, v)
                 /\ \E q \in Members(d) : p = Contributed(script', q, d, k, v)
    <3>1. CASE p \in collected
      BY <3>1 DEF CollectedInv
    <3>2. CASE p = Contributed(script, r, c, round[r], what)
      BY <2>1, <3>2
    <3>3. QED
      BY <3>1, <3>2
  <2>3. QED
    BY <2>2, Zenon DEF CollectedInv
<1>4. BuiltInv'
  BY DEF BuiltInv
<1>5. QED
  BY <1>1, <1>2, <1>3, <1>4

\* A step that ends a construction, with all its collectives entered and the
\* object that it should give.
LEMMA FinishStep ==
  ASSUME ConstructionInv, NEW r \in Rank, NEW object,
         round[r] <= Len(script),
         Finish(r, object),
         UNCHANGED <<script, calls, collected>>,
         object = Built(Pair(r), r),
         \A c \in Comm : r \in Members(c) =>
            Entered(pc[r], Pair(r), c) = Total(Pair(r), c)
  PROVE  ConstructionInv'
<1> USE DEF ConstructionInv
<1>1. /\ round[r] \in Nat \ {0} /\ round[r] \in 1..Len(script)
      /\ Pair(r).initial \in Comm /\ Pair(r).final \in Comm
      /\ InterComm(Pair(r)) \in Comm
  BY CurrentPair
<1>2. /\ built' = [built EXCEPT ![r] = Append(@, object)]
      /\ round' = [round EXCEPT ![r] = @ + 1]
      /\ pc' = [pc EXCEPT ![r] = "call"]
  BY DEF Finish
<1>3. TypeOK'
  <2>1. object \in Object
    <3>1. ASSUME NEW c \in Comm PROVE RankMap(Pair(r), c) \subseteq Int \X Int
      BY <1>1, RankIdType DEF RankMap, Members
    <3>2. QED
      BY <1>1, <3>1 DEF Built, Empty, Object
  <2>2. built' \in [Rank -> Seq(Object)]
    BY <1>2, <2>1 DEF TypeOK
  <2>3. round' \in [Rank -> Nat \ {0}]
    <3>1. round[r] + 1 \in Nat \ {0}
      BY <1>1
    <3>2. QED
      BY <1>2, <3>1 DEF TypeOK
  <2>4. pc' \in [Rank -> Stage]
    BY <1>2 DEF TypeOK, Stage
  <2>5. QED
    BY <2>2, <2>3, <2>4 DEF TypeOK
<1>4. /\ round'[r] = round[r] + 1 /\ pc'[r] = "call"
      /\ \A q \in Rank : q # r => round'[q] = round[q] /\ pc'[q] = pc[q]
  BY <1>2 DEF TypeOK
<1>5. PcInv'
  <2> SUFFICES ASSUME NEW q \in Rank, pc'[q] # "call"
               PROVE  /\ round'[q] <= Len(script)
                      /\ pc'[q] \in {"ask_initial", "gather_initial"} =>
                            q \in Members(Pair(q).initial)'
                      /\ pc'[q] \in {"ask_final", "gather_final"} =>
                            q \in Members(Pair(q).final)' /\ ~Contained(Pair(q))'
                      /\ pc'[q] = "gather_initial" => Contained(Pair(q))'
                      /\ pc'[q] = "gather_final" => Nested(Pair(q))'
    BY DEF PcInv
  <2>1. q # r /\ round'[q] = round[q] /\ pc'[q] = pc[q]
    BY <1>4
  <2>2. Pair(q)' = Pair(q)
    BY <2>1, OthersStay
  <2>3. /\ Members(Pair(q).initial)' = Members(Pair(q).initial)
        /\ Members(Pair(q).final)' = Members(Pair(q).final)
        /\ Contained(Pair(q))' <=> Contained(Pair(q))
        /\ Nested(Pair(q))' <=> Nested(Pair(q))
    BY <2>2 DEF Members, Contained, Nested
  <2>4. QED
    BY <2>1, <2>3 DEF PcInv
<1>6. CallsInv'
  <2> SUFFICES ASSUME NEW q \in Rank, NEW c \in Comm, q \in Members(c)
               PROVE  calls[q][c] = Before(script, c, round'[q]) + Entered(pc'[q], Pair(q)', c)
    BY DEF CallsInv, Members, Before, AskRounds, GatherRounds
  <2>1. calls[q][c] = Before(script, c, round[q]) + Entered(pc[q], Pair(q), c)
    BY DEF CallsInv
  <2>2. CASE q # r
    BY <1>4, <2>1, <2>2, OthersStay DEF TypeOK
  <2>3. CASE q = r
    <3>0. \A s : Entered("call", s, c) = 0
      BY EnteredAt
    <3>1. Entered(pc'[r], Pair(r)', c) = 0
      BY <1>4, <3>0
    <3>2. Before(script, c, round[r] + 1)
            = Before(script, c, round[r]) + Total(Pair(r), c)
      BY <1>1, BeforeNext DEF Pair
    <3>3. Before(script, c, round[r]) \in Nat
      BY <1>1, BeforeType
    <3>4. Total(Pair(r), c) \in Nat
      BY DEF Total
    <3>5. QED
      BY <1>4, <2>1, <2>3, <3>1, <3>2, <3>3, <3>4
  <2>4. QED
    BY <2>2, <2>3
<1>7. CollectedInv'
  BY DEF CollectedInv
<1>8. BuiltInv'
  <2>1. /\ built[r] \in Seq(Object) /\ Len(built[r]) = round[r] - 1
        /\ built'[r] = Append(built[r], object)
        /\ \A q \in Rank : q # r => built'[q] = built[q]
    BY <1>2 DEF TypeOK, BuiltInv
  <2>2. /\ Len(built'[r]) = round'[r] - 1
        /\ \A k \in 1..Len(built'[r]) :
              IF k = round[r] THEN built'[r][k] = object
              ELSE k \in 1..Len(built[r]) /\ built'[r][k] = built[r][k]
    BY <1>1, <1>4, <2>1
  <2>3. \A k \in 1..Len(built'[r]) : built'[r][k] = Built(script[k], r)
    BY <2>2 DEF BuiltInv, Pair
  <2>4. round'[r] <= Len(script) + 1
    BY <1>1, <1>4
  <2>5. ASSUME NEW q \in Rank, q # r
        PROVE  /\ Len(built'[q]) = round'[q] - 1
               /\ round'[q] <= Len(script) + 1
               /\ \A k \in 1..Len(built'[q]) : built'[q][k] = Built(script[k], q)
    BY <1>4, <2>1, <2>5 DEF BuiltInv
  <2>6. QED
    BY <2>2, <2>3, <2>4, <2>5 DEF BuiltInv
<1>9. QED
  BY <1>3, <1>5, <1>6, <1>7, <1>8

\* A step that leads r to another stage of its construction, and what r has to
\* know there.
LEMMA PcStep ==
  ASSUME TypeOK, PcInv, NEW r \in Rank, NEW stage \in Stage,
         round[r] <= Len(script),
         pc' = [pc EXCEPT ![r] = stage],
         UNCHANGED <<script, round>>,
         stage \in {"ask_initial", "gather_initial"} => r \in Members(Pair(r).initial),
         stage \in {"ask_final", "gather_final"} =>
            r \in Members(Pair(r).final) /\ ~Contained(Pair(r)),
         stage = "gather_initial" => Contained(Pair(r)),
         stage = "gather_final" => Nested(Pair(r))
  PROVE  PcInv'
<1> SUFFICES ASSUME NEW q \in Rank
             PROVE  /\ pc'[q] # "call" => round'[q] <= Len(script')
                    /\ pc'[q] \in {"ask_initial", "gather_initial"} =>
                          q \in Members(Pair(q).initial)'
                    /\ pc'[q] \in {"ask_final", "gather_final"} =>
                          q \in Members(Pair(q).final)' /\ ~Contained(Pair(q))'
                    /\ pc'[q] = "gather_initial" => Contained(Pair(q))'
                    /\ pc'[q] = "gather_final" => Nested(Pair(q))'
  BY DEF PcInv
<1>1. Pair(q)' = Pair(q)
  BY DEF Pair
<1>2. /\ Members(Pair(q).initial)' = Members(Pair(q).initial)
      /\ Members(Pair(q).final)' = Members(Pair(q).final)
      /\ Contained(Pair(q))' <=> Contained(Pair(q))
      /\ Nested(Pair(q))' <=> Nested(Pair(q))
  BY <1>1 DEF Members, Contained, Nested
<1>3. CASE q = r
  <2>1. pc'[r] = stage
    BY DEF TypeOK
  <2>2. QED
    BY <1>2, <1>3, <2>1
<1>4. CASE q # r
  <2>1. pc'[q] = pc[q]
    BY <1>4 DEF TypeOK
  <2>2. QED
    BY <1>2, <2>1 DEF PcInv
<1>5. QED
  BY <1>3, <1>4

LEMMA OutsideStep ==
  ASSUME ConstructionInv, NEW r \in Rank, Outside(r)
  PROVE  ConstructionInv'
<1>1. /\ round[r] <= Len(script) /\ pc[r] = "call"
      /\ Finish(r, Empty(NULL)) /\ UNCHANGED <<script, calls, collected>>
      /\ r \notin Members(Pair(r).initial) \cup Members(Pair(r).final)
  BY DEF Outside, Calls
<1>2. Empty(NULL) = Built(Pair(r), r)
  BY <1>1 DEF Built
<1>3. ASSUME NEW c \in Comm, r \in Members(c)
      PROVE  Entered(pc[r], Pair(r), c) = Total(Pair(r), c)
  <2>1. c # Pair(r).initial /\ c # Pair(r).final
    BY <1>1, <1>3
  <2>2. QED
    BY <1>1, <2>1, EnteredAt, AsksAndGathers DEF Asks, Total
<1>4. QED
  BY <1>1, <1>2, <1>3, FinishStep

LEMMA AskInitialStep ==
  ASSUME ConstructionInv, NEW r \in Rank, AskInitial(r)
  PROVE  ConstructionInv'
<1> DEFINE c == Pair(r).initial
<1>0. TypeOK /\ PcInv /\ CallsInv
  BY DEF ConstructionInv
<1>1. /\ round[r] <= Len(script) /\ pc[r] = "call" /\ r \in Members(c)
      /\ pc' = [pc EXCEPT ![r] = "ask_initial"]
      /\ UNCHANGED <<script, round, built>>
  BY DEF AskInitial, Calls
<1>2. /\ c \in Comm /\ round[r] \in Nat \ {0} /\ round[r] \in 1..Len(script)
      /\ "ask_initial" \in Stage
  BY <1>0, <1>1, CurrentPair DEF Stage
<1>3. Runs(script, c, round[r], "allreduce")
  BY <1>2 DEF Runs, Asks, Pair
<1>4. /\ Entered(pc[r], Pair(r), c) = 0
      /\ Entered("ask_initial", Pair(r), c) = 1
      /\ \A d \in Comm : r \in Members(d) /\ d # c =>
           Entered("ask_initial", Pair(r), d) = Entered(pc[r], Pair(r), d)
  <2>1. Entered("call", Pair(r), c) = 0 /\ Entered("ask_initial", Pair(r), c) = 1
    BY EnteredAt
  <2>2. \A d : d # c => /\ Entered("call", Pair(r), d) = 0
                        /\ Entered("ask_initial", Pair(r), d) = 0
    BY EnteredAt
  <2>3. QED
    BY <1>1, <2>1, <2>2
<1>5. /\ Position(script, c, round[r], "allreduce")
           = Before(script, c, round[r]) + Entered(pc[r], Pair(r), c) + 1
      /\ Entered("ask_initial", Pair(r), c) = Entered(pc[r], Pair(r), c) + 1
  <2>1. Before(script, c, round[r]) \in Nat
    BY <1>2, BeforeType
  <2>2. Position(script, c, round[r], "allreduce") = Before(script, c, round[r]) + 1
    BY DEF Position
  <2>3. Position(script, c, round[r], "allreduce")
           = Before(script, c, round[r]) + Entered(pc[r], Pair(r), c) + 1
    BY <1>4, <2>1, <2>2
  <2>4. Entered("ask_initial", Pair(r), c) = Entered(pc[r], Pair(r), c) + 1
    BY <1>4
  <2>5. QED
    BY <2>3, <2>4
<1>6. /\ calls' = [calls EXCEPT ![r][c] = calls[r][c] + 1]
      /\ collected' = collected \cup {Contributed(script, r, c, round[r], "allreduce")}
  <2>1. Enter(r, c, "allreduce", Includes(r, c, Pair(r).final))
    BY DEF AskInitial
  <2>2. Includes(r, c, Pair(r).final) = Contributed(script, r, c, round[r], "allreduce").yes
    BY DEF Contributed, Pair, Includes
  <2> HIDE DEF c
  <2>3. QED
    BY <1>0, <1>1, <1>2, <1>5, <2>1, <2>2, EnterContributes
<1>7. TypeOK' /\ CallsInv' /\ CollectedInv' /\ BuiltInv'
  <2> HIDE DEF c
  <2> QED BY <1>1, <1>2, <1>3, <1>4, <1>5, <1>6, EnterStep
<1>8. PcInv'
  BY <1>0, <1>1, PcStep DEF Stage
<1>9. QED
  BY <1>7, <1>8 DEF ConstructionInv

\* The same on a process outside of comm1, which comm2 cannot be inside of.
LEMMA AskFinalStep ==
  ASSUME ConstructionInv, NEW r \in Rank, AskFinal(r)
  PROVE  ConstructionInv'
<1> DEFINE c == Pair(r).final
<1>0. TypeOK /\ PcInv /\ CallsInv
  BY DEF ConstructionInv
<1>1. /\ round[r] <= Len(script) /\ pc[r] = "call"
      /\ r \in Members(c) /\ r \notin Members(Pair(r).initial)
      /\ pc' = [pc EXCEPT ![r] = "ask_final"]
      /\ UNCHANGED <<script, round, built>>
  BY DEF AskFinal, Calls
<1>2. /\ c \in Comm /\ round[r] \in Nat \ {0} /\ round[r] \in 1..Len(script)
      /\ "ask_final" \in Stage
  BY <1>0, <1>1, CurrentPair DEF Stage
<1>3. ~Contained(Pair(r)) /\ c # Pair(r).initial
  BY <1>1 DEF Contained
<1>4. Runs(script, c, round[r], "allreduce")
  BY <1>2, <1>3 DEF Runs, Asks, Pair
<1>5. /\ Entered(pc[r], Pair(r), c) = 0
      /\ Entered("ask_final", Pair(r), c) = 1
      /\ \A d \in Comm : r \in Members(d) /\ d # c =>
           Entered("ask_final", Pair(r), d) = Entered(pc[r], Pair(r), d)
  BY <1>1, EnteredAt
<1>6. Position(script, c, round[r], "allreduce")
        = Before(script, c, round[r]) + Entered(pc[r], Pair(r), c) + 1
  BY <1>2, <1>5, BeforeType DEF Position
<1>7. /\ calls' = [calls EXCEPT ![r][c] = calls[r][c] + 1]
      /\ collected' = collected \cup {Contributed(script, r, c, round[r], "allreduce")}
  <2>1. Enter(r, c, "allreduce", Includes(r, c, Pair(r).initial))
    BY DEF AskFinal
  <2>2. Includes(r, c, Pair(r).initial)
          = Contributed(script, r, c, round[r], "allreduce").yes
    BY <1>3 DEF Contributed, Pair, Includes
  <2> HIDE DEF c
  <2>3. QED
    BY <1>0, <1>1, <1>2, <1>6, <2>1, <2>2, EnterContributes
<1>8. TypeOK' /\ CallsInv' /\ CollectedInv' /\ BuiltInv'
  <2>1. Entered("ask_final", Pair(r), c) = Entered(pc[r], Pair(r), c) + 1
    BY <1>5
  <2> HIDE DEF c
  <2>2. QED
    BY <1>1, <1>2, <1>4, <1>5, <1>7, <2>1, EnterStep
<1>9. PcInv'
  BY <1>0, <1>1, <1>3, PcStep DEF Stage
<1>10. QED
  BY <1>8, <1>9 DEF ConstructionInv

\* What comm1 has answered when its MPI_Allreduce returns
LEMMA InitialAnswered ==
  ASSUME ConstructionInv, NEW r \in Rank, pc[r] = "ask_initial",
         Complete(r, Pair(r).initial)
  PROVE  Reduced(r, Pair(r).initial) <=> Contained(Pair(r))
<1> DEFINE c == Pair(r).initial
<1>1. /\ TypeOK /\ CollectedInv /\ round[r] <= Len(script) /\ r \in Members(c)
  BY DEF ConstructionInv, PcInv
<1>2. /\ c \in Comm /\ Pair(r).final \in Comm
      /\ round[r] \in Nat \ {0} /\ round[r] \in 1..Len(script)
  BY <1>1, CurrentPair
<1>3. Runs(script, c, round[r], "allreduce")
  BY <1>2 DEF Runs, Asks, Pair
<1>4. calls[r][c] = Position(script, c, round[r], "allreduce")
  <2>1. Entered(pc[r], Pair(r), c) = 1
    BY EnteredAt
  <2>2. QED
    BY <1>1, <1>2, <2>1 DEF ConstructionInv, CallsInv, Position
<1>5. Reduced(r, c) <=> Members(Pair(r).final) \subseteq Members(c)
  <2> HIDE DEF c
  <2>1. Pair(r).final = IF c = Pair(r).initial THEN Pair(r).final ELSE Pair(r).initial
    BY DEF c
  <2>2. Complete(r, c)
    BY DEF c
  <2>3. QED
    BY <1>1, <1>2, <1>3, <1>4, <2>1, <2>2, ReducedTells
<1>6. QED
  BY <1>5 DEF Contained

\* And comm2, asked because comm1 does not contain it
LEMMA FinalAnswered ==
  ASSUME ConstructionInv, NEW r \in Rank, pc[r] = "ask_final",
         Complete(r, Pair(r).final)
  PROVE  Reduced(r, Pair(r).final) <=> Nested(Pair(r))
<1> DEFINE c == Pair(r).final
<1>1. /\ TypeOK /\ CollectedInv /\ round[r] <= Len(script) /\ r \in Members(c)
      /\ ~Contained(Pair(r))
  BY DEF ConstructionInv, PcInv
<1>2. /\ c \in Comm /\ Pair(r).initial \in Comm /\ c # Pair(r).initial
      /\ round[r] \in Nat \ {0} /\ round[r] \in 1..Len(script)
  BY <1>1, CurrentPair, AsksAndGathers
<1>3. Runs(script, c, round[r], "allreduce")
  BY <1>1, <1>2 DEF Runs, Asks, Pair
<1>4. calls[r][c] = Position(script, c, round[r], "allreduce")
  <2>1. Entered(pc[r], Pair(r), c) = 1
    BY EnteredAt
  <2>2. QED
    BY <1>1, <1>2, <2>1 DEF ConstructionInv, CallsInv, Position
<1>5. Reduced(r, c) <=> Members(Pair(r).initial) \subseteq Members(c)
  <2>1. Pair(r).initial = IF c = Pair(r).initial THEN Pair(r).final ELSE Pair(r).initial
    BY <1>2
  <2> HIDE DEF c
  <2>2. Complete(r, c)
    BY DEF c
  <2>3. QED
    BY <1>1, <1>2, <1>3, <1>4, <2>1, <2>2, ReducedTells
<1>6. QED
  BY <1>1, <1>5, AsksAndGathers

\* comm1 contains comm2, and comm1 gathers the ranks
LEMMA TakeInitialStep ==
  ASSUME ConstructionInv, NEW r \in Rank, TakeInitial(r)
  PROVE  ConstructionInv'
<1> DEFINE c == Pair(r).initial
<1>0. TypeOK /\ PcInv /\ CallsInv
  BY DEF ConstructionInv
<1>1. /\ round[r] <= Len(script) /\ pc[r] = "ask_initial" /\ r \in Members(c)
      /\ pc' = [pc EXCEPT ![r] = "gather_initial"]
      /\ UNCHANGED <<script, round, built>>
  BY <1>0 DEF TakeInitial, PcInv
<1>2. /\ c \in Comm /\ round[r] \in Nat \ {0} /\ round[r] \in 1..Len(script)
      /\ "gather_initial" \in Stage
  BY <1>0, <1>1, CurrentPair DEF Stage
<1>3. Contained(Pair(r)) /\ Gathers(Pair(r), c)
  BY InitialAnswered, AsksAndGathers DEF TakeInitial
<1>4. Runs(script, c, round[r], "allgather")
  BY <1>2, <1>3 DEF Runs, Pair
<1>5. /\ Entered(pc[r], Pair(r), c) = 1
      /\ Entered("gather_initial", Pair(r), c) = 2
      /\ \A d \in Comm : r \in Members(d) /\ d # c =>
           Entered("gather_initial", Pair(r), d) = Entered(pc[r], Pair(r), d)
  <2>1. Entered("ask_initial", Pair(r), c) = 1 /\ Entered("gather_initial", Pair(r), c) = 2
    BY EnteredAt
  <2>2. \A d : d # c => /\ Entered("ask_initial", Pair(r), d) = 0
                        /\ Entered("gather_initial", Pair(r), d) = 0
    BY EnteredAt
  <2>3. QED
    BY <1>1, <2>1, <2>2
<1>6. Position(script, c, round[r], "allgather")
        = Before(script, c, round[r]) + Entered(pc[r], Pair(r), c) + 1
  <2>1. Before(script, c, round[r]) \in Nat
    BY <1>2, BeforeType
  <2>2. Position(script, c, round[r], "allgather") = Before(script, c, round[r]) + 2
    BY DEF Position
  <2>3. QED
    BY <1>5, <2>1, <2>2
<1>7. /\ calls' = [calls EXCEPT ![r][c] = calls[r][c] + 1]
      /\ collected' = collected \cup {Contributed(script, r, c, round[r], "allgather")}
  <2>1. Enter(r, c, "allgather", FALSE)
    BY DEF TakeInitial
  <2>2. FALSE = Contributed(script, r, c, round[r], "allgather").yes
    BY DEF Contributed
  <2> HIDE DEF c
  <2>3. QED
    BY <1>0, <1>1, <1>2, <1>6, <2>1, <2>2, EnterContributes
<1>8. TypeOK' /\ CallsInv' /\ CollectedInv' /\ BuiltInv'
  <2>1. Entered("gather_initial", Pair(r), c) = Entered(pc[r], Pair(r), c) + 1
    BY <1>5
  <2> HIDE DEF c
  <2>2. QED
    BY <1>1, <1>2, <1>4, <1>5, <1>7, <2>1, EnterStep
<1>9. PcInv'
  BY <1>0, <1>1, <1>3, PcStep DEF Stage
<1>10. QED
  BY <1>8, <1>9 DEF ConstructionInv

\* comm1 does not contain comm2, and a process in both asks comm2
LEMMA AskNextStep ==
  ASSUME ConstructionInv, NEW r \in Rank, AskNext(r)
  PROVE  ConstructionInv'
<1> DEFINE c == Pair(r).final
<1>0. TypeOK /\ PcInv /\ CallsInv
  BY DEF ConstructionInv
<1>1. /\ round[r] <= Len(script) /\ pc[r] = "ask_initial" /\ r \in Members(c)
      /\ pc' = [pc EXCEPT ![r] = "ask_final"]
      /\ UNCHANGED <<script, round, built>>
  BY <1>0 DEF AskNext, PcInv
<1>2. /\ c \in Comm /\ round[r] \in Nat \ {0} /\ round[r] \in 1..Len(script)
      /\ "ask_final" \in Stage
  BY <1>0, <1>1, CurrentPair DEF Stage
<1>3. ~Contained(Pair(r)) /\ c # Pair(r).initial
  BY InitialAnswered, AsksAndGathers DEF AskNext
<1>4. Runs(script, c, round[r], "allreduce")
  BY <1>2, <1>3 DEF Runs, Asks, Pair
<1>5. /\ Entered(pc[r], Pair(r), c) = 0
      /\ Entered("ask_final", Pair(r), c) = 1
      /\ \A d \in Comm : r \in Members(d) /\ d # c =>
           Entered("ask_final", Pair(r), d) = Entered(pc[r], Pair(r), d)
  <2>1. Entered("ask_initial", Pair(r), c) = 0 /\ Entered("ask_final", Pair(r), c) = 1
    BY <1>3, EnteredAt
  <2>2. \A d : d # c => Entered("ask_final", Pair(r), d) = Entered("ask_initial", Pair(r), d)
    <3> TAKE d
    <3> HAVE d # c
    <3>1. CASE d = Pair(r).initial
      BY <3>1, EnteredAt
    <3>2. CASE d # Pair(r).initial
      BY <3>2, EnteredAt
    <3>3. QED
      BY <3>1, <3>2
  <2>3. QED
    BY <1>1, <2>1, <2>2
<1>6. Position(script, c, round[r], "allreduce")
        = Before(script, c, round[r]) + Entered(pc[r], Pair(r), c) + 1
  <2>1. Before(script, c, round[r]) \in Nat
    BY <1>2, BeforeType
  <2>2. Position(script, c, round[r], "allreduce") = Before(script, c, round[r]) + 1
    BY DEF Position
  <2>3. QED
    BY <1>5, <2>1, <2>2
<1>7. /\ calls' = [calls EXCEPT ![r][c] = calls[r][c] + 1]
      /\ collected' = collected \cup {Contributed(script, r, c, round[r], "allreduce")}
  <2>1. Enter(r, c, "allreduce", Includes(r, c, Pair(r).initial))
    BY DEF AskNext
  <2>2. Includes(r, c, Pair(r).initial)
          = Contributed(script, r, c, round[r], "allreduce").yes
    BY <1>3 DEF Contributed, Pair, Includes
  <2> HIDE DEF c
  <2>3. QED
    BY <1>0, <1>1, <1>2, <1>6, <2>1, <2>2, EnterContributes
<1>8. TypeOK' /\ CallsInv' /\ CollectedInv' /\ BuiltInv'
  <2>1. Entered("ask_final", Pair(r), c) = Entered(pc[r], Pair(r), c) + 1
    BY <1>5
  <2> HIDE DEF c
  <2>2. QED
    BY <1>1, <1>2, <1>4, <1>5, <1>7, <2>1, EnterStep
<1>9. PcInv'
  BY <1>0, <1>1, <1>3, PcStep DEF Stage
<1>10. QED
  BY <1>8, <1>9 DEF ConstructionInv

\* comm2 contains comm1, and comm2 gathers the ranks
LEMMA TakeFinalStep ==
  ASSUME ConstructionInv, NEW r \in Rank, TakeFinal(r)
  PROVE  ConstructionInv'
<1> DEFINE c == Pair(r).final
<1>0. TypeOK /\ PcInv /\ CallsInv
  BY DEF ConstructionInv
<1>1. /\ round[r] <= Len(script) /\ pc[r] = "ask_final" /\ r \in Members(c)
      /\ pc' = [pc EXCEPT ![r] = "gather_final"]
      /\ UNCHANGED <<script, round, built>>
      /\ ~Contained(Pair(r))
  BY <1>0 DEF TakeFinal, PcInv
<1>2. /\ c \in Comm /\ round[r] \in Nat \ {0} /\ round[r] \in 1..Len(script)
      /\ "gather_final" \in Stage
  BY <1>0, <1>1, CurrentPair DEF Stage
<1>3. Nested(Pair(r)) /\ Gathers(Pair(r), c) /\ c # Pair(r).initial
  BY <1>1, FinalAnswered, AsksAndGathers DEF TakeFinal
<1>4. Runs(script, c, round[r], "allgather")
  BY <1>2, <1>3 DEF Runs, Pair
<1>5. /\ Entered(pc[r], Pair(r), c) = 1
      /\ Entered("gather_final", Pair(r), c) = 2
      /\ \A d \in Comm : r \in Members(d) /\ d # c =>
           Entered("gather_final", Pair(r), d) = Entered(pc[r], Pair(r), d)
  <2>1. Entered("ask_final", Pair(r), c) = 1 /\ Entered("gather_final", Pair(r), c) = 2
    BY EnteredAt
  <2>2. \A d : d # c => Entered("gather_final", Pair(r), d) = Entered("ask_final", Pair(r), d)
    <3> TAKE d
    <3> HAVE d # c
    <3>1. CASE d = Pair(r).initial
      BY <3>1, EnteredAt
    <3>2. CASE d # Pair(r).initial
      BY <3>2, EnteredAt
    <3>3. QED
      BY <3>1, <3>2
  <2>3. QED
    BY <1>1, <2>1, <2>2
<1>6. Position(script, c, round[r], "allgather")
        = Before(script, c, round[r]) + Entered(pc[r], Pair(r), c) + 1
  <2>1. Before(script, c, round[r]) \in Nat
    BY <1>2, BeforeType
  <2>2. Position(script, c, round[r], "allgather") = Before(script, c, round[r]) + 2
    BY DEF Position
  <2>3. QED
    BY <1>5, <2>1, <2>2
<1>7. /\ calls' = [calls EXCEPT ![r][c] = calls[r][c] + 1]
      /\ collected' = collected \cup {Contributed(script, r, c, round[r], "allgather")}
  <2>1. Enter(r, c, "allgather", FALSE)
    BY DEF TakeFinal
  <2>2. FALSE = Contributed(script, r, c, round[r], "allgather").yes
    BY DEF Contributed
  <2> HIDE DEF c
  <2>3. QED
    BY <1>0, <1>1, <1>2, <1>6, <2>1, <2>2, EnterContributes
<1>8. TypeOK' /\ CallsInv' /\ CollectedInv' /\ BuiltInv'
  <2>1. Entered("gather_final", Pair(r), c) = Entered(pc[r], Pair(r), c) + 1
    BY <1>5
  <2> HIDE DEF c
  <2>2. QED
    BY <1>1, <1>2, <1>4, <1>5, <1>7, <2>1, EnterStep
<1>9. PcInv'
  BY <1>0, <1>1, <1>3, PcStep DEF Stage
<1>10. QED
  BY <1>8, <1>9 DEF ConstructionInv

\* Neither contains the other: r has entered all the collectives that the
\* construction has for it when it throws.
LEMMA ThrowStep ==
  ASSUME ConstructionInv, NEW r \in Rank, Throw(r)
  PROVE  ConstructionInv'
<1>0. TypeOK /\ PcInv
  BY DEF ConstructionInv
<1>1. /\ pc[r] \in {"ask_initial", "ask_final"} /\ round[r] <= Len(script)
      /\ Finish(r, Empty(THROW)) /\ UNCHANGED <<script, calls, collected>>
      /\ r \in Members(Pair(r).initial) \cup Members(Pair(r).final)
  BY <1>0 DEF Throw, PcInv
<1>2. ~Contained(Pair(r)) /\ ~Nested(Pair(r))
  <2>1. CASE pc[r] = "ask_initial"
    <3>1. /\ ~Contained(Pair(r))
          /\ r \notin Members(Pair(r).final) /\ r \in Members(Pair(r).initial)
      BY <1>0, <2>1, InitialAnswered DEF Throw, PcInv
    <3>2. QED
      BY <3>1, AsksAndGathers
  <2>2. CASE pc[r] = "ask_final"
    BY <1>0, <2>2, FinalAnswered DEF Throw, PcInv
  <2>3. QED
    BY <1>1, <2>1, <2>2
<1>3. Empty(THROW) = Built(Pair(r), r)
  BY <1>1, <1>2 DEF Built
<1>4. ASSUME NEW c \in Comm, r \in Members(c)
      PROVE  Entered(pc[r], Pair(r), c) = Total(Pair(r), c)
  <2>1. /\ Total(Pair(r), c) = 1 <=> c = Pair(r).initial \/ c = Pair(r).final
        /\ Total(Pair(r), c) \in {0, 1}
    BY <1>2 DEF Total, Gathers, Asks
  <2>2. CASE pc[r] = "ask_initial"
    <3>1. c # Pair(r).final
      BY <1>4, <2>2 DEF Throw
    <3>2. Entered(pc[r], Pair(r), c) = IF c = Pair(r).initial THEN 1 ELSE 0
      BY <2>2, EnteredAt
    <3>3. QED
      BY <2>1, <3>1, <3>2
  <2>3. CASE pc[r] = "ask_final"
    <3>1. Entered(pc[r], Pair(r), c)
            = IF c = Pair(r).initial \/ c = Pair(r).final THEN 1 ELSE 0
      BY <2>3, EnteredAt
    <3>2. QED
      BY <2>1, <3>1
  <2>4. QED
    BY <1>1, <2>2, <2>3
<1>5. QED
  BY <1>1, <1>3, <1>4, FinishStep

\* The maps that a process fills from a complete MPI_Allgather
LEMMA GatheredMaps ==
  ASSUME ConstructionInv, NEW r \in Rank, NEW c \in Comm, r \in Members(c),
         round[r] <= Len(script),
         Gathers(Pair(r), c), Entered(pc[r], Pair(r), c) = 2,
         Complete(r, c)
  PROVE  /\ InitialMap(Collected(r, c)) = RankMap(Pair(r), Pair(r).initial)
         /\ FinalMap(Collected(r, c)) = RankMap(Pair(r), Pair(r).final)
<1> DEFINE s == Pair(r)
           info(q) == Contributed(script, q, c, round[r], "allgather")
<1>1. /\ TypeOK /\ CollectedInv /\ c = InterComm(s)
      /\ s.initial \in Comm /\ s.final \in Comm
      /\ round[r] \in Nat \ {0} /\ round[r] \in 1..Len(script)
  BY CurrentPair DEF ConstructionInv, Gathers
<1>2. Runs(script, c, round[r], "allgather")
  BY <1>1 DEF Runs, Pair
<1>3. calls[r][c] = Position(script, c, round[r], "allgather")
  <2>1. calls[r][c] = Before(script, c, round[r]) + 2
    BY DEF ConstructionInv, CallsInv
  <2>2. QED
    BY <2>1 DEF Position
<1>4. Collected(r, c) = {info(q) : q \in Members(c)}
  <2>1. TypeOK /\ CollectedInv
    BY <1>1
  <2>2. QED
    BY <1>2, <1>3, <2>1, Gathered, Zenon
<1>5. \A q : /\ info(q).inter = RankId[c][q]
             /\ info(q).initial = RankId[s.initial][q]
             /\ info(q).final = RankId[s.final][q]
  BY DEF Contributed, Pair
<1>6. ASSUME NEW d \in Comm
      PROVE  {<<RankId[c][q], RankId[d][q]>> :
                q \in {m \in Members(c) : RankId[d][m] # INVALID_RANK_ID}}
               = RankMap(s, d)
  <2>1. {m \in Members(c) : RankId[d][m] # INVALID_RANK_ID} = Members(c) \cap Members(d)
    BY DEF Members
  <2>2. QED
    BY <1>1, <2>1 DEF RankMap
<1>7. InitialMap(Collected(r, c))
        = {<<RankId[c][q], RankId[s.initial][q]>> :
             q \in {m \in Members(c) : RankId[s.initial][m] # INVALID_RANK_ID}}
  <2> HIDE DEF info, s
  <2> QED BY <1>4, <1>5 DEF InitialMap
<1>8. FinalMap(Collected(r, c))
        = {<<RankId[c][q], RankId[s.final][q]>> :
             q \in {m \in Members(c) : RankId[s.final][m] # INVALID_RANK_ID}}
  <2> HIDE DEF info, s
  <2> QED BY <1>4, <1>5 DEF FinalMap
<1>9. QED
  BY <1>1, <1>6, <1>7, <1>8

LEMMA ConstructStep ==
  ASSUME ConstructionInv, NEW r \in Rank, Construct(r)
  PROVE  ConstructionInv'
<1>0. TypeOK /\ PcInv
  BY DEF ConstructionInv
<1>1. PICK c \in {Pair(r).initial, Pair(r).final} :
        /\ Gather(r, c)
        /\ \/ pc[r] = "gather_initial" /\ c = Pair(r).initial
           \/ pc[r] = "gather_final" /\ c = Pair(r).final
  BY DEF Construct
<1>2. round[r] <= Len(script) /\ r \in Members(c)
  BY <1>0, <1>1 DEF PcInv
<1>3. c \in Comm
  BY <1>0, <1>1, <1>2, CurrentPair
<1>4. Gathers(Pair(r), c) /\ Nested(Pair(r)) /\ c = InterComm(Pair(r))
  <2>1. CASE pc[r] = "gather_initial" /\ c = Pair(r).initial
    BY <1>0, <2>1, AsksAndGathers DEF PcInv, Gathers
  <2>2. CASE pc[r] = "gather_final" /\ c = Pair(r).final
    BY <1>0, <2>2, AsksAndGathers DEF PcInv, Gathers
  <2>3. QED
    BY <1>1, <2>1, <2>2
<1>5. \A d \in Comm : r \in Members(d) =>
        Entered(pc[r], Pair(r), d) = Total(Pair(r), d)
  <2> SUFFICES ASSUME NEW d \in Comm
               PROVE  Entered(pc[r], Pair(r), d) = Total(Pair(r), d)
    OBVIOUS
  <2>1. CASE pc[r] = "gather_initial" /\ c = Pair(r).initial
    <3>1. Contained(Pair(r))
      BY <1>0, <2>1 DEF PcInv
    <3>2. Total(Pair(r), d) = IF d = Pair(r).initial THEN 2 ELSE 0
      BY <3>1, AsksAndGathers DEF Total, Asks
    <3>3. Entered(pc[r], Pair(r), d) = IF d = Pair(r).initial THEN 2 ELSE 0
      BY <2>1, EnteredAt
    <3>4. QED
      BY <3>2, <3>3
  <2>2. CASE pc[r] = "gather_final" /\ c = Pair(r).final
    <3>1. ~Contained(Pair(r))
      BY <1>0, <2>2 DEF PcInv
    <3>2. Gathers(Pair(r), d) <=> d = Pair(r).final
      BY <1>4, <3>1, AsksAndGathers
    <3>3. Total(Pair(r), d) = IF d = Pair(r).final THEN 2
                              ELSE IF d = Pair(r).initial THEN 1 ELSE 0
      BY <3>1, <3>2 DEF Total, Asks
    <3>4. Entered(pc[r], Pair(r), d) = IF d = Pair(r).final THEN 2
                                       ELSE IF d = Pair(r).initial THEN 1 ELSE 0
      BY <2>2, EnteredAt
    <3>5. QED
      BY <3>3, <3>4
  <2>3. QED
    BY <1>1, <2>1, <2>2
<1>6. Entered(pc[r], Pair(r), c) = 2
  BY <1>2, <1>3, <1>4, <1>5 DEF Total
<1>7. [comm |-> c, to_initial |-> InitialMap(Collected(r, c)),
       to_final |-> FinalMap(Collected(r, c))] = Built(Pair(r), r)
  <2>1. /\ InitialMap(Collected(r, c)) = RankMap(Pair(r), Pair(r).initial)
        /\ FinalMap(Collected(r, c)) = RankMap(Pair(r), Pair(r).final)
    BY <1>1, <1>2, <1>3, <1>4, <1>6, GatheredMaps DEF Gather
  <2>2. r \in Members(Pair(r).initial) \cup Members(Pair(r).final)
    BY <1>1, <1>2
  <2>3. QED
    BY <1>4, <2>1, <2>2 DEF Built
<1>8. QED
  <2>1. /\ Finish(r, [comm |-> c, to_initial |-> InitialMap(Collected(r, c)),
                      to_final |-> FinalMap(Collected(r, c))])
        /\ UNCHANGED <<script, calls, collected>>
    BY <1>1 DEF Gather
  <2>2. QED
    BY <1>2, <1>5, <1>7, <2>1, FinishStep

-----------------------------------------------------------------------------
(***************************************************************************)
(* Every program of constructions                                          *)
(***************************************************************************)

\* Each process enters the collectives of every communicator in the order in
\* which the constructions of the program have them, and contributes to each
\* what it is for, whichever path it takes through the conditions of
\* create_inter_communicator; what it has built is what it should have.
THEOREM ConstructionInvariance == Spec => []ConstructionInv
<1>1. ConstructionInv /\ [Next]_vars => ConstructionInv'
  <2> SUFFICES ASSUME ConstructionInv, [Next]_vars
               PROVE  ConstructionInv'
    OBVIOUS
  <2>1. ASSUME NEW r \in Rank, Step(r)
        PROVE  ConstructionInv'
    BY <2>1, OutsideStep, AskInitialStep, AskFinalStep, TakeInitialStep,
       AskNextStep, TakeFinalStep, ThrowStep, ConstructStep DEF Step
  <2>2. CASE UNCHANGED vars
    <3>1. UNCHANGED <<script, round, pc, calls, collected, built>>
      BY <2>2 DEF vars
    <3>2. TypeOK' /\ CollectedInv' /\ BuiltInv'
      BY <3>1 DEF ConstructionInv, TypeOK, CollectedInv, BuiltInv
    <3>3. PcInv'
      BY <3>1 DEF ConstructionInv, PcInv, Pair, Members, Contained, Nested
    <3>4. CallsInv'
      BY <3>1 DEF ConstructionInv, CallsInv, Pair, Members
    <3>5. QED
      BY <3>2, <3>3, <3>4 DEF ConstructionInv
  <2>3. QED
    BY <2>1, <2>2 DEF Next, Terminating
<1>2. QED
  BY InitInvariant, <1>1, PTL DEF Spec

\* Contributions that MPI matches belong to the same collective of the same
\* construction: is_sub_comm's MPI_Allreduce never meets the constructor's
\* MPI_Allgather, nor one of another construction.
THEOREM LikeMeetsLike == Spec => []LikeWithLike
<1>1. ConstructionInv => LikeWithLike
  <2> SUFFICES ASSUME CollectedInv, NEW p \in collected, NEW q \in collected,
                      p.comm = q.comm, p.call = q.call
               PROVE  p.what = q.what /\ p.round = q.round
    BY DEF ConstructionInv, LikeWithLike
  <2>1. ASSUME NEW x \in collected
        PROVE  /\ Runs(script, x.comm, x.round, x.what)
               /\ x.call = Position(script, x.comm, x.round, x.what)
    BY DEF CollectedInv, Contributed
  <2>2. QED
    BY <2>1, PositionInjective
<1>2. QED
  BY <1>1, ConstructionInvariance, PTL

\* All the processes of the two communicators come to the same conclusion,
\* the communicator that contains the other or all the exception.
THEOREM SameConclusions == Spec => []SameConclusion
<1>1. ConstructionInv => SameConclusion
  <2> SUFFICES ASSUME BuiltInv, NEW r \in Rank, NEW k \in 1..Len(built[r])
               PROVE  built[r][k].comm = Outcome(script[k], r)
    BY DEF ConstructionInv, SameConclusion
  <2>1. built[r][k] = Built(script[k], r)
    BY DEF BuiltInv
  <2>2. Built(script[k], r).comm = Outcome(script[k], r)
    BY DEF Built, Outcome, Empty
  <2>3. QED
    BY <2>1, <2>2
<1>2. QED
  BY <1>1, ConstructionInvariance, PTL

\* A rank map has one entry for each member of both communicators.
LEMMA RankMapLookup ==
  ASSUME NEW s, NEW c \in Comm, InterComm(s) \in Comm, NEW q \in Members(InterComm(s))
  PROVE  Lookup(RankMap(s, c), RankId[InterComm(s)][q]) = RankId[c][q]
<1> DEFINE i == InterComm(s)
           map == RankMap(s, c)
           rank == RankId[i][q]
<1>1. q \in Rank
  BY DEF Members
<1>2. ASSUME NEW entry \in map, entry[1] = rank
      PROVE  q \in Members(c) /\ entry[2] = RankId[c][q]
  <2>1. PICK m \in Members(i) \cap Members(c) : entry = <<RankId[i][m], RankId[c][m]>>
    BY DEF RankMap
  <2>2. RankId[i][m] = RankId[i][q]
    BY <1>2, <2>1
  <2>3. m = q
    BY <2>2, RankIdInjective
  <2>4. QED
    BY <2>1, <2>3
<1>3. CASE q \in Members(c)
  <2>1. <<rank, RankId[c][q]>> \in map /\ <<rank, RankId[c][q]>>[1] = rank
    BY <1>3 DEF RankMap
  <2>2. \E entry \in map : entry[1] = rank
    BY <2>1
  <2>3. (CHOOSE entry \in map : entry[1] = rank) \in map
        /\ (CHOOSE entry \in map : entry[1] = rank)[1] = rank
    <3> HIDE DEF map, rank
    <3> QED BY <2>2
  <2>4. Lookup(map, rank) = RankId[c][q]
    <3> HIDE DEF map, rank
    <3> QED BY <1>2, <2>2, <2>3 DEF Lookup
  <2>5. QED
    BY <2>4
<1>4. CASE q \notin Members(c)
  <2>1. ~\E entry \in map : entry[1] = rank
    BY <1>2, <1>4
  <2>2. RankId[c][q] = INVALID_RANK_ID
    BY <1>1, <1>4 DEF Members
  <2>3. QED
    BY <2>1, <2>2 DEF Lookup
<1>5. QED
  BY <1>3, <1>4

\* Every constructed object translates ranks as the communicators have them,
\* and says nullopt of a member that is not in the other communicator.
THEOREM RanksTranslate == Spec => []RankMapsTranslate
<1>1. ConstructionInv => RankMapsTranslate
  <2> SUFFICES ASSUME ConstructionInv, NEW r \in Rank, NEW k \in 1..Len(built[r]),
                      built[r][k].comm \in Comm,
                      NEW q \in Members(built[r][k].comm)
               PROVE  LET o == built[r][k]
                          s == script[k]
                      IN  /\ get_initial_comm_rank(o, RankId[o.comm][q]) = RankId[s.initial][q]
                          /\ get_final_comm_rank(o, RankId[o.comm][q]) = RankId[s.final][q]
    BY DEF RankMapsTranslate
  <2>1. built[r][k] = Built(script[k], r)
    BY DEF ConstructionInv, BuiltInv
  <2>2. script \in Scripts /\ k \in 1..Len(script)
    <3>1. Len(built[r]) \in Nat /\ Len(built[r]) <= Len(script) /\ script \in Scripts
      BY PairAssumption DEF ConstructionInv, BuiltInv, TypeOK
    <3>2. Len(script) \in Nat
      BY <3>1, PairAssumption
    <3>3. QED
      BY <3>1, <3>2
  <2>3. /\ script[k].initial \in Comm /\ script[k].final \in Comm
        /\ InterComm(script[k]) \in Comm
    BY <2>2, PairOfScript
  <2>4. built[r][k] = [comm |-> InterComm(script[k]),
                       to_initial |-> RankMap(script[k], script[k].initial),
                       to_final |-> RankMap(script[k], script[k].final)]
    BY <2>1, PairAssumption DEF Built, Empty
  <2>5. q \in Members(InterComm(script[k]))
    BY <2>4
  <2>6. QED
    BY <2>3, <2>4, <2>5, RankMapLookup DEF get_initial_comm_rank, get_final_comm_rank
<1>2. QED
  BY <1>1, ConstructionInvariance, PTL

-----------------------------------------------------------------------------
(***************************************************************************)
(* That the processes never all wait for each other                        *)
(***************************************************************************)

\* Contributions stay, so what a process has put into a collective is there
\* for good.
LEMMA EnteredInvariance == Spec => []EnteredInv
<1>1. Init => EnteredInv
  <2>1. ASSUME Init, NEW r \in Rank, NEW c \in Comm
        PROVE  1..calls[r][c] = {}
    <3>1. calls[r][c] = 0
      BY <2>1 DEF Init
    <3>2. QED
      BY <3>1
  <2>2. QED
    BY <2>1 DEF EnteredInv
<1>2. ConstructionInv /\ EnteredInv /\ [Next]_vars => EnteredInv'
  <2> SUFFICES ASSUME TypeOK, PcInv, EnteredInv, [Next]_vars,
                      NEW q \in Rank, NEW d \in Comm, NEW n \in 1..calls'[q][d]
               PROVE  \E p \in collected' : p.comm = d /\ p.call = n /\ p.from = q
    BY DEF ConstructionInv, EnteredInv
  <2>1. CASE UNCHANGED <<calls, collected>>
    BY <2>1 DEF EnteredInv
  <2>2. ASSUME NEW r \in Rank, NEW c \in Comm, NEW what, NEW yes, Enter(r, c, what, yes)
        PROVE  \E p \in collected' : p.comm = d /\ p.call = n /\ p.from = q
    <3>1. /\ collected \subseteq collected'
          /\ \E p \in collected' : p.comm = c /\ p.call = calls[r][c] + 1 /\ p.from = r
      <4> DEFINE new == [comm |-> c, call |-> calls[r][c] + 1, from |-> r,
                         what |-> what, round |-> round[r], yes |-> yes,
                         initial |-> RankId[Pair(r).initial][r],
                         final |-> RankId[Pair(r).final][r], inter |-> RankId[c][r]]
      <4>1. collected' = collected \cup {new}
        BY <2>2 DEF Enter
      <4>2. new.comm = c /\ new.call = calls[r][c] + 1 /\ new.from = r
        OBVIOUS
      <4> HIDE DEF new
      <4>3. QED
        BY <4>1, <4>2
    <3>2. /\ calls' = [calls EXCEPT ![r][c] = calls[r][c] + 1]
          /\ calls \in [Rank -> [Comm -> Nat]]
      BY <2>2 DEF Enter, TypeOK
    <3>3. calls'[q][d] = IF q = r /\ d = c THEN calls[r][c] + 1 ELSE calls[q][d]
      BY <3>2
    <3>4. CASE n \in 1..calls[q][d]
      BY <3>1, <3>4 DEF EnteredInv
    <3>5. CASE n \notin 1..calls[q][d]
      <4>1. calls[q][d] \in Nat
        BY <3>2
      <4>2. q = r /\ d = c /\ n = calls[r][c] + 1
        BY <3>3, <3>5, <4>1
      <4>3. QED
        BY <3>1, <4>2
    <3>6. QED
      BY <3>4, <3>5
  <2>3. ASSUME NEW r \in Rank, Step(r)
        PROVE  \/ UNCHANGED <<calls, collected>>
               \/ \E c \in Comm : \E what, yes : Enter(r, c, what, yes)
    <3>1. CASE Outside(r) \/ Throw(r) \/ Construct(r)
      BY <3>1 DEF Outside, Throw, Construct, Gather
    <3>2. CASE AskInitial(r) \/ AskFinal(r) \/ TakeInitial(r) \/ AskNext(r) \/ TakeFinal(r)
      <4>1. round[r] <= Len(script)
        BY <3>2 DEF AskInitial, AskFinal, TakeInitial, AskNext, TakeFinal, Calls, PcInv
      <4>2. Pair(r).initial \in Comm /\ Pair(r).final \in Comm
        BY <4>1, CurrentPair
      <4>3. QED
        BY <3>2, <4>2 DEF AskInitial, AskFinal, TakeInitial, AskNext, TakeFinal
    <3>3. QED
      BY <2>3, <3>1, <3>2 DEF Step
  <2>4. QED
    BY <2>1, <2>2, <2>3 DEF Next, Terminating, vars
<1>3. QED
  BY <1>1, <1>2, ConstructionInvariance, PTL DEF Spec

\* A collective is complete once every member is in it or further.
LEMMA AllThere ==
  ASSUME ConstructionInv, EnteredInv, NEW r \in Rank, NEW c \in Comm, r \in Members(c),
         round[r] <= Len(script),
         Entered(pc[r], Pair(r), c) # 0,
         Entered(pc[r], Pair(r), c) <= Total(Pair(r), c),
         \A q \in Members(c) :
            \/ round[r] < round[q]
            \/ /\ round[q] = round[r]
               /\ Entered(pc[r], Pair(r), c) <= Entered(pc[q], Pair(q), c)
  PROVE  Complete(r, c)
<1> DEFINE k == round[r]
           e == Entered(pc[r], Pair(r), c)
<1>1. /\ k \in Nat \ {0} /\ k \in 1..Len(script)
      /\ calls[r][c] = Before(script, c, k) + e
  BY CurrentPair DEF ConstructionInv, CallsInv
<1>2. /\ Before(script, c, k) \in Nat /\ e \in Nat /\ Total(Pair(r), c) \in Nat
      /\ Before(script, c, k + 1) = Before(script, c, k) + Total(Pair(r), c)
  BY <1>1, BeforeType, BeforeNext, EnteredAt DEF Total, Pair, Entered
<1>3. ASSUME NEW q \in Members(c)
      PROVE  calls[r][c] <= calls[q][c]
  <2>1. /\ q \in Rank /\ round[q] \in Nat \ {0}
        /\ calls[q][c] = Before(script, c, round[q]) + Entered(pc[q], Pair(q), c)
    BY DEF ConstructionInv, CallsInv, TypeOK, Members
  <2>2. Before(script, c, round[q]) \in Nat /\ Entered(pc[q], Pair(q), c) \in Nat
    BY <2>1, BeforeType DEF Entered
  <2>3. CASE k < round[q]
    <3>1. Before(script, c, k + 1) <= Before(script, c, round[q])
      BY <1>1, <2>1, <2>3, BeforeMonotone
    <3>2. QED
      BY <1>1, <1>2, <2>1, <2>2, <3>1
  <2>4. CASE round[q] = k /\ e <= Entered(pc[q], Pair(q), c)
    BY <1>1, <1>2, <2>1, <2>2, <2>4
  <2>5. QED
    BY <2>3, <2>4
<1>4. calls[r][c] \in Nat /\ calls[r][c] # 0
  BY <1>1, <1>2
<1>5. ASSUME NEW q \in Members(c)
      PROVE  \E p \in Collected(r, c) : p.from = q
  <2>1. q \in Rank /\ calls[q][c] \in Nat
    BY DEF Members, ConstructionInv, TypeOK
  <2>2. calls[r][c] \in 1..calls[q][c]
    BY <1>3, <1>4, <2>1
  <2>3. PICK p \in collected : p.comm = c /\ p.call = calls[r][c] /\ p.from = q
    BY <2>1, <2>2 DEF EnteredInv
  <2>4. QED
    BY <2>3 DEF Collected
<1>6. QED
  BY <1>5 DEF Complete

\* Of the processes that are furthest behind in the program, one that is
\* furthest behind in its construction need not wait: with the order of the
\* stages no two communicators can be waiting for each other's members.
THEOREM DeadlockFreedom == Spec => []NoDeadlock
<1>1. ConstructionInv /\ EnteredInv => NoDeadlock
  <2> SUFFICES ASSUME ConstructionInv, EnteredInv, ~Done,
                      \A q \in Rank : ~Calls(q)
               PROVE  \E r \in Rank : pc[r] # "call" /\ Complete(r, Within(r))
    BY DEF NoDeadlock
  <2>0. /\ TypeOK /\ PcInv
        /\ \A q \in Rank : round[q] \in Nat \ {0} /\ pc[q] \in Stage
        /\ Len(script) \in Nat
    BY PairAssumption DEF ConstructionInv, TypeOK
  <2> DEFINE T == {round[q] : q \in {m \in Rank : pc[m] # "call"}}
  <2>1. PICK n \in T : \A m \in T : n <= m
    <3>1. T \subseteq Nat
      BY <2>0
    <3>2. T # {}
      <4>1. PICK q \in Rank : ~(pc[q] = "call" /\ round[q] > Len(script))
        BY DEF Done
      <4>2. pc[q] # "call"
        BY <2>0, <4>1 DEF Calls
      <4>3. round[q] \in T
        BY <4>2
      <4>4. QED
        BY <4>3
    <3> HIDE DEF T
    <3>3. QED
      BY <3>1, <3>2, LeastNatural
  <2>2. PICK a \in Rank : pc[a] # "call" /\ round[a] = n
    OBVIOUS
  <2>3. n \in Nat \ {0} /\ n <= Len(script)
    BY <2>0, <2>2 DEF PcInv
  <2>4. \A q \in Rank : n < round[q] \/ (round[q] = n /\ pc[q] # "call")
    <3> TAKE q \in Rank
    <3>1. CASE pc[q] = "call"
      BY <2>0, <2>3, <3>1 DEF Calls
    <3>2. CASE pc[q] # "call"
      <4>1. n <= round[q]
        BY <2>1, <3>2
      <4>2. QED
        BY <2>0, <2>3, <3>2, <4>1
    <3>3. QED
      BY <3>1, <3>2
  <2> DEFINE s == script[n]
             At(stage) == {q \in Rank : round[q] = n /\ pc[q] = stage}
  <2>5. /\ \A q \in Rank : round[q] = n => Pair(q) = s
        /\ s.initial \in Comm /\ s.final \in Comm
    <3>1. \A q \in Rank : round[q] = n => Pair(q) = s
      BY DEF Pair
    <3>2. QED
      BY <2>0, <2>2, <2>3, <3>1, CurrentPair
  <2>6. \A q \in Rank : round[q] = n =>
          \/ q \in At("ask_initial") \/ q \in At("gather_initial")
          \/ q \in At("ask_final") \/ q \in At("gather_final")
    BY <2>0, <2>3, <2>4 DEF Stage
  <2>7. /\ \A q \in At("gather_initial") : Contained(s)
        /\ \A q \in At("ask_final") \cup At("gather_final") : ~Contained(s)
        /\ \A q \in At("gather_final") : Nested(s)
    BY <2>0, <2>5 DEF PcInv
  <2> HIDE DEF T, s
  <2>8. ASSUME NEW r \in Rank, round[r] = n, pc[r] # "call",
               NEW c \in Comm, c = Within(r), r \in Members(c),
               NEW e \in {1, 2}, Entered(pc[r], s, c) = e, e <= Total(s, c),
               \A q \in Members(c) : round[q] = n => e <= Entered(pc[q], s, c)
        PROVE  \E m \in Rank : pc[m] # "call" /\ Complete(m, Within(m))
    <3>1. Pair(r) = s /\ round[r] <= Len(script)
      BY <2>3, <2>5, <2>8
    <3>2. \A q \in Members(c) : \/ round[r] < round[q]
                                \/ /\ round[q] = round[r]
                                   /\ Entered(pc[r], Pair(r), c) <= Entered(pc[q], Pair(q), c)
      BY <2>4, <2>5, <2>8 DEF Members
    <3>3. Complete(r, c)
      BY <2>8, <3>1, <3>2, AllThere
    <3>4. QED
      BY <2>8, <3>3
  <2>9. CASE At("ask_initial") # {}
    <3>1. PICK r \in At("ask_initial") : TRUE
      BY <2>9
    <3>2. /\ r \in Rank /\ round[r] = n /\ pc[r] # "call"
          /\ Within(r) = s.initial /\ r \in Members(s.initial)
      BY <2>0, <2>5, <3>1 DEF Within, PcInv
    <3>3. Entered(pc[r], s, s.initial) = 1
      BY <3>1, EnteredAt
    <3>4. 1 <= Total(s, s.initial)
      BY DEF Total, Asks
    <3>5. \A q \in Members(s.initial) : round[q] = n => 1 <= Entered(pc[q], s, s.initial)
      <4>1. \A q \in Members(s.initial) : round[q] = n => HasAsked(pc[q], s, s.initial)
        BY <2>3, <2>4 DEF Members, HasAsked
      <4>2. QED
        BY <4>1 DEF Entered
    <3>6. QED
      BY <2>5, <2>8, <3>2, <3>3, <3>4, <3>5
  <2>10. CASE At("ask_initial") = {} /\ At("gather_initial") # {}
    <3>1. PICK r \in At("gather_initial") : TRUE
      BY <2>10
    <3>2. /\ r \in Rank /\ round[r] = n /\ pc[r] # "call" /\ Contained(s)
          /\ Within(r) = s.initial /\ r \in Members(s.initial)
      BY <2>0, <2>5, <2>7, <3>1 DEF Within, PcInv
    <3>3. Entered(pc[r], s, s.initial) = 2
      BY <3>1, EnteredAt
    <3>4. 2 <= Total(s, s.initial)
      BY <3>2, AsksAndGathers DEF Total
    <3>5. \A q \in Members(s.initial) : round[q] = n => 2 <= Entered(pc[q], s, s.initial)
      <4>1. \A q \in Members(s.initial) : round[q] = n => pc[q] = "gather_initial"
        BY <2>6, <2>7, <2>10, <3>2 DEF Members
      <4>2. \A q \in Members(s.initial) : round[q] = n => HasGathered(pc[q], s, s.initial)
        BY <4>1 DEF HasGathered
      <4>3. QED
        BY <4>2 DEF Entered
    <3>6. QED
      BY <2>5, <2>8, <3>2, <3>3, <3>4, <3>5
  <2>11. CASE /\ At("ask_initial") = {} /\ At("gather_initial") = {}
              /\ At("ask_final") # {}
    <3>1. PICK r \in At("ask_final") : TRUE
      BY <2>11
    <3>2. /\ r \in Rank /\ round[r] = n /\ pc[r] # "call" /\ ~Contained(s)
          /\ Within(r) = s.final /\ r \in Members(s.final)
      BY <2>0, <2>5, <2>7, <3>1 DEF Within, PcInv
    <3>3. Entered(pc[r], s, s.final) = 1
      BY <3>1, EnteredAt
    <3>4. 1 <= Total(s, s.final)
      BY <3>2 DEF Total, Asks
    <3>5. \A q \in Members(s.final) : round[q] = n => 1 <= Entered(pc[q], s, s.final)
      <4>1. \A q \in Members(s.final) : round[q] = n => pc[q] \in {"ask_final", "gather_final"}
        BY <2>6, <2>11 DEF Members
      <4>2. \A q \in Members(s.final) : round[q] = n => HasAsked(pc[q], s, s.final)
        BY <4>1 DEF HasAsked
      <4>3. QED
        BY <4>2 DEF Entered
    <3>6. QED
      BY <2>5, <2>8, <3>2, <3>3, <3>4, <3>5
  <2>12. CASE /\ At("ask_initial") = {} /\ At("gather_initial") = {}
              /\ At("ask_final") = {}
    <3>1. /\ pc[a] = "gather_final" /\ ~Contained(s) /\ Nested(s)
      BY <2>2, <2>6, <2>7, <2>12
    <3>2. /\ Within(a) = s.final /\ a \in Members(s.final)
      BY <2>0, <2>2, <2>5, <3>1 DEF Within, PcInv
    <3>3. Entered(pc[a], s, s.final) = 2
      BY <3>1, EnteredAt
    <3>4. 2 <= Total(s, s.final)
      BY <3>1, AsksAndGathers DEF Total
    <3>5. \A q \in Members(s.final) : round[q] = n => 2 <= Entered(pc[q], s, s.final)
      <4>1. \A q \in Members(s.final) : round[q] = n => pc[q] = "gather_final"
        BY <2>6, <2>12 DEF Members
      <4>2. \A q \in Members(s.final) : round[q] = n => HasGathered(pc[q], s, s.final)
        BY <4>1 DEF HasGathered
      <4>3. QED
        BY <4>2 DEF Entered
    <3>6. QED
      BY <2>2, <2>5, <2>8, <3>1, <3>2, <3>3, <3>4, <3>5
  <2>13. QED
    BY <2>9, <2>10, <2>11, <2>12
<1>2. QED
  BY <1>1, ConstructionInvariance, EnteredInvariance, PTL
=============================================================================

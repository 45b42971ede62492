--------------------- MODULE InterCommunicatorInvariant ---------------------
(***************************************************************************)
(* The inductive invariant behind the safety properties of                 *)
(* InterCommunicator.tla.  Whether a construction asks or gathers over a   *)
(* communicator is decided by the members of its two communicators alone,  *)
(* so the number of collectives a process has entered on a communicator    *)
(* tells, the same on every member, which one it is in.                    *)
(***************************************************************************)
EXTENDS InterCommunicator

\* Construction s runs is_sub_comm's MPI_Allreduce over c, and the
\* constructor's MPI_Allgather
Contained(s) == Members(s.final) \subseteq Members(s.initial)
Asks(s, c) == c = s.initial \/ (c = s.final /\ ~Contained(s))
Gathers(s, c) == Nested(s) /\ c = InterComm(s)
Total(s, c) == IF Gathers(s, c) THEN 2 ELSE IF Asks(s, c) THEN 1 ELSE 0

AskRounds(sc, c) == {j \in 1..Len(sc) : Asks(sc[j], c)}
GatherRounds(sc, c) == {j \in 1..Len(sc) : Gathers(sc[j], c)}

Below(S, k) == Cardinality(S \cap 1..(k-1))

\* How many collectives of c come before construction k
Before(sc, c, k) == Below(AskRounds(sc, c), k) + Below(GatherRounds(sc, c), k)
\* A collective of c: what runs there in which construction
Runs(sc, c, k, what) ==
  /\ k \in 1..Len(sc)
  /\ what \in {"allreduce", "allgather"}
  /\ IF what = "allreduce" THEN Asks(sc[k], c) ELSE Gathers(sc[k], c)

\* Where it comes in the order of c's collectives
Position(sc, c, k, what) == Before(sc, c, k) + (IF what = "allreduce" THEN 1 ELSE 2)

\* Whether a process that is at a stage of construction s has entered the one
\* and the other over c, and how many that makes
HasAsked(stage, s, c) ==
  \/ stage # "call" /\ c = s.initial
  \/ stage \in {"ask_final", "gather_final"} /\ c = s.final
HasGathered(stage, s, c) ==
  \/ stage = "gather_initial" /\ c = s.initial
  \/ stage = "gather_final" /\ c = s.final
Entered(stage, s, c) ==
  IF HasGathered(stage, s, c) THEN 2 ELSE IF HasAsked(stage, s, c) THEN 1 ELSE 0

\* What q puts into a collective of construction k over c
Contributed(sc, q, c, k, what) ==
  [comm |-> c, call |-> Position(sc, c, k, what), from |-> q,
   what |-> what, round |-> k,
   yes |-> /\ what = "allreduce"
           /\ IF c = sc[k].initial THEN Includes(q, c, sc[k].final)
                                   ELSE Includes(q, c, sc[k].initial),
   initial |-> RankId[sc[k].initial][q],
   final |-> RankId[sc[k].final][q], inter |-> RankId[c][q]]

\* The object that construction s gives r, and the map of the members of
\* InterComm(s) to their ranks in c
RankMap(s, c) ==
  {<<RankId[InterComm(s)][q], RankId[c][q]>> : q \in Members(InterComm(s)) \cap Members(c)}
Built(s, r) ==
  IF r \notin Members(s.initial) \cup Members(s.final) THEN Empty(NULL)
  ELSE IF Nested(s)
       THEN [comm |-> InterComm(s),
             to_initial |-> RankMap(s, s.initial), to_final |-> RankMap(s, s.final)]
       ELSE Empty(THROW)

-----------------------------------------------------------------------------
Object == [comm : Comm \cup {NULL, THROW}, to_initial : SUBSET (Int \X Int),
           to_final : SUBSET (Int \X Int)]
Stage == {"call", "ask_initial", "gather_initial", "ask_final", "gather_final"}

TypeOK ==
  /\ script \in Scripts
  /\ round \in [Rank -> Nat \ {0}]
  /\ pc \in [Rank -> Stage]
  /\ calls \in [Rank -> [Comm -> Nat]]
  /\ built \in [Rank -> Seq(Object)]

\* Where a process can be, and what it has learned on the way there
PcInv ==
  \A r \in Rank :
    /\ pc[r] # "call" => round[r] <= Len(script)
    /\ pc[r] \in {"ask_initial", "gather_initial"} => r \in Members(Pair(r).initial)
    /\ pc[r] \in {"ask_final", "gather_final"} =>
         r \in Members(Pair(r).final) /\ ~Contained(Pair(r))
    /\ pc[r] = "gather_initial" => Contained(Pair(r))
    /\ pc[r] = "gather_final" => Nested(Pair(r))

CallsInv ==
  \A r \in Rank, c \in Comm :
    r \in Members(c) =>
      calls[r][c] = Before(script, c, round[r]) + Entered(pc[r], Pair(r), c)

CollectedInv ==
  \A p \in collected :
    \E c \in Comm, k \in 1..Len(script), what \in {"allreduce", "allgather"} :
      /\ Runs(script, c, k, what)
      /\ \E q \in Members(c) : p = Contributed(script, q, c, k, what)

BuiltInv ==
  \A r \in Rank :
    /\ Len(built[r]) = round[r] - 1
    /\ round[r] <= Len(script) + 1
    /\ \A k \in 1..Len(built[r]) : built[r][k] = Built(script[k], r)

\* What a process has entered is there for the others to collect.
EnteredInv ==
  \A r \in Rank, c \in Comm : \A n \in 1..calls[r][c] :
    \E p \in collected : p.comm = c /\ p.call = n /\ p.from = r

ConstructionInv == TypeOK /\ PcInv /\ CallsInv /\ CollectedInv /\ BuiltInv
=============================================================================

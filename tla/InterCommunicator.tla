------------------------- MODULE InterCommunicator -------------------------
(***************************************************************************)
(* Class InterCommunicator (inter_communicator.cpp): how the members of    *)
(* two communicators find out, each from what it knows, which of the two   *)
(* contains the other, and how they exchange their ranks.  A program makes *)
(* several of them in a row, between any two communicators.  Processes     *)
(* agree only through collectives (is_sub_comm's MPI_Allreduce and the     *)
(* constructor's MPI_Allgather) that MPI matches by communicator and order *)
(* alone: a process that skips one would shift every later one.            *)
(***************************************************************************)
EXTENDS Communicators

CONSTANTS
  Scripts,   \* the programs: sequences of pairs of communicators
  NULL,      \* MPI_COMM_NULL
  THROW      \* what std::runtime_error leaves instead of an object

ASSUME PairAssumption ==
  /\ Scripts \subseteq Seq([initial : Comm, final : Comm])
  /\ NULL \notin Comm /\ THROW \notin Comm /\ NULL # THROW

\* MPI has no communicator without members (MPI_COMM_NULL is none).
ASSUME MemberAssumption == \A c \in Comm : Members(c) # {}

VARIABLES
  script,     \* the program
  round,      \* round[r]: the construction r makes next, or is in
  pc,         \* pc[r]: the collective that r is in, or "call"
  calls,      \* calls[r][c]: the collectives that r has entered on c
  collected,  \* what the processes have contributed to collectives
  built       \* built[r]: what r's constructions have given, in order

vars == <<script, round, pc, calls, collected, built>>

Pair(r) == script[round[r]]

-----------------------------------------------------------------------------
\* r enters a collective on c.  MPI matches comm and call; "what" and "round"
\* are in the record for the properties.
Enter(r, c, what, yes) ==
  /\ collected' = collected \cup
       {[comm |-> c, call |-> calls[r][c] + 1, from |-> r,
         what |-> what, round |-> round[r], yes |-> yes,
         initial |-> RankId[Pair(r).initial][r],
         final |-> RankId[Pair(r).final][r], inter |-> RankId[c][r]]}
  /\ calls' = [calls EXCEPT ![r][c] = calls[r][c] + 1]

\* What r's collective on c has collected, and whether it may return
Collected(r, c) == {p \in collected : p.comm = c /\ p.call = calls[r][c]}
Complete(r, c) == \A q \in Members(c) : \E p \in Collected(r, c) : p.from = q

\* Mutant: any process in both communicators answers yes.
Includes_Overlap(r, c, sub) == r \in Members(sub)

\* local_result of is_sub_comm(c, sub) on r: a process has the two groups
\* only as a member of both
Includes(r, c, sub) ==
  r \in Members(sub) /\ Members(sub) \subseteq Members(c)

\* Mutant: the answers are combined with MPI_LAND.
Reduced_And(r, c) == \A p \in Collected(r, c) : p.yes

\* The result of the MPI_Allreduce with MPI_LOR
Reduced(r, c) == \E p \in Collected(r, c) : p.yes

\* r's constructor is over
Finish(r, object) ==
  /\ built' = [built EXCEPT ![r] = Append(@, object)]
  /\ round' = [round EXCEPT ![r] = @ + 1]
  /\ pc' = [pc EXCEPT ![r] = "call"]

\* What is left of it when it makes no MPI_Allgather
Empty(c) == [comm |-> c, to_initial |-> {}, to_final |-> {}]

-----------------------------------------------------------------------------
Init ==
  /\ script \in Scripts
  /\ round = [r \in Rank |-> 1]
  /\ pc = [r \in Rank |-> "call"]
  /\ calls = [r \in Rank |-> [c \in Comm |-> 0]]
  /\ collected = {}
  /\ built = [r \in Rank |-> <<>>]

Calls(r) == pc[r] = "call" /\ round[r] <= Len(script)

\* create_inter_communicator on a process in neither of the communicators
Outside(r) ==
  /\ Calls(r)
  /\ r \notin Members(Pair(r).initial) \cup Members(Pair(r).final)
  /\ Finish(r, Empty(NULL))
  /\ UNCHANGED <<script, calls, collected>>

\* is_sub_comm(comm1, comm2) on a member of comm1, up to its MPI_Allreduce
AskInitial(r) ==
  /\ Calls(r)
  /\ r \in Members(Pair(r).initial)
  /\ Enter(r, Pair(r).initial, "allreduce",
           Includes(r, Pair(r).initial, Pair(r).final))
  /\ pc' = [pc EXCEPT ![r] = "ask_initial"]
  /\ UNCHANGED <<script, round, built>>

\* It is false at once outside of comm1: is_sub_comm(comm2, comm1) follows
AskFinal(r) ==
  /\ Calls(r)
  /\ r \in Members(Pair(r).final) \ Members(Pair(r).initial)
  /\ Enter(r, Pair(r).final, "allreduce",
           Includes(r, Pair(r).final, Pair(r).initial))
  /\ pc' = [pc EXCEPT ![r] = "ask_final"]
  /\ UNCHANGED <<script, round, built>>

\* comm1 contains comm2: on to the MPI_Allgather
TakeInitial(r) ==
  /\ pc[r] = "ask_initial"
  /\ Complete(r, Pair(r).initial)
  /\ Reduced(r, Pair(r).initial)
  /\ Enter(r, Pair(r).initial, "allgather", FALSE)
  /\ pc' = [pc EXCEPT ![r] = "gather_initial"]
  /\ UNCHANGED <<script, round, built>>

\* comm1 does not: is_sub_comm(comm2, comm1) on a member of comm2
AskNext(r) ==
  /\ pc[r] = "ask_initial"
  /\ Complete(r, Pair(r).initial)
  /\ ~Reduced(r, Pair(r).initial)
  /\ r \in Members(Pair(r).final)
  /\ Enter(r, Pair(r).final, "allreduce",
           Includes(r, Pair(r).final, Pair(r).initial))
  /\ pc' = [pc EXCEPT ![r] = "ask_final"]
  /\ UNCHANGED <<script, round, built>>

TakeFinal(r) ==
  /\ pc[r] = "ask_final"
  /\ Complete(r, Pair(r).final)
  /\ Reduced(r, Pair(r).final)
  /\ Enter(r, Pair(r).final, "allgather", FALSE)
  /\ pc' = [pc EXCEPT ![r] = "gather_final"]
  /\ UNCHANGED <<script, round, built>>

\* Mutant: comm2 is not asked when comm1 does not contain it.
Throw_TooSoon(r) ==
  /\ \/ /\ pc[r] = "ask_initial"
        /\ Complete(r, Pair(r).initial)
        /\ ~Reduced(r, Pair(r).initial)
     \/ /\ pc[r] = "ask_final"
        /\ Complete(r, Pair(r).final)
        /\ ~Reduced(r, Pair(r).final)
  /\ Finish(r, Empty(THROW))
  /\ UNCHANGED <<script, calls, collected>>

\* Neither contains the other: std::runtime_error.  Outside of comm2 this is
\* known as soon as comm1 has answered.
Throw(r) ==
  /\ \/ /\ pc[r] = "ask_initial"
        /\ r \notin Members(Pair(r).final)
        /\ Complete(r, Pair(r).initial)
        /\ ~Reduced(r, Pair(r).initial)
     \/ /\ pc[r] = "ask_final"
        /\ Complete(r, Pair(r).final)
        /\ ~Reduced(r, Pair(r).final)
  /\ Finish(r, Empty(THROW))
  /\ UNCHANGED <<script, calls, collected>>

\* Mutant: the second pair of maps is filled like the first.
FinalMap_CopyPaste(infos) ==
  {<<p.inter, p.initial>> : p \in {x \in infos : x.initial # INVALID_RANK_ID}}

\* _inter_comm_to_initial_comm, and _inter_comm_to_final_comm; the other two
\* maps are their inverses
InitialMap(infos) ==
  {<<p.inter, p.initial>> : p \in {x \in infos : x.initial # INVALID_RANK_ID}}
FinalMap(infos) ==
  {<<p.inter, p.final>> : p \in {x \in infos : x.final # INVALID_RANK_ID}}

\* The MPI_Allgather over c returns, and the rank maps are filled
Gather(r, c) ==
  /\ Complete(r, c)
  /\ Finish(r, [comm |-> c, to_initial |-> InitialMap(Collected(r, c)),
                to_final |-> FinalMap(Collected(r, c))])
  /\ UNCHANGED <<script, calls, collected>>

Construct(r) == \/ pc[r] = "gather_initial" /\ Gather(r, Pair(r).initial)
                \/ pc[r] = "gather_final" /\ Gather(r, Pair(r).final)

Done == \A r \in Rank : pc[r] = "call" /\ round[r] > Len(script)

\* The program is over.
Terminating == Done /\ UNCHANGED vars

Step(r) ==
  \/ Outside(r)
  \/ AskInitial(r)
  \/ AskFinal(r)
  \/ TakeInitial(r)
  \/ AskNext(r)
  \/ TakeFinal(r)
  \/ Throw(r)
  \/ Construct(r)

Next == (\E r \in Rank : Step(r)) \/ Terminating

Spec == Init /\ [][Next]_vars

\* Each process keeps running, and a complete collective returns.
FairSpec == Spec /\ \A r \in Rank : WF_vars(Step(r))

-----------------------------------------------------------------------------
\* Contributions that MPI matches with each other are to the same collective
\* of the same construction, whatever path each process took through its
\* conditions to get there.
LikeWithLike ==
  \A p, q \in collected :
    p.comm = q.comm /\ p.call = q.call => p.what = q.what /\ p.round = q.round

\* What a construction should give process r
Outcome(s, r) ==
  CASE r \notin Members(s.initial) \cup Members(s.final) -> NULL
    [] r \in Members(s.initial) \cup Members(s.final) /\ Nested(s) -> InterComm(s)
    [] OTHER -> THROW

\* All the processes of the two communicators come to the same conclusion:
\* the communicator that contains the other, or all the exception.
SameConclusion ==
  \A r \in Rank : \A k \in 1..Len(built[r]) :
    built[r][k].comm = Outcome(script[k], r)

\* What a map says of a rank in the inter-communicator, INVALID_RANK_ID for
\* nullopt
Lookup(map, rank) ==
  IF \E entry \in map : entry[1] = rank
  THEN (CHOOSE entry \in map : entry[1] = rank)[2]
  ELSE INVALID_RANK_ID

get_initial_comm_rank(object, inter_comm_rank) == Lookup(object.to_initial, inter_comm_rank)
get_final_comm_rank(object, inter_comm_rank) == Lookup(object.to_final, inter_comm_rank)

\* Every constructed object translates ranks as the communicators have them:
\* it knows each member of the inter-communicator under its own ranks in the
\* other two, and has no rank there for one that is not in it.
RankMapsTranslate ==
  \A r \in Rank : \A k \in 1..Len(built[r]) :
    LET o == built[r][k]
        s == script[k]
    IN o.comm \in Comm => \A q \in Members(o.comm) :
         /\ get_initial_comm_rank(o, RankId[o.comm][q]) = RankId[s.initial][q]
         /\ get_final_comm_rank(o, RankId[o.comm][q]) = RankId[s.final][q]

\* The communicator of the collective that r is in
Within(r) == IF pc[r] \in {"ask_initial", "gather_initial"}
             THEN Pair(r).initial
             ELSE Pair(r).final

\* The processes never all wait for each other: until the program is over one
\* of them has a construction to begin, or is in a collective that all the
\* members have entered and can go on from there.
NoDeadlock ==
  Done \/ \E r \in Rank : Calls(r) \/ (pc[r] # "call" /\ Complete(r, Within(r)))

\* No program of constructions gets stuck in a collective that one of its
\* members never enters.
Termination == <>Done
=============================================================================

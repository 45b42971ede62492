---------------------------- MODULE ShuffleCalls ----------------------------
(***************************************************************************)
(* What a program that uses the library fixes before any message is sent:  *)
(* the shuffle() calls that every process makes, in the same order (the    *)
(* library is used from SPMD programs, and every call it makes on a        *)
(* communicator is collective).                                            *)
(***************************************************************************)
EXTENDS Communicators

CONSTANT Scripts   \* the programs: sequences of shuffle calls

(***************************************************************************)
(* One call shuffle(values, initial_context, final_context).  "plan" is    *)
(* what the two distributions decide: <<i, f>> is in it when some block of *)
(* the grid overlay belongs to processor i of the initial grid and to      *)
(* processor f of the final grid.  "equal" is the result of comparing the  *)
(* two contexts (same distribution and same communicator handle).          *)
(***************************************************************************)
Pairs(initial, final) ==
  {<<RankId[initial][q], RankId[final][r]>> :
      q \in Members(initial), r \in Members(final)}

CallRecord == [initial : Comm, final : Comm, equal : BOOLEAN,
               plan : SUBSET (Int \X Int)]

IsCall(s) ==
  /\ s \in CallRecord
  /\ s.plan \subseteq Pairs(s.initial, s.final)
  /\ Nested(s)
  /\ s.equal => /\ s.initial = s.final
                /\ \A p \in s.plan : p[1] = p[2]

\* InterCommunicator.tla is about the pairs that are not nested.
ASSUME ScriptAssumption ==
  \A sc \in Scripts :
    /\ sc \in Seq(CallRecord)
    /\ \A k \in 1..Len(sc) : IsCall(sc[k])

\* Mutant: whoever has nothing to send and nothing to receive returns at once.
IsLocal_Idle(s, r) ==
  \/ s.equal
  \/ \A p \in s.plan : p[1] # RankId[s.initial][r] /\ p[2] # RankId[s.final][r]

\* The call is over at once on r: equal contexts, or r in neither of them.
IsLocal(s, r) == s.equal \/ r \notin Members(s.initial) \cup Members(s.final)

\* Those that must meet in the call's collective operations.
Participants(s) == {r \in Rank : ~IsLocal(s, r)}

\* The piece of data that process q contributes to the k-th call, and the
\* whole of what process r should hold when its k-th call returns.
Piece(q, k) == [sender |-> q, round |-> k]

Expected(s, k, r) ==
  {[source |-> RankId[s.initial][q], data |-> Piece(q, k)] :
      q \in {p \in Members(s.initial) :
                <<RankId[s.initial][p], RankId[s.final][r]>> \in s.plan}}
=============================================================================

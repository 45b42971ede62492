--------------------------- MODULE MCCollectives ---------------------------
(***************************************************************************)
(* Inter-communicators: three processes and five communicators, all three, *)
(* two overlapping pairs (one numbered against the order of the            *)
(* processes), a single process, and all three again in another order.     *)
(* Every program of two constructions is among the initial states, so      *)
(* every kind of pair (nested either way, same members, overlapping,       *)
(* disjoint) is followed by every other.                                   *)
(*                                                                         *)
(* Dynamic processes: two grow to four and to six, three shrink to one,    *)
(* and five to three and to one; any two may be those that leave.          *)
(***************************************************************************)
EXTENDS Collectives

MCRank == {"p", "q", "r"}
MCComm == {"world", "turned", "pq", "qr", "r"}
MCRankId ==
  [c \in MCComm |->
     CASE c = "world" -> [p |-> 0, q |-> 1, r |-> 2]
       [] c = "turned" -> [p |-> 2, q |-> 0, r |-> 1]
       [] c = "pq" -> [p |-> 1, q |-> 0, r |-> INVALID_RANK_ID]
       [] c = "qr" -> [p |-> INVALID_RANK_ID, q |-> 0, r |-> 1]
       [] c = "r" -> [p |-> INVALID_RANK_ID, q |-> INVALID_RANK_ID, r |-> 0]]

MCPair == [initial : MCComm, final : MCComm]
MCScripts == {<<a, b>> : a \in MCPair, b \in MCPair} \cup {<<>>}

MCSpare == <<"d", "e", "f", "g">>
Job(processes, num_adaptations, reduction) ==
  [processes |-> processes, num_adaptations |-> num_adaptations, reduction |-> reduction]
MCJobs ==
  {Job(<<>>, 0, FALSE), Job(<<"a", "b">>, 2, FALSE),
   Job(<<"a", "b", "c">>, 1, TRUE), Job(<<"a", "b", "c", "h", "i">>, 2, TRUE)}
=============================================================================

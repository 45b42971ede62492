--------------------------- MODULE Communicators ---------------------------
(***************************************************************************)
(* The processes and the communicators that the program has created.  A    *)
(* communicator is known through MPI_Comm_rank alone: RankId[c][r] is the  *)
(* rank of process r in c, or INVALID_RANK_ID when r is not in c.          *)
(***************************************************************************)
EXTENDS Integers, Sequences, FiniteSets

CONSTANTS
  Rank,     \* the processes of MPI_COMM_WORLD
  Comm,     \* the communicators the program has created
  RankId    \* RankId[c][r]: the rank of process r in communicator c

INVALID_RANK_ID == -1

\* mpi::belongs_to_comm, as the set of the processes for which it holds
Members(c) == {r \in Rank : RankId[c][r] # INVALID_RANK_ID}

\* MPI numbers the members of a communicator without repetition.
ASSUME RankAssumption ==
  /\ IsFiniteSet(Rank)
  /\ RankId \in [Comm -> [Rank -> Nat \cup {INVALID_RANK_ID}]]
  /\ \A c \in Comm : \A q, r \in Members(c) :
        RankId[c][q] = RankId[c][r] => q = r

(***************************************************************************)
(* An operation between two communicators, s.initial and s.final, is       *)
(* supported when one of them contains the other.                          *)
(***************************************************************************)
Nested(s) == \/ Members(s.final) \subseteq Members(s.initial)
             \/ Members(s.initial) \subseteq Members(s.final)

\* The communicator over which its messages travel: whichever of the two
\* contains the other, the initial one when they have the same members
\* (create_inter_communicator asks comm1 first).
InterComm(s) == IF Members(s.final) \subseteq Members(s.initial)
                THEN s.initial
                ELSE s.final
=============================================================================

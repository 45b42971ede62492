------------------------------ MODULE Exchange ------------------------------
(***************************************************************************)
(* The message protocol of shuffle() when it uses GeneralDataExchanger     *)
(* (general_data_exchanger.hpp), for a program of several shuffles in a    *)
(* row.  Every message has tag 0 and every receive asks for any source and *)
(* any tag, so what keeps one shuffle's data out of the next one's result  *)
(* is the order of collectives, sends, receives and completions alone.     *)
(*                                                                         *)
(* A piece of data is the pair of its sender and of the shuffle it belongs *)
(* to: the blocks inside a message are the subject of BlockExchange.tla.   *)
(***************************************************************************)
EXTENDS ShuffleCalls

CONSTANTS
  Serialized,   \* T is sent as bytes (concepts::NeedsSerialization)
  EagerModes    \* whether MPI may complete a send before it is matched

ASSUME SendAssumption ==
  /\ Serialized \in BOOLEAN
  /\ EagerModes \subseteq BOOLEAN

VARIABLES
  script,     \* the program
  round,      \* round[r]: the call that r makes next, or is in
  pc,         \* pc[r]: where r is in that call
  calls,      \* calls[r][c]: the MPI_Allgathers that r has entered on c
  gathered,   \* what the processes have contributed to MPI_Allgathers
  info,       \* info[r]: info_all_ranks, as r's last MPI_Allgather left it
  unsent,     \* unsent[r]: final ranks not reached yet in async_send's loop
  requests,   \* requests[r]: send_requests
  expected,   \* expected[r]: num_messages_to_receive, less those received
  received,   \* received[r]: the pieces copied into new_local_values
  network,    \* the messages sent and not yet received
  results     \* results[r]: what the calls that returned gave r

vars == <<script, round, pc, calls, gathered, info, unsent, requests,
          expected, received, network, results>>

Call(r) == script[round[r]]
Inter(r) == InterComm(Call(r))

(***************************************************************************)
(* The rank maps of class InterCommunicator, read off info_all_ranks.      *)
(***************************************************************************)
get_inter_comm_rank(r, f) == (CHOOSE p \in info[r] : p.second = f).inter
\* Mutant: the rank over which the message came is taken for the initial one.
get_initial_comm_rank_Untranslated(r, i) == (CHOOSE p \in info[r] : p.inter = i).inter

get_initial_comm_rank(r, i) == (CHOOSE p \in info[r] : p.inter = i).first

\* Own ranks in the communicators of the call (INVALID_RANK_ID outside).
InitialId(r) == RankId[Call(r).initial][r]
FinalId(r) == RankId[Call(r).final][r]

\* Final ranks that r has blocks for, initial ranks that r has blocks from
Destinations(r) == {p[2] : p \in {x \in Call(r).plan : x[1] = InitialId(r)}}
Sources(r) == {p[1] : p \in {x \in Call(r).plan : x[2] = FinalId(r)}}

\* Mutant: a process of both communicators is taken to keep some data.
KeepsData_AnyMember(r) ==
  InitialId(r) # INVALID_RANK_ID /\ FinalId(r) # INVALID_RANK_ID

KeepsData(r) == FinalId(r) \in Destinations(r)

-----------------------------------------------------------------------------
Init ==
  /\ script \in Scripts
  /\ round = [r \in Rank |-> 1]
  /\ pc = [r \in Rank |-> "call"]
  /\ calls = [r \in Rank |-> [c \in Comm |-> 0]]
  /\ gathered = {}
  /\ info = [r \in Rank |-> {}]
  /\ unsent = [r \in Rank |-> {}]
  /\ requests = [r \in Rank |-> {}]
  /\ expected = [r \in Rank |-> 0]
  /\ received = [r \in Rank |-> {}]
  /\ network = {}
  /\ results = [r \in Rank |-> <<>>]

\* shuffle() with equal contexts, or on a process in neither communicator
ReturnImmediately(r) ==
  /\ pc[r] = "call"
  /\ round[r] <= Len(script)
  /\ IsLocal(Call(r), r)
  /\ results' = [results EXCEPT
                   ![r] = Append(@, IF KeepsData(r)
                                    THEN {[source |-> InitialId(r),
                                           data |-> Piece(r, round[r])]}
                                    ELSE {})]
  /\ round' = [round EXCEPT ![r] = @ + 1]
  /\ UNCHANGED <<script, pc, calls, gathered, info, unsent, requests,
                 expected, received, network>>

\* The InterCommunicator constructor up to its MPI_Allgather: the calls of
\* one communicator are matched by MPI in the order in which each makes them
EnterAllgather(r) ==
  /\ pc[r] = "call"
  /\ round[r] <= Len(script)
  /\ ~IsLocal(Call(r), r)
  /\ gathered' = gathered \cup
                   {[comm |-> Inter(r), call |-> calls[r][Inter(r)] + 1,
                     inter |-> RankId[Inter(r)][r],
                     first |-> InitialId(r), second |-> FinalId(r)]}
  /\ calls' = [calls EXCEPT ![r][Inter(r)] = @ + 1]
  /\ pc' = [pc EXCEPT ![r] = "allgather"]
  /\ UNCHANGED <<script, round, info, unsent, requests, expected, received,
                 network, results>>

Contributions(r) == {p \in gathered : /\ p.comm = Inter(r)
                                      /\ p.call = calls[r][Inter(r)]}

\* MPI_Allgather returns once every member has contributed; then the blocks
\* are packed, the own piece set apart and the receptions counted
LeaveAllgather(r) ==
  /\ pc[r] = "allgather"
  /\ \A q \in Members(Inter(r)) :
        \E p \in Contributions(r) : p.inter = RankId[Inter(r)][q]
  /\ info' = [info EXCEPT ![r] = Contributions(r)]
  /\ unsent' = [unsent EXCEPT ![r] = Destinations(r) \ {FinalId(r)}]
  /\ requests' = [requests EXCEPT ![r] = {}]
  /\ expected' = [expected EXCEPT ![r] = Cardinality(Sources(r))
                                           - (IF KeepsData(r) THEN 1 ELSE 0)]
  /\ received' = [received EXCEPT ![r] = {}]
  /\ pc' = [pc EXCEPT ![r] = "send"]
  /\ UNCHANGED <<script, round, calls, gathered, network, results>>

\* One turn of async_send's loop over a map, in ascending order of its keys
Isend(r) ==
  /\ pc[r] = "send"
  /\ \E f \in unsent[r], eager \in EagerModes :
       LET m == [comm |-> Inter(r), from |-> RankId[Inter(r)][r],
                 to |-> get_inter_comm_rank(r, f),
                 data |-> Piece(r, round[r]), eager |-> eager]
       IN /\ \A g \in unsent[r] : f <= g
          /\ network' = network \cup {m}
          /\ requests' = [requests EXCEPT ![r] = @ \cup {m}]
          /\ unsent' = [unsent EXCEPT ![r] = @ \ {f}]
  /\ pc' = [pc EXCEPT ![r] = IF Serialized THEN "wait" ELSE "send"]
  /\ UNCHANGED <<script, round, calls, gathered, info, expected, received,
                 results>>

\* MPI_Wait or MPI_Waitall over all of r's requests may return
AllComplete(r) == \A m \in requests[r] : m.eager \/ m \notin network

\* The serializing async_send waits before it returns its request
WaitSerialized(r) ==
  /\ pc[r] = "wait"
  /\ AllComplete(r)
  /\ pc' = [pc EXCEPT ![r] = "send"]
  /\ UNCHANGED <<script, round, calls, gathered, info, unsent, requests,
                 expected, received, network, results>>

\* Mutant: the own piece is set apart and never copied.
CopyOwn_Forgets(r) ==
  /\ pc[r] = "send"
  /\ unsent[r] = {}
  /\ pc' = [pc EXCEPT ![r] = "receive"]
  /\ UNCHANGED <<script, round, calls, gathered, info, unsent, requests,
                 expected, received, network, results>>

\* Everything is sent: the own piece goes straight from the send buffer
CopyOwn(r) ==
  /\ pc[r] = "send"
  /\ unsent[r] = {}
  /\ received' = [received EXCEPT
                    ![r] = IF KeepsData(r)
                           THEN @ \cup {[source |-> get_initial_comm_rank(
                                                       r, RankId[Inter(r)][r]),
                                         data |-> Piece(r, round[r])]}
                           ELSE @]
  /\ pc' = [pc EXCEPT ![r] = "receive"]
  /\ UNCHANGED <<script, round, calls, gathered, info, unsent, requests,
                 expected, network, results>>

\* A message that MPI_Probe(MPI_ANY_SOURCE, MPI_ANY_TAG) on r may find: MPI
\* does not let a message overtake an earlier one of the same sender
Probed(r, m) ==
  /\ m.comm = Inter(r)
  /\ m.to = RankId[Inter(r)][r]
  /\ ~ \E n \in network : /\ n.comm = m.comm
                          /\ n.to = m.to
                          /\ n.from = m.from
                          /\ n.data.round < m.data.round

\* Mutant: a message is probed and never received.
Receive_ProbeOnly(r) ==
  /\ pc[r] = "receive"
  /\ expected[r] > 0
  /\ \E m \in network : Probed(r, m)
  /\ UNCHANGED vars

\* One turn of the receive loop: probe, receive from the source found, and
\* copy the data over the blocks that the plan expects from that source
Receive(r) ==
  /\ pc[r] = "receive"
  /\ expected[r] > 0
  /\ \E m \in network :
       /\ Probed(r, m)
       /\ received' = [received EXCEPT
                         ![r] = @ \cup {[source |-> get_initial_comm_rank(r, m.from),
                                         data |-> m.data]}]
       /\ network' = network \ {m}
  /\ expected' = [expected EXCEPT ![r] = @ - 1]
  /\ UNCHANGED <<script, round, pc, calls, gathered, info, unsent, requests,
                 results>>

\* Mutant: the receive loop ends one message early.
Waitall_OneEarly(r) ==
  /\ pc[r] = "receive"
  /\ expected[r] <= 1
  /\ AllComplete(r)
  /\ results' = [results EXCEPT ![r] = Append(@, received[r])]
  /\ round' = [round EXCEPT ![r] = @ + 1]
  /\ pc' = [pc EXCEPT ![r] = "call"]
  /\ UNCHANGED <<script, calls, gathered, info, unsent, requests, expected,
                 received, network>>

\* MPI_Waitall, and exchange_impl returns new_local_values
Waitall(r) ==
  /\ pc[r] = "receive"
  /\ expected[r] <= 0
  /\ AllComplete(r)
  /\ results' = [results EXCEPT ![r] = Append(@, received[r])]
  /\ round' = [round EXCEPT ![r] = @ + 1]
  /\ pc' = [pc EXCEPT ![r] = "call"]
  /\ UNCHANGED <<script, calls, gathered, info, unsent, requests, expected,
                 received, network>>

Done == \A r \in Rank : pc[r] = "call" /\ round[r] > Len(script)

\* The program is over.
Terminating == Done /\ UNCHANGED vars

Step(r) ==
  \/ ReturnImmediately(r)
  \/ EnterAllgather(r)
  \/ LeaveAllgather(r)
  \/ Isend(r)
  \/ WaitSerialized(r)
  \/ CopyOwn(r)
  \/ Receive(r)
  \/ Waitall(r)

Next == (\E r \in Rank : Step(r)) \/ Terminating

Spec == Init /\ [][Next]_vars

\* Each process keeps running, and MPI makes progress: an operation whose
\* condition is met returns.
FairSpec == Spec /\ \A r \in Rank : WF_vars(Step(r))

-----------------------------------------------------------------------------
Exchanging(r) == pc[r] \in {"send", "wait", "receive"}

Contribution == [comm : Comm, call : Nat, inter : Nat, first : Int, second : Int]
Message == [comm : Comm, from : Int, to : Int, eager : BOOLEAN,
            data : [sender : Rank, round : Nat]]
Received == [source : Int, data : [sender : Rank, round : Nat]]

\* Every variable keeps the shape the code gives it.
TypeOK ==
  /\ script \in Scripts
  /\ round \in [Rank -> Nat \ {0}]
  /\ pc \in [Rank -> {"call", "allgather", "send", "wait", "receive"}]
  /\ \A r \in Rank : pc[r] # "call" => round[r] <= Len(script)
  /\ calls \in [Rank -> [Comm -> Nat]]
  /\ gathered \subseteq Contribution
  /\ info \in [Rank -> SUBSET Contribution]
  /\ unsent \in [Rank -> SUBSET Int]
  /\ requests \in [Rank -> SUBSET Message]
  /\ expected \in [Rank -> Int]
  /\ received \in [Rank -> SUBSET Received]
  /\ network \subseteq Message
  /\ results \in [Rank -> Seq(SUBSET Received)]

\* Two processes whose MPI_Allgather calls MPI matches with each other (the
\* same communicator, the same position in its order) are in the same
\* shuffle: no process's early return in some shuffle shifts the pairing.
CollectivesAgree ==
  \A q, r \in Rank :
    ( /\ pc[q] = "allgather"
      /\ pc[r] = "allgather"
      /\ Inter(q) = Inter(r)
      /\ calls[q][Inter(q)] = calls[r][Inter(r)] ) => round[q] = round[r]

\* What a receive loop that asks for any source and any tag copies into the
\* result is data of the shuffle in progress, filed under the blocks of the
\* process that sent it.
NoCrossTalk ==
  \A r \in Rank : Exchanging(r) =>
    \A x \in received[r] :
      /\ x.data.round = round[r]
      /\ x.source = RankId[Call(r).initial][x.data.sender]

\* A message in flight is always addressed to a process that is still in the
\* shuffle it belongs to and that still counts on it.
NoStrayMessage ==
  \A m \in network : \E r \in Rank :
    /\ pc[r] # "call"
    /\ m.comm = Inter(r)
    /\ m.to = RankId[Inter(r)][r]
    /\ m.data.round = round[r]
    /\ Exchanging(r) => expected[r] > 0

\* What a shuffle returned is what the two distributions promise, complete.
ResultsComplete ==
  \A r \in Rank : \A k \in 1..Len(results[r]) :
    results[r][k] = Expected(script[k], k, r)

\* Every process comes to the end of the program.
Termination == <>Done

\* The refinement mapping: a call has begun on r once r has entered its
\* MPI_Allgather.
begunBar == [r \in Rank |-> IF pc[r] = "call" THEN round[r] - 1 ELSE round[r]]

\* The protocol implements the promise of Redistribution.tla: what a program
\* sees of its calls never tells that there are messages.
Abstract == INSTANCE Redistribution WITH begun <- begunBar

ImplementsRedistribution == Abstract!Spec
=============================================================================

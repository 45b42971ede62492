------------------------------ MODULE Shuffle ------------------------------
(***************************************************************************)
(* The function shuffle() (shuffle.hpp) in a program of several calls.  A  *)
(* call is a context of BlockExchange with a few fields more: comms, the   *)
(* two communicators; data, what is passed to the call, "array" for the    *)
(* program's array and "ranks" for one that has the caller's rank at every *)
(* place of the array returned last; keep, whether the result is the       *)
(* program's array from then on; and nested, in a program whose arrays are *)
(* vectors of vectors.  How the messages of one call keep clear of those   *)
(* of the next is the subject of Exchange; here a call begins when the one *)
(* before it is over.                                                      *)
(***************************************************************************)
EXTENDS Scatter

CONSTANT Programs  \* sequences of calls

RankStatus == {"JOINING", "LEAVING", "STAYING", "INACTIVE"}

IsCall(c) ==
  /\ IsContext(c)
  /\ c.data \in {"array", "ranks"} /\ c.keep \in BOOLEAN
  /\ "status" \in DOMAIN c => c.status \in [Proc -> RankStatus]
  /\ <<>> \notin {c.comms[1], c.comms[2]}
  /\ c.comms[1] = c.comms[2] => c.initial_id = c.final_id

ASSUME ProgramAssumption ==
  \A s \in Programs : s \in Seq(ToSet(s)) /\ s # <<>> /\ \A k \in DOMAIN s : IsCall(s[k])

VARIABLES
  later,  \* the calls still to come
  array   \* array[p]: the array of the program, [data, extents]

shuffle_vars == <<vars, later, array>>

ShuffleInit ==
  /\ Init
  /\ \E s \in Programs : s[1] = context /\ later = Tail(s)
  /\ array = local
-----------------------------------------------------------------------------
IsOutside(p) ==
  context.initial_id[p] = INVALID_RANK_ID /\ context.final_id[p] = INVALID_RANK_ID

\* A call that returns before any block is derived
Return(p, values) ==
  /\ new' = [new EXCEPT ![p] = values]
  /\ pc' = [pc EXCEPT ![p] = "done"]
  /\ UNCHANGED <<context, overlay, local, blocks, package, awaiting, network>>

\* The communicator of a context as p knows it: null where p is not in it
comm(p, k) ==
  IF <<context.initial_id, context.final_id>>[k][p] = INVALID_RANK_ID
  THEN <<>>
  ELSE context.comms[k]

\* Mutant: contexts are equal if their distributions are.
EqualContexts_Distribution(p) == EqualDistributions(context.initial, context.final)

\* Context::operator==, where p evaluates it
EqualContexts(p) ==
  comm(p, 1) = comm(p, 2) /\ EqualDistributions(context.initial, context.final)

\* Equal contexts: the values go back to the caller as they are.
ReturnEqual(p) == pc[p] = "begin" /\ EqualContexts(p) /\ Return(p, get_1D_data(local[p]))

\* A process in neither communicator gets nothing.
ReturnNothing(p) == pc[p] = "begin" /\ ~EqualContexts(p) /\ IsOutside(p) /\ Return(p, <<>>)

Prepare(p) ==
  /\ ~EqualContexts(p) /\ ~IsOutside(p)
  /\ Begin(p) \/ Pack(p)

\* exchange() of the exchanger selected
ExchangeGeneral(p) ==
  /\ IsGeneral
  /\ Send(p) \/ Receive(p) \/ Finish(p)

ExchangeScatter(p) ==
  /\ ~IsGeneral
  /\ ScatterCounts(p) \/ ScatterValues(p)

\* A value of an array that has a process's rank at every place
Mark(rank) == [d \in 1..N |-> rank]

\* The extents that a call returns along with the values
new_dimensions(p) ==
  CASE EqualContexts(p) -> mdspan_dimensions(local[p])
    [] ~EqualContexts(p) /\ IsOutside(p) -> [d \in 1..N |-> 0]
    [] OTHER -> get_dimensions(blocks[p].receive, N)

\* An array that has the rank of p at every place of what p has been given
Marked(p, rank) ==
  LET dims == new_dimensions(p)
  IN  mdspan([x \in 0..calc_total_num_values(dims)-1 |-> Mark(rank)], dims)

\* shuffle() of a vector of vectors passes on the values and the extents of
\* the rows that the program has made of an array.
FromRows(a) ==
  LET matrix == to_matrix(a.data, a.extents)
  IN  mdspan(to_vector(matrix), ContainerDimensions(matrix))

Passed(a) == IF "nested" \in DOMAIN context THEN FromRows(a) ELSE a

NextCall ==
  /\ \A p \in Proc : pc[p] = "done"
  /\ later # <<>>
  /\ context' = Head(later) /\ later' = Tail(later)
  /\ overlay' = OverlayOf(context')
  /\ array' = IF context.keep
              THEN [p \in Proc |-> Passed(mdspan(new[p], new_dimensions(p)))]
              ELSE array
  /\ local' = IF context'.data = "array"
              THEN array'
              ELSE [p \in Proc |-> Passed(Marked(p, context'.initial_id[p]))]
  /\ pc' = [p \in Proc |-> "begin"]
  /\ new' = [p \in Proc |-> <<>>]
  /\ UNCHANGED <<blocks, package, awaiting, network>>

ShuffleOver == (\A p \in Proc : pc[p] = "done") /\ later = <<>> /\ UNCHANGED shuffle_vars

ShuffleNext ==
  \/ \E p \in Proc :
       /\ \/ ReturnEqual(p) \/ ReturnNothing(p) \/ Prepare(p)
          \/ ExchangeGeneral(p) \/ ExchangeScatter(p)
       /\ UNCHANGED <<later, array>>
  \/ NextCall
  \/ ShuffleOver

ShuffleSpec == ShuffleInit /\ [][ShuffleNext]_shuffle_vars
-----------------------------------------------------------------------------
\* What a process should have at the end of the call
Due(p) ==
  LET values == DataOf(context.final, context.final_id[p])
  IN  IF context.data = "array" THEN values ELSE [x \in DOMAIN values |-> Mark(Holder(context.initial, values[x]))]

\* Every call of a program leaves each process with the values of its blocks
\* under the final distribution, each in its place, whichever exchanger is
\* selected, however values travel and in whatever order messages arrive;
\* outside of the final communicator there is nothing.
Shuffled == \A p \in Proc : pc[p] = "done" => new[p] = Due(p)

\* The extents returned with the values are those of the process's array,
\* whose indices are all there, or those of an array without values.
ExtentsFit ==
  \A p \in Proc : pc[p] = "done" =>
    /\ DOMAIN new[p] = 0..calc_total_num_values(new_dimensions(p))-1
    /\ new_dimensions(p) = IF new[p] = <<>>
                           THEN [d \in 1..N |-> 0]
                           ELSE LocalDimensions(context.final, context.final_id[p])
-----------------------------------------------------------------------------
(***************************************************************************)
(* Why AwaitedAreSent holds: an inductive invariant                        *)
(***************************************************************************)
\* A block of the overlay is p's before the call and q's after it.
Owes(p, q) ==
  \E k \in DOMAIN overlay.origin :
    /\ get_owner_coordinates(overlay.origin[k]) = RankInformation(p).initial
    /\ get_owner_coordinates(overlay.target[k]) = RankInformation(q).final

Participates(p) == ~EqualContexts(p) /\ ~IsOutside(p)
HasSent(p) == pc[p] \in {"receive", "done"}
UnderWay(p, q) == \E m \in network : m.from = p /\ m.to = q

\* The processes whose message to p is still to come
Pending(p) == {q \in Proc \ {p} : Owes(q, p) /\ (HasSent(q) => UnderWay(q, p))}

\* The call is one of a program, and so are those to come.
CallInv ==
  /\ \E s \in Programs : context \in ToSet(s) /\ later \in Seq(ToSet(s))
  /\ overlay = OverlayOf(context)

\* What p has derived and counts on when it has come so far
PhaseOf(p) ==
  /\ pc[p] \in {"pack", "send", "receive", "throw"} => Participates(p)
  /\ pc[p] \in {"pack", "send"} => blocks[p] = get_send_and_receive_blocks(p)
  /\ pc[p] = "send" => DOMAIN package[p].assignments = Destinies(blocks[p].send)
  /\ awaiting[p] # 0 => pc[p] = "receive"

PhaseInv ==
  /\ pc \in [Proc -> {"begin", "pack", "send", "receive", "done", "throw"}]
  /\ DOMAIN blocks = Proc /\ DOMAIN package = Proc /\ DOMAIN awaiting = Proc
  /\ \A p \in Proc : PhaseOf(p)

\* Each message is the only one between two processes, and is owed.
NetworkInv ==
  /\ ~IsGeneral => network = {}
  /\ \A m \in network :
       /\ m.from \in Proc /\ m.to \in Proc \ {m.from}
       /\ Participates(m.from) /\ HasSent(m.from) /\ Owes(m.from, m.to)
  /\ \A m, n \in network : m.from = n.from /\ m.to = n.to => m = n

\* What has been sent to p is there until p has begun to receive; then p
\* counts on what is still to come.
AwaitingInv ==
  IsGeneral => \A p \in Proc : Participates(p) =>
    IF HasSent(p)
    THEN awaiting[p] = Cardinality(Pending(p))
    ELSE \A q \in Proc \ {p} : Owes(q, p) /\ HasSent(q) => UnderWay(q, p)

ShuffleInv == CallInv /\ PhaseInv /\ NetworkInv /\ AwaitingInv
=============================================================================

--------------------------- MODULE BlockExchange ---------------------------
(***************************************************************************)
(* What GeneralDataExchanger moves: the blocks that each process sends and *)
(* awaits, the buffer it packs, the message of each destination and where  *)
(* its values are put on arrival.  Exchange models how the messages        *)
(* travel; here they are only delivered, in any order.  Sender and         *)
(* receiver derive the layout of a message each on its own, one from the   *)
(* blocks of the final and one from those of the initial distribution.     *)
(***************************************************************************)
EXTENDS Grid

CONSTANTS
  Proc,      \* the members of the inter-communicator
  Contexts,  \* the exchanges: records [initial, final, initial_id, final_id,
             \* type, ...], with more fields in Shuffle
  SerializableTypes,  \* aggregates, and types with a function serialize
  FixedSizeTypes,  \* types named with RESHUFFLE_HAS_FIXED_SIZE_SERIALIZABLE
  Unset      \* a value-initialised element, T{}

\* The types that have an MPI datatype; MPIType has others too, for which
\* to_mpi_datatype() gives an error.
to_mpi_datatype ==
  {"int", "float", "double", "byte", "char", "unsigned char", "short", "unsigned short",
   "unsigned int", "long", "unsigned long", "long long", "unsigned long long", "bool",
   "long double"}

FundamentalType(T) == T \in (to_mpi_datatype \ {"byte"}) \cup {"signed char", "wchar_t", "char8_t"}
MPIType(T) == FundamentalType(T) \/ T = "byte"
NeedsSerialization(T) == ~MPIType(T)
Serializable(T) == T \in SerializableTypes
FixedSizeSerializable(T) == T \in FixedSizeTypes
Exchangeable(T) == FundamentalType(T) \/ Serializable(T)

\* A distribution gives every place of an array to a processor of its grid.
IsDistribution(distribution) ==
  LET grid == distribution.grid
      layouts == distribution.layouts
  IN  /\ grid \in Seq(Nat \ {0}) /\ grid # <<>>
      /\ DOMAIN layouts = DOMAIN grid
      /\ \A d \in DOMAIN grid :
           /\ IsLayout(layouts[d])
           /\ \A k \in DOMAIN layouts[d] : layouts[d][k].owner \in 0..grid[d]-1

\* check_bounds, of two distributions of one array
SameArray(a, b) ==
  /\ Len(a.grid) = Len(b.grid)
  /\ \A d \in DOMAIN a.grid : /\ First(a.layouts[d]) = First(b.layouts[d])
                               /\ End(a.layouts[d]) = End(b.layouts[d])

\* In a context the ranks of both communicators are those of its processor
\* grid, or more; INVALID_RANK_ID is the rank of a process that is not in it.
IsContext(c) ==
  /\ Exchangeable(c.type) /\ (MPIType(c.type) => c.type \in to_mpi_datatype)
  /\ IsDistribution(c.initial) /\ IsDistribution(c.final) /\ SameArray(c.initial, c.final)
  /\ c.initial_id \in [Proc -> Int] /\ c.final_id \in [Proc -> Int]
  /\ \A r \in 0..calc_total_num_values(c.initial.grid)-1 : \E p \in Proc : c.initial_id[p] = r
  /\ \A r \in 0..calc_total_num_values(c.final.grid)-1 : \E p \in Proc : c.final_id[p] = r
  /\ \A p, q \in Proc :
       /\ c.initial_id[p] = c.initial_id[q] /\ c.initial_id[p] # INVALID_RANK_ID => p = q
       /\ c.final_id[p] = c.final_id[q] /\ c.final_id[p] # INVALID_RANK_ID => p = q

ASSUME ContextAssumption == \A c \in Contexts : IsContext(c)

VARIABLES
  context,    \* the exchange
  overlay,    \* the blocks of its grid overlay, [origin, target]
  pc,         \* pc[p]: "begin", "pack", "send", "receive", "done" or "throw"
  local,      \* local[p]: _local_values, an mdspan: [data, extents]
  blocks,     \* blocks[p]: [send, receive], blocks_to_send and blocks_to_receive
  package,    \* package[p]: [buffer, assignments], the result of get_send_package
  new,        \* new[p]: new_local_values, by index
  awaiting,   \* awaiting[p]: the messages still to be received
  network     \* the messages under way, records [from, to, values]

vars == <<context, overlay, pc, local, blocks, package, new, awaiting, network>>

N == Len(context.initial.grid)

\* How a value travels: "plain", or as bytes, whose number is the same for
\* all values ("fixed") or not ("bytes")
kind ==
  IF ~NeedsSerialization(context.type)
  THEN "plain"
  ELSE IF FixedSizeSerializable(context.type) THEN "fixed" ELSE "bytes"

SendReceiveBlocks(send, receive) == [send |-> send, receive |-> receive]

OverlayOf(c) ==
  LET o == GridOverlay(c.initial, c.final)
  IN  [origin |-> OriginBlocks(o), target |-> TargetBlocks(o)]

Init ==
  /\ context \in Contexts
  /\ overlay = OverlayOf(context)
  /\ pc = [p \in Proc |-> "begin"]
  /\ local = [p \in Proc |-> mdspan(DataOf(context.initial, context.initial_id[p]),
                                    LocalDimensions(context.initial, context.initial_id[p]))]
  /\ blocks = [p \in Proc |-> SendReceiveBlocks(<<>>, <<>>)]
  /\ package = [p \in Proc |-> [buffer |-> <<>>, assignments |-> <<>>]]
  /\ new = [p \in Proc |-> <<>>]
  /\ awaiting = [p \in Proc |-> 0]
  /\ network = {}
-----------------------------------------------------------------------------
\* The coordinates of p in both processor grids
RankInformation(p) ==
  [initial |-> get_processor_coordinates(context.initial_id[p], context.initial.grid),
   final |-> get_processor_coordinates(context.final_id[p], context.final.grid)]

\* The places of the blocks that have an owner, and the blocks at some places
BlocksOf(bs, owner) == {k \in DOMAIN bs : get_owner_coordinates(bs[k]) = owner}
AtPlaces(bs, places) == [k \in 1..Cardinality(places) |-> bs[Kth(places, k - 1)]]

\* The blocks of the overlay that p has, in final coordinates, and those it
\* will have, in initial coordinates
get_send_and_receive_blocks(p) ==
  LET sent == BlocksOf(overlay.origin, RankInformation(p).initial)
      received == BlocksOf(overlay.target, RankInformation(p).final)
  IN  SendReceiveBlocks(make_contiguous(AtPlaces(overlay.target, sent), N),
                        make_contiguous(AtPlaces(overlay.origin, received), N))

\* check_bounds of extract_data, of a block in an array
InBounds(block, dims) ==
  \A d \in DOMAIN dims : block[d].left < dims[d] /\ block[d].right =< dims[d]

extract_data(array, block) ==
  [k \in 0..get_num_elements(block)-1 |-> element(array, Point(block, k))]

\* The buffer with values put into it from a position on
CopyTo(buffer, position, values) ==
  [x \in DOMAIN buffer |->
     IF x - position \in DOMAIN values THEN values[x - position] ELSE buffer[x]]

NumElements(bs) == FoldLeft(LAMBDA sum, b : sum + get_num_elements(b), 0, bs)

Destiny(block) == get_processor_id(get_owner_coordinates(block), context.final.grid)

\* How many values go to destinations before one
Upto(bs, r) == NumElements(SelectSeq(bs, LAMBDA b : Destiny(b) < r))

Destinies(bs) == {Destiny(bs[k]) : k \in DOMAIN bs}

\* group_by_processor: the interval of every destination in the buffer
Assignments(bs) ==
  [r \in Destinies(bs) |-> [left |-> Upto(bs, r), right |-> Upto(bs, r + 1)]]

\* Mutant: every block is put at the start of its destination's interval.
num_elements_packed_None(bs, k) == 0

\* What has been packed for the destination of the kth block before it
num_elements_packed(bs, k) ==
  NumElements(SelectSeq(SubSeq(bs, 1, k - 1), LAMBDA b : Destiny(b) = Destiny(bs[k])))

get_starting_positions(assignments) == [r \in DOMAIN assignments |-> assignments[r].left]

Packed(array, bs) ==
  LET start == get_starting_positions(Assignments(bs))
      Put(buffer, k) ==
        CopyTo(buffer, start[Destiny(bs[k])] + num_elements_packed(bs, k),
               extract_data(array, bs[k]))
  IN  FoldLeft(Put, [x \in 0..size(array)-1 |-> Unset], [k \in DOMAIN bs |-> k])

get_send_package(array, bs) == [buffer |-> Packed(array, bs), assignments |-> Assignments(bs)]

Begin(p) ==
  /\ pc[p] = "begin"
  /\ blocks' = [blocks EXCEPT ![p] = get_send_and_receive_blocks(p)]
  /\ pc' = [pc EXCEPT ![p] = "pack"]
  /\ UNCHANGED <<context, overlay, local, package, new, awaiting, network>>

\* A block that is not within the local values makes get_send_package throw;
\* local values that fit the initial distribution never do.
Pack(p) ==
  /\ pc[p] = "pack"
  /\ LET bs == blocks[p].send
     IN  IF \A k \in DOMAIN bs : InBounds(bs[k], local[p].extents)
         THEN /\ package' = [package EXCEPT ![p] = get_send_package(local[p], bs)]
              /\ pc' = [pc EXCEPT ![p] = "send"]
         ELSE /\ pc' = [pc EXCEPT ![p] = "throw"]
              /\ UNCHANGED package
  /\ UNCHANGED <<context, overlay, local, blocks, new, awaiting, network>>

\* Mutant: the final processor grid is asked for the sources.
FromSource_FinalGrid(p, rank) ==
  SelectSeq(blocks[p].receive,
            LAMBDA b : get_processor_id(get_owner_coordinates(b), context.final.grid) = rank)

\* The blocks that p awaits from the process whose initial rank is given
FromSource(p, rank) ==
  SelectSeq(blocks[p].receive,
            LAMBDA b : get_processor_id(get_owner_coordinates(b), context.initial.grid) = rank)

\* Mutant: the values of a block are put side by side, whatever its rows.
Cell_NoStride(p, b, j) == layout_right(Point(b, 0), get_dimensions(blocks[p].receive, N)) + j

\* The index in new_local_values of the jth value of a block
Cell(p, b, j) == layout_right(Point(b, j), get_dimensions(blocks[p].receive, N))

\* How many values of a message belong to the blocks before the kth
Dropped(bs, k) == NumElements(SubSeq(bs, 1, k - 1))

\* process_received_blocks: the values of a message go, in order, to its
\* blocks one after the other (copy_data).
Unpack(array, p, values, bs) ==
  LET Copy(a, k) ==
        LET inside == 0..get_num_elements(bs[k])-1
        IN  [x \in DOMAIN a |->
               IF \E j \in inside : Cell(p, bs[k], j) = x
               THEN values[Dropped(bs, k) + CHOOSE j \in inside : Cell(p, bs[k], j) = x]
               ELSE a[x]]
  IN  FoldLeft(Copy, array, [k \in DOMAIN bs |-> k])

\* The values of an interval of the send buffer
Slice(p, interval) ==
  [x \in 0..get_length(interval)-1 |-> package[p].buffer[interval.left + x]]

-----------------------------------------------------------------------------
(***************************************************************************)
(* Values in a message                                                     *)
(***************************************************************************)
\* A serialized value is the sequence of its bytes, one after the other.
get_num_bytes(value) == IF kind = "fixed" THEN 2 ELSE 1 + (value[1] % 2)

serialize(values) ==
  FlattenSeq([k \in DOMAIN values |->
    [b \in 1..get_num_bytes(values[k]) |-> [value |-> values[k], byte |-> b]]])

deserialize(bytes) ==
  LET firsts == SelectSeq(bytes, LAMBDA b : b.byte = 1)
  IN  [k \in DOMAIN firsts |-> firsts[k].value]

\* What async_send of an interval of the buffer puts into a message
async_send(p, interval) ==
  LET values == [k \in 1..get_length(interval) |-> Slice(p, interval)[k - 1]]
  IN  IF kind = "plain" THEN values ELSE serialize(values)

\* The elements that a probed message is said to have: values, or bytes
num_elements(message) == Len(message.values)
ReceivedMessageInformation(message) ==
  [source |-> message.from, num_elements |-> num_elements(message)]

\* What block_receive returns: the source and the values, by index
block_receive(message) ==
  LET info == ReceivedMessageInformation(message)
      buffer == SubSeq(message.values, 1, info.num_elements)
      values == IF kind = "plain" THEN buffer ELSE deserialize(buffer)
  IN  [source |-> info.source, values |-> [x \in 0..Len(values)-1 |-> values[x + 1]]]
-----------------------------------------------------------------------------
\* Mutant: one message for every block.
Sources_Blocks(p) == DOMAIN blocks[p].receive

\* get_number_of_receive_messages counts them.
Sources(p) == {get_owner_coordinates(blocks[p].receive[k]) : k \in DOMAIN blocks[p].receive}

\* The messages are sent, and the own part is copied from the buffer.
Send(p) ==
  /\ pc[p] = "send"
  /\ LET to == package[p].assignments
         me == context.final_id[p]
         blank == [x \in 0..NumElements(blocks[p].receive)-1 |-> Unset]
     IN  /\ network' = network \cup
              {[from |-> p, to |-> q, values |-> async_send(p, to[context.final_id[q]])] :
                 q \in {r \in Proc : context.final_id[r] \in DOMAIN to \ {me}}}
         /\ IF me \in DOMAIN to
            THEN /\ awaiting' = [awaiting EXCEPT ![p] = Cardinality(Sources(p)) - 1]
                 /\ new' = [new EXCEPT ![p] =
                      Unpack(blank, p, Slice(p, to[me]), FromSource(p, context.initial_id[p]))]
            ELSE /\ awaiting' = [awaiting EXCEPT ![p] = Cardinality(Sources(p))]
                 /\ new' = [new EXCEPT ![p] = blank]
  /\ pc' = [pc EXCEPT ![p] = "receive"]
  /\ UNCHANGED <<context, overlay, local, blocks, package>>

\* Any message that has arrived is received and put in its place.
Receive(p) ==
  /\ pc[p] = "receive"
  /\ awaiting[p] > 0
  /\ \E m \in network :
       /\ m.to = p
       /\ network' = network \ {m}
       /\ LET received == block_receive(m)
          IN  new' = [new EXCEPT ![p] =
                Unpack(@, p, received.values, FromSource(p, context.initial_id[received.source]))]
  /\ awaiting' = [awaiting EXCEPT ![p] = @ - 1]
  /\ UNCHANGED <<context, overlay, pc, local, blocks, package>>

Finish(p) ==
  /\ pc[p] = "receive"
  /\ awaiting[p] = 0
  /\ pc' = [pc EXCEPT ![p] = "done"]
  /\ UNCHANGED <<context, overlay, local, blocks, package, new, awaiting, network>>
-----------------------------------------------------------------------------
IsGeneral == select_exchanger(context.initial, context.final) = "general"

\* A send buffer holds every local value once, in intervals that leave no
\* gap: no value is dropped, repeated or left unset when it is packed.
BufferIsPermutation ==
  \A p \in Proc : pc[p] = "send" =>
    LET b == package[p].buffer
        a == package[p].assignments
    IN  /\ {b[x] : x \in DOMAIN b} = ToSet(local[p].data)
        /\ UNION {Indices(a[r]) : r \in DOMAIN a} = DOMAIN b
        /\ \A r, s \in DOMAIN a : r < s => a[r].right =< a[s].left

\* A message has as many values as its receiver has room for in the blocks
\* that it awaits from that source; those blocks exist, and each of their
\* values has a place of its own within the extents of the new array, as
\* mdspan asserts.
MessagesFit ==
  \A m \in network : pc[m.to] \in {"send", "receive"} =>
    LET bs == FromSource(m.to, context.initial_id[m.from])
        dims == get_dimensions(blocks[m.to].receive, N)
    IN  /\ bs # <<>>
        /\ Cardinality(DOMAIN block_receive(m).values) = NumElements(bs)
        /\ \A k \in DOMAIN bs : \A j \in 0..get_num_elements(bs[k])-1 :
             check_all_indices(Point(bs[k], j), dims)

\* A value once received is not written over by a later message of the call.
NoOverwrite ==
  [][\A p \in Proc : pc[p] = "receive" => \A x \in DOMAIN new[p] :
       new[p][x] # Unset => x \in DOMAIN new'[p] /\ new'[p][x] = new[p][x]]_vars

\* When everybody has sent, the messages that a process still counts on are
\* under way: nobody waits for a message that no one sends, nor leaves one
\* behind.
AwaitedAreSent ==
  IsGeneral /\ (\A q \in Proc : pc[q] \in {"receive", "done"}) =>
    \A p \in Proc : awaiting[p] = Cardinality({m \in network : m.to = p})
=============================================================================

------------------------------ MODULE Scatter ------------------------------
(***************************************************************************)
(* ScatterExchanger, which shuffle() selects when one process has all the  *)
(* values and the final distribution is block-wise.  Every process derives *)
(* its blocks and packs its buffer as in GeneralDataExchanger (Begin and   *)
(* Pack of BlockExchange); then the root deals its buffer out with two     *)
(* collectives, MPI_Scatter for the number of values of each process and   *)
(* MPI_Scatterv for the values.  What arrives is the result: no block is   *)
(* put anywhere.  Values that need serialization take the same way as      *)
(* bytes, but for the root's own, which it sets apart.                     *)
(***************************************************************************)
EXTENDS BlockExchange

\* The rank in the inter-communicator, which is the initial communicator if
\* that has the processes of the final one, and the final one otherwise
inter_id(p) ==
  IF \A q \in Proc : context.final_id[q] # INVALID_RANK_ID
                       => context.initial_id[q] # INVALID_RANK_ID
  THEN context.initial_id[p]
  ELSE context.final_id[p]

\* root_inter_comm: the process that owns the first block
Root ==
  CHOOSE p \in Proc :
    context.initial_id[p] = get_processor_id(get_owner_coordinates(overlay.origin[1]), context.initial.grid)

NumRanks == Cardinality({p \in Proc : inter_id(p) # INVALID_RANK_ID})

\* The values of the root's buffer from one position up to another
Values(from, to) == [k \in 1..to - from |-> package[Root].buffer[from + k - 1]]

\* values_per_rank at the root.  Its keys are ranks of the final communicator;
\* block_scatter reads it by rank of the inter-communicator.
values_per_rank ==
  LET a == package[Root].assignments IN [r \in DOMAIN a |-> get_length(a[r])]

\* find of a map, with a value for nullopt
find(map, key, otherwise) == IF key \in DOMAIN map THEN map[key] ELSE otherwise

num_values(rank) == find(values_per_rank, rank, 0)

\* The partial sums: where the values, or the bytes, of a rank begin
displacement(amounts, rank) ==
  FoldLeft(LAMBDA sum, r : sum + amounts[r - 1], 0, [r \in 1..rank |-> r])

num_values_per_rank == [r \in 0..NumRanks-1 |-> num_values(r)]

Part(rank) ==
  LET start == displacement(num_values_per_rank, rank) IN Values(start, start + num_values(rank))
-----------------------------------------------------------------------------
\* The bytes of the values of each rank, but for the root's own
bytes_per_rank(rank) == IF rank = inter_id(Root) THEN 0 ELSE Len(serialize(Part(rank)))

\* get_send_buffer_and_mapping: part by part, all but the root's
bytes_to_send ==
  FlattenSeq([r \in 1..NumRanks |->
                IF r - 1 = inter_id(Root) THEN <<>> ELSE serialize(Part(r - 1))])

\* That of values of one size: what comes before the root's, and after
fixed_bytes_to_send ==
  LET start == displacement(num_values_per_rank, inter_id(Root))
      end == start + num_values(inter_id(Root))
  IN  serialize(Values(0, start))
        \o serialize(Values(end, Cardinality(DOMAIN package[Root].buffer)))

\* How many values, or bytes, each rank is told to receive
Amount(rank) == IF kind = "plain" THEN num_values(rank) ELSE bytes_per_rank(rank)

\* What block_scatter returns on p
Dealt(p) ==
  LET start == displacement([r \in 0..NumRanks-1 |-> Amount(r)], inter_id(p))
      bytes == IF kind = "fixed" THEN fixed_bytes_to_send ELSE bytes_to_send
  IN  CASE kind = "plain" -> Values(start, start + awaiting[p])
        [] kind # "plain" /\ p = Root -> Part(inter_id(p))
        [] OTHER -> deserialize(SubSeq(bytes, start + 1, start + awaiting[p]))
-----------------------------------------------------------------------------
\* MPI_Scatter: a process gets its number of values once the root is there.
ScatterCounts(p) ==
  /\ pc[p] = "send"
  /\ p = Root \/ pc[Root] \in {"receive", "done"}
  /\ awaiting' = [awaiting EXCEPT ![p] = Amount(inter_id(p))]
  /\ pc' = [pc EXCEPT ![p] = "receive"]
  /\ UNCHANGED <<context, overlay, local, blocks, package, new, network>>

\* MPI_Scatterv: a part of the root's buffer is the result.
ScatterValues(p) ==
  /\ pc[p] = "receive"
  /\ p = Root \/ pc[Root] = "done"
  /\ LET values == Dealt(p)
     IN  new' = [new EXCEPT ![p] = [x \in 0..Len(values)-1 |-> values[x + 1]]]
  /\ awaiting' = [awaiting EXCEPT ![p] = 0]
  /\ pc' = [pc EXCEPT ![p] = "done"]
  /\ UNCHANGED <<context, overlay, local, blocks, package, network>>
=============================================================================

----------------------------- MODULE RankOrder -----------------------------
(***************************************************************************)
(* get_optimal_communicator and get_optimal_communicator_greedy: how much  *)
(* each rank of the initial grid sends to each rank of the final grid, the *)
(* orders that the strategies find for it, and the communicators that      *)
(* get_reordered_comm makes of these orders.  Both contexts have one       *)
(* communicator, whose processes are known by their ranks.  All of them    *)
(* compute the same orders, so one of them does here.                      *)
(***************************************************************************)
EXTENDS Strategies, Grid

CONSTANTS
  Contexts,  \* records [initial, final, size]: two distributions and the
             \* number of processes of the communicator
  Matrices,  \* weights that are set by hand (_test_set_matrix)
  NoContext

VARIABLES
  context,    \* the contexts
  new_rank    \* new_rank[s][q]: the rank of process q in the communicator
              \* of strategy s, "hungarian" or "greedy"

rank_vars == <<vars, greedy_vars, context, new_rank>>

Size(distribution) == get_num_processors(distribution.grid)
Process == 0..context.size-1

\* The blocks of the overlay: from which rank, to which and of what size
Transfers(initial, final) ==
  LET overlay == GridOverlay(initial, final)
      origin == OriginBlocks(overlay)
      target == get_coordinates_owners_target_grid(overlay)
  IN  {[block |-> k,
        from |-> map_indices(get_owner_coordinates(origin[k]), initial.grid),
        to |-> map_indices(target[k], final.grid),
        size |-> get_num_elements(origin[k])] : k \in DOMAIN origin}

\* Mutant: each block counts as one.
compute_communication_weights_Blocks(initial, final) ==
  LET transfers == Transfers(initial, final)
  IN  [r \in 1..Size(initial) |->
         [c \in 1..Size(final) |->
            Cardinality({t \in transfers : t.from = r - 1 /\ t.to = c - 1})]]

compute_communication_weights(initial, final) ==
  LET transfers == Transfers(initial, final)
  IN  [r \in 1..Size(initial) |->
         [c \in 1..Size(final) |->
            MapThenSumSet(LAMBDA t : t.size,
                          {t \in transfers : t.from = r - 1 /\ t.to = c - 1})]]

ASSUME ContextAssumption ==
  /\ \A m \in Matrices : IsMatrix(m)
  /\ \A c \in Contexts :
       /\ IsMatrix(compute_communication_weights(c.initial, c.final))
       /\ c.size \in Nat /\ c.size >= Size(c.initial) /\ c.size >= Size(c.final)
       /\ c # NoContext

RankInit ==
  /\ \/ /\ context \in Contexts
        /\ matrix = compute_communication_weights(context.initial, context.final)
     \/ /\ context = NoContext
        /\ matrix \in Matrices
  /\ new_rank = <<>>
  /\ StartBoth
-----------------------------------------------------------------------------
\* Mutant: the communicator is split without a key.
position_in_final_communicator_None(new_order, q) == 0

\* The position of a process in the order
position_in_final_communicator(new_order, q) ==
  CHOOSE x \in DOMAIN new_order : new_order[x] = q

\* MPI_Comm_split numbers the processes by their keys and, where these are
\* equal, by their ranks.
MPI_Comm_split(key) ==
  [q \in Process |-> Cardinality({s \in Process : key[s] < key[q] \/ (key[s] = key[q] /\ s < q)})]

\* get_reordered_comm.  A process whose rank is past the end of the order
\* reads its key from past the end of a vector.
get_reordered_comm(strategy, new_order) ==
  \E garbage \in [Process \ DOMAIN new_order -> -1..context.size] :
    LET key == [q \in Process |-> IF q \in DOMAIN new_order
                                  THEN position_in_final_communicator(new_order, q)
                                  ELSE garbage[q]]
    IN  new_rank' = [s \in DOMAIN new_rank \cup {strategy} |->
                       IF s = strategy THEN MPI_Comm_split(key) ELSE new_rank[s]]

Reorder ==
  /\ greedy_pc = "done"
  /\ context # NoContext
  /\ \/ new_rank = <<>> /\ get_reordered_comm("hungarian", order)
     \/ DOMAIN new_rank = {"hungarian"} /\ get_reordered_comm("greedy", greedy_order)
  /\ UNCHANGED <<vars, greedy_vars, context>>

RankTerminating ==
  /\ greedy_pc = "done"
  /\ context = NoContext \/ DOMAIN new_rank = {"hungarian", "greedy"}
  /\ UNCHANGED rank_vars

RankNext ==
  \/ (HungarianStep \/ GreedyStep) /\ UNCHANGED <<context, new_rank>>
  \/ Reorder
  \/ RankTerminating

RankSpec == RankInit /\ [][RankNext]_rank_vars

\* A function that runs comes to its next step.
FairRankSpec ==
  /\ RankSpec
  /\ WF_rank_vars(HungarianStep /\ UNCHANGED <<context, new_rank>>)
  /\ WF_rank_vars(GreedyStep /\ UNCHANGED <<context, new_rank>>)
-----------------------------------------------------------------------------
(***************************************************************************)
(* The matrix against its meaning: how many values a rank has now and      *)
(* another one will have, each value found through the blocks it is in.    *)
(***************************************************************************)
Values ==
  LET extents == [d \in DOMAIN context.initial.grid |-> End(context.initial.layouts[d])]
  IN  {[d \in DOMAIN extents |-> Digit(x, extents, d)] :
         x \in 0..calc_total_num_values(extents)-1}

\* What the assignment is chosen by is the number of values that really move
\* from one rank to the other, in any dimension and for any blocks.
WeightsCountValues ==
  context # NoContext /\ pc = "done" =>
    \A r \in 1..rows, c \in 1..cols :
      matrix[r][c] = Cardinality({x \in Values : /\ Holder(context.initial, x) = r - 1
                                                 /\ Holder(context.final, x) = c - 1})

\* How many values stay on their process when each has the rank f[q]
Stays(f) ==
  SumTo([r \in 1..rows |-> IF f[r - 1] < cols THEN matrix[r][f[r - 1] + 1] ELSE 0], rows)

\* The communicator of the Hungarian order leaves as many values as any other
\* would where they are: the least is sent.
KeepsMost ==
  new_rank # <<>> =>
    \A f \in Bijection(Process, Process) : Stays(f) =< Stays(new_rank["hungarian"])

\* An order that is its own inverse, as when processes change places two by
\* two, and that no process is past the end of
IsSwap(new_order) ==
  DOMAIN new_order = Process /\ \A q \in Process : new_order[new_order[q]] = q

\* A communicator leaves as much in place as its order promises when the order
\* is a swap: the Hungarian the most possible, the greedy what its rows chose.
SwapsKeepMost ==
  new_rank # <<>> /\ rows =< cols =>
    /\ IsSwap(order) => KeepsMost
    /\ "greedy" \in DOMAIN new_rank /\ IsSwap(greedy_order) =>
         Stays(new_rank["greedy"]) = Kept(greedy_order)
=============================================================================

---------------------------- MODULE HeatTransfer ----------------------------
(***************************************************************************)
(* The heat simulation (demos/heat_transfer), a program that changes the   *)
(* number of its processes while it runs.  A grid is spread over the       *)
(* current processes.  In every iteration each exchanges the layers at its *)
(* borders with its neighbours, the first left and right and then up and   *)
(* down, the root gathers the grid and records it, and each applies one    *)
(* Jacobi step.  Every few iterations all the processes of MPI_COMM_WORLD  *)
(* meet, and the grid is moved to the next number of processes.            *)
(*                                                                         *)
(* The layers travel on MPI_COMM_WORLD from one process to another,        *)
(* whatever the others do.  A shuffle() is one step of all that take part: *)
(* they meet in the collective calls of its InterCommunicator before any   *)
(* of them leaves it, and what it gives them is the subject of Shuffle.    *)
(***************************************************************************)
EXTENDS GridOperations

CONSTANT Simulations  \* the command lines: records [num_ranks, num_iterations,
                      \* num_rows, num_columns, adaptation_frequency], the
                      \* first from mpirun

\* get_processor_grid, where MPI_Dims_create makes the two dimensions as close
\* as it can and the first the greater
get_processor_grid(num_ranks) ==
  LET second == CHOOSE d \in 1..num_ranks :
                  /\ num_ranks % d = 0 /\ d * d =< num_ranks
                  /\ \A e \in d+1..num_ranks : num_ranks % e = 0 => e * e > num_ranks
  IN  <<num_ranks \div second, second>>

\* Every processor of a grid has values.  One that had none would throw: get_row
\* and get_column of its empty grid give no layer to send.
EveryoneHasValues(s) ==
  \A n \in 1..s.num_ranks : \A d \in 1..2 :
    LET dims == <<s.num_rows, s.num_columns>>
    IN  Len(create_evenly_blocks(dims[d], get_processor_grid(n)[d])) = get_processor_grid(n)[d]

ASSUME SimulationAssumption ==
  \A s \in Simulations :
    /\ s.num_ranks \in Nat \ {0} /\ s.num_iterations \in Nat \ {0}
    /\ s.num_rows \in Nat \ {0} /\ s.num_columns \in Nat \ {0}
    /\ s.adaptation_frequency \in Nat \ {0}
    /\ EveryoneHasValues(s)

VARIABLES
  flags,         \* the command line
  pc,            \* pc[p]: where p is in the loop
  iteration,     \* iteration[p]: i in p
  current_comm,  \* current_comm[p]: how many processes, the first ones, are in
                 \* p's current communicator, or 0 for MPI_COMM_NULL
  local_grid,    \* local_grid[p], with its ghost layers
  rank_grid,     \* rank_grid[p]: on the root, the rank that has each value
  num_adaptations,  \* a local variable, the same in all
  network,       \* network[<<p, q>>]: the layers on their way from p to q
  files          \* the files written: from their names to what they hold

vars == <<flags, pc, iteration, current_comm, local_grid, rank_grid, num_adaptations,
          network, files>>

Processes == 0..flags.num_ranks-1
Channels == Processes \X Processes
hot == 4 ^ flags.num_iterations
-----------------------------------------------------------------------------
(***************************************************************************)
(* Communicators of the first n processes, as n                            *)
(***************************************************************************)
\* Mutant: MPI numbers the processes anew in a Cartesian communicator.
get_cartesian_comm_Reordered(n) == [p \in 0..n-1 |-> n - 1 - p]

\* The ranks of the first n processes.  The communicator is made with reorder,
\* which lets MPI number them anew; the program relies on its not doing so.
get_cartesian_comm(n) == [p \in 0..n-1 |-> p]

\* What each process has of get_comm: the number of processes, or none
get_comm(n) == [p \in Processes |-> IF p < n THEN n ELSE 0]

Rank(p, n) == IF p < n THEN get_cartesian_comm(n)[p] ELSE INVALID_RANK_ID
Root(n) == CHOOSE p \in 0..n-1 : Rank(p, n) = 0

\* MPI_Cart_coords, and MPI_Cart_rank or MPI_PROC_NULL outside of the grid: ranks
\* follow each other along the last dimension.
MPI_Cart_coords(rank, grid) == <<rank \div grid[2], rank % grid[2]>>
MPI_Cart_rank(at, grid) ==
  IF at[1] \in 0..grid[1]-1 /\ at[2] \in 0..grid[2]-1
  THEN at[1] * grid[2] + at[2]
  ELSE MPI_PROC_NULL

Neighbours(up, down, left, right) == [up |-> up, down |-> down, left |-> left, right |-> right]

\* Mutant: left and right lie along the first dimension.
get_neighbours_Transposed(at, grid) ==
  Neighbours(MPI_Cart_rank(<<at[1], at[2] - 1>>, grid), MPI_Cart_rank(<<at[1], at[2] + 1>>, grid),
             MPI_Cart_rank(<<at[1] - 1, at[2]>>, grid), MPI_Cart_rank(<<at[1] + 1, at[2]>>, grid))

\* get_neighbours: MPI_Cart_shift by one along each dimension
get_neighbours(at, grid) ==
  Neighbours(MPI_Cart_rank(<<at[1] - 1, at[2]>>, grid), MPI_Cart_rank(<<at[1] + 1, at[2]>>, grid),
             MPI_Cart_rank(<<at[1], at[2] - 1>>, grid), MPI_Cart_rank(<<at[1], at[2] + 1>>, grid))

ProcessorInfo(p, n) ==
  IF p < n
  THEN get_neighbours(MPI_Cart_coords(Rank(p, n), get_processor_grid(n)),
                      get_processor_grid(n))
  ELSE Neighbours(MPI_PROC_NULL, MPI_PROC_NULL, MPI_PROC_NULL, MPI_PROC_NULL)

get_next_num_ranks == (num_adaptations % flags.num_ranks) + 1
-----------------------------------------------------------------------------
(***************************************************************************)
(* shuffle() of grids without ghost layers, from what m processes hold to  *)
(* what n processes are to hold, and to_grid of what it gives each of them *)
(***************************************************************************)
\* What each of n ranks holds under a distribution
Held(distribution, n) ==
  [r \in 0..n-1 |-> [data |-> DataOf(distribution, r), dims |-> LocalDimensions(distribution, r)]]

\* For every simulation and number of ranks: spread over all, and in the root
Spread ==
  [s \in Simulations |-> [n \in 1..s.num_ranks |->
     Held(BlockWise(<<s.num_rows, s.num_columns>>, get_processor_grid(n)), n)]]
AllInRoot ==
  [s \in Simulations |-> [n \in 1..s.num_ranks |->
     Held(get_all_values_in_root(<<s.num_rows, s.num_columns>>), n)]]

shuffle(grids, from, m, to, n) ==
  LET Sent(q) == from[Rank(q, m)].data
      Value(v) == LET q == CHOOSE q \in 0..m-1 : \E x \in DOMAIN Sent(q) : Sent(q)[x] = v
                  IN  to_vector(grids[q])[CHOOSE x \in DOMAIN Sent(q) : Sent(q)[x] = v]
      Given(part) == to_grid([x \in DOMAIN part.data |-> Value(part.data[x])], part.dims)
  IN  [p \in Processes |-> IF p < n THEN Given(to[Rank(p, n)]) ELSE <<>>]

gather_in_root(grids, n) == shuffle(grids, Spread[flags][n], n, AllInRoot[flags][n], n)

get_dimensions_without_ghost_layers(grid, processor) ==
  LET dims == GridDimensions(grid)
  IN  IF 0 \in {dims[1], dims[2]}
      THEN <<0, 0>>
      ELSE <<dims[1] - Has(processor.up) - Has(processor.down),
             dims[2] - Has(processor.left) - Has(processor.right)>>

get_local_rank_grid(dims, rank) == [r \in 1..dims[1] |-> [c \in 1..dims[2] |-> rank]]

\* Mutant: the ranks are gathered before the grid is moved.
RankGrids_Before(grids, n) ==
  gather_in_root([p \in Processes |->
    get_local_rank_grid(GridDimensions(remove_ghost_layers(local_grid[p], ProcessorInfo(p, current_comm[0]))),
                        Rank(p, current_comm[0]))], current_comm[0])

RankGrids(grids, n) ==
  gather_in_root([p \in Processes |->
    get_local_rank_grid(get_dimensions_without_ghost_layers(grids[p], ProcessorInfo(p, n)),
                        Rank(p, n))], n)
-----------------------------------------------------------------------------
Init ==
  /\ flags \in Simulations
  /\ pc = [p \in Processes |-> "barrier"]
  /\ iteration = [p \in Processes |-> 0]
  /\ current_comm = get_comm(1)
  /\ local_grid = [p \in Processes |->
       IF p < 1 THEN initialize_grid(flags.num_rows, flags.num_columns, hot) ELSE <<>>]
  /\ rank_grid = RankGrids(local_grid, 1)
  /\ num_adaptations = 0
  /\ network = [c \in Channels |-> <<>>]
  /\ files = <<>>  \* the function with an empty domain

\* From one iteration of the loop to the next
NextIteration(p) ==
  /\ iteration' = [iteration EXCEPT ![p] = @ + 1]
  /\ pc' = [pc EXCEPT ![p] =
       IF iteration'[p] = flags.num_iterations THEN "done"
       ELSE IF iteration'[p] % flags.adaptation_frequency = 0 THEN "barrier" ELSE "iterate"]

AllAtBarrier == \A p \in Processes : pc[p] = "barrier"

\* The grid is moved to n processes.  Process 0, always in the current
\* communicator, tells the others the size of that.
do_adaptation(n) ==
  LET m == current_comm[0]
      bare == [p \in Processes |-> remove_ghost_layers(local_grid[p], ProcessorInfo(p, m))]
      moved == shuffle(bare, Spread[flags][m], m, Spread[flags][n], n)
      grids == [p \in Processes |-> add_ghost_layers(moved[p], ProcessorInfo(p, n))]
  IN  /\ local_grid' = grids
      /\ rank_grid' = RankGrids(grids, n)

\* After the barrier on MPI_COMM_WORLD
Adapt ==
  /\ AllAtBarrier
  /\ do_adaptation(get_next_num_ranks)
  /\ current_comm' = get_comm(get_next_num_ranks)
  /\ num_adaptations' = num_adaptations + 1
  /\ pc' = [p \in Processes |-> "iterate"]
  /\ UNCHANGED <<flags, iteration, network, files>>

\* A process outside of the current communicator
Skip(p) ==
  /\ pc[p] = "iterate" /\ current_comm[p] = 0
  /\ NextIteration(p)
  /\ UNCHANGED <<flags, current_comm, local_grid, rank_grid, num_adaptations, network, files>>
-----------------------------------------------------------------------------
(***************************************************************************)
(* exchange_ghost_layers: twice, messages to two neighbours are sent and   *)
(* messages from both are awaited.  MPI_PROC_NULL sends nothing.  Sends    *)
(* end by themselves, which leaves the most freedom to those that wait.    *)
(***************************************************************************)
\* p's messages to two neighbours, in channels that keep the order
Post(p, neighbours, layers) ==
  network' = [c \in Channels |->
    IF \E k \in 1..2 : c = <<p, neighbours[k]>>
    THEN Append(network[c], layers[CHOOSE k \in 1..2 : c = <<p, neighbours[k]>>])
    ELSE network[c]]

\* MPI_Waitall of p on the messages of two neighbours
Awaited(p, neighbours) == {c \in Channels : \E k \in 1..2 : c = <<neighbours[k], p>>}
Arrived(p, neighbours) == \A c \in Awaited(p, neighbours) : network[c] # <<>>
Take(p, neighbours) ==
  network' = [c \in Channels |->
    IF c \in Awaited(p, neighbours) THEN Tail(network[c]) ELSE network[c]]

Received(p, q) == Head(network[<<q, p>>])

\* p's grid with the layer received, if there is a neighbour q to send one
With(location, grid, p, q) ==
  IF q = MPI_PROC_NULL THEN grid ELSE set_ghost_layer(grid, Received(p, q), location)

SetGrid(p, grid) == local_grid' = [local_grid EXCEPT ![p] = grid]
Goto(p, where) == pc' = [pc EXCEPT ![p] = where]

Info(p) == ProcessorInfo(p, current_comm[p])
Horizontal(p) == <<Info(p).left, Info(p).right>>
Vertical(p) == <<Info(p).up, Info(p).down>>

\* The columns and the rows next to the ghost layers
Columns(grid) == [k \in 1..2 |-> get_column(grid, IF k = 1 THEN 1 ELSE GridDimensions(grid)[2] - 2)]

Rows(grid) == [k \in 1..2 |-> get_row(grid, IF k = 1 THEN 1 ELSE GridDimensions(grid)[1] - 2)]

SendLeftRight(p) ==
  /\ pc[p] = "iterate" /\ current_comm[p] # 0
  /\ Post(p, Horizontal(p), Columns(local_grid[p]))
  /\ Goto(p, "left_right")
  /\ UNCHANGED <<flags, iteration, current_comm, local_grid, rank_grid, num_adaptations, files>>

AwaitLeftRight(p) ==
  /\ pc[p] = "left_right" /\ Arrived(p, Horizontal(p))
  /\ Take(p, Horizontal(p))
  /\ SetGrid(p, With("RIGHT", With("LEFT", local_grid[p], p, Info(p).left), p, Info(p).right))
  /\ Goto(p, "between")
  /\ UNCHANGED <<flags, iteration, current_comm, rank_grid, num_adaptations, files>>

SendBottomUp(p) ==
  /\ pc[p] = "between"
  /\ Post(p, Vertical(p), Rows(local_grid[p]))
  /\ Goto(p, "bottom_up")
  /\ UNCHANGED <<flags, iteration, current_comm, local_grid, rank_grid, num_adaptations, files>>

\* Mutant: there is no MPI_Waitall.
AwaitBottomUp_NoWait(p) ==
  /\ pc[p] = "bottom_up"
  /\ Goto(p, "gather")
  /\ UNCHANGED <<flags, iteration, current_comm, local_grid, rank_grid, num_adaptations,
                 network, files>>

AwaitBottomUp(p) ==
  /\ pc[p] = "bottom_up" /\ Arrived(p, Vertical(p))
  /\ Take(p, Vertical(p))
  /\ SetGrid(p, With("BOTTOM", With("TOP", local_grid[p], p, Info(p).up), p, Info(p).down))
  /\ Goto(p, "gather")
  /\ UNCHANGED <<flags, iteration, current_comm, rank_grid, num_adaptations, files>>
-----------------------------------------------------------------------------
get_num_digits(num) == CHOOSE k \in 1..num+1 : num < 10^k /\ (k = 1 \/ num >= 10^(k - 1))

\* The name of a file is the number of its time step, with leading zeros.
get_filename(number) ==
  LET width == get_num_digits(flags.num_iterations)
      digits == get_num_digits(number)
      length == IF digits > width THEN digits ELSE width
  IN  [k \in 1..length |-> (number \div 10^(length - k)) % 10]

write_header(ny, nx) == [DIMENSIONS |-> <<ny, nx>>, POINT_DATA |-> nx * ny]

\* The numbers of a grid one after the other; where a line ends has no meaning.
write_data(grid) == FlattenSeq(grid)
write_rank_data(ranks) == FlattenSeq(ranks)

write_file(grid, ranks) ==
  LET dims == GridDimensions(grid)
  IN  [header |-> write_header(dims[2], dims[1]),
       ScalarField |-> write_data(grid), RankId |-> write_rank_data(ranks)]

\* The files that a process writes: only rank 0 writes one.
record_timestep(number, grid, rank, ranks) ==
  IF rank # 0 THEN <<>> ELSE get_filename(number) :> write_file(grid, ranks)

AllAtGather == \A p \in 0..current_comm[0]-1 : pc[p] = "gather"

\* gather_in_root of all the current processes; the root records a time step.
RecordTimestep ==
  LET n == current_comm[0]
      bare == [p \in Processes |-> remove_ghost_layers(local_grid[p], ProcessorInfo(p, n))]
      gathered == gather_in_root(bare, n)
  IN  /\ AllAtGather
      /\ files' = FoldLeft(LAMBDA all, written : written @@ all, files,
                           [k \in 1..n |-> record_timestep(iteration[k - 1], gathered[k - 1],
                                                          Rank(k - 1, n), rank_grid[k - 1])])
      /\ pc' = [p \in Processes |-> IF p < n THEN "jacobi" ELSE pc[p]]
      /\ UNCHANGED <<flags, iteration, current_comm, local_grid, rank_grid, num_adaptations,
                     network>>

Jacobi(p) ==
  /\ pc[p] = "jacobi"
  /\ SetGrid(p, apply_jacobi(local_grid[p]))
  /\ NextIteration(p)
  /\ UNCHANGED <<flags, current_comm, rank_grid, num_adaptations, network, files>>

Done == \A p \in Processes : pc[p] = "done"

Step(p) ==
  \/ Skip(p)
  \/ SendLeftRight(p) \/ AwaitLeftRight(p)
  \/ SendBottomUp(p) \/ AwaitBottomUp(p)
  \/ Jacobi(p)

Next ==
  \/ \E p \in Processes : Step(p)
  \/ Adapt
  \/ RecordTimestep
  \/ Done /\ UNCHANGED vars

Everyone == UNION {0..s.num_ranks-1 : s \in Simulations}

\* ENABLED Step(p)
Ready(p) ==
  \/ pc[p] \in {"iterate", "between", "jacobi"}
  \/ pc[p] = "left_right" /\ Arrived(p, Horizontal(p))
  \/ pc[p] = "bottom_up" /\ Arrived(p, Vertical(p))

\* Weak fairness: every process goes on while it is ready, and a collective
\* that all have entered returns.  What enables each is written out.
Fairness ==
  /\ \A p \in Everyone :
       []<>(p \in Processes => ~Ready(p)) \/ []<><<p \in Processes /\ Step(p)>>_vars
  /\ []<>~AllAtBarrier \/ []<><<Adapt>>_vars
  /\ []<>~AllAtGather \/ []<><<RecordTimestep>>_vars

Spec == Init /\ [][Next]_vars /\ Fairness
-----------------------------------------------------------------------------
\* Every grid has the extents of its process's part of the array and a layer
\* for each neighbour.
TypeOK ==
  /\ pc \in [Processes -> {"barrier", "iterate", "left_right", "between", "bottom_up",
                           "gather", "jacobi", "done"}]
  /\ \A p \in Processes :
       get_dimensions_without_ghost_layers(local_grid[p], Info(p)) =
         IF p < current_comm[p] THEN Spread[flags][current_comm[p]][Rank(p, current_comm[p])].dims
         ELSE <<0, 0>>

\* Where p has the ghost layer towards q
Side(p, q) ==
  CASE q = Info(p).up -> "TOP" [] q = Info(p).down -> "BOTTOM"
    [] q = Info(p).left -> "LEFT" [] q = Info(p).right -> "RIGHT"

\* A layer under way is as long as the ghost layer that its receiver has in
\* its place.
LayersFit ==
  \A p, q \in Processes : \A k \in DOMAIN network[<<q, p>>] :
    Len(network[<<q, p>>][k]) = Len(get_ghost_layer(local_grid[p], Side(p, q)))

\* A process at the barrier, outside or at the end leaves no layer behind on
\* MPI_COMM_WORLD: what arrives under the next communicator is sent under it.
NoLayerLeft ==
  \A c \in Channels : network[c] # <<>> =>
    \A k \in 1..2 : pc[c[k]] \notin {"barrier", "done"} /\ current_comm[c[k]] = current_comm[0]

\* The processes never all wait for each other: until all are done one of them
\* can go on, or all that a collective needs are there.
NoDeadlock == Done \/ AllAtBarrier \/ AllAtGather \/ \E p \in Processes : Ready(p)

\* What a reader makes of a file: the first of its DIMENSIONS varies fastest.
Field(points, dimensions) ==
  [i \in 1..dimensions[2] |-> SubSeq(points, (i - 1) * dimensions[1] + 1, i * dimensions[1])]

LastFile == files[get_filename(Cardinality(DOMAIN files) - 1)]

\* The file of a time step has as many points as it says, and tells of every
\* one which rank's grid it is in.
RankGridTells ==
  \A p \in Processes : pc[p] = "jacobi" =>
    LET part == Spread[flags][current_comm[p]][Rank(p, current_comm[p])].data
        told == Field(LastFile.RankId, LastFile.header.DIMENSIONS)
    IN  /\ LastFile.header.POINT_DATA = Len(LastFile.RankId)
        /\ \A x \in DOMAIN part :
             told[part[x][1] + 1][part[x][2] + 1] = Rank(p, current_comm[p])

\* The simulation writes, in the end, the files of a sequential one, however
\* many processes take part in a time step and in whatever order they run.
Sequential == INSTANCE SequentialHeat
  WITH files <- Cardinality(DOMAIN files),
       grid <- IF files = <<>> THEN <<>> ELSE Field(LastFile.ScalarField, LastFile.header.DIMENSIONS)
ImplementsSequential == Sequential!Spec
=============================================================================

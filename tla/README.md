# A TLA+ model of reshuffle

reshuffle is a C++ library over MPI. A program calls `reshuffle::shuffle` on every process to turn
an array that is distributed one way over the processes of one communicator into the same array
distributed another way over the processes of another communicator. This directory holds TLA+ modules
that model what the library and the programs in its repository do, TLC configurations that check them on small
instances, and proofs that TLAPS checks for every instance.

Paths below are those of the repository. In PROJECT.json they carry the prefix `src/`, so that
`src/block_overlay.cpp` here is `src/src/block_overlay.cpp` there.

## 1. Inventory

### How a shuffle runs

1. `shuffle` (`include/shuffle.hpp`) returns its argument at once when the two contexts compare equal, and
   nothing on a process that is in neither communicator. Nobody else is told.
2. `select_exchanger` takes the `ScatterExchanger` when the initial grid has one processor and the final
   distribution is block-wise, and the `GeneralDataExchanger` otherwise.
3. The exchanger constructs an `InterCommunicator`: collectively the processes find out which of
   the two communicators contains the other, and exchange their ranks in both.
4. Each process computes the grid overlay of the two distributions, its own blocks to send and those it
   will receive; it packs the former into one buffer, ordered by destination.
5. The general exchanger sends each interval of the buffer (`MPI_Isend`, tag 0), copies what it keeps,
   receives as many messages as it counts on (`MPI_Probe` for any source and any tag), puts their values in
   place and waits for its sends. The scatter exchanger deals the root's buffer out with `MPI_Scatter` and
   `MPI_Scatterv`, and returns what arrives.

A process keeps no state between two calls but its communicators and its array; what one call can do to the next goes
through MPI: the messages under way and the order of the collectives.

### Components

| Component | State | Operations | Interacts with | What makes it correct |
| --- | --- | --- | --- | --- |
| Intervals and blocks (`left_closed_range.hpp`, `block.hpp`) | none | overlay, disjointness, `make_contiguous` | everything below | overlays are exact; contiguous blocks keep lengths and owners |
| Distributions and grids (`block_cyclic.hpp`, `block_wise.hpp`, `dimensions.hpp`, `processor_grid.hpp`) | the layout of each dimension | `create_blocks`, rank arithmetic, products | overlay, exchange plan | layouts cover the range without hole or overlap |
| General data distribution (`general_data_distribution.hpp`) | a map of ranks to multidimensional intervals | `make` with its checks | grids | what passes is a layout that leads each value to the rank of the map |
| Overlay (`block_overlay.cpp`, `grid_overlay.hpp`) | two positions and a growing result | `get_blocks_overlay` | exchange plan | finds every overlap once, in order, reads in range |
| Exchange plan, packing, unpacking (`communication_package.hpp`, `mpi_comm_utils.hpp`, `multidimensional_*.hpp`) | send buffer, its intervals, result array | pack, count messages, unpack | both exchangers | the two sides lay a message out the same way; nothing is lost or written twice |
| Serialization (`serialize.hpp`, `fixed_size.hpp`) | none | values to bytes and back | `async_send`, `block_receive`, `block_scatter` | counts in values and counts in bytes are not mixed |
| `InterCommunicator` | `_comm`, four rank maps | construction (`MPI_Allreduce`, `MPI_Allgather`) | both exchangers | all participants conclude alike; no collective is skipped; maps translate |
| MPI utilities (`mpi_utils.hpp`) | none | `is_sub_comm`, `get_sub_comm`, `async_send`, `block_receive`, `block_scatter` | both exchangers | as used above |
| `GeneralDataExchanger` | requests, count of messages to come | `exchange` | MPI, next shuffle | a shuffle gets its own messages, all of them, and ends |
| `ScatterExchanger` | counts, values | `exchange` | MPI | same result as the general exchanger |
| `shuffle` | none | early returns, choice of exchanger | all of the above | every call leaves every process with its values, each in its place |
| Rank reordering (`rank_order.hpp`, two strategies) | a matrix of weights, an assignment | `get_optimal_order`, `get_reordered_comm` | overlay, MPI, the caller's next shuffle | an assignment is a permutation, the Hungarian one the best; the communicator keeps what it promises |
| `MalleabilitySimulator` | the current communicator | `request_adaptation` | shuffle | what a process is told of itself is what happens to its data |
| Demo `dyn_proc_demo` | sets of processes, communicators, iteration | set operations, lookups, collectives | shuffle, a runtime with dynamic processes | the same collectives in all, data with those who stay, nobody left waiting |
| Demo `heat_transfer` | grid, ghost layers, current communicator, files | the simulation's loop, adaptation | shuffle, MPI | the files of a sequential simulation, whatever the number of processes |
| Demos `basic_demo`, `elastic_demo`, the library's benchmarks, `profiling` | contexts, arrays | sequences of shuffles | shuffle, rank reordering | as for shuffle |
| `scalapack_demo`, benchmarks of other libraries, scripts | | | | not modelled |
| Concepts, profiler, vendored mdspan | none / timings | | all of the library | types travel in one way on both sides; indices within extents. Of mdspan only what the library uses is modelled |

PROJECT.json lists each with its files and its status.

### What is hard to test

The `hazards` of PROJECT.json name each at its line. The main ones:

- all receives ask for any source and any tag, so only the order of collectives, sends and completions
  keeps two shuffles in a row apart (`NoCrossTalk`, `NoStrayMessage`);
- an early return skips collectives that others may be in (`CollectivesAgree`); `is_sub_comm` is a collective on some
  processes and a local test on others, inside a short-circuit `||` (`LikeWithLike`, `SameConclusion`);
- the receive loop ends by a count that each process computes on its own (`ResultsComplete`, `AwaitedAreSent`, `Termination`);
- sender and receiver each derive the layout of a message from different blocks (`MessagesFit`, `Shuffled`, `NoOverwrite`);
- the values that come back and the extents that come with them are derived from different blocks (`ExtentsFit`);
- the one-step-back of the overlay scan and its unchecked reads (`Tiled`, `AllPairs`, `InRange`);
- rank numbers of three communicators in the same kind of map (`RankMapsTranslate`, `Shuffled`);
- which maps a general distribution accepts, and whether owners along one dimension lead back to the ranks of the map
  (`RefusedOrTiled`, `GridsAreMade`, `KeepsOwners`);
- the assignment of ranks where rows and columns differ in number (`Optimal`, `BothPermutations`), loops that end only if
  they make progress (`BothTerminate`, `Potentials`), and a permutation that becomes the keys of a new communicator (`SwapsKeepMost`);
- processes that leave, stay or have just been started and find the next collective each from its own lookup (`CollectivesMatch`, `EveryoneAdapts`);
- ghost layers that travel on `MPI_COMM_WORLD` while the number of processes changes (`NoLayerLeft`, `LayersFit`), and grids taken
  apart and put together with the neighbours of two different process grids (`RankGridTells`, `ImplementsSequential`).

Those without a property are errors that the models exclude by an assumption, and the width of integers; their notes say which.

## 2. Modules

```
Communicators ── ShuffleCalls ── Exchange ── ExchangeInvariant ── ExchangeProofs
      │               └── Redistribution ..(refined by)..┘   └── MCExchange
      └── InterCommunicator ── InterCommunicatorInvariant ── Collectives ── MCCollectives
                                     └── InterCommunicatorProofs │
DynamicJobs ── DynamicProcesses ─────────────────────────────────┘
                  └── DynamicProcessesInvariant ── DynamicProcessesProofs

Blocks ── OverlayScan ── MCOverlayScan, LayoutProofs
   └── Grid ── BlockExchange ── Scatter ── Shuffle ── DemoPrograms ── BenchmarkPrograms ── MCShuffle
         │                                    └── ShuffleProofs
         ├── GeneralDistribution ── MCGeneralDistribution, LayoutProofs
         ├── GridOperations ── HeatTransfer ── HeatTransferInvariant ── HeatTransferProofs
         │         (refines).. SequentialHeat     └── MCHeatTransfer
         └────────────────────────┐
Sums ── HungarianOrder ── Strategies ── RankOrder ── StrategiesInvariant ── StrategiesProofs
  └── GreedyOrder ..............┘            └── MCRankOrder, with StrategyBenchmark

CommonLemmas: used by InterCommunicatorProofs, DynamicProcessesProofs, HeatTransferProofs, StrategiesProofs, LayoutProofs and ShuffleProofs
```

A module *XInvariant* has the inductive invariant of X, which TLC can check, and *XProofs* the theorems; the invariants of OverlayScan, GeneralDistribution and Shuffle are at the end of these modules.

The system is cut in two along the contents of a message. **Exchange** has many shuffles, all interleavings and the modes of
MPI's sends; a piece of data there is just its sender and its shuffle. **Shuffle** has the values inside the messages, which arrive
in any order, and follows an array through a program of several calls, one after the other. Each takes from the other only what it
shows: Shuffle that the count of messages is the number of sources and that a message fills the blocks of its source;
Exchange that a call receives its own messages and all of them, however far processes are apart. Names follow the source. An operator
named `X_Variant` just before `X` is a plausible wrong version of `X`, which PROJECT.json uses to show that a property can be violated.

### Communicators, ShuffleCalls, Redistribution

`RankId[c][r]` is what `MPI_Comm_rank` gives on process r, -1 outside of c. `InterComm` is the communicator that
`create_inter_communicator` returns for nested communicators. A *script* is the sequence of shuffle calls of a program, the same on every
process: the library is called from SPMD programs. A call is its two communicators, whether the contexts
compare equal, and its plan, the pairs of ranks between which at least one block goes.

*Redistribution* is the abstract specification, without any message: a call returns on a process only after
every participant has made the same call, with exactly the pieces that the plan assigns to it.

### Exchange

| State | Code |
| --- | --- |
| `round`, `pc` | which call of `shuffle` a process is in, and where |
| `calls`, `gathered` | MPI's matching of `MPI_Allgather` by communicator and order |
| `info` | `info_all_ranks` of `InterCommunicator` |
| `unsent`, `requests` | the rest of `async_send`'s loop; `send_requests` |
| `expected` | `num_messages_to_receive` less the messages received |
| `received`, `results` | `new_local_values`; what the calls returned |
| `network` | messages sent and not received, with a flag: MPI may complete this send before it is matched |

| Action | Code |
| --- | --- |
| `ReturnImmediately` | the early returns of `shuffle` |
| `EnterAllgather`, `LeaveAllgather` | `InterCommunicator`'s `MPI_Allgather`; then packing and counting |
| `Isend`, `WaitSerialized` | a turn of the send loop; the `MPI_Wait` in the serializing `async_send` |
| `CopyOwn` | the part that stays is copied |
| `Receive` | a turn of the receive loop, `MPI_Probe` and `MPI_Recv` |
| `Waitall` | `MPI_Waitall` and the return |

Of the construction of the inter-communicator only the `MPI_Allgather` is here, as the barrier it is; the
`MPI_Allreduce`s before it are in InterCommunicator. MPI is modelled from how it is used: messages of a pair of processes
do not overtake each other, an eager send completes at any time, any other once it is received. `EagerModes` and `Serialized` are
constants: all-synchronous, all-eager and mixed sends, with and without serialization.

### InterCommunicator

Every collective of the construction, for *any* two communicators: `AskInitial`, `AskFinal` and `AskNext` enter the
`MPI_Allreduce` of `is_sub_comm`; `TakeInitial` and `TakeFinal` go on to the `MPI_Allgather` when it says yes;
`Throw` is the `std::runtime_error`; `Outside` is a process in neither; `Construct` fills the rank maps. `collected` is
the ghost of what MPI matches: communicator and order, nothing else.

### DynamicJobs, DynamicProcesses, Collectives

*DynamicProcesses* is `dyn_proc_demo`, statement by statement between two calls that can wait:

| Action | Code |
| --- | --- |
| `GetMainPset`, `Created`, `Join`, `Joined` | the start of a process: its set, the communicator, and for a new one the broadcast of the iteration and the shuffle that brings its data |
| `Request`, `Publish` | the root's `request_expansion` or `request_reduction`: the set operation, then the name of the new set |
| `QueryOperation`, `LookUp` | `get_set_operation_info`, `get_new_main_pset` and `is_process_leaving` |
| `CreatedNext`, `Told`, `Shuffled`, `Disconnected` | one that stays: communicator, broadcast, shuffle, `MPI_Comm_disconnect`, and the root's `MPI_Session_dyn_finalize_psetop` |
| `GivenAway`, `LeaveLoop`, `Exit` | one that leaves gives its data away; the loop ends; the last disconnect |

The runtime is not in the repository; it is modelled from its use (a question waits until there is an answer, a new set begins with the old one). The demo is written for a
`shuffle` that takes communicators; here it is the collective that it needs, with what each process believes the data to be spread over.
*DynamicJobs* has the jobs, and `JobAssumption`: the runtime has the processes that a job asks for, and a job that shrinks keeps one.
*Collectives* puts it next to InterCommunicator, as the programs in which processes agree through collectives alone; a behaviour is one or the other.

### Blocks, Grid, OverlayScan, GeneralDistribution

*Blocks* has intervals, overlays, `create_blocks` and `create_evenly_blocks`, and says what a layout is (`IsLayout`). *Grid* has the
rank arithmetic (`map_index`, `map_indices`), the products of blocks, `make_contiguous`, the three distributions (a general one lists its multidimensional blocks in the order of the map, and is compared by that list), and the grid overlay in its
defining form. *OverlayScan* is `get_blocks_overlay` step by step; `AllPairs` says that it computes that defining form.

*GeneralDistribution* is `GeneralDataDistribution::make`: every process calls it (`make(rank, num_blocks)`) with the same map and with as many blocks as it says it
has, and is given a grid and a layout or refused. Blocks and intervals are ordered by their right bounds alone, as in the code, so what a sort
leaves open stays open (`find_problematic_intervals`). The recursion of `check_for_holes`, which drops dimension after dimension, is unrolled: `Group` is the group
that an interval is in after d dimensions, `LastGroup` what is left of it in the last one, with duplicates removed as in the code. The properties speak of the map value by value.

### BlockExchange, Scatter, Shuffle

A value is named by its global coordinates, so that a value in a wrong place, missing or doubled is visible.

| Action | Code |
| --- | --- |
| `Begin`, `Pack` | `get_send_and_receive_blocks`; `get_send_package` with its bounds check |
| `Send`, `Receive`, `Finish` | the sends with the copy of the own part; a message put in place by `process_received_blocks`; the return |
| `ScatterCounts`, `ScatterValues` | `MPI_Scatter` and `MPI_Scatterv` of `block_scatter`, of values or of bytes |
| `ReturnEqual`, `ReturnNothing` | the early returns of `shuffle` |
| `NextCall` | the program goes on to its next call, with the array it has kept or an array of its own |

The `type` of a call's values decides how they travel, by the code's concepts (`MPIType`, `NeedsSerialization`, `FixedSizeSerializable`): plain, or serialized to as many bytes each or to different
numbers of them. `ContextAssumption` asks that a type is `Exchangeable` and, where it counts as an `MPIType`, has a datatype: `to_mpi_datatype` knows fewer types than the concept admits.
`serialize` gives the sequence of the bytes; counts and displacements of a scatter are then in bytes, and the root's part is left out of them.
A whole program is a sequence of calls. In Shuffle the next one begins when all have returned; that processes in different
calls do not disturb each other is what Exchange shows.

### DemoPrograms, BenchmarkPrograms

The programs of the repository as such sequences. *DemoPrograms* has the `main` of `basic_demo` (whose arrays are vectors of vectors,
turned into one vector and back at each call) and of `elastic_demo`, each with the second shuffle that `print_domain_decomposition` makes to have
everybody's rank in the root, and programs that adapt themselves through `MalleabilitySimulator`: `request_adaptation` makes the next communicator,
or nothing when too many ranks are asked for, and tells each process its status. *BenchmarkPrograms* has the calls of `reshuffle_benchmark`, of
`reshuffle_reordering_benchmark` (a relabelled communicator is any order of the processes: which one is RankOrder's subject) and of the profiled program.

### HungarianOrder, GreedyOrder, Strategies, StrategyBenchmark, RankOrder

*HungarianOrder* is `HungarianRankOrderStrategy::get_optimal_order` with the code's variables: `StartRow` begins the search for a row,
`Scan` is a turn of the `do` loop that lengthens the path, `Augment` a turn of the one that goes back along it, `Order` makes the result of `p`.
*GreedyOrder* is the greedy strategy in the same way: `Choose` is a row's turn, `Fill` a turn of the loop that fills holes, `Extend` adds the ranks beyond the
columns. *Strategies* is one after the other on the same matrix.

*RankOrder* is `get_optimal_communicator` with both strategies: `RankInit` computes the weights from the grid overlay of two distributions, or takes a matrix
that was set by hand (`_test_set_matrix`), among them those of `strategy_benchmark`; the steps of the algorithms follow, and `Reorder` is `get_reordered_comm`. `MPI_Comm_split` is modelled from its
use: processes are numbered by their keys. A process with a rank beyond the order reads its key past the end of a vector; it may be any, and
`Reorder` takes each that makes a difference.

### GridOperations, HeatTransfer, SequentialHeat

*GridOperations* has the functions of `grid_operations.cpp` on rows of numbers. *HeatTransfer* is the whole program:

| Action | Code |
| --- | --- |
| `Adapt` | `MPI_Barrier` on `MPI_COMM_WORLD`, `MPI_Bcast` and `do_adaptation`: ghost layers off, shuffle to the next number of processes, ghost layers on, ranks gathered |
| `Skip` | an iteration of a process outside of the current communicator |
| `SendLeftRight`, `AwaitLeftRight`, `SendBottomUp`, `AwaitBottomUp` | `exchange_ghost_layers`: the two `MPI_Isend`s and the `MPI_Waitall` of each direction |
| `RecordTimestep` | `gather_in_root` and `VTKWriter::record_timestep`: a file with its name, its header and its fields |
| `Jacobi` | `apply_jacobi`, and the next turn of the loop |

Layers are in `network`, a queue from each process to each on `MPI_COMM_WORLD`, whatever the current communicator, as in the code. A
shuffle is one step of all that take part in it: what it gives them is the subject of Shuffle, and its collectives let nobody leave before all have
entered. A number is a multiple of a power of 4, so that division is exact. *SequentialHeat* is what the simulation promises, without processes: file
after file, the whole grid one Jacobi step further.

## 3. Runs

| Run | Question | Instance | Outcome |
| --- | --- | --- | --- |
| `exchange` | can a shuffle take, miss or leave behind a message of another? does every program end? | 3 processes, 3 communicators, programs of 2 or 3 shuffles, sends eager or synchronous in any mixture | holds |
| `exchange_refinement` | does the protocol implement Redistribution? is the invariant of the proofs an invariant? | the same, serialized sends | holds |
| `collectives` | do all processes conclude alike, through matching collectives, without getting stuck? | 3 processes, 5 communicators, all 625 programs of 2 constructions; 3 jobs that grow or shrink by 2 processes, once or twice | holds |
| `overlay_scan` | is the scan exact, and in range? | all pairs of layouts of [0,5), [0,3) and [1,5) | holds |
| `shuffle` | does every call of a program leave every process with its values, each in its place, and with the right extents, in any order of arrival? | single calls on 5, 3x2 and 2x2x2 values; both demos; two programs that adapt themselves; the benchmarks and the profiled call on 6 values | holds |
| `scatter_reordered` | and by the shortcut, with ranks in another order? | one dimension | **violated** |
| `scatter_many_blocks` | and by the shortcut, with several initial blocks? | 3x2 values | **violated** |
| `rank_order` | are the weights right, does each strategy end with what it promises, and does an order that swaps processes leave the most values in place? | 5 and 3x2 values, up to 3 processors and one spare process; all matrices of 0 and 1 up to 2x3 and 3x2, many of 3x3, some larger | holds |
| `rank_order_cycle` | and any other order? | 18 values, 4 to 6 processors | **violated** |
| `general_distribution` | which maps are accepted, and do the layouts lead back to their ranks? | every map of two ranks to up to two intervals within [0,3) in one dimension and boxes within [0,2) in two; single boxes and grids in three | holds |
| `general_distribution_holes` | is a map with a hole refused in two dimensions? | boxes within [0,3) | **violated** |
| `heat_transfer` | does the simulation write the files of a sequential one while processes come and go? | 4 simulations of 2, 3, 4 and 6 processes and 7 to 11 iterations | holds |

### Why the bounds are enough

- *Three processes* are the least for which one process can be a whole shuffle ahead of another while a third
  holds it back, for a process to take part in a shuffle for its collectives only, and for a permutation of ranks that is not its own inverse
  ("turned"). Communicators: everyone, everyone in another order, and two processes in reverse order.
- *Two or three shuffles*: cross-talk takes two; skipping takes a third. The programs grow, shrink, repeat
  and skip; the plans are all-to-all, a shift by one (nobody keeps anything) and a gather on one process. The theorems of section 4 hold for every program.
- *InterCommunicator*: pairs of five communicators are nested either way, equal, overlapping and disjoint, and every kind is
  followed by every other.
- *Dynamic processes*: 2 to 4 to 6, 3 to 1, and 5 to 3 to 1, with any two leaving, the root among them; two adaptations are the least for a process that was started by the first to take part
  in the second, for a new root to request one, and for an operation left open to be seen.
- *Overlays*: every way to cut five values into blocks, so each step of the scan (equal ends, reach over several blocks, one back)
  occurs at the start, in the middle and at the end; pairs with different ranges check the exception.
- *Shuffle*: an uneven last block (5 by 2, 3 by 2), blocks that are not contiguous in the array, owners with several blocks
  and with none, general distributions that no block size gives, up to three dimensions; final communicators in the same order, another order, a part and a superset;
  a process in neither. From one to many the final communicator gives each process the rank it has in the inter-communicator, and there is one initial block or one
  dimension: without these two limits the property fails (findings 1 and 2). A fixed value has 2 bytes, another one 1 or 2, enough for a position in values to differ from one in bytes.
- *Programs*: the demos on 3x3 and 6 values with 3 processes instead of 20x20 and 50 values with 4 or 5. `Malleable` grows, shrinks, repeats a number and asks for too many, from two
  orders of the processes; 5 values on 3 processes are not shared evenly. `repetitions` is 2 and `cyclic_block` 4, which leaves the last of three processes without values.
- *Orders*: the matrices have fewer, as many and more rows than columns, ties, rows that all want the same column, and (4x4, and the 3x3 of the repository's
  own test) searches that take back earlier rows; all choices of columns are enumerated to compare with. `high_weight` is 1000, far above
  the reduced costs that come up, as the code's INT_MAX / 4 is for arrays of a real size. The greedy strategy only compares the weights of one row with each other, so 0 and 1 with their ties go far.
- *General distribution*: four intervals within three values have every relation two intervals can have (apart, touching, overlapping, nested, equal, with the same end); two boxes for
  each of two ranks make holes, overlaps and L shapes in two dimensions. `make` is called with 0 to 2 blocks, right and wrong.
- *Heat*: 11 iterations give file names of two digits, with a leading zero; one process up to all of them and around to one again; grids of 1x1, 2x1, 3x1, 2x2, 5x1 and 3x2 processes, so that a process has none to three neighbours; a grid that is shared
  unevenly both ways; an adaptation in every iteration and in every second or third.

`CHECK_DEADLOCK FALSE` is given in `exchange_refinement` only: with serialized types and synchronous sends the program can stop (every send is waited for
before the first reception). In every other passing run TLC also shows that no state is stuck.

### Fairness

`FairSpec` of Exchange and `BothSpec` of Collectives have weak fairness of each process's steps: a process that can go on does.
Processes run on cores of their own and poll nothing; each blocking MPI call is guarded here by the condition under which MPI must let it
return (all have contributed, a message is there, the sends are matched), which is MPI's progress rule. No fairness is
asked among the messages that a probe may find: the loops are bounded by the count. `FairRankSpec` of RankOrder says no more than that a function which runs
comes to its next step; that the loops end is what `BothTerminate` is about. `Fairness` of HeatTransfer is weak fairness of each process and of the two
collective steps; what enables a step (`Ready`, `AllAtBarrier`, `AllAtGather`) is written out in place of `ENABLED`, since it would evaluate whole grids. There
it is needed for the refinement: SequentialHeat writes all its files.

## 4. Proofs

All proofs are checked by `tlapm` to the last leaf and assume only the named assumptions on constants: `RankAssumption` (finitely
many processes, ranks unique in a communicator), `ScriptAssumption` (a call is well formed and its communicators are nested), `SendAssumption`, `PairAssumption` and
`MemberAssumption` (a construction is of two communicators, and none is empty), `JobAssumption` (a job has the processes that it asks for or gives up), `SimulationAssumption`, `HighWeightAssumption` with RankOrder's `ContextAssumption` (no weight comes near
`high_weight`), `LayoutAssumption` for the scan, `MappingAssumption` for the maps of general distributions (finitely many ranks, non-empty intervals, as many dimensions in each), and for Shuffle `ContextAssumption` and `ProgramAssumption` (`IsContext`, `IsCall`: both distributions give every
place of one array to a processor of their grids, the ranks of a communicator are unique and as many as its grid has, and equal communicators have equal ranks). TLC evaluates each of them in the runs.

Each proof has an inductive invariant in a module of its own, which TLC checked on the instances of section 3 before it was proved (that of Shuffle by itself: it takes longer than the other properties of its run together; `MadeInv` and `BoxesAreTiled` by themselves on the instance of `general_distribution`). Where an argument counts or
sums up, it needs induction over numbers, which the library's theorem takes as an operator that no installed prover can instantiate. *CommonLemmas* does without:
a set of numbers has a least one (`LeastNatural`), so a statement that fails has a first number for which it fails. From it come the facts about sums
(`SumTo` and `ProductTo` of *Sums*, recursive functions where other modules fold) and about counting (`Onto`, `Places`).

**ExchangeProofs** (`Invariance`, `TypeCorrect`, `CollectivesMatch`, `Isolation`, `EveryMessageAwaited`, `Completeness`, `Refinement`): for any
number of processes, communicators, shuffles, plans and modes of sends. None of the properties is inductive. The
argument of `IInv` (module ExchangeInvariant) is:

- `CallsInv`, `GatheredInv`, `InfoInv`: the position of a process's `MPI_Allgather` on a communicator is the number of calls of its program
  that use it, whatever its early returns; so matched calls are of the same shuffle, and the rank maps are right;
- `BarrierInv`: nobody is past the `MPI_Allgather` of a shuffle that some participant has not entered;
- `FinishedInv`: nobody returns from a shuffle in which some process still has to send it a piece;
- `NetworkInv`, `UniqueInv`: a message is one that its sender owes its receiver in the shuffle that the receiver is in, from a source the receiver has not seen, and there is one;
- `ExpectedInv`: the counter is the number of sources not seen.

The last two are what makes receiving from any source sound: a message of a *later* shuffle would be addressed
to a receiver still in an earlier one, and its sender has passed an `MPI_Allgather` which that receiver has not entered, against `BarrierInv`;
a message of an *earlier* one would have been left behind by a receiver that returned, against `ExpectedInv`: it counts each source once, and the loop
ends at zero.

`Refinement`: Exchange implements Redistribution. Only the steps that return change what Redistribution sees; by `BarrierInv` all participants
have made the call by then, and by `ExpectedInv` at zero the result has each piece of the plan. All other steps stutter.

**InterCommunicatorProofs** (`ConstructionInvariance`, `LikeMeetsLike`, `SameConclusions`, `RanksTranslate`, `DeadlockFreedom`): for any communicators and programs of constructions.
Whether a construction asks or gathers over a communicator follows from the members of its two communicators alone. So the number of collectives that a process has entered on a
communicator is a function of its place in the program (`CallsInv`), equal for all members at equal places, and what it contributes there is determined
(`CollectedInv`): contributions that MPI matches belong to one construction. The conclusions and the maps (`BuiltInv`) follow, since a process that goes on has all
contributions. For `NoDeadlock`, take the processes that are least far in the program and of these one that is least far in its construction: everybody it waits for has entered
(`EnteredInv`). A communicator without members, which MPI does not have, would be the exception, for everything contains it: thus `MemberAssumption`.

**DynamicProcessesProofs** (`DynamicInvariance`, `CollectivesAlwaysMatch`): the demo by itself (`DynSpec`; in the run `collectives` it is one of two programs), for any job, that is any number of processes that grow or shrink any number of times, whichever leave. There is no program text to
count along, for communicators come and go and a process that is started begins in the middle. Still, each communicator sees a fixed row of collectives: `What(c, n)` is the n-th on the communicator of set c,
and `Count` says how many a member has entered that is at a given place. `RegisteredInv` is that these are all there is, each once; `RightInv` that each is what the row says, with the iteration and
the spread that belong to the set, and that a root's broadcast brings the number of the set. `PlacesInv` is what a process knows where it is: one that moves has the name of the next set and is in it, one that
is in the loop has no more than its own. `RootInv` relates roots of different sets: only the root of the last set can still ask for an operation, and by then it has finalized the one it came with, though the
root before may have left. So operations never overlap, and a set has the members that the operation before left it (`OperationsInv`; who stays when a job shrinks is up to the runtime, `WithoutKeeps`).

**HeatTransferProofs** (`LayersInvariance`, `NoLayersLeft`, `DeadlockFreedom`, `ShapesInvariance`, `TypeCorrectness`, `LayersAlwaysFit`): for any simulation, that is any numbers of processes and iterations, any array and any frequency of adaptations.
`ChannelInv` is the heart: the number of layers between two processes is what one has sent less what the other has taken, both known from their places in the loop. It relies on `RecordedInv` (all of a communicator have
recorded the same time steps, so no two are more than an iteration apart) and on `EpochInv` (the iteration tells the number of adaptations, so that a
barrier finds all at its own), and on neighbours being mutual in `MPI_Cart_shift`. At a barrier both counts are equal, so that nothing is left for the
next communicator. The arguments on the number of processes and iterations are of one kind: least iteration first, then least place. `MPI_Cart_create` and its shift are modelled from
their use, and proved about as modelled.

`ShapesInv` adds the extents. `get_processor_coordinates` of the library and `MPI_Cart_coords` put a rank at the same place (`RankCoordinates`), so its part of the array has the rows that the place's first coordinate
owns and the columns of the second (`PartOf`); under `EveryoneHasValues` neither is empty, for each owner has one block (`SharesHaveValues`). Whether there is a neighbour on a side follows from the same coordinates (`Borders`). Hence the
grids of neighbours in a row are equally high and those of neighbours in a column equally wide (`NeighboursFit`), and no step changes the extents but the adaptation, which
finds the channels empty and gives each process a grid of its new part with the layers of its new neighbours.

**StrategiesProofs** (`HungarianInvariance`, `PotentialsHold`, `OptimalAlways`, `GreedyInvariance`, `PermutationsAlways`, `NoRegretAlways`, `SwapsAlwaysKeepMost`): for any matrix of weights, of any shape. `HungarianInv` says:

- `MatchInv`: which columns have rows; during a search column 0 stands in for the row to be matched, on the way back one column is free;
- `PotentialInv`: reduced costs are not negative, and zero for matched pairs; rows still to come and columns without a row have potential zero;
- `PathInv`: from each column that the search has seen `way` leads back to column 0, by reduced costs that are zero. There is a function that falls along the
  path (`time`), so it has no circle and the way back meets each column once;
- `MinvInv`: `minv` is a least reduced cost from the columns seen, or still `high_weight` less what has been taken off.

The last case is the subtle one. Potentials grow while a search goes on, so reduced costs can exceed the greatest weight twice over and reach `high_weight` as the assumption permits it. The column chosen never has such a cost:
some column without a row is not farther than the greatest cost less the potential of the row searched for, and it bounds the minimum. So `j1` is never 0 and
`delta` always a real cost. When all rows are matched, every choice of columns costs at least the sum of the potentials and the one found costs just that
(`LightestSum`): `Optimal`. That the result is a permutation when there are fewer rows than columns, or more, is counting (`Places`). `GreedyInv` has that rows that have chosen would not rather have a column that was left,
and that `used` is what has been given away.
`RanksInv` follows the orders into the communicators: the key of a process is its position in the order, for a swap that is the rank the order has for it, and as the keys are then the ranks,
each once, `MPI_Comm_split` gives it out (`SplitByRanks`, by counting). With `Optimal` that is `SwapsKeepMost`.

**LayoutProofs**, the scan (`ScanInvariance`, `ReadsInRange`, `OverlaysTile`, `OverlaysComplete`): for any two layouts. `ScanInv` adds two things to the properties:
`Position`, where the position stands when an origin block ends (at the target block that begins where the overlays end, or one further when the one before reaches beyond, or at the last one),
and `Found`, that whatever ends by the point covered is found.

**LayoutProofs**, general distributions (`TilingsAreMade`, `GridsAreAlwaysMade`, `OnlyFirstUnchecked`, `OwnersAreKept`): for any map from ranks to intervals, of any number of dimensions. That what a process has been given
stays the answer of `make` (`MadeInv`) is immediate; the theorems are about the answer.

- *Intervals of one dimension* (`ContiguousIsTile`): neighbours in the order of right bounds are contiguous just when each value between the outermost bounds is in one interval, although "contiguous" may mean either side and equal right bounds
  leave the order open. A value in a hole would be before the first interval that ends after it, whose neighbour then ends after the value too. With one dimension there is one group, of all intervals: `RefusedOrTiled`.
- *Groups of a grid* (`GridGroup`): a grid has a box for each choice of intervals, so the last group of any box has all intervals of the last dimension; all groups start and end alike, and that one is a tiling: `GridsAreMade`. The converse does not hold (finding 4).
- *What is missing in two dimensions* (`EndsOfTiling`, `RowsAreTiled`): in a tiling the interval that ends first starts first, so rows whose sorted intervals start and end alike cover the same values, each once. What is left to ask is that the first dimension is
  tiled; where it is, no value of the box is in a hole or in two intervals (`BoxesAreTiled`), so finding 4 is all that gets past the checks.
- *Owners* (`LineRanks`, `BlocksOfMap`, `OwnersKept`): the processor grid is a line of ranks, whose coordinates are 0 but in the last dimension. The blocks of a dimension are the intervals there, and when ranks share none in the last one, the block of a value has the
  rank's coordinate there: `KeepsOwners`.

**ShuffleProofs** (`ShuffleInvariance`, `AwaitedIsSent`): for any program of shuffles, over any processes, communicators and distributions of any number of dimensions. A process counts the *owners* of
the blocks it is to receive; it is sent a message by each process that finds it among the *owners* of the blocks it has to send. `Owes` says when one process owes another a message: some block of the overlay
is the first one's before the call and the second one's after it. The proof has two halves.

*Both sides derive the pairs of `Owes`.* A rank and its coordinates determine each other (`DigitsOfIndex`, `IndexOfDigits`: the digits of a number of mixed radix), so blocks with the coordinates of a process are the blocks of that
process and of no other. What a process derives, though, is not a selection of the overlay's blocks but `make_contiguous` of it: the blocks are taken apart into dimensions, repetitions are removed, and the *product* of the dimensions
is formed anew. That product could have owners which no block of the selection had. It has none, because the overlay is itself a product, one overlay for each dimension, in which origin and target owner are paired
(`OverlayIsPlan`, `OverlaysOfLayouts`): if in each dimension some overlay leads from the coordinate of p to the coordinate of q, there is a block of the overlay that does so in all of them (`WhoseBlocks`, `MakeContiguous`). So the
ranks that p sends to are those of the processes p owes (`Destinations`), and the sources that p counts are as many as the processes that owe it (`Debtors`, `DebtCounted`).

*The count is kept*, by `ShuffleInv`. `AwaitedAreSent` speaks of states in which everybody has sent; to get there `AwaitingInv` says of every state that a process which has sent counts on `Pending`, those that owe it a message which they have not sent or
which is still under way, and of one that has not sent yet that what was sent to it is still there. `NetworkInv` has that each message is owed, from a process that has sent, and the only one between the two; `PhaseInv` what a process has derived at each place of the program,
and that its count is zero when it is not receiving. When a call is over nothing is under way (`NothingLeft`): the receiver of a message would have a count that is not zero. So the next call begins with an empty network, and the invariant carries from call to call (`NextCallKeeps`).
A process whose packing throws stays behind, and the others count on it for ever; the invariant covers that too.

The proof is not about what `FlattenSeq` and the folds over buffers return; it needs of a message who sends it and to whom.

**CommonLemmas** (`CreateBlocksIsLayout`, `CreateEvenlyBlocksIsLayout`), besides the facts on numbers: what the distributions build is a layout from 0 to the
number of values, with owners in the grid; this discharges `LayoutAssumption` for `BlockCyclic` and `BlockWise`, and the part of `IsDistribution` on layouts.

### Only model-checked

- *Liveness* (`Termination`, `EveryoneAdapts`, `BothTerminate`) and `ImplementsSequential`, whose files have to be written: liveness under fairness and `ENABLED` are out of the prover's reach.
- *The values in the messages* (`BufferIsPermutation`, `MessagesFit`, `NoOverwrite`, `Shuffled`, `ExtentsFit`, `StatusTellsData`): buffers are filled by folds, messages are selections by `SelectSeq` and serialized ones flattened sequences, and what
  these return for every input is induction over data. Who sends a message to whom is proved (`AwaitedIsSent`). The same holds for `WeightsCountValues`, which adds up over products of dimensions, and for the contents of the files in HeatTransfer
  (`RankGridTells`).

## 5. Findings

1. **The scatter shortcut mixes two rank numberings** (`scatter_reordered`, `include/mpi_comm_utils.hpp:78`). The counts are keyed by rank of the
   final communicator and read by rank of the inter-communicator; where these differ, a process gets the values of another.
2. **The scatter shortcut does not place blocks** (`scatter_many_blocks`, `include/mpi_comm_utils.hpp:85`). A process gets its values in the order they were packed,
   block after block, although the extents returned are those of an array by rows.
3. **The reordered communicator is that of the inverse order** (`rank_order_cycle`, `include/rank_order.hpp:90`). The order says which final rank each process should take.
   `get_reordered_comm` gives process f the key i for which order[i] = f, so it takes the rank that the inverse order has for it. Between 4 and 6 processors with 18
   values the order is <<0, 2, 4, 5, 1, 3>>; process 1, which has the values 5 to 9, should take rank 2 and with it the values 6 to 8, but takes rank 4 and gets 12 to 14, and 6
   values in all stay where they are instead of 12. `tests/mpi_tests/reorder_test.cpp:52` expects just these values. The redistribution is
   right with any communicator; what is lost is the purpose, "our maximization problem" (`src/hungarian_rank_order_strategy.cpp:12`). Orders
   that swap processes in pairs are their own inverse and keep the most (`SwapsKeepMost`).
4. **A hole in the first dimension is not seen** (`general_distribution_holes`, `include/general_data_distribution.hpp:261`). `check_for_holes` groups intervals by their bounds in the first dimension
   and compares the groups only in the other one, never the bounds of the first dimension with each other. A map of two ranks to [0,1) x [0,1) and [2,3) x [0,1)
   passes, although `tests/serial_tests/general_data_distribution_test.cpp:97` is named `HolesIn2DAreCaught`. Where the first dimension is tiled no hole passes (`OnlyFirstUnchecked`). In one dimension just the tilings pass (`RefusedOrTiled`), and
   no grid is ever refused (`GridsAreMade`).

Two more hazards are modelled without a claim of the repository to hold them against. `async_send` of a serialized type waits for its own `MPI_Isend`: where MPI
completes no send before it is received, two processes that owe each other a piece wait for ever ("TODO: Make this a true async operation", `include/mpi_utils.hpp`).
And the heat simulation takes ranks of a Cartesian communicator made with `reorder` for ranks of `MPI_COMM_WORLD`: `get_cartesian_comm` here is of
an MPI that does not reorder, and its variant shows that the simulation is wrong on one that does.

## 6. What is not modelled

- *Errors*: a grid larger than its communicator, empty layouts, failing MPI calls, a process of the heat simulation without values. `ContextAssumption`,
  `ScriptAssumption`, `IsLayout` and `SimulationAssumption` exclude them; the hazards say where they bite.
- *Several owners for one interval*: a general distribution may give two ranks boxes that share an interval of a dimension; its layout then has two blocks for it,
  and which comes first depends on a sort that compares right bounds only. `KeepsOwners` and the distributions of `shuffle` have no such interval. The same goes for boxes that are no grid, such as rows cut in different ways, which `make` accepts (`BoxesAreTiled`): their intervals of a dimension overlap.
- *Width of integers*: unbounded here. The sizes in the code are `int`; overflow needs arrays beyond 2^31 values or bytes.
- *Encoding*: a serialized value is the sequence of its bytes; how a library encodes an object is not modelled. Of MPI datatypes only which types have one is.
- *Errors returned for a null communicator* by the functions of `mpi_utils`, where no caller meets them.
- `scalapack_demo` and the benchmarks of COSTA and ScaLAPACK, which time other
  libraries; the benchmark that calls `block_scatter` by itself; the scripts.
- *Text*: printing, the spaces and digits of the vtk files, profiling scopes, and what mdspan has that the library does not use.

## 7. Plan

The modules above cover what the repository does with data and processes. What is left is to prove more of it:

1. `MessagesFit` of BlockExchange as far as folds permit: that a message has as many values as the blocks it is put into, from the lengths of blocks alone.
2. `OnlyFirstUnchecked` for more dimensions, where the checks leave out all but the last two.

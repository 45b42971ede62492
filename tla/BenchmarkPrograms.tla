-------------------------- MODULE BenchmarkPrograms --------------------------
(***************************************************************************)
(* The programs of reshuffle_benchmark and reshuffle_reordering_benchmark, *)
(* and the one that is profiled.  Each makes one call of shuffle() on      *)
(* MPI_COMM_WORLD over and over, with the same values, of type double or,  *)
(* to be serialized, MoleculeLJ.                                           *)
(***************************************************************************)
EXTENDS DemoPrograms

CONSTANTS
  repetitions,  \* how often KeepRunning() lets a call be made
  cyclic_block  \* the block size of shuffle_from_N_to_N and of the profiled call

ASSUME BenchmarkAssumption == repetitions \in Nat \ {0} /\ cyclic_block \in Nat \ {0}

num_ranks == Cardinality(Proc)

SendType == "double"
MoleculeLJ == "MoleculeLJ"

\* time_shuffle.  The MPI_Allreduce that ends it makes everybody wait for the
\* slowest before the next call.
time_shuffle(initial, final, type) == [Call(initial, final, "array", FALSE) EXCEPT !.type = type]

\* A benchmark from one context to another.  A number of values that is not
\* divisible by the number of ranks makes it throw before it calls shuffle().
Benchmark(num_global_values, initial, final, type) ==
  IF num_global_values % num_ranks = 0
  THEN {[k \in 1..repetitions |-> time_shuffle(initial, final, type)]}
  ELSE {}

\* The contexts that the benchmarks use
InWorld(order, distribution) == Context(distribution, <<"world">>, World(order))
OnN(order, n) == InWorld(order, BlockWise(<<n>>, <<num_ranks>>))
OnOne(order, n) == InWorld(order, BlockWise(<<n>>, <<1>>))
Cyclic(order, n, block) == InWorld(order, BlockCyclic(<<n>>, <<block>>, <<num_ranks>>))
-----------------------------------------------------------------------------
(***************************************************************************)
(* reshuffle_benchmark                                                     *)
(***************************************************************************)
shuffle_from_N_to_one(order, n) == Benchmark(n, OnN(order, n), OnOne(order, n), SendType)

shuffle_serialization_from_N_to_one(order, n) ==
  Benchmark(n, OnN(order, n), OnOne(order, n), MoleculeLJ)

shuffle_from_one_to_N(order, n) == Benchmark(n, OnOne(order, n), OnN(order, n), SendType)

shuffle_serialization_from_one_to_N(order, n) ==
  Benchmark(n, OnOne(order, n), OnN(order, n), MoleculeLJ)

shuffle_from_N_to_N_same_distribution(order, n) ==
  Benchmark(n, OnN(order, n), OnN(order, n), SendType)

shuffle_from_N_to_N(order, n) ==
  Benchmark(n, OnN(order, n), Cyclic(order, n, cyclic_block), SendType)

shuffle_serialization_from_N_to_N(order, n) ==
  Benchmark(n, OnN(order, n), Cyclic(order, n, cyclic_block), MoleculeLJ)

\* To half of the ranks, all of them in the communicator still
shuffle_reduction(order, n) ==
  IF num_ranks < 2
  THEN {}
  ELSE Benchmark(n, OnN(order, n), InWorld(order, BlockWise(<<n>>, <<num_ranks \div 2>>)), SendType)

\* main of the profiling demo: the same values as one call from one to all,
\* in cycles of small blocks.  It aborts where a benchmark throws.
profiling(order, n) ==
  IF n % num_ranks = 0
  THEN {<<Call(OnOne(order, n), Cyclic(order, n, cyclic_block), "array", FALSE)>>}
  ELSE {}
-----------------------------------------------------------------------------
(***************************************************************************)
(* reshuffle_reordering_benchmark, where the final communicator may be the *)
(* one of get_optimal_communicator.  Whichever its strategy, that has all  *)
(* the ranks in another order (RankOrder): here, in any.                   *)
(***************************************************************************)
Orders == {o \in [1..num_ranks -> Proc] : \A j, k \in 1..num_ranks : o[j] = o[k] => j = k}

relabeled(final) == {[final EXCEPT !.name = <<"relabeled">>, !.ranks = World(o)] : o \in Orders}

Clustered(order, n) == Cyclic(order, n, n \div (num_ranks * 2))
Skewed(order, n) == Cyclic(order, n, Greatest(1, n \div (num_ranks \div 4 + 1)))

shuffle_clustered(order, n) == Benchmark(n, OnN(order, n), Clustered(order, n), SendType)

shuffle_clustered_with_relabel(order, n) ==
  UNION {Benchmark(n, OnN(order, n), final, SendType) : final \in relabeled(Clustered(order, n))}

shuffle_extreme_skew(order, n) == Benchmark(n, OnN(order, n), Skewed(order, n), SendType)

shuffle_extreme_skew_with_relabel(order, n) ==
  UNION {Benchmark(n, OnN(order, n), final, SendType) : final \in relabeled(Skewed(order, n))}
=============================================================================

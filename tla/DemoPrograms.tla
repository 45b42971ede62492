---------------------------- MODULE DemoPrograms ----------------------------
(***************************************************************************)
(* The programs of basic_demo and elastic_demo, and one that adapts itself *)
(* step by step, as sequences of calls of shuffle().  The demos print,     *)
(* after each exchange, which rank holds what: every process passes an     *)
(* array that has its rank at every place of the array it has just been    *)
(* given, to have them all in the root.                                    *)
(***************************************************************************)
EXTENDS Shuffle

\* A communicator is what MPI_Comm_rank tells each process; here that of all
\* processes in an order
World(order) == [p \in Proc |-> (CHOOSE k \in DOMAIN order : order[k] = p) - 1]

belongs_to_comm(comm_ranks, p) == comm_ranks[p] # INVALID_RANK_ID
get_num_ranks(comm_ranks) == Cardinality({p \in Proc : belongs_to_comm(comm_ranks, p)})

\* A group is the sequence of its processes.
get_group(comm_ranks) ==
  [k \in 1..get_num_ranks(comm_ranks) |-> CHOOSE p \in Proc : comm_ranks[p] = k - 1]
get_sub_group(group, ranks) == [k \in DOMAIN ranks |-> group[ranks[k] + 1]]

\* The communicator of some ranks of another one, in the order given
get_sub_comm(base_comm, ranks) ==
  LET group == get_sub_group(get_group(base_comm), ranks)
  IN  [p \in Proc |-> IF p \in ToSet(group)
                      THEN (CHOOSE k \in DOMAIN group : group[k] = p) - 1
                      ELSE INVALID_RANK_ID]

generate_rank_id_vector(num_ranks) == [k \in 1..num_ranks |-> k - 1]

\* A Context: a distribution over a communicator, its name and its ranks
Context(distribution, name, ranks) ==
  [distribution |-> distribution, name |-> name, ranks |-> ranks]

\* A call of shuffle() from one context to another
Call(initial, final, data, keep) ==
  [initial |-> initial.distribution, final |-> final.distribution,
   initial_id |-> initial.ranks, final_id |-> final.ranks,
   comms |-> <<initial.name, final.name>>, type |-> "int", data |-> data, keep |-> keep]

\* print_domain_decomposition, the call in it: everybody's rank at the places
\* of what it was given, in the root of a communicator
print_domain_decomposition(current, all_in_root) == Call(current, all_in_root, "ranks", FALSE)

\* The same calls with arrays as vectors of vectors
OfMatrices(calls) == [k \in DOMAIN calls |-> calls[k] @@ [nested |-> TRUE]]

\* The matrix that basic_demo begins with, whose values count up row by row; a
\* count is the value's coordinates here.
init_matrix(num_rows, num_columns) ==
  [i \in 1..num_rows |-> [j \in 1..num_columns |->
     map_index((i - 1) * num_columns + j - 1, <<num_rows, num_columns>>)]]

\* It is the array that the root of the first call has.
ASSUME MatrixAssumption ==
  \A s \in Programs : "nested" \in DOMAIN s[1] =>
    LET dims == LocalDimensions(s[1].initial, 0)
    IN  to_vector(init_matrix(dims[1], dims[2])) = DataOf(s[1].initial, 0)

\* main of basic_demo, all on MPI_COMM_WORLD
BasicDemo(order, dimensions, distributions) ==
  LET InWorld(d) == Context(d, <<"world">>, World(order))
      all_in_root == InWorld(get_all_values_in_root(dimensions))
      contexts == <<all_in_root>> \o [i \in DOMAIN distributions |-> InWorld(distributions[i])]
  IN  OfMatrices(FlattenSeq([i \in DOMAIN distributions |->
        <<Call(contexts[i], contexts[i+1], "array", TRUE),
          print_domain_decomposition(contexts[i+1], all_in_root)>>]))

\* simulate_adaptation: a new communicator of the ranks from 0 on
simulate_adaptation(order, num_active_ranks, distribution) ==
  Context(distribution, <<"comm", num_active_ranks>>,
          get_sub_comm(World(order), generate_rank_id_vector(num_active_ranks)))

\* The same of elastic_demo, to the root of the current communicator.  Only
\* the active ranks print, and where there is one, the contexts are equal.
print_active_decomposition(current, dimensions) ==
  print_domain_decomposition(current, Context(BlockWise(dimensions, <<1>>), current.name, current.ranks))

\* main of elastic_demo: every adaptation starts from the original array.
ElasticDemo(order, dimensions) ==
  LET InWorld(d) == Context(d, <<"world">>, World(order))
      origin == InWorld(BlockWise(dimensions, <<get_num_ranks(World(order))>>))
      destiny(n) == simulate_adaptation(order, n, BlockWise(dimensions, <<n>>))
  IN  <<Call(origin, InWorld(get_all_values_in_root(dimensions)), "array", FALSE)>>
        \o FlattenSeq([n \in DOMAIN order |->
             <<Call(origin, destiny(n), "array", FALSE),
               print_active_decomposition(destiny(n), dimensions)>>])
-----------------------------------------------------------------------------
(***************************************************************************)
(* MalleabilitySimulator, in a program that requests one number of ranks   *)
(* after another and moves its array each time.  The call that follows an  *)
(* adaptation has one field more, status: what every process was told.     *)
(***************************************************************************)
\* Mutant: the current communicator has been replaced before.
get_rank_status_After(previous, next, p) ==
  IF belongs_to_comm(next, p) THEN "STAYING" ELSE "INACTIVE"

get_rank_status(previous, next, p) ==
  IF belongs_to_comm(previous, p)
  THEN IF belongs_to_comm(next, p) THEN "STAYING" ELSE "LEAVING"
  ELSE IF belongs_to_comm(next, p) THEN "JOINING" ELSE "INACTIVE"

\* A program so far, [current, calls], and one more request for n ranks.  With
\* fewer than n in the base communicator nothing changes.
request_adaptation(program, base, dimensions, n) ==
  IF n > get_num_ranks(base)
  THEN program
  ELSE LET next == Context(BlockWise(dimensions, <<n>>), <<"adaptation", Len(program.calls) + 1>>,
                           get_sub_comm(base, generate_rank_id_vector(n)))
           status == [p \in Proc |-> get_rank_status(program.current.ranks, next.ranks, p)]
       IN  [current |-> next,
            calls |-> Append(program.calls,
                             Call(program.current, next, "array", TRUE) @@ [status |-> status])]

Malleable(order, dimensions, initial_num_ranks, requests) ==
  LET base == World(order)
      initial == Context(BlockWise(dimensions, <<initial_num_ranks>>), <<"initial">>,
                         get_sub_comm(base, generate_rank_id_vector(initial_num_ranks)))
  IN  FoldLeft(LAMBDA program, n : request_adaptation(program, base, dimensions, n),
               [current |-> initial, calls |-> <<>>], requests).calls

\* What a process is told of itself is what happens to its data: one that
\* joins had nothing and is given values, one that leaves gives away all.
StatusTellsData ==
  "status" \in DOMAIN context =>
    \A p \in Proc : pc[p] = "done" =>
      LET had == DOMAIN local[p].data # {}
          has == DOMAIN new[p] # {}
      IN  /\ context.status[p] = "STAYING" <=> had /\ has
          /\ context.status[p] = "LEAVING" <=> had /\ ~has
          /\ context.status[p] = "JOINING" <=> ~had /\ has
=============================================================================

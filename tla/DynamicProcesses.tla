-------------------------- MODULE DynamicProcesses --------------------------
(***************************************************************************)
(* dyn_proc_demo: a program that has its job grow or shrink while it runs. *)
(* The runtime keeps named sets of processes.  The root asks it for a set  *)
(* operation; the new set is looked up by those who were there before and, *)
(* when the job grows, by the processes that the runtime has started; they *)
(* make a communicator of it and move their data.  Processes agree only    *)
(* through collectives, which are matched by communicator and order alone. *)
(*                                                                         *)
(* The runtime is modelled from its use: a question about an operation or  *)
(* a name waits until there is an answer, and in a new set the processes   *)
(* of the old one come first, in their order.  shuffle() is a collective   *)
(* of the larger of its communicators.  The set operations that have been  *)
(* made are numbered; their number stands for the new set, its name and    *)
(* its communicator, 0 for the set of all processes of the job, as it was  *)
(* at the start.                                                           *)
(***************************************************************************)
EXTENDS DynamicJobs, FiniteSets

VARIABLES
  job,
  operations,  \* the set operations: records [op, main, delta, published, open]
  dyn_pc,      \* dyn_pc[p]: where p is in its program
  main_pset,   \* main_pset[p]: the set whose name p has
  comm,        \* comm[p]: the set that p's communicator is made of
  iteration,   \* iteration[p]: i in p
  data,        \* data[p]: the set over which the values are spread that p has a
               \* part of, or Nothing
  dyn_collected  \* what the processes have contributed to collectives

dyn_vars == <<job, operations, dyn_pc, main_pset, comm, iteration, data, dyn_collected>>

Nothing == -1
Process == UNION {ToSet(j.processes \o Spare) : j \in Jobs}
-----------------------------------------------------------------------------
SetMembers(set) == IF set = 0 THEN job.processes ELSE operations[set].main

get_rank(p, set) == (CHOOSE k \in DOMAIN SetMembers(set) : SetMembers(set)[k] = p) - 1

\* How many collectives p has entered on a communicator
Entries(p, c) == Cardinality({x \in dyn_collected : x.comm = c /\ x.from = p})

\* p enters a collective on a communicator.
EnterOn(p, c, what, value) ==
  dyn_collected' = dyn_collected \cup
    {[comm |-> c, call |-> Entries(p, c) + 1, from |-> p, what |-> what, value |-> value]}

\* What the collective that p is in has collected, and whether all have come
CollectedOn(p, c) == {x \in dyn_collected : x.comm = c /\ x.call = Entries(p, c)}

CompleteOn(p, c) == ToSet(SetMembers(c)) = {x.from : x \in CollectedOn(p, c)}

Goto(p, place) == dyn_pc' = [dyn_pc EXCEPT ![p] = place]

\* The operation that has started p, or 0
Origin(p) ==
  IF p \in ToSet(job.processes)
  THEN 0
  ELSE CHOOSE k \in DOMAIN operations : operations[k].op = "grow" /\ p \in operations[k].delta

is_dynamic_process(p) == Origin(p) # 0

is_process_leaving(p, k) == operations[k].op = "shrink" /\ p \in operations[k].delta

\* The name of a new set is there when it is published.
Published(k) == k = 0 \/ (k \in DOMAIN operations /\ operations[k].published)
-----------------------------------------------------------------------------
DynInit ==
  /\ job \in Jobs
  /\ operations = <<>>
  /\ dyn_pc = [p \in Process |-> IF p \in ToSet(job.processes) THEN "begin" ELSE "absent"]
  /\ main_pset = [p \in Process |-> 0]
  /\ comm = [p \in Process |-> 0]
  /\ iteration = [p \in Process |-> 0]
  /\ data = [p \in Process |-> IF p \in ToSet(job.processes) THEN 0 ELSE Nothing]
  /\ dyn_collected = {}

\* get_main_pset, and into get_comm_from_pset
GetMainPset(p) ==
  /\ dyn_pc[p] = "begin"
  /\ Published(Origin(p))
  /\ main_pset' = [main_pset EXCEPT ![p] = Origin(p)]
  /\ comm' = [comm EXCEPT ![p] = Origin(p)]
  /\ EnterOn(p, Origin(p), "create", 0)
  /\ Goto(p, "create_first")
  /\ UNCHANGED <<job, operations, iteration, data>>

\* One that was there from the start begins to work, a new one takes part in
\* the broadcast.
Created(p) ==
  /\ dyn_pc[p] = "create_first" /\ CompleteOn(p, comm[p])
  /\ IF is_dynamic_process(p)
     THEN EnterOn(p, comm[p], "broadcast", 0) /\ Goto(p, "joining")
     ELSE UNCHANGED dyn_collected /\ Goto(p, "loop")
  /\ UNCHANGED <<job, operations, main_pset, comm, iteration, data>>

\* What the root of the broadcast that p is in has sent
Broadcast(p, c) == {x.value : x \in {y \in CollectedOn(p, c) : get_rank(y.from, c) = 0}}

\* What a process takes into shuffle(): the iteration that comes next and
\* what its values are spread over
Contribution(next_iteration, values) == [next |-> next_iteration, data |-> values]

\* starting_iteration, and into the shuffle that gives a new process its data
Join(p) ==
  /\ dyn_pc[p] = "joining"
  /\ \E first \in Broadcast(p, comm[p]) :
       /\ iteration' = [iteration EXCEPT ![p] = first]
       /\ EnterOn(p, comm[p], "shuffle", Contribution(first, data[p]))
  /\ Goto(p, "shuffle_first")
  /\ UNCHANGED <<job, operations, main_pset, comm, data>>

Joined(p) ==
  /\ dyn_pc[p] = "shuffle_first" /\ CompleteOn(p, comm[p])
  /\ data' = [data EXCEPT ![p] = comm[p]]
  /\ Goto(p, "loop")
  /\ UNCHANGED <<job, operations, main_pset, comm, iteration, dyn_collected>>
-----------------------------------------------------------------------------
InLoop(p) == dyn_pc[p] = "loop" /\ iteration[p] < job.num_adaptations

\* A set operation on the root's set; which processes leave is up to the
\* runtime.  Those that it starts begin to run.
gone == Cardinality(UNION {operations[k].delta : k \in DOMAIN operations})
new == SubSeq(Spare, gone + 1, gone + num_add_proc)

request_expansion(p) ==
  /\ operations' = Append(operations,
       [op |-> "grow", main |-> SetMembers(main_pset[p]) \o new, delta |-> ToSet(new),
        published |-> FALSE, open |-> TRUE])
  /\ dyn_pc' = [q \in Process |->
              IF q \in ToSet(new) THEN "begin" ELSE IF q = p THEN "publish" ELSE dyn_pc[q]]

\* What is left of a set, in its order
Without(set, leaving) ==
  LET kept == {k \in DOMAIN set : set[k] \notin leaving}
      place(k) == Cardinality({l \in kept : l < k})
  IN  [n \in 1..Cardinality(kept) |-> set[CHOOSE k \in kept : place(k) = n - 1]]

request_reduction(p) ==
  \E leaving \in SUBSET ToSet(SetMembers(main_pset[p])) :
    /\ Cardinality(leaving) = num_shrink_proc
    /\ operations' = Append(operations,
         [op |-> "shrink", main |-> Without(SetMembers(main_pset[p]), leaving), delta |-> leaving,
          published |-> FALSE, open |-> TRUE])
    /\ Goto(p, "publish")

Request(p) ==
  /\ InLoop(p) /\ get_rank(p, comm[p]) = 0
  /\ IF job.reduction THEN request_reduction(p) ELSE request_expansion(p)
  /\ UNCHANGED <<job, main_pset, comm, iteration, data, dyn_collected>>

\* The root publishes the name of the new set.
Publish(p) ==
  /\ dyn_pc[p] = "publish"
  /\ operations' = [operations EXCEPT ![Len(operations)].published = TRUE]
  /\ Goto(p, "query")
  /\ UNCHANGED <<job, main_pset, comm, iteration, data, dyn_collected>>

\* The operation on the set whose name p has: every new set comes of the last.
Operation(p) == main_pset[p] + 1

\* get_set_operation_info: there is an answer while an operation is pending.
QueryOperation(p) ==
  /\ dyn_pc[p] = "query" \/ (InLoop(p) /\ get_rank(p, comm[p]) # 0)
  /\ Operation(p) \in DOMAIN operations /\ operations[Operation(p)].open
  /\ Goto(p, "look_up")
  /\ UNCHANGED <<job, operations, main_pset, comm, iteration, data, dyn_collected>>

\* get_new_main_pset: p goes into the new communicator, or into the shuffle
\* that takes its data.
LookUp(p) ==
  /\ dyn_pc[p] = "look_up" /\ Published(Operation(p))
  /\ main_pset' = [main_pset EXCEPT ![p] = Operation(p)]
  /\ IF is_process_leaving(p, Operation(p))
     THEN /\ EnterOn(p, comm[p], "shuffle", Contribution(iteration[p] + 1, data[p]))
          /\ Goto(p, "leaving")
     ELSE EnterOn(p, Operation(p), "create", 0) /\ Goto(p, "create")
  /\ UNCHANGED <<job, operations, comm, iteration, data>>

\* Mutant: only those that have been started need the broadcast.
CreatedNext_NoBroadcast(p) ==
  /\ dyn_pc[p] = "create" /\ CompleteOn(p, main_pset[p])
  /\ EnterOn(p, IF operations[main_pset[p]].op = "grow" THEN main_pset[p] ELSE comm[p],
           "shuffle", Contribution(iteration[p] + 1, data[p]))
  /\ Goto(p, "shuffle")
  /\ UNCHANGED <<job, operations, main_pset, comm, iteration, data>>

\* The new communicator is there.  Where the job has grown the others are told
\* the next iteration; where it shrinks data moves among the old ones.
CreatedNext(p) ==
  /\ dyn_pc[p] = "create" /\ CompleteOn(p, main_pset[p])
  /\ IF operations[main_pset[p]].op = "grow"
     THEN EnterOn(p, main_pset[p], "broadcast", iteration[p] + 1) /\ Goto(p, "broadcast")
     ELSE /\ EnterOn(p, comm[p], "shuffle", Contribution(iteration[p] + 1, data[p]))
          /\ Goto(p, "shuffle")
  /\ UNCHANGED <<job, operations, main_pset, comm, iteration, data>>

Told(p) ==
  /\ dyn_pc[p] = "broadcast"
  /\ \E next_iter \in Broadcast(p, main_pset[p]) :
       EnterOn(p, main_pset[p], "shuffle", Contribution(next_iter, data[p]))
  /\ Goto(p, "shuffle")
  /\ UNCHANGED <<job, operations, main_pset, comm, iteration, data>>

\* The data has moved, and the old communicator is left.
Shuffled(p) ==
  /\ dyn_pc[p] = "shuffle"
  /\ CompleteOn(p, IF operations[main_pset[p]].op = "grow" THEN main_pset[p] ELSE comm[p])
  /\ data' = [data EXCEPT ![p] = main_pset[p]]
  /\ EnterOn(p, comm[p], "disconnect", 0)
  /\ Goto(p, "disconnect")
  /\ UNCHANGED <<job, operations, main_pset, comm, iteration>>

\* Mutant: who has been the root finalizes the operation.
Disconnected_OldRoot(p) ==
  /\ dyn_pc[p] = "disconnect" /\ CompleteOn(p, comm[p])
  /\ comm' = [comm EXCEPT ![p] = main_pset[p]]
  /\ operations' = IF get_rank(p, comm[p]) = 0
                   THEN [operations EXCEPT ![main_pset[p]].open = FALSE]
                   ELSE operations
  /\ iteration' = [iteration EXCEPT ![p] = @ + 1]
  /\ Goto(p, "loop")
  /\ UNCHANGED <<job, main_pset, data, dyn_collected>>

\* The root of the new communicator finalizes the operation.
Disconnected(p) ==
  /\ dyn_pc[p] = "disconnect" /\ CompleteOn(p, comm[p])
  /\ comm' = [comm EXCEPT ![p] = main_pset[p]]
  /\ operations' = IF get_rank(p, main_pset[p]) = 0
                   THEN [operations EXCEPT ![main_pset[p]].open = FALSE]
                   ELSE operations
  /\ iteration' = [iteration EXCEPT ![p] = @ + 1]
  /\ Goto(p, "loop")
  /\ UNCHANGED <<job, main_pset, data, dyn_collected>>

\* Mutant: one that leaves returns at once.
GivenAway_Returns(p) ==
  /\ dyn_pc[p] = "leaving" /\ CompleteOn(p, comm[p])
  /\ data' = [data EXCEPT ![p] = Nothing]
  /\ Goto(p, "done")
  /\ UNCHANGED <<job, operations, main_pset, comm, iteration, dyn_collected>>

\* One that leaves has given its data away, and breaks out of the loop.
GivenAway(p) ==
  /\ dyn_pc[p] = "leaving" /\ CompleteOn(p, comm[p])
  /\ data' = [data EXCEPT ![p] = Nothing]
  /\ EnterOn(p, comm[p], "disconnect", 0)
  /\ Goto(p, "end")
  /\ UNCHANGED <<job, operations, main_pset, comm, iteration>>

\* The loop is over.
LeaveLoop(p) ==
  /\ dyn_pc[p] = "loop" /\ iteration[p] >= job.num_adaptations
  /\ EnterOn(p, comm[p], "disconnect", 0)
  /\ Goto(p, "end")
  /\ UNCHANGED <<job, operations, main_pset, comm, iteration, data>>

Exit(p) ==
  /\ dyn_pc[p] = "end" /\ CompleteOn(p, comm[p])
  /\ Goto(p, "done")
  /\ UNCHANGED <<job, operations, main_pset, comm, iteration, data, dyn_collected>>

DynStep(p) ==
  \/ GetMainPset(p) \/ Created(p) \/ Join(p) \/ Joined(p)
  \/ Request(p) \/ Publish(p) \/ QueryOperation(p) \/ LookUp(p)
  \/ CreatedNext(p) \/ Told(p) \/ Shuffled(p) \/ Disconnected(p)
  \/ GivenAway(p) \/ LeaveLoop(p) \/ Exit(p)

Over == \A p \in Process : dyn_pc[p] \in {"absent", "done"}

DynNext == (\E p \in Process : DynStep(p)) \/ (Over /\ UNCHANGED dyn_vars)

DynSpec == DynInit /\ [][DynNext]_dyn_vars /\ \A p \in Process : WF_dyn_vars(DynStep(p))
-----------------------------------------------------------------------------
\* Contributions that are matched are to the same collective, and to a shuffle
\* all come at the same iteration, with values that are spread over the same
\* processes or with none; a set operation begins when the one before has been
\* finalized, whoever is the root by then.
CollectivesMatch ==
  /\ \A x, y \in dyn_collected : x.comm = y.comm /\ x.call = y.call =>
       /\ x.what = y.what
       /\ x.what = "shuffle" =>
            /\ x.value.next = y.value.next
            /\ x.value.data = y.value.data \/ Nothing \in {x.value.data, y.value.data}
  /\ \A k \in DOMAIN operations : operations[k].open => k = Len(operations)

\* All processes end, and then those of the last set and no other have the
\* values: nobody takes a part with him, or ends before he has got his own.
Adapted ==
  /\ Over /\ Len(operations) = job.num_adaptations
  /\ \A p \in Process :
       data[p] = IF p \in ToSet(SetMembers(Len(operations))) THEN Len(operations) ELSE Nothing

EveryoneAdapts == <>Adapted
=============================================================================

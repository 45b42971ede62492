--------------------- MODULE DynamicProcessesInvariant ---------------------
(***************************************************************************)
(* The inductive invariant behind what DynamicProcesses.tla says of the    *)
(* collectives of dyn_proc_demo.  The members of a communicator enter the  *)
(* same collectives on it in the same order, whenever they come and        *)
(* however they leave.  So where a process is tells how many it has        *)
(* entered on each communicator, and those that MPI matches are the same.  *)
(***************************************************************************)
EXTENDS DynamicProcesses

Grows == ~job.reduction
Sets == 0..job.num_adaptations

\* How many collectives there are on the communicator of a set, from first to
\* last, and which the n-th is
Total(c) ==
  IF Grows THEN IF c = 0 THEN 2 ELSE 4
           ELSE IF c < job.num_adaptations THEN 3 ELSE 2

What(c, n) ==
  IF n = 1 THEN "create"
  ELSE IF n = Total(c) THEN "disconnect"
  ELSE IF n = 2 /\ Grows THEN "broadcast"
  ELSE "shuffle"

\* How many come before the work in a set begins
Settled(c) == IF Grows /\ c # 0 THEN 3 ELSE 1

OnCurrent(place, c) ==
  CASE place = "create_first" -> 1
    [] place = "joining" -> 2
    [] place = "shuffle_first" -> 3
    [] place \in {"loop", "publish", "query", "look_up", "create", "broadcast"} -> Settled(c)
    [] place = "shuffle" -> IF Grows THEN Settled(c) ELSE 2
    [] place = "leaving" -> 2
    [] OTHER -> Total(c)

OnNext(place, c) ==
  CASE place = "create" -> 1
    [] place = "broadcast" -> 2
    [] place \in {"shuffle", "disconnect"} -> Settled(c)
    [] OTHER -> 0

\* How many a member of set c has entered that is at a place in the program,
\* with a current communicator and the name of a set
Count(place, current, name, c) ==
  IF place \in {"absent", "begin"} THEN 0
  ELSE IF c < current THEN Total(c)
  ELSE IF c = current THEN OnCurrent(place, c)
  ELSE IF c = name THEN OnNext(place, c)
  ELSE 0

Inside(p, c) == c <= Len(operations) /\ p \in ToSet(SetMembers(c))

entered ==
  [p \in Process |->
     [c \in Sets |-> IF Inside(p, c) THEN Count(dyn_pc[p], comm[p], main_pset[p], c) ELSE 0]]

\* The root of a set's communicator
Root(p, c) == p \in ToSet(SetMembers(c)) /\ get_rank(p, c) = 0

\* Those that a job does not begin with, and those that have been started
New(p) == p \notin ToSet(job.processes)
Started(p) == ~New(p) \/ (Grows /\ p \in ToSet(SubSeq(Spare, 1, num_add_proc * Len(operations))))

\* What goes into a shuffle on the communicator of a set
NextIteration(c) == IF Grows THEN c ELSE c + 1
Spread(c) == IF Grows THEN c - 1 ELSE c
-----------------------------------------------------------------------------
Place == {"absent", "begin", "create_first", "joining", "shuffle_first", "loop", "publish", "query",
          "look_up", "create", "broadcast", "shuffle", "disconnect", "leaving", "end", "done"}

Operations ==
  [op : {"grow", "shrink"}, main : Seq(Process), delta : SUBSET Process,
   published : BOOLEAN, open : BOOLEAN]

TypeOK ==
  /\ job \in Jobs
  /\ operations \in Seq(Operations)
  /\ dyn_pc \in [Process -> Place]
  /\ main_pset \in [Process -> Nat]
  /\ comm \in [Process -> Nat]
  /\ iteration \in [Process -> Nat]
  /\ data \in [Process -> Nat \cup {Nothing}]

\* Sets grow by the spare processes in their order, and keep who does not leave.
OperationsInv ==
  /\ Len(operations) \in Sets
  /\ \A k \in 1..Len(operations) :
       IF Grows
       THEN /\ operations[k].op = "grow"
            /\ operations[k].main = job.processes \o SubSeq(Spare, 1, num_add_proc * k)
            /\ operations[k].delta = ToSet(SubSeq(Spare, num_add_proc * (k - 1) + 1, num_add_proc * k))
       ELSE /\ operations[k].op = "shrink"
            /\ ToSet(SetMembers(k - 1)) \ operations[k].delta \subseteq ToSet(operations[k].main)

\* Where a process can be, and what it knows there
Arriving == {"create_first", "joining", "shuffle_first"}
Working == {"loop", "publish", "query", "look_up"}
Moving == {"create", "broadcast", "shuffle", "disconnect"}

Fits(p, place, current, name, i, values) ==
  /\ ~Started(p) => place = "absent"
  /\ name <= Len(operations)
  /\ IF place \in {"absent", "begin"}
     THEN name = 0 /\ current = 0
     ELSE current <= name /\ Inside(p, current)
  /\ place \in {"absent", "begin"} \cup Arriving => values = IF New(p) THEN Nothing ELSE 0
  /\ place \in {"absent", "begin", "create_first", "joining"} => i = 0
  /\ place \in Arriving \cup Working => name = current
  /\ place \in Moving \cup {"leaving"} => name = current + 1
  /\ place \in Moving => Inside(p, name)
  /\ place \in Arriving => IF New(p) THEN Grows ELSE place = "create_first" /\ current = 0
  /\ place \in {"publish", "query", "look_up"} => name < Len(operations)
  /\ place = "broadcast" => Grows
  /\ place = "leaving" => ~Grows
  /\ place \in {"shuffle_first", "leaving"} \cup Working \cup Moving => i = current
  /\ place \in {"leaving", "create", "broadcast", "shuffle"} \cup Working => values = current
  /\ place = "disconnect" => values = name

PlaceOK(p) == Fits(p, dyn_pc[p], comm[p], main_pset[p], iteration[p], data[p])

PlacesInv == \A p \in Process : PlaceOK(p)

\* In S is an entry for each collective, from the first to the E[p][c]-th, that
\* a process p has entered on a communicator c.
Registered(S, E, C) ==
  /\ \A x \in S : x.from \in Process /\ x.comm \in C /\ x.call \in 1..E[x.from][x.comm]
  /\ \A p \in Process, c \in C : \A n \in 1..E[p][c] :
       \E x \in S : x.from = p /\ x.comm = c /\ x.call = n
  /\ \A x, y \in S : x.from = y.from /\ x.comm = y.comm /\ x.call = y.call => x = y

RegisteredInv == Registered(dyn_collected, entered, Sets)

\* What an entry is for, and what it brings
RightValue(what, value, p, c) ==
  /\ what = "shuffle" => value.next = NextIteration(c) /\ value.data \in {Spread(c), Nothing}
  /\ what = "broadcast" /\ Root(p, c) => value = c

RightInv ==
  \A x \in dyn_collected : x.what = What(x.comm, x.call) /\ RightValue(x.what, x.value, x.from, x.comm)

\* An operation on a set has been asked for when its root has asked for it.
Asked(p, c) == c < main_pset[p] \/ (c = main_pset[p] /\ dyn_pc[p] \in {"publish", "query", "look_up"})

RootInv ==
  /\ \A p \in Process, c \in 0..Len(operations) : Root(p, c) /\ ~Asked(p, c) => c = Len(operations)
  /\ \A p \in Process :
       dyn_pc[p] = "loop" /\ comm[p] # 0 /\ Root(p, comm[p]) => ~operations[comm[p]].open
  /\ \A k \in 1..Len(operations) : operations[k].open => k = Len(operations)

DynamicInv == TypeOK /\ OperationsInv /\ PlacesInv /\ RegisteredInv /\ RightInv /\ RootInv
=============================================================================

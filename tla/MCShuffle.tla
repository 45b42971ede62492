------------------------------ MODULE MCShuffle ------------------------------
(***************************************************************************)
(* Three processes.  In one dimension 5 values, in two 3 x 2, in three     *)
(* 2 x 2 x 2, dealt out in blocks of 1 or 2, or evenly, to grids of up to  *)
(* three processors; the final communicator has the processes in the same  *)
(* order, in another one, or only some of them.  Besides single calls the  *)
(* programs of the two demos, on 3 x 3 and on 6 values, and those of the   *)
(* benchmarks on 6 values, which make each call twice.                     *)
(***************************************************************************)
EXTENDS BenchmarkPrograms

MCProc == {"a", "b", "c"}
Order == <<"a", "b", "c">>
Ranks(a, b, c) == [p \in MCProc |-> IF p = "a" THEN a ELSE IF p = "b" THEN b ELSE c]

Calls(initial, final, communicators, types) ==
  {[initial |-> i, final |-> f, initial_id |-> c[1], final_id |-> c[2],
    comms |-> <<<<"initial">>, <<"final">>>>, type |-> t, data |-> "array", keep |-> TRUE] :
     i \in initial, f \in final, c \in communicators, t \in types}

\* The processes of each communicator are enough for its grid.
Members(ranks) == Cardinality({p \in MCProc : ranks[p] # INVALID_RANK_ID})
Fit(calls) ==
  {c \in calls : /\ calc_total_num_values(c.initial.grid) =< Members(c.initial_id)
                 /\ calc_total_num_values(c.final.grid) =< Members(c.final_id)}

Only(exchanger, calls) == {c \in calls : select_exchanger(c.initial, c.final) = exchanger}
-----------------------------------------------------------------------------
(***************************************************************************)
(* Exchanges from many to many                                             *)
(***************************************************************************)
OneDimension ==
  {BlockCyclic(<<5>>, <<b>>, <<g>>) : b \in {1, 2}, g \in 2..3}
    \cup {BlockWise(<<5>>, <<g>>) : g \in {1, 3}}

\* Distributions that no block size gives; two of them are alike but for the
\* order of the map, in which they compare unequal.
Between(l, r) == [left |-> l, right |-> r]
Irregular ==
  {GeneralData((0 :> <<<<Between(3, 5)>>, <<Between(0, 1)>>>>) @@ (1 :> <<<<Between(1, 3)>>>>), 1),
   GeneralData((0 :> <<<<Between(0, 1)>>, <<Between(3, 5)>>>>) @@ (1 :> <<<<Between(1, 3)>>>>), 1),
   GeneralData((0 :> <<<<Between(4, 5)>>>>) @@ (2 :> <<<<Between(0, 4)>>>>), 1)}
IrregularGrid ==
  {GeneralData((0 :> <<<<Between(0, 2), Between(1, 2)>>, <<Between(2, 3), Between(1, 2)>>>>)
                 @@ (1 :> <<<<Between(0, 2), Between(0, 1)>>, <<Between(2, 3), Between(0, 1)>>>>), 2)}

TwoDimensions ==
  {BlockCyclic(<<3, 2>>, <<1, 1>>, g) : g \in {<<2, 1>>, <<1, 2>>, <<1, 1>>}}
    \cup {BlockCyclic(<<3, 2>>, <<2, 1>>, <<3, 1>>)}
    \cup {BlockWise(<<3, 2>>, g) : g \in {<<2, 1>>, <<1, 2>>}}

ThreeDimensions ==
  {BlockCyclic(<<2, 2, 2>>, <<1, 1, 1>>, g) : g \in {<<1, 2, 1>>, <<1, 1, 2>>, <<2, 1, 1>>}}

AllThree == {<<Ranks(0, 1, 2), Ranks(0, 1, 2)>>, <<Ranks(0, 1, 2), Ranks(2, 0, 1)>>}

\* One communicator is a part of the other, or a process is in neither.
SomeOnly ==
  {<<Ranks(1, 2, 0), Ranks(1, -1, 0)>>, <<Ranks(1, -1, 0), Ranks(1, 2, 0)>>,
   <<Ranks(0, 1, -1), Ranks(1, 0, -1)>>}

General(distributions, communicators) ==
  Only("general", Fit(Calls(distributions, distributions, communicators, {"int"})))
-----------------------------------------------------------------------------
(***************************************************************************)
(* Exchanges from one to many                                              *)
(***************************************************************************)
\* Final communicators that give the processes of their grid the ranks they
\* have in the inter-communicator, from three, two or one process to three
SameOrder ==
  {<<Ranks(0, 1, 2), Ranks(0, 1, 2)>>, <<Ranks(-1, 0, -1), Ranks(0, 1, 2)>>,
   <<Ranks(1, -1, 0), Ranks(2, 1, 0)>>, <<Ranks(0, -1, 1), Ranks(0, -1, 1)>>}

OtherOrder == {<<Ranks(0, 1, 2), Ranks(1, 2, 0)>>, <<Ranks(0, 1, 2), Ranks(-1, 0, 1)>>}

ToOneDimension(communicators, types) ==
  Only("scatter", Fit(Calls({BlockWise(<<5>>, <<1>>), BlockCyclic(<<5>>, <<2>>, <<1>>)},
                            {BlockWise(<<5>>, <<g>>) : g \in 1..3}
                              \cup {BlockCyclic(<<5>>, <<3>>, <<2>>)},
                            communicators, types)))

ToTwoDimensions ==
  Fit(Calls({BlockWise(<<3, 2>>, <<1, 1>>)},
            {BlockWise(<<3, 2>>, g) : g \in {<<1, 2>>, <<2, 1>>, <<3, 1>>}}
              \cup {BlockCyclic(<<3, 2>>, <<2, 2>>, <<2, 1>>)},
            SameOrder, {"int", "Particle"}))

ToThreeDimensions ==
  Fit(Calls({BlockWise(<<2, 2, 2>>, <<1, 1, 1>>)},
            {BlockWise(<<2, 2, 2>>, g) : g \in {<<1, 2, 1>>, <<1, 1, 2>>}},
            SameOrder, {"int"}))
-----------------------------------------------------------------------------
SingleCalls ==
  General(OneDimension \cup Irregular, AllThree \cup SomeOnly)
    \cup General(TwoDimensions \cup IrregularGrid, AllThree \cup SomeOnly)
    \cup General(ThreeDimensions, AllThree)
    \cup Only("general", Fit(Calls(Irregular, Irregular, AllThree, {"Particle"})))
    \cup ToOneDimension(SameOrder, {"int", "MoleculeLJ", "Particle"})
    \cup ToTwoDimensions \cup ToThreeDimensions

Demos ==
  {BasicDemo(Order, <<3, 3>>,
             <<BlockWise(<<3, 3>>, <<3, 1>>), BlockWise(<<3, 3>>, <<1, 3>>),
               BlockWise(<<3, 3>>, <<2, 1>>), BlockCyclic(<<3, 3>>, <<1, 1>>, <<2, 1>>)>>),
   ElasticDemo(Order, <<6>>),
   Malleable(Order, <<6>>, 1, <<2, 1, 4, 3, 3>>), Malleable(<<"c", "a", "b">>, <<5>>, 3, <<1, 3, 2, 3>>)}

Benchmarks ==
  LET All(order, n) ==
        UNION {shuffle_from_N_to_one(order, n), shuffle_serialization_from_N_to_one(order, n),
               shuffle_from_one_to_N(order, n), shuffle_serialization_from_one_to_N(order, n),
               shuffle_from_N_to_N_same_distribution(order, n), shuffle_from_N_to_N(order, n),
               shuffle_serialization_from_N_to_N(order, n), shuffle_reduction(order, n),
               shuffle_clustered(order, n), shuffle_clustered_with_relabel(order, n),
               shuffle_extreme_skew(order, n), shuffle_extreme_skew_with_relabel(order, n),
               profiling(order, n)}
  IN  All(Order, 6)

MCPrograms == {<<c>> : c \in SingleCalls} \cup Demos \cup Benchmarks
MCContexts == {s[1] : s \in MCPrograms}

\* Another order of ranks in the final communicator
ReorderedContexts == ToOneDimension(OtherOrder, {"int"})
ReorderedPrograms == {<<c>> : c \in ReorderedContexts}

\* Several initial blocks in a dimension other than the first
ManyBlocksContexts ==
  Calls({BlockCyclic(<<3, 2>>, <<2, 1>>, <<1, 1>>)}, {BlockWise(<<3, 2>>, <<2, 1>>)},
        SameOrder, {"int"})
ManyBlocksPrograms == {<<c>> : c \in ManyBlocksContexts}
=============================================================================

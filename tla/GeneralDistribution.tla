------------------------- MODULE GeneralDistribution -------------------------
(***************************************************************************)
(* GeneralDataDistribution: a distribution made of a map from ranks to the *)
(* multidimensional intervals that each one has.  Every process calls      *)
(* make() with the same map and with the blocks it has allocated, and is   *)
(* given a distribution or refused.                                        *)
(*                                                                         *)
(* Intervals and blocks are ordered by their right bounds alone, and so    *)
(* are the keys under which check_for_holes groups them.                   *)
(***************************************************************************)
EXTENDS Grid

CONSTANTS
  Processes,  \* the ranks that call make
  Mappings    \* global mappings: functions from ranks to sequences of
              \* sequences of N intervals [left, right]

\* A map of finitely many ranks, whose intervals have as many dimensions each
IsMapping(m) ==
  /\ DOMAIN m \subseteq Nat /\ IsFiniteSet(DOMAIN m)
  /\ \A r \in DOMAIN m : m[r] \in Seq(ToSet(m[r]))
  /\ get_intervals(m) \subseteq Seq(Interval) \ {<<>>}
  /\ \A i, j \in get_intervals(m) : Len(i) = Len(j)

ASSUME MappingAssumption == \A m \in Mappings : IsMapping(m)

VARIABLES
  global_mapping,  \* the map
  num_local,       \* num_local[r]: the size of the local mapping of process r
  made             \* made[r]: nothing yet, "refused", or [grid, blocks] with
                   \* the blocks of each dimension

general_vars == <<global_mapping, num_local, made>>
-----------------------------------------------------------------------------
\* Mutant: only the interval before is asked for.
is_contiguous_Before(a, b) == b.right = a.left

is_contiguous(a, b) == a.right = b.left \/ b.right = a.left

\* Mutant: a gap is a problem and an overlap is none.
find_problematic_intervals_Gap(intervals) ==
  {p \in intervals \X intervals : /\ p[1].right < p[2].left
                                  /\ ~\E i \in intervals : i.right > p[1].right /\ i.right < p[2].right}

\* Neighbours in the order of right bounds, which for equal right bounds is
\* any order, that are not contiguous
find_problematic_intervals(intervals) ==
  {p \in intervals \X intervals :
     /\ p[1] # p[2] /\ p[1].right =< p[2].right
     /\ ~\E i \in intervals : i.right > p[1].right /\ i.right < p[2].right
     /\ ~is_contiguous(p[1], p[2])}

\* The left bound of the first interval and the right bound of the last
Start(intervals) == (CHOOSE i \in intervals : \A j \in intervals : ~Before(j, i)).left
Stop(intervals) == (CHOOSE i \in intervals : \A j \in intervals : ~Before(i, j)).right

\* Duplicates are removed: an interval that two ranks have counts once.
InDimension(intervals, d) == {i[d] : i \in intervals}

\* The intervals that are in one group with i when d dimensions have been
\* dropped, from the first on: those whose intervals there end alike
Group(intervals, i, d) == {j \in intervals : \A e \in 1..d : j[e].right = i[e].right}

\* The intervals of the last dimension in the last group that i comes into
LastGroup(intervals, i) == InDimension(Group(intervals, i, Len(i) - 1), Len(i))

\* The recursion drops dimension after dimension.  When two are left, all
\* groups must start and end alike; in the last one each is checked by
\* itself.  The keys of the groups are not compared.
check_for_holes(intervals) ==
  \A i \in intervals :
    /\ \A j \in Group(intervals, i, Len(i) - 2) :
         /\ Start(LastGroup(intervals, i)) = Start(LastGroup(intervals, j))
         /\ Stop(LastGroup(intervals, i)) = Stop(LastGroup(intervals, j))
    /\ find_problematic_intervals(LastGroup(intervals, i)) = {}

check_contiguity_intervals(intervals) == check_for_holes(intervals)

check_consistency_local_and_global_mapping(mapping, num_blocks, rank) ==
  num_blocks = IF rank \in DOMAIN mapping THEN Len(mapping[rank]) ELSE 0

run_checks(mapping, num_blocks, rank) ==
  /\ check_contiguity_intervals(get_intervals(mapping))
  /\ check_consistency_local_and_global_mapping(mapping, num_blocks, rank)
-----------------------------------------------------------------------------
\* The number of dimensions, a template parameter: that of the intervals
N == IF get_intervals(global_mapping) = {}
     THEN 1
     ELSE Len(CHOOSE i \in get_intervals(global_mapping) : TRUE)

GeneralInit ==
  /\ global_mapping \in Mappings
  /\ num_local = [r \in Processes |-> 0]
  /\ made = [r \in Processes |-> <<>>]

\* What make() returns
Answer(rank, num_blocks) ==
  LET grid == create_processor_grid(global_mapping, N)
  IN  IF run_checks(global_mapping, num_blocks, rank)
      THEN <<grid, create_grid_layout(global_mapping, grid)>>
      ELSE <<"refused">>

make(rank, num_blocks) ==
  /\ made[rank] = <<>>
  /\ num_local' = [num_local EXCEPT ![rank] = num_blocks]
  /\ made' = [made EXCEPT ![rank] = Answer(rank, num_blocks)]
  /\ UNCHANGED global_mapping

AllMade == (\A r \in Processes : made[r] # <<>>) /\ UNCHANGED general_vars

GeneralNext == (\E r \in Processes, n \in 0..2 : make(r, n)) \/ AllMade

GeneralSpec == GeneralInit /\ [][GeneralNext]_general_vars
-----------------------------------------------------------------------------
(***************************************************************************)
(* The map, value by value                                                 *)
(***************************************************************************)
Asked(r) == made[r] # <<>>
Given(r) == Len(made[r]) = 2

Consistent(r) ==
  num_local[r] = IF r \in DOMAIN global_mapping THEN Len(global_mapping[r]) ELSE 0

HasValue(interval, value) ==
  \A d \in DOMAIN interval : contains(interval[d], value[d])

\* The values between the bounds of intervals of one dimension
Span(intervals) ==
  Min({i.left : i \in intervals})..Max({i.right : i \in intervals})-1

\* Intervals of one dimension that have each value between their bounds once
Tile(intervals) ==
  \A v \in Span(intervals) :
    Cardinality({i \in intervals : contains(i, v)}) = 1

\* Intervals that cut a box along a grid: each dimension is cut, and there is
\* a box for every choice of an interval in each
IsGrid(intervals) ==
  /\ \A d \in 1..N : Tile(InDimension(intervals, d))
  /\ \A box \in [1..N -> UNION {InDimension(intervals, d) : d \in 1..N}] :
       (\A d \in 1..N : box[d] \in InDimension(intervals, d)) => box \in intervals

Intervals == get_intervals(global_mapping)

\* In one dimension a process is given a distribution just when the intervals,
\* each taken once, leave no hole and do not overlap and it has allocated as
\* many blocks as the map gives it.
RefusedOrTiled ==
  N = 1 /\ Intervals # {} =>
    \A r \in Processes : Asked(r) =>
      (Given(r) <=> Tile(InDimension(Intervals, 1)) /\ Consistent(r))

\* Whatever the number of dimensions, intervals that cut an array along a
\* grid are accepted.
GridsAreMade ==
  Intervals # {} /\ IsGrid(Intervals) =>
    \A r \in Processes : Asked(r) /\ Consistent(r) => Given(r)

\* When the intervals of the first of two dimensions are a tiling, the one
\* thing that check_for_holes never looks at, only maps are accepted that have
\* each value of the box they span in one interval and in no other.
BoxesAreTiled ==
  N = 2 /\ Intervals # {} /\ Tile(InDimension(Intervals, 1)) =>
    \A r \in Processes : Asked(r) /\ Given(r) =>
      \A x \in Span(InDimension(Intervals, 1)), y \in Span(InDimension(Intervals, 2)) :
        Cardinality({i \in Intervals : HasValue(i, <<x, y>>)}) = 1

\* The ranks that a grid layout and a processor grid give a value, one for
\* each choice of blocks that it is in
LedTo(layout, grid, value) ==
  LET owners == {b.owner : b \in UNION ToSet(layout)}
  IN  {get_processor_id(at, grid) :
         at \in {o \in [1..N -> owners] :
                   \A d \in 1..N : \E b \in layout[d] : contains(b, value[d]) /\ b.owner = o[d]}}

\* The grid layout and the processor grid of such a distribution lead from a
\* value to the rank that the map gives it and to no other, where ranks share
\* no interval of the last dimension, the only one that tells them apart.
KeepsOwners ==
  LET OfRank(q) == InDimension(ToSet(global_mapping[q]), N)
  IN  /\ Intervals # {} /\ IsGrid(Intervals)
      /\ \A q, s \in DOMAIN global_mapping : q # s => OfRank(q) \cap OfRank(s) = {}
      => \A r \in Processes : Asked(r) /\ Given(r) =>
           \A q \in DOMAIN global_mapping : \A i \in ToSet(global_mapping[q]) :
             LedTo(made[r][2], made[r][1], [d \in 1..N |-> i[d].left]) = {q}

\* The inductive invariant: a process has been given what make() returns for
\* the map and the blocks that it has named.
MadeInv ==
  /\ global_mapping \in Mappings
  /\ DOMAIN num_local = Processes /\ DOMAIN made = Processes
  /\ \A r \in Processes : made[r] = <<>> \/ made[r] = Answer(r, num_local[r])

\* No distribution is given for intervals that leave a hole in the box that
\* they span.
HolesAreCaught ==
  \A r \in Processes : Asked(r) /\ Given(r) /\ Intervals # {} =>
    \A value \in [1..N -> UNION {Span(InDimension(Intervals, d)) : d \in 1..N}] :
      (\A d \in 1..N : value[d] \in Span(InDimension(Intervals, d)))
        => \E i \in Intervals : HasValue(i, value)
=============================================================================

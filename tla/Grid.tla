-------------------------------- MODULE Grid --------------------------------
(***************************************************************************)
(* Distributions of N dimensions.  An array over the dimensions is a       *)
(* sequence of length N; coordinates, like values in an array, count from  *)
(* 0 and the last dimension varies fastest.  A distribution is a record    *)
(* [layouts, grid, block_wise]: the blocks of each dimension, the          *)
(* processor grid and what is_block_wise() answers.                        *)
(***************************************************************************)
EXTENDS Blocks, FiniteSets, SequencesExt, Sums

INVALID_RANK_ID == -1

\* LeftClosedRange: the indices that an iteration visits, how many they are,
\* and the order, which looks at the right bounds alone
Indices(interval) == interval.left..interval.right-1
get_length(interval) == interval.right - interval.left
Before(a, b) == a.right < b.right

calc_total_num_values(dims) == ProductTo(dims, Len(dims))

\* The stride of dimension d, and the coordinate d of the value at an index
Stride(dims, d) == calc_total_num_values(SubSeq(dims, d + 1, Len(dims)))
Digit(index, dims, d) == (index \div Stride(dims, d)) % dims[d]

\* map_indices, with INVALID_RANK_ID for nullopt
map_indices(coordinates, dims) ==
  IF \E d \in DOMAIN dims : coordinates[d] = dims[d]
  THEN INVALID_RANK_ID
  ELSE SumTo([d \in DOMAIN dims |-> coordinates[d] * Stride(dims, d)], Len(dims))

\* The index of the value at a point in an mdspan, whose layout is layout_right
layout_right(point, dims) ==
  FoldLeft(LAMBDA offset, d : offset * dims[d] + point[d], 0, [d \in DOMAIN dims |-> d])

\* An mdspan over values by index: its number of values, and the one at a point
mdspan(values, dims) == [data |-> values, extents |-> dims]
size(array) == calc_total_num_values(array.extents)
empty(array) == \E d \in DOMAIN array.extents : array.extents[d] = 0
element(array, point) == array.data[layout_right(point, array.extents)]

\* What mdspan asserts of the point before it accesses an element
check_all_indices(point, dims) == \A d \in DOMAIN dims : 0 =< point[d] /\ point[d] < dims[d]

\* get_dimensions of an mdspan: one without values has none in any dimension.
mdspan_dimensions(array) ==
  [d \in DOMAIN array.extents |-> IF empty(array) THEN 0 ELSE array.extents[d]]

\* The values of an mdspan as a vector
get_1D_data(array) == [x \in 0..size(array)-1 |-> array.data[x]]

get_invalid_coordinates(N) == [d \in 1..N |-> -1]

\* map_index, with invalid coordinates for nullopt
map_index(index, dims) ==
  IF index < 0 \/ index > calc_total_num_values(dims) - 1
  THEN get_invalid_coordinates(Len(dims))
  ELSE [d \in DOMAIN dims |-> Digit(index, dims, d)]

\* ProcessorGrid: the rank at a place of the grid, and the place of a rank
get_num_processors(grid) == calc_total_num_values(grid)
get_processor_id(coordinates, grid) == map_indices(coordinates, grid)
get_processor_coordinates(rank, grid) == map_index(rank, grid)

get_cartesian_product(vectors) ==
  LET lengths == [d \in DOMAIN vectors |-> Len(vectors[d])]
  IN  [k \in 1..calc_total_num_values(lengths) |->
         [d \in DOMAIN vectors |-> vectors[d][Digit(k - 1, lengths, d) + 1]]]

BlockCyclic(num_values, block_sizes, grid) ==
  [layouts |-> [d \in DOMAIN grid |-> create_blocks(num_values[d], block_sizes[d], grid[d])],
   grid |-> grid,
   block_wise |-> \A d \in DOMAIN grid :
                    grid[d] \in {1, CeilDiv(num_values[d], block_sizes[d])}]

BlockWise(num_values, grid) ==
  [layouts |-> [d \in DOMAIN grid |-> create_evenly_blocks(num_values[d], grid[d])],
   grid |-> grid,
   block_wise |-> TRUE]

get_all_values_in_root(num_values) == BlockWise(num_values, [d \in DOMAIN num_values |-> 1])

\* The multidimensional blocks of a grid layout: those that it is made of, in
\* their order, or else the products of the blocks of each dimension.  Two
\* layouts are equal if these are.
get_multidimensional_blocks(distribution) ==
  IF "listed" \in DOMAIN distribution
  THEN distribution.listed
  ELSE get_cartesian_product(distribution.layouts)

EqualLayouts(a, b) == get_multidimensional_blocks(a) = get_multidimensional_blocks(b)
EqualGrids(a, b) == get_num_processors(a.grid) = get_num_processors(b.grid) /\ a.grid = b.grid
EqualDistributions(a, b) == EqualLayouts(a, b) /\ EqualGrids(a, b)

select_exchanger(initial, final) ==
  IF get_num_processors(initial.grid) = 1 /\ final.block_wise THEN "scatter" ELSE "general"
-----------------------------------------------------------------------------
(***************************************************************************)
(* The data that a rank holds under a distribution: in each dimension the  *)
(* indices of the blocks that its coordinates own, in ascending order; a   *)
(* value is named by its global coordinates.                               *)
(***************************************************************************)
Owned(layout, owner) ==
  UNION {Indices(layout[k]) : k \in {j \in DOMAIN layout : layout[j].owner = owner}}

Kth(S, k) == CHOOSE x \in S : Cardinality({y \in S : y < x}) = k

DataOf(distribution, rank) ==
  LET at == get_processor_coordinates(rank, distribution.grid)
      owned == [d \in DOMAIN at |-> Owned(distribution.layouts[d], at[d])]
      dims == [d \in DOMAIN at |-> Cardinality(owned[d])]
  IN  [x \in 0..calc_total_num_values(dims)-1 |->
         [d \in DOMAIN at |-> Kth(owned[d], Digit(x, dims, d))]]

LocalDimensions(distribution, rank) ==
  LET at == get_processor_coordinates(rank, distribution.grid)
  IN  [d \in DOMAIN at |-> Cardinality(Owned(distribution.layouts[d], at[d]))]
-----------------------------------------------------------------------------
(***************************************************************************)
(* Arrays of two dimensions as vectors of vectors, the rows                *)
(***************************************************************************)
\* get_dimensions of containers: the longest row counts.
ContainerDimensions(rows) ==
  IF rows = <<>>
  THEN <<0, 0>>
  ELSE <<Len(rows), CHOOSE n \in {Len(rows[i]) : i \in DOMAIN rows} :
                      \A i \in DOMAIN rows : Len(rows[i]) =< n>>

\* The values by index, row after row
to_vector(rows) ==
  LET joined == FlattenSeq(rows) IN [x \in 0..Len(joined)-1 |-> joined[x + 1]]

\* The rows of an array of given extents
to_matrix(values, dims) ==
  [i \in 1..dims[1] |-> [j \in 1..dims[2] |-> values[layout_right(<<i - 1, j - 1>>, dims)]]]
-----------------------------------------------------------------------------
(***************************************************************************)
(* Multidimensional blocks: a sequence of one block for each dimension     *)
(***************************************************************************)
get_owner_coordinates(block) == [d \in DOMAIN block |-> block[d].owner]
Lengths(block) == [d \in DOMAIN block |-> get_length(block[d])]
get_num_elements(block) == calc_total_num_values(Lengths(block))

\* The kth value of a block, from 0, in the order of the nested loops
Point(block, k) == [d \in DOMAIN block |-> block[d].left + Digit(k, Lengths(block), d)]

\* The blocks of one dimension, each once, ordered by their right bounds
remove_duplicates(blocks) ==
  [k \in 1..Cardinality(blocks) |->
     CHOOSE b \in blocks : Cardinality({c \in blocks : Before(c, b)}) = k - 1]

\* A sequence of tuples as a tuple of sequences
unzip(tuples, N) == [d \in 1..N |-> [k \in DOMAIN tuples |-> tuples[k][d]]]

to_unidimensional_blocks(blocks, N) ==
  LET each == unzip(blocks, N) IN [d \in 1..N |-> remove_duplicates(ToSet(each[d]))]

TotalLength(blocks) == FoldLeft(LAMBDA sum, b : sum + get_length(b), 0, blocks)

\* make_contiguous of the blocks of a dimension: the same lengths and owners,
\* side by side from 0
MovedTo(block, start) == [block EXCEPT !.left = start, !.right = start + get_length(block)]

ContiguousBlocks(blocks) ==
  [k \in DOMAIN blocks |-> MovedTo(blocks[k], TotalLength(SubSeq(blocks, 1, k - 1)))]

make_contiguous(blocks, N) ==
  IF blocks = <<>>
  THEN <<>>
  ELSE LET each == to_unidimensional_blocks(blocks, N)
       IN  get_cartesian_product([d \in 1..N |-> ContiguousBlocks(each[d])])

\* Mutant: a block of a dimension counts as often as it occurs.
get_dimensions_All(blocks, N) ==
  [d \in 1..N |-> TotalLength([k \in DOMAIN blocks |-> blocks[k][d]])]

\* get_dimensions: the extents of the array that the blocks cover, from the
\* first block of a dimension to the last
Extent(blocks) == IF blocks = <<>> THEN 0 ELSE blocks[Len(blocks)].right - blocks[1].left

get_dimensions(blocks, N) == [d \in 1..N |-> Extent(to_unidimensional_blocks(blocks, N)[d])]
-----------------------------------------------------------------------------
(***************************************************************************)
(* GeneralDataDistribution: made of a map from ranks to the intervals that *)
(* they have, one [left, right] for each dimension (module                 *)
(* GeneralDistribution models which maps are accepted)                     *)
(***************************************************************************)
get_intervals(mapping) == UNION {ToSet(mapping[r]) : r \in DOMAIN mapping}
get_max_rank(mapping) ==
  IF DOMAIN mapping = {}
  THEN INVALID_RANK_ID
  ELSE CHOOSE max \in DOMAIN mapping : \A r \in DOMAIN mapping : r =< max

\* Mutant: the last dimension of the grid has no place for the greatest rank.
create_processor_grid_Short(mapping, N) ==
  [d \in 1..N |-> IF d = N THEN get_max_rank(mapping) ELSE 1]

create_processor_grid(mapping, N) ==
  [d \in 1..N |-> IF d = N THEN get_max_rank(mapping) + 1 ELSE 1]

build_multidimensional_block(interval, owner) ==
  [d \in DOMAIN interval |->
     [left |-> interval[d].left, right |-> interval[d].right, owner |-> owner[d]]]

create_multidimensional_blocks(mapping, grid) ==
  UNION {{build_multidimensional_block(i, get_processor_coordinates(r, grid)) :
            i \in ToSet(mapping[r])} : r \in DOMAIN mapping}

\* The same blocks in the order of the map: by rank, and as each rank lists
\* its own
Listed(mapping, grid) ==
  LET OfRank(r) == [k \in DOMAIN mapping[r] |->
                      build_multidimensional_block(mapping[r][k], get_processor_coordinates(r, grid))]
  IN  FlattenSeq([k \in 1..Cardinality(DOMAIN mapping) |-> OfRank(Kth(DOMAIN mapping, k - 1))])

\* The grid layout, as the blocks of each dimension
create_grid_layout(mapping, grid) ==
  [d \in DOMAIN grid |-> {b[d] : b \in create_multidimensional_blocks(mapping, grid)}]

\* The distribution that make() gives, where the blocks of a dimension differ
\* in their right bounds
GeneralData(mapping, N) ==
  LET grid == create_processor_grid(mapping, N)
      blocks == create_grid_layout(mapping, grid)
  IN  [layouts |-> [d \in 1..N |-> remove_duplicates(blocks[d])], grid |-> grid,
       listed |-> Listed(mapping, grid), block_wise |-> FALSE]
-----------------------------------------------------------------------------
(***************************************************************************)
(* The overlay of two grids: in each dimension the overlays that the scan  *)
(* of module OverlayScan finds, as blocks of the origin or of the target;  *)
(* their product is taken in the same order for both.                      *)
(***************************************************************************)
BlocksOverlay(origin, target) ==
  remove_duplicates({Overlay(p[1], p[2]) : p \in {q \in ToSet(origin) \X ToSet(target) :
                                                   ~is_disjoint(q[1], q[2])}})

get_blocks_overlay(origin, target) ==
  [d \in DOMAIN origin |-> BlocksOverlay(origin[d], target[d])]

GridOverlay(initial, final) == get_blocks_overlay(initial.layouts, final.layouts)

\* The coordinates of the owners in the target grid, block by block
get_coordinates_target(overlays) == [d \in DOMAIN overlays |-> overlays[d].id_target]

get_coordinates_owners_target_grid(overlay) ==
  LET product == get_cartesian_product(overlay)
  IN  [k \in DOMAIN product |-> get_coordinates_target(product[k])]

get_multidimensional_block_origin(overlays) ==
  [d \in DOMAIN overlays |->
     [left |-> overlays[d].left, right |-> overlays[d].right, owner |-> overlays[d].id_origin]]

get_multidimensional_block_target(overlays) ==
  [d \in DOMAIN overlays |->
     [left |-> overlays[d].left, right |-> overlays[d].right, owner |-> overlays[d].id_target]]

OriginBlocks(overlay) ==
  LET product == get_cartesian_product(overlay)
  IN  [k \in DOMAIN product |-> get_multidimensional_block_origin(product[k])]

TargetBlocks(overlay) ==
  LET product == get_cartesian_product(overlay)
  IN  [k \in DOMAIN product |-> get_multidimensional_block_target(product[k])]

contains(interval, value) == interval.left =< value /\ value < interval.right

\* The owner of the block at some coordinates among the blocks
OwnersOf(layouts, block_coordinates) ==
  [d \in DOMAIN layouts |-> layouts[d][block_coordinates[d] + 1].owner]

get_block_owner(layouts, block_coordinates, grid) ==
  map_indices(OwnersOf(layouts, block_coordinates), grid)

\* The rank that a distribution gives a value
Holder(distribution, value) ==
  LET At(d) == CHOOSE k \in DOMAIN distribution.layouts[d] :
                 contains(distribution.layouts[d][k], value[d])
  IN  get_block_owner(distribution.layouts, [d \in DOMAIN value |-> At(d) - 1], distribution.grid)
=============================================================================

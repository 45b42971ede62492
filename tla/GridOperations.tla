--------------------------- MODULE GridOperations ---------------------------
(***************************************************************************)
(* The grids of the heat simulation (demos/heat_transfer) and what is done *)
(* to them.  A grid is a sequence of rows of one length; <<>> is the empty *)
(* one.  The indices of the code count from 0.  A neighbour that is not    *)
(* there is MPI_PROC_NULL.                                                 *)
(***************************************************************************)
EXTENDS Grid

MPI_PROC_NULL == -2

\* get_dimensions of a grid
GridDimensions(grid) == IF grid = <<>> THEN <<0, 0>> ELSE <<Len(grid), Len(grid[1])>>

set_boundary_to(grid, value) ==
  [i \in DOMAIN grid |-> [j \in DOMAIN grid[i] |->
     IF i \in {1, Len(grid)} \/ j \in {1, Len(grid[i])} THEN value ELSE grid[i][j]]]

\* All is cold but the boundary.
initialize_grid(num_rows, num_columns, hot) ==
  set_boundary_to([i \in 1..num_rows |-> [j \in 1..num_columns |-> 0]], hot)

\* What the values of a shuffle() and its extents make, row after row
to_grid(values, dims) == to_matrix(values, dims)

get_row(grid, k) == grid[k + 1]
get_column(grid, k) == [i \in DOMAIN grid |-> grid[i][k + 1]]
-----------------------------------------------------------------------------
(***************************************************************************)
(* Ghost layers: one on each side where there is a neighbour               *)
(***************************************************************************)
Has(neighbour) == IF neighbour = MPI_PROC_NULL THEN 0 ELSE 1

\* A grid without its first and last rows and columns, as many as the numbers
\* say: the functions that remove a layer or leave it, one inside the other
Without(grid, top, bottom, left, right) ==
  LET rows == SubSeq(grid, 1 + top, Len(grid) - bottom)
  IN  [k \in DOMAIN rows |-> SubSeq(rows[k], 1 + left, Len(rows[k]) - right)]

\* A grid with a layer of zeros all around it
Surrounded(grid) ==
  LET dims == GridDimensions(grid)
  IN  [i \in 1..dims[1]+2 |-> [j \in 1..dims[2]+2 |->
         IF i \in 2..dims[1]+1 /\ j \in 2..dims[2]+1 THEN grid[i-1][j-1] ELSE 0]]

\* Mutant: the layers are left on all sides.
add_ghost_layers_AllSides(grid, processor) == IF grid = <<>> THEN <<>> ELSE Surrounded(grid)

\* Only the layers towards a neighbour are left.
add_ghost_layers(grid, processor) ==
  IF grid = <<>>
  THEN <<>>
  ELSE Without(Surrounded(grid), 1 - Has(processor.up), 1 - Has(processor.down),
               1 - Has(processor.left), 1 - Has(processor.right))

remove_ghost_layers(grid, processor) ==
  Without(grid, Has(processor.up), Has(processor.down), Has(processor.left),
          Has(processor.right))

\* The outermost row or column, for each location
get_top_row(grid) == IF grid = <<>> THEN <<>> ELSE get_row(grid, 0)
get_bottom_row(grid) == IF grid = <<>> THEN <<>> ELSE get_row(grid, Len(grid) - 1)
get_left_column(grid) == IF grid = <<>> THEN <<>> ELSE get_column(grid, 0)
get_right_column(grid) ==
  IF grid = <<>> THEN <<>> ELSE get_column(grid, GridDimensions(grid)[2] - 1)

get_ghost_layer(grid, location) ==
  CASE location = "TOP" -> get_top_row(grid)
    [] location = "BOTTOM" -> get_bottom_row(grid)
    [] location = "LEFT" -> get_left_column(grid)
    [] location = "RIGHT" -> get_right_column(grid)

\* A layer put on, for each location
set_top_row(grid, values) == [grid EXCEPT ![1] = values]
set_bottom_row(grid, values) == [grid EXCEPT ![Len(grid)] = values]
set_left_column(grid, values) == [i \in DOMAIN grid |-> [grid[i] EXCEPT ![1] = values[i]]]
set_right_column(grid, values) ==
  [i \in DOMAIN grid |-> [grid[i] EXCEPT ![Len(grid[i])] = values[i]]]

set_ghost_layer(grid, values, location) ==
  CASE location = "TOP" -> set_top_row(grid, values)
    [] location = "BOTTOM" -> set_bottom_row(grid, values)
    [] location = "LEFT" -> set_left_column(grid, values)
    [] location = "RIGHT" -> set_right_column(grid, values)
-----------------------------------------------------------------------------
\* One step of the Jacobi method, for all but the outermost values.  Values
\* are multiples of the power of 4 that the steps to come divide by.
apply_jacobi(grid) ==
  LET dims == GridDimensions(grid)
  IN  [i \in DOMAIN grid |-> [j \in DOMAIN grid[i] |->
         IF i \in 2..dims[1]-1 /\ j \in 2..dims[2]-1
         THEN (grid[i-1][j] + grid[i+1][j] + grid[i][j-1] + grid[i][j+1]) \div 4
         ELSE grid[i][j]]]
=============================================================================

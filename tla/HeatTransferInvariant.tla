----------------------- MODULE HeatTransferInvariant -----------------------
(***************************************************************************)
(* The inductive invariant behind what HeatTransfer.tla says of the layers *)
(* on their way.  A channel holds what its sender has sent and its         *)
(* receiver has not taken.  Both counts follow from where the two are in   *)
(* the loop, and no two processes of the communicator are an iteration     *)
(* apart, for every iteration has them meet to gather the grid.  A layer   *)
(* fits because neighbours have the same row or column of the processor    *)
(* grid, so their parts of the array are equally high or wide.             *)
(***************************************************************************)
EXTENDS HeatTransfer

\* The neighbours of p in its row and in its column of the processor grid
Beside(p, q) == q \in {Info(p).left, Info(p).right}
Above(p, q) == q \in {Info(p).up, Info(p).down}

\* How often p has been past some place in the loop, given the places that come
\* after it
Past(p, places) == iteration[p] + (IF pc[p] \in places THEN 1 ELSE 0)

SentBeside(p) == Past(p, {"left_right", "between", "bottom_up", "gather", "jacobi"})
TakenBeside(p) == Past(p, {"between", "bottom_up", "gather", "jacobi"})
SentAbove(p) == Past(p, {"bottom_up", "gather", "jacobi"})
TakenAbove(p) == Past(p, {"gather", "jacobi"})
Recorded(p) == Past(p, {"jacobi"})

UnderWay(p, q) ==
  IF Beside(p, q) THEN SentBeside(p) - TakenBeside(q)
  ELSE IF Above(p, q) THEN SentAbove(p) - TakenAbove(q)
  ELSE 0
-----------------------------------------------------------------------------
Place == {"barrier", "iterate", "left_right", "between", "bottom_up", "gather", "jacobi", "done"}

LoopTypeOK ==
  /\ flags \in Simulations
  /\ pc \in [Processes -> Place]
  /\ iteration \in [Processes -> Nat]
  /\ num_adaptations \in Nat

\* All have the same idea of the current communicator, and the processes
\* outside of it only count the iterations.
CommInv ==
  /\ current_comm[0] \in 1..flags.num_ranks
  /\ current_comm = get_comm(current_comm[0])
  /\ \A p \in Processes : p >= current_comm[0] => pc[p] \in {"barrier", "iterate", "done"}

\* The iteration that a process is in tells how many adaptations there have
\* been, so a barrier finds all of them at the start of the same one.
Epoch(p) == iteration[p] \div flags.adaptation_frequency
LastEpoch == (flags.num_iterations - 1) \div flags.adaptation_frequency

EpochInv ==
  \A p \in Processes :
    /\ pc[p] = "barrier" => iteration[p] % flags.adaptation_frequency = 0
    /\ pc[p] = "barrier" => Epoch(p) = num_adaptations
    /\ pc[p] \notin {"barrier", "done"} => Epoch(p) + 1 = num_adaptations
    /\ pc[p] = "done" => LastEpoch + 1 = num_adaptations
    /\ IF pc[p] = "done" THEN iteration[p] = flags.num_iterations
                         ELSE iteration[p] < flags.num_iterations

\* Those in the communicator have recorded the same time steps.
RecordedInv ==
  \A p, q \in Processes :
    p < current_comm[0] /\ q < current_comm[0] => Recorded(p) = Recorded(q)

ChannelInv ==
  \A p, q \in Processes :
    /\ network[<<p, q>>] \in Seq(ToSet(network[<<p, q>>]))
    /\ Len(network[<<p, q>>]) = UnderWay(p, q)

LayersInv == LoopTypeOK /\ CommInv /\ EpochInv /\ RecordedInv /\ ChannelInv
-----------------------------------------------------------------------------
\* Sequences and grids by their lengths alone
IsTuple(s, n) == s = [k \in 1..n |-> s[k]]
IsGrid(grid, m, n) == IsTuple(grid, m) /\ \A k \in 1..m : IsTuple(grid[k], n)

\* The extents of p's part of the array, and of its grid with the ghost layers
Part(p) == Spread[flags][current_comm[p]][Rank(p, current_comm[p])].dims
Height(p) == Part(p)[1] + Has(Info(p).up) + Has(Info(p).down)
Width(p) == Part(p)[2] + Has(Info(p).left) + Has(Info(p).right)

GridsInv ==
  /\ DOMAIN local_grid = Processes
  /\ \A p \in Processes :
       IF current_comm[p] = 0 THEN local_grid[p] = <<>>
       ELSE IsGrid(local_grid[p], Height(p), Width(p))

LengthsInv ==
  \A p, q \in Processes : \A k \in DOMAIN network[<<q, p>>] :
    IsTuple(network[<<q, p>>][k], IF Beside(p, q) THEN Height(p) ELSE Width(p))

ShapesInv == GridsInv /\ LengthsInv
=============================================================================

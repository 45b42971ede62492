---------------------------- MODULE MCRankOrder ----------------------------
(***************************************************************************)
(* Arrays of 5 and of 3 x 2 values, block-wise and block-cyclic over grids *)
(* of up to three processors, on just as many processes or on one more;    *)
(* and 18 values that go from four processors to six.  Set by hand, every  *)
(* matrix of the weights 0 and 1 of two by three and three by two, three   *)
(* by three, rows that want the same columns more or less, some in which   *)
(* the search goes back over many rows, and those of strategy_benchmark of *)
(* four ranks.                                                             *)
(***************************************************************************)
EXTENDS RankOrder, StrategyBenchmark

OneDimension ==
  {BlockCyclic(<<5>>, <<1>>, <<2>>), BlockCyclic(<<5>>, <<2>>, <<2>>)}
    \cup {BlockCyclic(<<5>>, <<1>>, <<3>>)} \cup {BlockWise(<<5>>, <<g>>) : g \in 1..3}

TwoDimensions ==
  {BlockWise(<<3, 2>>, <<2, 1>>), BlockWise(<<3, 2>>, <<1, 2>>),
   BlockCyclic(<<3, 2>>, <<1, 1>>, <<1, 2>>)}

Larger(m, n) == IF m > n THEN m ELSE n

OnOneCommunicator(distributions, spare) ==
  {[initial |-> x, final |-> y, size |-> Larger(Size(x), Size(y)) + n] :
     x \in distributions, y \in distributions, n \in spare}

MCContexts ==
  OnOneCommunicator(OneDimension, {0, 1}) \cup OnOneCommunicator(TwoDimensions, {0})

FourToSix ==
  {[initial |-> BlockWise(<<18>>, <<4>>), final |-> BlockWise(<<18>>, <<6>>), size |-> 6]}

Weighing(R, C, W) == [1..R -> [1..C -> W]]

Wishes == {<<2, 1, 0>>, <<2, 0, 1>>, <<2, 2, 1>>, <<1, 1, 0>>, <<0, 1, 2>>}

Benchmarked ==
  {rank_order_strategy(4), rank_order_strategy_sparse(4), rank_order_strategy_skewed(4)}

MCMatrices ==
  Benchmarked
    \cup UNION {Weighing(r, c, 0..1) : r \in 1..2, c \in 1..3} \cup Weighing(3, 2, 0..1)
    \cup {<<m, m, <<1, 1>>, <<0, 1>>>> : m \in [1..2 -> 0..1]}
    \cup {<<<<2, 1, 0>>, m, w>> : m \in [1..3 -> 0..2], w \in Wishes}
    \cup {<<<<9, 8, 0>>, <<9, 1, 0>>, <<0, 0, 1>>>>,
          <<<<3, 2, 1, 0>>, <<3, 1, 2, 0>>, <<3, 2, 2, 1>>, <<3, 0, 0, 0>>>>}
=============================================================================

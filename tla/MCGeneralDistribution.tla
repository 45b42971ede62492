----------------------- MODULE MCGeneralDistribution -----------------------
(***************************************************************************)
(* Maps for two ranks or one.  In one dimension every one with up to two   *)
(* intervals between 0 and 3 for a rank; in two dimensions up to two boxes *)
(* between 0 and 2, in three one box and some whole grids.                 *)
(***************************************************************************)
EXTENDS GeneralDistribution

Within(n) == {i \in [left : 0..n-1, right : 1..n] : i.left < i.right}
Boxes(dims, n) == [1..dims -> Within(n)]

\* The boxes of a rank: none, one or two
One(boxes) == {<<>>} \cup {<<b>> : b \in boxes}
Two(boxes) == One(boxes) \cup {<<b, c>> : b \in boxes, c \in boxes}

Maps(ranks, pieces) == [ranks -> pieces]

I(l, r) == [left |-> l, right |-> r]

\* Grids with a rank for each interval of the last dimension, and with the
\* ranks mixed
Grids ==
  {(0 :> <<<<I(0, 1), I(0, 2)>>, <<I(1, 3), I(0, 2)>>>>) @@ (1 :> <<<<I(0, 1), I(2, 3)>>, <<I(1, 3), I(2, 3)>>>>),
   (0 :> <<<<I(0, 2), I(0, 1)>>, <<I(0, 2), I(2, 4)>>>>) @@ (2 :> <<<<I(0, 2), I(1, 2)>>>>),
   (0 :> <<<<I(0, 1), I(0, 1), I(0, 2)>>, <<I(0, 1), I(1, 3), I(0, 2)>>>>)
     @@ (1 :> <<<<I(0, 1), I(0, 1), I(2, 3)>>, <<I(0, 1), I(1, 3), I(2, 3)>>>>),
   (0 :> <<<<I(0, 2), I(0, 2)>>, <<I(2, 4), I(2, 4)>>>>) @@ (1 :> <<<<I(0, 2), I(2, 4)>>, <<I(2, 4), I(0, 2)>>>>)}

MCMappings ==
  Maps({0, 1}, Two(Boxes(1, 3))) \cup Maps({1}, Two(Boxes(1, 3)))
    \cup Maps({0, 1}, Two(Boxes(2, 2))) \cup Maps({0, 1}, One(Boxes(3, 2))) \cup Grids

\* A few boxes between 0 and 3
HolesMappings == Maps({0, 1}, One(Boxes(2, 3)))
=============================================================================

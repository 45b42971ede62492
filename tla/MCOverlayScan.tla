--------------------------- MODULE MCOverlayScan ---------------------------
(***************************************************************************)
(* Every way to cut [0, 5), with owners dealt round to one, two or three   *)
(* processors as create_blocks does; and layouts of other ranges, for the  *)
(* bounds that do not match.                                               *)
(***************************************************************************)
EXTENDS OverlayScan, SequencesExt

\* The layout of [first, end) cut at a set of positions
Cut(first, end, cuts, processors) ==
  LET bounds == SetToSortSeq(cuts \cup {first, end}, <)
  IN  [k \in 1..Len(bounds)-1 |->
         [left |-> bounds[k], right |-> bounds[k+1], owner |-> (k-1) % processors]]

Cuts(first, end) == {Cut(first, end, c, p) : c \in SUBSET (first+1..end-1), p \in 1..2}

MCLayouts ==
  Cuts(0, 5) \cup Cuts(0, 3) \cup Cuts(1, 5)
    \cup {create_blocks(5, b, 3) : b \in 1..3} \cup {create_evenly_blocks(5, 4)}
=============================================================================

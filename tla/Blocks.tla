------------------------------- MODULE Blocks -------------------------------
(***************************************************************************)
(* Intervals, blocks and the layouts of one dimension of a distribution.   *)
(* A LeftClosedRange is a record [left, right]; a Block is the flattened   *)
(* record [left, right, owner]; a BlockOverlay carries two owners.         *)
(***************************************************************************)
EXTENDS Integers, Sequences

Interval == {v \in [left : Int, right : Int] : v.left < v.right}
Block == {b \in [left : Int, right : Int, owner : Int] : b.left < b.right}
BlockOverlay ==
  {o \in [left : Int, right : Int, id_origin : Int, id_target : Int] : o.left < o.right}

Least(x, y) == IF x =< y THEN x ELSE y
Greatest(x, y) == IF x =< y THEN y ELSE x

is_disjoint(a, b) == b.left >= a.right \/ b.right =< a.left

\* get_overlay and get_blocks_overlay of two blocks that are not disjoint
Overlay(o, t) ==
  [left |-> Greatest(o.left, t.left), right |-> Least(o.right, t.right),
   id_origin |-> o.owner, id_target |-> t.owner]

(***************************************************************************)
(* The layouts that distributions build: blocks that follow one another    *)
(* from left to right and leave no hole.                                   *)
(***************************************************************************)
IsLayout(s) ==
  /\ s \in Seq(Block)
  /\ s # <<>>
  /\ \A k \in 1..Len(s)-1 : s[k].right = s[k+1].left
  /\ \A j, k \in 1..Len(s) : j < k => s[j].right =< s[k].left

First(s) == s[1].left
End(s) == s[Len(s)].right

CeilDiv(n, d) == (n + d - 1) \div d

\* The loop adds full blocks; the last one is then cut to the values left.
create_blocks(num_values, block_size, num_processors) ==
  LET num_blocks == CeilDiv(num_values, block_size)
  IN  [k \in 1..num_blocks |->
         [left  |-> (k-1) * block_size,
          right |-> IF k = num_blocks THEN num_values ELSE k * block_size,
          owner |-> (k-1) % num_processors]]

create_evenly_blocks(num_values, num_processors) ==
  create_blocks(num_values, CeilDiv(num_values, num_processors), num_processors)
=============================================================================

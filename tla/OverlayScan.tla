---------------------------- MODULE OverlayScan ----------------------------
(***************************************************************************)
(* get_blocks_overlay(origin_blocks, target_blocks): one pass over the     *)
(* origin blocks with a position in the target blocks that moves forward   *)
(* past every overlay and, at the end of an origin block, one back when    *)
(* that target block reaches into the next origin block.  Every step of    *)
(* the loop is an action; indices count from 1.                            *)
(***************************************************************************)
EXTENDS Blocks

CONSTANT Layouts    \* the layouts of one dimension of the distributions

ASSUME LayoutAssumption == \A s \in Layouts : IsLayout(s)

VARIABLES
  pc,       \* "check", "overlay" (the while loop), "advance" (after it), "done", "throw"
  origin,   \* origin_blocks
  target,   \* target_blocks
  i,        \* the origin block of the for loop
  pos,      \* pos_target_grid
  result    \* the overlays found

vars == <<pc, origin, target, i, pos, result>>

Init ==
  /\ pc = "check"
  /\ origin \in Layouts
  /\ target \in Layouts
  /\ i = 1
  /\ pos = 1
  /\ result = <<>>

\* Mutant: only the left bounds are compared.
SameBounds_LeftOnly == First(origin) = First(target)

SameBounds == First(origin) = First(target) /\ End(origin) = End(target)

\* check_bounds, when the two layouts do not span the same range
Throw ==
  /\ pc = "check"
  /\ ~SameBounds
  /\ pc' = "throw"
  /\ UNCHANGED <<origin, target, i, pos, result>>

CheckBounds ==
  /\ pc = "check"
  /\ SameBounds
  /\ pc' = "overlay"
  /\ UNCHANGED <<origin, target, i, pos, result>>

\* Mutant: the position is left past the end of the target blocks.
Overlaps_PastEnd ==
  /\ pc = "overlay"
  /\ ~is_disjoint(origin[i], target[pos])
  /\ result' = Append(result, Overlay(origin[i], target[pos]))
  /\ pos' = pos + 1
  /\ pc' = IF pos = Len(target) THEN "advance" ELSE "overlay"
  /\ UNCHANGED <<origin, target, i>>

\* An iteration of the while loop; the last target block ends it.
Overlaps ==
  /\ pc = "overlay"
  /\ ~is_disjoint(origin[i], target[pos])
  /\ result' = Append(result, Overlay(origin[i], target[pos]))
  /\ IF pos = Len(target)
     THEN pc' = "advance" /\ UNCHANGED pos
     ELSE pos' = pos + 1 /\ UNCHANGED pc
  /\ UNCHANGED <<origin, target, i>>

LeaveWhile ==
  /\ pc = "overlay"
  /\ is_disjoint(origin[i], target[pos])
  /\ pc' = "advance"
  /\ UNCHANGED <<origin, target, i, pos, result>>

\* Mutant: the position also moves back when the two blocks end together.
MissedAnOverlap_Touching == result[Len(result)].right =< target[pos].left

MissedAnOverlap == result[Len(result)].right < target[pos].left

\* Mutant: the position never moves back.
Advance_Forward ==
  /\ pc = "advance"
  /\ i' = i + 1
  /\ pc' = IF i = Len(origin) THEN "done" ELSE "overlay"
  /\ UNCHANGED <<origin, target, pos, result>>

\* The end of an iteration of the for loop
Advance ==
  /\ pc = "advance"
  /\ pos' = IF MissedAnOverlap THEN pos - 1 ELSE pos
  /\ i' = i + 1
  /\ pc' = IF i = Len(origin) THEN "done" ELSE "overlay"
  /\ UNCHANGED <<origin, target, result>>

Terminating == pc \in {"done", "throw"} /\ UNCHANGED vars

Next == Throw \/ CheckBounds \/ Overlaps \/ LeaveWhile \/ Advance \/ Terminating

Spec == Init /\ [][Next]_vars
-----------------------------------------------------------------------------
TypeOK ==
  /\ pc \in {"check", "overlay", "advance", "done", "throw"}
  /\ IsLayout(origin)
  /\ IsLayout(target)
  /\ i \in 1..Len(origin)+1
  /\ pos \in Nat
  /\ result \in Seq(BlockOverlay)

\* Every access is to an element that exists: the loop reads target[pos],
\* and result.back() after the while loop, without a test.
InRange ==
  /\ pc \in {"overlay", "advance"} => i \in 1..Len(origin) /\ pos \in 1..Len(target)
  /\ pc = "advance" => result # <<>>

\* How far the overlays found so far reach
Covered == IF result = <<>> THEN First(origin) ELSE result[Len(result)].right

\* The overlays follow one another from the left bound without a hole or a
\* repetition, and in the end up to the right bound: what is sent is every
\* value, once.
Tiled ==
  /\ result # <<>> => result[1].left = First(origin)
  /\ \A k \in 1..Len(result)-1 : result[k].right = result[k+1].left
  /\ pc = "done" => Covered = End(origin) /\ Covered = End(target)

\* The kth overlay found is that of the blocks o and t, with their owners.
IsOverlay(k, o, t) ==
  ~is_disjoint(origin[o], target[t]) /\ result[k] = Overlay(origin[o], target[t])

\* The final result is that of the definition: the overlays of all pairs of
\* blocks that overlap, and nothing else.
AllPairs ==
  pc = "done" =>
    /\ \A k \in 1..Len(result) :
          \E o \in 1..Len(origin), t \in 1..Len(target) : IsOverlay(k, o, t)
    /\ \A o \in 1..Len(origin), t \in 1..Len(target) :
          ~is_disjoint(origin[o], target[t])
             => \E k \in 1..Len(result) : IsOverlay(k, o, t)
-----------------------------------------------------------------------------
(***************************************************************************)
(* The inductive invariant behind Tiled and AllPairs.  Between two origin  *)
(* blocks the position is at the target block that starts where the        *)
(* overlays end, or one further when the block before it reaches beyond,   *)
(* or at the last one: just what the test of MissedAnOverlap repairs.      *)
(***************************************************************************)
\* The target block at the position begins at or just after Covered.
Ahead == \/ target[pos].left = Covered
         \/ /\ target[pos].left > Covered
            /\ pos > 1
            /\ target[pos-1].left < Covered
            /\ Covered < target[pos-1].right

\* The blocks at i and pos overlap, from Covered on.
Overlapping == /\ Covered = Greatest(origin[i].left, target[pos].left)
               /\ Covered < origin[i].right
               /\ Covered < target[pos].right

\* Where the loop stands
Position ==
  /\ pc = "check" => i = 1 /\ pos = 1 /\ result = <<>>
  /\ pc \in {"overlay", "advance", "done"} => SameBounds
  /\ pc = "overlay" => Overlapping \/ (Covered = origin[i].right /\ Ahead)
  /\ pc = "advance" =>
        /\ Covered = origin[i].right
        /\ Ahead \/ (pos = Len(target) /\ target[pos].left < Covered)
  /\ pc = "done" => Covered = End(origin)

\* What has been found is genuine, and whatever ends by Covered is found.
Found ==
  /\ \A k \in 1..Len(result) :
        \E o \in 1..Len(origin), t \in 1..Len(target) : IsOverlay(k, o, t)
  /\ \A o \in 1..Len(origin), t \in 1..Len(target) :
        ~is_disjoint(origin[o], target[t]) /\ Least(origin[o].right, target[t].right) =< Covered
           => \E k \in 1..Len(result) : IsOverlay(k, o, t)

ScanInv == TypeOK /\ InRange /\ Position /\ Tiled /\ Found
=============================================================================

---------------------------- MODULE LayoutProofs ----------------------------
(***************************************************************************)
(* ScanInv is inductive, for every set of layouts: the overlays that the   *)
(* scan returns tile the range and are those of all pairs that overlap.    *)
(* GeneralDataDistribution::make accepts what its checks promise, whatever *)
(* the map and the number of dimensions.                                   *)
(***************************************************************************)
EXTENDS OverlayScan, GeneralDistribution, CommonLemmas

\* The overlay of two blocks that are not disjoint is an interval, within
\* both.
LEMMA OverlayIsInterval ==
  ASSUME NEW o \in Block, NEW t \in Block, ~is_disjoint(o, t)
  PROVE  /\ Overlay(o, t) \in BlockOverlay
         /\ Overlay(o, t).left = Greatest(o.left, t.left)
         /\ Overlay(o, t).right = Least(o.right, t.right)
  BY DEF Block, BlockOverlay, Overlay, is_disjoint, Greatest, Least

-----------------------------------------------------------------------------
\* The facts about a state of the loop that every step starts from
LEMMA Facts ==
  ASSUME ScanInv, pc \in {"overlay", "advance"}
  PROVE  /\ i \in 1..Len(origin) /\ pos \in 1..Len(target)
         /\ result \in Seq(BlockOverlay) /\ Len(result) \in Nat
         /\ origin[i] \in Block /\ target[pos] \in Block
         /\ Covered \in Int
         /\ First(origin) = First(target) /\ End(origin) = End(target)
<1>1. i \in 1..Len(origin) /\ pos \in 1..Len(target)
  BY DEF ScanInv, InRange
<1>2. IsLayout(origin) /\ IsLayout(target) /\ result \in Seq(BlockOverlay)
  BY DEF ScanInv, TypeOK
<1>3. First(origin) \in Int /\ origin[i] \in Block /\ target[pos] \in Block
  BY <1>1, <1>2, LayoutBounds
<1>4. Len(result) \in Nat
  BY <1>2
<1>5. Covered \in Int
  <2>1. CASE result = <<>>
    BY <2>1, <1>3 DEF Covered
  <2>2. CASE result # <<>>
    <3>1. Len(result) \in 1..Len(result)
      BY <2>2, <1>2
    <3>2. result[Len(result)] \in BlockOverlay
      BY <3>1, <1>2
    <3> QED
      BY <2>2, <3>2 DEF Covered, BlockOverlay
  <2> QED
    BY <2>1, <2>2
<1>6. SameBounds
  BY DEF ScanInv, Position
<1> QED
  BY <1>1, <1>2, <1>3, <1>4, <1>5, <1>6 DEF SameBounds

LEMMA InitInv == Init => ScanInv
<1> SUFFICES ASSUME Init PROVE ScanInv
  OBVIOUS
<1>1. IsLayout(origin) /\ IsLayout(target)
  BY LayoutAssumption DEF Init
<1>2. Len(origin) \in Nat /\ Len(origin) >= 1
  BY <1>1, LayoutBounds
<1>3. TypeOK
  BY <1>1, <1>2 DEF Init, TypeOK
<1>4. InRange
  BY DEF Init, InRange
<1>5. Position
  BY DEF Init, Position
<1>6. Tiled
  BY DEF Init, Tiled
<1>7. Found
  <2>1. Covered = First(origin) /\ Len(result) = 0
    BY DEF Init, Covered
  <2>2. ASSUME NEW o \in 1..Len(origin), NEW t \in 1..Len(target),
               ~is_disjoint(origin[o], target[t]),
               Least(origin[o].right, target[t].right) =< Covered
        PROVE  FALSE
    \* An overlay ends to the right of where its origin block begins.
    <3>1. /\ origin[o].left \in Int /\ origin[o].right \in Int
          /\ target[t].left \in Int /\ target[t].right \in Int
          /\ origin[o].left < origin[o].right /\ target[t].left < target[t].right
          /\ First(origin) \in Int /\ First(origin) =< origin[o].left
      BY <1>1, LayoutBounds
    <3> QED
      BY <2>1, <2>2, <3>1 DEF Least, is_disjoint
  <2> QED
    BY <2>1, <2>2 DEF Found
<1> QED
  BY <1>3, <1>4, <1>5, <1>6, <1>7 DEF ScanInv

LEMMA ThrowStep == ASSUME ScanInv, Throw PROVE ScanInv'
<1>1. /\ pc = "check" /\ pc' = "throw"
      /\ UNCHANGED <<origin, target, i, pos, result>>
  BY DEF Throw
<1>2. TypeOK' /\ InRange'
  BY <1>1 DEF ScanInv, TypeOK, InRange
<1>3. Position'
  BY <1>1 DEF Position
<1>4. Covered' = Covered
  BY <1>1 DEF Covered
<1>5. Tiled' /\ Found'
  BY <1>1, <1>4 DEF ScanInv, Tiled, Found, IsOverlay
<1> QED
  BY <1>2, <1>3, <1>5 DEF ScanInv

LEMMA CheckBoundsStep == ASSUME ScanInv, CheckBounds PROVE ScanInv'
<1>1. /\ pc = "check" /\ pc' = "overlay" /\ SameBounds
      /\ i = 1 /\ pos = 1 /\ result = <<>>
      /\ UNCHANGED <<origin, target, i, pos, result>>
  BY DEF CheckBounds, ScanInv, Position
<1>2. IsLayout(origin) /\ IsLayout(target)
  BY DEF ScanInv, TypeOK
<1>3. Covered' = Covered /\ Covered = First(origin)
  BY <1>1 DEF Covered
<1>4. /\ 1 \in 1..Len(origin) /\ 1 \in 1..Len(target)
      /\ origin[1].left \in Int /\ origin[1].left < origin[1].right /\ origin[1].right \in Int
      /\ target[1].left \in Int /\ target[1].left < target[1].right /\ target[1].right \in Int
  <2>1. 1 \in 1..Len(origin) /\ 1 \in 1..Len(target)
    BY <1>2, LayoutBounds
  <2> QED
    BY <1>2, <2>1, LayoutBounds
<1>5. TypeOK' /\ InRange'
  BY <1>1, <1>4 DEF ScanInv, TypeOK, InRange
<1>6. Overlapping'
  BY <1>1, <1>3, <1>4 DEF Overlapping, Greatest, SameBounds, First
<1>7. Position'
  BY <1>1, <1>6 DEF Position, SameBounds
<1>8. Tiled' /\ Found'
  BY <1>1, <1>3 DEF ScanInv, Tiled, Found, IsOverlay
<1> QED
  BY <1>5, <1>7, <1>8 DEF ScanInv

LEMMA LeaveWhileStep == ASSUME ScanInv, LeaveWhile PROVE ScanInv'
<1>1. /\ pc = "overlay" /\ pc' = "advance" /\ is_disjoint(origin[i], target[pos])
      /\ UNCHANGED <<origin, target, i, pos, result>>
  BY DEF LeaveWhile
<1>2. Covered' = Covered
  BY <1>1 DEF Covered
<1>3. ~Overlapping
  BY <1>1, Facts DEF Overlapping, is_disjoint, Greatest, Block
<1>4. Covered = origin[i].right /\ Ahead /\ SameBounds
  BY <1>1, <1>3 DEF ScanInv, Position
<1>5. Position'
  BY <1>1, <1>2, <1>4 DEF Position, Ahead, SameBounds
\* The end of a block lies beyond the first bound: something was found.
<1>6. result # <<>>
  <2>1. origin[i].left < origin[i].right /\ First(origin) =< origin[i].left
        /\ First(origin) \in Int /\ origin[i].left \in Int /\ origin[i].right \in Int
    BY <1>1, Facts, LayoutBounds DEF ScanInv, TypeOK
  <2> QED
    BY <2>1, <1>4 DEF Covered
<1>7. TypeOK' /\ InRange'
  BY <1>1, <1>6 DEF ScanInv, TypeOK, InRange
<1>8. Tiled' /\ Found'
  BY <1>1, <1>2 DEF ScanInv, Tiled, Found, IsOverlay
<1> QED
  BY <1>5, <1>7, <1>8 DEF ScanInv

\* What the overlay found at i and pos adds to the result
LEMMA AppendOverlay ==
  ASSUME ScanInv, Overlaps
  PROVE  /\ Len(result') = Len(result) + 1 /\ result' \in Seq(BlockOverlay)
         /\ \A k \in 1..Len(result) : result'[k] = result[k]
         /\ result'[Len(result')] = Overlay(origin[i], target[pos])
         /\ Overlapping
         /\ Overlay(origin[i], target[pos]).left = Covered
         /\ Covered' = Least(origin[i].right, target[pos].right)
<1>1. /\ pc = "overlay" /\ ~is_disjoint(origin[i], target[pos])
      /\ result' = Append(result, Overlay(origin[i], target[pos]))
  BY DEF Overlaps
<1>2. Overlay(origin[i], target[pos]) \in BlockOverlay
  BY <1>1, Facts, OverlayIsInterval
<1>3. /\ Len(result') = Len(result) + 1 /\ result' \in Seq(BlockOverlay)
      /\ \A k \in 1..Len(result) : result'[k] = result[k]
      /\ result'[Len(result')] = Overlay(origin[i], target[pos])
  BY <1>1, <1>2, Facts
<1>4. Overlapping
  <2>1. CASE Covered = origin[i].right /\ Ahead
    BY <1>1, <2>1, Facts DEF Ahead, is_disjoint, Block
  <2> QED
    BY <1>1, <2>1 DEF ScanInv, Position
<1>5. Overlay(origin[i], target[pos]).left = Covered
  BY <1>1, <1>4, Facts, OverlayIsInterval DEF Overlapping
<1>6. Covered' = Least(origin[i].right, target[pos].right)
  <2>1. result' # <<>>
    BY <1>1, <1>2, Facts
  <2>2. Covered' = result'[Len(result')].right
    BY <2>1 DEF Covered
  <2> QED
    BY <1>1, <1>3, <2>2, Facts, OverlayIsInterval
<1> QED
  BY <1>3, <1>4, <1>5, <1>6

LEMMA OverlapsPosition == ASSUME ScanInv, Overlaps PROVE Position'
<1>1. /\ pc = "overlay" /\ UNCHANGED <<origin, target, i>>
      /\ SameBounds /\ SameBounds'
  BY DEF Overlaps, ScanInv, Position, SameBounds
<1>2. /\ Overlapping
      /\ Covered' = Least(origin[i].right, target[pos].right)
  BY AppendOverlay
<1>3. /\ IsLayout(origin) /\ IsLayout(target)
      /\ i \in 1..Len(origin) /\ pos \in 1..Len(target) /\ Covered \in Int
  BY <1>1, Facts DEF ScanInv, TypeOK
<1>4. /\ origin[i].left \in Int /\ origin[i].right \in Int
      /\ target[pos].left \in Int /\ target[pos].right \in Int
      /\ target[pos].left < target[pos].right
      /\ origin[i].right =< End(origin) /\ End(origin) \in Int
  BY <1>3, LayoutBounds
<1>5. CASE pos = Len(target)
  <2>1. pc' = "advance" /\ pos' = pos
    BY <1>5 DEF Overlaps
  \* The last target block reaches as far as any origin block.
  <2>2. target[pos].right = End(origin)
    BY <1>1, <1>5 DEF SameBounds, End
  <2>3. Covered' = origin[i].right
    BY <1>2, <1>4, <2>2 DEF Least
  <2>4. target[pos].left < Covered'
    BY <1>2, <1>3, <1>4, <2>3 DEF Overlapping, Greatest
  <2> QED
    BY <1>1, <1>5, <2>1, <2>3, <2>4 DEF Position
<1>6. CASE pos < Len(target)
  <2>1. pc' = "overlay" /\ pos' = pos + 1
    BY <1>3, <1>6 DEF Overlaps
  <2>2. /\ pos + 1 \in 1..Len(target) /\ pos \in 1..Len(target)-1
    BY <1>3, <1>6, LayoutBounds
  <2>3. /\ target[pos+1].left = target[pos].right
        /\ target[pos+1].left < target[pos+1].right /\ target[pos+1].right \in Int
    BY <1>3, <2>2, LayoutBounds
  <2>4. CASE origin[i].right =< target[pos].right
    <3>1. Covered' = origin[i].right
      BY <1>2, <1>4, <2>4 DEF Least
    <3>2. target[pos].left < Covered'
      BY <1>2, <1>3, <1>4, <3>1 DEF Overlapping, Greatest
    <3>3. Ahead'
      <4>1. CASE origin[i].right = target[pos].right
        BY <1>1, <2>1, <2>3, <3>1, <4>1 DEF Ahead
      <4>2. CASE origin[i].right < target[pos].right
        BY <1>1, <1>3, <1>4, <2>1, <2>3, <3>1, <3>2, <4>2 DEF Ahead
      <4> QED
        BY <1>4, <2>4, <4>1, <4>2
    <3> QED
      BY <1>1, <2>1, <3>1, <3>3 DEF Position
  <2>5. CASE origin[i].right > target[pos].right
    <3>1. Covered' = target[pos].right
      BY <1>2, <1>4, <2>5 DEF Least
    <3>2. Overlapping'
      BY <1>1, <1>2, <1>3, <1>4, <2>1, <2>3, <2>5, <3>1 DEF Overlapping, Greatest
    <3> QED
      BY <1>1, <2>1, <3>2 DEF Position
  <2> QED
    BY <1>4, <2>4, <2>5
<1> QED
  BY <1>3, <1>5, <1>6, LayoutBounds

LEMMA OverlapsTiled == ASSUME ScanInv, Overlaps PROVE Tiled'
<1>1. /\ pc = "overlay" /\ pc' \in {"overlay", "advance"}
      /\ UNCHANGED <<origin, target>> /\ Len(result) \in Nat
  BY Facts DEF Overlaps
<1>2. /\ Len(result') = Len(result) + 1
      /\ \A k \in 1..Len(result) : result'[k] = result[k]
      /\ result'[Len(result')] = Overlay(origin[i], target[pos])
      /\ result'[Len(result')].left = Covered
  BY AppendOverlay
<1>3. result'[1].left = First(origin)'
  <2>1. CASE result = <<>>
    <3>1. Len(result') = 1 /\ Covered = First(origin)
      BY <1>1, <1>2, <2>1 DEF Covered
    <3> QED
      BY <1>1, <1>2, <3>1 DEF First
  <2>2. CASE result # <<>>
    <3>1. 1 \in 1..Len(result)
      BY <2>2, Facts, <1>1
    <3> QED
      BY <1>1, <1>2, <2>2, <3>1 DEF ScanInv, Tiled, First
  <2> QED
    BY <2>1, <2>2
<1>4. ASSUME NEW k \in 1..Len(result')-1
      PROVE  result'[k].right = result'[k+1].left
  <2>1. CASE k = Len(result)
    <3>1. result # <<>> /\ k \in 1..Len(result) /\ k + 1 = Len(result')
      BY <1>1, <1>2, <2>1
    <3>2. Covered = result[k].right
      BY <2>1, <3>1 DEF Covered
    <3> QED
      BY <1>2, <3>1, <3>2
  <2>2. CASE k # Len(result)
    <3>1. k \in 1..Len(result)-1 /\ k \in 1..Len(result) /\ k + 1 \in 1..Len(result)
      BY <1>1, <1>2, <2>2
    <3>2. result[k].right = result[k+1].left
      BY <3>1 DEF ScanInv, Tiled
    <3> QED
      BY <1>2, <3>1, <3>2
  <2> QED
    BY <2>1, <2>2
<1> QED
  BY <1>1, <1>3, <1>4 DEF Tiled

\* Layouts are in order, so that the only pair whose overlay ends in
\* (Covered, Covered'] is that of the blocks at i and pos.
LEMMA OnlyPair ==
  ASSUME ScanInv, Overlaps,
         NEW o \in 1..Len(origin), NEW t \in 1..Len(target),
         ~is_disjoint(origin[o], target[t]),
         Covered < Least(origin[o].right, target[t].right),
         Least(origin[o].right, target[t].right) =< Covered'
  PROVE  o = i /\ t = pos
<1>1. /\ IsLayout(origin) /\ IsLayout(target) /\ pc = "overlay"
      /\ i \in 1..Len(origin) /\ pos \in 1..Len(target) /\ Covered \in Int
  BY Facts DEF Overlaps, ScanInv, TypeOK
<1>2. /\ Covered' = Least(origin[i].right, target[pos].right)
      /\ Covered = Greatest(origin[i].left, target[pos].left)
  BY AppendOverlay DEF Overlapping
<1>3. /\ origin[o].left \in Int /\ origin[o].right \in Int
      /\ origin[i].left \in Int /\ origin[i].right \in Int
      /\ target[t].left \in Int /\ target[t].right \in Int
      /\ target[pos].left \in Int /\ target[pos].right \in Int
  BY <1>1, LayoutBounds
<1>4. /\ origin[i].left =< Covered /\ target[pos].left =< Covered
      /\ Covered' =< origin[i].right /\ Covered' =< target[pos].right
  BY <1>1, <1>2, <1>3 DEF Least, Greatest
<1>5. /\ Covered < origin[o].right /\ Covered < target[t].right
      /\ origin[o].left < Covered' /\ target[t].left < Covered'
  <2>1. Covered < origin[o].right /\ Covered < target[t].right
    BY <1>1, <1>3 DEF Least
  <2>2. \/ origin[o].right =< Covered'
        \/ target[t].right =< Covered'
    BY <1>3 DEF Least
  <2>3. /\ origin[o].left < target[t].right /\ target[t].left < origin[o].right
    BY <1>3 DEF is_disjoint
  <2>4. Covered' \in Int
    BY <1>2, <1>3 DEF Least
  <2>5. /\ origin[o].left < origin[o].right /\ target[t].left < target[t].right
    BY <1>1, LayoutBounds
  <2> QED
    BY <1>3, <2>1, <2>2, <2>3, <2>4, <2>5
<1>6. Covered' \in Int
  BY <1>2, <1>3 DEF Least
<1>7. o = i
  <2>1. CASE o < i
    <3>1. origin[o].right =< origin[i].left
      BY <1>1, <2>1, LayoutBounds
    <3> QED
      BY <1>1, <1>3, <1>4, <1>5, <3>1
  <2>2. CASE i < o
    <3>1. origin[i].right =< origin[o].left
      BY <1>1, <2>2, LayoutBounds
    <3> QED
      BY <1>3, <1>4, <1>5, <1>6, <3>1
  <2> QED
    BY <1>1, <2>1, <2>2
<1>8. t = pos
  <2>1. CASE t < pos
    <3>1. target[t].right =< target[pos].left
      BY <1>1, <2>1, LayoutBounds
    <3> QED
      BY <1>1, <1>3, <1>4, <1>5, <3>1
  <2>2. CASE pos < t
    <3>1. target[pos].right =< target[t].left
      BY <1>1, <2>2, LayoutBounds
    <3> QED
      BY <1>3, <1>4, <1>5, <1>6, <3>1
  <2> QED
    BY <1>1, <2>1, <2>2
<1> QED
  BY <1>7, <1>8

LEMMA OverlapsFound == ASSUME ScanInv, Overlaps PROVE Found'
<1>1. /\ pc = "overlay" /\ ~is_disjoint(origin[i], target[pos])
      /\ UNCHANGED <<origin, target>>
      /\ i \in 1..Len(origin) /\ pos \in 1..Len(target) /\ Len(result) \in Nat
  BY Facts DEF Overlaps
<1>2. /\ Len(result') = Len(result) + 1
      /\ \A k \in 1..Len(result) : result'[k] = result[k]
      /\ result'[Len(result')] = Overlay(origin[i], target[pos])
  BY AppendOverlay
<1>3. ASSUME NEW k \in 1..Len(result), NEW o \in 1..Len(origin), NEW t \in 1..Len(target),
             IsOverlay(k, o, t)
      PROVE  /\ ~is_disjoint(origin'[o], target'[t])
             /\ result'[k] = Overlay(origin'[o], target'[t])
  BY <1>1, <1>2, <1>3 DEF IsOverlay
<1>4. /\ ~is_disjoint(origin'[i], target'[pos])
      /\ result'[Len(result')] = Overlay(origin'[i], target'[pos])
  BY <1>1, <1>2
<1>5. ASSUME NEW k \in 1..Len(result')
      PROVE  \E o \in 1..Len(origin), t \in 1..Len(target) :
                /\ ~is_disjoint(origin'[o], target'[t])
                /\ result'[k] = Overlay(origin'[o], target'[t])
  <2>1. CASE k \in 1..Len(result)
    <3>1. \E o \in 1..Len(origin), t \in 1..Len(target) : IsOverlay(k, o, t)
      BY <2>1 DEF ScanInv, Found
    <3> QED
      BY <2>1, <3>1, <1>3
  <2>2. CASE k = Len(result')
    BY <2>2, <1>1, <1>4
  <2> QED
    BY <1>1, <1>2, <2>1, <2>2
<1>6. ASSUME NEW o \in 1..Len(origin), NEW t \in 1..Len(target),
             ~is_disjoint(origin[o], target[t]),
             Least(origin[o].right, target[t].right) =< Covered'
      PROVE  \E k \in 1..Len(result') : /\ ~is_disjoint(origin'[o], target'[t])
                                        /\ result'[k] = Overlay(origin'[o], target'[t])
  <2>1. CASE Least(origin[o].right, target[t].right) =< Covered
    <3>1. \E k \in 1..Len(result) : IsOverlay(k, o, t)
      BY <1>6, <2>1 DEF ScanInv, Found
    <3> QED
      BY <1>1, <1>2, <1>3, <3>1
  <2>2. CASE Covered < Least(origin[o].right, target[t].right)
    <3>1. o = i /\ t = pos
      BY <1>6, <2>2, OnlyPair
    <3> QED
      BY <1>1, <1>2, <1>4, <3>1
  <2>3. /\ Covered \in Int /\ IsLayout(origin) /\ IsLayout(target)
    BY <1>1, Facts DEF ScanInv, TypeOK
  <2>4. Least(origin[o].right, target[t].right) \in Int
    BY <2>3, LayoutBounds DEF Least
  <2> QED
    BY <2>1, <2>2, <2>3, <2>4
<1> QED
  BY <1>1, <1>5, <1>6 DEF Found, IsOverlay

LEMMA OverlapsStep == ASSUME ScanInv, Overlaps PROVE ScanInv'
<1>1. /\ pc = "overlay" /\ UNCHANGED <<origin, target, i>>
      /\ i \in 1..Len(origin) /\ pos \in 1..Len(target)
  BY Facts DEF Overlaps
<1>2. Len(target) \in Nat
  BY LayoutBounds DEF ScanInv, TypeOK
<1>3. /\ pos' \in 1..Len(target)
      /\ pc' \in {"overlay", "advance"}
  BY <1>1, <1>2 DEF Overlaps
<1>4. result' \in Seq(BlockOverlay) /\ result' # <<>>
  <2>1. Len(result') = Len(result) + 1 /\ result' \in Seq(BlockOverlay) /\ Len(result) \in Nat
    BY <1>1, AppendOverlay, Facts
  <2> QED
    BY <2>1
<1>5. TypeOK' /\ InRange'
  BY <1>1, <1>3, <1>4 DEF ScanInv, TypeOK, InRange
<1> QED
  BY <1>5, OverlapsPosition, OverlapsTiled, OverlapsFound DEF ScanInv

LEMMA AdvanceStep == ASSUME ScanInv, Advance PROVE ScanInv'
<1>1. /\ pc = "advance" /\ i' = i + 1 /\ UNCHANGED <<origin, target, result>>
      /\ pos' = IF MissedAnOverlap THEN pos - 1 ELSE pos
      /\ pc' = IF i = Len(origin) THEN "done" ELSE "overlay"
  BY DEF Advance
<1>2. /\ IsLayout(origin) /\ IsLayout(target)
      /\ i \in 1..Len(origin) /\ pos \in 1..Len(target) /\ Covered \in Int
      /\ First(origin) = First(target) /\ End(origin) = End(target)
      /\ Len(origin) \in Nat /\ Len(target) \in Nat
  BY <1>1, Facts, LayoutBounds DEF ScanInv, TypeOK
<1>3. /\ Covered = origin[i].right
      /\ Ahead \/ (pos = Len(target) /\ target[pos].left < Covered)
      /\ result # <<>> /\ Covered = result[Len(result)].right
      /\ Covered' = Covered
  BY <1>1 DEF ScanInv, Position, InRange, Covered
<1>4. \A k \in 1..Len(target) :
         target[k].left \in Int /\ target[k].right \in Int /\ target[k].left < target[k].right
  BY <1>2, LayoutBounds
\* The position moves back only when there is a block before.
<1>5. pos' \in 1..Len(target)
  BY <1>1, <1>2, <1>3, <1>4 DEF Ahead, MissedAnOverlap
<1>6. TypeOK' /\ InRange'
  BY <1>1, <1>2, <1>5 DEF ScanInv, TypeOK, InRange
<1>7. Position' /\ Tiled'
  <2>1. CASE i = Len(origin)
    <3>1. pc' = "done" /\ Covered = End(origin)
      BY <1>1, <1>3, <2>1 DEF End
    <3>2. Position'
      BY <1>1, <1>2, <1>3, <3>1 DEF Position, SameBounds, First, End
    <3>3. Tiled'
      BY <1>1, <1>2, <1>3, <3>1 DEF ScanInv, Tiled, First, End
    <3> QED
      BY <3>2, <3>3
  <2>2. CASE i < Len(origin)
    <3>1. pc' = "overlay"
      BY <1>1, <1>2, <2>2
    <3>2. i + 1 \in 1..Len(origin) /\ i \in 1..Len(origin)-1
      BY <1>2, <2>2
    <3>3. /\ origin[i+1].left = Covered /\ Covered < origin[i+1].right
          /\ origin[i+1].right \in Int /\ origin[i+1].right =< End(target)
          /\ End(target) \in Int
      BY <1>2, <1>3, <3>2, LayoutBounds
    <3>4. target[pos'].left =< Covered /\ Covered < target[pos'].right
      <4>1. CASE target[pos].left = Covered
        BY <1>1, <1>2, <1>3, <1>4, <4>1 DEF MissedAnOverlap
      <4>2. CASE /\ target[pos].left > Covered /\ pos > 1
                 /\ target[pos-1].left < Covered /\ Covered < target[pos-1].right
        <5>1. pos - 1 \in 1..Len(target) /\ pos' = pos - 1
          BY <1>1, <1>2, <1>3, <1>4, <4>2 DEF MissedAnOverlap
        <5> QED
          BY <1>2, <1>4, <4>2, <5>1
      <4>3. CASE pos = Len(target) /\ target[pos].left < Covered
        <5>1. pos' = pos /\ target[pos].right = End(target)
          BY <1>1, <1>2, <1>3, <1>4, <4>3 DEF MissedAnOverlap, End
        <5> QED
          BY <1>2, <1>4, <3>3, <4>3, <5>1
      <4> QED
        BY <1>3, <4>1, <4>2, <4>3 DEF Ahead
    <3>5. target[pos'].left \in Int
      BY <1>4, <1>5
    <3>6. Overlapping'
      BY <1>1, <1>2, <1>3, <3>3, <3>4, <3>5 DEF Overlapping, Greatest
    <3>7. Position'
      BY <1>1, <1>2, <3>1, <3>6 DEF Position, SameBounds, First, End
    <3>8. Tiled'
      BY <1>1, <3>1 DEF ScanInv, Tiled, First
    <3> QED
      BY <3>7, <3>8
  <2> QED
    BY <1>2, <2>1, <2>2
<1>8. Found'
  BY <1>1, <1>3 DEF ScanInv, Found, IsOverlay
<1> QED
  BY <1>6, <1>7, <1>8 DEF ScanInv

-----------------------------------------------------------------------------
\* ScanInv holds in every state of get_blocks_overlay, whatever the layouts.
THEOREM ScanInvariance == Spec => []ScanInv
<1>1. ScanInv /\ [Next]_vars => ScanInv'
  <2> SUFFICES ASSUME ScanInv, [Next]_vars PROVE ScanInv'
    OBVIOUS
  <2>1. CASE UNCHANGED vars
    BY <2>1 DEF vars, ScanInv, TypeOK, InRange, Position, SameBounds, Overlapping, Ahead,
               Covered, Tiled, Found, IsOverlay, First, End
  <2>2. CASE Terminating
    BY <2>2 DEF Terminating, vars, ScanInv, TypeOK, InRange, Position, SameBounds,
               Overlapping, Ahead, Covered, Tiled, Found, IsOverlay, First, End
  <2> QED
    BY <2>1, <2>2, ThrowStep, CheckBoundsStep, OverlapsStep, LeaveWhileStep, AdvanceStep DEF Next
<1> QED
  BY <1>1, InitInv, PTL DEF Spec

\* No access of the scan is out of range: target_blocks[pos_target_grid] and
\* result.back() always exist (block_overlay.cpp:29, :37, :40, :41).
THEOREM ReadsInRange == Spec => []InRange
<1>1. ScanInv => InRange
  BY DEF ScanInv
<1> QED
  BY <1>1, ScanInvariance, PTL

\* The overlays partition the range of the two layouts, so that the exchange
\* built on them moves every value exactly once.
THEOREM OverlaysTile == Spec => []Tiled
<1>1. ScanInv => Tiled
  BY DEF ScanInv
<1> QED
  BY <1>1, ScanInvariance, PTL

\* The scan returns what the definition does: the overlays of all the pairs
\* of blocks that overlap, with the owners of both, and no others.
THEOREM OverlaysComplete == Spec => []AllPairs
<1>1. ScanInv => AllPairs
  <2> SUFFICES ASSUME ScanInv, pc = "done",
                      NEW o \in 1..Len(origin), NEW t \in 1..Len(target),
                      ~is_disjoint(origin[o], target[t])
               PROVE  \E k \in 1..Len(result) : IsOverlay(k, o, t)
    BY DEF AllPairs, ScanInv, Found
  <2>1. IsLayout(origin) /\ IsLayout(target) /\ Covered = End(origin)
    BY DEF ScanInv, TypeOK, Position
  <2>2. /\ origin[o].right \in Int /\ target[t].right \in Int
        /\ origin[o].right =< End(origin) /\ End(origin) \in Int
    BY <2>1, LayoutBounds
  <2>3. Least(origin[o].right, target[t].right) =< Covered
    BY <2>1, <2>2 DEF Least
  <2> QED
    BY <2>3 DEF ScanInv, Found
<1> QED
  BY <1>1, ScanInvariance, PTL
-----------------------------------------------------------------------------
(***************************************************************************)
(* General distributions.  Intervals of one dimension: sorted neighbours   *)
(* are contiguous just when the intervals are a tiling.                    *)
(***************************************************************************)
Intervals1D(S) == IsFiniteSet(S) /\ S \subseteq Interval /\ S # {}

\* Of all intervals one starts first and one ends last.
LEMMA Bounds ==
  ASSUME NEW S, Intervals1D(S)
  PROVE  /\ \E a \in S : \A b \in S : a.left <= b.left
         /\ \E a \in S : \A b \in S : a.right <= b.right
         /\ \E a \in S : \A b \in S : b.right <= a.right
<1>1. IsFiniteSet(S) /\ S # {} /\ \A a \in S : a.left \in Int /\ a.right \in Int
  BY DEF Intervals1D, Interval
<1> DEFINE f == [a \in S |-> a.left]
           g == [a \in S |-> a.right]
           L == {f[a] : a \in S}
           R == {g[a] : a \in S}
<1>2. \A a \in S : f[a] = a.left /\ g[a] = a.right
  OBVIOUS
<1>3. f = [a \in S |-> f[a]] /\ g = [a \in S |-> g[a]]
  BY <1>2
<1> HIDE DEF f, g
<1>4. IsFiniteSet(L) /\ IsFiniteSet(R)
  BY <1>1, <1>3, FiniteRange
<1>5. L \subseteq Int /\ L # {} /\ R \subseteq Int /\ R # {}
  BY <1>1, <1>2
<1>6. /\ \E l \in L : \A k \in L : l <= k
      /\ \E q \in R : \A k \in R : q <= k
      /\ \E q \in R : \A k \in R : k <= q
  <2> HIDE DEF L, R
  <2> QED BY <1>4, <1>5, Extremes
<1>7. QED
  BY <1>2, <1>6

\* A value is between the bounds if an interval starts at it or before, and
\* one ends after it.
LEMMA SpanMeans ==
  ASSUME NEW S, Intervals1D(S), NEW v
  PROVE  v \in Span(S) <=> /\ v \in Int
                           /\ \E a \in S : a.left <= v
                           /\ \E b \in S : v < b.right
<1>1. \A a \in S : a.left \in Int /\ a.right \in Int
  BY DEF Intervals1D, Interval
<1>2. PICK a \in S : \A b \in S : a.left <= b.left
  BY Bounds
<1>3. PICK c \in S : \A b \in S : b.right <= c.right
  BY Bounds
<1> DEFINE L == {x.left : x \in S}
           R == {x.right : x \in S}
<1>4. Min(L) = a.left
  <2>1. a.left \in L /\ (\A y \in L : a.left <= y) /\ \A x \in L : x \in Int
    BY <1>1, <1>2
  <2> HIDE DEF L
  <2>2. \A x \in L : (\A y \in L : x =< y) => x = a.left
    BY <1>1, <2>1
  <2>3. QED
    BY <2>1, <2>2 DEF Min
<1>5. Max(R) = c.right
  <2>1. c.right \in R /\ (\A y \in R : c.right >= y) /\ \A x \in R : x \in Int
    BY <1>1, <1>3
  <2> HIDE DEF R
  <2>2. \A x \in R : (\A y \in R : x >= y) => x = c.right
    BY <1>1, <2>1
  <2>3. QED
    BY <2>1, <2>2 DEF Max
<1>6. Span(S) = a.left..c.right-1
  BY <1>4, <1>5 DEF Span
<1>7. a.left \in Int /\ c.right \in Int
  BY <1>1
<1>8. ASSUME v \in Span(S)
      PROVE  v \in Int /\ (\E x \in S : x.left <= v) /\ \E b \in S : v < b.right
  <2>1. v \in Int /\ a.left <= v /\ v < c.right
    BY <1>6, <1>7, <1>8
  <2>2. QED
    BY <2>1
<1>9. ASSUME v \in Int, NEW x \in S, x.left <= v, NEW b \in S, v < b.right
      PROVE  v \in Span(S)
  <2>1. a.left <= x.left /\ b.right <= c.right /\ x.left \in Int /\ b.right \in Int
    BY <1>1, <1>2, <1>3
  <2>2. a.left <= v /\ v <= c.right - 1
    BY <1>7, <1>9, <2>1
  <2>3. QED
    BY <1>6, <1>7, <1>9, <2>2
<1>10. QED
  BY <1>8, <1>9

\* A tiling has one interval at each value between the bounds.
LEMMA TileMeans ==
  ASSUME NEW S, Intervals1D(S)
  PROVE  Tile(S) <=> \A v \in Span(S) : /\ \E a \in S : contains(a, v)
                                        /\ \A a, b \in S : contains(a, v) /\ contains(b, v) => a = b
<1> SUFFICES ASSUME NEW v \in Span(S)
             PROVE  Cardinality({a \in S : contains(a, v)}) = 1
                      <=> /\ \E a \in S : contains(a, v)
                          /\ \A a, b \in S : contains(a, v) /\ contains(b, v) => a = b
  BY DEF Tile
<1> DEFINE T == {a \in S : contains(a, v)}
<1>1. IsFiniteSet(T)
  BY FS_Subset DEF Intervals1D
<1>2. Cardinality(T) = 1 <=> \E x : T = {x}
  BY <1>1, FS_Singleton
<1>3. (\E x : T = {x}) <=> /\ \E a \in S : contains(a, v)
                           /\ \A a, b \in S : contains(a, v) /\ contains(b, v) => a = b
  <2>1. ASSUME NEW x, T = {x}
        PROVE  /\ \E a \in S : contains(a, v)
               /\ \A a, b \in S : contains(a, v) /\ contains(b, v) => a = b
    <3>1. x \in S /\ contains(x, v)
      BY <2>1
    <3>2. \A a \in S : contains(a, v) => a = x
      BY <2>1
    <3>3. QED
      BY <3>1, <3>2
  <2>2. ASSUME NEW a \in S, contains(a, v), \A x, b \in S : contains(x, v) /\ contains(b, v) => x = b
        PROVE  \E x : T = {x}
    <3>1. T = {a}
      BY <2>2
    <3>2. QED
      BY <3>1
  <2>3. QED
    BY <2>1, <2>2
<1>4. QED
  BY <1>2, <1>3

\* Neighbours in the order of right bounds
Neighbours(S, a, b) ==
  /\ a \in S /\ b \in S /\ a # b /\ a.right <= b.right
  /\ ~\E c \in S : c.right > a.right /\ c.right < b.right

LEMMA NoProblem ==
  ASSUME NEW S
  PROVE  find_problematic_intervals(S) = {} <=>
           \A a, b \in S : Neighbours(S, a, b) => a.right = b.left \/ b.right = a.left
<1>1. ASSUME find_problematic_intervals(S) = {}, NEW a \in S, NEW b \in S, Neighbours(S, a, b)
      PROVE  a.right = b.left \/ b.right = a.left
  <2>1. <<a, b>> \notin find_problematic_intervals(S)
    BY <1>1
  <2>2. QED
    BY <1>1, <2>1 DEF find_problematic_intervals, Neighbours, is_contiguous
<1>2. ASSUME \A a, b \in S : Neighbours(S, a, b) => a.right = b.left \/ b.right = a.left
      PROVE  find_problematic_intervals(S) = {}
  <2>1. SUFFICES ASSUME NEW p \in find_problematic_intervals(S) PROVE FALSE
    OBVIOUS
  <2>2. p[1] \in S /\ p[2] \in S /\ Neighbours(S, p[1], p[2]) /\ ~is_contiguous(p[1], p[2])
    BY DEF find_problematic_intervals, Neighbours
  <2>3. QED
    BY <1>2, <2>2 DEF is_contiguous
<1>3. QED
  BY <1>1, <1>2

\* Of the intervals that end before another one does, the last is its
\* neighbour.
LEMMA Predecessor ==
  ASSUME NEW S, Intervals1D(S), NEW a \in S, NEW b \in S, a.right < b.right
  PROVE  \E c \in S : Neighbours(S, c, b) /\ c.right < b.right /\ a.right <= c.right
<1> DEFINE T == {x \in S : x.right < b.right}
<1>1. Intervals1D(T)
  <2>1. IsFiniteSet(T)
    BY FS_Subset DEF Intervals1D
  <2>2. QED
    BY <2>1 DEF Intervals1D
<1>2. PICK c \in T : \A x \in T : x.right <= c.right
  BY <1>1, Bounds
<1>3. \A x \in S : x.right \in Int
  BY DEF Intervals1D, Interval
<1>4. ASSUME NEW x \in S, x.right > c.right, x.right < b.right PROVE FALSE
  BY <1>2, <1>3, <1>4
<1>5. c # b /\ c \in S /\ c.right < b.right /\ a.right <= c.right
  BY <1>2, <1>3
<1>6. QED
  BY <1>3, <1>4, <1>5 DEF Neighbours

\* The argument: intervals whose neighbours are contiguous differ in their
\* right bounds, and each starts where the one before it ends.  In a tiling,
\* whichever interval has the value after the end of one also has the values
\* up to the end of its neighbour, which is thus the same.
LEMMA ContiguousIsTile ==
  ASSUME NEW S, Intervals1D(S)
  PROVE  find_problematic_intervals(S) = {} <=> Tile(S)
<1>1. \A a \in S : a.left \in Int /\ a.right \in Int /\ a.left < a.right
  BY DEF Intervals1D, Interval
<1>2. ASSUME find_problematic_intervals(S) = {} PROVE Tile(S)
  <2>1. \A a, b \in S : Neighbours(S, a, b) => a.right = b.left \/ b.right = a.left
    BY <1>2, NoProblem
  <2>2. ASSUME NEW a \in S, NEW b \in S, a.right = b.right PROVE a = b
    <3>1. SUFFICES ASSUME a # b PROVE FALSE
      OBVIOUS
    <3>2. Neighbours(S, a, b)
      BY <1>1, <2>2, <3>1 DEF Neighbours
    <3>3. QED
      BY <1>1, <2>1, <2>2, <3>2
  <2>3. ASSUME NEW a \in S, NEW b \in S, a.right < b.right PROVE a.right <= b.left
    <3>1. PICK c \in S : Neighbours(S, c, b) /\ c.right < b.right /\ a.right <= c.right
      BY <2>3, Predecessor
    <3>2. c.right = b.left
      BY <1>1, <2>1, <3>1
    <3>3. QED
      BY <3>1, <3>2
  <2>4. ASSUME NEW v \in Span(S) PROVE \E a \in S : contains(a, v)
    <3>1. PICK x \in S, y \in S : v \in Int /\ x.left <= v /\ v < y.right
      BY <2>4, SpanMeans
    <3> DEFINE T == {z \in S : v < z.right}
    <3>2. Intervals1D(T)
      <4>1. IsFiniteSet(T)
        BY FS_Subset DEF Intervals1D
      <4>2. QED
        BY <3>1, <4>1 DEF Intervals1D
    <3>3. PICK b \in T : \A z \in T : b.right <= z.right
      BY <3>2, Bounds
    <3>4. b \in S /\ v < b.right
      OBVIOUS
    <3>5. b.left <= v
      <4>1. SUFFICES ASSUME v < b.left PROVE FALSE
        BY <1>1, <3>1, <3>4
      <4>2. CASE x.right < b.right
        <5>1. PICK c \in S : Neighbours(S, c, b) /\ c.right < b.right /\ x.right <= c.right
          BY <3>4, <4>2, Predecessor
        <5>2. c.right = b.left
          BY <1>1, <2>1, <5>1
        <5>3. v < c.right /\ c.right < b.right
          BY <4>1, <5>1, <5>2
        <5>4. QED
          BY <1>1, <3>3, <5>3
      <4>3. CASE x.right = b.right
        BY <1>1, <2>2, <3>1, <3>4, <4>1, <4>3
      <4>4. CASE b.right < x.right
        BY <1>1, <2>3, <3>1, <3>4, <4>1, <4>4
      <4>5. QED
        BY <1>1, <3>4, <4>2, <4>3, <4>4
    <3>6. QED
      BY <3>4, <3>5 DEF contains
  <2>5. ASSUME NEW v \in Span(S), NEW a \in S, NEW b \in S, contains(a, v), contains(b, v)
        PROVE  a = b
    <3>1. v \in Int
      BY <2>5, SpanMeans
    <3>2. ~(a.right < b.right) /\ ~(b.right < a.right)
      BY <1>1, <2>3, <2>5, <3>1 DEF contains
    <3>3. QED
      BY <1>1, <2>2, <3>2
  <2>6. QED
    BY <2>4, <2>5, TileMeans
<1>3. ASSUME Tile(S) PROVE find_problematic_intervals(S) = {}
  <2>1. /\ \A v \in Span(S) : \E a \in S : contains(a, v)
        /\ \A v \in Span(S) : \A a, b \in S : contains(a, v) /\ contains(b, v) => a = b
    BY <1>3, TileMeans
  <2>2. ASSUME NEW v \in Int, NEW a \in S, NEW b \in S, contains(a, v), contains(b, v) PROVE a = b
    <3>1. v \in Span(S)
      BY <2>2, SpanMeans DEF contains
    <3>2. QED
      BY <2>1, <2>2, <3>1
  <2>3. SUFFICES ASSUME NEW a \in S, NEW b \in S, Neighbours(S, a, b), a.right # b.left
                 PROVE  FALSE
    BY NoProblem
  <2>4. CASE a.right = b.right
    <3>1. contains(a, a.right - 1) /\ contains(b, a.right - 1) /\ a.right - 1 \in Int
      BY <1>1, <2>4 DEF contains
    <3>2. QED
      BY <2>2, <2>3, <3>1 DEF Neighbours
  <2>5. CASE a.right < b.right
    <3>1. a.right \in Span(S)
      BY <1>1, <2>5, SpanMeans
    <3>2. PICK c \in S : contains(c, a.right)
      BY <2>1, <3>1
    <3>3. b.right <= c.right
      BY <1>1, <2>3, <3>2 DEF contains, Neighbours
    <3>4. contains(b, b.right - 1) /\ contains(c, b.right - 1) /\ b.right - 1 \in Int
      BY <1>1, <2>5, <3>2, <3>3 DEF contains
    <3>5. c = b
      BY <2>2, <3>4
    <3>6. b.left < a.right
      BY <1>1, <2>3, <3>2, <3>5 DEF contains
    <3>7. contains(a, a.right - 1) /\ contains(b, a.right - 1) /\ a.right - 1 \in Int
      BY <1>1, <2>5, <3>6 DEF contains
    <3>8. QED
      BY <2>2, <2>3, <3>7 DEF Neighbours
  <2>6. QED
    BY <1>1, <2>3, <2>4, <2>5 DEF Neighbours
<1>4. QED
  BY <1>2, <1>3

-----------------------------------------------------------------------------
(***************************************************************************)
(* The intervals of a map                                                  *)
(***************************************************************************)
\* The intervals of a map are finitely many, with N dimensions each.
LEMMA MapFacts ==
  ASSUME IsMapping(global_mapping), Intervals # {}
  PROVE  /\ N \in Nat \ {0}
         /\ \A u \in Intervals : Len(u) = N /\ DOMAIN u = 1..N /\ \A d \in 1..N : u[d] \in Interval
         /\ \A u \in Intervals : u = [d \in 1..N |-> u[d]]
         /\ \A d \in 1..N : Intervals1D(InDimension(Intervals, d))
<1>1. /\ IsFiniteSet(DOMAIN global_mapping)
      /\ \A r \in DOMAIN global_mapping : global_mapping[r] \in Seq(ToSet(global_mapping[r]))
      /\ \A u \in Intervals : u \in Seq(Interval) /\ u # <<>>
      /\ \A u, w \in Intervals : Len(u) = Len(w)
  BY DEF IsMapping, Intervals
<1>2. \A u \in Intervals : Len(u) = N /\ N \in Nat \ {0} /\ DOMAIN u = 1..N
  <2>1. \A u \in Intervals : Len(u) \in Nat \ {0} /\ DOMAIN u = 1..Len(u)
    BY <1>1
  <2>2. (CHOOSE u \in Intervals : TRUE) \in Intervals
    OBVIOUS
  <2>3. N = Len(CHOOSE u \in Intervals : TRUE)
    BY DEF N, Intervals
  <2>4. \A u \in Intervals : Len(u) = N
    BY <1>1, <2>2, <2>3
  <2>5. QED
    BY <2>1, <2>4
<1>3. N \in Nat \ {0}
  BY <1>2
<1>4. \A u \in Intervals : \A d \in 1..N : u[d] \in Interval
  BY <1>1, <1>2
<1>5. \A u \in Intervals : u = [d \in 1..N |-> u[d]]
  BY <1>1, <1>2
<1>6. IsFiniteSet(Intervals)
  <2> DEFINE g == [r \in DOMAIN global_mapping |-> ToSet(global_mapping[r])]
             G == {g[r] : r \in DOMAIN global_mapping}
  <2>1. \A r \in DOMAIN global_mapping : g[r] = ToSet(global_mapping[r])
    OBVIOUS
  <2>2. g = [r \in DOMAIN global_mapping |-> g[r]]
    BY <2>1
  <2>3. ASSUME NEW r \in DOMAIN global_mapping PROVE IsFiniteSet(g[r])
    <3> DEFINE s == global_mapping[r]
    <3>1. s \in Seq(ToSet(s))
      BY <1>1
    <3> HIDE DEF s
    <3>2. DOMAIN s = 1..Len(s) /\ Len(s) \in Nat /\ s = [k \in DOMAIN s |-> s[k]]
      BY <3>1
    <3>3. IsFiniteSet(DOMAIN s)
      <4> DEFINE n == Len(s)
      <4>1. n \in Int /\ 1 \in Int /\ DOMAIN s = 1..n
        BY <3>2
      <4> HIDE DEF n
      <4>2. IsFiniteSet(1..n)
        BY ONLY <4>1, FS_Interval
      <4>3. QED
        BY <4>1, <4>2
    <3>4. IsFiniteSet({s[k] : k \in DOMAIN s})
      BY <3>2, <3>3, FiniteRange
    <3>5. QED
      BY <2>1, <3>4 DEF ToSet, s
  <2> HIDE DEF g
  <2>4. IsFiniteSet(G) /\ \A T \in G : IsFiniteSet(T)
    BY <1>1, <2>2, <2>3, FiniteRange
  <2>5. Intervals = UNION G
    BY <2>1 DEF Intervals, get_intervals
  <2> HIDE DEF G
  <2>6. QED
    BY <2>4, <2>5, FS_UNION
<1>7. ASSUME NEW d \in 1..N PROVE Intervals1D(InDimension(Intervals, d))
  <2> DEFINE f == [u \in Intervals |-> u[d]]
  <2>1. \A u \in Intervals : f[u] = u[d]
    OBVIOUS
  <2>2. f = [u \in Intervals |-> f[u]]
    BY <2>1
  <2> HIDE DEF f
  <2>3. IsFiniteSet({f[u] : u \in Intervals})
    BY <1>6, <2>2, FiniteRange
  <2>4. {f[u] : u \in Intervals} = InDimension(Intervals, d)
    BY <2>1 DEF InDimension
  <2>5. InDimension(Intervals, d) \subseteq Interval /\ InDimension(Intervals, d) # {}
    BY <1>4 DEF InDimension
  <2>6. QED
    BY <2>3, <2>4, <2>5 DEF Intervals1D
<1>8. QED
  BY <1>2, <1>3, <1>4, <1>5, <1>7

\* When each interval comes into a last group that has all intervals of the
\* last dimension, only those are checked.
LEMMA WholeGroups ==
  ASSUME IsMapping(global_mapping), Intervals # {},
         \A u \in Intervals : LastGroup(Intervals, u) = InDimension(Intervals, N)
  PROVE  check_for_holes(Intervals) <=> Tile(InDimension(Intervals, N))
<1>1. N \in Nat \ {0} /\ Intervals1D(InDimension(Intervals, N))
  BY MapFacts
<1>2. \A u \in Intervals : \A w \in Group(Intervals, u, Len(u) - 2) : w \in Intervals
  BY DEF Group
<1>3. check_for_holes(Intervals) <=> find_problematic_intervals(InDimension(Intervals, N)) = {}
  BY <1>2 DEF check_for_holes
<1>4. QED
  BY <1>1, <1>3, ContiguousIsTile

\* With one dimension there is one group.
LEMMA OneGroup ==
  ASSUME IsMapping(global_mapping), Intervals # {}, N = 1, NEW u \in Intervals
  PROVE  LastGroup(Intervals, u) = InDimension(Intervals, N)
<1>1. Len(u) = 1
  BY MapFacts
<1>2. Group(Intervals, u, 1 - 1) = Intervals
  BY DEF Group
<1>3. QED
  BY <1>1, <1>2 DEF LastGroup

\* In a grid there is a box with the same other intervals for each interval
\* of the last dimension.
LEMMA GridGroup ==
  ASSUME IsMapping(global_mapping), Intervals # {}, IsGrid(Intervals), NEW u \in Intervals
  PROVE  LastGroup(Intervals, u) = InDimension(Intervals, N)
<1>1. /\ N \in Nat \ {0} /\ Len(u) = N
      /\ \A w \in Intervals : w = [d \in 1..N |-> w[d]]
  BY MapFacts
<1>2. ASSUME NEW t \in InDimension(Intervals, N) PROVE t \in LastGroup(Intervals, u)
  <2> DEFINE box == [d \in 1..N |-> IF d = N THEN t ELSE u[d]]
  <2>1. \A d \in 1..N : box[d] \in InDimension(Intervals, d)
    BY <1>1 DEF InDimension
  <2>2. box \in [1..N -> UNION {InDimension(Intervals, d) : d \in 1..N}]
    BY <2>1
  <2>3. box \in Intervals
    BY <2>1, <2>2 DEF IsGrid
  <2>4. \A e \in 1..N-1 : box[e].right = u[e].right
    BY <1>1
  <2>5. box \in Group(Intervals, u, N - 1)
    BY <2>3, <2>4 DEF Group
  <2>6. box[N] = t
    BY <1>1
  <2> HIDE DEF box
  <2>7. QED
    BY <1>1, <2>5, <2>6 DEF LastGroup, InDimension
<1>3. ASSUME NEW t \in LastGroup(Intervals, u) PROVE t \in InDimension(Intervals, N)
  BY <1>1, <1>3 DEF LastGroup, InDimension, Group
<1>4. QED
  BY <1>2, <1>3

-----------------------------------------------------------------------------
(***************************************************************************)
(* The processor grid of a map has its ranks along the last dimension.     *)
(***************************************************************************)
Line(n, max) == [d \in 1..n |-> IF d = n THEN max + 1 ELSE 1]
PlaceInLine(n, rank) == [d \in 1..n |-> IF d = n THEN rank ELSE 0]

LEMMA LineStrides ==
  ASSUME NEW n \in Nat \ {0}, NEW max \in Nat
  PROVE  /\ \A d \in 1..n : Stride(Line(n, max), d) \in Nat \ {0}
         /\ Stride(Line(n, max), n) = 1
         /\ calc_total_num_values(Line(n, max)) = max + 1
<1> DEFINE g == Line(n, max)
           Rest(d) == SubSeq(g, d + 1, n)
<1>1. /\ g \in Seq(Nat \ {0}) /\ Len(g) = n /\ DOMAIN g = 1..n
      /\ \A d \in 1..n : g[d] = IF d = n THEN max + 1 ELSE 1
  BY DEF Line
<1> HIDE DEF g
<1>2. ASSUME NEW d \in 1..n
      PROVE  Len(Rest(d)) = n - d /\ \A x \in 1..n-d : Rest(d)[x] \in Nat \ {0}
  <2>1. \A x \in d+1..n : g[x] \in Nat \ {0}
    BY <1>1
  <2>2. Rest(d) \in Seq(Nat \ {0}) /\ Len(Rest(d)) = n - d
    BY <1>1, <2>1
  <2> HIDE DEF Rest
  <2>3. QED
    BY <2>2
<1>3. ASSUME NEW d \in 1..n
      PROVE  Stride(g, d) = ProductTo(Rest(d), n - d) /\ Stride(g, d) \in Nat \ {0}
  <2>1. Stride(g, d) = ProductTo(Rest(d), n - d)
    BY <1>1, <1>2 DEF Stride, calc_total_num_values
  <2>2. n - d \in Nat /\ \A x \in 1..n-d : Rest(d)[x] \in Nat \ {0}
    BY <1>2
  <2> HIDE DEF Rest
  <2>3. ProductTo(Rest(d), n - d) \in Nat \ {0}
    BY <2>2, ProductPositive
  <2>4. QED
    BY <2>1, <2>3
<1>4. Stride(g, n) = 1
  <2>1. Stride(g, n) = ProductTo(Rest(n), n - n) /\ n - n = 0
    BY <1>3
  <2> HIDE DEF Rest
  <2>2. QED
    BY <2>1, ProductStep
<1>5. calc_total_num_values(g) = max + 1
  <2> DEFINE T == {k \in 0..n-1 : ProductTo(g, k) = 1}
             m == n - 1
  <2>1. m \in Nat /\ n = m + 1
    OBVIOUS
  <2>2. 0 \in T
    BY ProductStep
  <2>3. ASSUME NEW k \in 0..m-1, k \in T PROVE k + 1 \in T
    <3>1. k \in Nat /\ k + 1 \in 0..m /\ k + 1 \in 1..n /\ k + 1 # n
      BY <2>1
    <3>2. ProductTo(g, k + 1) = ProductTo(g, k) * g[k + 1]
      BY <3>1, ProductStep
    <3>3. ProductTo(g, k + 1) = 1 * 1
      BY <1>1, <2>3, <3>1, <3>2
    <3>4. QED
      BY <3>1, <3>3
  <2>4. m \in T
    <3> HIDE DEF T, m
    <3>1. \A k \in 0..m : k \in T
      BY ONLY <2>1, <2>2, <2>3, UpTo
    <3>2. QED
      BY <2>1, <3>1
  <2>5. ProductTo(g, n) = ProductTo(g, m) * g[n]
    <3> HIDE DEF m
    <3> QED BY <2>1, ProductStep
  <2>6. ProductTo(g, n) = 1 * (max + 1)
    BY <1>1, <2>4, <2>5
  <2>7. QED
    BY <1>1, <2>6 DEF calc_total_num_values
<1>6. QED
  BY <1>3, <1>4, <1>5 DEF g

\* A sum with zeros before its last term is this term.
LEMMA SumOfLast ==
  ASSUME NEW n \in Nat \ {0}, NEW f, \A d \in 1..n-1 : f[d] = 0, f[n] \in Int
  PROVE  SumTo(f, n) = f[n]
<1> DEFINE m == n - 1
           T == {k \in 0..m : SumTo(f, k) = 0}
<1>1. m \in Nat /\ n = m + 1
  OBVIOUS
<1>2. 0 \in T
  BY SumStep
<1>3. ASSUME NEW k \in 0..m-1, k \in T PROVE k + 1 \in T
  <2>1. k \in Nat /\ k + 1 \in 0..m /\ k + 1 \in 1..n-1
    BY <1>1
  <2>2. SumTo(f, k + 1) = SumTo(f, k) + f[k + 1]
    BY <2>1, SumStep
  <2>3. SumTo(f, k + 1) = 0 + 0
    BY <1>3, <2>1, <2>2
  <2>4. QED
    BY <2>1, <2>3
<1>4. m \in T
  <2> HIDE DEF T, m
  <2>1. \A k \in 0..m : k \in T
    BY ONLY <1>1, <1>2, <1>3, UpTo
  <2>2. QED
    BY <1>1, <2>1
<1>5. SumTo(f, n) = SumTo(f, m) + f[n]
  <2> HIDE DEF m
  <2> QED BY <1>1, SumStep
<1>6. QED
  BY <1>4, <1>5

\* So a rank is at its own place along the last dimension.
LEMMA LineRanks ==
  ASSUME NEW n \in Nat \ {0}, NEW max \in Nat, NEW q \in 0..max
  PROVE  /\ get_processor_coordinates(q, Line(n, max)) = PlaceInLine(n, q)
         /\ get_processor_id(PlaceInLine(n, q), Line(n, max)) = q
<1> DEFINE g == Line(n, max)
           at == PlaceInLine(n, q)
<1>1. /\ Len(g) = n /\ DOMAIN g = 1..n
      /\ \A d \in 1..n : g[d] = IF d = n THEN max + 1 ELSE 1
  BY DEF Line
<1>2. /\ \A d \in 1..n : Stride(g, d) \in Nat \ {0}
      /\ Stride(g, n) = 1
      /\ calc_total_num_values(g) = max + 1
  BY LineStrides
<1>3. DOMAIN at = 1..n /\ \A d \in 1..n : at[d] = IF d = n THEN q ELSE 0
  BY DEF PlaceInLine
<1> HIDE DEF g
<1>4. get_processor_coordinates(q, g) = at
  <2>1. get_processor_coordinates(q, g) = [d \in 1..n |-> Digit(q, g, d)]
    BY <1>1, <1>2 DEF get_processor_coordinates, map_index
  <2>2. ASSUME NEW d \in 1..n PROVE Digit(q, g, d) = IF d = n THEN q ELSE 0
    <3>1. CASE d = n
      <4>1. q \div 1 = q /\ q % (max + 1) = q
        OBVIOUS
      <4>2. Digit(q, g, d) = (q \div 1) % (max + 1)
        BY <1>1, <1>2, <3>1 DEF Digit
      <4>3. QED
        BY <3>1, <4>1, <4>2
    <3>2. CASE d # n
      <4> DEFINE s == Stride(g, d)
                 z == q \div s
      <4>1. s \in Nat \ {0} /\ Digit(q, g, d) = z % 1
        BY <1>1, <1>2, <3>2 DEF Digit
      <4>2. z \in Nat
        <5>1. q \in Nat
          OBVIOUS
        <5> HIDE DEF s
        <5>2. QED
          BY ONLY <4>1, <5>1, Division
      <4> HIDE DEF z
      <4>3. z % 1 = 0
        <5> DEFINE b == 1
        <5>1. b \in Nat \ {0}
          OBVIOUS
        <5>2. z % b \in 0..b-1
          <6> HIDE DEF b
          <6> QED BY ONLY <4>2, <5>1, Division
        <5>3. QED
          BY <5>2
      <4>4. QED
        BY <3>2, <4>1, <4>3
    <3>3. QED
      BY <3>1, <3>2
  <2>3. QED
    BY <2>1, <2>2 DEF PlaceInLine
<1> HIDE DEF at
<1>5. get_processor_id(at, g) = q
  <2> DEFINE f == [d \in 1..n |-> at[d] * Stride(g, d)]
  <2>1. \A d \in 1..n : at[d] # g[d]
    BY <1>1, <1>3
  <2>2. get_processor_id(at, g) = SumTo(f, n)
    BY <1>1, <2>1 DEF get_processor_id, map_indices
  <2>3. \A d \in 1..n-1 : f[d] = 0
    <3>1. ASSUME NEW d \in 1..n-1 PROVE f[d] = 0
      <4>1. d \in 1..n /\ at[d] = 0 /\ Stride(g, d) \in Nat
        BY <1>2, <1>3
      <4>2. QED
        BY <4>1
    <3>2. QED
      BY <3>1
  <2>4. f[n] = q /\ f[n] \in Int
    <3>1. f[n] = q * 1
      BY <1>2, <1>3
    <3>2. QED
      BY <3>1
  <2> HIDE DEF f
  <2>5. QED
    BY <2>2, <2>3, <2>4, SumOfLast
<1>6. QED
  BY <1>4, <1>5 DEF g, at

-----------------------------------------------------------------------------
(***************************************************************************)
(* The theorems                                                            *)
(***************************************************************************)
\* What each process has been given stays the answer to its call.
LEMMA MadeInvariance == GeneralSpec => []MadeInv
<1>1. GeneralInit => MadeInv
  BY DEF GeneralInit, MadeInv
<1>2. MadeInv /\ [GeneralNext]_general_vars => MadeInv'
  <2> SUFFICES ASSUME MadeInv, [GeneralNext]_general_vars PROVE MadeInv'
    OBVIOUS
  <2> USE DEF MadeInv
  <2>1. ASSUME NEW r \in Processes, NEW n \in 0..2, make(r, n) PROVE MadeInv'
    <3>1. global_mapping' = global_mapping
      BY <2>1 DEF make
    <3>2. \A q \in Processes, k \in Nat : Answer(q, k)' = Answer(q, k)
      BY <3>1 DEF Answer, N
    <3>3. /\ DOMAIN num_local' = Processes /\ DOMAIN made' = Processes
          /\ num_local'[r] = n /\ made'[r] = Answer(r, n)
          /\ \A q \in Processes \ {r} : num_local'[q] = num_local[q] /\ made'[q] = made[q]
      BY <2>1 DEF make
    <3>4. ASSUME NEW q \in Processes PROVE made'[q] = <<>> \/ made'[q] = Answer(q, num_local[q])'
      <4>1. CASE q = r
        BY <3>1, <3>3, <4>1 DEF Answer, N
      <4>2. CASE q # r
        BY <3>1, <3>3, <4>2 DEF Answer, N
      <4>3. QED
        BY <4>1, <4>2
    <3>5. QED
      BY <3>1, <3>3, <3>4
  <2>2. CASE UNCHANGED general_vars
    <3>1. UNCHANGED <<global_mapping, num_local, made>>
      BY <2>2 DEF general_vars
    <3>2. QED
      BY <3>1 DEF Answer, N
  <2>3. QED
    BY <2>1, <2>2 DEF GeneralNext, AllMade
<1>3. QED
  BY <1>1, <1>2, PTL DEF GeneralSpec

\* A process is given a distribution when the checks say so, and it is the one
\* that is made of the map.
LEMMA GivenMeans ==
  ASSUME MadeInv, NEW r \in Processes, Asked(r)
  PROVE  /\ Given(r) <=> check_for_holes(Intervals) /\ Consistent(r)
         /\ Given(r) => LET grid == create_processor_grid(global_mapping, N)
                        IN  made[r] = <<grid, create_grid_layout(global_mapping, grid)>>
<1> DEFINE grid == create_processor_grid(global_mapping, N)
           layout == create_grid_layout(global_mapping, grid)
<1>1. made[r] = Answer(r, num_local[r])
  BY DEF MadeInv, Asked
<1>2. run_checks(global_mapping, num_local[r], r) <=> check_for_holes(Intervals) /\ Consistent(r)
  BY DEF run_checks, check_contiguity_intervals, check_consistency_local_and_global_mapping,
         Consistent, Intervals
<1>3. Answer(r, num_local[r]) = IF run_checks(global_mapping, num_local[r], r)
                                THEN <<grid, layout>> ELSE <<"refused">>
  BY DEF Answer
<1> HIDE DEF grid, layout
<1>4. Len(<<grid, layout>>) = 2 /\ Len(<<"refused">>) = 1
  OBVIOUS
<1>5. QED
  BY <1>1, <1>2, <1>3, <1>4 DEF Given, grid, layout

\* In one dimension make() gives a distribution just for the tilings.
THEOREM TilingsAreMade == GeneralSpec => []RefusedOrTiled
<1>1. MadeInv => RefusedOrTiled
  <2> SUFFICES ASSUME MadeInv, N = 1, Intervals # {}, NEW r \in Processes, Asked(r)
               PROVE  Given(r) <=> Tile(InDimension(Intervals, 1)) /\ Consistent(r)
    BY DEF RefusedOrTiled
  <2>1. IsMapping(global_mapping)
    BY MappingAssumption DEF MadeInv
  <2>2. check_for_holes(Intervals) <=> Tile(InDimension(Intervals, N))
    BY <2>1, OneGroup, WholeGroups
  <2>3. QED
    BY <2>2, GivenMeans
<1>2. QED
  BY <1>1, MadeInvariance, PTL

\* make() refuses no grid, in any number of dimensions.
THEOREM GridsAreAlwaysMade == GeneralSpec => []GridsAreMade
<1>1. MadeInv => GridsAreMade
  <2> SUFFICES ASSUME MadeInv, Intervals # {}, IsGrid(Intervals),
                      NEW r \in Processes, Asked(r), Consistent(r)
               PROVE  Given(r)
    BY DEF GridsAreMade
  <2>1. IsMapping(global_mapping)
    BY MappingAssumption DEF MadeInv
  <2>2. N \in 1..N
    BY <2>1, MapFacts
  <2>3. Tile(InDimension(Intervals, N))
    BY <2>2 DEF IsGrid
  <2>4. check_for_holes(Intervals)
    BY <2>1, <2>3, GridGroup, WholeGroups
  <2>5. QED
    BY <2>4, GivenMeans
<1>2. QED
  BY <1>1, MadeInvariance, PTL

\* Two intervals of a tiling that have the first value of one are the same.
LEMMA SameInterval ==
  ASSUME NEW S, Intervals1D(S), Tile(S), NEW a \in S, NEW b \in S, contains(b, a.left)
  PROVE  b = a
<1>1. a.left \in Int /\ a.left < a.right
  BY DEF Intervals1D, Interval
<1>2. a.right \in Int
  BY DEF Intervals1D, Interval
<1>3. contains(a, a.left)
  BY <1>1 DEF contains
<1>4. a.left \in Span(S)
  BY <1>1, <1>2, SpanMeans
<1>5. QED
  BY <1>3, <1>4, TileMeans

\* The first and the last interval are those that end first and last.
LEMMA FirstAndLast ==
  ASSUME NEW S, Intervals1D(S)
  PROVE  \E a, e \in S : /\ Start(S) = a.left /\ Stop(S) = e.right
                         /\ \A b \in S : a.right <= b.right /\ b.right <= e.right
<1>1. \A a \in S : a.left \in Int /\ a.right \in Int
  BY DEF Intervals1D, Interval
<1>2. PICK a \in S : /\ Start(S) = a.left
                     /\ \A b \in S : a.right <= b.right
  <2> DEFINE c == CHOOSE x \in S : \A y \in S : ~Before(y, x)
  <2>1. PICK b \in S : \A y \in S : b.right <= y.right
    BY Bounds
  <2>2. \A y \in S : ~Before(y, b)
    BY <1>1, <2>1 DEF Before
  <2>3. c \in S /\ \A y \in S : ~Before(y, c)
    BY <2>2
  <2>4. Start(S) = c.left
    BY DEF Start
  <2> HIDE DEF c
  <2>5. \A y \in S : c.right <= y.right
    BY <1>1, <2>3 DEF Before
  <2>6. QED
    BY <2>3, <2>4, <2>5
<1>3. PICK e \in S : /\ Stop(S) = e.right
                     /\ \A b \in S : b.right <= e.right
  <2> DEFINE c == CHOOSE x \in S : \A y \in S : ~Before(x, y)
  <2>1. PICK b \in S : \A y \in S : y.right <= b.right
    BY Bounds
  <2>2. \A y \in S : ~Before(b, y)
    BY <1>1, <2>1 DEF Before
  <2>3. c \in S /\ \A y \in S : ~Before(c, y)
    BY <2>2
  <2>4. Stop(S) = c.right
    BY DEF Stop
  <2> HIDE DEF c
  <2>5. \A y \in S : y.right <= c.right
    BY <1>1, <2>3 DEF Before
  <2>6. QED
    BY <2>3, <2>4, <2>5
<1>4. QED
  BY <1>2, <1>3

\* Of a tiling the interval that ends first starts first.
LEMMA EndsOfTiling ==
  ASSUME NEW S, Intervals1D(S), Tile(S), NEW v
  PROVE  v \in Span(S) <=> v \in Int /\ Start(S) <= v /\ v < Stop(S)
<1>1. \A a \in S : a.left \in Int /\ a.right \in Int /\ a.left < a.right
  BY DEF Intervals1D, Interval
<1>2. PICK a \in S, e \in S : /\ Start(S) = a.left /\ Stop(S) = e.right
                              /\ \A b \in S : a.right <= b.right /\ b.right <= e.right
  BY FirstAndLast
<1>3. ASSUME NEW b \in S PROVE a.left <= b.left
  <2>1. SUFFICES ASSUME b.left < a.left PROVE FALSE
    BY <1>1
  <2>2. contains(b, a.left)
    BY <1>1, <1>2, <2>1 DEF contains
  <2>3. b = a
    BY <2>2, SameInterval
  <2>4. QED
    BY <1>1, <2>1, <2>3
<1>4. QED
  BY <1>1, <1>2, <1>3, SpanMeans

\* With two dimensions the checks have every group tile one and the same
\* range of the second: that of all intervals.
LEMMA RowsAreTiled ==
  ASSUME IsMapping(global_mapping), N = 2, Intervals # {}, check_for_holes(Intervals),
         NEW u \in Intervals
  PROVE  /\ Intervals1D(LastGroup(Intervals, u)) /\ Tile(LastGroup(Intervals, u))
         /\ LastGroup(Intervals, u) = {w[2] : w \in {x \in Intervals : x[1].right = u[1].right}}
         /\ \A v : v \in Span(InDimension(Intervals, 2)) <=> v \in Span(LastGroup(Intervals, u))
<1>1. /\ \A w \in Intervals : Len(w) = 2 /\ w[2] \in Interval
      /\ Intervals1D(InDimension(Intervals, 2))
  BY MapFacts
<1> DEFINE Row(w) == LastGroup(Intervals, w)
<1>2. ASSUME NEW w \in Intervals
      PROVE  /\ Row(w) = {x[2] : x \in {y \in Intervals : y[1].right = w[1].right}}
             /\ w[2] \in Row(w) /\ Intervals1D(Row(w)) /\ Tile(Row(w))
             /\ Start(Row(w)) = Start(Row(u)) /\ Stop(Row(w)) = Stop(Row(u))
  <2>1. Row(w) = InDimension(Group(Intervals, w, 1), 2)
    <3>1. Len(w) = 2 /\ Len(w) - 1 = 1
      BY <1>1
    <3>2. QED
      BY <3>1 DEF LastGroup
  <2>2. Group(Intervals, w, 1) = {y \in Intervals : y[1].right = w[1].right}
    BY DEF Group
  <2>3. Row(w) = {x[2] : x \in {y \in Intervals : y[1].right = w[1].right}}
    BY <2>1, <2>2 DEF InDimension
  <2>4. w[2] \in Row(w) /\ Row(w) \subseteq InDimension(Intervals, 2)
    BY <2>3 DEF InDimension
  <2>5. Intervals1D(Row(w))
    <3>1. IsFiniteSet(Row(w))
      BY <1>1, <2>4, FS_Subset DEF Intervals1D
    <3>2. QED
      BY <1>1, <2>4, <3>1 DEF Intervals1D
  <2>6. Tile(Row(w))
    <3>1. find_problematic_intervals(Row(w)) = {}
      BY DEF check_for_holes
    <3>2. QED
      BY <2>5, <3>1, ContiguousIsTile
  <2>7. Start(Row(w)) = Start(Row(u)) /\ Stop(Row(w)) = Stop(Row(u))
    <3>1. Len(u) - 2 = 0
      BY <1>1
    <3>2. Group(Intervals, u, 0) = Intervals
      BY DEF Group
    <3>3. w \in Group(Intervals, u, Len(u) - 2)
      BY <3>1, <3>2
    <3>4. QED
      BY <3>3 DEF check_for_holes
  <2>8. QED
    BY <2>3, <2>4, <2>5, <2>6, <2>7
<1> HIDE DEF Row
<1>3. ASSUME NEW v PROVE v \in Span(InDimension(Intervals, 2)) <=> v \in Span(Row(u))
  <2>1. \A w \in Intervals : v \in Span(Row(w)) <=> v \in Span(Row(u))
    BY <1>2, EndsOfTiling
  <2>2. ASSUME v \in Span(InDimension(Intervals, 2)) PROVE v \in Span(Row(u))
    <3>1. /\ v \in Int
          /\ \E a \in InDimension(Intervals, 2) : a.left <= v
          /\ \E b \in InDimension(Intervals, 2) : v < b.right
      BY <1>1, <2>2, SpanMeans
    <3>2. PICK w \in Intervals, x \in Intervals : w[2].left <= v /\ v < x[2].right
      BY <3>1 DEF InDimension
    <3>3. w[2].left \in Int /\ w[2].right \in Int /\ x[2].left \in Int /\ x[2].right \in Int
      BY <1>1 DEF Interval
    <3>4. CASE v < w[2].right
      <4>1. v \in Span(Row(w))
        BY <1>2, <3>1, <3>2, <3>4, SpanMeans
      <4>2. QED
        BY <2>1, <4>1
    <3>5. CASE x[2].left <= v
      <4>1. v \in Span(Row(x))
        BY <1>2, <3>1, <3>2, <3>5, SpanMeans
      <4>2. QED
        BY <2>1, <4>1
    <3>6. CASE w[2].right <= v /\ v < x[2].left
      <4>1. w[2].right - 1 \in Span(Row(w)) /\ x[2].left \in Span(Row(x))
        <5>1. w[2].left <= w[2].right - 1 /\ x[2].left < x[2].right
          BY <1>1 DEF Interval
        <5>2. w[2].right - 1 \in Int /\ w[2].right - 1 < w[2].right /\ x[2].left <= x[2].left
          BY <3>3
        <5>3. QED
          BY <1>2, <3>3, <5>1, <5>2, SpanMeans
      <4>2. Start(Row(u)) <= w[2].right - 1 /\ x[2].left < Stop(Row(u))
        BY <1>2, <4>1, EndsOfTiling
      <4>3. PICK a \in Row(u), b \in Row(u) : Start(Row(u)) = a.left /\ Stop(Row(u)) = b.right
        BY <1>2, FirstAndLast
      <4>4. a.left \in Int /\ b.right \in Int
        BY <1>2 DEF Intervals1D, Interval
      <4>5. Start(Row(u)) <= v /\ v < Stop(Row(u))
        BY <3>1, <3>3, <3>6, <4>2, <4>3, <4>4
      <4>6. QED
        BY <1>2, <3>1, <4>5, EndsOfTiling
    <3>7. QED
      BY <3>1, <3>3, <3>4, <3>5, <3>6
  <2>3. ASSUME v \in Span(Row(u)) PROVE v \in Span(InDimension(Intervals, 2))
    <3>1. \A a \in Row(u) : a \in InDimension(Intervals, 2)
      BY <1>2 DEF InDimension
    <3>2. QED
      BY <1>1, <1>2, <2>3, <3>1, SpanMeans
  <2>4. QED
    BY <2>2, <2>3
<1>4. QED
  BY <1>2, <1>3 DEF Row

\* What the checks leave out in two dimensions is the first one: where its
\* intervals are a tiling, all values of the box are in just one interval.
THEOREM OnlyFirstUnchecked == GeneralSpec => []BoxesAreTiled
<1>1. MadeInv => BoxesAreTiled
  <2> SUFFICES ASSUME MadeInv, N = 2, Intervals # {}, Tile(InDimension(Intervals, 1)),
                      NEW r \in Processes, Asked(r), Given(r),
                      NEW x \in Span(InDimension(Intervals, 1)),
                      NEW y \in Span(InDimension(Intervals, 2))
               PROVE  Cardinality({u \in Intervals : HasValue(u, <<x, y>>)}) = 1
    BY DEF BoxesAreTiled
  <2>1. IsMapping(global_mapping) /\ check_for_holes(Intervals)
    BY MappingAssumption, GivenMeans DEF MadeInv
  <2>2. /\ \A u \in Intervals : DOMAIN u = 1..2 /\ u = [d \in 1..2 |-> u[d]]
        /\ \A u \in Intervals : u[1] \in InDimension(Intervals, 1)
        /\ Intervals1D(InDimension(Intervals, 1))
    BY <2>1, MapFacts DEF InDimension
  <2>3. \A u \in Intervals : HasValue(u, <<x, y>>) <=> contains(u[1], x) /\ contains(u[2], y)
    <3>1. <<x, y>>[1] = x /\ <<x, y>>[2] = y /\ \A d : d \in 1..2 <=> d = 1 \/ d = 2
      OBVIOUS
    <3>2. QED
      BY <2>2, <3>1 DEF HasValue
  <2>4. /\ \E a \in InDimension(Intervals, 1) : contains(a, x)
        /\ \A a, b \in InDimension(Intervals, 1) : contains(a, x) /\ contains(b, x) => a = b
    BY <2>2, TileMeans
  <2>5. PICK u \in Intervals : contains(u[1], x)
    BY <2>4 DEF InDimension
  <2> DEFINE Row == LastGroup(Intervals, u)
  <2>6. /\ Intervals1D(Row) /\ Tile(Row) /\ y \in Span(Row)
        /\ Row = {w[2] : w \in {z \in Intervals : z[1].right = u[1].right}}
    BY <2>1, RowsAreTiled
  <2> HIDE DEF Row
  <2>7. /\ \E a \in Row : contains(a, y)
        /\ \A a, b \in Row : contains(a, y) /\ contains(b, y) => a = b
    BY <2>6, TileMeans
  <2>8. ASSUME NEW w \in Intervals, w[1].right = u[1].right PROVE w[1] = u[1]
    <3> DEFINE last == u[1].right - 1
    <3>1. /\ w[1] \in Interval /\ u[1] \in Interval
          /\ w[1] \in InDimension(Intervals, 1) /\ u[1] \in InDimension(Intervals, 1)
      BY <2>2 DEF Intervals1D
    <3>2. contains(w[1], last) /\ contains(u[1], last) /\ last \in Int
      BY <2>8, <3>1 DEF contains, Interval
    <3>3. last \in Span(InDimension(Intervals, 1))
      BY <2>2, <3>1, <3>2, SpanMeans DEF contains
    <3>4. QED
      BY <2>2, <3>1, <3>2, <3>3, TileMeans
  <2>9. PICK w \in Intervals : w[1].right = u[1].right /\ contains(w[2], y)
    BY <2>6, <2>7
  <2>10. HasValue(w, <<x, y>>)
    BY <2>3, <2>5, <2>8, <2>9
  <2>11. ASSUME NEW z \in Intervals, HasValue(z, <<x, y>>) PROVE z = w
    <3>1. contains(z[1], x) /\ contains(z[2], y)
      BY <2>3, <2>11
    <3>2. z[1] = u[1] /\ w[1] = u[1]
      BY <2>2, <2>4, <2>5, <2>8, <2>9, <3>1
    <3>3. z[2] \in Row /\ w[2] \in Row
      BY <2>6, <2>9, <3>2
    <3>4. z[2] = w[2]
      BY <2>7, <2>9, <3>1, <3>3
    <3>5. \A d \in 1..2 : z[d] = w[d]
      <4>1. \A d \in 1..2 : d = 1 \/ d = 2
        OBVIOUS
      <4>2. QED
        BY <3>2, <3>4, <4>1
    <3>6. [d \in 1..2 |-> z[d]] = [d \in 1..2 |-> w[d]]
      BY <3>5
    <3>7. QED
      BY <2>2, <3>6
  <2>12. {z \in Intervals : HasValue(z, <<x, y>>)} = {w}
    BY <2>10, <2>11
  <2>13. QED
    BY <2>12, FS_Singleton
<1>2. QED
  BY <1>1, MadeInvariance, PTL

\* The processor grid is a line up to the greatest rank of the map.
LEMMA GridIsLine ==
  ASSUME IsMapping(global_mapping), Intervals # {}
  PROVE  \E max \in Nat : /\ create_processor_grid(global_mapping, N) = Line(N, max)
                          /\ \A r \in DOMAIN global_mapping : r \in 0..max
<1> DEFINE D == DOMAIN global_mapping
           max == get_max_rank(global_mapping)
<1>1. D \subseteq Nat /\ IsFiniteSet(D)
  BY DEF IsMapping
<1>2. D # {}
  BY DEF Intervals, get_intervals
<1>3. \E m \in D : \A r \in D : r <= m
  <2>1. D \subseteq Int
    BY <1>1
  <2> HIDE DEF D
  <2>2. QED
    BY ONLY <1>1, <1>2, <2>1, Extremes
<1>4. max \in D /\ \A r \in D : r <= max
  BY <1>2, <1>3 DEF get_max_rank
<1>5. create_processor_grid(global_mapping, N) = Line(N, max)
  BY DEF create_processor_grid, Line
<1> HIDE DEF max
<1>6. max \in Nat /\ \A r \in D : r \in 0..max
  BY <1>1, <1>4
<1>7. QED
  BY <1>5, <1>6

\* The blocks of a dimension are the intervals there; their owner is the rank
\* in the last dimension, and 0 in the others.
LEMMA BlocksOfMap ==
  ASSUME IsMapping(global_mapping), Intervals # {}, NEW max \in Nat,
         \A r \in DOMAIN global_mapping : r \in 0..max, NEW d \in 1..N, NEW b
  PROVE  b \in create_grid_layout(global_mapping, Line(N, max))[d] <=>
           \E r \in DOMAIN global_mapping : \E u \in ToSet(global_mapping[r]) :
             b = [left |-> u[d].left, right |-> u[d].right, owner |-> PlaceInLine(N, r)[d]]
<1> DEFINE m == global_mapping
           grid == Line(N, max)
           Bs == create_multidimensional_blocks(m, grid)
           Side(u, r) == [left |-> u[d].left, right |-> u[d].right, owner |-> PlaceInLine(N, r)[d]]
<1>1. /\ N \in Nat \ {0}
      /\ \A u \in Intervals : DOMAIN u = 1..N
  BY MapFacts
<1>2. \A r \in DOMAIN m : ToSet(m[r]) \subseteq Intervals
  BY DEF Intervals, get_intervals
<1>3. create_grid_layout(m, grid)[d] = {c[d] : c \in Bs}
  BY DEF create_grid_layout, Line
<1>4. \A r \in DOMAIN m : get_processor_coordinates(r, grid) = PlaceInLine(N, r)
  BY <1>1, LineRanks
<1>5. ASSUME NEW r \in DOMAIN m, NEW u \in ToSet(m[r])
      PROVE  build_multidimensional_block(u, get_processor_coordinates(r, grid))[d] = Side(u, r)
  BY <1>1, <1>2, <1>4 DEF build_multidimensional_block
<1>6. Bs = UNION {{build_multidimensional_block(u, get_processor_coordinates(r, grid)) :
                     u \in ToSet(m[r])} : r \in DOMAIN m}
  BY DEF create_multidimensional_blocks
<1> HIDE DEF m, grid, Bs, Side
<1>7. \A c : c \in Bs <=> \E r \in DOMAIN m : \E u \in ToSet(m[r]) :
                            c = build_multidimensional_block(u, get_processor_coordinates(r, grid))
  BY <1>6
<1>8. b \in {c[d] : c \in Bs} <=> \E r \in DOMAIN m : \E u \in ToSet(m[r]) : b = Side(u, r)
  <2>1. ASSUME NEW c \in Bs, b = c[d]
        PROVE  \E r \in DOMAIN m : \E u \in ToSet(m[r]) : b = Side(u, r)
    <3>1. PICK r \in DOMAIN m : \E u \in ToSet(m[r]) :
                 c = build_multidimensional_block(u, get_processor_coordinates(r, grid))
      BY <1>7, <2>1
    <3>2. PICK u \in ToSet(m[r]) :
                 c = build_multidimensional_block(u, get_processor_coordinates(r, grid))
      BY <3>1
    <3>3. b = Side(u, r)
      BY <1>5, <2>1, <3>2
    <3>4. QED
      BY <3>3
  <2>2. ASSUME NEW r \in DOMAIN m, NEW u \in ToSet(m[r]), b = Side(u, r)
        PROVE  \E c \in Bs : b = c[d]
    <3> DEFINE c == build_multidimensional_block(u, get_processor_coordinates(r, grid))
    <3>1. c \in Bs
      BY <1>7
    <3>2. b = c[d]
      BY <1>5, <2>2
    <3>3. QED
      BY <3>1, <3>2
  <2>3. QED
    BY <2>1, <2>2
<1>9. QED
  BY <1>3, <1>8 DEF Side, m, grid

\* In a grid whose ranks share no interval of the last dimension a value is
\* led to the rank that has it in the map.
LEMMA OwnersKept ==
  ASSUME IsMapping(global_mapping), Intervals # {}, IsGrid(Intervals),
         \A q, s \in DOMAIN global_mapping :
           q # s => InDimension(ToSet(global_mapping[q]), N)
                      \cap InDimension(ToSet(global_mapping[s]), N) = {},
         NEW max \in Nat, \A r \in DOMAIN global_mapping : r \in 0..max,
         NEW q \in DOMAIN global_mapping, NEW u \in ToSet(global_mapping[q])
  PROVE  LET grid == Line(N, max)
         IN  LedTo(create_grid_layout(global_mapping, grid), grid, [d \in 1..N |-> u[d].left]) = {q}
<1> DEFINE m == global_mapping
           grid == Line(N, max)
           layout == create_grid_layout(m, grid)
           value == [d \in 1..N |-> u[d].left]
           owners == {b.owner : b \in UNION ToSet(layout)}
           Leads(o) == \A d \in 1..N : \E b \in layout[d] : contains(b, value[d]) /\ b.owner = o[d]
           Side(w, r, d) == [left |-> w[d].left, right |-> w[d].right, owner |-> PlaceInLine(N, r)[d]]
<1>1. /\ N \in Nat \ {0} /\ N \in 1..N
      /\ \A w \in Intervals : \A d \in 1..N : w[d] \in Interval
      /\ Intervals1D(InDimension(Intervals, N))
  BY MapFacts
<1>2. \A r \in DOMAIN m : ToSet(m[r]) \subseteq Intervals
  BY DEF Intervals, get_intervals
<1>3. DOMAIN layout = 1..N
  BY DEF create_grid_layout, Line
<1>4. \A d \in 1..N : \A b : b \in layout[d] <=>
        \E r \in DOMAIN m : \E w \in ToSet(m[r]) : b = Side(w, r, d)
  BY BlocksOfMap
<1>5. Tile(InDimension(Intervals, N))
  BY <1>1 DEF IsGrid
<1>6. DOMAIN PlaceInLine(N, q) = 1..N /\ \A r : \A d \in 1..N : PlaceInLine(N, r)[d] = IF d = N THEN r ELSE 0
  BY DEF PlaceInLine
<1>7. \A w, r, d : Side(w, r, d).owner = PlaceInLine(N, r)[d] /\ Side(w, r, d).left = w[d].left
                   /\ Side(w, r, d).right = w[d].right
  OBVIOUS
<1>8. \A d \in 1..N : value[d] = u[d].left
  OBVIOUS
<1> HIDE DEF layout, Side, value
<1>9. ASSUME NEW d \in 1..N
      PROVE  Side(u, q, d) \in layout[d] /\ contains(Side(u, q, d), value[d])
  <2>1. Side(u, q, d) \in layout[d]
    BY <1>4
  <2>2. u[d] \in Interval
    BY <1>1, <1>2
  <2>3. QED
    BY <1>7, <1>8, <2>1, <2>2 DEF contains, Interval
<1>10. PlaceInLine(N, q) \in [1..N -> owners] /\ Leads(PlaceInLine(N, q))
  <2>1. ASSUME NEW d \in 1..N PROVE PlaceInLine(N, q)[d] \in owners
    <3>1. layout[d] \in ToSet(layout)
      BY <1>3 DEF ToSet
    <3>2. Side(u, q, d) \in UNION ToSet(layout)
      BY <1>9, <3>1
    <3>3. QED
      BY <1>7, <3>2
  <2>2. PlaceInLine(N, q) = [d \in 1..N |-> PlaceInLine(N, q)[d]]
    BY DEF PlaceInLine
  <2> HIDE DEF owners
  <2>3. PlaceInLine(N, q) \in [1..N -> owners]
    BY <2>1, <2>2
  <2>4. Leads(PlaceInLine(N, q))
    BY <1>7, <1>9
  <2>5. QED
    BY <2>3, <2>4
<1>11. ASSUME NEW o \in [1..N -> owners], Leads(o) PROVE o = PlaceInLine(N, q)
  <2>1. ASSUME NEW d \in 1..N PROVE o[d] = PlaceInLine(N, q)[d]
    <3>1. PICK b \in layout[d] : contains(b, value[d]) /\ b.owner = o[d]
      BY <1>11
    <3>2. PICK r \in DOMAIN m : \E w \in ToSet(m[r]) : b = Side(w, r, d)
      BY <1>4, <3>1
    <3>3. PICK w \in ToSet(m[r]) : b = Side(w, r, d)
      BY <3>2
    <3>4. o[d] = PlaceInLine(N, r)[d]
      BY <1>7, <3>1, <3>3
    <3>5. CASE d # N
      BY <1>6, <3>4, <3>5
    <3>6. CASE d = N
      <4>1. w[N] \in InDimension(Intervals, N) /\ u[N] \in InDimension(Intervals, N)
        BY <1>2 DEF InDimension
      <4>2. contains(w[N], u[N].left)
        BY <1>7, <1>8, <3>1, <3>3, <3>6 DEF contains
      <4>3. w[N] = u[N]
        BY <1>1, <1>5, <4>1, <4>2, SameInterval
      <4>4. w[N] \in InDimension(ToSet(m[r]), N) /\ u[N] \in InDimension(ToSet(m[q]), N)
        BY DEF InDimension
      <4>5. r = q
        BY <4>3, <4>4
      <4>6. QED
        BY <3>4, <4>5
    <3>7. QED
      BY <3>5, <3>6
  <2>2. PlaceInLine(N, q) = [d \in 1..N |-> PlaceInLine(N, q)[d]]
    BY DEF PlaceInLine
  <2> HIDE DEF owners
  <2>3. QED
    BY <2>1, <2>2
<1>12. get_processor_id(PlaceInLine(N, q), grid) = q
  BY <1>1, LineRanks
<1>13. LedTo(layout, grid, value) = {get_processor_id(at, grid) : at \in {o \in [1..N -> owners] : Leads(o)}}
  BY DEF LedTo
<1>14. {o \in [1..N -> owners] : Leads(o)} = {PlaceInLine(N, q)}
  <2> HIDE DEF owners, Leads
  <2>1. QED
    BY <1>10, <1>11
<1>15. LedTo(layout, grid, value) = {q}
  <2> HIDE DEF owners, Leads, grid
  <2>1. QED
    BY <1>12, <1>13, <1>14
<1>16. QED
  BY <1>15 DEF layout, value

\* The distribution that make() gives for such a grid leads each value to the
\* rank that the map gives it, and to no other.
THEOREM OwnersAreKept == GeneralSpec => []KeepsOwners
<1>1. MadeInv => KeepsOwners
  <2> SUFFICES ASSUME MadeInv, Intervals # {}, IsGrid(Intervals),
                      \A q, s \in DOMAIN global_mapping :
                        q # s => InDimension(ToSet(global_mapping[q]), N)
                                   \cap InDimension(ToSet(global_mapping[s]), N) = {},
                      NEW r \in Processes, Asked(r), Given(r),
                      NEW q \in DOMAIN global_mapping, NEW u \in ToSet(global_mapping[q])
               PROVE  LedTo(made[r][2], made[r][1], [d \in 1..N |-> u[d].left]) = {q}
    BY DEF KeepsOwners
  <2>1. IsMapping(global_mapping)
    BY MappingAssumption DEF MadeInv
  <2>2. PICK max \in Nat : /\ create_processor_grid(global_mapping, N) = Line(N, max)
                           /\ \A s \in DOMAIN global_mapping : s \in 0..max
    BY <2>1, GridIsLine
  <2>3. made[r] = <<Line(N, max), create_grid_layout(global_mapping, Line(N, max))>>
    BY <2>2, GivenMeans
  <2>4. LedTo(create_grid_layout(global_mapping, Line(N, max)), Line(N, max), [d \in 1..N |-> u[d].left]) = {q}
    BY <2>1, <2>2, OwnersKept
  <2>5. QED
    BY <2>3, <2>4
<1>2. QED
  BY <1>1, MadeInvariance, PTL

=============================================================================

----------------------------- MODULE MCExchange -----------------------------
(***************************************************************************)
(* Three processes; "world" holds them all, "pair" two of them numbered    *)
(* the other way round, "turned" all three in another order.               *)
(***************************************************************************)
EXTENDS ExchangeInvariant

MCRank == {"p", "q", "r"}
MCComm == {"world", "pair", "turned"}

MCRankId ==
  [c \in MCComm |->
     CASE c = "world"  -> [x \in MCRank |-> IF x = "p" THEN 0 ELSE IF x = "q" THEN 1 ELSE 2]
       [] c = "turned" -> [x \in MCRank |-> IF x = "p" THEN 2 ELSE IF x = "q" THEN 0 ELSE 1]
       [] c = "pair"   -> [x \in MCRank |-> IF x = "p" THEN -1 ELSE IF x = "q" THEN 1 ELSE 0]]

Shuffle(initial, final, plan) ==
  [initial |-> initial, final |-> final, equal |-> FALSE, plan |-> plan]

\* Contexts that compare equal: every process keeps what it has
Same(c) == [initial |-> c, final |-> c, equal |-> TRUE, plan |-> {<<0, 0>>, <<1, 1>>}]

(***************************************************************************)
(* Plans: all to all; shifted by one, so that nobody keeps anything; and   *)
(* everything gathered on, or spread from, one process.                    *)
(***************************************************************************)
Spread(m, n) == (0..m-1) \X (0..n-1)
Shift(m, n) == {<<i, (i + 1) % n>> : i \in 0..m-1}
Gather(m, n) == (0..m-1) \X {n - 1}
Plans(m, n) == {Spread(m, n), Shift(m, n), Gather(m, n)}

\* A shuffle within a communicator, then one of another size or order
GrowAndShrink ==
  {<<Shuffle("world", "pair", a), Shuffle("pair", "world", b)>> :
      a \in Plans(3, 2), b \in Plans(2, 3)}

\* The same inter-communicator in both rounds, whose members differ in how
\* long the first one keeps them
Repeat ==
  {<<Shuffle("world", "turned", a), Shuffle("world", "pair", b)>> :
      a \in Plans(3, 3), b \in Plans(3, 2)}

\* Processes that are in a call only for its collectives, or not at all
Skip ==
  {<<Shuffle("pair", "pair", Shift(2, 2)), s, Shuffle("world", "pair", Spread(3, 2))>> :
      s \in {Same("pair"), Shuffle("pair", "world", {<<1, 0>>, <<0, 1>>}),
             Shuffle("pair", "world", {<<1, 0>>})}}

MCScripts == GrowAndShrink \cup Repeat \cup Skip
=============================================================================

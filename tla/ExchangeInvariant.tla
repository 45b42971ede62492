------------------------- MODULE ExchangeInvariant -------------------------
(***************************************************************************)
(* The inductive invariant behind the safety properties of Exchange.tla.   *)
(* It says, for every pair of processes, how far one can be ahead of the   *)
(* other, and for every message who has sent it and who is waiting for it. *)
(***************************************************************************)
EXTENDS Exchange

\* The calls of program sc whose collectives run over communicator c, and
\* the position of call k among them
Uses(sc, k, c) == /\ k \in 1..Len(sc)
                  /\ ~sc[k].equal
                  /\ InterComm(sc[k]) = c
Nth(sc, c, k) == Cardinality({j \in 1..k : Uses(sc, j, c)})

\* What process q puts into the MPI_Allgather of call k
Contributed(sc, q, k) ==
  [comm |-> InterComm(sc[k]), call |-> Nth(sc, InterComm(sc[k]), k),
   inter |-> RankId[InterComm(sc[k])][q],
   first |-> RankId[sc[k].initial][q], second |-> RankId[sc[k].final][q]]

\* How many calls r has entered, and whether r is past call k's MPI_Allgather
Entered(r) == IF pc[r] = "call" THEN round[r] - 1 ELSE round[r]
Past(r, k) == k < round[r] \/ (k = round[r] /\ Exchanging(r))

\* Process s of the initial communicator owes process d of the final one a
\* piece in call k
Owes(sc, s, d, k) ==
  /\ k \in 1..Len(sc)
  /\ ~sc[k].equal
  /\ s \in Members(sc[k].initial)
  /\ d \in Members(sc[k].final)
  /\ <<RankId[sc[k].initial][s], RankId[sc[k].final][d]>> \in sc[k].plan

\* s has come to the point in its loop where d's message has left
HasSent(s, d, k) ==
  /\ Past(s, k)
  /\ k = round[s] => RankId[script[k].final][d] \notin unsent[s]

SourcesSeen(r) == {x.source : x \in received[r]}

\* Where a process can be in its program
RoundInv ==
  \A r \in Rank :
    /\ round[r] <= Len(script) + 1
    /\ pc[r] # "call" => /\ round[r] <= Len(script)
                         /\ ~IsLocal(Call(r), r)

\* The collectives that a process has entered are those of its communicators
\* in the calls it has made
CallsInv ==
  \A r \in Rank, c \in Comm :
    r \in Members(c) => calls[r][c] = Nth(script, c, Entered(r))

GatheredInv ==
  \A p \in gathered : \E q \in Rank, k \in 1..Len(script) :
    /\ ~IsLocal(script[k], q)
    /\ k <= Entered(q)
    /\ p = Contributed(script, q, k)

InfoInv ==
  \A r \in Rank : Exchanging(r) =>
    info[r] = {Contributed(script, q, round[r]) : q \in Members(Inter(r))}

\* Nobody is past an MPI_Allgather that some participant has not entered
BarrierInv ==
  \A q, r \in Rank, k \in 1..Len(script) :
    /\ ~IsLocal(script[k], q)
    /\ ~IsLocal(script[k], r)
    /\ Past(r, k)
    => k <= Entered(q)

UnsentInv ==
  \A r \in Rank : Exchanging(r) =>
    /\ unsent[r] \subseteq Destinations(r) \ {FinalId(r)}
    /\ pc[r] = "receive" => unsent[r] = {}

\* Nobody is past a call in which some process still has to send it a piece
FinishedInv ==
  \A s, d \in Rank, k \in 1..Len(script) :
    Owes(script, s, d, k) /\ k < round[d] => HasSent(s, d, k)

\* A message in flight: who sent it, and that its receiver awaits it
InFlight(m, d) ==
  LET s == m.data.sender
      k == m.data.round
  IN /\ Owes(script, s, d, k)
     /\ s # d
     /\ m.comm = InterComm(script[k])
     /\ m.from = RankId[m.comm][s]
     /\ m.to = RankId[m.comm][d]
     /\ HasSent(s, d, k)
     /\ round[d] = k
     /\ Exchanging(d) => RankId[script[k].initial][s] \notin SourcesSeen(d)

NetworkInv == \A m \in network : \E d \in Rank : InFlight(m, d)

\* At most one message in flight for a sender, a receiver and a shuffle
UniqueInv ==
  \A m, n \in network : m.data = n.data /\ m.to = n.to => m = n

ReceivedInv ==
  \A r \in Rank : Exchanging(r) =>
    /\ pc[r] # "receive" => received[r] = {}
    /\ \A x \in received[r] : \E s \in Rank :
         /\ x.data = Piece(s, round[r])
         /\ x.source = RankId[Call(r).initial][s]
         /\ Owes(script, s, r, round[r])
         /\ HasSent(s, r, round[r])

\* The counter is the number of sources whose piece is still missing
ExpectedInv ==
  \A r \in Rank : Exchanging(r) =>
    IF pc[r] = "receive"
    THEN /\ expected[r] = Cardinality(Sources(r) \ SourcesSeen(r))
         /\ KeepsData(r) => InitialId(r) \in SourcesSeen(r)
    ELSE expected[r] = Cardinality(Sources(r)) - (IF KeepsData(r) THEN 1 ELSE 0)

ResultsInv ==
  \A r \in Rank : /\ Len(results[r]) = round[r] - 1
                  /\ \A k \in 1..Len(results[r]) :
                        results[r][k] = Expected(script[k], k, r)

IInv ==
  /\ TypeOK
  /\ RoundInv
  /\ CallsInv
  /\ GatheredInv
  /\ InfoInv
  /\ BarrierInv
  /\ UnsentInv
  /\ FinishedInv
  /\ NetworkInv
  /\ UniqueInv
  /\ ReceivedInv
  /\ ExpectedInv
  /\ ResultsInv
=============================================================================

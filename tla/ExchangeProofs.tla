--------------------------- MODULE ExchangeProofs ---------------------------
(***************************************************************************)
(* That the invariant of ExchangeInvariant.tla holds of every program, on  *)
(* any number of processes and communicators, and what follows from it,    *)
(* the refinement of Redistribution.tla among it.                          *)
(***************************************************************************)
EXTENDS ExchangeInvariant, FiniteSetTheorems, TLAPS

-----------------------------------------------------------------------------
(***************************************************************************)
(* Programs                                                                *)
(***************************************************************************)

\* A call of a program is a call in the sense of ShuffleCalls.tla.
LEMMA CallOfScript ==
  ASSUME NEW sc \in Scripts, NEW k \in 1..Len(sc)
  PROVE  /\ sc \in Seq(CallRecord)
         /\ Len(sc) \in Nat
         /\ sc[k] \in CallRecord
         /\ IsCall(sc[k])
<1>1. sc \in Seq(CallRecord) /\ IsCall(sc[k])
  BY ScriptAssumption
<1>2. QED
  BY <1>1 DEF IsCall

\* The inter-communicator is one of the two, and those that do not return at
\* once from shuffle() are its members.
LEMMA ParticipantsAreMembers ==
  ASSUME NEW sc \in Scripts, NEW k \in 1..Len(sc)
  PROVE  /\ InterComm(sc[k]) \in Comm
         /\ Members(InterComm(sc[k])) = Members(sc[k].initial) \cup Members(sc[k].final)
         /\ \A r \in Rank : IsLocal(sc[k], r) <=> \/ sc[k].equal
                                                  \/ r \notin Members(InterComm(sc[k]))
         /\ \A r \in Rank : ~IsLocal(sc[k], r) => Uses(sc, k, InterComm(sc[k]))
  BY CallOfScript DEF IsCall, CallRecord, Nested, InterComm, IsLocal, Uses

LEMMA RankIdType ==
  ASSUME NEW c \in Comm, NEW r \in Rank
  PROVE  /\ RankId[c][r] \in Int
         /\ r \in Members(c) => RankId[c][r] \in Nat
         /\ r \notin Members(c) => RankId[c][r] = INVALID_RANK_ID
  BY RankAssumption DEF Members, INVALID_RANK_ID

LEMMA RankIdInjective ==
  ASSUME NEW c \in Comm, NEW q \in Rank, NEW r \in Members(c),
         RankId[c][q] = RankId[c][r]
  PROVE  q = r
  BY RankAssumption DEF Members, INVALID_RANK_ID

\* The ranks of a communicator are a finite set.
LEMMA FinitelyManyIds ==
  ASSUME NEW c \in Comm
  PROVE  IsFiniteSet({RankId[c][q] : q \in Members(c)})
<1> DEFINE ids == {RankId[c][q] : q \in Members(c)}
           f == [q \in Members(c) |-> RankId[c][q]]
<1>1. IsFiniteSet(Members(c))
  BY RankAssumption, FS_Subset DEF Members
<1>2. f \in Surjection(Members(c), ids)
  BY DEF Surjection
<1>3. QED
  BY <1>1, <1>2, FS_Surjection

-----------------------------------------------------------------------------
(***************************************************************************)
(* Positions of calls among those of their communicator                    *)
(***************************************************************************)

LEMMA NthType ==
  ASSUME NEW sc, NEW c, NEW k \in Nat
  PROVE  /\ IsFiniteSet({j \in 1..k : Uses(sc, j, c)})
         /\ Nth(sc, c, k) \in Nat
<1> DEFINE U == {j \in 1..k : Uses(sc, j, c)}
<1>1. IsFiniteSet(1..k)
  BY FS_Interval
<1>2. U \in SUBSET (1..k)
  OBVIOUS
<1>3. IsFiniteSet(U) /\ Cardinality(U) \in Nat
  <2> HIDE DEF U
  <2> QED BY <1>1, <1>2, FS_Subset, FS_CardinalityType
<1>4. QED
  BY <1>3 DEF Nth

\* A call counts for its own communicator and for no other.
LEMMA NthNext ==
  ASSUME NEW sc, NEW c, NEW k \in Nat \ {0}
  PROVE  Nth(sc, c, k) = Nth(sc, c, k-1) + (IF Uses(sc, k, c) THEN 1 ELSE 0)
<1> DEFINE U(j) == {i \in 1..j : Uses(sc, i, c)}
<1>1. IsFiniteSet(U(k-1)) /\ Cardinality(U(k-1)) \in Nat
  BY NthType DEF Nth
<1>2. CASE Uses(sc, k, c)
  <2>1. U(k) = U(k-1) \cup {k} /\ k \notin U(k-1)
    BY <1>2
  <2>2. Cardinality(U(k)) = Cardinality(U(k-1)) + 1
    <3> HIDE DEF U
    <3> QED BY <1>1, <2>1, FS_AddElement
  <2>3. QED
    BY <1>2, <2>2 DEF Nth
<1>3. CASE ~Uses(sc, k, c)
  <2>1. U(k) = U(k-1)
    BY <1>3
  <2>2. QED
    BY <1>1, <1>3, <2>1 DEF Nth
<1>4. QED
  BY <1>2, <1>3

\* Two calls of one communicator have different positions.
LEMMA NthInjective ==
  ASSUME NEW sc, NEW c, NEW j \in Nat, NEW k \in Nat,
         Uses(sc, j, c), Uses(sc, k, c), Nth(sc, c, j) = Nth(sc, c, k)
  PROVE  j = k
<1> DEFINE U(i) == {n \in 1..i : Uses(sc, n, c)}
<1>1. ASSUME NEW a \in Nat, NEW b \in Nat, a < b, Uses(sc, b, c),
             Nth(sc, c, a) = Nth(sc, c, b)
      PROVE  FALSE
  <2>1. U(a) \subseteq U(b) /\ b \in U(b) /\ b \notin U(a)
    BY <1>1
  <2>2. IsFiniteSet(U(b)) /\ Cardinality(U(a)) = Cardinality(U(b))
    BY <1>1, NthType DEF Nth
  <2>3. U(a) = U(b)
    <3> HIDE DEF U
    <3> QED BY <2>1, <2>2, FS_Subset
  <2>4. QED
    BY <2>1, <2>3
<1>2. QED
  BY <1>1

-----------------------------------------------------------------------------
(***************************************************************************)
(* The invariant is inductive: one lemma for each of its conjuncts         *)
(***************************************************************************)

LEMMA InitInvariant == Init => IInv
<1> SUFFICES ASSUME Init PROVE IInv
  OBVIOUS
<1>1. TypeOK
  BY DEF Init, TypeOK
<1>2. RoundInv
  BY ScriptAssumption DEF Init, RoundInv
<1>3. CallsInv
  <2>1. ASSUME NEW c \in Comm PROVE Nth(script, c, 0) = 0
    <3>1. {j \in 1..0 : Uses(script, j, c)} = {}
      OBVIOUS
    <3>2. QED
      BY <3>1, FS_EmptySet DEF Nth
  <2>2. QED
    BY <2>1 DEF Init, CallsInv, Entered
<1>4. GatheredInv /\ InfoInv /\ UnsentInv /\ NetworkInv /\ UniqueInv /\ ReceivedInv /\ ExpectedInv
  BY DEF Init, GatheredInv, InfoInv, UnsentInv, NetworkInv, UniqueInv,
         ReceivedInv, ExpectedInv, Exchanging
<1>5. BarrierInv /\ FinishedInv
  BY DEF Init, BarrierInv, FinishedInv, Past, Exchanging
<1>6. ResultsInv
  BY DEF Init, ResultsInv
<1>7. QED
  BY <1>1, <1>2, <1>3, <1>4, <1>5, <1>6 DEF IInv

LEMMA RoundStep ==
  ASSUME TypeOK, RoundInv, [Next]_vars
  PROVE  RoundInv'
<1> USE DEF TypeOK, RoundInv, Call
<1>0. CASE UNCHANGED vars
  BY <1>0 DEF vars
<1>1. ASSUME NEW r \in Rank, ReturnImmediately(r) PROVE RoundInv'
  BY <1>1, ScriptAssumption DEF ReturnImmediately
<1>2. ASSUME NEW r \in Rank, EnterAllgather(r) PROVE RoundInv'
  BY <1>2 DEF EnterAllgather
<1>3. ASSUME NEW r \in Rank, LeaveAllgather(r) PROVE RoundInv'
  BY <1>3 DEF LeaveAllgather
<1>4. ASSUME NEW r \in Rank, Isend(r) PROVE RoundInv'
  BY <1>4 DEF Isend
<1>5. ASSUME NEW r \in Rank, WaitSerialized(r) PROVE RoundInv'
  BY <1>5 DEF WaitSerialized
<1>6. ASSUME NEW r \in Rank, CopyOwn(r) PROVE RoundInv'
  BY <1>6 DEF CopyOwn
<1>7. ASSUME NEW r \in Rank, Receive(r) PROVE RoundInv'
  BY <1>7 DEF Receive
<1>8. ASSUME NEW r \in Rank, Waitall(r) PROVE RoundInv'
  BY <1>8, ScriptAssumption DEF Waitall
<1>9. QED
  BY <1>0, <1>1, <1>2, <1>3, <1>4, <1>5, <1>6, <1>7, <1>8 DEF Next, Step, Terminating

-----------------------------------------------------------------------------
(***************************************************************************)
(* What the invariant says about a process in the middle of an exchange    *)
(***************************************************************************)

\* The call that a process is in is one of the program's.
LEMMA CurrentCall ==
  ASSUME TypeOK, RoundInv, NEW r \in Rank, pc[r] # "call"
  PROVE  /\ script \in Scripts
         /\ round[r] \in 1..Len(script)
         /\ Call(r) = script[round[r]]
         /\ IsCall(Call(r))
         /\ Inter(r) \in Comm
         /\ Uses(script, round[r], Inter(r))
         /\ r \in Members(Inter(r))
         /\ Members(Inter(r)) = Members(Call(r).initial) \cup Members(Call(r).final)
<1>1. script \in Scripts /\ round[r] \in 1..Len(script) /\ ~IsLocal(Call(r), r)
  BY ScriptAssumption DEF TypeOK, RoundInv
<1>2. QED
  BY <1>1, CallOfScript, ParticipantsAreMembers DEF Call, Inter

\* A destination is the final rank of some process that r owes a piece.
LEMMA DestinationIsOwed ==
  ASSUME TypeOK, RoundInv, NEW r \in Rank, pc[r] # "call",
         NEW f \in Destinations(r)
  PROVE  \E d \in Rank : /\ f = RankId[Call(r).final][d]
                         /\ Owes(script, r, d, round[r])
<1>1. PICK q \in Members(Call(r).initial), d \in Members(Call(r).final) :
        /\ RankId[Call(r).initial][q] = InitialId(r)
        /\ RankId[Call(r).final][d] = f
        /\ <<InitialId(r), f>> \in Call(r).plan
  BY CurrentCall DEF Destinations, IsCall, CallRecord, Pairs
<1>2. q = r
  BY <1>1, CurrentCall, RankIdInjective DEF InitialId, IsCall, CallRecord
<1>3. d \in Rank /\ q \in Rank
  BY DEF Members
<1>4. QED
  BY <1>1, <1>2, <1>3, CurrentCall DEF Owes, Uses, InitialId, IsCall, CallRecord

\* A source is the initial rank of some process that owes r a piece.
LEMMA SourceOwes ==
  ASSUME TypeOK, RoundInv, NEW r \in Rank, pc[r] # "call",
         NEW i \in Sources(r)
  PROVE  \E s \in Rank : /\ i = RankId[Call(r).initial][s]
                         /\ Owes(script, s, r, round[r])
<1>1. PICK s \in Members(Call(r).initial), q \in Members(Call(r).final) :
        /\ RankId[Call(r).initial][s] = i
        /\ RankId[Call(r).final][q] = FinalId(r)
        /\ <<i, FinalId(r)>> \in Call(r).plan
  BY CurrentCall DEF Sources, IsCall, CallRecord, Pairs
<1>2. q = r
  BY <1>1, CurrentCall, RankIdInjective DEF FinalId, IsCall, CallRecord
<1>3. s \in Rank /\ q \in Rank
  BY DEF Members
<1>4. QED
  BY <1>1, <1>2, <1>3, CurrentCall DEF Owes, Uses, FinalId, IsCall, CallRecord

\* The converse, and the sets that count them are finite.
LEMMA OwedIsCounted ==
  ASSUME TypeOK, RoundInv, NEW r \in Rank, pc[r] # "call"
  PROVE  /\ \A s \in Rank : Owes(script, s, r, round[r])
                              => RankId[Call(r).initial][s] \in Sources(r)
         /\ \A d \in Rank : Owes(script, r, d, round[r])
                              => RankId[Call(r).final][d] \in Destinations(r)
         /\ KeepsData(r) <=> InitialId(r) \in Sources(r)
         /\ KeepsData(r) <=> Owes(script, r, r, round[r])
         /\ IsFiniteSet(Sources(r))
<1>1. \A s, d \in Rank : Owes(script, s, d, round[r])
        => <<RankId[Call(r).initial][s], RankId[Call(r).final][d]>> \in Call(r).plan
  BY DEF Owes, Call
<1>2. ASSUME NEW s \in Rank, Owes(script, s, r, round[r])
      PROVE  RankId[Call(r).initial][s] \in Sources(r)
  <2>1. <<RankId[Call(r).initial][s], FinalId(r)>> \in
          {x \in Call(r).plan : x[2] = FinalId(r)}
    BY <1>1, <1>2 DEF FinalId
  <2>2. QED
    BY <2>1 DEF Sources
<1>3. ASSUME NEW d \in Rank, Owes(script, r, d, round[r])
      PROVE  RankId[Call(r).final][d] \in Destinations(r)
  <2>1. <<InitialId(r), RankId[Call(r).final][d]>> \in
          {x \in Call(r).plan : x[1] = InitialId(r)}
    BY <1>1, <1>3 DEF InitialId
  <2>2. QED
    BY <2>1 DEF Destinations
<1>4. KeepsData(r) <=> <<InitialId(r), FinalId(r)>> \in Call(r).plan
  BY CurrentCall DEF KeepsData, Destinations, IsCall, CallRecord
<1>5. InitialId(r) \in Sources(r) <=> <<InitialId(r), FinalId(r)>> \in Call(r).plan
  BY CurrentCall DEF Sources, IsCall, CallRecord
<1>6. ASSUME KeepsData(r) PROVE Owes(script, r, r, round[r])
  <2>1. PICK d \in Rank : /\ FinalId(r) = RankId[Call(r).final][d]
                          /\ Owes(script, r, d, round[r])
    BY <1>6, DestinationIsOwed DEF KeepsData
  <2>2. d \in Members(Call(r).final)
    BY <2>1 DEF Owes, Call
  <2>3. d = r
    BY <2>1, <2>2, CurrentCall, RankIdInjective DEF FinalId, IsCall, CallRecord
  <2>4. QED
    BY <2>1, <2>3
<1>7. ASSUME Owes(script, r, r, round[r]) PROVE KeepsData(r)
  BY <1>3, <1>7 DEF KeepsData, FinalId
<1>8. IsFiniteSet(Sources(r))
  <2>1. Sources(r) \in SUBSET {RankId[Call(r).initial][q] : q \in Members(Call(r).initial)}
    BY CurrentCall DEF Sources, IsCall, CallRecord, Pairs
  <2>2. Call(r).initial \in Comm
    BY CurrentCall DEF IsCall, CallRecord
  <2>3. QED
    BY <2>1, <2>2, FinitelyManyIds, FS_Subset
<1>9. QED
  BY <1>2, <1>3, <1>4, <1>5, <1>6, <1>7, <1>8

\* The rank maps are those of the three communicators.
LEMMA RankMaps ==
  ASSUME TypeOK, RoundInv, InfoInv, NEW r \in Rank, Exchanging(r)
  PROVE  /\ \A q \in Members(Call(r).final) :
              get_inter_comm_rank(r, RankId[Call(r).final][q]) = RankId[Inter(r)][q]
         /\ \A q \in Members(Inter(r)) :
              get_initial_comm_rank(r, RankId[Inter(r)][q]) = RankId[Call(r).initial][q]
<1> DEFINE C(q) == Contributed(script, q, round[r])
<1>1. pc[r] # "call"
  BY DEF Exchanging
<1>2. info[r] = {C(q) : q \in Members(Inter(r))}
  BY DEF InfoInv
<1>3. \A q \in Rank : /\ C(q).inter = RankId[Inter(r)][q]
                      /\ C(q).first = RankId[Call(r).initial][q]
                      /\ C(q).second = RankId[Call(r).final][q]
  BY DEF Contributed, Inter, Call
<1>4. ASSUME NEW q \in Members(Call(r).final)
      PROVE  get_inter_comm_rank(r, RankId[Call(r).final][q]) = RankId[Inter(r)][q]
  <2>1. C(q) \in info[r] /\ C(q).second = RankId[Call(r).final][q]
    BY <1>1, <1>2, <1>3, CurrentCall DEF Members
  <2>2. ASSUME NEW p \in info[r], p.second = RankId[Call(r).final][q]
        PROVE  p = C(q)
    <3>1. PICK s \in Members(Inter(r)) : p = C(s)
      BY <1>2
    <3>2. s = q
      BY <1>1, <1>3, <2>2, <3>1, CurrentCall, RankIdInjective DEF IsCall, CallRecord, Members
    <3>3. QED
      BY <3>1, <3>2
  <2>3. (CHOOSE p \in info[r] : p.second = RankId[Call(r).final][q]) = C(q)
    BY <2>1, <2>2
  <2>4. QED
    BY <1>3, <2>3 DEF get_inter_comm_rank, Members
<1>5. ASSUME NEW q \in Members(Inter(r))
      PROVE  get_initial_comm_rank(r, RankId[Inter(r)][q]) = RankId[Call(r).initial][q]
  <2>1. C(q) \in info[r] /\ C(q).inter = RankId[Inter(r)][q]
    BY <1>1, <1>2, <1>3 DEF Members
  <2>2. ASSUME NEW p \in info[r], p.inter = RankId[Inter(r)][q]
        PROVE  p = C(q)
    <3>1. PICK s \in Members(Inter(r)) : p = C(s)
      BY <1>2
    <3>2. s = q
      BY <1>1, <1>3, <2>2, <3>1, CurrentCall, RankIdInjective DEF Members
    <3>3. QED
      BY <3>1, <3>2
  <2>3. (CHOOSE p \in info[r] : p.inter = RankId[Inter(r)][q]) = C(q)
    BY <2>1, <2>2
  <2>4. QED
    BY <1>3, <2>3 DEF get_initial_comm_rank, Members
<1>6. QED
  BY <1>4, <1>5

\* What async_send puts into the network: a message to a process that is owed
\* a piece, addressed by its rank in the inter-communicator.
LEMMA WhatIsSent ==
  ASSUME TypeOK, RoundInv, InfoInv, UnsentInv,
         NEW r \in Rank, Exchanging(r), NEW f \in unsent[r]
  PROVE  \E d \in Rank : /\ f = RankId[Call(r).final][d]
                         /\ d # r
                         /\ Owes(script, r, d, round[r])
                         /\ get_inter_comm_rank(r, f) = RankId[Inter(r)][d]
<1>1. pc[r] # "call"
  BY DEF Exchanging
<1>2. f \in Destinations(r) /\ f # FinalId(r)
  BY DEF UnsentInv
<1>3. PICK d \in Rank : /\ f = RankId[Call(r).final][d]
                        /\ Owes(script, r, d, round[r])
  BY <1>1, <1>2, DestinationIsOwed
<1>4. d # r /\ d \in Members(Call(r).final)
  BY <1>2, <1>3 DEF FinalId, Owes, Call
<1>5. QED
  BY <1>3, <1>4, RankMaps

\* What MPI_Probe finds: a message of the shuffle in progress, of a sender
\* that the rank map knows by its initial rank.
LEMMA WhatIsFound ==
  ASSUME TypeOK, RoundInv, InfoInv, NetworkInv,
         NEW r \in Rank, Exchanging(r), NEW m \in network, Probed(r, m)
  PROVE  /\ InFlight(m, r)
         /\ get_initial_comm_rank(r, m.from) = RankId[Call(r).initial][m.data.sender]
<1>1. pc[r] # "call"
  BY DEF Exchanging
<1>2. PICK d \in Rank : InFlight(m, d)
  BY DEF NetworkInv
<1>3. d = r
  BY <1>1, <1>2, CurrentCall, RankIdInjective DEF InFlight, Probed
<1>4. m.data.round = round[r] /\ m.data.sender \in Members(Call(r).initial)
  BY <1>2, <1>3 DEF InFlight, Owes, Call
<1>5. m.from = RankId[Inter(r)][m.data.sender] /\ m.data.sender \in Members(Inter(r))
  BY <1>1, <1>2, <1>3, <1>4, CurrentCall DEF InFlight, Probed
<1>6. QED
  BY <1>2, <1>3, <1>5, RankMaps

-----------------------------------------------------------------------------
LEMMA TypeStep ==
  ASSUME TypeOK, RoundInv, InfoInv, UnsentInv, NetworkInv, [Next]_vars
  PROVE  TypeOK'
<1> USE DEF TypeOK
<1>0. CASE UNCHANGED vars
  BY <1>0 DEF vars
<1>1. ASSUME NEW r \in Rank, ReturnImmediately(r) PROVE TypeOK'
  <2>1. round[r] \in 1..Len(script)
    BY <1>1, ScriptAssumption DEF ReturnImmediately
  <2>2. InitialId(r) \in Int
    BY <2>1, CallOfScript, RankIdType DEF InitialId, Call, IsCall, CallRecord
  <2>3. (IF KeepsData(r) THEN {[source |-> InitialId(r), data |-> Piece(r, round[r])]} ELSE {})
          \in SUBSET Received
    BY <2>2 DEF Received, Piece
  <2>4. results' \in [Rank -> Seq(SUBSET Received)]
    BY <1>1, <2>3 DEF ReturnImmediately
  <2>5. QED
    BY <1>1, <2>4 DEF ReturnImmediately
<1>2. ASSUME NEW r \in Rank, EnterAllgather(r) PROVE TypeOK'
  <2>1. round[r] \in 1..Len(script) /\ ~IsLocal(Call(r), r)
    BY <1>2, ScriptAssumption DEF EnterAllgather
  <2>2. Inter(r) \in Comm /\ r \in Members(Inter(r))
    BY <2>1, ParticipantsAreMembers DEF Inter, Call
  <2>3. /\ InitialId(r) \in Int /\ FinalId(r) \in Int
        /\ RankId[Inter(r)][r] \in Nat
    <3>1. InitialId(r) \in Int /\ FinalId(r) \in Int
      BY <2>1, CallOfScript, RankIdType DEF InitialId, FinalId, Call, IsCall, CallRecord
    <3>2. RankId[Inter(r)][r] \in Nat
      BY <2>2, RankAssumption DEF Members
    <3>3. QED
      BY <3>1, <3>2
  <2>4. gathered' \subseteq Contribution
    BY <1>2, <2>2, <2>3 DEF EnterAllgather, Contribution
  <2>5. calls' \in [Rank -> [Comm -> Nat]]
    BY <1>2, <2>2 DEF EnterAllgather
  <2>6. QED
    BY <1>2, <2>1, <2>4, <2>5 DEF EnterAllgather
<1>3. ASSUME NEW r \in Rank, LeaveAllgather(r) PROVE TypeOK'
  <2>1. pc[r] # "call"
    BY <1>3 DEF LeaveAllgather
  <2>2. Contributions(r) \subseteq Contribution
    BY DEF Contributions
  <2>3. Destinations(r) \ {FinalId(r)} \subseteq Int
    BY <2>1, CurrentCall DEF Destinations, IsCall, CallRecord
  <2>4. Cardinality(Sources(r)) \in Nat
    BY <2>1, OwedIsCounted, FS_CardinalityType
  <2>5. expected' \in [Rank -> Int]
    BY <1>3, <2>4 DEF LeaveAllgather
  <2>6. QED
    BY <1>3, <2>2, <2>3, <2>5 DEF LeaveAllgather
<1>4. ASSUME NEW r \in Rank, Isend(r) PROVE TypeOK'
  <2>1. pc[r] # "call" /\ Exchanging(r)
    BY <1>4 DEF Isend, Exchanging
  <2>2. PICK f \in unsent[r], eager \in EagerModes :
          LET m == [comm |-> Inter(r), from |-> RankId[Inter(r)][r],
                    to |-> get_inter_comm_rank(r, f),
                    data |-> Piece(r, round[r]), eager |-> eager]
          IN /\ network' = network \cup {m}
             /\ requests' = [requests EXCEPT ![r] = @ \cup {m}]
             /\ unsent' = [unsent EXCEPT ![r] = @ \ {f}]
    BY <1>4 DEF Isend
  <2>3. Inter(r) \in Comm /\ RankId[Inter(r)][r] \in Int
    BY <2>1, CurrentCall, RankIdType
  <2>4. get_inter_comm_rank(r, f) \in Int
    <3>1. PICK d \in Rank : get_inter_comm_rank(r, f) = RankId[Inter(r)][d]
      BY <2>1, WhatIsSent
    <3>2. QED
      BY <2>3, <3>1, RankIdType
  <2>5. [comm |-> Inter(r), from |-> RankId[Inter(r)][r], to |-> get_inter_comm_rank(r, f),
         data |-> Piece(r, round[r]), eager |-> eager] \in Message
    BY <2>3, <2>4, SendAssumption DEF Message, Piece
  <2>6. network' \subseteq Message /\ requests' \in [Rank -> SUBSET Message]
    BY <2>2, <2>5
  <2>7. unsent' \in [Rank -> SUBSET Int]
    BY <2>2
  <2>8. pc' \in [Rank -> {"call", "allgather", "send", "wait", "receive"}]
    BY <1>4 DEF Isend
  <2>9. QED
    BY <1>4, <2>6, <2>7, <2>8 DEF Isend
<1>5. ASSUME NEW r \in Rank, WaitSerialized(r) PROVE TypeOK'
  BY <1>5 DEF WaitSerialized
<1>6. ASSUME NEW r \in Rank, CopyOwn(r) PROVE TypeOK'
  <2>1. Exchanging(r) /\ pc[r] # "call"
    BY <1>6 DEF CopyOwn, Exchanging
  <2>2. get_initial_comm_rank(r, RankId[Inter(r)][r]) \in Int
    <3>1. get_initial_comm_rank(r, RankId[Inter(r)][r]) = RankId[Call(r).initial][r]
      BY <2>1, CurrentCall, RankMaps
    <3>2. Call(r).initial \in Comm
      BY <2>1, CurrentCall DEF IsCall, CallRecord
    <3>3. QED
      BY <3>1, <3>2, RankIdType
  <2>3. received' \in [Rank -> SUBSET Received]
    BY <1>6, <2>2 DEF CopyOwn, Received, Piece
  <2>4. QED
    BY <1>6, <2>1, <2>3 DEF CopyOwn
<1>7. ASSUME NEW r \in Rank, Receive(r) PROVE TypeOK'
  <2>1. Exchanging(r) /\ pc[r] # "call"
    BY <1>7 DEF Receive, Exchanging
  <2>2. PICK m \in network :
          /\ Probed(r, m)
          /\ received' = [received EXCEPT
                            ![r] = @ \cup {[source |-> get_initial_comm_rank(r, m.from),
                                            data |-> m.data]}]
          /\ network' = network \ {m}
    BY <1>7 DEF Receive
  <2>3. get_initial_comm_rank(r, m.from) \in Int
    <3>1. m.data.sender \in Rank
      BY DEF Message
    <3>2. Call(r).initial \in Comm
      BY <2>1, CurrentCall DEF IsCall, CallRecord
    <3>3. QED
      BY <2>1, <2>2, <3>1, <3>2, WhatIsFound, RankIdType
  <2>4. received' \in [Rank -> SUBSET Received]
    BY <2>2, <2>3 DEF Received, Message
  <2>5. QED
    BY <1>7, <2>1, <2>2, <2>4 DEF Receive
<1>8. ASSUME NEW r \in Rank, Waitall(r) PROVE TypeOK'
  <2>1. results' \in [Rank -> Seq(SUBSET Received)]
    BY <1>8 DEF Waitall
  <2>2. QED
    BY <1>8, <2>1 DEF Waitall
<1>9. QED
  BY <1>0, <1>1, <1>2, <1>3, <1>4, <1>5, <1>6, <1>7, <1>8 DEF Next, Step, Terminating

-----------------------------------------------------------------------------
\* A step moves one process, and that one at most one call further.
LEMMA EnteredStep ==
  ASSUME TypeOK, RoundInv, [Next]_vars
  PROVE  /\ script' = script
         /\ \A q \in Rank : /\ Entered(q) \in Nat
                            /\ Entered(q)' \in Nat
                            /\ Entered(q) <= Entered(q)'
                            /\ Entered(q) # Entered(q)' =>
                                 /\ ReturnImmediately(q) \/ EnterAllgather(q)
                                 /\ Entered(q) = round[q] - 1
                                 /\ Entered(q)' = round[q]
         /\ \A q \in Rank, k \in Int : Past(q, k) => Past(q, k)'
         /\ \A q \in Rank, k \in Int :
              Past(q, k)' => \/ Past(q, k)
                             \/ k = round[q] /\ (LeaveAllgather(q) \/ ReturnImmediately(q))
<1> USE DEF TypeOK, Entered, Past, Exchanging
<1>0. CASE UNCHANGED vars
  BY <1>0 DEF vars
<1>1. CASE \E r \in Rank : ReturnImmediately(r)
  <2>1. PICK r \in Rank : ReturnImmediately(r)
    BY <1>1
  <2>2. /\ script' = script /\ pc' = pc /\ pc[r] = "call"
        /\ round'[r] = round[r] + 1 /\ round[r] \in Nat
        /\ \A q \in Rank : q # r => round'[q] = round[q]
    BY <2>1 DEF ReturnImmediately
  <2>3. /\ Entered(r) = round[r] - 1 /\ Entered(r)' = round[r]
        /\ \A q \in Rank : Entered(q) \in Nat
        /\ \A q \in Rank : q # r => Entered(q)' = Entered(q)
    BY <2>2
  <2>4. \A k \in Int : Past(r, k)' <=> Past(r, k) \/ k = round[r]
    BY <2>2
  <2>5. \A q \in Rank, k \in Int : q # r => (Past(q, k)' <=> Past(q, k))
    BY <2>2
  <2>6. QED
    <3> HIDE DEF Past, Entered
    <3> QED BY <2>1, <2>2, <2>3, <2>4, <2>5
<1>2. CASE \E r \in Rank : EnterAllgather(r)
  <2>1. PICK r \in Rank : EnterAllgather(r)
    BY <1>2
  <2>2. /\ script' = script /\ round' = round /\ pc[r] = "call" /\ pc'[r] = "allgather"
        /\ \A q \in Rank : q # r => pc'[q] = pc[q]
    BY <2>1 DEF EnterAllgather
  <2>3. QED
    BY <2>1, <2>2
<1>3. CASE \E r \in Rank : LeaveAllgather(r)
  <2>1. PICK r \in Rank : LeaveAllgather(r)
    BY <1>3
  <2>2. /\ script' = script /\ round' = round /\ pc[r] = "allgather" /\ pc'[r] = "send"
        /\ \A q \in Rank : q # r => pc'[q] = pc[q]
    BY <2>1 DEF LeaveAllgather
  <2>3. QED
    BY <2>1, <2>2
<1>4. CASE \E r \in Rank : Isend(r)
  BY <1>4 DEF Isend
<1>5. CASE \E r \in Rank : WaitSerialized(r)
  BY <1>5 DEF WaitSerialized
<1>6. CASE \E r \in Rank : CopyOwn(r)
  BY <1>6 DEF CopyOwn
<1>7. CASE \E r \in Rank : Receive(r)
  BY <1>7 DEF Receive
<1>8. CASE \E r \in Rank : Waitall(r)
  BY <1>8 DEF Waitall
<1>9. QED
  BY <1>0, <1>1, <1>2, <1>3, <1>4, <1>5, <1>6, <1>7, <1>8 DEF Next, Step, Terminating

LEMMA CallsStep ==
  ASSUME TypeOK, RoundInv, CallsInv, [Next]_vars
  PROVE  CallsInv'
<1>1. ASSUME NEW r \in Rank, ReturnImmediately(r) PROVE CallsInv'
  <2>1. round[r] \in 1..Len(script) /\ pc[r] = "call"
    BY <1>1, ScriptAssumption DEF ReturnImmediately, TypeOK
  <2>2. ASSUME NEW c \in Comm, r \in Members(c) PROVE ~Uses(script, round[r], c)
    BY <1>1, <2>1, <2>2, ParticipantsAreMembers DEF TypeOK, ReturnImmediately, Uses, Call
  <2>3. ASSUME NEW c \in Comm, r \in Members(c)
        PROVE  Nth(script, c, round[r]) = Nth(script, c, round[r] - 1)
    <3>1. round[r] \in Nat \ {0} /\ round[r] - 1 \in Nat
      BY <2>1
    <3>2. ~Uses(script, round[r], c)
      BY <2>2, <2>3
    <3>3. Nth(script, c, round[r] - 1) \in Nat
      BY <3>1, NthType
    <3>4. QED
      BY <3>1, <3>2, <3>3, NthNext
  <2>4. QED
    BY <1>1, <2>1, <2>3 DEF ReturnImmediately, CallsInv, Entered, TypeOK
<1>2. ASSUME NEW r \in Rank, EnterAllgather(r) PROVE CallsInv'
  <2>1. round[r] \in 1..Len(script) /\ pc[r] = "call"
    BY <1>2, ScriptAssumption DEF EnterAllgather, TypeOK
  <2>2. /\ Inter(r) \in Comm
        /\ Uses(script, round[r], Inter(r))
        /\ \A c \in Comm : c # Inter(r) => ~Uses(script, round[r], c)
    BY <1>2, <2>1, ParticipantsAreMembers DEF TypeOK, EnterAllgather, Uses, Call, Inter
  <2>3. ASSUME NEW c \in Comm
        PROVE  Nth(script, c, round[r])
                 = Nth(script, c, round[r] - 1) + (IF c = Inter(r) THEN 1 ELSE 0)
    BY <2>1, <2>2, NthNext, NthType
  <2>4. ASSUME NEW c \in Comm, r \in Members(c)
        PROVE  calls'[r][c] = Nth(script, c, round[r])
    <3>1. calls[r][c] = Nth(script, c, round[r] - 1)
      BY <2>1, <2>4 DEF CallsInv, Entered
    <3>2. Nth(script, c, round[r] - 1) \in Nat
      <4>1. round[r] - 1 \in Nat
        BY <2>1
      <4>2. QED
        BY <4>1, NthType
    <3>3. QED
      BY <1>2, <2>2, <2>3, <3>1, <3>2 DEF EnterAllgather, TypeOK
  <2>5. \A q \in Rank : q # r => calls'[q] = calls[q] /\ Entered(q)' = Entered(q)
    BY <1>2 DEF EnterAllgather, TypeOK, Entered
  <2>6. Entered(r)' = round[r]
    BY <1>2 DEF EnterAllgather, TypeOK, Entered
  <2>7. script' = script
    BY <1>2 DEF EnterAllgather
  <2>8. QED
    BY <2>4, <2>5, <2>6, <2>7 DEF CallsInv
<1>3. CASE \A r \in Rank : ~ReturnImmediately(r) /\ ~EnterAllgather(r)
  <2>1. UNCHANGED calls
    BY <1>3 DEF Next, Step, Terminating, vars, LeaveAllgather, Isend, WaitSerialized,
                CopyOwn, Receive, Waitall
  <2>2. QED
    BY <1>3, <2>1, EnteredStep DEF CallsInv
<1>4. QED
  BY <1>1, <1>2, <1>3

LEMMA GatheredStep ==
  ASSUME TypeOK, RoundInv, CallsInv, GatheredInv, [Next]_vars
  PROVE  GatheredInv'
<1>1. script' = script /\ \A q \in Rank : Entered(q) \in Nat /\ Entered(q) <= Entered(q)'
  BY EnteredStep
<1>2. ASSUME NEW p \in gathered
      PROVE  \E q \in Rank, k \in 1..Len(script) : /\ ~IsLocal(script[k], q)
                                                   /\ k <= Entered(q)'
                                                   /\ p = Contributed(script, q, k)
  <2>1. PICK q \in Rank, k \in 1..Len(script) : /\ ~IsLocal(script[k], q)
                                                /\ k <= Entered(q)
                                                /\ p = Contributed(script, q, k)
    BY <1>2 DEF GatheredInv
  <2>2. k <= Entered(q)'
    <3>1. k \in Int /\ Entered(q) \in Int /\ Entered(q)' \in Int
      BY EnteredStep
    <3>2. QED
      BY <1>1, <2>1, <3>1
  <2>3. QED
    BY <2>1, <2>2
<1>3. ASSUME NEW r \in Rank, EnterAllgather(r) PROVE GatheredInv'
  <2>1. round[r] \in 1..Len(script) /\ pc[r] = "call" /\ ~IsLocal(script[round[r]], r)
    BY <1>3, ScriptAssumption DEF EnterAllgather, TypeOK, Call
  <2>2. Inter(r) \in Comm /\ r \in Members(Inter(r)) /\ Uses(script, round[r], Inter(r))
    BY <2>1, ParticipantsAreMembers DEF TypeOK, Inter, Call
  <2>3. calls[r][Inter(r)] + 1 = Nth(script, Inter(r), round[r])
    <3>1. calls[r][Inter(r)] = Nth(script, Inter(r), round[r] - 1)
      BY <2>1, <2>2 DEF CallsInv, Entered
    <3>2. QED
      BY <2>1, <2>2, <3>1, NthNext, NthType
  <2>4. gathered' = gathered \cup {Contributed(script, r, round[r])}
    BY <1>3, <2>3 DEF EnterAllgather, Contributed, Inter, Call, InitialId, FinalId
  <2>5. Entered(r)' = round[r]
    BY <1>3 DEF EnterAllgather, TypeOK, Entered
  <2>6. QED
    BY <1>1, <1>2, <2>1, <2>4, <2>5 DEF GatheredInv, TypeOK
<1>4. CASE \A r \in Rank : ~EnterAllgather(r)
  <2>1. UNCHANGED gathered
    BY <1>4 DEF Next, Step, Terminating, vars, ReturnImmediately, LeaveAllgather, Isend,
                WaitSerialized, CopyOwn, Receive, Waitall
  <2>2. QED
    BY <1>1, <1>2, <2>1 DEF GatheredInv
<1>5. QED
  BY <1>3, <1>4

-----------------------------------------------------------------------------
\* When MPI_Allgather returns, it holds the contributions of the members to
\* this call and nothing else, and every member has entered the call.
LEMMA GatherComplete ==
  ASSUME TypeOK, RoundInv, CallsInv, GatheredInv, NEW r \in Rank, LeaveAllgather(r)
  PROVE  /\ Contributions(r) = {Contributed(script, q, round[r]) : q \in Members(Inter(r))}
         /\ \A q \in Members(Inter(r)) : round[r] <= Entered(q)
<1> DEFINE c == Inter(r)
           k == round[r]
<1>1. pc[r] = "allgather" /\ pc[r] # "call"
  BY DEF LeaveAllgather
<1>2. /\ script \in Scripts /\ k \in 1..Len(script) /\ c \in Comm
      /\ r \in Members(c) /\ Uses(script, k, c)
  BY <1>1, CurrentCall
<1>3. calls[r][c] = Nth(script, c, k)
  BY <1>1, <1>2 DEF CallsInv, Entered
<1>4. ASSUME NEW p \in Contributions(r)
      PROVE  \E q \in Members(c) : p = Contributed(script, q, k) /\ k <= Entered(q)
  <2>1. p \in gathered /\ p.comm = c /\ p.call = Nth(script, c, k)
    BY <1>3 DEF Contributions
  <2>2. PICK q \in Rank, j \in 1..Len(script) : /\ ~IsLocal(script[j], q)
                                                /\ j <= Entered(q)
                                                /\ p = Contributed(script, q, j)
    BY <2>1 DEF GatheredInv
  <2>3. InterComm(script[j]) = c /\ Nth(script, c, j) = Nth(script, c, k)
    BY <2>1, <2>2 DEF Contributed
  <2>4. Uses(script, j, c) /\ q \in Members(c)
    BY <1>2, <2>2, <2>3, ParticipantsAreMembers
  <2>5. j \in Nat /\ k \in Nat
    BY <1>2
  <2>6. j = k
    BY <1>2, <2>3, <2>4, <2>5, NthInjective
  <2>7. QED
    BY <2>2, <2>4, <2>6
<1>5. ASSUME NEW q \in Members(c)
      PROVE  Contributed(script, q, k) \in Contributions(r) /\ k <= Entered(q)
  <2>1. PICK p \in Contributions(r) : p.inter = RankId[c][q]
    BY <1>5 DEF LeaveAllgather
  <2>2. PICK s \in Members(c) : p = Contributed(script, s, k) /\ k <= Entered(s)
    BY <1>4
  <2>3. InterComm(script[k]) = c
    BY <1>2 DEF Uses
  <2>4. RankId[c][s] = RankId[c][q]
    BY <2>1, <2>2, <2>3 DEF Contributed
  <2>5. s = q
    BY <1>2, <2>4, RankIdInjective DEF Members
  <2>6. QED
    BY <2>1, <2>2, <2>5
<1>6. QED
  BY <1>4, <1>5

LEMMA InfoStep ==
  ASSUME TypeOK, RoundInv, CallsInv, GatheredInv, InfoInv, [Next]_vars
  PROVE  InfoInv'
<1> DEFINE Kept(q) == Exchanging(q)' => /\ Exchanging(q)
                                        /\ round'[q] = round[q]
                                        /\ info'[q] = info[q]
<1>1. script' = script
  BY EnteredStep
<1>2. ASSUME NEW q \in Rank, Kept(q), Exchanging(q)'
      PROVE  info'[q] = {Contributed(script', p, round'[q]) : p \in Members(Inter(q)')}
  BY <1>1, <1>2 DEF InfoInv, Inter, Call, Contributed
<1>3. ASSUME NEW r \in Rank, LeaveAllgather(r) PROVE InfoInv'
  <2>1. info'[r] = {Contributed(script, q, round[r]) : q \in Members(Inter(r))}
    BY <1>3, GatherComplete DEF LeaveAllgather, TypeOK
  <2>2. round' = round /\ Inter(r)' = Inter(r)
    BY <1>3 DEF LeaveAllgather, Inter, Call
  <2>3. info'[r] = {Contributed(script', q, round'[r]) : q \in Members(Inter(r)')}
    BY <1>1, <2>1, <2>2 DEF Contributed
  <2>4. \A q \in Rank : q # r => Kept(q)
    BY <1>3 DEF LeaveAllgather, TypeOK, Exchanging
  <2>5. QED
    <3> HIDE DEF Kept
    <3> QED BY <1>2, <2>3, <2>4 DEF InfoInv
<1>4. CASE \A r \in Rank : ~LeaveAllgather(r)
  <2>1. ASSUME NEW q \in Rank PROVE Kept(q)
    BY <1>4, <2>1 DEF Next, Step, Terminating, vars, ReturnImmediately, EnterAllgather, Isend,
                WaitSerialized, CopyOwn, Receive, Waitall, TypeOK, Exchanging
  <2>2. QED
    <3> HIDE DEF Kept
    <3> QED BY <1>2, <2>1 DEF InfoInv
<1>5. QED
  BY <1>3, <1>4

LEMMA BarrierStep ==
  ASSUME TypeOK, RoundInv, CallsInv, GatheredInv, BarrierInv, [Next]_vars
  PROVE  BarrierInv'
<1>1. SUFFICES ASSUME NEW q \in Rank, NEW r \in Rank, NEW k \in 1..Len(script),
                      ~IsLocal(script[k], q), ~IsLocal(script[k], r), Past(r, k)'
               PROVE  k <= Entered(q)
  <2>1. /\ script' = script
        /\ \A p \in Rank : /\ Entered(p) \in Nat /\ Entered(p)' \in Nat
                           /\ Entered(p) <= Entered(p)'
    BY EnteredStep
  <2>2. QED
    BY <2>1 DEF BarrierInv
<1>2. CASE Past(r, k)
  BY <1>1, <1>2 DEF BarrierInv
<1>3. CASE ~Past(r, k)
  <2>1. k = round[r] /\ (LeaveAllgather(r) \/ ReturnImmediately(r))
    BY <1>1, <1>3, EnteredStep
  <2>2. ~ReturnImmediately(r)
    BY <1>1, <2>1 DEF ReturnImmediately, Call
  <2>3. q \in Members(Inter(r))
    BY <1>1, <2>1, ParticipantsAreMembers DEF Inter, Call, TypeOK
  <2>4. QED
    BY <2>1, <2>2, <2>3, GatherComplete
<1>4. QED
  BY <1>2, <1>3

LEMMA UnsentStep ==
  ASSUME TypeOK, RoundInv, UnsentInv, [Next]_vars
  PROVE  UnsentInv'
<1> DEFINE Kept(q) == Exchanging(q)' => /\ Exchanging(q)
                                        /\ round'[q] = round[q]
                                        /\ unsent'[q] \subseteq unsent[q]
                                        /\ pc'[q] = "receive" =>
                                             pc[q] = "receive" \/ unsent'[q] = {}
<1>1. script' = script
  BY EnteredStep
<1>2. ASSUME NEW q \in Rank, Kept(q), Exchanging(q)'
      PROVE  /\ unsent'[q] \subseteq Destinations(q)' \ {FinalId(q)'}
             /\ pc'[q] = "receive" => unsent'[q] = {}
  <2>1. Destinations(q)' = Destinations(q) /\ FinalId(q)' = FinalId(q)
    BY <1>1, <1>2 DEF Destinations, FinalId, InitialId, Call
  <2>2. QED
    BY <1>2, <2>1 DEF UnsentInv
<1>3. ASSUME NEW r \in Rank, LeaveAllgather(r) PROVE UnsentInv'
  <2>1. /\ Destinations(r)' = Destinations(r) /\ FinalId(r)' = FinalId(r)
        /\ unsent'[r] = Destinations(r) \ {FinalId(r)}
        /\ pc'[r] = "send"
    BY <1>3 DEF LeaveAllgather, Destinations, FinalId, InitialId, Call, TypeOK
  <2>2. \A q \in Rank : q # r => Kept(q)
    BY <1>3 DEF LeaveAllgather, TypeOK, Exchanging
  <2>3. QED
    <3> HIDE DEF Kept
    <3> QED BY <1>2, <2>1, <2>2 DEF UnsentInv
<1>4. CASE \A r \in Rank : ~LeaveAllgather(r)
  <2>1. ASSUME NEW q \in Rank PROVE Kept(q)
    <3>1. CASE \E r \in Rank : Isend(r)
      BY <3>1 DEF Isend, TypeOK, Exchanging
    <3>2. CASE \A r \in Rank : ~Isend(r)
      BY <1>4, <2>1, <3>2 DEF Next, Step, Terminating, vars, ReturnImmediately,
         EnterAllgather, WaitSerialized, CopyOwn, Receive, Waitall, TypeOK, Exchanging
    <3>3. QED
      BY <3>1, <3>2
  <2>2. QED
    <3> HIDE DEF Kept
    <3> QED BY <1>2, <2>1 DEF UnsentInv
<1>5. QED
  BY <1>3, <1>4

-----------------------------------------------------------------------------
\* A process leaves a call by returning from it, and for the next one.
LEMMA RoundChange ==
  ASSUME TypeOK, [Next]_vars, NEW d \in Rank
  PROVE  /\ round[d] \in Nat /\ round[d] <= round'[d]
         /\ round'[d] # round[d] => /\ ReturnImmediately(d) \/ Waitall(d)
                                    /\ round'[d] = round[d] + 1
<1>0. round \in [Rank -> Nat \ {0}]
  BY DEF TypeOK
<1>1. ASSUME NEW r \in Rank, ReturnImmediately(r) \/ Waitall(r)
      PROVE  /\ round'[d] # round[d] => d = r
             /\ round'[r] = round[r] + 1
  BY <1>0, <1>1 DEF ReturnImmediately, Waitall
<1>2. CASE \A r \in Rank : ~ReturnImmediately(r) /\ ~Waitall(r)
  <2>1. UNCHANGED round
    BY <1>2 DEF Next, Step, Terminating, vars, LeaveAllgather, EnterAllgather, Isend,
       WaitSerialized, CopyOwn, Receive
  <2>2. QED
    BY <1>0, <2>1
<1>3. QED
  BY <1>0, <1>1, <1>2

\* Whoever has sent a message has sent it for good.
LEMMA HasSentStep ==
  ASSUME TypeOK, RoundInv, [Next]_vars,
         NEW s \in Rank, NEW d \in Rank, NEW k \in Int, HasSent(s, d, k)
  PROVE  HasSent(s, d, k)'
<1>1. script' = script /\ Past(s, k) /\ Past(s, k)'
  BY EnteredStep DEF HasSent
<1>2. round[s] \in Nat /\ round[s] <= round'[s]
  BY RoundChange
<1>3. ASSUME k = round'[s] PROVE k = round[s] /\ Exchanging(s)
  BY <1>1, <1>2, <1>3 DEF Past
<1>4. ASSUME Exchanging(s) PROVE unsent'[s] \subseteq unsent[s]
  <2>1. CASE \E r \in Rank : Isend(r)
    BY <2>1 DEF Isend, TypeOK
  <2>2. CASE \A r \in Rank : ~Isend(r)
    BY <1>4, <2>2 DEF Next, Step, Terminating, vars, ReturnImmediately, LeaveAllgather,
       EnterAllgather, WaitSerialized, CopyOwn, Receive, Waitall, TypeOK, Exchanging
  <2>3. QED
    BY <2>1, <2>2
<1>5. QED
  BY <1>1, <1>3, <1>4 DEF HasSent

\* When the receive loop and MPI_Waitall are over, every piece has arrived.
LEMMA NothingMissing ==
  ASSUME TypeOK, RoundInv, ExpectedInv, NEW r \in Rank, Waitall(r)
  PROVE  Sources(r) \subseteq SourcesSeen(r)
<1> DEFINE M == Sources(r) \ SourcesSeen(r)
<1>1. pc[r] = "receive" /\ expected[r] <= 0 /\ Exchanging(r)
  BY DEF Waitall, Exchanging
<1>2. expected[r] = Cardinality(M)
  BY <1>1 DEF ExpectedInv
<1>3. IsFiniteSet(M)
  BY <1>1, OwedIsCounted, FS_Subset
<1>4. M = {}
  <2> HIDE DEF M
  <2> QED BY <1>1, <1>2, <1>3, FS_EmptySet, FS_CardinalityType
<1>5. QED
  BY <1>4

\* Who owes or is owed a piece takes part in the call.
LEMMA OwingTakesPart ==
  ASSUME NEW sc \in Scripts, NEW s \in Rank, NEW d \in Rank, NEW k \in Int,
         Owes(sc, s, d, k)
  PROVE  /\ k \in 1..Len(sc)
         /\ ~IsLocal(sc[k], s)
         /\ ~IsLocal(sc[k], d)
  BY DEF Owes, IsLocal

LEMMA FinishedStep ==
  ASSUME TypeOK, RoundInv, FinishedInv, ReceivedInv, ExpectedInv, [Next]_vars
  PROVE  FinishedInv'
<1>1. script' = script
  BY EnteredStep
<1>2. SUFFICES ASSUME NEW s \in Rank, NEW d \in Rank, NEW k \in 1..Len(script),
                      Owes(script, s, d, k), k < round'[d]
               PROVE  HasSent(s, d, k)'
  BY <1>1 DEF FinishedInv
<1>3. CASE k < round[d]
  BY <1>2, <1>3, HasSentStep DEF FinishedInv
<1>4. CASE ~(k < round[d])
  <2>1. (ReturnImmediately(d) \/ Waitall(d)) /\ k = round[d]
    <3>1. /\ round[d] \in Nat /\ k \in Int /\ k < round'[d]
          /\ round'[d] # round[d] => /\ ReturnImmediately(d) \/ Waitall(d)
                                     /\ round'[d] = round[d] + 1
      BY <1>2, RoundChange
    <3>2. QED
      BY <1>4, <3>1
  <2>2. ~ReturnImmediately(d)
    BY <1>2, <2>1, OwingTakesPart DEF ReturnImmediately, Call, TypeOK
  <2>3. Waitall(d) /\ Exchanging(d) /\ pc[d] # "call"
    BY <2>1, <2>2 DEF Waitall, Exchanging
  <2>4. RankId[Call(d).initial][s] \in SourcesSeen(d)
    BY <1>2, <2>1, <2>3, OwedIsCounted, NothingMissing
  <2>5. PICK x \in received[d] : x.source = RankId[Call(d).initial][s]
    BY <2>4 DEF SourcesSeen
  <2>6. PICK q \in Rank : /\ x.source = RankId[Call(d).initial][q]
                          /\ HasSent(q, d, round[d])
    BY <2>3, <2>5 DEF ReceivedInv
  <2>7. s \in Members(Call(d).initial) /\ Call(d).initial \in Comm
    BY <1>2, <2>1, <2>3, CurrentCall DEF Owes, Call, IsCall, CallRecord
  <2>8. q = s
    BY <2>5, <2>6, <2>7, RankIdInjective
  <2>9. QED
    BY <2>1, <2>6, <2>8, HasSentStep
<1>5. QED
  BY <1>3, <1>4

-----------------------------------------------------------------------------
\* A message that its sender still has in its loop is not in flight, has not
\* been received, and is addressed to a process that has entered the call and
\* not left it.
LEMMA NotYetSent ==
  ASSUME IInv, NEW r \in Rank, Exchanging(r), NEW d \in Rank,
         Owes(script, r, d, round[r]), RankId[Call(r).final][d] \in unsent[r]
  PROVE  /\ ~HasSent(r, d, round[r])
         /\ round[d] = round[r]
         /\ Exchanging(d) => InitialId(r) \notin SourcesSeen(d)
<1> USE DEF IInv
<1>1. /\ ~HasSent(r, d, round[r]) /\ pc[r] # "call"
      /\ round[r] \in 1..Len(script) /\ Past(r, round[r])
  BY CurrentCall DEF HasSent, Call, Exchanging, Past
<1>2. round[d] = round[r]
  <2>1. ~(round[r] < round[d])
    BY <1>1 DEF FinishedInv
  <2>2. ~IsLocal(script[round[r]], r) /\ ~IsLocal(script[round[r]], d)
    BY <1>1, OwingTakesPart DEF TypeOK
  <2>3. round[r] <= Entered(d)
    BY <1>1, <2>2 DEF BarrierInv
  <2>4. QED
    BY <1>1, <2>1, <2>3 DEF Entered, TypeOK
<1>3. ASSUME Exchanging(d), InitialId(r) \in SourcesSeen(d) PROVE FALSE
  <2>1. PICK x \in received[d] : x.source = InitialId(r)
    BY <1>3 DEF SourcesSeen
  <2>2. PICK s \in Rank : /\ x.source = RankId[Call(d).initial][s]
                          /\ HasSent(s, d, round[d])
    BY <1>3, <2>1 DEF ReceivedInv
  <2>3. Call(d) = Call(r) /\ r \in Members(Call(r).initial) /\ Call(r).initial \in Comm
    BY <1>1, <1>2, CurrentCall DEF Call, Owes, IsCall, CallRecord
  <2>4. s = r
    BY <2>1, <2>2, <2>3, RankIdInjective DEF InitialId
  <2>5. QED
    BY <1>1, <1>2, <2>2, <2>4
<1>4. QED
  BY <1>1, <1>2, <1>3

\* Isend, with its message named and its receiver known.
LEMMA IsendMessage ==
  ASSUME IInv, NEW r \in Rank, Isend(r)
  PROVE  \E d \in Rank, f \in unsent[r], eager \in EagerModes :
           LET m == [comm |-> Inter(r), from |-> RankId[Inter(r)][r],
                     to |-> RankId[Inter(r)][d],
                     data |-> Piece(r, round[r]), eager |-> eager]
           IN /\ f = RankId[Call(r).final][d]
              /\ d # r
              /\ Owes(script, r, d, round[r])
              /\ Exchanging(r)
              /\ network' = network \cup {m}
              /\ unsent' = [unsent EXCEPT ![r] = @ \ {f}]
              /\ Exchanging(r)'
              /\ UNCHANGED <<script, round, received>>
<1>1. Exchanging(r) /\ Exchanging(r)' /\ UNCHANGED <<script, round, received>>
  BY DEF Isend, Exchanging, IInv, TypeOK
<1>2. PICK f \in unsent[r], eager \in EagerModes :
        /\ network' = network \cup {[comm |-> Inter(r), from |-> RankId[Inter(r)][r],
                                     to |-> get_inter_comm_rank(r, f),
                                     data |-> Piece(r, round[r]), eager |-> eager]}
        /\ unsent' = [unsent EXCEPT ![r] = @ \ {f}]
  BY DEF Isend
<1>3. PICK d \in Rank : /\ f = RankId[Call(r).final][d]
                        /\ d # r
                        /\ Owes(script, r, d, round[r])
                        /\ get_inter_comm_rank(r, f) = RankId[Inter(r)][d]
  BY <1>1, WhatIsSent DEF IInv
<1>4. QED
  BY <1>1, <1>2, <1>3

\* Receive, with its message named and its sender known.
LEMMA ReceiveMessage ==
  ASSUME IInv, NEW r \in Rank, Receive(r)
  PROVE  \E m \in network :
           /\ InFlight(m, r)
           /\ m.data = Piece(m.data.sender, round[r])
           /\ m.data.sender \in Rank
           /\ Exchanging(r)
           /\ network' = network \ {m}
           /\ received' = [received EXCEPT
                ![r] = @ \cup {[source |-> RankId[Call(r).initial][m.data.sender],
                                data |-> m.data]}]
           /\ expected' = [expected EXCEPT ![r] = @ - 1]
           /\ UNCHANGED <<script, round, pc, unsent>>
<1>1. Exchanging(r)
  BY DEF Receive, Exchanging
<1>2. PICK m \in network :
        /\ Probed(r, m)
        /\ received' = [received EXCEPT
                          ![r] = @ \cup {[source |-> get_initial_comm_rank(r, m.from),
                                          data |-> m.data]}]
        /\ network' = network \ {m}
  BY DEF Receive
<1>3. /\ InFlight(m, r)
      /\ get_initial_comm_rank(r, m.from) = RankId[Call(r).initial][m.data.sender]
  BY <1>1, <1>2, WhatIsFound DEF IInv
<1>4. m.data.round = round[r]
  BY <1>3 DEF InFlight
<1>5. m.data = Piece(m.data.sender, round[r]) /\ m.data.sender \in Rank
  BY <1>4 DEF IInv, TypeOK, Message, Piece
<1>6. QED
  BY <1>1, <1>2, <1>3, <1>5 DEF Receive

\* What a step adds to the pieces seen by a process in an exchange
LEMMA SeenStep ==
  ASSUME IInv, [Next]_vars, NEW d \in Rank, Exchanging(d)', NEW i \in SourcesSeen(d)'
  PROVE  \/ Exchanging(d) /\ round'[d] = round[d] /\ i \in SourcesSeen(d)
         \/ CopyOwn(d) /\ i = InitialId(d)
         \/ \E m \in network : /\ Receive(d)
                               /\ InFlight(m, d)
                               /\ m.data.sender \in Rank
                               /\ i = RankId[Call(d).initial][m.data.sender]
                               /\ network' = network \ {m}
<1> USE DEF IInv
<1>1. CASE \E r \in Rank : Isend(r)
  BY <1>1 DEF Isend, TypeOK, Exchanging, SourcesSeen
<1>2. ASSUME NEW r \in Rank, Receive(r), r # d
      PROVE  Exchanging(d) /\ round'[d] = round[d] /\ i \in SourcesSeen(d)
  BY <1>2 DEF Receive, TypeOK, Exchanging, SourcesSeen
<1>3. CASE Receive(d)
  <2>1. PICK m \in network :
          /\ InFlight(m, d)
          /\ m.data.sender \in Rank
          /\ Exchanging(d)
          /\ network' = network \ {m}
          /\ received' = [received EXCEPT
               ![d] = @ \cup {[source |-> RankId[Call(d).initial][m.data.sender],
                               data |-> m.data]}]
          /\ UNCHANGED round
    BY <1>3, ReceiveMessage
  <2>2. i \in SourcesSeen(d) \/ i = RankId[Call(d).initial][m.data.sender]
    BY <2>1 DEF SourcesSeen, TypeOK
  <2>3. QED
    BY <1>3, <2>1, <2>2
<1>4. CASE CopyOwn(d)
  <2>1. /\ received'[d] \subseteq received[d] \cup
              {[source |-> get_initial_comm_rank(d, RankId[Inter(d)][d]),
                data |-> Piece(d, round[d])]}
        /\ Exchanging(d) /\ round' = round
    BY <1>4 DEF CopyOwn, TypeOK, Exchanging
  <2>2. get_initial_comm_rank(d, RankId[Inter(d)][d]) = InitialId(d)
    BY <2>1, CurrentCall, RankMaps DEF Exchanging, InitialId
  <2>3. QED
    BY <1>4, <2>1, <2>2 DEF SourcesSeen
<1>5. ASSUME NEW r \in Rank, CopyOwn(r), r # d
      PROVE  Exchanging(d) /\ round'[d] = round[d] /\ i \in SourcesSeen(d)
  BY <1>5 DEF CopyOwn, TypeOK, Exchanging, SourcesSeen
<1>6. ASSUME NEW r \in Rank, LeaveAllgather(r)
      PROVE  Exchanging(d) /\ round'[d] = round[d] /\ i \in SourcesSeen(d)
  <2>1. received'[r] = {} /\ UNCHANGED round /\ (d # r => received'[d] = received[d] /\ pc'[d] = pc[d])
    BY <1>6 DEF LeaveAllgather, TypeOK
  <2>2. QED
    BY <2>1 DEF Exchanging, SourcesSeen
<1>7. CASE \A r \in Rank : ~Isend(r) /\ ~Receive(r) /\ ~CopyOwn(r) /\ ~LeaveAllgather(r)
  <2>1. UNCHANGED received
    BY <1>7 DEF Next, Step, Terminating, vars, ReturnImmediately, EnterAllgather,
       WaitSerialized, Waitall
  <2>2. Exchanging(d) /\ round'[d] = round[d]
    BY <1>7 DEF Next, Step, Terminating, vars, ReturnImmediately, EnterAllgather,
       WaitSerialized, Waitall, TypeOK, Exchanging
  <2>3. QED
    BY <2>1, <2>2 DEF SourcesSeen
<1>8. QED
  BY <1>1, <1>2, <1>3, <1>4, <1>5, <1>6, <1>7

-----------------------------------------------------------------------------
\* A message still in flight after a step is still awaited by its receiver.
LEMMA InFlightStep ==
  ASSUME IInv, [Next]_vars, NEW m \in network, m \in network',
         NEW d \in Rank, InFlight(m, d)
  PROVE  InFlight(m, d)'
<1> DEFINE s == m.data.sender
           k == m.data.round
<1> USE DEF IInv
<1>1. /\ script' = script /\ s \in Rank /\ k \in 1..Len(script) /\ round[d] = k
      /\ Owes(script, s, d, k) /\ s # d /\ HasSent(s, d, k)
      /\ script \in Scripts
  BY EnteredStep DEF InFlight, Owes, TypeOK, Message
<1>2. HasSent(s, d, k)'
  BY <1>1, HasSentStep
<1>3. ~IsLocal(Call(d), d) /\ Call(d).initial \in Comm /\ s \in Members(Call(d).initial)
  BY <1>1, OwingTakesPart, CallOfScript DEF Call, CallRecord, Owes
<1>4. k <= Entered(d) /\ pc[d] # "call"
  <2>1. ~IsLocal(script[k], s) /\ ~IsLocal(script[k], d) /\ Past(s, k)
    BY <1>1, OwingTakesPart DEF HasSent
  <2>2. k <= Entered(d)
    BY <1>1, <2>1 DEF BarrierInv
  <2>3. QED
    BY <1>1, <2>2 DEF Entered, TypeOK
<1>5. RankId[Call(d).initial][s] \in Sources(d)
  BY <1>1, <1>4, OwedIsCounted
<1>6. round'[d] = k
  <2>1. ASSUME Waitall(d) PROVE FALSE
    <3>1. RankId[Call(d).initial][s] \in SourcesSeen(d) /\ Exchanging(d)
      BY <1>5, <2>1, NothingMissing DEF Waitall, Exchanging
    <3>2. QED
      BY <1>1, <3>1 DEF InFlight, Call
  <2>2. ~ReturnImmediately(d)
    BY <1>3 DEF ReturnImmediately
  <2>3. QED
    BY <1>1, <2>1, <2>2, RoundChange
<1>7. ASSUME Exchanging(d)', RankId[script[k].initial][s] \in SourcesSeen(d)'
      PROVE  FALSE
  <2> DEFINE i == RankId[script[k].initial][s]
  <2>1. i = RankId[Call(d).initial][s]
    BY <1>1 DEF Call
  <2>2. CASE Exchanging(d) /\ i \in SourcesSeen(d)
    BY <2>2 DEF InFlight
  <2>3. CASE CopyOwn(d) /\ i = InitialId(d)
    BY <1>1, <1>3, <2>1, <2>3, RankIdInjective DEF InitialId
  <2>4. ASSUME NEW n \in network, InFlight(n, d), n.data.sender \in Rank,
               i = RankId[Call(d).initial][n.data.sender], network' = network \ {n}
        PROVE  FALSE
    <3>1. n.data.sender = s
      BY <1>3, <2>1, <2>4, RankIdInjective
    <3>2. n.data.round = k /\ n.comm = m.comm /\ n.to = m.to
      BY <1>1, <2>4 DEF InFlight
    <3>3. n.data = m.data
      <4>1. n \in Message /\ m \in Message
        BY DEF TypeOK
      <4>2. /\ n.data = Piece(n.data.sender, n.data.round)
            /\ m.data = Piece(m.data.sender, m.data.round)
        BY <4>1 DEF Message, Piece
      <4>3. QED
        BY <3>1, <3>2, <4>2
    <3>4. n = m
      BY <3>2, <3>3 DEF UniqueInv
    <3>5. QED
      BY <2>4, <3>4
  <2>5. QED
    BY <1>7, <2>2, <2>3, <2>4, SeenStep
<1>8. QED
  BY <1>1, <1>2, <1>6, <1>7 DEF InFlight

LEMMA NetworkStep ==
  ASSUME IInv, [Next]_vars
  PROVE  NetworkInv'
<1>1. ASSUME NEW m \in network, m \in network' PROVE \E d \in Rank : InFlight(m, d)'
  BY <1>1, InFlightStep DEF IInv, NetworkInv
<1>2. ASSUME NEW r \in Rank, Isend(r) PROVE NetworkInv'
  <2>1. PICK d \in Rank, f \in unsent[r], eager \in EagerModes :
          LET m == [comm |-> Inter(r), from |-> RankId[Inter(r)][r],
                    to |-> RankId[Inter(r)][d],
                    data |-> Piece(r, round[r]), eager |-> eager]
          IN /\ f = RankId[Call(r).final][d]
             /\ d # r
             /\ Owes(script, r, d, round[r])
             /\ Exchanging(r)
             /\ network' = network \cup {m}
             /\ unsent' = [unsent EXCEPT ![r] = @ \ {f}]
             /\ Exchanging(r)'
             /\ UNCHANGED <<script, round, received>>
    BY <1>2, IsendMessage
  <2>0. PICK m : m = [comm |-> Inter(r), from |-> RankId[Inter(r)][r],
                      to |-> RankId[Inter(r)][d],
                      data |-> Piece(r, round[r]), eager |-> eager]
    OBVIOUS
  <2>2. round[d] = round[r] /\ (Exchanging(d) => InitialId(r) \notin SourcesSeen(d))
    BY <2>1, NotYetSent
  <2>3. HasSent(r, d, round[r])'
    BY <2>1 DEF HasSent, Past, Call, IInv, TypeOK
  <2>4. Exchanging(d)' => RankId[script[round[r]].initial][r] \notin SourcesSeen(d)'
    <3>1. Exchanging(d)' => Exchanging(d)
      BY <1>2 DEF Isend, Exchanging, IInv, TypeOK
    <3>2. SourcesSeen(d)' = SourcesSeen(d)
      BY <2>1 DEF SourcesSeen
    <3>3. QED
      BY <2>2, <3>1, <3>2 DEF InitialId, Call
  <2>5. InFlight(m, d)'
    BY <2>0, <2>1, <2>2, <2>3, <2>4 DEF InFlight, Piece, Inter, Call
  <2>6. network' = network \cup {m}
    BY <2>0, <2>1
  <2>7. QED
    BY <1>1, <2>5, <2>6 DEF NetworkInv
<1>3. CASE \A r \in Rank : ~Isend(r)
  <2>1. network' \subseteq network
    BY <1>3 DEF Next, Step, Terminating, vars, ReturnImmediately, EnterAllgather,
       LeaveAllgather, WaitSerialized, CopyOwn, Receive, Waitall
  <2>2. QED
    BY <1>1, <2>1 DEF NetworkInv
<1>4. QED
  BY <1>2, <1>3

LEMMA UniqueStep ==
  ASSUME IInv, [Next]_vars
  PROVE  UniqueInv'
<1>1. ASSUME NEW r \in Rank, Isend(r) PROVE UniqueInv'
  <2>1. PICK d \in Rank, f \in unsent[r], eager \in EagerModes :
          LET m == [comm |-> Inter(r), from |-> RankId[Inter(r)][r],
                    to |-> RankId[Inter(r)][d],
                    data |-> Piece(r, round[r]), eager |-> eager]
          IN /\ f = RankId[Call(r).final][d]
             /\ Owes(script, r, d, round[r])
             /\ Exchanging(r)
             /\ network' = network \cup {m}
    BY <1>1, IsendMessage
  <2> DEFINE m == [comm |-> Inter(r), from |-> RankId[Inter(r)][r],
                   to |-> RankId[Inter(r)][d],
                   data |-> Piece(r, round[r]), eager |-> eager]
  <2>2. ASSUME NEW n \in network, n.data = m.data, n.to = m.to PROVE FALSE
    <3>1. n.data.sender = r /\ n.data.round = round[r]
      BY <2>2 DEF Piece
    <3>2. PICK e \in Rank : InFlight(n, e)
      BY DEF IInv, NetworkInv
    <3>3. n.to = RankId[Inter(r)][e] /\ HasSent(r, e, round[r]) /\ Owes(script, r, e, round[r])
      BY <3>1, <3>2 DEF InFlight, Inter, Call
    <3>4. Inter(r) \in Comm /\ Members(Call(r).final) \subseteq Members(Inter(r))
      BY <2>1, CurrentCall DEF IInv, Exchanging
    <3>5. d \in Members(Inter(r)) /\ RankId[Inter(r)][e] = RankId[Inter(r)][d]
      BY <2>1, <2>2, <3>3, <3>4 DEF Owes, Call
    <3>6. e = d
      BY <3>4, <3>5, RankIdInjective
    <3>7. QED
      BY <2>1, <3>3, <3>6, NotYetSent
  <2>3. network' = network \cup {m}
    BY <2>1
  <2>4. QED
    <3> HIDE DEF m
    <3> QED BY <2>2, <2>3 DEF IInv, UniqueInv
<1>2. CASE \A r \in Rank : ~Isend(r)
  <2>1. network' \subseteq network
    BY <1>2 DEF Next, Step, Terminating, vars, ReturnImmediately, EnterAllgather,
       LeaveAllgather, WaitSerialized, CopyOwn, Receive, Waitall
  <2>2. QED
    BY <2>1 DEF IInv, UniqueInv
<1>3. QED
  BY <1>1, <1>2

-----------------------------------------------------------------------------
LEMMA ReceivedStep ==
  ASSUME IInv, [Next]_vars
  PROVE  ReceivedInv'
<1> USE DEF IInv
<1> DEFINE From(x, r, s) == /\ x.data = Piece(s, round[r])
                            /\ x.source = RankId[Call(r).initial][s]
                            /\ Owes(script, s, r, round[r])
                            /\ HasSent(s, r, round[r])
           Good(r) == Exchanging(r) =>
                        /\ pc[r] # "receive" => received[r] = {}
                        /\ \A x \in received[r] : \E s \in Rank : From(x, r, s)
<1>1. ASSUME NEW r \in Rank, NEW s \in Rank, NEW x, From(x, r, s), round'[r] = round[r]
      PROVE  From(x, r, s)'
  <2>1. script' = script /\ Call(r)' = Call(r)
    BY <1>1, EnteredStep DEF Call
  <2>2. PICK k \in Int : k = round[r]
    BY DEF TypeOK
  <2>3. HasSent(s, r, k)'
    BY <1>1, <2>2, HasSentStep
  <2>4. HasSent(s, r, round[r])'
    BY <1>1, <2>2, <2>3 DEF HasSent, Past
  <2>5. QED
    BY <1>1, <2>1, <2>4 DEF Piece
<1>2. \A r \in Rank : Good(r)
  BY DEF ReceivedInv
<1>3. ASSUME NEW r \in Rank, Exchanging(r), round'[r] = round[r], received'[r] = received[r],
             pc'[r] # "receive" => pc[r] # "receive"
      PROVE  Good(r)'
  <2> HIDE DEF From
  <2> QED BY <1>1, <1>2, <1>3
<1>4. ASSUME NEW q \in Rank, LeaveAllgather(q) PROVE \A r \in Rank : Good(r)'
  <2>1. Good(q)'
    BY <1>4 DEF LeaveAllgather, TypeOK
  <2>2. ASSUME NEW r \in Rank, r # q PROVE Good(r)'
    <3>1. /\ Exchanging(r)' = Exchanging(r) /\ round'[r] = round[r]
          /\ received'[r] = received[r] /\ pc'[r] = pc[r]
      BY <1>4, <2>2 DEF LeaveAllgather, TypeOK, Exchanging
    <3> HIDE DEF From
    <3>2. QED
      BY <1>3, <3>1
  <2>3. QED
    BY <2>1, <2>2
<1>5. ASSUME NEW q \in Rank, CopyOwn(q) PROVE \A r \in Rank : Good(r)'
  <2>1. /\ pc[q] = "send" /\ Exchanging(q) /\ unsent[q] = {} /\ received[q] = {}
        /\ UNCHANGED <<script, round, unsent>> /\ pc'[q] = "receive"
    BY <1>5 DEF CopyOwn, Exchanging, TypeOK, ReceivedInv
  <2>2. get_initial_comm_rank(q, RankId[Inter(q)][q]) = InitialId(q)
    BY <2>1, CurrentCall, RankMaps DEF InitialId
  <2>3. received'[q] = IF KeepsData(q)
                       THEN {[source |-> InitialId(q), data |-> Piece(q, round[q])]}
                       ELSE {}
    BY <1>5, <2>1, <2>2 DEF CopyOwn, TypeOK
  <2>4. ASSUME KeepsData(q)
        PROVE  From([source |-> InitialId(q), data |-> Piece(q, round[q])], q, q)'
    <3>1. Owes(script, q, q, round[q])
      BY <2>1, <2>4, OwedIsCounted
    <3>2. HasSent(q, q, round[q])'
      BY <2>1 DEF HasSent, Past, Exchanging
    <3>3. QED
      BY <2>1, <3>1, <3>2 DEF InitialId, Call, Piece
  <2>5. Good(q)'
    <3> HIDE DEF From
    <3> QED BY <2>1, <2>3, <2>4 DEF InitialId, Call, Piece
  <2>6. ASSUME NEW r \in Rank, r # q, Exchanging(r) PROVE Good(r)'
    <3>1. round'[r] = round[r] /\ received'[r] = received[r] /\ pc'[r] = pc[r]
      BY <1>5, <2>6 DEF CopyOwn, TypeOK
    <3> HIDE DEF From
    <3>2. QED
      BY <1>3, <2>6, <3>1
  <2>7. ASSUME NEW r \in Rank, r # q, ~Exchanging(r) PROVE Good(r)'
    BY <1>5, <2>7 DEF CopyOwn, TypeOK, Exchanging
  <2>8. QED
    BY <2>5, <2>6, <2>7
<1>6. ASSUME NEW q \in Rank, Receive(q) PROVE \A r \in Rank : Good(r)'
  <2>1. PICK m \in network :
          /\ InFlight(m, q)
          /\ m.data = Piece(m.data.sender, round[q])
          /\ m.data.sender \in Rank
          /\ Exchanging(q)
          /\ received' = [received EXCEPT
               ![q] = @ \cup {[source |-> RankId[Call(q).initial][m.data.sender],
                               data |-> m.data]}]
          /\ UNCHANGED <<script, round, pc, unsent>>
    BY <1>6, ReceiveMessage
  <2>2. PICK x : x = [source |-> RankId[Call(q).initial][m.data.sender], data |-> m.data]
    OBVIOUS
  <2>3. PICK s \in Rank : s = m.data.sender
    BY <2>1
  <2>4. From(x, q, s)
    BY <2>1, <2>2, <2>3 DEF InFlight
  <2>5. received'[q] = received[q] \cup {x} /\ (\A r \in Rank : r # q => received'[r] = received[r])
    BY <2>1, <2>2 DEF TypeOK
  <2>6. pc[q] = "receive"
    BY <1>6 DEF Receive
  <2>7. Good(q)'
    <3>1. \A y \in received'[q] : \E p \in Rank : From(y, q, p)
      <4> HIDE DEF From
      <4> QED BY <1>2, <2>1, <2>4, <2>5
    <3>2. \A y \in received'[q] : \E p \in Rank : From(y, q, p)'
      <4> HIDE DEF From
      <4> QED BY <1>1, <2>1, <3>1
    <3>3. QED
      BY <2>1, <2>6, <3>2
  <2>8. ASSUME NEW r \in Rank, r # q, Exchanging(r) PROVE Good(r)'
    <3> HIDE DEF From
    <3> QED BY <1>3, <2>1, <2>5, <2>8
  <2>9. ASSUME NEW r \in Rank, r # q, ~Exchanging(r) PROVE Good(r)'
    BY <2>1, <2>9 DEF Exchanging
  <2>10. QED
    BY <2>7, <2>8, <2>9
<1>7. ASSUME \A q \in Rank : ~LeaveAllgather(q) /\ ~CopyOwn(q) /\ ~Receive(q)
      PROVE  \A r \in Rank : Good(r)'
  <2>1. UNCHANGED received
    BY <1>7 DEF Next, Step, Terminating, vars, ReturnImmediately, EnterAllgather, Isend,
       WaitSerialized, Waitall
  <2>2. ASSUME NEW r \in Rank, Exchanging(r)'
        PROVE  Exchanging(r) /\ round'[r] = round[r] /\ (pc'[r] # "receive" => pc[r] # "receive")
    <3>1. CASE \E q \in Rank : Isend(q)
      BY <2>2, <3>1 DEF Isend, TypeOK, Exchanging
    <3>2. CASE \A q \in Rank : ~Isend(q)
      BY <1>7, <2>2, <3>2 DEF Next, Step, Terminating, vars, ReturnImmediately, EnterAllgather,
         WaitSerialized, Waitall, TypeOK, Exchanging
    <3>3. QED
      BY <3>1, <3>2
  <2>3. ASSUME NEW r \in Rank, Exchanging(r)' PROVE Good(r)'
    <3> HIDE DEF From
    <3> QED BY <1>3, <2>1, <2>2, <2>3
  <2>4. QED
    BY <2>3
<1>8. \A r \in Rank : Good(r)'
  <2> HIDE DEF Good
  <2> QED BY <1>4, <1>5, <1>6, <1>7
<1>9. QED
  BY <1>8 DEF ReceivedInv

LEMMA ExpectedStep ==
  ASSUME IInv, [Next]_vars
  PROVE  ExpectedInv'
<1> USE DEF IInv
<1> DEFINE Good(r) == Exchanging(r) =>
             IF pc[r] = "receive"
             THEN /\ expected[r] = Cardinality(Sources(r) \ SourcesSeen(r))
                  /\ KeepsData(r) => InitialId(r) \in SourcesSeen(r)
             ELSE expected[r] = Cardinality(Sources(r)) - (IF KeepsData(r) THEN 1 ELSE 0)
<1>1. \A r \in Rank : Good(r)
  BY DEF ExpectedInv
<1>2. ASSUME NEW r \in Rank, round'[r] = round[r]
      PROVE  /\ Sources(r)' = Sources(r) /\ KeepsData(r)' = KeepsData(r)
             /\ InitialId(r)' = InitialId(r)
  BY <1>2, EnteredStep DEF Sources, KeepsData, InitialId, FinalId, Destinations, Call
<1>3. ASSUME NEW r \in Rank, Exchanging(r), round'[r] = round[r], received'[r] = received[r],
             expected'[r] = expected[r], pc'[r] = "receive" <=> pc[r] = "receive"
      PROVE  Good(r)'
  <2>1. SourcesSeen(r)' = SourcesSeen(r)
    BY <1>3 DEF SourcesSeen
  <2>2. QED
    BY <1>1, <1>2, <1>3, <2>1
<1>4. ASSUME NEW q \in Rank, LeaveAllgather(q) PROVE \A r \in Rank : Good(r)'
  <2>1. Good(q)'
    <3>1. /\ expected'[q] = Cardinality(Sources(q)) - (IF KeepsData(q) THEN 1 ELSE 0)
          /\ round'[q] = round[q] /\ pc'[q] = "send"
      BY <1>4 DEF LeaveAllgather, TypeOK
    <3>2. QED
      BY <1>2, <3>1
  <2>2. ASSUME NEW r \in Rank, r # q, Exchanging(r) PROVE Good(r)'
    <3>1. /\ round'[r] = round[r] /\ received'[r] = received[r] /\ pc'[r] = pc[r]
          /\ expected'[r] = expected[r]
      BY <1>4, <2>2 DEF LeaveAllgather, TypeOK
    <3>2. QED
      BY <1>3, <2>2, <3>1
  <2>3. ASSUME NEW r \in Rank, r # q, ~Exchanging(r) PROVE Good(r)'
    BY <1>4, <2>3 DEF LeaveAllgather, TypeOK, Exchanging
  <2>4. QED
    BY <2>1, <2>2, <2>3
<1>5. ASSUME NEW q \in Rank, CopyOwn(q) PROVE \A r \in Rank : Good(r)'
  <2>1. /\ pc[q] = "send" /\ Exchanging(q) /\ received[q] = {}
        /\ UNCHANGED <<script, round, expected>> /\ pc'[q] = "receive"
    BY <1>5 DEF CopyOwn, Exchanging, TypeOK, ReceivedInv
  <2>2. get_initial_comm_rank(q, RankId[Inter(q)][q]) = InitialId(q)
    BY <2>1, CurrentCall, RankMaps DEF InitialId
  <2>3. SourcesSeen(q)' = IF KeepsData(q) THEN {InitialId(q)} ELSE {}
    <3>1. PICK x : x = [source |-> InitialId(q), data |-> Piece(q, round[q])]
      OBVIOUS
    <3>2. received'[q] = (IF KeepsData(q) THEN {x} ELSE {}) /\ x.source = InitialId(q)
      BY <1>5, <2>1, <2>2, <3>1 DEF CopyOwn, TypeOK
    <3>3. QED
      BY <3>2 DEF SourcesSeen
  <2>4. /\ expected[q] = Cardinality(Sources(q)) - (IF KeepsData(q) THEN 1 ELSE 0)
        /\ KeepsData(q) => InitialId(q) \in Sources(q)
        /\ IsFiniteSet(Sources(q))
    BY <1>1, <2>1, OwedIsCounted
  <2>5. Cardinality(Sources(q) \ SourcesSeen(q)') = expected[q]
    <3>1. CASE KeepsData(q)
      BY <2>3, <2>4, <3>1, FS_RemoveElement
    <3>2. CASE ~KeepsData(q)
      <4>1. Sources(q) \ {} = Sources(q) /\ Cardinality(Sources(q)) \in Nat
        BY <2>4, FS_CardinalityType
      <4>2. QED
        BY <2>3, <2>4, <3>2, <4>1
    <3>3. QED
      BY <3>1, <3>2
  <2>6. Good(q)'
    BY <1>2, <2>1, <2>3, <2>5
  <2>7. ASSUME NEW r \in Rank, r # q, Exchanging(r) PROVE Good(r)'
    <3>1. /\ round'[r] = round[r] /\ received'[r] = received[r] /\ pc'[r] = pc[r]
          /\ expected'[r] = expected[r]
      BY <1>5, <2>7 DEF CopyOwn, TypeOK
    <3>2. QED
      BY <1>3, <2>7, <3>1
  <2>8. ASSUME NEW r \in Rank, r # q, ~Exchanging(r) PROVE Good(r)'
    BY <1>5, <2>8 DEF CopyOwn, TypeOK, Exchanging
  <2>9. QED
    BY <2>6, <2>7, <2>8
<1>6. ASSUME NEW q \in Rank, Receive(q) PROVE \A r \in Rank : Good(r)'
  <2>1. PICK m \in network :
          /\ InFlight(m, q)
          /\ m.data = Piece(m.data.sender, round[q])
          /\ m.data.sender \in Rank
          /\ Exchanging(q)
          /\ received' = [received EXCEPT
               ![q] = @ \cup {[source |-> RankId[Call(q).initial][m.data.sender],
                               data |-> m.data]}]
          /\ expected' = [expected EXCEPT ![q] = @ - 1]
          /\ UNCHANGED <<script, round, pc, unsent>>
    BY <1>6, ReceiveMessage
  <2> DEFINE i == RankId[Call(q).initial][m.data.sender]
  <2>2. pc[q] = "receive" /\ pc[q] # "call"
    BY <1>6 DEF Receive
  <2>3. i \in Sources(q) /\ i \notin SourcesSeen(q)
    <3>1. Owes(script, m.data.sender, q, round[q]) /\ m.data.round = round[q]
      BY <2>1 DEF InFlight
    <3>2. QED
      BY <2>1, <2>2, <3>1, OwedIsCounted DEF InFlight, Call
  <2>4. SourcesSeen(q)' = SourcesSeen(q) \cup {i}
    <3>1. PICK x : x = [source |-> i, data |-> m.data]
      OBVIOUS
    <3>2. received'[q] = received[q] \cup {x} /\ x.source = i
      BY <2>1, <3>1 DEF TypeOK
    <3>3. QED
      BY <3>2 DEF SourcesSeen
  <2>5. IsFiniteSet(Sources(q) \ SourcesSeen(q))
    BY <2>2, OwedIsCounted, FS_Subset
  <2>6. Cardinality(Sources(q) \ SourcesSeen(q)') = Cardinality(Sources(q) \ SourcesSeen(q)) - 1
    <3> DEFINE A == Sources(q) \ SourcesSeen(q)
    <3>1. Sources(q) \ SourcesSeen(q)' = A \ {i} /\ i \in A
      BY <2>3, <2>4
    <3>2. Cardinality(A \ {i}) = Cardinality(A) - 1
      <4> HIDE DEF A, i
      <4> QED BY <2>5, <3>1, FS_RemoveElement DEF A
    <3>3. QED
      BY <3>1, <3>2
  <2>7. Good(q)'
    <3>1. expected'[q] = Cardinality(Sources(q) \ SourcesSeen(q)')
      BY <1>1, <2>1, <2>2, <2>6 DEF TypeOK
    <3>2. KeepsData(q) => InitialId(q) \in SourcesSeen(q)'
      BY <1>1, <2>1, <2>2, <2>4
    <3>3. QED
      BY <1>2, <2>1, <2>2, <3>1, <3>2
  <2>8. ASSUME NEW r \in Rank, r # q PROVE Good(r)'
    <3>1. /\ round'[r] = round[r] /\ received'[r] = received[r] /\ pc'[r] = pc[r]
          /\ expected'[r] = expected[r] /\ Exchanging(r)' = Exchanging(r)
      BY <2>1, <2>8 DEF TypeOK, Exchanging
    <3>2. QED
      BY <1>3, <3>1
  <2>9. QED
    BY <2>7, <2>8
<1>7. ASSUME \A q \in Rank : ~LeaveAllgather(q) /\ ~CopyOwn(q) /\ ~Receive(q)
      PROVE  \A r \in Rank : Good(r)'
  <2>1. UNCHANGED <<received, expected>>
    BY <1>7 DEF Next, Step, Terminating, vars, ReturnImmediately, EnterAllgather, Isend,
       WaitSerialized, Waitall
  <2>2. ASSUME NEW r \in Rank, Exchanging(r)'
        PROVE  Exchanging(r) /\ round'[r] = round[r] /\ (pc'[r] = "receive" <=> pc[r] = "receive")
    <3>1. CASE \E q \in Rank : Isend(q)
      BY <2>2, <3>1 DEF Isend, TypeOK, Exchanging
    <3>2. CASE \A q \in Rank : ~Isend(q)
      BY <1>7, <2>2, <3>2 DEF Next, Step, Terminating, vars, ReturnImmediately, EnterAllgather,
         WaitSerialized, Waitall, TypeOK, Exchanging
    <3>3. QED
      BY <3>1, <3>2
  <2>3. ASSUME NEW r \in Rank, Exchanging(r)' PROVE Good(r)'
    BY <1>3, <2>1, <2>2, <2>3
  <2>4. QED
    BY <2>3
<1>8. \A r \in Rank : Good(r)'
  <2> HIDE DEF Good
  <2> QED BY <1>4, <1>5, <1>6, <1>7
<1>9. QED
  BY <1>8 DEF ExpectedInv

-----------------------------------------------------------------------------
\* What shuffle() returns at once is what the plan leaves where it is.
LEMMA LocalResult ==
  ASSUME TypeOK, NEW r \in Rank, ReturnImmediately(r)
  PROVE  (IF KeepsData(r)
          THEN {[source |-> InitialId(r), data |-> Piece(r, round[r])]}
          ELSE {}) = Expected(Call(r), round[r], r)
<1> DEFINE c == Call(r)
<1>1. /\ IsCall(c) /\ IsLocal(c, r)
      /\ c.initial \in Comm /\ c.final \in Comm
  <2>1. script \in Scripts /\ round[r] \in 1..Len(script)
    BY ScriptAssumption DEF ReturnImmediately, TypeOK
  <2>2. IsCall(c)
    BY <2>1, CallOfScript DEF Call
  <2>3. QED
    BY <2>2 DEF ReturnImmediately, IsCall, CallRecord
<1>2. KeepsData(r) <=> <<InitialId(r), FinalId(r)>> \in c.plan
  BY <1>1 DEF KeepsData, Destinations, IsCall, CallRecord
<1>3. ASSUME NEW i, NEW f, <<i, f>> \in c.plan
      PROVE  \E p \in Members(c.initial), q \in Members(c.final) :
               i = RankId[c.initial][p] /\ f = RankId[c.final][q]
  BY <1>1, <1>3 DEF IsCall, Pairs
<1>4. CASE c.equal
  <2>1. c.initial = c.final /\ InitialId(r) = FinalId(r)
    BY <1>1, <1>4 DEF IsCall, InitialId, FinalId
  <2>2. ASSUME NEW q \in Members(c.initial),
               <<RankId[c.initial][q], FinalId(r)>> \in c.plan
        PROVE  q = r /\ KeepsData(r)
    <3>1. RankId[c.initial][q] = RankId[c.initial][r]
      BY <1>1, <1>4, <2>1, <2>2 DEF IsCall, FinalId
    <3>2. q = r
      BY <1>1, <2>2, <3>1, RankIdInjective
    <3>3. QED
      BY <1>2, <2>2, <3>2 DEF InitialId
  <2>3. KeepsData(r) => r \in Members(c.initial) /\ <<RankId[c.initial][r], FinalId(r)>> \in c.plan
    <3>1. SUFFICES ASSUME KeepsData(r) PROVE r \in Members(c.initial)
      BY <1>2 DEF InitialId
    <3>2. PICK p \in Members(c.initial) : InitialId(r) = RankId[c.initial][p]
      BY <1>2, <1>3, <3>1
    <3>3. QED
      BY <1>1, <3>2, RankIdInjective DEF InitialId
  <2>4. {p \in Members(c.initial) : <<RankId[c.initial][p], RankId[c.final][r]>> \in c.plan}
          = IF KeepsData(r) THEN {r} ELSE {}
    BY <2>2, <2>3 DEF FinalId
  <2>5. QED
    BY <2>4 DEF Expected, InitialId, Piece
<1>5. CASE ~c.equal
  <2>1. r \notin Members(c.final)
    BY <1>1, <1>5 DEF IsLocal
  <2>2. ASSUME NEW i, <<i, FinalId(r)>> \in c.plan PROVE FALSE
    <3>1. PICK q \in Members(c.final) : FinalId(r) = RankId[c.final][q]
      BY <1>3, <2>2
    <3>2. QED
      BY <1>1, <2>1, <3>1, RankIdInjective DEF FinalId
  <2>3. ~KeepsData(r)
    BY <1>2, <2>2
  <2>4. {p \in Members(c.initial) : <<RankId[c.initial][p], RankId[c.final][r]>> \in c.plan} = {}
    BY <2>2 DEF FinalId
  <2>5. QED
    BY <2>3, <2>4 DEF Expected
<1>6. QED
  BY <1>4, <1>5

\* What exchange_impl returns is every piece that the plan sends to r, each
\* under its sender's rank, and nothing else.
LEMMA ExchangeResult ==
  ASSUME IInv, NEW r \in Rank, Waitall(r)
  PROVE  received[r] = Expected(Call(r), round[r], r)
<1> DEFINE c == Call(r)
<1> USE DEF IInv
<1>1. Exchanging(r) /\ pc[r] # "call"
  BY DEF Waitall, Exchanging
<1>2. c.initial \in Comm
  BY <1>1, CurrentCall DEF IsCall, CallRecord
<1>3. ASSUME NEW x \in received[r] PROVE x \in Expected(c, round[r], r)
  <2>1. PICK s \in Rank : /\ x.data = Piece(s, round[r])
                          /\ x.source = RankId[c.initial][s]
                          /\ Owes(script, s, r, round[r])
    BY <1>1, <1>3 DEF ReceivedInv
  <2>2. s \in Members(c.initial) /\ <<RankId[c.initial][s], RankId[c.final][r]>> \in c.plan
    BY <2>1 DEF Owes, Call
  <2>3. x = [source |-> RankId[c.initial][s], data |-> Piece(s, round[r])]
    BY <1>3, <2>1 DEF TypeOK, Received
  <2>4. QED
    BY <2>2, <2>3 DEF Expected
<1>4. ASSUME NEW s \in Members(c.initial),
             <<RankId[c.initial][s], RankId[c.final][r]>> \in c.plan
      PROVE  [source |-> RankId[c.initial][s], data |-> Piece(s, round[r])] \in received[r]
  <2>1. RankId[c.initial][s] \in Sources(r)
    <3>1. <<RankId[c.initial][s], FinalId(r)>> \in {x \in c.plan : x[2] = FinalId(r)}
      BY <1>4 DEF FinalId
    <3>2. QED
      BY <3>1 DEF Sources
  <2>2. PICK x \in received[r] : x.source = RankId[c.initial][s]
    BY <2>1, NothingMissing DEF SourcesSeen
  <2>3. PICK q \in Rank : /\ x.data = Piece(q, round[r])
                          /\ x.source = RankId[c.initial][q]
    BY <1>1, <2>2 DEF ReceivedInv
  <2>4. q = s
    BY <1>2, <1>4, <2>2, <2>3, RankIdInjective
  <2>5. x = [source |-> RankId[c.initial][s], data |-> Piece(s, round[r])]
    BY <2>2, <2>3, <2>4 DEF TypeOK, Received
  <2>6. QED
    BY <2>5
<1>5. QED
  BY <1>3, <1>4 DEF Expected

LEMMA ResultsStep ==
  ASSUME IInv, [Next]_vars
  PROVE  ResultsInv'
<1>1. script' = script
  BY EnteredStep DEF IInv
<1>2. ASSUME NEW r \in Rank, NEW x \in SUBSET Received,
             x = Expected(Call(r), round[r], r),
             results' = [results EXCEPT ![r] = Append(@, x)],
             round' = [round EXCEPT ![r] = @ + 1]
      PROVE  ResultsInv'
  <2>1. /\ results[r] \in Seq(SUBSET Received) /\ round[r] \in Nat
        /\ Len(results[r]) = round[r] - 1
        /\ results'[r] = Append(results[r], x) /\ round'[r] = round[r] + 1
    BY <1>2 DEF IInv, TypeOK, ResultsInv
  <2>2. \A q \in Rank : q # r => results'[q] = results[q] /\ round'[q] = round[q]
    BY <1>2 DEF IInv, TypeOK
  <2>3. /\ Len(results'[r]) = round'[r] - 1
        /\ \A k \in 1..Len(results'[r]) :
              IF k = round[r] THEN results'[r][k] = x
              ELSE k \in 1..Len(results[r]) /\ results'[r][k] = results[r][k]
    BY <2>1
  <2>4. \A k \in 1..Len(results'[r]) : results'[r][k] = Expected(script[k], k, r)
    BY <1>2, <2>3 DEF IInv, ResultsInv, Call
  <2>5. QED
    BY <1>1, <2>2, <2>3, <2>4 DEF IInv, ResultsInv
<1>3. ASSUME NEW r \in Rank, ReturnImmediately(r) PROVE ResultsInv'
  <2>1. PICK x : x = (IF KeepsData(r)
                      THEN {[source |-> InitialId(r), data |-> Piece(r, round[r])]}
                      ELSE {})
    OBVIOUS
  <2>2. x = Expected(Call(r), round[r], r)
    BY <1>3, <2>1, LocalResult DEF IInv
  <2>3. x \in SUBSET Received
    <3>1. round[r] \in 1..Len(script)
      BY <1>3, ScriptAssumption DEF ReturnImmediately, IInv, TypeOK
    <3>2. InitialId(r) \in Int
      BY <3>1, CallOfScript, RankIdType DEF InitialId, Call, IsCall, CallRecord, IInv, TypeOK
    <3>3. QED
      BY <2>1, <3>2 DEF Received, Piece, IInv, TypeOK
  <2>4. QED
    BY <1>2, <1>3, <2>1, <2>2, <2>3 DEF ReturnImmediately
<1>4. ASSUME NEW r \in Rank, Waitall(r) PROVE ResultsInv'
  BY <1>2, <1>4, ExchangeResult DEF Waitall, IInv, TypeOK
<1>5. CASE \A r \in Rank : ~ReturnImmediately(r) /\ ~Waitall(r)
  <2>1. UNCHANGED <<round, results>>
    BY <1>5 DEF Next, Step, Terminating, vars, EnterAllgather, LeaveAllgather, Isend,
       WaitSerialized, CopyOwn, Receive
  <2>2. QED
    BY <1>1, <2>1 DEF IInv, ResultsInv
<1>6. QED
  BY <1>3, <1>4, <1>5

\* Two processes in MPI_Allgathers that MPI matches have made the same number
\* of calls on the communicator, so they are in the same shuffle.
LEMMA AgreementFromInvariant ==
  ASSUME IInv
  PROVE  CollectivesAgree
<1> USE DEF IInv
<1>1. SUFFICES ASSUME NEW q \in Rank, NEW r \in Rank,
                      pc[q] = "allgather", pc[r] = "allgather",
                      Inter(q) = Inter(r), calls[q][Inter(q)] = calls[r][Inter(r)]
               PROVE  round[q] = round[r]
  BY DEF CollectivesAgree
<1>2. /\ pc[q] # "call" /\ pc[r] # "call" /\ round[q] \in Nat /\ round[r] \in Nat
  BY <1>1 DEF TypeOK
<1>3. /\ Inter(q) \in Comm /\ q \in Members(Inter(q)) /\ Uses(script, round[q], Inter(q))
      /\ Inter(r) \in Comm /\ r \in Members(Inter(r)) /\ Uses(script, round[r], Inter(r))
  BY <1>2, CurrentCall
<1>4. Nth(script, Inter(q), round[q]) = Nth(script, Inter(q), round[r])
  BY <1>1, <1>2, <1>3 DEF CallsInv, Entered
<1>5. QED
  BY <1>1, <1>2, <1>3, <1>4, NthInjective

\* What the receive loop has copied comes from senders of the same shuffle.
LEMMA IsolationFromInvariant ==
  ASSUME IInv
  PROVE  NoCrossTalk
<1>1. SUFFICES ASSUME NEW r \in Rank, Exchanging(r), NEW x \in received[r]
               PROVE  /\ x.data.round = round[r]
                      /\ x.source = RankId[Call(r).initial][x.data.sender]
  BY DEF NoCrossTalk
<1>2. PICK s \in Rank : /\ x.data = Piece(s, round[r])
                        /\ x.source = RankId[Call(r).initial][s]
  BY <1>1 DEF IInv, ReceivedInv
<1>3. QED
  BY <1>2 DEF Piece

\* A message in flight has a receiver that has begun its shuffle, has not
\* ended it, and counts on one more source.
LEMMA AwaitedFromInvariant ==
  ASSUME IInv
  PROVE  NoStrayMessage
<1> USE DEF IInv
<1>1. SUFFICES ASSUME NEW m \in network, NEW d \in Rank, InFlight(m, d)
               PROVE  /\ pc[d] # "call"
                      /\ m.comm = Inter(d)
                      /\ m.to = RankId[Inter(d)][d]
                      /\ m.data.round = round[d]
                      /\ Exchanging(d) => expected[d] > 0
  BY DEF NoStrayMessage, NetworkInv
<1> DEFINE s == m.data.sender
           k == m.data.round
<1>2. /\ s \in Rank /\ k \in 1..Len(script) /\ round[d] = k
      /\ Owes(script, s, d, k) /\ s # d /\ Past(s, k)
  BY <1>1 DEF InFlight, Owes, TypeOK, Message, HasSent
<1>3. pc[d] # "call"
  <2>1. ~IsLocal(script[k], s) /\ ~IsLocal(script[k], d)
    BY <1>2, OwingTakesPart DEF TypeOK
  <2>2. k <= Entered(d)
    BY <1>2, <2>1 DEF BarrierInv
  <2>3. QED
    BY <1>2, <2>2 DEF Entered, TypeOK
<1>4. m.comm = Inter(d) /\ m.to = RankId[Inter(d)][d]
  BY <1>1, <1>2 DEF InFlight, Inter, Call
<1>5. ASSUME Exchanging(d) PROVE expected[d] > 0
  <2> DEFINE i == RankId[Call(d).initial][s]
  <2>1. i \in Sources(d) /\ i \notin SourcesSeen(d) /\ IsFiniteSet(Sources(d))
    BY <1>1, <1>2, <1>3, <1>5, OwedIsCounted DEF InFlight, Call
  <2>2. i # InitialId(d)
    BY <1>2, <1>3, CurrentCall, RankIdInjective DEF InitialId, Owes, Call, IsCall, CallRecord
  <2>3. CASE pc[d] = "receive"
    <3>1. IsFiniteSet(Sources(d) \ SourcesSeen(d)) /\ Sources(d) \ SourcesSeen(d) # {}
      BY <2>1, FS_Subset
    <3>2. Cardinality(Sources(d) \ SourcesSeen(d)) # 0
      BY <3>1, FS_EmptySet
    <3>3. Cardinality(Sources(d) \ SourcesSeen(d)) \in Nat
      BY <3>1, FS_CardinalityType
    <3>4. QED
      BY <1>5, <2>3, <3>2, <3>3 DEF ExpectedInv
  <2>4. CASE pc[d] # "receive"
    <3>1. IsFiniteSet(Sources(d) \ {InitialId(d)}) /\ Sources(d) \ {InitialId(d)} # {}
      BY <2>1, <2>2, FS_RemoveElement
    <3>2. Cardinality(Sources(d) \ {InitialId(d)}) # 0
      BY <3>1, FS_EmptySet
    <3>3. Cardinality(Sources(d) \ {InitialId(d)}) \in Nat /\ Cardinality(Sources(d)) \in Nat
      BY <2>1, <3>1, FS_CardinalityType
    <3>4. Cardinality(Sources(d) \ {InitialId(d)})
            = IF KeepsData(d) THEN Cardinality(Sources(d)) - 1 ELSE Cardinality(Sources(d))
      BY <1>3, <2>1, OwedIsCounted, FS_RemoveElement
    <3>5. expected[d] = Cardinality(Sources(d)) - (IF KeepsData(d) THEN 1 ELSE 0)
      BY <1>5, <2>4 DEF ExpectedInv
    <3>6. CASE KeepsData(d)
      BY <3>2, <3>3, <3>4, <3>5, <3>6
    <3>7. CASE ~KeepsData(d)
      BY <3>2, <3>3, <3>4, <3>5, <3>7
    <3>8. QED
      BY <3>6, <3>7
  <2>5. QED
    BY <2>3, <2>4
<1>6. QED
  BY <1>2, <1>3, <1>4, <1>5

-----------------------------------------------------------------------------
(***************************************************************************)
(* The results                                                             *)
(***************************************************************************)

\* The invariant holds of every program in every state it can reach.
THEOREM Invariance == Spec => []IInv
<1>1. Init => IInv
  BY InitInvariant
<1>2. IInv /\ [Next]_vars => IInv'
  <2> SUFFICES ASSUME IInv, [Next]_vars PROVE IInv'
    OBVIOUS
  <2>1. TypeOK' /\ RoundInv'
    BY TypeStep, RoundStep DEF IInv
  <2>2. CallsInv' /\ GatheredInv' /\ InfoInv' /\ BarrierInv'
    BY CallsStep, GatheredStep, InfoStep, BarrierStep DEF IInv
  <2>3. UnsentInv' /\ FinishedInv'
    BY UnsentStep, FinishedStep DEF IInv
  <2>4. NetworkInv' /\ UniqueInv' /\ ReceivedInv' /\ ExpectedInv' /\ ResultsInv'
    BY NetworkStep, UniqueStep, ReceivedStep, ExpectedStep, ResultsStep
  <2>5. QED
    BY <2>1, <2>2, <2>3, <2>4 DEF IInv
<1>3. QED
  BY <1>1, <1>2, PTL DEF Spec

\* Every variable of the protocol keeps its type.
THEOREM TypeCorrect == Spec => []TypeOK
<1>1. IInv => TypeOK
  BY DEF IInv
<1>2. QED
  BY <1>1, Invariance, PTL

\* MPI_Allgather calls that MPI matches belong to the same shuffle.
THEOREM CollectivesMatch == Spec => []CollectivesAgree
<1>1. IInv => CollectivesAgree
  BY AgreementFromInvariant
<1>2. QED
  BY <1>1, Invariance, PTL

\* No shuffle ever copies a piece of another shuffle into its result, nor one
\* sender's piece over the blocks of another.
THEOREM Isolation == Spec => []NoCrossTalk
<1>1. IInv => NoCrossTalk
  BY IsolationFromInvariant
<1>2. QED
  BY <1>1, Invariance, PTL

\* A message in flight always finds its receiver in its own shuffle, waiting.
THEOREM EveryMessageAwaited == Spec => []NoStrayMessage
<1>1. IInv => NoStrayMessage
  BY AwaitedFromInvariant
<1>2. QED
  BY <1>1, Invariance, PTL

\* Every shuffle that has returned gave its caller the whole of what the two
\* distributions promise it.
THEOREM Completeness == Spec => []ResultsComplete
<1>1. IInv => ResultsComplete
  BY DEF IInv, ResultsInv, ResultsComplete
<1>2. QED
  BY <1>1, Invariance, PTL

-----------------------------------------------------------------------------
(***************************************************************************)
(* That the message protocol implements the promise of Redistribution.tla, *)
(* for every program, on any number of processes and communicators,        *)
(* whatever MPI does with its sends.  Entering the MPI_Allgather is the    *)
(* step in which a call begins, MPI_Waitall the one in which it returns;   *)
(* what lies between leaves no trace in the promise.                       *)
(***************************************************************************)

\* The two modules speak of the same programs: ShuffleCalls is seen once by
\* extension and once through the instance.
LEMMA SamePrograms ==
  ASSUME NEW s, NEW r, NEW k
  PROVE  /\ Abstract!IsLocal(s, r) <=> IsLocal(s, r)
         /\ Abstract!Participants(s) = Participants(s)
         /\ Abstract!Expected(s, k, r) = Expected(s, k, r)
<1>1. \A c : Abstract!Members(c) = Members(c)
  BY DEF Abstract!Members, Members, Abstract!INVALID_RANK_ID, INVALID_RANK_ID
<1>2. \A q : Abstract!IsLocal(s, q) <=> IsLocal(s, q)
  BY <1>1 DEF Abstract!IsLocal, IsLocal
<1>3. Abstract!Participants(s) = Participants(s)
  BY <1>2 DEF Abstract!Participants, Participants
<1>4. Abstract!Expected(s, k, r) = Expected(s, k, r)
  BY <1>1 DEF Abstract!Expected, Expected, Abstract!Piece, Piece
<1>5. QED
  BY <1>2, <1>3, <1>4

\* The refinement mapping counts the calls that a process has entered.
LEMMA BegunIsEntered ==
  ASSUME TypeOK
  PROVE  /\ begunBar \in [Rank -> Nat]
         /\ \A r \in Rank : begunBar[r] = Entered(r)
  BY DEF begunBar, Entered, TypeOK

\* A process is idle for the promise when it is between two calls.
LEMMA IdleBetweenCalls ==
  ASSUME IInv, NEW r \in Rank
  PROVE  /\ Len(results[r]) = round[r] - 1
         /\ begunBar[r] = Len(results[r]) <=> pc[r] = "call"
         /\ pc[r] = "call" => begunBar[r] + 1 = round[r]
         /\ pc[r] # "call" => begunBar[r] = round[r]
  BY DEF IInv, TypeOK, ResultsInv, begunBar

LEMMA InitImplements == Init => Abstract!Init
  BY DEF Init, Abstract!Init, begunBar

\* A call that returns at once begins and returns in one step.
LEMMA ReturnImmediatelyImplements ==
  ASSUME IInv, NEW r \in Rank, ReturnImmediately(r)
  PROVE  Abstract!ReturnImmediately(r)
<1>1. Abstract!Idle(r) /\ begunBar[r] + 1 = round[r] /\ begunBar[r] = round[r] - 1
  BY IdleBetweenCalls DEF ReturnImmediately, Abstract!Idle, begunBar, IInv, TypeOK
<1>2. begunBar[r] < Len(script) /\ IsLocal(script[begunBar[r] + 1], r)
  BY <1>1, ScriptAssumption DEF ReturnImmediately, Call, IInv, TypeOK
<1>3. begunBar' = [begunBar EXCEPT ![r] = @ + 1]
  <2>1. /\ round[r] \in Nat
        /\ \A q \in Rank : begunBar[q] = IF pc[q] = "call" THEN round[q] - 1 ELSE round[q]
        /\ \A q \in Rank : begunBar'[q] = IF pc'[q] = "call" THEN round'[q] - 1 ELSE round'[q]
    BY DEF begunBar, IInv, TypeOK
  <2>2. /\ pc[r] = "call" /\ pc'[r] = "call" /\ round'[r] = round[r] + 1
        /\ \A q \in Rank : q # r => pc'[q] = pc[q] /\ round'[q] = round[q]
    BY DEF ReturnImmediately, IInv, TypeOK
  <2>3. begunBar'[r] = begunBar[r] + 1
    BY <2>1, <2>2
  <2>4. \A q \in Rank : q # r => begunBar'[q] = begunBar[q]
    BY <2>1, <2>2
  <2>5. QED
    BY <2>3, <2>4 DEF begunBar
<1>4. results' = [results EXCEPT ![r] =
                    Append(@, Expected(script[begunBar[r] + 1], begunBar[r] + 1, r))]
  <2>1. PICK x : x = (IF KeepsData(r)
                      THEN {[source |-> InitialId(r), data |-> Piece(r, round[r])]}
                      ELSE {})
    OBVIOUS
  <2>2. x = Expected(script[begunBar[r] + 1], begunBar[r] + 1, r)
    BY <1>1, <2>1, LocalResult DEF Call, IInv
  <2>3. QED
    BY <2>1, <2>2 DEF ReturnImmediately
<1>5. QED
  BY <1>1, <1>2, <1>3, <1>4, SamePrograms DEF ReturnImmediately, Abstract!ReturnImmediately

\* A call begins when its process enters the MPI_Allgather.
LEMMA EnterAllgatherImplements ==
  ASSUME IInv, NEW r \in Rank, EnterAllgather(r)
  PROVE  Abstract!Begin(r)
<1>1. Abstract!Idle(r) /\ begunBar[r] + 1 = round[r] /\ begunBar[r] = round[r] - 1
  BY IdleBetweenCalls DEF EnterAllgather, Abstract!Idle, begunBar, IInv, TypeOK
<1>2. begunBar[r] < Len(script) /\ ~IsLocal(script[begunBar[r] + 1], r)
  BY <1>1, ScriptAssumption DEF EnterAllgather, Call, IInv, TypeOK
<1>3. begunBar' = [begunBar EXCEPT ![r] = @ + 1]
  <2>1. /\ round[r] \in Nat
        /\ \A q \in Rank : begunBar[q] = IF pc[q] = "call" THEN round[q] - 1 ELSE round[q]
        /\ \A q \in Rank : begunBar'[q] = IF pc'[q] = "call" THEN round'[q] - 1 ELSE round'[q]
    BY DEF begunBar, IInv, TypeOK
  <2>2. /\ pc[r] = "call" /\ pc'[r] = "allgather" /\ round'[r] = round[r]
        /\ \A q \in Rank : q # r => pc'[q] = pc[q] /\ round'[q] = round[q]
    BY DEF EnterAllgather, IInv, TypeOK
  <2>3. begunBar'[r] = begunBar[r] + 1
    BY <2>1, <2>2
  <2>4. \A q \in Rank : q # r => begunBar'[q] = begunBar[q]
    BY <2>1, <2>2
  <2>5. QED
    BY <2>3, <2>4 DEF begunBar
<1>4. QED
  BY <1>1, <1>2, <1>3, SamePrograms DEF EnterAllgather, Abstract!Begin

\* A call returns from MPI_Waitall: by then every participant has entered it,
\* and what has been received is what the plan promises.
LEMMA WaitallImplements ==
  ASSUME IInv, NEW r \in Rank, Waitall(r)
  PROVE  Abstract!Return(r)
<1>1. /\ pc[r] # "call" /\ Exchanging(r) /\ ~Abstract!Idle(r)
      /\ begunBar[r] = round[r]
  BY IdleBetweenCalls DEF Waitall, Exchanging, Abstract!Idle, begunBar
<1>2. round[r] \in 1..Len(script) /\ ~IsLocal(Call(r), r)
  BY <1>1, ScriptAssumption DEF IInv, TypeOK, RoundInv
<1>3. ASSUME NEW q \in Participants(Call(r)) PROVE begunBar[q] >= round[r]
  <2>1. q \in Rank /\ ~IsLocal(Call(r), q)
    BY DEF Participants
  <2>2. Past(r, round[r])
    BY <1>1 DEF Past
  <2>3. round[r] <= Entered(q)
    BY <1>2, <2>1, <2>2 DEF IInv, BarrierInv, Call
  <2>4. QED
    BY <1>2, <2>1, <2>3, BegunIsEntered DEF IInv
<1>4. begunBar' = begunBar
  <2>1. /\ round[r] \in Nat
        /\ pc[r] # "call" /\ pc'[r] = "call" /\ round'[r] = round[r] + 1
        /\ \A q \in Rank : q # r => pc'[q] = pc[q] /\ round'[q] = round[q]
    BY DEF Waitall, IInv, TypeOK
  <2>2. QED
    BY <2>1 DEF begunBar
<1>5. results' = [results EXCEPT ![r] =
                    Append(@, Expected(script[begunBar[r]], begunBar[r], r))]
  BY <1>1, ExchangeResult DEF Waitall, Call
<1>6. \A q \in Abstract!Participants(script[begunBar[r]]) : begunBar[q] >= begunBar[r]
  <2>1. Abstract!Participants(script[begunBar[r]]) = Participants(Call(r))
    BY <1>1, SamePrograms DEF Call
  <2>2. QED
    BY <1>1, <1>3, <2>1
<1>7. results' = [results EXCEPT ![r] =
                    Append(@, Abstract!Expected(script[begunBar[r]], begunBar[r], r))]
  BY <1>5, SamePrograms
<1>8. QED
  BY <1>1, <1>4, <1>6, <1>7 DEF Waitall, Abstract!Return

\* The steps in between are the protocol's own.
LEMMA OtherStepsStutter ==
  ASSUME IInv, NEW r \in Rank,
         \/ LeaveAllgather(r) \/ Isend(r) \/ WaitSerialized(r)
         \/ CopyOwn(r) \/ Receive(r)
  PROVE  UNCHANGED <<script, begunBar, results>>
<1>1. UNCHANGED <<script, round, results>> /\ pc[r] # "call"
  BY DEF LeaveAllgather, Isend, WaitSerialized, CopyOwn, Receive
<1>2. /\ pc'[r] # "call"
      /\ \A q \in Rank : q # r => pc'[q] = pc[q]
  BY DEF LeaveAllgather, Isend, WaitSerialized, CopyOwn, Receive, IInv, TypeOK
<1>3. begunBar' = begunBar
  BY <1>1, <1>2 DEF begunBar
<1>4. QED
  BY <1>1, <1>3

LEMMA NextImplements ==
  ASSUME IInv, [Next]_vars
  PROVE  [Abstract!Next]_(Abstract!vars)
<1>1. ASSUME NEW r \in Rank, Step(r) PROVE [Abstract!Next]_(Abstract!vars)
  <2>1. CASE ReturnImmediately(r)
    BY <2>1, ReturnImmediatelyImplements DEF Abstract!Next
  <2>2. CASE EnterAllgather(r)
    BY <2>2, EnterAllgatherImplements DEF Abstract!Next
  <2>3. CASE Waitall(r)
    BY <2>3, WaitallImplements DEF Abstract!Next
  <2>4. CASE \/ LeaveAllgather(r) \/ Isend(r) \/ WaitSerialized(r)
             \/ CopyOwn(r) \/ Receive(r)
    BY <2>4, OtherStepsStutter DEF Abstract!vars
  <2>5. QED
    BY <1>1, <2>1, <2>2, <2>3, <2>4 DEF Step
<1>2. CASE UNCHANGED vars
  BY <1>2 DEF vars, Abstract!vars, begunBar
<1>3. QED
  BY <1>1, <1>2 DEF Next, Terminating

\* Whatever the messages do, a program sees calls that return only when every
\* participant has made them, and that return what the distributions promise.
THEOREM Refinement == Spec => ImplementsRedistribution
<1>1. Init => Abstract!Init
  BY InitImplements
<1>2. IInv /\ [Next]_vars => [Abstract!Next]_(Abstract!vars)
  BY NextImplements
<1>3. QED
  BY <1>1, <1>2, Invariance, PTL DEF Spec, Abstract!Spec, ImplementsRedistribution
=============================================================================

--------------------------- MODULE Redistribution ---------------------------
(***************************************************************************)
(* What shuffle() promises to a program, with no message in sight: a call  *)
(* returns on a process only after every participant has made the same     *)
(* call, and returns exactly the pieces that the plan assigns to it, from  *)
(* that call and no other.                                                 *)
(***************************************************************************)
EXTENDS ShuffleCalls

VARIABLES
  script,    \* the program
  begun,     \* begun[r]: how many calls r has made
  results    \* results[r]: what those that have returned gave r

vars == <<script, begun, results>>

Init ==
  /\ script \in Scripts
  /\ begun = [r \in Rank |-> 0]
  /\ results = [r \in Rank |-> <<>>]

Idle(r) == begun[r] = Len(results[r])

Begin(r) ==
  /\ Idle(r)
  /\ begun[r] < Len(script)
  /\ ~IsLocal(script[begun[r] + 1], r)
  /\ begun' = [begun EXCEPT ![r] = @ + 1]
  /\ UNCHANGED <<script, results>>

Return(r) ==
  /\ ~Idle(r)
  /\ \A q \in Participants(script[begun[r]]) : begun[q] >= begun[r]
  /\ results' = [results EXCEPT
                   ![r] = Append(@, Expected(script[begun[r]], begun[r], r))]
  /\ UNCHANGED <<script, begun>>

ReturnImmediately(r) ==
  /\ Idle(r)
  /\ begun[r] < Len(script)
  /\ IsLocal(script[begun[r] + 1], r)
  /\ begun' = [begun EXCEPT ![r] = @ + 1]
  /\ results' = [results EXCEPT
                   ![r] = Append(@, Expected(script[begun[r] + 1], begun[r] + 1, r))]
  /\ UNCHANGED script

Next == \E r \in Rank : Begin(r) \/ Return(r) \/ ReturnImmediately(r)

Spec == Init /\ [][Next]_vars
=============================================================================

-------------------------------- MODULE Sums --------------------------------
(***************************************************************************)
(* Sums and products over sequences and the like, by recursive functions,  *)
(* which unlike folds can be reasoned about.                               *)
(***************************************************************************)
EXTENDS Integers

\* f[1] + ... + f[n]
SumTo(f, n) ==
  LET s[k \in 0..n] == IF k = 0 THEN 0 ELSE s[k-1] + f[k]
  IN  s[n]

\* f[1] * ... * f[n]
ProductTo(f, n) ==
  LET s[k \in 0..n] == IF k = 0 THEN 1 ELSE s[k-1] * f[k]
  IN  s[n]
=============================================================================

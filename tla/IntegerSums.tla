---------------------------- MODULE IntegerSums ----------------------------
(***************************************************************************)
(* Sums of integer-valued functions on 1..n, written as a recursive        *)
(* function so that they can be both evaluated by TLC and reasoned about.  *)
(* The ledger sums of Inventory and its in-flight totals are instances.    *)
(***************************************************************************)
EXTENDS Integers

\* PartialSums(f, n)[k] is f[1] + ... + f[k], for k in 0..n.
PartialSums(f, n) ==
  LET s[k \in 0..n] == IF k = 0 THEN 0 ELSE s[k-1] + f[k] IN s

\* f[1] + ... + f[n].
SumOf(f, n) == PartialSums(f, n)[n]
=============================================================================

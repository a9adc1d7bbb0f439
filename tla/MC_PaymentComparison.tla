------------------------ MODULE MC_PaymentComparison ------------------------
(* Instances of PaymentComparison for TLC.                                 *)
EXTENDS PaymentComparison, TLC

\* No definition tells two requests, keys, bodies or expense ids apart.
Symmetry == Permutations(Requests) \cup Permutations(Keys) \cup Permutations(Bodies)
            \cup Permutations(Expenses)
=============================================================================

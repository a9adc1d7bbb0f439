------------------------------ MODULE MC_Account ------------------------------
(* Handlers and passwords are interchangeable: the properties are of safety. *)
EXTENDS Account, TLC

Symmetry == Permutations(Requests) \cup Permutations(Passwords)
=============================================================================

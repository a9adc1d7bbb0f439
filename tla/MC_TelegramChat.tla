--------------------------- MODULE MC_TelegramChat ---------------------------
(* Ana has two incomes and room for an expense, which Ben would see too.   *)
EXTENDS TelegramChat, TLC

CONSTANTS ana, ben, salary, gift, coffee

Kind == [e \in Entries |-> IF e = coffee THEN "expense" ELSE "income"]
Owner == [e \in Entries |-> ana]
Visible == [e \in Entries |-> IF e = coffee THEN {ana, ben} ELSE {ana}]

\* No definition tells two handlers, two amounts or the two incomes apart.
Symmetry == Permutations(Requests) \cup Permutations(Amounts) \cup Permutations({salary, gift})
=============================================================================

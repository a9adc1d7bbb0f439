----------------------------- MODULE OneExpense -----------------------------
(***************************************************************************)
(* What the conversion of a payment comparison promises its clients, with  *)
(* no word of rows, handlers or clocks: a comparison that was offered is   *)
(* either withdrawn or sold, once, as one expense; and every successful    *)
(* answer, the first or a retry, names the sale its own key and body made. *)
(***************************************************************************)
CONSTANTS Comparisons, Expenses, Keys, Bodies

VARIABLES
  offered,   \* comparisons ever offered
  open,      \* those that may still be sold
  sales,     \* what was sold
  answers    \* the successful answers clients got

Sale == [comparison : Comparisons, expense : Expenses, key : Keys, body : Bodies]

Init ==
  /\ offered = {}
  /\ open = {}
  /\ sales = {}
  /\ answers = {}

Offer(c) ==
  /\ c \notin offered
  /\ offered' = offered \cup {c}
  /\ open' = open \cup {c}
  /\ UNCHANGED <<sales, answers>>

Withdraw(C) ==
  /\ open' = open \ C
  /\ UNCHANGED <<offered, sales, answers>>

Sell(s) ==
  /\ s.comparison \in open
  /\ \A t \in sales : t.expense # s.expense
  /\ open' = open \ {s.comparison}
  /\ sales' = sales \cup {s}
  /\ answers' = answers \cup {s}
  /\ UNCHANGED offered

Confirm(s) ==
  /\ s \in sales
  /\ answers' = answers \cup {s}
  /\ UNCHANGED <<offered, open, sales>>

Next ==
  \/ \E c \in Comparisons : Offer(c)
  \/ \E C \in SUBSET Comparisons : Withdraw(C)
  \/ \E s \in Sale : Sell(s) \/ Confirm(s)

Spec == Init /\ [][Next]_<<offered, open, sales, answers>>
=============================================================================

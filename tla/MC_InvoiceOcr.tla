---------------------------- MODULE MC_InvoiceOcr ----------------------------
(* Receipts for TLC: a total in dollars beside a price written VES or Bs,  *)
(* a short ticket the other way round, a bank receipt whose operation only *)
(* one engine reads.                                                       *)
EXTENDS InvoiceOcr

Text(quality, lines, date) == [quality |-> quality, lines |-> lines, date |-> date]
Money(label, amount, notation) == [label |-> label, amount |-> amount, notation |-> notation]

MCReadings ==
  {Text("substantial", <<Money("plain", 2, "VES"), Money("total", 1, "USD")>>, 1),
   Text("substantial", <<Money("plain", 2, "BS"), Money("total", 1, "USD")>>, 1),
   Text("substantial", <<Money("operation", 0, "")>>, 0),
   Text("short", <<Money("plain", 2, "USD"), Money("total", 1, "VES")>>, 0),
   Nothing}

MCTranscriptions ==
  {Text("substantial", <<Money("total", 1, "USD"), Money("inBs", 2, "")>>, 2),
   Text("echo", <<Money("plain", 2, "")>>, 0)}

\* Every answer is of its type; checking it first, TLC reads each receipt once.
ASSUME AnswersAreTyped ==
  /\ Alone \in [Readings -> Answers]
  /\ Both \in [Readings -> [Transcriptions \cup {Nothing} -> Answers]]
=============================================================================

---------------------------- MODULE InvoiceText ----------------------------
(***************************************************************************)
(* What is read off a receipt (ocr/parsing): the fields of one transcript  *)
(* and how those of Tesseract and of the cloud engine are merged.          *)
(*                                                                         *)
(* A transcript is its lines of money in order, told apart by their label  *)
(* and by how they write the currency, and a date, which stands for the    *)
(* merchant and the description as well: the three are merged alike.       *)
(* Amounts are numbers that matter only by being equal or different; 0 is  *)
(* an amount nobody could read.                                            *)
(***************************************************************************)
EXTENDS Naturals, Sequences

\* "total" is the label "TOTAL A PAGAR", "operation" that of a bank's "Monto operacion", "inBs" and
\* "inUsd" the ones with the currency inside, "Monto (Bs.)" and "Monto (USD)".
Labels == {"total", "operation", "inBs", "inUsd", "plain"}
Currencies == {"", "BS", "USD"}

\* How a line writes it: "Bs 10" or "bolivares"; "VES 10"; "Bg 10", or "10Bs" in one word; "tasa
\* BCU", the rate of the central bank; "$ 10" or "USD"; or not at all.
InBolivars == {"BS", "VES", "Bg"}
Notations == InBolivars \cup {"BCU", "USD", ""}

\* quality: long enough to trust, shorter, the prompt given back (by the cloud engine only), or
\* no text to speak of, which has no line of money.
Qualities == {"substantial", "short", "echo", "degenerate"}
Nothing == [quality |-> "degenerate", lines |-> <<>>, date |-> 0]
Lines == [label : Labels, amount : Nat, notation : Notations]
NoLine == [label |-> "plain", amount |-> 0, notation |-> ""]
Transcripts ==
  {t \in [quality : Qualities, lines : Seq(Lines), date : Nat] :
     t.quality = "degenerate" => t.lines = <<>>}

-----------------------------------------------------------------------------
(* Lines.                                                                  *)

Latest(S) == CHOOSE n \in S : \A m \in S : m <= n
Earliest(S) == CHOOSE n \in S : \A m \in S : m >= n

LineAt(lines, hits) == IF hits = {} THEN NoLine ELSE lines[Latest(hits)]
LastOf(lines, label) == LineAt(lines, {n \in DOMAIN lines : lines[n].label = label})
LastPlain(lines, notation) ==
  LineAt(lines, {n \in DOMAIN lines : lines[n].label = "plain" /\ lines[n].notation = notation})

LineSet(lines) == {lines[n] : n \in DOMAIN lines}
Mentions(lines) ==
  {lines[n].notation : n \in DOMAIN lines}
  \cup {IF lines[n].label = "inBs" THEN "BS" ELSE "USD" :
          n \in {m \in DOMAIN lines : lines[m].label \in {"inBs", "inUsd"}}}

\* inferCurrencyNearAmount: in the text beside an amount, bolivares written in any way win.
Near(mentions) ==
  IF mentions \cap InBolivars # {} THEN "BS" ELSE IF "USD" \in mentions THEN "USD" ELSE ""

\* inferCurrencyHintFromContext: in a document, dollars outweigh all but "Bs" and "bolivares"; the
\* code VES and the rate count where nobody speaks of dollars, "Bg" and "10Bs" nowhere.
Hint(mentions) ==
  IF "BS" \in mentions THEN "BS"
  ELSE IF "USD" \in mentions THEN "USD"
  ELSE IF mentions \cap {"VES", "BCU"} # {} THEN "BS" ELSE ""

FirstCurrency(candidates) ==
  LET named == {n \in DOMAIN candidates : candidates[n] # ""} IN
  IF named = {} THEN "" ELSE candidates[Earliest(named)]

-----------------------------------------------------------------------------
(* One transcript.                                                         *)

\* parseMoneyFragment: the amount and the currency of a piece of text.
Worth(amount, currency) == [amount |-> amount, currency |-> currency]
Priced(line) == Worth(line.amount, Near({line.notation}))
Bare(line) == Worth(line.amount, "")

\* STRUCTURED_FIELD_RULES, in order, and extractStructuredFields: the last line of each rule; a
\* later rule that reads an amount replaces it, and the currency stays when its line names none.
Structured(lines) ==
  LET hits == <<Priced(LastOf(lines, "total")), Priced(LastOf(lines, "operation")),
                Priced(LastOf(lines, "inBs")), Priced(LastOf(lines, "inUsd"))>>
      read == {k \in DOMAIN hits : hits[k].amount # 0}
      named == {k \in read : hits[k].currency # ""}
  IN Worth(IF read = {} THEN 0 ELSE hits[Latest(read)].amount,
           IF named = {} THEN "" ELSE hits[Latest(named)].currency)

\* extractAmountFromText: the labelled patterns in order, "Bs" and "$" before a number, then the
\* last money of the text, which has the whole text beside it.
Heuristic(lines) ==
  LET money == LineAt(lines, {n \in DOMAIN lines : lines[n].amount # 0})
      candidates ==
        <<Priced(LastOf(lines, "operation")), Priced(LastOf(lines, "inBs")),
          Priced(LastOf(lines, "inUsd")), Priced(LastOf(lines, "total")),
          Bare(LastPlain(lines, "BS")), Bare(LastPlain(lines, "USD")),
          Worth(money.amount, Near(Mentions(lines)))>>
      read == {k \in DOMAIN candidates : candidates[k].amount # 0}
      hit == IF read = {} THEN Worth(0, "") ELSE candidates[Earliest(read)]
  IN Worth(hit.amount, FirstCurrency(<<hit.currency, Hint(Mentions(lines)), "USD">>))

\* parseInvoiceTextBlob.
Parse(t) ==
  LET s == Structured(t.lines)
      h == Heuristic(t.lines)
  IN [amount |-> IF s.amount # 0 THEN s.amount ELSE h.amount, date |-> t.date,
      structured |-> s, heuristic |-> h]
Blank == Parse(Nothing)

-----------------------------------------------------------------------------
(* The answer.                                                             *)

\* The currencies a transcript offers for the amount, the structured one first.
Offered(fields) ==
  <<IF fields.structured.amount # 0 THEN fields.structured.currency ELSE "",
    IF fields.heuristic.amount # 0 THEN fields.heuristic.currency ELSE "">>

\* Mutant: what the source of the amount says comes before what the document says.
CurrencyOfItsLine(amount, mentions, tess, cloud) ==
  FirstCurrency((IF amount # 0 /\ amount = tess.amount THEN Offered(tess)
                 ELSE IF amount # 0 /\ amount = cloud.amount THEN Offered(cloud) ELSE <<"", "">>)
                \o <<Hint(mentions), "USD">>)

\* resolveCurrencyForMergedAmount, resolveInvoiceCurrency: bolivares offered with the amount or
\* hinted at by the document win.
CurrencyOf(amount, mentions, tess, cloud) ==
  LET offered == IF amount # 0 /\ amount = tess.amount THEN Offered(tess)
                 ELSE IF amount # 0 /\ amount = cloud.amount THEN Offered(cloud) ELSE <<"", "">>
  IN IF "BS" \in {Hint(mentions), offered[1], offered[2]} THEN "BS"
     ELSE FirstCurrency(offered \o <<Hint(mentions), "USD">>)

Answer(amount, date, currency) == [amount |-> amount, date |-> date, currency |-> currency]
Answers == [amount : Nat, date : Nat, currency : {"BS", "USD"}]
Or(a, b) == IF a # 0 THEN a ELSE b

\* buildParseInvoiceFromTesseract.
FromTesseract(t) ==
  LET fields == IF t.quality = "degenerate" THEN Blank ELSE Parse(t)
  IN Answer(fields.amount, fields.date,
            CurrencyOf(fields.amount, Mentions(t.lines), fields, Blank))

Garbage(c) == c.quality \in {"echo", "degenerate"}
HasOperation(t) == \E n \in DOMAIN t.lines : t.lines[n].label \in {"operation", "inBs", "inUsd"}

\* buildParseInvoiceHybrid: Tesseract first, the cloud engine where Tesseract read nothing, its
\* "Monto operacion" when Tesseract lost that line; the currency is settled before the
\* fields of two unusable transcripts are dropped.
Merged(t, c) ==
  LET tess == Parse(t)
      cloud == Parse(c)
      fromCloud == HasOperation(c) /\ ~HasOperation(t) /\ ~Garbage(c) /\ cloud.amount # 0
      amount == IF fromCloud THEN cloud.amount ELSE Or(tess.amount, cloud.amount)
      currency == CurrencyOf(amount, Mentions(t.lines \o c.lines), tess, cloud)
  IN IF t.quality # "substantial" /\ Garbage(c) THEN Answer(0, 0, currency)
     ELSE IF t.quality = "degenerate" THEN Answer(Or(cloud.amount, amount), Or(c.date, t.date), currency)
     ELSE Answer(amount, Or(t.date, c.date), currency)
=============================================================================

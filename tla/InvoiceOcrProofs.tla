-------------------------- MODULE InvoiceOcrProofs --------------------------
(***************************************************************************)
(* Proofs about InvoiceOcr, for any transcripts, any limit and any number  *)
(* of handlers: what one transcript gives, what the merge of two gives,    *)
(* and the inductive invariant of the legs and of the quota.               *)
(***************************************************************************)
EXTENDS InvoiceOcr, FiniteSetTheorems, SequenceTheorems, WellFoundedInduction, TLAPS

-----------------------------------------------------------------------------
(* Lines.                                                                  *)

\* Every non-empty set of naturals has a least element.
LEMMA LeastNatural ==
  ASSUME NEW T \in SUBSET Nat, T # {}
  PROVE  \E x \in T : \A y \in T : x <= y
<1>1. PICK x \in T : \A y \in T : ~ (<<y, x>> \in OpToRel(<, Nat))
  BY NatLessThanWellFounded, WFMin
<1>2. ASSUME NEW y \in T PROVE x <= y
  <2>1. x \in Nat /\ y \in Nat /\ ~ (y < x)
    BY <1>1 DEF OpToRel
  <2> QED
    BY <2>1
<1> QED
  BY <1>2

\* The first and the last of some positions are among them.
LEMMA EarliestIn ==
  ASSUME NEW n \in Nat, NEW S \in SUBSET (1..n), S # {}
  PROVE  Earliest(S) \in S /\ \A m \in S : m >= Earliest(S)
<1>1. \E x \in S : \A y \in S : y >= x
  BY LeastNatural
<1> QED
  BY <1>1 DEF Earliest

LEMMA LatestIn ==
  ASSUME NEW n \in Nat, NEW S \in SUBSET (1..n), S # {}
  PROVE  Latest(S) \in S /\ \A m \in S : m <= Latest(S)
<1> DEFINE T == {n - k : k \in S}
<1>1. T \in SUBSET Nat /\ T # {}
  <2>1. \A k \in S : n - k \in Nat
    OBVIOUS
  <2> QED
    BY <2>1
<1>2. PICK x \in T : \A y \in T : x <= y
  BY <1>1, LeastNatural
<1>3. PICK k \in S : x = n - k
  OBVIOUS
<1>4. ASSUME NEW m \in S PROVE m <= k
  <2>1. n - m \in T
    OBVIOUS
  <2> HIDE DEF T
  <2> QED
    BY <1>2, <1>3, <2>1
<1> QED
  BY <1>4 DEF Latest

\* The line of some positions is a line.
LEMMA LineAtType ==
  ASSUME NEW lines \in Seq(Lines), NEW hits \in SUBSET DOMAIN lines
  PROVE  LineAt(lines, hits) \in Lines
<1>1. NoLine \in Lines
  BY DEF NoLine, Lines, Labels, Notations
<1>2. CASE hits # {}
  <2>1. DOMAIN lines = 1..Len(lines) /\ Len(lines) \in Nat
    OBVIOUS
  <2>2. Latest(hits) \in DOMAIN lines
    BY <1>2, <2>1, LatestIn
  <2>3. lines[Latest(hits)] \in Lines
    BY <2>1, <2>2, ElementOfSeq
  <2> QED
    BY <1>2, <2>3 DEF LineAt
<1> QED
  BY <1>1, <1>2 DEF LineAt

LEMMA LastOfType ==
  ASSUME NEW lines \in Seq(Lines), NEW label
  PROVE  LastOf(lines, label) \in Lines /\ LastPlain(lines, label) \in Lines
BY LineAtType DEF LastOf, LastPlain

\* A line that has an amount is one of those it was taken from.
LEMMA LineAtOwn ==
  ASSUME NEW lines \in Seq(Lines), NEW hits \in SUBSET DOMAIN lines, LineAt(lines, hits).amount # 0
  PROVE  \E n \in hits : LineAt(lines, hits) = lines[n]
<1>1. hits # {}
  BY DEF LineAt, NoLine
<1>2. DOMAIN lines = 1..Len(lines) /\ Len(lines) \in Nat
  OBVIOUS
<1>3. Latest(hits) \in hits
  BY <1>1, <1>2, LatestIn
<1> QED
  BY <1>1, <1>3 DEF LineAt

LEMMA LastOfOwn ==
  ASSUME NEW lines \in Seq(Lines), NEW label, LastOf(lines, label).amount # 0
  PROVE  \E n \in DOMAIN lines : LastOf(lines, label) = lines[n]
<1> DEFINE hits == {n \in DOMAIN lines : lines[n].label = label}
<1>1. hits \in SUBSET DOMAIN lines /\ LastOf(lines, label) = LineAt(lines, hits)
  BY DEF LastOf
<1> HIDE DEF hits
<1> QED
  BY <1>1, LineAtOwn

LEMMA LastPlainOwn ==
  ASSUME NEW lines \in Seq(Lines), NEW notation, LastPlain(lines, notation).amount # 0
  PROVE  \E n \in DOMAIN lines : LastPlain(lines, notation) = lines[n] /\ lines[n].notation = notation
<1> DEFINE hits == {n \in DOMAIN lines : lines[n].label = "plain" /\ lines[n].notation = notation}
<1>1. hits \in SUBSET DOMAIN lines /\ LastPlain(lines, notation) = LineAt(lines, hits)
  BY DEF LastPlain
<1>2. \A n \in hits : n \in DOMAIN lines /\ lines[n].notation = notation
  OBVIOUS
<1> HIDE DEF hits
<1> QED
  BY <1>1, <1>2, LineAtOwn

\* What an amount is worth: a number and a currency, maybe none.
Readable == [amount : Nat, currency : Currencies]

LEMMA NearType ==
  ASSUME NEW mentions
  PROVE  Near(mentions) \in Currencies
BY DEF Near, Currencies

LEMMA WorthType ==
  ASSUME NEW line \in Lines
  PROVE  /\ Priced(line) \in Readable /\ Bare(line) \in Readable
         /\ Priced(line).amount = line.amount /\ Bare(line).amount = line.amount
         /\ Priced(line).currency = Near({line.notation})
<1>1. "" \in Currencies /\ line.amount \in Nat
  BY DEF Lines, Currencies
<1> QED
  BY <1>1, NearType DEF Priced, Bare, Worth, Readable

\* A line in bolivares, however it writes them, is read as one.
LEMMA NearBolivars ==
  ASSUME NEW notation, NEW mentions, notation \in mentions, notation \in InBolivars
  PROVE  Near(mentions) = "BS"
BY DEF Near

\* The amount of some text is that of one of its lines; a line in bolivares gives bolivares.
OwnLine(lines, worth) ==
  \E n \in DOMAIN lines :
    /\ lines[n].amount = worth.amount
    /\ lines[n].notation \in InBolivars => worth.currency = "BS" \/ "BS" \in Mentions(lines)

LEMMA PricedOwn ==
  ASSUME NEW lines \in Seq(Lines), NEW label, LastOf(lines, label).amount # 0
  PROVE  OwnLine(lines, Priced(LastOf(lines, label)))
<1>1. PICK n \in DOMAIN lines : LastOf(lines, label) = lines[n]
  BY LastOfOwn
<1>2. lines[n] \in Lines
  BY <1>1, LastOfType
<1>3. /\ Priced(lines[n]).amount = lines[n].amount
      /\ lines[n].notation \in InBolivars => Priced(lines[n]).currency = "BS"
  BY <1>2, WorthType, NearBolivars
<1> QED
  BY <1>1, <1>3 DEF OwnLine

\* Of the candidates that gave an amount, the first and the last are candidates.
LEMMA StructuredType ==
  ASSUME NEW lines \in Seq(Lines)
  PROVE  /\ Structured(lines) \in Readable
         /\ Structured(lines).amount # 0 => OwnLine(lines, Structured(lines))
<1> DEFINE hits == <<Priced(LastOf(lines, "total")), Priced(LastOf(lines, "operation")),
                     Priced(LastOf(lines, "inBs")), Priced(LastOf(lines, "inUsd"))>>
           read == {k \in DOMAIN hits : hits[k].amount # 0}
           named == {k \in read : hits[k].currency # ""}
           amount == IF read = {} THEN 0 ELSE hits[Latest(read)].amount
           currency == IF named = {} THEN "" ELSE hits[Latest(named)].currency
<1>1. /\ DOMAIN hits = 1..4 /\ \A k \in 1..4 : hits[k] \in Readable
      /\ \A k \in 1..4 : hits[k].amount # 0 => OwnLine(lines, hits[k])
  <2>1. \A label : /\ Priced(LastOf(lines, label)) \in Readable
                   /\ Priced(LastOf(lines, label)).amount = LastOf(lines, label).amount
    BY LastOfType, WorthType
  <2> QED
    BY <2>1, PricedOwn
<1>2. read \in SUBSET (1..4) /\ named \in SUBSET (1..4) /\ named \subseteq read
  BY <1>1
<1>3. Structured(lines) = Worth(amount, currency)
  BY Zenon DEF Structured
<1>4. /\ \A k \in read : k \in 1..4 /\ hits[k].amount # 0
      /\ \A k \in read : hits[k].currency # "" => k \in named
      /\ 4 \in Nat
  BY <1>1
<1> HIDE DEF hits, read, named
<1>5. read # {} => Latest(read) \in read /\ \A k \in read : k <= Latest(read)
  BY <1>2, <1>4, LatestIn
<1>6. named # {} => Latest(named) \in named /\ \A k \in named : k <= Latest(named)
  BY <1>2, <1>4, LatestIn
<1>7. amount \in Nat /\ currency \in Currencies
  <2>1. amount \in Nat
    BY <1>1, <1>4, <1>5 DEF Readable
  <2>2. currency \in Currencies
    BY <1>1, <1>2, <1>6 DEF Readable, Currencies
  <2> QED
    BY <2>1, <2>2
<1>8. ASSUME amount # 0 PROVE OwnLine(lines, Worth(amount, currency))
  <2>1. read # {} /\ amount = hits[Latest(read)].amount
    BY <1>8
  <2>2. PICK n \in DOMAIN lines :
          /\ lines[n].amount = hits[Latest(read)].amount
          /\ lines[n].notation \in InBolivars =>
               hits[Latest(read)].currency = "BS" \/ "BS" \in Mentions(lines)
    BY <1>1, <1>4, <1>5, <2>1 DEF OwnLine
  <2>3. ASSUME hits[Latest(read)].currency = "BS" PROVE currency = "BS"
    <3>1. Latest(read) \in named
      BY <1>4, <1>5, <2>1, <2>3
    <3>2. /\ Latest(named) \in 1..4 /\ Latest(read) \in 1..4
          /\ Latest(read) <= Latest(named) /\ Latest(named) <= Latest(read)
      BY <1>2, <1>5, <1>6, <2>1, <3>1
    <3>3. Latest(named) = Latest(read)
      <4>1. \A a, b \in 1..4 : a <= b /\ b <= a => a = b
        OBVIOUS
      <4> QED
        BY <3>2, <4>1, Zenon
    <3> QED
      BY <2>3, <3>1, <3>3
  <2> HIDE DEF amount, currency
  <2> QED
    BY <2>1, <2>2, <2>3 DEF OwnLine, Worth
<1> HIDE DEF amount, currency
<1>9. Worth(amount, currency).amount = amount /\ Worth(amount, currency) \in Readable
  BY <1>7 DEF Worth, Readable
<1> QED
  BY <1>3, <1>8, <1>9

LEMMA FirstCurrencyType ==
  ASSUME NEW n \in Nat, NEW candidates, DOMAIN candidates = 1..n,
         \A k \in 1..n : candidates[k] \in Currencies
  PROVE  /\ FirstCurrency(candidates) \in Currencies
         /\ (\E k \in 1..n : candidates[k] # "") =>
              \E k \in 1..n : FirstCurrency(candidates) = candidates[k] /\ candidates[k] # ""
         /\ 1 \in 1..n /\ candidates[1] # "" => FirstCurrency(candidates) = candidates[1]
<1> DEFINE named == {k \in DOMAIN candidates : candidates[k] # ""}
<1>1. named \in SUBSET (1..n)
  OBVIOUS
<1>2. FirstCurrency(candidates) = IF named = {} THEN "" ELSE candidates[Earliest(named)]
  BY Zenon DEF FirstCurrency
<1>3. named # {} => Earliest(named) \in named /\ \A m \in named : m >= Earliest(named)
  BY <1>1, EarliestIn
<1>4. \A k : k \in named <=> k \in 1..n /\ candidates[k] # ""
  OBVIOUS
<1>5. "" \in Currencies
  BY DEF Currencies
<1> HIDE DEF named
<1>6. CASE named = {}
  BY <1>2, <1>4, <1>5, <1>6
<1>7. CASE named # {}
  <2>1. Earliest(named) \in 1..n /\ candidates[Earliest(named)] # ""
    BY <1>3, <1>4, <1>7
  <2>2. FirstCurrency(candidates) = candidates[Earliest(named)]
    BY <1>2, <1>7
  <2>3. ASSUME 1 \in 1..n, candidates[1] # "" PROVE Earliest(named) = 1
    <3>1. 1 >= Earliest(named) /\ Earliest(named) \in 1..n
      BY <1>3, <1>4, <1>7, <2>1, <2>3
    <3> QED
      BY <3>1
  <2> QED
    BY <2>1, <2>2, <2>3
<1> QED
  BY <1>6, <1>7

LEMMA HintType ==
  ASSUME NEW mentions
  PROVE  Hint(mentions) \in Currencies
BY DEF Hint, Currencies

LEMMA HeuristicType ==
  ASSUME NEW lines \in Seq(Lines)
  PROVE  /\ Heuristic(lines) \in Readable
         /\ Heuristic(lines).amount # 0 => OwnLine(lines, Heuristic(lines))
<1> DEFINE some == {n \in DOMAIN lines : lines[n].amount # 0}
           money == LineAt(lines, some)
           candidates ==
             <<Priced(LastOf(lines, "operation")), Priced(LastOf(lines, "inBs")),
               Priced(LastOf(lines, "inUsd")), Priced(LastOf(lines, "total")),
               Bare(LastPlain(lines, "BS")), Bare(LastPlain(lines, "USD")),
               Worth(money.amount, Near(Mentions(lines)))>>
           read == {k \in DOMAIN candidates : candidates[k].amount # 0}
           hit == IF read = {} THEN Worth(0, "") ELSE candidates[Earliest(read)]
           three == <<hit.currency, Hint(Mentions(lines)), "USD">>
<1>1. \A label : /\ Priced(LastOf(lines, label)) \in Readable
                 /\ Priced(LastOf(lines, label)).amount # 0 => OwnLine(lines, Priced(LastOf(lines, label)))
  BY LastOfType, WorthType, PricedOwn
<1>2. \A notation \in {"BS", "USD"} :
        /\ Bare(LastPlain(lines, notation)) \in Readable
        /\ Bare(LastPlain(lines, notation)).amount # 0 => OwnLine(lines, Bare(LastPlain(lines, notation)))
  <2> SUFFICES ASSUME NEW notation \in {"BS", "USD"}, Bare(LastPlain(lines, notation)).amount # 0
               PROVE  OwnLine(lines, Bare(LastPlain(lines, notation)))
    BY LastOfType, WorthType
  <2>1. Bare(LastPlain(lines, notation)).amount = LastPlain(lines, notation).amount
    BY LastOfType, WorthType
  <2>2. PICK n \in DOMAIN lines : LastPlain(lines, notation) = lines[n] /\ lines[n].notation = notation
    BY <2>1, LastPlainOwn
  <2>3. lines[n].notation \in InBolivars => "BS" \in Mentions(lines)
    BY <2>2 DEF InBolivars, Mentions
  <2> QED
    BY <2>1, <2>2, <2>3 DEF OwnLine
<1>3. /\ Worth(money.amount, Near(Mentions(lines))) \in Readable
      /\ Worth(money.amount, Near(Mentions(lines))).amount # 0 =>
           OwnLine(lines, Worth(money.amount, Near(Mentions(lines))))
  <2>1. money \in Lines
    BY LineAtType
  <2>2. /\ Worth(money.amount, Near(Mentions(lines))) \in Readable
        /\ Worth(money.amount, Near(Mentions(lines))).amount = money.amount
        /\ Worth(money.amount, Near(Mentions(lines))).currency = Near(Mentions(lines))
    <3> HIDE DEF money
    <3> QED
      BY <2>1, NearType DEF Worth, Readable, Lines
  <2>3. some \in SUBSET DOMAIN lines
    OBVIOUS
  <2> HIDE DEF some
  <2>4. ASSUME money.amount # 0 PROVE \E n \in DOMAIN lines : money = lines[n]
    BY <2>3, <2>4, LineAtOwn
  <2>5. ASSUME NEW n \in DOMAIN lines, lines[n].notation \in InBolivars
        PROVE  Near(Mentions(lines)) = "BS"
    <3>1. lines[n].notation \in Mentions(lines)
      BY DEF Mentions
    <3> QED
      BY <2>5, <3>1, NearBolivars
  <2> HIDE DEF money
  <2> QED
    BY <2>2, <2>4, <2>5 DEF OwnLine
<1> HIDE DEF some, money
<1>4. /\ DOMAIN candidates = 1..7 /\ \A k \in 1..7 : candidates[k] \in Readable
      /\ \A k \in 1..7 : candidates[k].amount # 0 => OwnLine(lines, candidates[k])
  BY <1>1, <1>2, <1>3
<1>5. read \in SUBSET (1..7) /\ \A k \in read : candidates[k].amount # 0
  BY <1>4
<1>6. Heuristic(lines) = Worth(hit.amount, FirstCurrency(three))
  BY Zenon DEF Heuristic, some, money
<1> HIDE DEF candidates, read
<1>7. hit \in Readable /\ (hit.amount # 0 => OwnLine(lines, hit))
  <2>1. Worth(0, "") \in Readable /\ Worth(0, "").amount = 0
    BY DEF Worth, Readable, Currencies
  <2>2. read # {} => Earliest(read) \in read
    BY <1>5, EarliestIn
  <2> QED
    BY <1>4, <1>5, <2>1, <2>2
<1> HIDE DEF hit
<1>8. /\ DOMAIN three = 1..3 /\ \A k \in 1..3 : three[k] \in Currencies
      /\ three[1] = hit.currency
  <2>1. hit.currency \in Currencies /\ "USD" \in Currencies
    BY <1>7 DEF Readable, Currencies
  <2> QED
    BY <2>1, HintType
<1> HIDE DEF three
<1>9. FirstCurrency(three) \in Currencies /\ (hit.currency = "BS" => FirstCurrency(three) = "BS")
  <2>1. 3 \in Nat /\ 1 \in 1..3 /\ "BS" # ""
    OBVIOUS
  <2>2. FirstCurrency(three) \in Currencies
    BY <1>8, <2>1, FirstCurrencyType
  <2>3. ASSUME three[1] # "" PROVE FirstCurrency(three) = three[1]
    BY <1>8, <2>1, <2>3, FirstCurrencyType
  <2> QED
    BY <1>8, <2>1, <2>2, <2>3
<1>10. /\ Worth(hit.amount, FirstCurrency(three)) \in Readable
       /\ Worth(hit.amount, FirstCurrency(three)).amount = hit.amount
       /\ Worth(hit.amount, FirstCurrency(three)).currency = FirstCurrency(three)
  BY <1>7, <1>9 DEF Worth, Readable
<1> QED
  BY <1>6, <1>7, <1>9, <1>10 DEF OwnLine

-----------------------------------------------------------------------------
(* One transcript.                                                         *)

Fields == [amount : Nat, date : Nat, structured : Readable, heuristic : Readable]

LEMMA ParseType ==
  ASSUME NEW t \in Transcripts
  PROVE  Parse(t) \in Fields
<1>1. t.lines \in Seq(Lines) /\ t.date \in Nat
  BY DEF Transcripts
<1> QED
  BY <1>1, StructuredType, HeuristicType DEF Parse, Fields, Readable

LEMMA NothingIsRead == Nothing \in Transcripts
BY EmptySeq DEF Nothing, Transcripts, Qualities

\* A transcript without lines has no amount.
LEMMA NothingHasAmount == Structured(<<>>).amount = 0 /\ Heuristic(<<>>).amount = 0
<1>1. <<>> \in Seq(Lines) /\ DOMAIN <<>> = {}
  BY EmptySeq
<1>2. \A worth : ~ OwnLine(<<>>, worth)
  BY <1>1 DEF OwnLine
<1> QED
  BY <1>1, <1>2, StructuredType, HeuristicType

LEMMA NoLinesNoAmount ==
  ASSUME NEW t \in Transcripts, t.lines = <<>>
  PROVE  /\ Parse(t).amount = 0 /\ Parse(t).date = t.date
         /\ Parse(t).structured = Blank.structured /\ Parse(t).heuristic = Blank.heuristic
         /\ Blank.amount = 0 /\ Blank.date = 0
BY NothingHasAmount DEF Parse, Blank, Nothing

-----------------------------------------------------------------------------
(* The currency of an answer.                                              *)

\* Two currencies offered, then a hint, then dollars: one is always named.
LEMMA FourCurrencies ==
  ASSUME NEW a \in Currencies, NEW b \in Currencies, NEW c \in Currencies
  PROVE  FirstCurrency(<<a, b>> \o <<c, "USD">>) \in {"BS", "USD"}
<1> DEFINE x == <<a, b>>
           y == <<c, "USD">>
           four == x \o y
<1>1. x \in Seq(Currencies) /\ Len(x) = 2
  OBVIOUS
<1>2. y \in Seq(Currencies) /\ Len(y) = 2 /\ y[2] = "USD"
  <2>1. "USD" \in Currencies
    BY DEF Currencies
  <2> QED
    BY <2>1
<1> HIDE DEF x, y
<1>3. /\ four \in Seq(Currencies) /\ Len(four) = Len(x) + Len(y)
      /\ \A i \in 1..(Len(x) + Len(y)) : four[i] = IF i <= Len(x) THEN x[i] ELSE y[i - Len(x)]
  <2>1. x \in Seq(Currencies) /\ y \in Seq(Currencies)
    BY <1>1, <1>2
  <2> QED
    BY <2>1, ConcatProperties, Zenon
<1> HIDE DEF four
<1>4. four[4] = "USD"
  <2>1. 4 \in 1..(Len(x) + Len(y)) /\ ~(4 <= Len(x)) /\ 4 - Len(x) = 2
    BY <1>1, <1>2
  <2> QED
    BY <1>2, <1>3, <2>1
<1>5. DOMAIN four = 1..4 /\ \A k \in 1..4 : four[k] \in Currencies
  <2>1. Len(four) = 4
    BY <1>1, <1>2, <1>3
  <2> QED
    BY <1>3, <2>1, LenProperties, ElementOfSeq
<1>6. FirstCurrency(four) \in Currencies /\ FirstCurrency(four) # ""
  <2>1. 4 \in 1..4 /\ four[4] # ""
    BY <1>4
  <2> QED
    BY <1>5, <2>1, FirstCurrencyType
<1> QED
  BY <1>6 DEF four, x, y, Currencies

\* Where the amount of one transcript comes from, and what that transcript offers for it.
LEMMA OffersOwn ==
  ASSUME NEW t \in Transcripts, Parse(t).amount # 0
  PROVE  \E n \in DOMAIN t.lines :
           /\ t.lines[n].amount = Parse(t).amount
           /\ t.lines[n].notation \in InBolivars =>
                "BS" \in {Offered(Parse(t))[1], Offered(Parse(t))[2]} \/ "BS" \in Mentions(t.lines)
<1>1. t.lines \in Seq(Lines)
  BY DEF Transcripts
<1> DEFINE s == Structured(t.lines)
           h == Heuristic(t.lines)
<1>2. /\ Parse(t).structured = s /\ Parse(t).heuristic = h
      /\ Parse(t).amount = IF s.amount # 0 THEN s.amount ELSE h.amount
  BY DEF Parse
<1>3. /\ s.amount # 0 => OwnLine(t.lines, s)
      /\ h.amount # 0 => OwnLine(t.lines, h)
  BY <1>1, StructuredType, HeuristicType
<1> HIDE DEF s, h
<1>4. /\ s.amount # 0 => Offered(Parse(t))[1] = s.currency
      /\ h.amount # 0 => Offered(Parse(t))[2] = h.currency
  BY <1>2 DEF Offered
<1> QED
  BY <1>2, <1>3, <1>4 DEF OwnLine

\* A currency is always given, and it is bolivares where the document hints at them or where they
\* are offered with the amount.
LEMMA CurrencyOfType ==
  ASSUME NEW amount, NEW mentions, NEW tess \in Fields, NEW cloud \in Fields
  PROVE  /\ CurrencyOf(amount, mentions, tess, cloud) \in {"BS", "USD"}
         /\ CurrencyOf(amount, mentions, tess, cloud) = "USD" =>
              /\ Hint(mentions) # "BS"
              /\ amount # 0 /\ amount = tess.amount =>
                   "BS" \notin {Offered(tess)[1], Offered(tess)[2]}
              /\ amount # 0 /\ amount # tess.amount /\ amount = cloud.amount =>
                   "BS" \notin {Offered(cloud)[1], Offered(cloud)[2]}
<1> DEFINE offered == IF amount # 0 /\ amount = tess.amount THEN Offered(tess)
                      ELSE IF amount # 0 /\ amount = cloud.amount THEN Offered(cloud) ELSE <<"", "">>
<1>1. \A f \in Fields : \E a, b \in Currencies : Offered(f) = <<a, b>>
  BY DEF Offered, Fields, Readable, Currencies
<1>2. PICK a \in Currencies, b \in Currencies : offered = <<a, b>>
  BY <1>1 DEF Currencies
<1>3. CurrencyOf(amount, mentions, tess, cloud) =
        IF "BS" \in {Hint(mentions), offered[1], offered[2]} THEN "BS"
        ELSE FirstCurrency(offered \o <<Hint(mentions), "USD">>)
  BY Zenon DEF CurrencyOf
<1>4. /\ amount # 0 /\ amount = tess.amount => offered = Offered(tess)
      /\ amount # 0 /\ amount # tess.amount /\ amount = cloud.amount => offered = Offered(cloud)
  OBVIOUS
<1> HIDE DEF offered
<1>5. FirstCurrency(offered \o <<Hint(mentions), "USD">>) \in {"BS", "USD"}
  BY <1>2, HintType, FourCurrencies
<1>6. CurrencyOf(amount, mentions, tess, cloud) \in {"BS", "USD"}
  BY <1>3, <1>5
<1>7. CurrencyOf(amount, mentions, tess, cloud) = "USD" =>
        "BS" \notin {Hint(mentions), offered[1], offered[2]}
  BY <1>3
<1> QED
  BY <1>4, <1>6, <1>7

\* Only what the fields say of money counts.
LEMMA CurrencyIgnoresDates ==
  ASSUME NEW amount, NEW mentions, NEW t \in Fields, NEW u \in Fields, NEW cloud,
         t.amount = u.amount, t.structured = u.structured, t.heuristic = u.heuristic
  PROVE  CurrencyOf(amount, mentions, t, cloud) = CurrencyOf(amount, mentions, u, cloud)
BY Zenon DEF CurrencyOf, Offered

-----------------------------------------------------------------------------
(* The answers.                                                            *)

LEMMA BlankType == Blank \in Fields
BY NothingIsRead, ParseType DEF Blank

LEMMA AnswerType ==
  ASSUME NEW amount \in Nat, NEW date \in Nat, NEW currency \in {"BS", "USD"}
  PROVE  Answer(amount, date, currency) \in Answers
BY DEF Answer, Answers

\* What an answer in dollars owes to the lines it was made of.
DollarsFit(amount, lines, spoken) ==
  /\ "BS" \notin spoken
  /\ spoken \cap {"VES", "BCU"} # {} => "USD" \in spoken
  /\ amount # 0 => \E line \in lines : line.amount = amount /\ line.notation \notin InBolivars

LEMMA HintFits ==
  ASSUME NEW mentions, Hint(mentions) # "BS"
  PROVE  "BS" \notin mentions /\ (mentions \cap {"VES", "BCU"} # {} => "USD" \in mentions)
BY DEF Hint

\* The amount of a transcript that does not offer bolivares for it has a line not in bolivares.
LEMMA OwnFits ==
  ASSUME NEW t \in Transcripts, Parse(t).amount # 0, "BS" \notin Mentions(t.lines),
         "BS" \notin {Offered(Parse(t))[1], Offered(Parse(t))[2]}
  PROVE  \E line \in LineSet(t.lines) : line.amount = Parse(t).amount /\ line.notation \notin InBolivars
<1>1. PICK n \in DOMAIN t.lines :
        /\ t.lines[n].amount = Parse(t).amount
        /\ t.lines[n].notation \in InBolivars =>
             "BS" \in {Offered(Parse(t))[1], Offered(Parse(t))[2]} \/ "BS" \in Mentions(t.lines)
  BY OffersOwn
<1> QED
  BY <1>1 DEF LineSet

LEMMA FromTesseractType ==
  ASSUME NEW t \in Transcripts
  PROVE  /\ FromTesseract(t) \in Answers
         /\ FromTesseract(t).currency = "USD" =>
              DollarsFit(FromTesseract(t).amount, LineSet(t.lines), Mentions(t.lines))
<1> DEFINE fields == IF t.quality = "degenerate" THEN Blank ELSE Parse(t)
           currency == CurrencyOf(fields.amount, Mentions(t.lines), fields, Blank)
<1>1. fields \in Fields /\ (fields.amount # 0 => fields = Parse(t))
  <2>1. Blank.amount = 0
    BY NothingIsRead, NoLinesNoAmount DEF Nothing
  <2> QED
    BY <2>1, BlankType, ParseType
<1>2. FromTesseract(t) = Answer(fields.amount, fields.date, currency)
  BY Zenon DEF FromTesseract
<1> HIDE DEF fields
<1>3. /\ currency \in {"BS", "USD"}
      /\ currency = "USD" =>
           /\ Hint(Mentions(t.lines)) # "BS"
           /\ fields.amount # 0 => "BS" \notin {Offered(fields)[1], Offered(fields)[2]}
  BY <1>1, BlankType, CurrencyOfType
<1>4. fields.amount \in Nat /\ fields.date \in Nat
  BY <1>1 DEF Fields
<1> HIDE DEF currency
<1>5. FromTesseract(t).currency = currency /\ FromTesseract(t).amount = fields.amount
  BY <1>2 DEF Answer
<1>6. FromTesseract(t) \in Answers
  BY <1>2, <1>3, <1>4, AnswerType
<1>7. ASSUME currency = "USD" PROVE DollarsFit(fields.amount, LineSet(t.lines), Mentions(t.lines))
  BY <1>1, <1>3, <1>7, HintFits, OwnFits DEF DollarsFit
<1> QED
  BY <1>5, <1>6, <1>7

\* The two transcripts together mention what either mentions.
LEMMA MentionsConcat ==
  ASSUME NEW a \in Seq(Lines), NEW b \in Seq(Lines)
  PROVE  Mentions(a \o b) = Mentions(a) \cup Mentions(b)
<1>1. /\ DOMAIN (a \o b) = 1..(Len(a) + Len(b)) /\ DOMAIN a = 1..Len(a) /\ DOMAIN b = 1..Len(b)
      /\ Len(a) \in Nat /\ Len(b) \in Nat
      /\ \A n \in 1..Len(a) : (a \o b)[n] = a[n]
      /\ \A n \in 1..Len(b) : (a \o b)[n + Len(a)] = b[n]
  OBVIOUS
<1> DEFINE c == a \o b
<1>2. \A n \in DOMAIN a : n \in DOMAIN c /\ c[n] = a[n]
  BY <1>1
<1>3. \A n \in DOMAIN b : n + Len(a) \in DOMAIN c /\ c[n + Len(a)] = b[n]
  BY <1>1
<1>4. \A n \in DOMAIN c : (\E m \in DOMAIN a : a[m] = c[n]) \/ (\E m \in DOMAIN b : b[m] = c[n])
  <2> SUFFICES ASSUME NEW n \in DOMAIN c, n \notin DOMAIN a PROVE \E m \in DOMAIN b : b[m] = c[n]
    BY <1>2
  <2>1. n - Len(a) \in 1..Len(b) /\ (n - Len(a)) + Len(a) = n
    BY <1>1
  <2> QED
    BY <1>1, <2>1
<1> HIDE DEF c
<1>5. ASSUME NEW s, NEW lines, NEW more,
             \A n \in DOMAIN lines : \E m \in DOMAIN more : more[m] = lines[n], s \in Mentions(lines)
      PROVE  s \in Mentions(more)
  <2>1. PICK n \in DOMAIN lines :
          \/ s = lines[n].notation
          \/ lines[n].label \in {"inBs", "inUsd"} /\ s = IF lines[n].label = "inBs" THEN "BS" ELSE "USD"
    BY <1>5 DEF Mentions
  <2>2. PICK m \in DOMAIN more : more[m] = lines[n]
    BY <1>5
  <2> QED
    BY <2>1, <2>2 DEF Mentions
<1>6. Mentions(a) \subseteq Mentions(c) /\ Mentions(b) \subseteq Mentions(c)
  BY <1>2, <1>3, <1>5
<1>7. ASSUME NEW s \in Mentions(c) PROVE s \in Mentions(a) \cup Mentions(b)
  <2>1. PICK n \in DOMAIN c :
          \/ s = c[n].notation
          \/ c[n].label \in {"inBs", "inUsd"} /\ s = IF c[n].label = "inBs" THEN "BS" ELSE "USD"
    BY <1>7 DEF Mentions
  <2> QED
    BY <1>4, <2>1 DEF Mentions
<1> QED
  BY <1>6, <1>7 DEF c

LEMMA MergedType ==
  ASSUME NEW t \in Transcripts, NEW c \in Transcripts
  PROVE  /\ Merged(t, c) \in Answers
         /\ Merged(t, c).currency = "USD" =>
              DollarsFit(Merged(t, c).amount, LineSet(t.lines) \cup LineSet(c.lines),
                         Mentions(t.lines) \cup Mentions(c.lines))
<1> DEFINE tess == Parse(t)
           cloud == Parse(c)
           fromCloud == HasOperation(c) /\ ~HasOperation(t) /\ ~Garbage(c) /\ cloud.amount # 0
           amount == IF fromCloud THEN cloud.amount ELSE Or(tess.amount, cloud.amount)
           currency == CurrencyOf(amount, Mentions(t.lines \o c.lines), tess, cloud)
<1>1. tess \in Fields /\ cloud \in Fields
  BY ParseType
<1>2. Merged(t, c) =
        IF t.quality # "substantial" /\ Garbage(c) THEN Answer(0, 0, currency)
        ELSE IF t.quality = "degenerate" THEN Answer(Or(cloud.amount, amount), Or(c.date, t.date), currency)
        ELSE Answer(amount, Or(t.date, c.date), currency)
  BY Zenon DEF Merged
<1>3. t.quality = "degenerate" => tess.amount = 0
  BY NoLinesNoAmount DEF Transcripts
<1> HIDE DEF tess, cloud
<1>4. /\ amount \in Nat /\ (amount # 0 => amount = tess.amount \/ amount = cloud.amount)
      /\ t.quality = "degenerate" => Or(cloud.amount, amount) = amount
  BY <1>1, <1>3 DEF Fields, Or
<1> HIDE DEF amount
<1>5. /\ t.lines \in Seq(Lines) /\ c.lines \in Seq(Lines)
      /\ Or(c.date, t.date) \in Nat /\ Or(t.date, c.date) \in Nat
  BY DEF Transcripts, Or
<1>6. /\ currency \in {"BS", "USD"}
      /\ currency = "USD" =>
           /\ Hint(Mentions(t.lines \o c.lines)) # "BS"
           /\ amount # 0 /\ amount = tess.amount => "BS" \notin {Offered(tess)[1], Offered(tess)[2]}
           /\ amount # 0 /\ amount # tess.amount /\ amount = cloud.amount =>
                "BS" \notin {Offered(cloud)[1], Offered(cloud)[2]}
  BY <1>1, CurrencyOfType
<1>7. Mentions(t.lines \o c.lines) = Mentions(t.lines) \cup Mentions(c.lines)
  BY <1>5, MentionsConcat
<1> HIDE DEF currency
<1>8. /\ Merged(t, c) \in Answers /\ Merged(t, c).currency = currency
      /\ Merged(t, c).amount \in {0, amount}
  <2>1. Merged(t, c) \in Answers
    BY <1>2, <1>4, <1>5, <1>6, AnswerType
  <2> QED
    BY <1>2, <1>4, <2>1 DEF Answer
<1>9. ASSUME currency = "USD", NEW a \in {0, amount}
      PROVE  DollarsFit(a, LineSet(t.lines) \cup LineSet(c.lines), Mentions(t.lines) \cup Mentions(c.lines))
  <2>1. /\ "BS" \notin Mentions(t.lines) \cup Mentions(c.lines)
        /\ (Mentions(t.lines) \cup Mentions(c.lines)) \cap {"VES", "BCU"} # {} =>
             "USD" \in Mentions(t.lines) \cup Mentions(c.lines)
    BY <1>6, <1>7, <1>9, HintFits
  <2>2. CASE amount # 0 /\ amount = tess.amount
    <3>1. \E line \in LineSet(t.lines) : line.amount = amount /\ line.notation \notin InBolivars
      BY <1>6, <1>9, <2>1, <2>2, OwnFits DEF tess
    <3> QED
      BY <2>1, <3>1 DEF DollarsFit
  <2>3. CASE amount # 0 /\ amount # tess.amount /\ amount = cloud.amount
    <3>1. \E line \in LineSet(c.lines) : line.amount = amount /\ line.notation \notin InBolivars
      BY <1>6, <1>9, <2>1, <2>3, OwnFits DEF cloud
    <3> QED
      BY <2>1, <3>1 DEF DollarsFit
  <2>4. CASE amount = 0
    BY <2>1, <2>4 DEF DollarsFit
  <2> QED
    BY <1>4, <2>2, <2>3, <2>4
<1> QED
  BY <1>8, <1>9

\* A cloud engine that read nothing changes nothing of what Tesseract read, unless the transcript
\* of Tesseract is short: then there is neither an amount nor a date.
LEMMA MergedWithNothing ==
  ASSUME NEW t \in Transcripts, t.quality # "echo"
  PROVE  \/ Merged(t, Nothing) = FromTesseract(t)
         \/ /\ t.quality = "short"
            /\ Merged(t, Nothing).amount = 0 /\ Merged(t, Nothing).date = 0
<1> DEFINE tess == Parse(t)
           currency == CurrencyOf(tess.amount, Mentions(t.lines), tess, Blank)
<1>1. Garbage(Nothing) /\ Nothing.lines = <<>> /\ Nothing.date = 0 /\ Blank.amount = 0 /\ Blank.date = 0
  <2>1. Nothing.lines = <<>> /\ Nothing.quality = "degenerate" /\ Nothing.date = 0
    BY DEF Nothing
  <2> QED
    BY <2>1, NothingIsRead, NoLinesNoAmount DEF Garbage
<1>2. t.lines \o Nothing.lines = t.lines
  BY <1>1, ConcatEmptySeq DEF Transcripts
<1>3. tess \in Fields /\ Blank \in Fields /\ Parse(Nothing) = Blank
  BY ParseType, BlankType DEF Blank
<1>4. Or(tess.amount, Blank.amount) = tess.amount /\ Or(t.date, Nothing.date) = t.date
  BY <1>1 DEF Or
<1>5. Merged(t, Nothing) =
        IF t.quality # "substantial" THEN Answer(0, 0, currency)
        ELSE Answer(tess.amount, t.date, currency)
  BY <1>1, <1>2, <1>3, <1>4 DEF Merged
<1>6. CASE t.quality = "substantial"
  <2>1. FromTesseract(t) = Answer(tess.amount, tess.date, currency)
    BY <1>6 DEF FromTesseract
  <2>2. tess.date = t.date
    BY DEF Parse
  <2> QED
    BY <1>5, <1>6, <2>1, <2>2
<1>7. CASE t.quality = "degenerate"
  <2>1. t.lines = <<>>
    BY <1>7 DEF Transcripts
  <2>2. /\ tess.amount = Blank.amount /\ tess.structured = Blank.structured
        /\ tess.heuristic = Blank.heuristic
    BY <2>1, NoLinesNoAmount
  <2>3. currency = CurrencyOf(Blank.amount, Mentions(t.lines), Blank, Blank)
    BY <1>3, <2>2, CurrencyIgnoresDates
  <2>4. FromTesseract(t) = Answer(0, 0, CurrencyOf(Blank.amount, Mentions(t.lines), Blank, Blank))
    BY <1>1, <1>7 DEF FromTesseract
  <2> QED
    BY <1>5, <1>7, <2>3, <2>4
<1>8. CASE t.quality = "short"
  BY <1>5, <1>8 DEF Answer
<1> QED
  BY <1>6, <1>7, <1>8 DEF Transcripts, Qualities

-----------------------------------------------------------------------------
(* Handlers and their legs.                                                *)

\* A leg without a transcript, and one that is done.
LEMMA LegType ==
  ASSUME NEW state \in States \ {"done"}, NEW texts, NEW all
  PROVE  Leg(state) \in Legs(texts) /\ LegOK(Leg(state), all)
BY DEF Leg, Legs, LegOK

LEMMA OffType ==
  ASSUME NEW texts, NEW all
  PROVE  Off \in Legs(texts) /\ LegOK(Off, all)
BY DEF Off, Legs, LegOK, States

LEMMA ReadType ==
  ASSUME NEW texts, NEW all, NEW t \in texts \cup {Nothing}, t \in all
  PROVE  Read(t) \in Legs(texts) /\ LegOK(Read(t), all)
BY DEF Read, Legs, LegOK, States

\* A handler that was just moved somewhere.
LEMMA HandlerType ==
  ASSUME NEW phase \in Phases \ {"answered"}, NEW tess \in Legs(Readings), NEW cloud \in Legs(Transcriptions),
         LegOK(tess, Readings), LegOK(cloud, Transcriptions \cup {Nothing})
  PROVE  /\ Handler(phase, tess, cloud) \in Handlers /\ HandlerOK(Handler(phase, tess, cloud))
         /\ Handler(phase, tess, cloud).phase = phase
BY DEF Handler, Handlers, HandlerOK

LEMMA IdleType == Idle \in Handlers /\ HandlerOK(Idle) /\ Idle.phase = "idle"
BY OffType, HandlerType DEF Idle, Phases

LEMMA RunningType ==
  ASSUME NEW cloud \in Legs(Transcriptions), LegOK(cloud, Transcriptions \cup {Nothing})
  PROVE  /\ Running(cloud) \in Handlers /\ HandlerOK(Running(cloud))
         /\ Running(cloud).phase = "running"
<1>1. Leg("queued") \in Legs(Readings) /\ LegOK(Leg("queued"), Readings)
  BY LegType DEF States
<1> QED
  BY <1>1, HandlerType DEF Running, Phases

\* A leg that changes under a running handler.
LEMMA TessChanges ==
  ASSUME NEW q \in Handlers, HandlerOK(q), q.phase = "running",
         NEW leg \in Legs(Readings), LegOK(leg, Readings)
  PROVE  /\ [q EXCEPT !.tess = leg] \in Handlers /\ HandlerOK([q EXCEPT !.tess = leg])
         /\ [q EXCEPT !.tess = leg].phase = "running"
BY DEF Handlers, HandlerOK

LEMMA CloudChanges ==
  ASSUME NEW q \in Handlers, HandlerOK(q), q.phase = "running",
         NEW leg \in Legs(Transcriptions), LegOK(leg, Transcriptions \cup {Nothing})
  PROVE  /\ [q EXCEPT !.cloud = leg] \in Handlers /\ HandlerOK([q EXCEPT !.cloud = leg])
         /\ [q EXCEPT !.cloud = leg].phase = "running"
BY DEF Handlers, HandlerOK

-----------------------------------------------------------------------------
(* What a step does to the handlers and to the calls still to be counted.  *)

LEMMA RequestMove ==
  ASSUME TypeOK, AnswersInv, NEW r \in Requests, NEW next \in Handlers, HandlerOK(next), Move(r, next)
  PROVE  /\ request' \in [Requests -> Handlers]
         /\ AnswersInv'
         /\ request'[r] = next
         /\ \A s \in Requests : s # r => request'[s] = request[s]
<1>1. /\ request' \in [Requests -> Handlers] /\ request'[r] = next
      /\ \A s \in Requests : s # r => request'[s] = request[s]
  BY DEF Move, TypeOK
<1>2. AnswersInv'
  <2>1. ASSUME NEW s \in Requests PROVE HandlerOK(request'[s])
    BY <1>1 DEF AnswersInv
  <2> QED
    BY <2>1 DEF AnswersInv, HandlerOK
<1> QED
  BY <1>1, <1>2

LEMMA Numbers ==
  /\ Cardinality(Requests) \in Nat \ {0} /\ Limit \in Nat \ {0}
  /\ CounterCap \in Nat /\ CounterCap = Limit + Cardinality(Requests)
BY OcrAssumption, FS_CardinalityType, FS_EmptySet DEF CounterCap

\* The calls still to be counted are no more than the handlers; fewer, when one is elsewhere.
LEMMA PromisedBounded ==
  /\ IsFiniteSet(Promised) /\ Cardinality(Promised) \in Nat
  /\ Cardinality(Promised) <= Cardinality(Requests)
<1>1. IsFiniteSet(Requests) /\ Promised \subseteq Requests
  BY OcrAssumption DEF Promised
<1> QED
  BY <1>1, FS_Subset, FS_CardinalityType

LEMMA PromisedWithout ==
  ASSUME NEW S, NEW r \in Requests, S \subseteq Requests \ {r}
  PROVE  IsFiniteSet(S) /\ Cardinality(S) \in Nat /\ Cardinality(S) <= Cardinality(Requests) - 1
<1>1. IsFiniteSet(Requests \ {r}) /\ Cardinality(Requests \ {r}) = Cardinality(Requests) - 1
  BY OcrAssumption, FS_RemoveElement
<1> QED
  BY <1>1, FS_Subset, FS_CardinalityType

LEMMA PromisedFewer ==
  ASSUME Promised' \subseteq Promised
  PROVE  Cardinality(Promised') \in Nat /\ Cardinality(Promised') <= Cardinality(Promised)
BY PromisedBounded, FS_Subset, FS_CardinalityType

LEMMA PromisedMove ==
  ASSUME TypeOK, NEW r \in Requests, NEW next, Move(r, next), next.phase # "consuming"
  PROVE  Promised' \subseteq Promised \ {r}
BY DEF TypeOK, Move, Promised

\* A step that leaves the quota alone and its handler out of it.
LEMMA QuietMove ==
  ASSUME IInv, NEW r \in Requests, NEW next \in Handlers, HandlerOK(next), Move(r, next),
         next.phase \in {"checking", "consuming"} => redis,
         next.phase # "consuming", UNCHANGED <<config, quota>>,
         worker' \in {"none", "starting", "ready", "broken"}, model' \in {"probing", "unknown", "known"}
  PROVE  IInv'
<1>1. /\ request' \in [Requests -> Handlers] /\ AnswersInv' /\ request'[r] = next
      /\ \A s \in Requests : s # r => request'[s] = request[s]
  BY RequestMove DEF IInv
<1>2. UNCHANGED <<engine, redis, month, counter, reserved>>
  BY DEF config, quota
<1>3. TypeOK'
  BY <1>1, <1>2 DEF IInv, TypeOK
<1>4. QuotaInv'
  <2>1. Cardinality(Promised') \in Nat /\ Cardinality(Promised') <= Cardinality(Promised)
    BY PromisedMove, PromisedFewer DEF IInv
  <2>2. reserved' + Cardinality(Promised') <= Limit + Cardinality(Requests) - 1
    BY <1>2, <2>1, Numbers, PromisedBounded DEF IInv, QuotaInv, TypeOK
  <2> QED
    BY <1>1, <1>2, <2>2 DEF IInv, QuotaInv
<1> QED
  BY <1>1, <1>3, <1>4 DEF IInv

LEMMA InitInv == Init => IInv
<1> SUFFICES ASSUME Init PROVE IInv
  OBVIOUS
<1> USE Numbers
<1>1. TypeOK
  <2>1. 1 \in Months /\ 0 \in 0..CounterCap
    BY OcrAssumption DEF Months
  <2>2. request \in [Requests -> Handlers]
    BY IdleType DEF Init
  <2>3. counter \in [Months -> 0..CounterCap]
    BY <2>1 DEF Init
  <2> QED
    BY <2>1, <2>2, <2>3 DEF Init, TypeOK
<1>2. AnswersInv
  BY IdleType DEF Init, AnswersInv
<1>3. QuotaInv
  <2>1. \A r \in Requests : request[r].phase = "idle"
    BY IdleType DEF Init
  <2>2. Promised = {}
    BY <2>1 DEF Promised
  <2>3. 1 \in Months
    BY OcrAssumption DEF Months
  <2> QED
    BY <2>1, <2>2, <2>3, FS_EmptySet DEF Init, QuotaInv
<1> QED
  BY <1>1, <1>2, <1>3 DEF IInv

-----------------------------------------------------------------------------
(* The quota.                                                              *)

LEMMA SubmitInv ==
  ASSUME IInv, NEW r \in Requests, Submit(r)
  PROVE  IInv'
<1> USE Numbers
<1>1. /\ request[r] = Idle /\ request[r].phase = "idle" /\ UNCHANGED <<config, worker, model>>
      /\ worker' \in {"none", "starting", "ready", "broken"} /\ model' \in {"probing", "unknown", "known"}
  BY IdleType DEF Submit, IInv, TypeOK
<1>2. CASE engine = "vision" /\ redis
  <2>1. Move(r, Handler("checking", Off, Off)) /\ UNCHANGED quota
    BY <1>2 DEF Submit
  <2>2. /\ Handler("checking", Off, Off) \in Handlers /\ HandlerOK(Handler("checking", Off, Off))
        /\ Handler("checking", Off, Off).phase = "checking"
    BY OffType, HandlerType DEF Phases
  <2> QED
    BY <1>1, <1>2, <2>1, <2>2, QuietMove
<1>3. CASE ~(engine = "vision" /\ redis) /\ engine = "vision" /\ counter[month] < Limit
  <2>1. Move(r, Running(Leg("calling"))) /\ Increment /\ reserved' = reserved + 1 /\ month' = month
    BY <1>3 DEF Submit
  <2>2. /\ Running(Leg("calling")) \in Handlers /\ HandlerOK(Running(Leg("calling")))
        /\ Running(Leg("calling")).phase = "running"
    BY LegType, RunningType DEF States
  <2>3. /\ request' \in [Requests -> Handlers] /\ AnswersInv' /\ request'[r].phase = "running"
        /\ \A s \in Requests : s # r => request'[s] = request[s]
    BY <2>1, <2>2, RequestMove DEF IInv
  <2>4. month \in Months /\ counter \in [Months -> 0..CounterCap] /\ reserved \in Nat
    BY DEF IInv, TypeOK
  <2>5. counter' \in [Months -> 0..CounterCap] /\ counter'[month] = counter[month] + 1
    BY <1>3, <2>1, <2>4 DEF Increment
  <2>6. TypeOK'
    BY <1>1, <2>1, <2>3, <2>4, <2>5 DEF IInv, TypeOK, config
  <2>7. QuotaInv'
    <3>1. Promised' \subseteq Requests \ {r}
      BY <2>3 DEF Promised
    <3>2. Cardinality(Promised') \in Nat /\ Cardinality(Promised') <= Cardinality(Requests) - 1
      BY <3>1, PromisedWithout
    <3>3. reserved <= counter[month]
      BY DEF IInv, QuotaInv
    <3>4. reserved' + Cardinality(Promised') <= Limit + Cardinality(Requests) - 1
      BY <1>3, <2>1, <2>4, <3>2, <3>3
    <3>5. reserved' <= counter'[month']
      BY <2>1, <2>4, <2>5, <3>3
    <3>6. \A s \in Requests : request'[s].phase \in {"checking", "consuming"} => redis'
      BY <1>1, <2>3 DEF IInv, QuotaInv, config
    <3> QED
      BY <3>4, <3>5, <3>6 DEF QuotaInv
  <2> QED
    BY <2>3, <2>6, <2>7 DEF IInv
<1>4. CASE ~(engine = "vision" /\ redis) /\ ~(engine = "vision" /\ counter[month] < Limit)
  <2>1. PICK cloud \in {Leg("resolving"), Off} : Move(r, Running(cloud)) /\ UNCHANGED quota
    BY <1>4 DEF Submit
  <2>2. cloud \in Legs(Transcriptions) /\ LegOK(cloud, Transcriptions \cup {Nothing})
    BY LegType, OffType DEF States
  <2>3. Running(cloud) \in Handlers /\ HandlerOK(Running(cloud)) /\ Running(cloud).phase = "running"
    BY <2>2, RunningType
  <2> QED
    BY <1>1, <2>1, <2>3, QuietMove
<1> QED
  BY <1>2, <1>3, <1>4

LEMMA CanConsumeInv ==
  ASSUME IInv, NEW r \in Requests, CanConsume(r)
  PROVE  IInv'
<1> USE Numbers
<1>1. /\ request[r].phase = "checking" /\ request[r] \in Handlers /\ HandlerOK(request[r])
      /\ UNCHANGED <<config, quota, worker, model>>
      /\ worker' \in {"none", "starting", "ready", "broken"} /\ model' \in {"probing", "unknown", "known"}
  BY DEF CanConsume, IInv, TypeOK, AnswersInv
<1>2. redis
  BY <1>1 DEF IInv, QuotaInv
<1>3. CASE Move(r, Running(Off))
  <2>1. Running(Off) \in Handlers /\ HandlerOK(Running(Off)) /\ Running(Off).phase = "running"
    BY OffType, RunningType
  <2> QED
    BY <1>1, <1>3, <2>1, QuietMove
<1>4. ASSUME NEW answers \in BOOLEAN, answers => counter[month] < Limit,
             Move(r, [request[r] EXCEPT !.phase = "consuming", !.genuine = answers])
      PROVE  IInv'
  <2> DEFINE next == [request[r] EXCEPT !.phase = "consuming", !.genuine = answers]
  <2>1. next \in Handlers /\ HandlerOK(next) /\ next.phase = "consuming" /\ next.genuine = answers
    BY <1>1 DEF Handlers, HandlerOK, Phases
  <2>2. Move(r, next)
    BY <1>4
  <2> HIDE DEF next
  <2>3. /\ request' \in [Requests -> Handlers] /\ AnswersInv' /\ request'[r] = next
        /\ \A s \in Requests : s # r => request'[s] = request[s]
    BY <2>1, <2>2, RequestMove DEF IInv
  <2>4. UNCHANGED <<engine, redis, month, counter, reserved>>
    BY <1>1 DEF config, quota
  <2>5. TypeOK'
    BY <1>1, <2>3, <2>4 DEF IInv, TypeOK
  <2>6. reserved + Cardinality(Promised') <= Limit + Cardinality(Requests) - 1
    <3>1. month \in Months /\ counter[month] \in Nat /\ reserved \in Nat /\ reserved <= counter[month]
      BY DEF IInv, TypeOK, QuotaInv
    <3>2. CASE answers
      <4>1. Cardinality(Promised') \in Nat /\ Cardinality(Promised') <= Cardinality(Requests)
        <5>1. Promised' \subseteq Requests
          BY DEF Promised
        <5> QED
          BY <5>1, OcrAssumption, FS_Subset, FS_CardinalityType
      <4> QED
        BY <1>4, <3>1, <3>2, <4>1
    <3>3. CASE ~answers
      <4>1. Promised' \subseteq Promised
        BY <2>1, <2>3, <3>3 DEF Promised
      <4>2. Cardinality(Promised') \in Nat /\ Cardinality(Promised') <= Cardinality(Promised)
        BY <4>1, PromisedFewer
      <4> QED
        BY <3>1, <4>2, PromisedBounded DEF IInv, QuotaInv
    <3> QED
      BY <3>2, <3>3
  <2>7. QuotaInv'
    BY <1>2, <2>3, <2>4, <2>6 DEF IInv, QuotaInv
  <2> QED
    BY <2>3, <2>5, <2>7 DEF IInv
<1>5. \/ Move(r, Running(Off))
      \/ \E answers \in BOOLEAN :
           /\ answers => counter[month] < Limit
           /\ Move(r, [request[r] EXCEPT !.phase = "consuming", !.genuine = answers])
  <2>1. month \in Months /\ counter[month] \in Int /\ Limit \in Int
    BY DEF IInv, TypeOK
  <2>2. PICK answers \in BOOLEAN :
          Move(r, IF answers /\ counter[month] >= Limit THEN Running(Off)
                  ELSE [request[r] EXCEPT !.phase = "consuming", !.genuine = answers])
    BY DEF CanConsume
  <2>3. CASE answers /\ counter[month] >= Limit
    BY <2>2, <2>3
  <2>4. CASE ~(answers /\ counter[month] >= Limit)
    <3>1. answers => counter[month] < Limit
      BY <2>1, <2>4
    <3>2. Move(r, [request[r] EXCEPT !.phase = "consuming", !.genuine = answers])
      BY <2>2, <2>4
    <3> QED
      BY <3>1, <3>2
  <2> QED
    BY <2>3, <2>4
<1> QED
  BY <1>3, <1>4, <1>5

LEMMA ConsumeInv ==
  ASSUME IInv, NEW r \in Requests, Consume(r)
  PROVE  IInv'
<1> USE Numbers
<1>1. /\ request[r].phase = "consuming" /\ Move(r, Running(Leg("calling")))
      /\ UNCHANGED <<config, month, worker, model>>
      /\ \/ Increment /\ reserved' = IF request[r].genuine THEN reserved + 1 ELSE reserved
         \/ UNCHANGED <<counter, reserved>>
  BY DEF Consume
<1>2. /\ Running(Leg("calling")) \in Handlers /\ HandlerOK(Running(Leg("calling")))
      /\ Running(Leg("calling")).phase = "running"
  BY LegType, RunningType DEF States
<1>3. /\ request' \in [Requests -> Handlers] /\ AnswersInv' /\ request'[r].phase = "running"
      /\ \A s \in Requests : s # r => request'[s] = request[s]
  BY <1>1, <1>2, RequestMove DEF IInv
<1>4. month \in Months /\ counter \in [Months -> 0..CounterCap] /\ reserved \in Nat /\ request[r].genuine \in BOOLEAN
  BY DEF IInv, TypeOK, Handlers
<1>5. /\ counter' \in [Months -> 0..CounterCap]
      /\ Increment => counter'[month] = IF counter[month] < CounterCap THEN counter[month] + 1 ELSE counter[month]
  BY <1>1, <1>4 DEF Increment
<1>6. reserved' \in Nat /\ (reserved' = reserved \/ (reserved' = reserved + 1 /\ Increment /\ request[r].genuine))
  BY <1>1, <1>4
<1>7. TypeOK'
  BY <1>1, <1>3, <1>4, <1>5, <1>6 DEF IInv, TypeOK, config
<1>8. reserved <= counter[month] /\ reserved + Cardinality(Promised) <= Limit + Cardinality(Requests) - 1
  BY DEF IInv, QuotaInv
<1>9. Promised' \subseteq Promised \ {r}
  BY <1>1, <1>2, PromisedMove DEF IInv
<1>10. /\ Cardinality(Promised') \in Nat /\ Cardinality(Promised) \in Nat
       /\ Cardinality(Promised') <= Cardinality(Promised)
       /\ request[r].genuine => Cardinality(Promised') <= Cardinality(Promised) - 1
  <2>1. /\ IsFiniteSet(Promised \ {r}) /\ Cardinality(Promised \ {r}) \in Nat /\ Cardinality(Promised) \in Nat
        /\ Cardinality(Promised \ {r}) = IF r \in Promised THEN Cardinality(Promised) - 1 ELSE Cardinality(Promised)
    BY PromisedBounded, FS_RemoveElement, FS_CardinalityType
  <2>2. Cardinality(Promised') \in Nat /\ Cardinality(Promised') <= Cardinality(Promised \ {r})
    BY <1>9, <2>1, FS_Subset, FS_CardinalityType
  <2>3. request[r].genuine => r \in Promised
    BY <1>1 DEF Promised
  <2> QED
    BY <2>1, <2>2, <2>3
<1>11. reserved' + Cardinality(Promised') <= Limit + Cardinality(Requests) - 1
  BY <1>4, <1>6, <1>8, <1>10
<1>12. reserved' <= counter'[month']
  <2>1. counter[month] \in Nat /\ counter[month] <= CounterCap /\ month' = month
    BY <1>1, <1>4
  <2>2. CASE reserved' = reserved
    <3>1. counter'[month] >= counter[month]
      BY <1>1, <1>5, <2>1
    <3> QED
      BY <1>4, <1>5, <1>8, <2>1, <2>2, <3>1
  <2>3. CASE reserved' = reserved + 1 /\ Increment /\ request[r].genuine
    <3>1. reserved + 1 <= Limit + Cardinality(Requests) - 1
      BY <1>4, <1>10, <1>11, <2>3
    <3> QED
      BY <1>4, <1>5, <1>8, <2>1, <2>3, <3>1
  <2> QED
    BY <1>6, <2>2, <2>3
<1>13. QuotaInv'
  <2>1. \A s \in Requests : request'[s].phase \in {"checking", "consuming"} => redis'
    BY <1>1, <1>3 DEF IInv, QuotaInv, config
  <2> QED
    BY <1>11, <1>12, <2>1 DEF QuotaInv
<1> QED
  BY <1>3, <1>7, <1>13 DEF IInv

-----------------------------------------------------------------------------
(* The engines and the answer.                                             *)

\* What a running handler has, for the steps that leave the quota alone.
LEMMA RunningHas ==
  ASSUME IInv, NEW r \in Requests
  PROVE  /\ request[r] \in Handlers /\ HandlerOK(request[r])
         /\ worker \in {"none", "starting", "ready", "broken"} /\ model \in {"probing", "unknown", "known"}
BY DEF IInv, TypeOK, AnswersInv

LEMMA TessMove ==
  ASSUME IInv, NEW r \in Requests, request[r].phase = "running", UNCHANGED <<config, quota, model>>,
         NEW leg \in Legs(Readings), LegOK(leg, Readings), Tess(r, leg),
         worker' \in {"none", "starting", "ready", "broken"}
  PROVE  IInv'
<1> DEFINE next == [request[r] EXCEPT !.tess = leg]
<1>1. next \in Handlers /\ HandlerOK(next) /\ next.phase = "running"
  BY RunningHas, TessChanges
<1>2. Move(r, next)
  BY DEF Tess
<1>3. model' \in {"probing", "unknown", "known"}
  BY RunningHas
<1> HIDE DEF next
<1> QED
  BY <1>1, <1>2, <1>3, QuietMove

LEMMA CloudMove ==
  ASSUME IInv, NEW r \in Requests, request[r].phase = "running", UNCHANGED <<config, quota, worker>>,
         NEW leg \in Legs(Transcriptions), LegOK(leg, Transcriptions \cup {Nothing}), Cloud(r, leg),
         model' \in {"probing", "unknown", "known"}
  PROVE  IInv'
<1> DEFINE next == [request[r] EXCEPT !.cloud = leg]
<1>1. next \in Handlers /\ HandlerOK(next) /\ next.phase = "running"
  BY RunningHas, CloudChanges
<1>2. Move(r, next)
  BY DEF Cloud
<1>3. worker' \in {"none", "starting", "ready", "broken"}
  BY RunningHas
<1> HIDE DEF next
<1> QED
  BY <1>1, <1>2, <1>3, QuietMove

LEMMA AwaitWorkerInv ==
  ASSUME IInv, NEW r \in Requests, AwaitWorker(r)
  PROVE  IInv'
<1>1. /\ request[r].phase = "running" /\ UNCHANGED <<config, quota, model>> /\ Tess(r, Leg("waiting"))
      /\ worker' \in {"none", "starting", "ready", "broken"}
  BY RunningHas DEF AwaitWorker, RunningLeg
<1>2. Leg("waiting") \in Legs(Readings) /\ LegOK(Leg("waiting"), Readings)
  BY LegType DEF States
<1> QED
  BY <1>1, <1>2, TessMove

LEMMA RecognizeInv ==
  ASSUME IInv, NEW r \in Requests, Recognize(r)
  PROVE  IInv'
<1>1. /\ request[r].phase = "running" /\ UNCHANGED <<config, quota, model>>
      /\ worker' \in {"none", "starting", "ready", "broken"}
      /\ Tess(r, Leg("failed")) \/ \E t \in Readings : Tess(r, Read(t))
  BY RunningHas DEF Recognize, RunningLeg
<1>2. Leg("failed") \in Legs(Readings) /\ LegOK(Leg("failed"), Readings)
  BY LegType DEF States
<1>3. \A t \in Readings : Read(t) \in Legs(Readings) /\ LegOK(Read(t), Readings)
  BY ReadType
<1> QED
  BY <1>1, <1>2, <1>3, TessMove

LEMMA ResolveModelInv ==
  ASSUME IInv, NEW r \in Requests, ResolveModel(r)
  PROVE  IInv'
<1>1. /\ request[r].phase = "running" /\ UNCHANGED <<config, quota, worker>>
      /\ model' \in {"probing", "unknown", "known"}
      /\ Cloud(r, Leg("calling")) \/ Cloud(r, Leg("failed"))
  BY RunningHas DEF ResolveModel, RunningLeg
<1>2. \A state \in {"calling", "failed"} :
        Leg(state) \in Legs(Transcriptions) /\ LegOK(Leg(state), Transcriptions \cup {Nothing})
  BY LegType DEF States
<1> QED
  BY <1>1, <1>2, CloudMove

LEMMA TranscribeInv ==
  ASSUME IInv, NEW r \in Requests, Transcribe(r) \/ GiveUp(r)
  PROVE  IInv'
<1>1. /\ request[r].phase = "running" /\ UNCHANGED <<config, quota, worker>>
      /\ model' \in {"probing", "unknown", "known"}
      /\ \E t \in Transcriptions \cup {Nothing} : Cloud(r, Read(t))
  BY RunningHas DEF Transcribe, GiveUp, RunningLeg
<1>2. \A t \in Transcriptions \cup {Nothing} :
        Read(t) \in Legs(Transcriptions) /\ LegOK(Read(t), Transcriptions \cup {Nothing})
  BY ReadType
<1> QED
  BY <1>1, <1>2, CloudMove

LEMMA RejectInv ==
  ASSUME IInv, NEW r \in Requests, Reject(r)
  PROVE  IInv'
<1> DEFINE next == [request[r] EXCEPT !.phase = "failed"]
<1>1. Move(r, next) /\ UNCHANGED <<config, quota, worker, model>>
  BY DEF Reject
<1>2. next \in Handlers /\ HandlerOK(next) /\ next.phase = "failed"
  BY RunningHas DEF Handlers, HandlerOK, Phases
<1>3. worker' \in {"none", "starting", "ready", "broken"} /\ model' \in {"probing", "unknown", "known"}
  BY <1>1, RunningHas
<1> HIDE DEF next
<1> QED
  BY <1>1, <1>2, <1>3, QuietMove

\* What is answered to the transcripts of two legs is an answer.
LEMMA AnswersType ==
  /\ \A t \in Readings : Alone[t] = FromTesseract(t) /\ Alone[t] \in Answers
  /\ \A t \in Readings, c \in Transcriptions \cup {Nothing} :
       Both[t][c] = Merged(t, c) /\ Both[t][c] \in Answers
<1>1. Readings \subseteq Transcripts /\ Transcriptions \cup {Nothing} \subseteq Transcripts
  BY OcrAssumption, NothingIsRead
<1> QED
  BY <1>1, FromTesseractType, MergedType DEF Alone, Both

LEMMA RespondInv ==
  ASSUME IInv, NEW r \in Requests, Respond(r)
  PROVE  IInv'
<1> DEFINE q == request[r]
           answer == IF q.cloud.state = "off" THEN Alone[q.tess.text] ELSE Both[q.tess.text][q.cloud.text]
           next == [q EXCEPT !.phase = "answered", !.answer = answer]
<1>1. /\ q.tess.state = "done" /\ q.cloud.state \in {"done", "off"} /\ Move(r, next)
      /\ UNCHANGED <<config, quota, worker, model>>
  BY DEF Respond
<1>2. q \in Handlers /\ HandlerOK(q)
  BY RunningHas
<1>3. worker' \in {"none", "starting", "ready", "broken"} /\ model' \in {"probing", "unknown", "known"}
  BY <1>1, RunningHas
<1> HIDE DEF q
<1>4. q.tess.text \in Readings /\ (q.cloud.state = "done" => q.cloud.text \in Transcriptions \cup {Nothing})
  BY <1>1, <1>2 DEF HandlerOK, LegOK
<1>5. answer \in Answers
  BY <1>1, <1>4, AnswersType
<1>6. next \in Handlers /\ next.phase = "answered" /\ next.answer = answer
      /\ next.tess = q.tess /\ next.cloud = q.cloud
  <2> HIDE DEF answer
  <2> QED
    BY <1>2, <1>5 DEF Handlers, Phases
<1> HIDE DEF next
<1>7. HandlerOK(next)
  BY <1>1, <1>2, <1>6 DEF HandlerOK
<1> QED
  BY <1>1, <1>3, <1>6, <1>7, QuietMove

LEMMA ReplyInv ==
  ASSUME IInv, NEW r \in Requests, Reply(r)
  PROVE  IInv'
<1>1. Move(r, Idle) /\ UNCHANGED <<config, quota, worker, model>>
  BY DEF Reply
<1>2. worker' \in {"none", "starting", "ready", "broken"} /\ model' \in {"probing", "unknown", "known"}
  BY <1>1, RunningHas
<1> QED
  BY <1>1, <1>2, IdleType, QuietMove

-----------------------------------------------------------------------------
(* Steps of nobody's.                                                      *)

LEMMA EngineInv ==
  ASSUME IInv, WorkerSettles \/ Probe
  PROVE  IInv'
<1>1. UNCHANGED <<engine, redis, month, counter, reserved, request>>
  BY DEF WorkerSettles, Probe, config, quota
<1>2. worker' \in {"none", "starting", "ready", "broken"} /\ model' \in {"probing", "unknown", "known"}
  BY DEF WorkerSettles, Probe, IInv, TypeOK
<1>3. TypeOK'
  BY <1>1, <1>2 DEF IInv, TypeOK
<1>4. AnswersInv'
  BY <1>1 DEF IInv, AnswersInv, HandlerOK
<1>5. Promised' = Promised
  BY <1>1 DEF Promised
<1>6. QuotaInv'
  BY <1>1, <1>5 DEF IInv, QuotaInv
<1> QED
  BY <1>3, <1>4, <1>6 DEF IInv

LEMMA NextMonthInv ==
  ASSUME IInv, NextMonth
  PROVE  IInv'
<1> USE Numbers
<1>1. /\ month' = month + 1 /\ month < LastMonth /\ reserved' = 0
      /\ UNCHANGED <<engine, redis, counter, worker, model, request>>
  BY DEF NextMonth, config
<1>2. month' \in Months
  BY <1>1, OcrAssumption DEF IInv, TypeOK, Months
<1>3. TypeOK'
  BY <1>1, <1>2 DEF IInv, TypeOK
<1>4. AnswersInv'
  BY <1>1 DEF IInv, AnswersInv, HandlerOK
<1>5. Promised' = Promised
  BY <1>1 DEF Promised
<1>6. reserved' <= counter'[month']
  BY <1>1, <1>2 DEF IInv, TypeOK
<1>7. reserved' + Cardinality(Promised') <= Limit + Cardinality(Requests) - 1
  BY <1>1, <1>5, PromisedBounded
<1>8. QuotaInv'
  BY <1>1, <1>6, <1>7 DEF IInv, QuotaInv
<1> QED
  BY <1>3, <1>4, <1>8 DEF IInv

LEMMA RestartInv ==
  ASSUME IInv, Restart
  PROVE  IInv'
<1> USE Numbers
<1>1. /\ \A r \in Requests : request'[r] = Idle
      /\ UNCHANGED <<engine, redis, month>> /\ worker' = "none" /\ model' \in {"probing", "unknown"}
      /\ UNCHANGED <<counter, reserved>> \/ (counter' = [m \in Months |-> 0] /\ reserved' = 0)
  BY DEF Restart, config
<1>2. request' \in [Requests -> Handlers]
  BY IdleType DEF Restart
<1>3. counter' \in [Months -> 0..CounterCap] /\ reserved' \in Nat
  <2>1. 0 \in 0..CounterCap
    OBVIOUS
  <2> QED
    BY <1>1, <2>1 DEF IInv, TypeOK
<1>4. TypeOK'
  BY <1>1, <1>2, <1>3 DEF IInv, TypeOK
<1>5. AnswersInv'
  <2>1. \A r \in Requests : HandlerOK(request'[r])
    BY <1>1, IdleType
  <2> QED
    BY <2>1 DEF AnswersInv, HandlerOK
<1>6. \A r \in Requests : request'[r].phase = "idle"
  BY <1>1, IdleType
<1>7. Promised' = {}
  BY <1>6 DEF Promised
<1>8. reserved' <= counter'[month']
  BY <1>1 DEF IInv, TypeOK, QuotaInv
<1>9. reserved' + Cardinality(Promised') <= Limit + Cardinality(Requests) - 1
  <2>1. Cardinality(Promised') = 0
    BY <1>7, FS_EmptySet
  <2>2. reserved <= Limit + Cardinality(Requests) - 1
    BY PromisedBounded DEF IInv, TypeOK, QuotaInv
  <2> QED
    BY <1>1, <2>1, <2>2 DEF IInv, TypeOK
<1>10. QuotaInv'
  BY <1>6, <1>8, <1>9 DEF QuotaInv
<1> QED
  BY <1>4, <1>5, <1>10 DEF IInv

LEMMA StepInv == IInv /\ [Next]_vars => IInv'
<1> SUFFICES ASSUME IInv, [Next]_vars PROVE IInv'
  OBVIOUS
<1>1. ASSUME NEW r \in Requests, Submit(r) \/ Handle(r) PROVE IInv'
  BY <1>1, SubmitInv, CanConsumeInv, ConsumeInv, AwaitWorkerInv, RecognizeInv, ResolveModelInv,
     TranscribeInv, RejectInv, RespondInv, ReplyInv DEF Handle
<1>2. CASE UNCHANGED vars
  <2>1. UNCHANGED <<engine, redis, month, counter, worker, model, request, reserved>>
    BY <1>2 DEF vars
  <2> QED
    BY <2>1 DEF IInv, TypeOK, AnswersInv, HandlerOK, QuotaInv, Promised
<1> QED
  BY <1>1, <1>2, EngineInv, NextMonthInv, RestartInv DEF Next

-----------------------------------------------------------------------------

\* What the handlers of receipts hold, and what the quota owes them, whatever the engines do.
THEOREM OcrInvariant == Spec => []IInv
<1> QED
  BY InitInv, StepInv, PTL DEF Spec

\* The calls to Vision that were checked and counted pass the monthly limit by fewer than the
\* handlers there are (google-vision-quota.service.ts:8).
THEOREM QuotaBoundedHolds == Spec => []QuotaBounded
<1>1. IInv => QuotaBounded
  <2> SUFFICES ASSUME IInv PROVE QuotaBounded
    OBVIOUS
  <2> QED
    BY Numbers, PromisedBounded DEF IInv, TypeOK, QuotaInv, QuotaBounded
<1> QED
  BY <1>1, OcrInvariant, PTL

\* Steps that change the cloud leg of one handler, and those that leave it alone.
LEMMA RefusalsStep == IInv /\ RefusalsInv /\ [Next]_vars => RefusalsInv'
<1> SUFFICES ASSUME IInv, RefusalsInv, [Next]_vars PROVE RefusalsInv'
  OBVIOUS
<1> DEFINE OK(q) == /\ q.cloud.state \in {"resolving", "failed"} => engine = "ollama"
                    /\ q.phase = "failed" => "failed" \in {q.tess.state, q.cloud.state}
<1>1. \A r \in Requests : OK(request[r]) /\ request[r] \in Handlers
  BY DEF RefusalsInv, IInv, TypeOK
<1>2. engine' = engine
  BY DEF Next, Submit, Handle, CanConsume, Consume, AwaitWorker, Recognize, ResolveModel, Transcribe, GiveUp,
         Reject, Respond, Reply, WorkerSettles, Probe, NextMonth, Restart, config, vars
<1>3. ASSUME NEW r \in Requests, NEW next, Move(r, next), OK(next) PROVE RefusalsInv'
  <2>1. \A q \in Requests : request'[q] = next \/ request'[q] = request[q]
    BY <1>3 DEF Move, IInv, TypeOK
  <2> QED
    BY <1>1, <1>2, <1>3, <2>1 DEF RefusalsInv
<1>4. OK(Idle) /\ OK(Running(Off)) /\ OK(Running(Leg("calling"))) /\ OK(Handler("checking", Off, Off))
      /\ (engine = "ollama" => OK(Running(Leg("resolving"))))
  BY DEF Idle, Running, Handler, Off, Leg
<1>5. ASSUME NEW r \in Requests, NEW leg, request[r].phase = "running",
             Tess(r, leg) \/ (Cloud(r, leg) /\ (leg.state \in {"resolving", "failed"} => engine = "ollama"))
      PROVE  RefusalsInv'
  <2>1. request[r] \in Handlers /\ OK(request[r])
    BY <1>1
  <2>2. /\ OK([request[r] EXCEPT !.tess = leg])
        /\ (leg.state \in {"resolving", "failed"} => engine = "ollama")
             => OK([request[r] EXCEPT !.cloud = leg])
    BY <1>5, <2>1 DEF Handlers
  <2> QED
    BY <1>3, <1>5, <2>2 DEF Tess, Cloud
<1>6. ASSUME NEW r \in Requests, Submit(r) PROVE RefusalsInv'
  BY <1>3, <1>4, <1>6 DEF Submit
<1>7. ASSUME NEW r \in Requests, CanConsume(r) \/ Consume(r) PROVE RefusalsInv'
  <2>1. \A answers \in BOOLEAN : OK([request[r] EXCEPT !.phase = "consuming", !.genuine = answers])
    BY <1>1 DEF Handlers
  <2> QED
    BY <1>3, <1>4, <1>7, <2>1 DEF CanConsume, Consume
<1>8. ASSUME NEW r \in Requests, AwaitWorker(r) \/ Recognize(r) PROVE RefusalsInv'
  BY <1>5, <1>8 DEF AwaitWorker, Recognize, RunningLeg
<1>9. ASSUME NEW r \in Requests, ResolveModel(r) PROVE RefusalsInv'
  <2>1. request[r].phase = "running" /\ engine = "ollama" /\ (Cloud(r, Leg("calling")) \/ Cloud(r, Leg("failed")))
    BY <1>1, <1>9 DEF ResolveModel, RunningLeg
  <2> QED
    BY <1>5, <2>1
<1>10. ASSUME NEW r \in Requests, Transcribe(r) \/ GiveUp(r) PROVE RefusalsInv'
  <2>1. \A t : Read(t).state = "done"
    BY DEF Read
  <2> QED
    BY <1>5, <1>10, <2>1 DEF Transcribe, GiveUp, RunningLeg
<1>11. ASSUME NEW r \in Requests, Reject(r) PROVE RefusalsInv'
  <2>1. "failed" \in {request[r].tess.state, request[r].cloud.state}
        /\ Move(r, [request[r] EXCEPT !.phase = "failed"])
    BY <1>11 DEF Reject
  <2>2. OK([request[r] EXCEPT !.phase = "failed"])
    BY <1>1, <2>1 DEF Handlers
  <2> QED
    BY <1>3, <2>1, <2>2
<1>12. ASSUME NEW r \in Requests, Respond(r) PROVE RefusalsInv'
  <2>1. PICK a : Move(r, [request[r] EXCEPT !.phase = "answered", !.answer = a])
    BY <1>12 DEF Respond
  <2>2. OK([request[r] EXCEPT !.phase = "answered", !.answer = a])
    BY <1>1 DEF Handlers
  <2> QED
    BY <1>3, <2>1, <2>2
<1>13. ASSUME NEW r \in Requests, Reply(r) PROVE RefusalsInv'
  BY <1>3, <1>4, <1>13 DEF Reply
<1>14. CASE Restart
  <2>1. \A r \in Requests : request'[r] = Idle
    BY <1>14 DEF Restart
  <2> QED
    BY <1>2, <1>4, <2>1 DEF RefusalsInv
<1>15. CASE UNCHANGED request
  BY <1>1, <1>2, <1>15 DEF RefusalsInv
<1> QED
  BY <1>6, <1>7, <1>8, <1>9, <1>10, <1>11, <1>12, <1>13, <1>14, <1>15
     DEF Next, Handle, WorkerSettles, Probe, NextMonth, vars

\* Tesseract goes on alone (google-vision-ocr.service.ts:35): a cloud engine that is off, out of
\* quota or silent costs at most what a short transcript said, and refuses no invoice, but for an
\* Ollama that does not say which models it has.
THEOREM TesseractGoesOnAloneHolds == Spec => []TesseractGoesOnAlone
<1>1. ASSUME IInv, RefusalsInv, NEW r \in Requests, request[r].phase = "answered",
             request[r].cloud.text = Nothing
      PROVE  \/ request[r].answer = Alone[request[r].tess.text]
             \/ /\ request[r].tess.text.quality = "short" /\ request[r].cloud.state = "done"
                /\ request[r].answer.amount = 0 /\ request[r].answer.date = 0
  <2> DEFINE q == request[r]
  <2>1. HandlerOK(q) /\ q.phase = "answered" /\ q.cloud.text = Nothing
    BY <1>1, RunningHas
  <2> HIDE DEF q
  <2>2. /\ q.tess.text \in Readings /\ q.cloud.state \in {"done", "off"}
        /\ q.answer = IF q.cloud.state = "off" THEN Alone[q.tess.text] ELSE Both[q.tess.text][Nothing]
    BY <2>1 DEF HandlerOK, LegOK
  <2>3. q.tess.text \in Transcripts /\ q.tess.text.quality # "echo"
    BY <2>2, OcrAssumption
  <2>4. \/ Both[q.tess.text][Nothing] = Alone[q.tess.text]
        \/ /\ q.tess.text.quality = "short"
           /\ Both[q.tess.text][Nothing].amount = 0 /\ Both[q.tess.text][Nothing].date = 0
    BY <2>2, <2>3, MergedWithNothing, AnswersType
  <2> QED
    BY <2>2, <2>4 DEF q
<1>2. ASSUME RefusalsInv, NEW r \in Requests, request[r].phase = "failed", request[r].tess.state # "failed"
      PROVE  engine = "ollama" /\ request[r].cloud.state = "failed"
  BY <1>2 DEF RefusalsInv
<1>3. IInv /\ RefusalsInv => TesseractGoesOnAlone
  BY <1>1, <1>2 DEF TesseractGoesOnAlone
<1>4. Init => RefusalsInv
  <2> SUFFICES ASSUME Init, NEW r \in Requests
               PROVE  /\ request[r].cloud.state = "off"
                      /\ request[r].phase = "idle"
    BY DEF RefusalsInv
  <2> QED
    BY DEF Init, Idle, Handler, Off
<1> QED
  BY <1>3, <1>4, OcrInvariant, RefusalsStep, PTL DEF Spec

\* An amount answered in dollars: nobody said "Bs" or "bolivares", the code VES and the rate only
\* beside dollars, and a line with that amount is not in bolivares.
THEOREM DollarsAreNoBolivarsHolds == Spec => []DollarsAreNoBolivars
<1>1. ASSUME IInv, NEW r \in Requests, request[r].phase = "answered", request[r].answer.currency = "USD"
      PROVE  DollarsFit(request[r].answer.amount,
                        LineSet(request[r].tess.text.lines) \cup LineSet(request[r].cloud.text.lines),
                        Mentions(request[r].tess.text.lines) \cup Mentions(request[r].cloud.text.lines))
  <2> DEFINE q == request[r]
  <2>1. HandlerOK(q) /\ q.phase = "answered" /\ q.answer.currency = "USD"
    BY <1>1, RunningHas
  <2> HIDE DEF q
  <2>2. /\ q.tess.text \in Readings /\ q.tess.text \in Transcripts /\ q.cloud.state \in {"done", "off"}
        /\ q.cloud.state = "off" => q.cloud.text = Nothing
        /\ q.cloud.text \in Transcriptions \cup {Nothing} /\ q.cloud.text \in Transcripts
        /\ q.answer = IF q.cloud.state = "off" THEN Alone[q.tess.text] ELSE Both[q.tess.text][q.cloud.text]
    BY <2>1, OcrAssumption, NothingIsRead DEF HandlerOK, LegOK
  <2>3. CASE q.cloud.state = "off"
    <3>1. DollarsFit(q.answer.amount, LineSet(q.tess.text.lines), Mentions(q.tess.text.lines))
      BY <2>1, <2>2, <2>3, FromTesseractType, AnswersType
    <3>2. Mentions(Nothing.lines) = {} /\ LineSet(Nothing.lines) = {}
      <4>1. Nothing.lines = <<>> /\ DOMAIN <<>> = {}
        BY EmptySeq DEF Nothing
      <4> QED
        BY <4>1 DEF Mentions, LineSet
    <3>3. /\ LineSet(q.tess.text.lines) \cup LineSet(q.cloud.text.lines) = LineSet(q.tess.text.lines)
          /\ Mentions(q.tess.text.lines) \cup Mentions(q.cloud.text.lines) = Mentions(q.tess.text.lines)
      BY <2>2, <2>3, <3>2
    <3> QED
      BY <3>1, <3>3 DEF q
  <2>4. CASE q.cloud.state = "done"
    BY <2>1, <2>2, <2>4, MergedType, AnswersType DEF q
  <2> QED
    BY <2>2, <2>3, <2>4
<1>2. IInv => DollarsAreNoBolivars
  BY <1>1 DEF DollarsAreNoBolivars, DollarsFit
<1> QED
  BY <1>2, OcrInvariant, PTL
=============================================================================

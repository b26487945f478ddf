----------------------------- MODULE OcrEvidence -----------------------------
(***************************************************************************)
(* How several OCR passes over one page decide its fields: the date        *)
(* (receipts/summary_evidence.py), the price of an item                    *)
(* (receipts/item_evidence.py) and the financial header                    *)
(* (receipts/financial_header.py). Passes are evidence, not votes: a value *)
(* that the passes dispute needs independent support.                      *)
(***************************************************************************)
EXTENDS Amounts

CONSTANTS BasePrices,    \* readings of the row the page text holds
          PriceReadings, \* what one pass may read on that row
          DatePasses,    \* what one pass may read of the date
          HeaderPasses,  \* what one pass may read of the totals
          MaxPasses      \* bound on the passes

ASSUME EvidenceAssumption == MaxPasses \in Nat

VARIABLES base,      \* the row of the page text under decision, None before
          prices,    \* one price reading per pass that has the row
          dates,     \* the date readings of each pass
          headers    \* the totals read by each pass

evidenceVars == <<base, prices, dates, headers>>

-----------------------------------------------------------------------------
(* The date. A pass is [run, page, engine, lines]; a reading is its date   *)
(* (a tuple <<century, year, day>> of what one misread glyph can change),  *)
(* its time or None, the digits of its year, its line and the rank of the  *)
(* purpose it is printed for.                                              *)

Candidates(seen) == UNION {{i} \X seen[i].lines : i \in DOMAIN seen}

GlyphsApart(a, b) == Cardinality({k \in DOMAIN a : a[k] # b[k]})
Apart(r, s)  == r.line - s.line >= 2 \/ s.line - r.line >= 2
DatesOf(cs)  == {c[2].date : c \in cs}
Clocks(cs)   == {c[2].time : c \in cs} \ {None}
Strongest(cs) == {c \in cs : \A d \in cs : c[2].rank <= d[2].rank}

\* A full year in one row and the short date of another row of the same pass.
PrintedTwice(c, cs) ==
    /\ c[2].digits = 4
    /\ \E d \in cs : /\ d[1] = c[1] /\ d[2].digits = 2
                     /\ d[2].date = c[2].date /\ Apart(c[2], d[2])

OtherEngine(seen, c, d) == /\ seen[d[1]].run = seen[c[1]].run
                           /\ seen[d[1]].page = seen[c[1]].page
                           /\ seen[d[1]].engine # seen[c[1]].engine

\* _independently_corroborated_date
IndependentDate(seen, eligible, cs) ==
    LET supported == DatesOf({c \in eligible :
                        /\ c[2].time # None
                        /\ PrintedTwice(c, cs)
                        /\ \E d \in eligible : /\ d[2].digits = 4 /\ d[2].date = c[2].date
                                               /\ OtherEngine(seen, c, d)})
    IN IF IsSingle(supported) THEN Only(supported) ELSE None

\* _corroborated_year: the short dates agree, and so does every reading but
\* for one glyph of the year.
YearDate(eligible, cs) ==
    LET short  == {c \in cs : c[2].digits = 2}
        target == Only(DatesOf(short))
        near(c) == \/ c[2].digits = 2 /\ c[2].date = target
                   \/ /\ c[2].digits = 4 /\ c[2].date[3] = target[3]
                      /\ GlyphsApart(c[2].date, target) <= 1
    IN IF /\ IsSingle(DatesOf(short))
          /\ Cardinality(Clocks(eligible)) <= 1
          /\ \A c \in eligible : near(c)
          /\ \E c \in eligible : c[2].date = target /\ PrintedTwice(c, cs)
       THEN target ELSE None

\* _corroborated_printed_date: one time, and every reading within a glyph of
\* the one date that is printed twice.
PrintedDate(eligible, cs) ==
    LET supported == DatesOf({c \in eligible : c[2].time # None /\ PrintedTwice(c, cs)})
    IN IF /\ IsSingle(Clocks(eligible))
          /\ IsSingle(supported)
          /\ \A c \in eligible : GlyphsApart(c[2].date, Only(supported)) <= 1
       THEN Only(supported) ELSE None

\* resolve, for the transaction date.
ResolveDate(seen) ==
    LET cs       == Candidates(seen)
        first    == Strongest(cs)
        backed   == CASE IndependentDate(seen, first, cs) # None -> IndependentDate(seen, first, cs)
                      [] OTHER -> IF YearDate(first, cs) # None THEN YearDate(first, cs)
                                  ELSE PrintedDate(first, cs)
        disputed == Cardinality(DatesOf(first)) > 1
        eligible == IF disputed /\ backed # None
                    THEN {c \in first : c[2].date = backed} ELSE first
        days     == DatesOf(eligible)
        timed    == {<<c[2].date, c[2].time>> : c \in {c \in eligible : c[2].time # None}}
    IN [date   |-> IF IsSingle(days) THEN Only(days) ELSE None,
        time   |-> IF IsSingle(days) /\ IsSingle(timed) THEN Only(timed)[2] ELSE None,
        status |-> IF Cardinality(days) > 1 \/ Cardinality(timed) > 1
                   THEN "conflict" ELSE "selected"]

-----------------------------------------------------------------------------
(* The price of one row. A reading is [run, engine, render, value,         *)
(* currency, confidence, kind]; the base is the row of the page text.      *)

\* A weight times a unit price counts where that amount is also printed.
EligiblePrices(row, readings) ==
    LET literal == {row.value} \cup {readings[i].value :
                        i \in {k \in DOMAIN readings : readings[k].kind = "literal"}}
    IN {i \in DOMAIN readings : readings[i].kind = "literal" \/ readings[i].value \in literal \ {None}}

ReadWith(readings, eligible, v) == {readings[i] : i \in {k \in eligible : readings[k].value = v}}

\* Wrong: two passes of one run are enough.
TwoPasses(readings, eligible) ==
    {v \in {readings[i].value : i \in eligible} :
        \E run \in {readings[i].run : i \in eligible} \ {None} :
            Cardinality({i \in eligible : readings[i].value = v /\ readings[i].run = run}) >= 2}

\* Two engines of one run read the same price.
TwoEngines(readings, eligible) ==
    {v \in {readings[i].value : i \in eligible} :
        \E run \in {readings[i].run : i \in eligible} \ {None} :
            Cardinality({r.engine : r \in {s \in ReadWith(readings, eligible, v) : s.run = run}}
                            \ {None}) >= 2}

OneRun(readings) == LET runs == {readings[i].run : i \in DOMAIN readings}
                    IN IsSingle(runs) /\ None \notin runs

\* A dollar sign that the page text took for a leading digit.
DollarAsDigit(value, v) ==
    \/ value \in 1000..9999 /\ v = value % 1000
    \/ value \in 10000..99999 /\ v = value % 10000 /\ v >= 1000

\* Two renders of the page read the currency sign and the price without it.
TwoRenders(row, readings, eligible) ==
    {v \in {readings[i].value : i \in eligible} :
        /\ DollarAsDigit(row.value, v)
        /\ Cardinality({r.render : r \in {s \in ReadWith(readings, eligible, v) : s.currency}}) >= 2}

MinConfidence == 90
Margin == 15

\* A reading with a currency sign that is far clearer than all that disagree.
ClearReading(row, readings, eligible) ==
    LET quality(v)   == Max({0} \cup {r.confidence :
                            r \in {s \in ReadWith(readings, eligible, v) :
                                        s.currency /\ s.confidence # None}})
        opponents(v) == {r.confidence : r \in {readings[i] : i \in eligible}
                                                \ ReadWith(readings, eligible, v)}
                        \cup (IF row.value \notin {None, v} /\ row.confidence \notin {None, 0}
                              THEN {row.confidence} ELSE {})
    IN {v \in {readings[i].value : i \in eligible} :
            /\ quality(v) >= MinConfidence
            /\ opponents(v) # {} /\ None \notin opponents(v)
            /\ quality(v) - Max(opponents(v)) >= Margin}

\* resolve, for one row: the supported price, or else what the page text has.
ResolvePrice(row, readings) ==
    LET eligible == EligiblePrices(row, readings)
        engines  == TwoEngines(readings, eligible)
        renders  == IF row.value # None /\ ~row.currency /\ OneRun(readings)
                    THEN TwoRenders(row, readings, eligible) ELSE {}
        clear    == IF OneRun(readings) THEN ClearReading(row, readings, eligible) ELSE {}
        supported == CASE engines # {} -> engines
                       [] engines = {} /\ renders # {} -> renders
                       [] OTHER -> IF IsSingle(clear) THEN clear ELSE {}
        observed == ({row.value} \cup {readings[i].value : i \in eligible}) \ {None}
        value    == IF IsSingle(supported) THEN Only(supported) ELSE row.value
    IN [value  |-> value,
        status |-> CASE \/ Cardinality(supported) > 1
                        \/ supported = {} /\ Cardinality(observed) > 1 -> "conflict"
                     [] IsSingle(supported) -> "selected"
                     [] OTHER -> IF \E i \in eligible : readings[i].value = row.value
                                 THEN "observed" ELSE "unverified"]

-----------------------------------------------------------------------------
(* The totals. A pass reads [run, page, engine, subtotal, tax, total].     *)

\* financial_header.apply: the one coherent header that two engines of a run
\* read on a page, if there is one.
FinancialHeader(seen) ==
    LET values(i)  == <<seen[i].subtotal, seen[i].tax, seen[i].total>>
        adds(i)    == /\ None \notin {seen[i].subtotal, seen[i].tax, seen[i].total}
                      /\ seen[i].subtotal + seen[i].tax - seen[i].total \in -1..1
        support(v) == {<<seen[i].run, seen[i].page, seen[i].engine>> :
                        i \in {k \in DOMAIN seen : adds(k) /\ values(k) = v}}
        supported  == {v \in {values(i) : i \in {k \in DOMAIN seen : adds(k)}} :
                        \E a, b \in support(v) : /\ a[1] = b[1] /\ a[2] = b[2]
                                                 /\ a[3] # b[3]}
    IN IF IsSingle(supported) THEN Only(supported) ELSE None

-----------------------------------------------------------------------------
(* Passes report one after the other. *)

EvidenceInit == base = None /\ prices = <<>> /\ dates = <<>> /\ headers = <<>>

DecideRow(row) == /\ base = None /\ dates = <<>> /\ headers = <<>>
                  /\ base' = row
                  /\ UNCHANGED <<prices, dates, headers>>

ReadPrice(reading) == /\ base # None
                      /\ Len(prices) < MaxPasses
                      /\ prices' = Append(prices, reading)
                      /\ UNCHANGED <<base, dates, headers>>

ReadDates(pass) == /\ Len(dates) < MaxPasses /\ base = None /\ headers = <<>>
                   /\ dates' = Append(dates, pass)
                   /\ UNCHANGED <<base, prices, headers>>

ReadHeader(pass) == /\ Len(headers) < MaxPasses /\ base = None /\ dates = <<>>
                    /\ headers' = Append(headers, pass)
                    /\ UNCHANGED <<base, prices, dates>>

EvidenceNext == \/ \E row \in BasePrices : DecideRow(row)
                \/ \E reading \in PriceReadings : ReadPrice(reading)
                \/ \E pass \in DatePasses : ReadDates(pass)
                \/ \E pass \in HeaderPasses : ReadHeader(pass)

EvidenceSpec == EvidenceInit /\ [][EvidenceNext]_evidenceVars

-----------------------------------------------------------------------------
(* Properties *)

\* Another pass of the same engine over the same render that reads the same
\* again changes no decision ("Repeated passes are not votes",
\* "neither pass counts nor a preferred engine can invent a winning value",
\* summary_evidence.py).
PassesAreNotVotes ==
    /\ \A i \in DOMAIN prices :
            ResolvePrice(base, Append(prices, prices[i])) = ResolvePrice(base, prices)
    /\ \A i \in DOMAIN dates : ResolveDate(Append(dates, dates[i])) = ResolveDate(dates)
    /\ \A i \in DOMAIN headers :
            FinancialHeader(Append(headers, headers[i])) = FinancialHeader(headers)

=============================================================================

------------------------------ MODULE OcrPages ------------------------------
(***************************************************************************)
(* How the OCR candidates of one page become its text (receipts/ingest.py: *)
(* _select_ocr_candidate, _line_consensus_text, select_ocr_page and        *)
(* _supplement_missing_receipt_summary). A candidate is                    *)
(* [text, engine, dpi, confidence, merchant]; the lines of a text are      *)
(* those of ReceiptReading, with "stamp" for a line with a valid time and  *)
(* "card" for one with the digits of a card.                               *)
(***************************************************************************)
EXTENDS ReceiptReading

CONSTANTS OcrCandidates,   \* what the engines may make of the page
          MaxCandidates    \* bound on the candidates

ASSUME CandidatesAssumption ==
    /\ MaxCandidates \in Nat
    /\ \A c \in OcrCandidates : /\ c.text \in Seq(ToSet(c.text))
                                /\ c.confidence \in Int /\ c.dpi \in Int

VARIABLES layer,           \* the page's own text, None for a bare image
          candidates       \* readings of the page, in the order of the passes

pagesVars == <<layer, candidates>>

-----------------------------------------------------------------------------
(* The base candidate *)

\* _ocr_candidate_score, less the volume of the text.
Structure(text) ==
    LET count(P(_)) == Cardinality({k \in DOMAIN text : P(text[k])})
    IN 500 * Bit(count(LAMBDA l : l.kind = "stamp") > 0)
       + 20 * Least(5, count(LAMBDA l : Money(l) # None))
       + 40 * Least(3, count(LAMBDA l : l.kind \in Labels \cup {"included"}))

\* Refunds and their taxes point the same way.
SameDirection(t) ==
    t.subtotal # None /\ t.total # None =>
        LET due == t.total - t.subtotal
        IN /\ t.subtotal * t.total >= 0
           /\ t.tax # None => IF Abs(due) <= 1 THEN Abs(t.tax) <= 1 ELSE t.tax * due >= 0

\* rank: coherent fields before the volume of the text. r is the reading of
\* one candidate among those of all.
Rank(readings, r) ==
    LET t        == r.totals
        coherent == Coherent(t)
        agreeing == IF t.total = None THEN 0
                    ELSE Cardinality({o \in readings : /\ o.totals.total # None
                                                        /\ Agree(o.totals.total, t.total)})
        sameName == IF r.of.merchant = None THEN 0
                    ELSE Cardinality({o \in readings : o.of.merchant = r.of.merchant})
        itemsAdd == /\ r.amounts # <<>> /\ t.subtotal # None
                    /\ Agree(Sum(r.amounts), t.subtotal)
    IN <<Bit(coherent), Bit(SameDirection(t)), IF coherent THEN 0 ELSE agreeing,
         Bit(itemsAdd), IF coherent THEN agreeing ELSE 0, IF coherent THEN sameName ELSE 0,
         IF coherent THEN r.of.confidence ELSE 0, Structure(r.of.text), r.of.dpi>>

ItemAmounts(text) == LET items == ExtractItems(text).items
                     IN [k \in DOMAIN items |-> items[k].amount]

SelectCandidate(cs) ==
    LET readings == {[at |-> i, of |-> cs[i], totals |-> Header(cs[i].text),
                      amounts |-> ItemAmounts(cs[i].text)] : i \in DOMAIN cs}
    IN cs[Best({[at |-> r.at, key |-> Rank(readings, r)] : r \in readings}).at]

-----------------------------------------------------------------------------
(* Consensus, line by line *)

\* The row of a candidate that repeats a row of the base: the same occurrence
\* of it, or the last one there is.
Counterpart(base, k, c) ==
    LET matches    == SelectSeq(c.text, LAMBDA l : Alike(base.text[k], l))
        occurrence == Cardinality({j \in 1..(k - 1) : Alike(base.text[k], base.text[j])})
    IN IF matches = <<>> THEN None ELSE matches[Least(occurrence + 1, Len(matches))]

\* _merge_ocr_line_evidence: a better spelling keeps the amount of the base.
Respelled(line, winner) ==
    IF Money(winner) = None /\ Money(line) # None
    THEN [winner EXCEPT !.print = line.print, !.amount = line.amount] ELSE winner

\* The best reading of one row: time, engine, evidence in halves of a point, dpi.
ConsensusLine(cs, base, k) ==
    LET rows == {[at |-> i, of |-> cs[i], line |-> Counterpart(base, k, cs[i])] : i \in DOMAIN cs}
        having == {r \in rows : r.line # None}
        paddle(r) == Bit(r.of.engine = "paddle")
        evidence(r) == 2 * r.of.confidence + Least(36, (2 * r.of.dpi) \div 25) + 16 * paddle(r)
                       + Least(4, Cardinality({o \in having : o.line = r.line}))
        best == Best({[at |-> r.at, line |-> r.line, evidence |-> evidence(r), paddle |-> paddle(r),
                       key |-> <<Bit(r.line.kind = "stamp"), paddle(r), evidence(r), r.of.dpi>>]
                        : r \in having})
    IN [line |-> Respelled(base.text[k], best.line), evidence |-> best.evidence,
        paddle |-> best.paddle]

\* _reconcile_duplicate_ocr_lines: of two rows that differ by one glyph at the
\* same price, both take the better spelling.
Variant(a, b) == /\ Money(a) # None /\ Money(a) = Money(b) /\ a.kind = b.kind
                 /\ a.name[1] = b.name[1] /\ a.name[2] # b.name[2]

Reconciled(chosen) ==
    [k \in DOMAIN chosen |->
        LET variants == {j \in DOMAIN chosen : Variant(chosen[k].line, chosen[j].line)}
            best == Best({[at |-> j, key |-> <<chosen[j].paddle, chosen[j].evidence>>]
                            : j \in variants \cup {k}})
        IN IF variants = {} THEN chosen[k].line
           ELSE Respelled(chosen[k].line, chosen[best.at].line)]

ByLine(cs, base) ==
    Reconciled([k \in DOMAIN base.text |-> ConsensusLine(cs, base, k)] \o <<>>) \o <<>>

\* A coherent header is never changed.
KeepHeader(text, changed) ==
    IF Coherent(Header(text)) /\ Header(changed) # Header(text) THEN text ELSE changed

\* Wrong: the best reading of each line, whatever it does to the header.
ConsensusByLine(cs, base) == ByLine(cs, base)

\* _line_consensus_text
ConsensusText(cs, base) == KeepHeader(base.text, ByLine(cs, base))

-----------------------------------------------------------------------------
(* Missing summary lines from other candidates *)

HasMethod(text) == \E l \in ToSet(text) : l.kind \in {"tender", "purchase"}
HasCard(text)   == \E l \in ToSet(text) : l.kind = "card"

\* _ocr_supplement_score
SummaryScore(text) ==
    LET t == ExtractTotals(text, TRUE)
    IN 40 * Bit(t.subtotal # None) + 60 * Bit(t.tax # None) + 100 * Bit(t.total # None)
       + 40 * Bit(HasMethod(text)) + 100 * Bit(HasCard(text))

\* A row of the alternative that the primary text already shows.
Shown(text, line) == \/ line \in ToSet(text)
                     \/ /\ line.kind = "bare"
                        /\ \E l \in ToSet(text) : l.print = line.print /\ l.amount = line.amount

\* What one row supplies to what is known so far. New named taxes may not
\* exceed the tax the receipt charges.
Supply(known, primary, line) ==
    LET reads      == ExtractTotals(<<line>>, TRUE)
        components == TaxComponents(<<line>>)
        fresh      == DOMAIN components \ DOMAIN known.components
        total(f, S) == Sum([k \in 1..Cardinality(S) |-> f[SetToSeq(S)[k]]])
        v          == known.values
        target     == CASE v.subtotal # None /\ v.total # None /\ v.subtotal * v.total > 0
                             -> v.total - v.subtotal
                        [] OTHER -> IF known.components = <<>> THEN v.tax ELSE None
        tentative  == total(known.components, DOMAIN known.components) + total(components, fresh)
        excessive  == /\ fresh # {} /\ target # None
                      /\ tentative * target < 0 \/ Abs(tentative) > Abs(target) + 1
        Fill(a, b) == IF a = None THEN b ELSE a
        values     == [subtotal |-> Fill(v.subtotal, reads.subtotal),
                       tax      |-> Fill(v.tax, reads.tax),
                       total    |-> Fill(v.total, reads.total)]
        method     == ~known.method /\ HasMethod(<<line>>)
        card       == ~method /\ ~known.card /\ HasCard(<<line>>)
        supplied   == fresh # {} \/ values # v \/ method \/ card
    IN IF Shown(primary, line) \/ excessive THEN known
       ELSE [values     |-> values,
             components |-> [c \in DOMAIN known.components \cup fresh |->
                                IF c \in fresh THEN components[c] ELSE known.components[c]],
             method     |-> IF method \/ card THEN HasMethod(<<line>>) ELSE known.method,
             card       |-> IF method \/ card THEN HasCard(<<line>>) ELSE known.card,
             additions  |-> IF supplied THEN Append(known.additions, line) ELSE known.additions]

\* _supplement_missing_receipt_summary
Supplemented(primary, alternative) ==
    LET known == [values |-> Header(primary), components |-> TaxComponents(primary),
                  method |-> HasMethod(primary), card |-> HasCard(primary), additions |-> <<>>]
    IN KeepHeader(primary,
            primary \o FoldLeft(LAMBDA k, line : Supply(k, primary, line),
                                known, SummaryLines(alternative)).additions)

\* select_ocr_page: the best summaries supply first; k - 1 others come before
\* the one at k.
SelectPage(cs) ==
    LET score == [i \in DOMAIN cs |-> SummaryScore(cs[i].text)]
        before(i) == {j \in DOMAIN cs : score[j] > score[i] \/ (score[j] = score[i] /\ j < i)}
        order == [k \in DOMAIN cs |-> CHOOSE i \in DOMAIN cs : Cardinality(before(i)) = k - 1]
    IN FoldLeft(LAMBDA text, i : Supplemented(text, cs[i].text),
                ConsensusText(cs, SelectCandidate(cs)), order)

\* extract_page_text: with a text layer, OCR leads only where it alone
\* recovered a time.
PageText(embedded, ocr) ==
    LET stamped(text) == \E l \in ToSet(text) : l.kind = "stamp"
        ocrLeads == embedded = <<>> \/ (stamped(ocr) /\ ~stamped(embedded))
    IN IF embedded = None THEN ocr
       ELSE IF ocrLeads THEN Supplemented(ocr, embedded) ELSE Supplemented(embedded, ocr)

-----------------------------------------------------------------------------
(* A page is opened, and passes recognise it one after the other. *)

PagesInit == layer = None /\ candidates = <<>>

ReadLayer(text) == /\ layer = None /\ candidates = <<>>
                   /\ layer' = text
                   /\ UNCHANGED candidates

Recognise(c) == /\ Len(candidates) < MaxCandidates
                /\ candidates' = Append(candidates, c)
                /\ UNCHANGED layer

PagesNext == \E c \in OcrCandidates : ReadLayer(c.text) \/ Recognise(c)

PagesSpec == PagesInit /\ [][PagesNext]_pagesVars

-----------------------------------------------------------------------------
(* Properties *)

\* If any engine read a subtotal, a tax and a total that add up, the text of
\* the page shows the totals of such a reading: neither the line by line
\* consensus nor a row supplied by another candidate changes them ("Unaligned
\* numeric lines must not change a coherent base header",
\* _line_consensus_text). A text layer whose own totals add up may take their
\* place, and no other does.
CoherentHeaderWins ==
    LET coherent == {c.totals : c \in {r \in {[totals |-> Header(candidates[i].text)]
                                        : i \in DOMAIN candidates} : Coherent(r.totals)}}
        own      == IF layer = None THEN {} ELSE {Header(layer)}
    IN coherent # {} =>
          \A ocr \in {SelectPage(candidates)} :
             /\ Header(ocr) \in coherent
             /\ (\A t \in own : Coherent(t)) => Header(PageText(layer, ocr)) \in coherent \cup own

=============================================================================

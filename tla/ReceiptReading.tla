--------------------------- MODULE ReceiptReading ---------------------------
(***************************************************************************)
(* How the text of a scanned receipt becomes items, a subtotal, a tax, a   *)
(* total and a review status (receipts/ingest.py, with the checks of       *)
(* allocation.py and total_reconcile.py).                                  *)
(*                                                                         *)
(* A line is what the patterns of the parser tell apart: its kind, its     *)
(* name (a word and how OCR spelled it), how its amount came out of OCR    *)
(* and the amount in cents.                                                *)
(* print "clean" is money as printed, "tail" the end of a broken amount    *)
(* ("12 3.40" reads 3.40), "damaged" an amount only the tolerant parser    *)
(* makes out, "none" no amount on the line.                                *)
(***************************************************************************)
EXTENDS Amounts

CONSTANTS Body,        \* lines a receipt prints above its summary
          Summary,     \* lines of the summary and of the payment
          MaxLines     \* bound on the lines of a document

ASSUME LinesHaveKinds ==
    /\ \A l \in Body \cup Summary :
          l.print \in {"clean", "tail", "damaged", "none"} /\ l.amount \in Int
    /\ \A l \in Body : l.kind \in {"product", "word", "fuel", "purchase", "saving", "deposit",
                                  "bare", "pump", "detail", "card", "stamp"}
    /\ \A l \in Summary : l.kind \notin {"saving", "deposit"}
ASSUME MaxLinesAssumption == MaxLines \in Nat

VARIABLES pages,       \* the lines of each scanned page, as recognised
          outcome      \* "scanning", then the status of the receipt or "raised"

readingVars == <<pages, outcome>>

\* parse_money and parse_money_tolerant.
Money(line)    == IF line.print \in {"clean", "tail"} THEN line.amount ELSE None
Tolerant(line) == IF line.print # "none" THEN line.amount ELSE None

-----------------------------------------------------------------------------
(* Pages *)

\* _ocr_lines_match: similar wording, and no two amounts that differ.
Alike(a, b) == /\ a.kind = b.kind
               /\ a.name[1] = b.name[1]
               /\ None \in {Money(a), Money(b)} \/ Money(a) = Money(b)

Priced(line) == line.kind \in {"product", "bare", "pump", "purchase"} /\ Money(line) # None

LastRows(s, n) == SubSeq(s, Len(s) - n + 1, Len(s))
FirstRows(s, n) == SubSeq(s, 1, n)

\* The rows two pages share: the longest exact repetition, or else a similar
\* one with two purchases, perhaps under a heading the second page repeats.
Overlap(merged, page) ==
    LET limit == Min({25, Len(merged), Len(page)})
        exact == {n \in 1..limit : LastRows(merged, n) = FirstRows(page, n)}
        similar(skip) ==
            {n \in 2..Min({limit, Len(page) - skip}) :
                LET left  == LastRows(merged, n)
                    right == SubSeq(page, skip + 1, skip + n)
                IN /\ Cardinality({k \in 1..n : Priced(left[k])}) >= 2
                   /\ \A k \in 1..n : Alike(left[k], right[k])}
        heading == Money(page[1]) = None
    IN IF exact # {} THEN Max(exact)
       ELSE IF similar(0) # {} THEN Max(similar(0))
       ELSE IF heading /\ similar(1) # {} THEN 1 + Max(similar(1))
       ELSE 0

\* merge_page_text. It looks at the first line of a page without asking
\* whether the page has one.
MergeRaises(scan) == \E i \in 2..Len(scan) :
                        scan[i] = <<>> /\ \E j \in 1..(i - 1) : scan[j] # <<>>

MergePages(scan) ==
    FoldLeft(LAMBDA merged, page :
                IF merged = <<>> THEN page
                ELSE merged \o SubSeq(page, Overlap(merged, page) + 1, Len(page)),
             <<>>, scan)

-----------------------------------------------------------------------------
(* Items *)

NoLine == [kind |-> "end", name |-> <<"", 0>>, print |-> "none", amount |-> 0]
LineAt(text, i) == IF i \in 1..Len(text) THEN text[i] ELSE NoLine

\* An amount alone on the following row belongs to the row above it.
AmountBelow(text, i) == LET below == LineAt(text, i + 1)
                        IN IF below.kind = "bare" THEN Money(below) ELSE None

\* A fuel row takes the first row of several numbers within eight rows.
PumpAmount(text, i) ==
    LET summary == {"subtotal", "gst", "pst", "tax", "included", "total", "tender", "change"}
        rows == {k \in (i + 1)..Min({i + 8, Len(text)}) :
                    /\ text[k].kind = "pump" /\ Money(text[k]) # None
                    /\ \A j \in (i + 1)..k : text[j].kind \notin summary}
    IN IF text[i].kind = "fuel" /\ rows # {} THEN Money(text[Min(rows)]) ELSE None

Sold(state, i, amount) ==
    [state EXCEPT !.items = Append(@, [line |-> i, amount |-> amount]),
                  !.target = Len(state.items) + 1]

\* Wrong: the product above goes on taking adjustments.
UnpricedKept(state, text, i) ==
    LET pump  == PumpAmount(text, i)
        below == AmountBelow(text, i)
    IN CASE pump # None -> Sold(state, i, pump)
         [] pump = None /\ below # None -> Sold(state, i, below)
         [] OTHER -> state

\* A product without an amount on its row: whatever becomes of it, the
\* product above takes no more adjustments.
Unpriced(state, text, i) ==
    LET pump  == PumpAmount(text, i)
        below == AmountBelow(text, i)
    IN CASE pump # None -> Sold(state, i, pump)
         [] pump = None /\ text[i].kind \in {"product", "fuel"} /\ below # None
                             -> Sold(state, i, below)
         [] OTHER            -> [state EXCEPT !.target = None]

Adjustable(state, discount, amount) ==
    /\ state.target # None
    /\ amount # None
    /\ discount => Abs(amount) <= Abs(state.items[state.target].amount)

\* Instant savings and deposits change the product above them.
Adjusted(state, text, i) ==
    LET own      == Money(text[i])
        amount   == IF own # None THEN own ELSE AmountBelow(text, i)
        discount == text[i].kind = "saving"
    IN IF ~Adjustable(state, discount, amount)
       THEN [state EXCEPT !.issues = @ + 1]
       ELSE LET sold  == state.items[state.target].amount
                sign  == IF sold < 0 THEN -1 ELSE 1
                delta == IF discount THEN -Abs(amount) ELSE Abs(amount)
            IN [state EXCEPT !.items[state.target].amount = sold + sign * delta]

\* The item list ends where the summary starts.
EndsItems(state, line) ==
    \/ line.kind = "subtotal"
    \/ line.kind = "total" /\ (state.items # <<>> \/ Money(line) # None)

SkippedKinds == {"detail", "card", "stamp", "gst", "pst", "tax", "included", "total", "tender", "change"}

ReadItem(state, text, i) ==
    LET line    == text[i]
        ends    == state.ended \/ EndsItems(state, line)
        adjusts == ~ends /\ line.kind \in {"saving", "deposit"}
        sells   == ~ends /\ line.kind \notin SkippedKinds \cup {"saving", "deposit"}
    IN CASE ends                          -> [state EXCEPT !.ended = TRUE]
         [] adjusts                       -> Adjusted(state, text, i)
         [] sells /\ Money(line) = None   -> Unpriced(state, text, i)
         [] /\ sells /\ Money(line) # None
            /\ line.kind \notin {"bare", "pump"}
                                          -> Sold(state, i, Money(line))
         [] OTHER                         -> state

\* extract_items, with the number of adjustments it could not place.
ExtractItems(text) ==
    FoldLeftDomain(LAMBDA state, i : ReadItem(state, text, i),
                   [items |-> <<>>, target |-> None, issues |-> 0, ended |-> FALSE],
                   text)

-----------------------------------------------------------------------------
(* Totals *)

Labels == {"subtotal", "total", "tax", "gst", "pst"}
TaxLabels == {"tax", "gst", "pst"}

\* _summary_lines: a label without an amount takes the amount under it, a tax
\* label also one under a row that holds only its rate.
SummaryLines(text) ==
    LET Join(label, amount) == [label EXCEPT !.print = amount.print, !.amount = amount.amount]
        RateBetween(i) == /\ text[i].kind \in TaxLabels
                          /\ LineAt(text, i + 1).kind = "rate"
                          /\ LineAt(text, i + 2).kind = "bare"
                          /\ Money(LineAt(text, i + 2)) # None
        Under(i)       == /\ LineAt(text, i + 1).kind = "bare"
                          /\ Tolerant(LineAt(text, i + 1)) # None
        Label(i)       == text[i].kind \in Labels /\ text[i].print = "none"
        from[i \in 1..(Len(text) + 3)] ==
            CASE i > Len(text)              -> <<>>
              [] Label(i) /\ RateBetween(i) -> <<Join(text[i], text[i + 2])>> \o from[i + 3]
              [] Label(i) /\ ~RateBetween(i) /\ Under(i)
                                            -> <<Join(text[i], text[i + 1])>> \o from[i + 2]
              [] OTHER                      -> <<text[i]>> \o from[i + 1]
    IN from[1]

\* _corroborated_payment_total: one tender and the terminal's purchase agree.
PaymentTotal(text) ==
    LET amounts(kind) == {text[i].amount : i \in {k \in DOMAIN text :
                                /\ text[k].kind = kind /\ Money(text[k]) # None}}
        tenders == amounts("tender")
    IN IF amounts("change") \subseteq {0} /\ tenders = amounts("purchase")
          /\ Cardinality(tenders) = 1
       THEN CHOOSE a \in tenders : TRUE
       ELSE None

LastAmount(lines) == IF lines = <<>> THEN None ELSE Last(lines).amount

\* The total: the last one printed, replaced by the payment when OCR damaged it.
TotalOf(text, totals, tenders) ==
    LET last   == Last(totals)
        tender == Last(tenders)
        paid   == PaymentTotal(text)
    IN CASE totals = <<>> -> LastAmount(tenders)
         [] totals # <<>> /\ last.print = "tail" ->
                IF \E i \in DOMAIN totals : totals[i].print # "tail" /\ totals[i].amount # paid
                THEN None ELSE paid
         [] totals # <<>> /\ last.print # "tail" ->
                IF /\ tenders # <<>> /\ last.print = "damaged"
                   /\ \/ tender.amount # 0 /\ Abs(last.amount) > 2 * Abs(tender.amount)
                      \/ /\ tender.print # "damaged"
                         /\ Abs(Abs(last.amount) - Abs(tender.amount)) <= 100
                THEN tender.amount ELSE last.amount

\* Named taxes add up and replace a tax summary; a later reading of one tax
\* replaces the earlier one.
TaxOf(lines, included) ==
    LET reading(kind) == LastAmount(SelectSeq(lines, LAMBDA l : l.kind = kind))
        named == SelectSeq(<<reading("gst"), reading("pst")>>, LAMBDA a : a # None)
    IN CASE named # <<>> -> Sum(named)
         [] named = <<>> /\ reading("tax") # None -> reading("tax")
         [] OTHER -> IF included THEN 0 ELSE None

\* The rows of a summary with an amount on them.
AmountLines(text) == SelectSeq(SummaryLines(text), LAMBDA l : Tolerant(l) # None)
OfKind(lines, kinds) == SelectSeq(lines, LAMBDA l : l.kind \in kinds)

\* extract_tax_components: the named taxes alone.
LastOfEach(lines) == [kind \in {l.kind : l \in ToSet(lines)} |-> LastAmount(OfKind(lines, {kind}))]
TaxComponents(text) == LastOfEach(OfKind(AmountLines(text), {"gst", "pst"}))

\* extract_totals: what is printed; the subtotal of a receipt whose tax is
\* included in its prices; the tax between a subtotal and a total.
AsPrinted(text, lines) ==
    [subtotal |-> LastAmount(OfKind(lines, {"subtotal"})),
     tax      |-> TaxOf(OfKind(lines, TaxLabels), OfKind(lines, {"included"}) # <<>>),
     total    |-> TotalOf(text, OfKind(lines, {"total"}), OfKind(lines, {"tender", "purchase"})),
     included |-> OfKind(lines, {"included"}) # <<>>]

WithSubtotal(t) ==
    [tax |-> t.tax, total |-> t.total,
     subtotal |-> IF t.subtotal = None /\ t.included /\ t.total # None
                  THEN t.total - (IF t.tax = None THEN 0 ELSE t.tax) ELSE t.subtotal]

WithTax(t) ==
    LET inferred == Abs(t.total) - Abs(t.subtotal)
    IN IF /\ t.tax = None /\ t.subtotal # None /\ t.total # None
          /\ t.subtotal * t.total > 0
          /\ inferred \in 0..Max({1, (Abs(t.subtotal) * 30) \div 100})
       THEN [t EXCEPT !.tax = IF t.total > 0 THEN inferred ELSE -inferred] ELSE t

Header(text) == WithSubtotal(AsPrinted(text, AmountLines(text)))
ExtractTotals(text, inferTax) == IF inferTax THEN WithTax(Header(text)) ELSE Header(text)

Coherent(t) == /\ None \notin {t.subtotal, t.tax, t.total}
               /\ Agree(t.subtotal + t.tax, t.total)

\* reconcile_total_from_text: one subtotal and one tax near it make a total
\* where the text speaks of one.
ReconciledTotal(text, total) ==
    LET subtotals == {i \in DOMAIN text : text[i].kind = "subtotal" /\ Money(text[i]) # None}
        first     == CHOOSE i \in subtotals : TRUE
        taxes     == {i \in (first + 1)..Min({first + 5, Len(text)}) :
                        text[i].kind \in TaxLabels \cup {"included"} /\ Money(text[i]) # None}
        tax       == CHOOSE i \in taxes : TRUE
        context   == \E i \in DOMAIN text : text[i].kind \in {"total", "tender"}
    IN IF \/ total # None \/ ~context \/ Cardinality(subtotals) # 1
          \/ Cardinality(taxes) # 1
          \/ text[first].amount < 0 \/ text[tax].amount < 0
       THEN total
       ELSE text[first].amount + text[tax].amount

-----------------------------------------------------------------------------
(* Status *)

\* normalize_item_signs: every row of a refund is a refund.
SignedItems(items, total) ==
    IF total # None /\ total < 0
    THEN [i \in DOMAIN items |-> [items[i] EXCEPT !.amount = -Abs(@)]]
    ELSE items

\* allocation.assess
AllocationReasons(amounts, t) ==
    (IF amounts = <<>> THEN {"missing_item_amounts"} ELSE {})
    \cup (IF t.subtotal = None THEN {"missing_allocation_subtotal"}
          ELSE IF Agree(Sum(amounts), t.subtotal) THEN {} ELSE {"item_total_mismatch"})
    \cup (IF None \in {t.subtotal, t.tax, t.total} THEN {"unverified_header_total"}
          ELSE IF Coherent(t) THEN {} ELSE {"header_total_mismatch"})

\* confidence_for, in hundredths, of a receipt whose merchant, date and
\* identifier are known or not.
Confidence(r) == Sum(<<IF r.merchant THEN 15 ELSE 0, IF r.date THEN 15 ELSE 0,
                       IF r.id THEN 10 ELSE 0, IF r.totals.subtotal # None THEN 15 ELSE 0,
                       IF r.totals.tax # None THEN 10 ELSE 0, IF r.totals.total # None THEN 20 ELSE 0,
                       IF r.items # <<>> THEN 15 ELSE 0>>)

\* review_reasons_for. conflicts are the names of the fields whose readings
\* contradict each other.
ReviewReasons(r) ==
    LET components == TaxComponents(r.text)
        parts      == SetToSeq(DOMAIN components)
    IN IF r.text = <<>> \/ (r.items = <<>> /\ r.totals.total = None /\ Confidence(r) <= 15)
       THEN {"unreadable_ocr"}
       ELSE (r.conflicts \ {"store_phone", "tax_registration_number"})
            \cup (IF r.merchant THEN {} ELSE {"missing_merchant"})
            \cup (IF r.date THEN {} ELSE {"missing_date"})
            \cup (IF r.totals.total # None THEN {} ELSE {"missing_total"})
            \cup (IF r.items # <<>> THEN {} ELSE {"missing_items"})
            \cup (IF Confidence(r) >= 65 THEN {} ELSE {"low_confidence"})
            \cup AllocationReasons([i \in DOMAIN r.items |-> r.items[i].amount], r.totals)
            \cup (IF ExtractItems(r.text).issues = 0 THEN {} ELSE {"unresolved_item_adjustment"})
            \cup (IF /\ Len(parts) > 1 /\ r.totals.tax # None
                     /\ ~Agree(Sum([k \in DOMAIN parts |-> components[parts[k]]]), r.totals.tax)
                  THEN {"tax_components_mismatch"} ELSE {})

\* status_for
StatusOf(reasons) == CASE reasons = {"unreadable_ocr"} -> "unreadable"
                       [] reasons = {}                 -> "complete"
                       [] OTHER                        -> "review"

\* _parse_scan_cached, for a receipt whose merchant, date and identifier were
\* found and whose readings do not contradict each other.
ReadReceipt(scan) ==
    LET text   == MergePages(scan)
        found  == ExtractTotals(text, TRUE)
        totals == [found EXCEPT !.total = ReconciledTotal(text, @)]
    IN [text |-> text, totals |-> totals, conflicts |-> {},
        items |-> SignedItems(ExtractItems(text).items, totals.total),
        merchant |-> TRUE, date |-> TRUE, id |-> TRUE]

-----------------------------------------------------------------------------
(* A document is scanned line by line and then read. *)

LinesScanned == Sum([i \in DOMAIN pages |-> Len(pages[i])])
SummaryBegun == \E i \in DOMAIN pages : \E line \in ToSet(pages[i]) : line \in Summary

ReadingInit == pages = << <<>> >> /\ outcome = "scanning"

\* Printing order: a receipt prints its summary under its products. OCR may
\* lose, repeat or damage any line of it.
ScanLine(line) ==
    /\ outcome = "scanning"
    /\ LinesScanned < MaxLines
    /\ line \in Body => ~SummaryBegun
    /\ pages' = [pages EXCEPT ![Len(pages)] = Append(@, line)]
    /\ UNCHANGED outcome

\* The sheet is turned; the next page may well be blank.
TurnPage ==
    /\ outcome = "scanning"
    /\ Len(pages) < 2
    /\ ~SummaryBegun
    /\ pages' = Append(pages, <<>>)
    /\ UNCHANGED outcome

Parse ==
    /\ outcome = "scanning"
    /\ outcome' = IF MergeRaises(pages) THEN "raised"
                  ELSE StatusOf(ReviewReasons(ReadReceipt(pages)))
    /\ UNCHANGED pages

ReadingNext == \/ \E line \in Body \cup Summary : ScanLine(line)
               \/ TurnPage
               \/ Parse

ReadingSpec == ReadingInit /\ [][ReadingNext]_readingVars

-----------------------------------------------------------------------------
(* Properties *)

Read == outcome \notin {"scanning", "raised"}

NamesProduct(line) == line.kind \in {"product", "word", "fuel", "purchase"}

\* The product row an adjustment is printed under, 0 if there is none.
Owner(text, j) == Max({0} \cup {i \in 1..(j - 1) : NamesProduct(text[i])})

PrintedAmount(text, i) == CASE Money(text[i]) # None -> Money(text[i])
                            [] Money(text[i]) = None /\ PumpAmount(text, i) # None
                                    -> PumpAmount(text, i)
                            [] OTHER -> AmountBelow(text, i)

\* A discount or deposit changes the product it is printed under or keeps the
\* receipt in review, whatever OCR did to the rows between (extract_items:
\* "Never charge the previous product for an unreadable new product"). A
\* discount never turns a purchase into a refund, and a refund is charged a
\* deposit only where a discount has brought it to nothing.
AdjustmentsStay ==
    Read =>
        LET text  == MergePages(pages)
            state == ExtractItems(text)
            end   == Min({Len(text) + 1} \cup {i \in DOMAIN text : text[i].kind \in {"subtotal", "total"}})
            adjustments == {j \in 1..(end - 1) : text[j].kind \in {"saving", "deposit"}}
            sold  == {state.items[k].line : k \in DOMAIN state.items}
        IN /\ \A k \in DOMAIN state.items :
                 LET item    == state.items[k]
                     printed == PrintedAmount(text, item.line)
                     kinds   == {text[j].kind : j \in {n \in adjustments : Owner(text, n) = item.line}}
                 IN /\ kinds = {} => item.amount = printed
                    /\ printed >= 0 => item.amount >= 0
                    /\ printed < 0 => item.amount <= 0 \/ {"saving", "deposit"} \subseteq kinds
           /\ Cardinality({j \in adjustments : Owner(text, j) \notin sold}) <= state.issues
           /\ outcome = "complete" => \A j \in adjustments : Owner(text, j) \in sold

=============================================================================

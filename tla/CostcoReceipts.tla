---------------------------- MODULE CostcoReceipts ----------------------------
(***************************************************************************)
(* A run of the Costco importer (receipts/costco.py): the text of each PDF *)
(* is read line by line into items, items no rule knows are sent to the    *)
(* model in batches (categorization/ai.py), and all receipts of the run    *)
(* are written in one transaction.                                         *)
(*                                                                         *)
(* A line has a kind, words (a sequence, often empty), a code or None, and *)
(* an amount in cents.  Its kind:                                          *)
(* "item"     words and an amount         "code"    a code and an amount   *)
(* "discount" TPD and a negative amount   "words"   words alone            *)
(* "skipped"  an amount and a word of SKIP_PATTERNS                        *)
(* "subtotal", "total", "tax" (TAX or TOTAL TAX), "component" (GST, PST)   *)
(***************************************************************************)
EXTENDS Amounts

CONSTANTS Printed,      \* lines a receipt may show
          Files,        \* PDFs, as numbers in the order of their names
          OrderOn,      \* order number printed on a file, or None
          Verified,     \* name and category of the codes known to the importer
          Ruled,        \* category the rules and keywords give a name, or None
          Budget,       \* categories of the database
          Default,      \* the category of what nothing is known about
          BatchSize, MaxCalls, MaxErrors,   \* settings of the model
          MaxPrinted                        \* bound on the lines of all receipts

ASSUME CostcoAssumption ==
    /\ Files \subseteq Nat /\ Default \in Budget
    /\ {BatchSize, MaxCalls, MaxErrors} \subseteq Nat \ {0} /\ MaxPrinted \in Nat
    /\ \A line \in Printed : line.kind \in {"item", "code", "discount"} => line.amount \in Int

VARIABLES paper,    \* lines of the receipt being read
          batch,    \* receipts read in this run
          model,   \* the model: answers kept, calls, errors in a row, whether it is off
          books,    \* expenses by order number
          proofs    \* receipt evidence: the order each file supports

costcoVars == <<paper, batch, model, books, proofs>>

FreshEngine(cache) == [cache |-> cache, calls |-> 0, errors |-> 0, off |-> FALSE]

CostcoInit ==
    /\ paper = <<>> /\ batch = <<>>
    /\ model = FreshEngine(<<>>)
    /\ books = <<>> /\ proofs = <<>>

-----------------------------------------------------------------------------
(* Items *)

\* Tenders and rebates below the subtotal are payments.
AboveSubtotal(lines) ==
    LET n == SelectInSeq(lines, LAMBDA line : line.kind = "subtotal")
    IN IF n = 0 THEN lines ELSE SubSeq(lines, 1, n - 1)

\* likely_item_line
SoldLine(line) == line.kind \in {"item", "code", "discount"}

\* A name that was split around its code: the words before and after it.
FragmentAt(lines, n) ==
    IF n \in DOMAIN lines /\ lines[n].kind = "words" THEN lines[n].words ELSE <<>>
Around(lines, n) == FragmentAt(lines, n - 1) \o FragmentAt(lines, n + 1)

\* parse_item_line, the override of a known code and the deterministic part
\* of classify_category_with_source.
ItemAt(lines, n) ==
    LET line == lines[n]
        split == line.kind = "code" /\ Around(lines, n) # <<>>
        code == IF line.kind = "code" /\ ~split THEN None ELSE line.code
        name == IF code \in DOMAIN Verified THEN Verified[code].name
                ELSE IF split THEN Around(lines, n)
                ELSE IF line.kind = "code" THEN <<line.code>> ELSE line.words
        category == IF code \in DOMAIN Verified THEN Verified[code].category
                    ELSE IF name \in DOMAIN Ruled THEN Ruled[name] ELSE None
    IN [name |-> name, amount |-> line.amount, category |-> category,
        by |-> IF category = None THEN "unresolved" ELSE "rule"]

\* A discount lowers the item above it.
AddLine(lines, items, n) ==
    CASE ~SoldLine(lines[n]) -> items
      [] lines[n].kind = "discount" /\ items # <<>> ->
            [items EXCEPT ![Len(items)].amount = @ + lines[n].amount]
      [] OTHER -> Append(items, ItemAt(lines, n))

\* parse_receipt_items up to the model.
ItemsOf(paperLines) ==
    LET lines == AboveSubtotal(paperLines)
    IN FoldLeftDomain(LAMBDA items, n : AddLine(lines, items, n), <<>>, lines)

-----------------------------------------------------------------------------
(* Totals (parse_receipt_amounts) *)

LastOf(lines, kind) ==
    LET n == SelectLastInSeq(lines, LAMBDA line : line.kind = kind)
    IN IF n = 0 THEN None ELSE lines[n].amount
TaxesOn(lines) ==
    LET parts == {n \in DOMAIN lines : lines[n].kind = "component"}
    IN IF LastOf(lines, "tax") = None /\ parts # {} THEN MapThenSumSet(LAMBDA n : lines[n].amount, parts)
       ELSE LastOf(lines, "tax")
\* A missing total is made up from subtotal and tax when the order is written.
PaidOn(lines) ==
    LET parts == {LastOf(lines, "subtotal"), TaxesOn(lines)}
    IN IF LastOf(lines, "total") = None /\ None \notin parts
       THEN LastOf(lines, "subtotal") + TaxesOn(lines) ELSE LastOf(lines, "total")

-----------------------------------------------------------------------------
(* The model *)

\* A request may be answered, at once or after a passing error, fail twice, be
\* refused, or bring nothing that can be read.
Outcomes == {"answered", "answered late", "failed twice", "refused", "unreadable"}

CallsOf(outcome) == IF outcome \in {"answered late", "failed twice"} THEN 2 ELSE 1

\* try_category_batch: the model after a request.  Only an answer ends a row
\* of errors.
Asked(e, outcome) ==
    LET errors == CASE outcome = "failed twice" -> e.errors + 1
                    [] outcome \in {"answered", "answered late"} -> 0
                    [] OTHER -> e.errors
    IN [e EXCEPT !.calls = @ + CallsOf(outcome), !.errors = errors,
                 !.off = outcome = "refused" \/ (outcome = "failed twice" /\ errors >= MaxErrors)]
Silent(e) == e.off \/ e.calls >= MaxCalls

Cached(e, name) == IF name \in DOMAIN e.cache THEN e.cache[name] ELSE None

\* Names that neither a rule nor a kept answer covers.
Unknown(items, e) ==
    LET open == SelectSeq(items, LAMBDA r : r.category = None /\ Cached(e, r.name) = None)
    IN {open[n].name : n \in DOMAIN open}

\* Batches of names sent one after the other: the model afterwards and the
\* names that got an answer.
AskAll(e, batches, outcome) ==
    FoldLeft(LAMBDA so, k :
                IF Silent(so.model) THEN so
                ELSE [model |-> Asked(so.model, outcome[k]),
                      names |-> so.names \cup (IF outcome[k] \in {"answered", "answered late"}
                                               THEN ToSet(batches[k]) ELSE {})],
             [model |-> e, names |-> {}], [k \in DOMAIN batches |-> k])

\* chunk_list
Chunks(names) ==
    [k \in 1..((Len(names) + BatchSize - 1) \div BatchSize) |->
        SubSeq(names, (k - 1) * BatchSize + 1, Least(k * BatchSize, Len(names)))]

Categorize(item, e, answer) ==
    CASE item.category # None -> item
      [] item.category = None /\ Cached(e, item.name) # None ->
            [item EXCEPT !.category = Cached(e, item.name), !.by = "rule"]
      [] OTHER -> LET found == IF item.name \in DOMAIN answer THEN answer[item.name] ELSE None
                  IN [item EXCEPT !.category = IF found = None THEN Default ELSE found,
                                  !.by = IF found = None THEN "unresolved" ELSE "ai"]

-----------------------------------------------------------------------------
(* The run *)

\* What is written replaces what the same key had (ON CONFLICT DO UPDATE).
Over(written, old) ==
    [key \in DOMAIN written \cup DOMAIN old |->
        IF key \in DOMAIN written THEN written[key] ELSE old[key]]

LinesHeld == Len(paper) + MapThenSumSet(LAMBDA n : Len(batch[n].lines), DOMAIN batch)
                 + MapThenSumSet(LAMBDA order : Len(books[order].lines), DOMAIN books)
PrintLine(line) ==
    /\ LinesHeld < MaxPrinted
    /\ paper' = Append(paper, line)
    /\ UNCHANGED <<batch, model, books, proofs>>

\* The text of file f is complete: its items are read and categorized.  Names
\* without an answer are asked for again on the next receipt.
ReadPdf(f) ==
    LET items == ItemsOf(paper)
        unknown == Unknown(items, model)
        batches == Chunks(SetToSeq(unknown))
    IN /\ paper # <<>>
       /\ \A n \in DOMAIN batch : batch[n].file # f
       /\ \E outcome \in [DOMAIN batches -> Outcomes], opinion \in [unknown -> Budget \cup {None}] :
             LET asked == AskAll(model, batches, outcome)
                 answer == [name \in unknown |-> IF name \in asked.names THEN opinion[name] ELSE None]
             IN /\ model' = [asked.model EXCEPT !.cache = Over(answer, @)]
                /\ batch' = Append(batch,
                      [file |-> f, order |-> IF OrderOn[f] = None THEN <<"file", f>> ELSE OrderOn[f],
                       items |-> [n \in DOMAIN items |-> Categorize(items[n], model, answer)] \o <<>>,
                       total |-> PaidOn(paper), lines |-> paper])
       /\ paper' = <<>>
       /\ UNCHANGED <<books, proofs>>

\* Equal items of a receipt are stored as one.
GroupedByName(items) ==
    {[name |-> r.name, category |-> r.category, by |-> r.by, unit |-> r.amount, quantity |-> 1,
      total |-> r.amount] : r \in ToSet(items)}
Grouped(items) ==
    {LET count == Cardinality({n \in DOMAIN items : items[n] = r})
     IN [name |-> r.name, category |-> r.category, by |-> r.by, unit |-> r.amount,
         quantity |-> count, total |-> r.amount * count] : r \in ToSet(items)}

\* write_costco_to_postgres, at the end of the run, in the order of the file
\* names: an order that came twice keeps the items of its last file.  The
\* answers of the model are kept for the next run.
LastFile(order) == CHOOSE r \in ToSet(batch) :
                      r.order = order /\ \A s \in ToSet(batch) : s.order = order => s.file <= r.file
WriteRun ==
    /\ batch # <<>>
    /\ books' = Over([order \in {r.order : r \in ToSet(batch)} |->
                        [items |-> Grouped(LastFile(order).items), total |-> LastFile(order).total,
                         lines |-> LastFile(order).lines]], books)
    /\ proofs' = Over([f \in {r.file : r \in ToSet(batch)} |->
                         (CHOOSE r \in ToSet(batch) : r.file = f).order], proofs)
    /\ model' = FreshEngine([name \in {n \in DOMAIN model.cache : model.cache[n] # None} |->
                                 model.cache[name]])
    /\ batch' = <<>> /\ paper' = <<>>

CostcoNext == \/ \E line \in Printed : PrintLine(line)
              \/ \E f \in Files : ReadPdf(f)
              \/ WriteRun

CostcoSpec == CostcoInit /\ [][CostcoNext]_costcoVars

-----------------------------------------------------------------------------
(* Properties *)

\* costco.py: the grouping of equal lines "preserves spend by summing qty/line
\* total".  What an order spends on its items is what its receipt prints above
\* the subtotal, discounts included.
SpendPreserved ==
    \A order \in DOMAIN books :
        LET lines == AboveSubtotal(books[order].lines)
            sold == {n \in DOMAIN lines : SoldLine(lines[n])}
        IN MapThenSumSet(LAMBDA r : r.total, books[order].items)
              = MapThenSumSet(LAMBDA n : lines[n].amount, sold)
=============================================================================

--------------------------- MODULE MCCalculations ---------------------------
(***************************************************************************)
(* The calculations on receipts and orders, on small inputs: one of them   *)
(* runs at a time while the others rest in their first state.              *)
(***************************************************************************)
EXTENDS TLC, OcrPages, OcrEvidence, ItemRows, StoreOrders, CostcoReceipts, Merchants

Line(kind, word, print, amount) == [kind |-> kind, name |-> <<word, 0>>, print |-> print, amount |-> amount]

MCBody ==
    {Line("product", "milk", "clean", 200), Line("product", "milk", "damaged", 200),
     Line("product", "tea", "none", 0), Line("product", "bread", "clean", -50),
     Line("saving", "", "clean", 50),
     Line("saving", "", "none", 0), Line("deposit", "", "clean", 10),
     Line("fuel", "regular", "none", 0), Line("pump", "", "clean", 200)}

MCSummary ==
    {Line("subtotal", "", "clean", 200), Line("subtotal", "", "none", 0),
     Line("gst", "", "clean", 10), Line("tax", "", "clean", 20),
     Line("included", "", "clean", 10), Line("rate", "", "none", 0),
     Line("total", "", "clean", 210), Line("total", "", "damaged", 910),
     Line("total", "", "tail", 10), Line("tender", "", "clean", 210),
     Line("change", "", "clean", 40)}

\* Readings of one page: coherent, damaged, incomplete and misspelled ones.
Sub == Line("subtotal", "", "clean", 200)
Gst == Line("gst", "", "clean", 10)
Tot == Line("total", "", "clean", 210)
Milk == Line("product", "milk", "clean", 200)
MCTexts ==
    {<<Sub, Gst, Tot>>,
     <<Sub, Gst, Line("total", "", "clean", 910)>>,
     <<Sub, Gst, Line("total", "", "damaged", 210)>>,
     <<Line("stamp", "", "none", 0), Sub, Line("total", "", "damaged", 910), Line("tender", "", "clean", 210)>>,
     <<Line("gst", "", "none", 0), Line("bare", "", "clean", 10), Tot, Line("card", "", "none", 0)>>,
     <<Milk, Sub, Line("tax", "", "clean", 10), Tot>>,
     <<Line("subtotal", "", "clean", 150), Gst, Line("total", "", "clean", 160)>>,
     <<Line("subtotal", "", "damaged", 800), Line("pst", "", "clean", 5), Line("gst", "", "clean", 5), Tot>>,
     <<[Milk EXCEPT !.name = <<"milk", 1>>], Milk, Line("purchase", "", "clean", 210)>>}
\* PaddleOCR reads the subtotal lines as Tesseract does, and misses the rest.
MCOcrCandidates ==
    {[text |-> t, engine |-> "tesseract", dpi |-> 400, confidence |-> 90, merchant |-> "shop"] :
        t \in MCTexts}
    \cup {[text |-> t, engine |-> "paddle", dpi |-> 200, confidence |-> 90, merchant |-> "shop"] :
        t \in {text \in MCTexts : text[1] = Sub}}

\* A row with a dollar sign read as a digit, a clear one and one without a price.
MCBasePrices == {[value |-> 8299, currency |-> FALSE, confidence |-> 70],
                 [value |-> 299, currency |-> FALSE, confidence |-> None],
                 [value |-> None, currency |-> FALSE, confidence |-> None]}
Price(run, engine, render, value, currency, confidence, kind) ==
    [run |-> run, engine |-> engine, render |-> render, value |-> value,
     currency |-> currency, confidence |-> confidence, kind |-> kind]
MCPriceReadings ==
    {Price("r1", "tesseract", "a", 299, TRUE, 95, "literal"),
     Price("r1", "tesseract", "b", 299, TRUE, 60, "literal"),
     Price("r1", "tesseract", "a", 8299, FALSE, 75, "literal"),
     Price("r1", "paddle", "a", 299, FALSE, 80, "literal"),
     Price("r1", "paddle", "a", 8299, FALSE, None, "literal"),
     Price("r2", "paddle", "a", 299, TRUE, 95, "literal"),
     Price(None, "tesseract", "a", 299, TRUE, 95, "literal"),
     Price("r1", "paddle", "b", 299, FALSE, 80, "quantity_check")}

\* A receipt of May 1 2026, with a misread year, a misread day and a short date.
Bought    == <<20, 26, "may 1">>
WrongYear == <<20, 28, "may 1">>
WrongDay  == <<20, 26, "may 7">>
Long(date, time)  == [date |-> date, time |-> time, digits |-> 4, line |-> 1, rank |-> 1]
Short(date)       == [date |-> date, time |-> None, digits |-> 2, line |-> 5, rank |-> 2]
MCDatePasses ==
    {[run |-> "r1", page |-> 1, engine |-> e, lines |-> lines] :
        e \in {"tesseract", "paddle"},
        lines \in {{Long(Bought, 900), Short(Bought)}, {Long(Bought, 900)}, {Short(Bought)},
                   {Long(WrongYear, 900), Short(Bought)}, {Long(WrongDay, None)},
                   {Long(WrongDay, 910), Short(WrongDay)}}}

MCHeaderPasses ==
    {[run |-> "r1", page |-> 1, engine |-> e, subtotal |-> h[1], tax |-> h[2], total |-> h[3]] :
        e \in {"tesseract", "paddle"}, h \in {<<200, 10, 210>>, <<200, 10, 910>>, <<100, 10, 110>>}}

MCWeights == {0, 1, 2}

\* Cards with prices of every form, and fragments with and without words.
Card(product) == [product |-> product, marked |-> FALSE, refunded |-> FALSE, quantity |-> None,
    one |-> FALSE, each |-> None, pair |-> None, current |-> None, original |-> None,
    loose |-> {}, measure |-> None, weight |-> None]
Fragment(quantity, values, only) == [quantity |-> quantity, values |-> values, only |-> only, apart |-> FALSE]
MCOrderRows ==
    {[Card(1) EXCEPT !.each = 200, !.pair = [quantity |-> 3, total |-> 600]],
     [Card(1) EXCEPT !.current = 200, !.original = 300, !.quantity = 3],
     [Card(1) EXCEPT !.marked = TRUE, !.loose = {200, 300}],
     [Card(1) EXCEPT !.loose = {2000}, !.one = TRUE],
     [Card(2) EXCEPT !.loose = {1000}, !.each = 333, !.quantity = 2],
     [Card(2) EXCEPT !.measure = 1000, !.weight = 50, !.current = 450],
     [Card(2) EXCEPT !.weight = 250, !.loose = {250}, !.quantity = 2],
     [Card(3) EXCEPT !.refunded = TRUE, !.loose = {1000}, !.each = 333, !.quantity = 3],
     Fragment(4, {}, TRUE), Fragment(None, {100}, TRUE), Fragment(2, {400, 900}, FALSE),
     [Fragment(None, {600}, FALSE) EXCEPT !.apart = TRUE]}
MCReceipts == {[subtotal |-> 2000, charged |-> None, total |-> None, bag |-> 35],
               [subtotal |-> None, charged |-> 2100, total |-> 2100, bag |-> None]}
MCCategoryOf == <<"food", "home", "food">> @@ (0 :> "food")
Window(counts, near, weighed) == [quantities |-> counts, prices |-> near, weighed |-> weighed]
MCWindows == {Window({}, {}, None), Window({2, 4}, {400, 1250}, None),
              Window({3}, {600, 3000}, [unit |-> 1000, weight |-> 60, total |-> 600])}

\* A PDF without an order number and two of one order; tea and green apples
\* are known, milk is not.
Row(kind, words, code, amount) == [kind |-> kind, words |-> words, code |-> code, amount |-> amount]
MCPrinted ==
    {Row("item", <<"milk">>, None, 500), Row("item", <<"tea">>, "25", 500),
     Row("code", <<>>, "47", 500), Row("words", <<"green">>, None, 0),
     Row("discount", <<"TPD">>, "47", -100),
     Row("subtotal", <<>>, None, 400), Row("component", <<>>, None, 20)}
MCOrderOn == << <<"order", 22>>, <<"order", 22>>, None>>
MCVerified == [code \in {"25"} |-> [name |-> <<"tea">>, category |-> "home"]]
MCRuled == [name \in {<<"green">>} |-> "home"]

\* Acme, misread as acne by one pass, in its branch north; a known retailer.
Acme == <<"acme", 0>>
Printing(kind, name, tail) == [kind |-> kind, name |-> name, tail |-> tail]
Street(name) == Printing("street", <<name, 0>>, "")
MCHeaderLines ==
    {Printing("plain", Acme, ""), Printing("plain", Acme, "north"),
     Printing("branch", Acme, "12"), Printing("store", <<"acme", 1>>, "7"),
     Printing("business", <<"smith", 0>>, "ltd"), Printing("title", Acme, ""),
     Printing("other", <<"mart", 1>>, ""), Printing("customer", <<"", 0>>, ""),
     Street("main")}
MCFooters == {[hosts |-> {Acme}, thanks |-> None], [hosts |-> {}, thanks |-> <<"card", 0>>],
              [hosts |-> {<<"card", 0>>}, thanks |-> Acme]}
HeaderOf(lines, hosts) == [lines |-> lines, hosts |-> hosts, thanks |-> None]
Pass(engine, header) ==
    [run |-> "r1", engine |-> engine, page |-> 1, status |-> "success", text |-> header]
North == <<Printing("plain", Acme, ""), Printing("plain", Acme, "north"), Street("main")>>
MCReports ==
    {Pass("tesseract", HeaderOf(North, {})),
     Pass("paddle", HeaderOf(<<Printing("plain", <<"acme", 1>>, "north"), Street("main")>>, {})),
     Pass("paddle", HeaderOf(<<Printing("logo", Acme, "")>>, {Acme})),
     Pass("tesseract", HeaderOf(<<Printing("customer", <<"", 0>>, ""), Street("oak")>>, {Acme})),
     [Pass("tesseract", HeaderOf(<<Printing("logo", <<"card", 0>>, "")>>, {<<"card", 0>>})) EXCEPT !.page = 2]}
MCHints == {None, <<Acme, "">>, <<<<"mart", 0>>, "west">>}

VARIABLE running  \* the calculation that runs

calculationVars == <<readingVars, pagesVars, evidenceVars, matchVars, orderVars, costcoVars,
                     merchantVars, column, running>>

MCInit ==
    /\ ReadingInit /\ PagesInit /\ EvidenceInit /\ MatchInit /\ OrderInit /\ CostcoInit /\ MerchantInit
    /\ ColumnInit
    /\ running \in {"reading", "pages", "evidence", "match", "order", "costco", "merchant", "rows"}

MCNext ==
    /\ UNCHANGED running
    /\ \/ running = "reading" /\ ReadingNext
          /\ UNCHANGED <<pagesVars, evidenceVars, matchVars, orderVars, costcoVars, merchantVars, column>>
       \/ running = "pages" /\ PagesNext
          /\ UNCHANGED <<readingVars, evidenceVars, matchVars, orderVars, costcoVars, merchantVars, column>>
       \/ running = "evidence" /\ EvidenceNext
          /\ UNCHANGED <<readingVars, pagesVars, matchVars, orderVars, costcoVars, merchantVars, column>>
       \/ running = "match" /\ MatchNext
          /\ UNCHANGED <<readingVars, pagesVars, evidenceVars, orderVars, costcoVars, merchantVars, column>>
       \/ running = "order" /\ OrderNext
          /\ UNCHANGED <<readingVars, pagesVars, evidenceVars, matchVars, costcoVars, merchantVars, column>>
       \/ running = "costco" /\ CostcoNext
          /\ UNCHANGED <<readingVars, pagesVars, evidenceVars, matchVars, orderVars, merchantVars, column>>
       \/ running = "merchant" /\ MerchantNext
          /\ UNCHANGED <<readingVars, pagesVars, evidenceVars, matchVars, orderVars, costcoVars, column>>
       \/ running = "rows" /\ ColumnNext
          /\ UNCHANGED <<readingVars, pagesVars, evidenceVars, matchVars, orderVars, costcoVars, merchantVars>>

MCSpec == MCInit /\ [][MCNext]_calculationVars
=============================================================================

------------------------------ MODULE Merchants ------------------------------
(***************************************************************************)
(* Who sold what a receipt lists, in which store and where                 *)
(* (receipts/ingest.py, receipts/header_evidence.py): read from the header *)
(* of the page text and from what each OCR pass made of the first page.    *)
(*                                                                         *)
(* A document is [lines, hosts, thanks]: its header, the web addresses and *)
(* the closing "thank you for shopping at" it prints. A name is a word     *)
(* with the glyph it was misread by (0 for none); a line is [kind, name,   *)
(* tail], where the tail is the branch, number or suffix after the name:   *)
(* subject (of an email), title (of a browser page), logo ("A & B"), store *)
(* ("Acme Store 12"), branch ("Acme #12"), business ("Acme Ltd"), plain,   *)
(* street, customer (whom it is shipped or billed to) and other.           *)
(***************************************************************************)
EXTENDS Amounts

CONSTANTS HeaderLines,  \* lines a header may show
          Footers,      \* what may stand below: [hosts, thanks]
          Reports,      \* what a pass may report: [run, engine, page, status, text]
          Hints,        \* issuers the file itself names, and None
          Retailers,    \* words of the retailers known by name (MERCHANT_ALIASES)
          MaxHeader,    \* bound on the lines of the header
          MaxReports    \* bound on the passes

\* A header is a finite list of lines, and a numbered store has its number.
ASSUME MerchantAssumption ==
    /\ MaxHeader \in Nat /\ MaxReports \in Nat
    /\ \A line \in HeaderLines : line.kind \in {"store", "branch"} => line.tail # ""
    /\ \A footer \in Footers : IsFiniteSet(footer.hosts)
    /\ \A r \in Reports : /\ r.text.lines \in Seq(ToSet(r.text.lines))
                          /\ IsFiniteSet(r.text.hosts)

VARIABLES document,     \* the page text
          reports       \* the passes that have reported

merchantVars == <<document, reports>>

Label(line) == <<line.name, line.tail>>

\* normalize_merchant: a known retailer is spelled one way.
Normal(label) == IF label[1][1] \in Retailers THEN <<<<label[1][1], 0>>, "">> ELSE label

\* The header ends where the customer begins.
AboveCustomer(lines) ==
    SubSeq(lines, 1, Min({k \in DOMAIN lines : lines[k].kind = "customer"} \cup {Len(lines) + 1}) - 1)

-----------------------------------------------------------------------------
(* The merchant of one reading *)

\* _merchant_name_from_store_header: the spelling of the name that the
\* document repeats most.
Spelling(doc, name) ==
    LET times(n) == Cardinality({k \in DOMAIN doc.lines : doc.lines[k].name = n})
                    + Bit(doc.thanks = n) + Bit(n \in doc.hosts)
        near == {n \in {l.name : l \in ToSet(doc.lines)} \cup doc.hosts : n[1] = name[1]}
        most == CHOOSE n \in near : \A m \in near :
                    times(m) < times(n) \/ (times(m) = times(n) /\ (n = name \/ m # name))
    IN IF times(most) >= 2 THEN most ELSE name

\* What a line is worth as a source of the merchant, 0 for the best source and
\* 9 for none; the first lines stand above the customer block.
Source(doc, line, first) ==
    IF line.kind = "subject" THEN 0
    ELSE IF line.kind = "title" /\ line.name \in doc.hosts THEN 1
    ELSE IF line.name[1] \in Retailers THEN 2
    ELSE IF line.kind = "logo" THEN 3
    ELSE IF line.kind = "store" /\ line.name[1] # "" THEN 4
    ELSE IF Label(line) = <<doc.thanks, "">> THEN 5
    ELSE IF line.kind = "business" THEN 6
    ELSE IF line.kind \in {"plain", "branch"} /\ first THEN 7
    ELSE 9

\* What the source takes from its line.
Taken(doc, source, line) ==
    CASE source = 4 -> <<Spelling(doc, line.name), "">>
      [] source < 4 -> <<line.name, "">>
      [] OTHER -> Label(line)

\* extract_merchant: the first line of the best source. The footer picks
\* among the names of the header and adds none.
Issuer(doc) ==
    \* at 0: no line is a source.
    LET sources(above) == {[at |-> 0, key |-> <<-8>>]}
            \cup {[at |-> k, key |-> <<-Source(doc, doc.lines[k], k <= above)>>] : k \in DOMAIN doc.lines}
        issued(best) == IF best.at = 0 THEN None
                        ELSE Normal(Taken(doc, -best.key[1], doc.lines[best.at]))
    IN issued(Best(sources(Len(AboveCustomer(doc.lines)))))

-----------------------------------------------------------------------------
(* Several readings *)

\* _store_header_readings: the passes over the first page, each at its place.
FirstPage(seen) == Restrict(seen, {k \in DOMAIN seen : seen[k].page = 1 /\ seen[k].status = "success"})

\* Mutant: one pass is enough.
OnePassReads(read, hosts) ==
    LET named == ToSet(read) \cap {<<h, "">> : h \in hosts}
    IN IF IsSingle(named) THEN Only(named) ELSE None

\* merchant_from_observations: the one merchant most passes read, two at
\* least, whose web address is printed.
MostRead(read, hosts) ==
    LET votes(n) == Cardinality({k \in DOMAIN read : read[k] = n})
        named    == ToSet(read) \cap {<<h, "">> : h \in hosts}
        top      == {n \in named : /\ votes(n) >= 2
                                   /\ \A m \in named : votes(m) <= votes(n)}
    IN IF IsSingle(top) THEN Only(top) ELSE None

Streets(lines) == {k \in DOMAIN lines : lines[k].kind = "street"}

\* A brand stands alone above the street, a branch just above the street.
Brands(lines) ==
    {lines[k].name : k \in {k \in DOMAIN lines : /\ lines[k].kind \in {"plain", "logo"}
                                                 /\ lines[k].tail = ""
                                                 /\ \A s \in Streets(lines) : k < s}}
Branches(lines) ==
    {Label(lines[k]) : k \in {k \in DOMAIN lines : /\ lines[k].kind = "plain"
                                                   /\ lines[k].tail # ""
                                                   /\ k + 1 \in Streets(lines)}}

\* header_evidence.resolve: the one branch that two engines of a run read, up
\* to a glyph, while a pass of that run reads its brand alone.
BranchOfPasses(seen) ==
    LET lines(k) == AboveCustomer(seen[k].text.lines)
        with(run) == {k \in DOMAIN seen : seen[k].run = run}
        backed(k) == {b \in Branches(lines(k)) :
                        /\ \E i \in with(seen[k].run) : b[1] \in Brands(lines(i))
                        /\ \E i \in with(seen[k].run) :
                              /\ seen[i].engine # seen[k].engine
                              /\ \E c \in Branches(lines(i)) : c[1][1] = b[1][1] /\ c[2] = b[2]}
        supported == UNION {backed(k) : k \in DOMAIN seen}
    IN IF IsSingle(supported) THEN Only(supported) ELSE None

\* Lines that start with the merchant and are followed by a street.
StoreLines(lines, merchant) ==
    {Label(lines[k]) : k \in {k \in DOMAIN lines :
        /\ <<lines[k].name, "">> = merchant /\ lines[k].tail # ""
        /\ {k + 1, k + 2} \cap Streets(lines) # {}}}

\* The labels of the stores that are numbered, one per number.
NumberedStores(lines) ==
    LET numbered == {k \in DOMAIN lines : lines[k].kind \in {"store", "branch"}}
        first == {k \in numbered : \A j \in numbered : j < k => lines[j].tail # lines[k].tail}
    IN {IF lines[k].kind = "store" THEN <<None, lines[k].tail>> ELSE Label(lines[k]) : k \in first}

\* The merchant's store: the line above the street, in the page text or else
\* in every pass that has one, what follows a known retailer's name, or the
\* only number.
StoreOf(named, stores, own, all) ==
    CASE Cardinality(stores) <= 1 /\ IsSingle(own) -> Only(own)
      [] Cardinality(stores) <= 1 /\ ~IsSingle(own) /\ IsSingle(all) -> Only(all)
      [] OTHER -> CASE stores = {} /\ Normal(named) # named /\ named[2] # "" -> named
                    [] OTHER -> IF IsSingle(stores) THEN Only(stores) ELSE None

\* What names the only store is no merchant: the file may still tell who it is.
Named(issuer, stores, hint) ==
    CASE issuer # None /\ stores # {issuer} -> issuer
      [] OTHER -> IF stores # {hint} THEN hint ELSE None

WithStore(doc, passes, stores, named) ==
    LET above(lines) == StoreLines(AboveCustomer(lines), Normal(named))
        store(own, read) == StoreOf(named, stores, own, own \cup read)
    IN IF named = None THEN [merchant |-> None, store |-> IF IsSingle(stores) THEN Only(stores) ELSE None]
       ELSE [merchant |-> Normal(named),
             store    |-> store(above(doc.lines),
                                UNION {above(passes[k].text.lines) : k \in DOMAIN passes})]

\* extract_merchant_store: a brand over its branch, what the passes agree on,
\* or what the page text says.
MerchantAndStore(doc, hint, passes) ==
    LET hosts == doc.hosts \cup UNION {passes[k].text.hosts : k \in DOMAIN passes}
        issuer(read) == IF read = None THEN Issuer(doc) ELSE read
        under(stores) == WithStore(doc, passes, stores,
            Named(issuer(MostRead([k \in DOMAIN passes |-> Issuer(passes[k].text)], hosts)), stores, hint))
        decided(branch) == IF branch # None THEN [merchant |-> <<branch[1], "">>, store |-> branch]
                           ELSE under(NumberedStores(doc.lines))
    IN decided(BranchOfPasses(passes))

\* extract_store_address
StoreAddress(doc, passes) ==
    LET streets(lines) == {lines[k].name : k \in Streets(lines)}
        own    == streets(AboveCustomer(doc.lines))
        others == {streets(AboveCustomer(passes[k].text.lines)) : k \in DOMAIN passes}
    IN CASE IsSingle(own) -> Only(own)
         [] Cardinality(own) > 1 -> None
         [] OTHER -> IF /\ \A o \in others : Cardinality(o) <= 1
                        /\ IsSingle(UNION others)
                     THEN Only(UNION others) ELSE None

-----------------------------------------------------------------------------
(* The page text is read, then the passes report. *)

BlankDocument == [lines |-> <<>>, hosts |-> {}, thanks |-> None]

MerchantInit == document = BlankDocument /\ reports = <<>>

PrintHeaderLine(line) == /\ reports = <<>> /\ Len(document.lines) < MaxHeader
                         /\ document.hosts = {} /\ document.thanks = None
                         /\ document' = [document EXCEPT !.lines = Append(@, line)]
                         /\ UNCHANGED reports

PrintFooter(footer) == /\ reports = <<>>
                       /\ document.hosts = {} /\ document.thanks = None
                       /\ document' = [document EXCEPT !.hosts = footer.hosts,
                                                       !.thanks = footer.thanks]
                       /\ UNCHANGED reports

Report(r) == /\ Len(reports) < MaxReports
             /\ reports' = Append(reports, r)
             /\ UNCHANGED document

MerchantNext == \/ \E line \in HeaderLines : PrintHeaderLine(line)
                \/ \E footer \in Footers : PrintFooter(footer)
                \/ \E r \in Reports : Report(r)

MerchantSpec == MerchantInit /\ [][MerchantNext]_merchantVars

-----------------------------------------------------------------------------
(* Properties *)

ReadsWord(lines, word) == \E k \in DOMAIN lines : lines[k].name[1] = word

\* Who sold is printed in the header of the page text, read there by two
\* passes over the first page, or told by the file: neither a footer nor one
\* pass alone introduces a merchant ("never introduces an otherwise unobserved
\* merchant or a payment-card partner", ingest.py), and nobody is his own
\* store. The store's street is one that stands above the customer block,
\* ("never a customer address", ingest.py).
SellerPrinted ==
    LET passes == FirstPage(reports)
        above  == {AboveCustomer(document.lines)}
                  \cup {AboveCustomer(passes[k].text.lines) : k \in DOMAIN passes}
    IN document # BlankDocument \/ DOMAIN passes # {} =>
       /\ \A hint \in Hints : \E found \in {MerchantAndStore(document, hint, passes)} :
            found.merchant # None =>
                /\ found.merchant # found.store
                /\ \/ hint # None /\ found.merchant = Normal(hint)
                   \/ ReadsWord(document.lines, found.merchant[1][1])
                   \/ Cardinality({k \in DOMAIN passes :
                        ReadsWord(passes[k].text.lines, found.merchant[1][1])}) >= 2
       /\ \A street \in {StoreAddress(document, passes)} \ {None} :
            \E lines \in above : \E k \in Streets(lines) : lines[k].name = street

=============================================================================

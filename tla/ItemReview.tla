------------------------------ MODULE ItemReview ------------------------------
(***************************************************************************)
(* The items of one scanned purchase between imports, which rewrite them   *)
(* from a new reading, the product search, which fills in products it      *)
(* found, and the people who describe, accept and categorize them          *)
(* (categorization/receipt_items.py, item_rules.py, web/queries.py,        *)
(* product_enrichment.py).  Every operation is one transaction that locks  *)
(* the rows it changes, but for the search: it picks its items, looks each *)
(* of them up for minutes and keeps the rows it has written locked until   *)
(* it is done.                                                             *)
(*                                                                         *)
(* A reading is a sequence of lines, each a name with its amount.          *)
(***************************************************************************)
EXTENDS Amounts

CONSTANTS Lines,       \* pairs of a name and an amount an OCR reading may print
          Products,    \* product pages a search may return
          Categories, ActiveCategories,
          Keyword,     \* category the keywords give a name or a product, or None
          Section,     \* category the keywords give the section of a name, or None
          Mentions,    \* pairs of a name or product and a text it contains
          Supported,   \* pairs of a name and a product with enough shared evidence
          Corrected,   \* the name a product gives to the name it was found for
          SavedRules,  \* rules people may save
          MaxLines, MaxIds, MaxRules, MaxEdits     \* bounds

ASSUME ItemReviewAssumption ==
    /\ ActiveCategories \subseteq Categories
    /\ {MaxLines, MaxIds, MaxRules, MaxEdits} \subseteq Nat
    /\ None # {}

VARIABLES rows,        \* items by id
          issued,      \* last id handed out
          rules,       \* category mappings in the order of their ids
          suggested,   \* latest collaboration of an item, by id
          accepted,    \* collaborations that were accepted
          cache,       \* accepted product by name
          seen,        \* the item as it stands on the page of a person, or None
          search,      \* items a product search has yet to look up, or None
          written,     \* products it has found and not yet committed, by id
          edits        \* counts what people, searches and models did

itemVars == <<rows, issued, rules, suggested, accepted, cache, seen, search, written, edits>>

Names == {line[1] : line \in Lines} \cup {Corrected[k] : k \in DOMAIN Corrected}
Ids == DOMAIN rows
Key(i) == <<rows[i].name, rows[i].amount>>

ItemInit ==
    /\ rows = <<>> /\ issued = 0
    /\ rules = <<>>
    /\ suggested = <<>> /\ accepted = {}
    /\ cache = <<>>
    /\ seen = None
    /\ search = None /\ written = <<>>
    /\ edits = 0

\* Rows the search has looked up stay locked until it commits, against
\* deletion and, once it has written to them, against any change.
RowsUnlocked(ids) == ids \intersect DOMAIN written = {}
Unwritten(ids) == \A i \in ids \intersect DOMAIN written : written[i] = None

\* A step of a person, a search or a model, of which there are MaxEdits.
Edit == /\ edits < MaxEdits
        /\ edits' = edits + 1

-----------------------------------------------------------------------------
(* Categories *)

Rule(scope, type, text, category, priority, active) ==
    [scope |-> scope, type |-> type, text |-> text, category |-> category,
     priority |-> priority, active |-> active]
SameKey(r, s) == <<r.scope, r.type, r.text>> = <<s.scope, s.type, s.text>>

Matches(rule, name) ==
    IF rule.type = "exact" THEN rule.text = name ELSE <<name, rule.text>> \in Mentions

\* Rules that speak of a row, with the name and the product it then has.
Speaking(name, product) ==
    {k \in DOMAIN rules :
        /\ rules[k].active /\ rules[k].scope # "elsewhere"
        /\ rules[k].category \in ActiveCategories
        /\ Matches(rules[k], name) \/ (product # None /\ Matches(rules[k], product))}
FirstOf(ks) == CHOOSE k \in ks : \A j \in ks : \/ rules[k].priority < rules[j].priority
                                               \/ rules[k].priority = rules[j].priority /\ k <= j

\* category_for_product: approved rules, the keywords of the product or else
\* of the name, and the printed section, in this order.
CategoryOf(name, product) ==
    LET ks == Speaking(name, product)
        word == Keyword[IF product = None THEN name ELSE product]
    IN CASE ks # {} -> rules[FirstOf(ks)].category
         [] ks = {} /\ word \in ActiveCategories -> word
         [] ks = {} /\ word \notin ActiveCategories /\ Section[name] \in ActiveCategories -> Section[name]
         [] OTHER -> None

\* apply_category changes only what has no category and was decided by nobody.
Categorized(row) ==
    IF row.category # None \/ row.decided THEN row
    ELSE [row EXCEPT !.category = CategoryOf(row.name, row.product)]

-----------------------------------------------------------------------------
(* Imports *)

Reviewed(i) == rows[i].decided \/ rows[i].product # None

\* The order in which rows of the same name and amount are matched.
MatchedBefore(i, j) == \/ Reviewed(i) /\ ~Reviewed(j)
                       \/ Reviewed(i) = Reviewed(j) /\ i < j

Kept(reading) ==
    {i \in Ids : Cardinality({j \in Ids : Key(j) = Key(i) /\ MatchedBefore(j, i)})
                    < Cardinality({n \in DOMAIN reading : reading[n] = Key(i)})}
Added(reading) ==
    {n \in DOMAIN reading :
        Cardinality({m \in 1..n : reading[m] = reading[n]})
            > Cardinality({i \in Ids : Key(i) = reading[n]})}

NewRow(line) == [name |-> line[1], amount |-> line[2], category |-> None,
                 decided |-> FALSE, product |-> None]

\* persist_items: rows matched by name and amount stay, the others are added
\* and deleted; what hangs on a deleted row goes with it.
PersistItems(reading) ==
    LET added == Added(reading)
        IdOf(n) == issued + Cardinality({m \in added : m <= n})
        fresh == {IdOf(n) : n \in added}
        LineOf(i) == reading[CHOOSE n \in added : IdOf(n) = i]
    IN /\ issued' = issued + Cardinality(added)
       /\ rows' = [i \in Kept(reading) \cup fresh |->
                      Categorized(IF i \in fresh THEN NewRow(LineOf(i)) ELSE rows[i])]
       /\ suggested' = [i \in DOMAIN suggested \cap Kept(reading) |-> suggested[i]]

\* upsert_receipt: a reviewed row the reading has no line for stops the import.
BlockedByCategory(reading) == \E i \in Ids : rows[i].decided /\ i \notin Kept(reading)
Blocked(reading) == \E i \in Ids : Reviewed(i) /\ i \notin Kept(reading)
Import(reading) ==
    /\ issued + Cardinality(Added(reading)) <= MaxIds
    /\ RowsUnlocked(Ids)
    /\ ~Blocked(reading)
    /\ PersistItems(reading)
    /\ UNCHANGED <<rules, accepted, cache, seen, search, written, edits>>

-----------------------------------------------------------------------------
(* Products *)

\* The product a row takes from the cache: it has none, no collaboration of
\* its own, and the evidence for the cached product still stands.
FromCache(i) ==
    LET name == rows[i].name
    IN IF /\ rows[i].product = None /\ i \notin DOMAIN suggested
          /\ name \in DOMAIN cache /\ <<name, cache[name]>> \in Supported
       THEN cache[name] ELSE rows[i].product

RefreshedRow(i) == Categorized([rows[i] EXCEPT !.product = FromCache(i)])

\* refresh_receipt_items
Refresh ==
    /\ RowsUnlocked(Ids)
    /\ rows' = [i \in Ids |-> RefreshedRow(i)]
    /\ UNCHANGED <<issued, rules, suggested, accepted, cache, seen, search, written, edits>>

\* save_item_description
Describe(i, product) ==
    /\ Edit
    /\ RowsUnlocked({i})
    /\ rows' = [rows EXCEPT ![i].product = product]
    /\ UNCHANGED <<issued, rules, suggested, accepted, cache, seen, search, written>>

\* A collaboration of the models ends; None stands for one that asks for review.
Collaborate(i, product) ==
    /\ Edit
    /\ suggested' = (i :> [number |-> edits, product |-> product]) @@ suggested
    /\ UNCHANGED <<rows, issued, rules, accepted, cache, seen, search, written>>

\* A person opens the receipt and looks at one item.
Look(i) ==
    /\ i \in DOMAIN suggested
    /\ seen' = [item |-> i, product |-> rows[i].product, number |-> suggested[i].number]
    /\ UNCHANGED <<rows, issued, rules, suggested, accepted, cache, search, written, edits>>

\* The row takes the product and, if it has none, a category; the product is
\* cached for rows of the same name.
TakeProduct(i, product) ==
    /\ rows' = [rows EXCEPT ![i] = Categorized([rows[i] EXCEPT !.product = product])]
    /\ cache' = (rows[i].name :> product) @@ cache

\* accept_product_recommendation, from a page that may be stale: a row that was
\* deleted, a newer recommendation or another product refuse it, and one that
\* was accepted before changes nothing.
Current == /\ seen.item \in Ids /\ seen.item \in DOMAIN suggested
           /\ suggested[seen.item].number = seen.number
           /\ suggested[seen.item].product # None
Accept ==
    /\ seen # None
    /\ RowsUnlocked({seen.item})
    /\ seen' = None
    /\ IF Current /\ seen.number \notin accepted /\ rows[seen.item].product = seen.product
       THEN /\ TakeProduct(seen.item, suggested[seen.item].product)
            /\ accepted' = accepted \cup {seen.number}
       ELSE UNCHANGED <<rows, cache, accepted>>
    /\ UNCHANGED <<issued, rules, suggested, search, written, edits>>

-----------------------------------------------------------------------------
(* The product search (product_enrichment.run) *)

\* It picks the items without a product, or those it is asked for.
Pick(ids) ==
    /\ Edit
    /\ search = None /\ ids # {}
    /\ search' = ids
    /\ UNCHANGED <<rows, issued, rules, suggested, accepted, cache, seen, written>>

\* It looks one of them up, in the cache or on the web, and writes what it
\* finds.  A row that was deleted meanwhile fails the whole search.
LookUp(i, product) ==
    /\ search # None /\ i \in search
    /\ IF i \in Ids
       THEN /\ search' = search \ {i}
            /\ written' = (i :> IF <<rows[i].name, product>> \in Supported THEN product ELSE None)
                             @@ written
       ELSE /\ search' = None
            /\ written' = <<>>
    /\ UNCHANGED <<rows, issued, rules, suggested, accepted, cache, seen, edits>>

\* The name may be corrected by the product that was found.
Found(i, product) ==
    [rows[i] EXCEPT !.product = product,
                    !.name = IF <<@, product>> \in DOMAIN Corrected THEN Corrected[<<@, product>>] ELSE @]
CommitSearch ==
    LET found == {i \in DOMAIN written : written[i] # None}
    IN /\ search = {}
       /\ rows' = [i \in Ids |-> IF i \in found THEN Found(i, written[i]) ELSE rows[i]]
       /\ cache' = [n \in {rows[i].name : i \in found} |->
                       written[CHOOSE i \in found : rows[i].name = n]] @@ cache
       /\ search' = None /\ written' = <<>>
       /\ UNCHANGED <<issued, rules, suggested, accepted, seen, edits>>

-----------------------------------------------------------------------------
(* Category rules *)

\* Rows the UPDATE of a rule changes: it looks at their names only.
RowsOf(rule) == {i \in Ids : rule.scope # "elsewhere" /\ Matches(rule, rows[i].name)}
ApplyRule(rule, decided) ==
    LET ids == IF rule.active THEN RowsOf(rule) ELSE {}
    IN /\ Unwritten(ids)
       /\ rows' = [i \in Ids |-> IF i \in ids
                                 THEN [rows[i] EXCEPT !.category = rule.category, !.decided = decided]
                                 ELSE rows[i]]

\* save_category_rule: a new rule, or rule k changed, unless another rule has
\* its scope, type and text.
SaveCategoryRule(k, rule) ==
    /\ Edit
    /\ rule.category \in ActiveCategories
    /\ \A j \in DOMAIN rules \ {k} : ~SameKey(rules[j], rule)
    /\ rules' = IF k \in DOMAIN rules THEN [rules EXCEPT ![k] = rule] ELSE Append(rules, rule)
    /\ ApplyRule(rule, FALSE)
    /\ UNCHANGED <<issued, suggested, accepted, cache, seen, search, written>>

\* save_category_override: the exact rule of the item's name, new or changed.
SaveCategoryOverride(i, category) ==
    LET rule == Rule("here", "exact", rows[i].name, category, 10, TRUE)
        same == {k \in DOMAIN rules : SameKey(rules[k], rule)}
    IN /\ Edit
       /\ category \in ActiveCategories
       /\ rules' = IF same = {} THEN Append(rules, rule)
                   ELSE [k \in DOMAIN rules |-> IF k \in same THEN rule ELSE rules[k]]
       /\ ApplyRule(rule, TRUE)
       /\ UNCHANGED <<issued, suggested, accepted, cache, seen, search, written>>

Readings == SeqOf(Lines, MaxLines)
ItemNext ==
    \/ \E reading \in Readings : Import(reading)
    \/ Refresh
    \/ \E i \in Ids, product \in Products \cup {None} :
          Describe(i, product) \/ Collaborate(i, product)
    \/ \E i \in Ids : Look(i)
    \/ Accept
    \/ \E ids \in SUBSET Ids : Pick(ids)
    \/ \E i \in 1..MaxIds, product \in Products : LookUp(i, product)
    \/ CommitSearch
    \/ \E k \in 1..MaxRules, rule \in SavedRules :
          k <= Len(rules) + 1 /\ SaveCategoryRule(k, rule)
    \/ \E i \in Ids, category \in Categories : Len(rules) < MaxRules /\ SaveCategoryOverride(i, category)

ItemSpec == ItemInit /\ [][ItemNext]_itemVars
-----------------------------------------------------------------------------
(* Properties *)

\* docs/local-development.md: "Refresh reuses canonical item IDs for exact
\* name/amount matches [...] and removes only unmatched unreviewed rows";
\* docs/user-guide.md: "it preserves existing descriptions, categories and
\* per-item collaboration reviews", and, of an acceptance, "Existing
\* categories and human overrides are preserved".  What is not an edit of a
\* person, a search or a model keeps every reviewed row, every category that
\* is set and every decision; it takes a product away only by an acceptance.
ReviewStands ==
    [][edits' = edits /\ search' = search =>
          \A i \in Ids :
             /\ Reviewed(i) => i \in DOMAIN rows' /\ rows'[i].decided = rows[i].decided
             /\ i \in DOMAIN rows' =>
                   /\ rows[i].category # None => rows'[i].category = rows[i].category
                   /\ rows[i].product # None /\ rows'[i].product # rows[i].product
                         => accepted' # accepted /\ rows[i].product = seen.product]_itemVars
=============================================================================

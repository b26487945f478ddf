----------------------------- MODULE StoreOrders -----------------------------
(***************************************************************************)
(* One Instacart order on its way from a page that is still rendering to   *)
(* the database (instacart/orders.py). The browser shows the page row by   *)
(* row; the importer polls it until the parse stops growing or time is up, *)
(* cleans what it has, polls again when the parse looks too small, takes   *)
(* quantities from the text of the page and stores the order.              *)
(*                                                                         *)
(* A row is a card or a fragment. Products stand for names in alphabetical *)
(* order, prices are in cents, weights in hundredths of their unit.        *)
(* card:     product, marked (a stray "M" before the name), refunded,      *)
(*           quantity, one ("Quantity: 1"), each, pair (a quantity with    *)
(*           its total), current and original price, loose (other          *)
(*           amounts), measure (price per weight) and weight               *)
(* fragment: quantity, values, only (without any words) and apart (a fee,  *)
(*           or a current price with no name to it)                        *)
(***************************************************************************)
EXTENDS Amounts

CONSTANTS OrderRows,   \* rows a page may show
          Receipts,    \* what its receipt may show: subtotal, charged, bag fee
          Windows,     \* what the text around a name may show
          CategoryOf,  \* budget category of each product, 0 for the bag fee
          MaxRows      \* bound on the rows of a page

\* Nothing costs less than three cents, and of nothing less than one is bought.
Prices == {cents \in Nat : cents > 2}
Counts == Nat \ {0}
OrNone(S) == S \cup {None}

ASSUME OrderAssumption ==
    /\ MaxRows \in Nat /\ None \notin Int
    /\ \A row \in {r \in OrderRows : "product" \in DOMAIN r} :
          /\ row.product \in Nat /\ row.quantity \in OrNone(Counts) /\ row.weight \in OrNone(Nat)
          /\ {row.each, row.current, row.original, row.measure} \subseteq OrNone(Prices)
          /\ row.pair # None => row.pair.quantity \in Nat /\ row.pair.total \in Prices
          /\ row.loose \subseteq Prices /\ IsFiniteSet(row.loose)
          /\ {row.marked, row.refunded, row.one} \subseteq BOOLEAN
    /\ \A row \in {r \in OrderRows : "product" \notin DOMAIN r} :
          /\ row.quantity \in OrNone(Counts)
          /\ row.values \subseteq Prices /\ IsFiniteSet(row.values)
    /\ \A r \in Receipts : {r.subtotal, r.charged, r.total, r.bag} \subseteq OrNone(Int)
    /\ \A w \in Windows : /\ w.quantities \subseteq Counts /\ IsFiniteSet(w.quantities)
                          /\ w.prices \subseteq Prices
                          /\ w.weighed # None => /\ {w.weighed.unit, w.weighed.total} \subseteq Prices
                                                 /\ w.weighed.weight \in Nat

VARIABLES page,        \* rows rendered so far
          receipt,     \* receipt of the order, None while no page is open
          best,        \* fullest parse of this wait
          stable,      \* polls that found nothing new
          captured,    \* items of the first wait, None before it has ended
          stored       \* the order in the database, None before it is written

orderVars == <<page, receipt, best, stable, captured, stored>>

\* round, as Python and NUMERIC do for the positive ratios that occur here.
Rounded(a, b) == (2 * a + b) \div (2 * b)
Within(a, b, cents) == Abs(a - b) < cents
Nearest(values, target) == CHOOSE v \in values : \A w \in values : Abs(v - target) <= Abs(w - target)
Times(price, quantity) == IF quantity = None THEN price ELSE price * quantity
Weighed(price, weight) == Rounded(price * weight, 100)
Known(S) == S \ {None}

-----------------------------------------------------------------------------
(* Cards *)

IsCard(row) == "product" \in DOMAIN row
ByWeight(card) == card.measure # None \/ card.weight # None

\* What a card says once its prices are read; measured is its weight_unit.
AsRead(card, quantity, unit, total, original, measured) ==
    [product |-> card.product, marked |-> card.marked, refunded |-> card.refunded,
     quantity |-> quantity, unit |-> unit, total |-> total, original |-> original,
     weight |-> IF measured THEN card.weight ELSE None, measured |-> measured,
     locked |-> card.one \/ ByWeight(card)]

\* A card with both a price per piece and a matching quantity and total.
Direct(card) == /\ card.each # None /\ card.pair # None
                /\ card.pair.quantity >= 1
                /\ Within(card.each * card.pair.quantity, card.pair.total, 8)

\* "Current price" is the price of a line by weight, of a line or of a piece.
ReadCurrent(card, quantity) ==
    LET current == card.current
        full    == Weighed(card.measure, card.weight)
    IN CASE card.measure # None ->
                AsRead(card, None, card.measure, current,
                     IF card.weight # None /\ ~Within(full, current, 6) THEN full ELSE None,
                     card.weight # None)
         [] card.measure = None /\ card.each # None /\ quantity # None
            /\ Within(card.each * Times(1, quantity), current, 12) ->
                AsRead(card, quantity, card.each, current, None, FALSE)
         [] OTHER -> AsRead(card, quantity, current, current, None, FALSE)

\* Loose amounts: the lowest is the price, unless prices per piece explain
\* the highest as a total.
ReadLoose(card, quantity) ==
    LET others == card.loose \cup Known({card.original})
                    \cup (IF card.pair = None THEN {} ELSE {card.pair.total})
        all    == others \cup Known({card.each, card.measure})
        full   == Weighed(card.measure, card.weight)
        top    == Max(others)
        pieces == Rounded(top, card.each)
        priced == IF quantity = None \/ card.each = None THEN FALSE
                  ELSE pieces >= 1 /\ Within(pieces * card.each, top, 8)
        plain  == CASE card.each # None /\ others = {} ->
                            AsRead(card, quantity, card.each, card.each, None, FALSE)
                    [] card.each # None /\ others # {} /\ priced ->
                            AsRead(card, Max({quantity, pieces}), card.each, top, None, FALSE)
                    [] OTHER -> AsRead(card, quantity, Min(others), Times(Min(others), quantity),
                                     None, FALSE)
    IN CASE all = {} -> AsRead(card, quantity, None, None, None, FALSE)
         [] card.measure # None /\ card.weight # None ->
                AsRead(card, None, card.measure, full,
                     IF Within(Max(all), full, 6) THEN None ELSE Max(all), TRUE)
         [] card.measure # None /\ card.weight = None ->
                AsRead(card, None, card.measure, Max(all), None, FALSE)
         [] OTHER -> IF plain.total = card.original THEN [plain EXCEPT !.total = plain.unit]
                     ELSE plain

\* _extract_initial_quantity and _parse_unit_and_total
ReadCard(card) ==
    LET quantity == IF card.one THEN 1 ELSE card.quantity
        read == IF card.current # None THEN ReadCurrent(card, quantity)
                ELSE ReadLoose(card, quantity)
    IN CASE Direct(card) ->
                [AsRead(card, card.pair.quantity, card.each, card.pair.total, None, FALSE)
                    EXCEPT !.locked = @ \/ card.pair.quantity = 1]
         [] OTHER -> IF /\ read.original = None /\ card.original # None /\ read.total # None
                        /\ card.original > read.total
                     THEN [read EXCEPT !.original = card.original] ELSE read
-----------------------------------------------------------------------------
(* Fragments: rows without a name, which belong to some card. *)

NameOf(item) == <<item.marked, item.product>>

Count(item, other) == IF item.quantity = None THEN other ELSE item.quantity

\* _merge_fragment_into_previous_item: a larger quantity, a lower price.
Merged(item, f) ==
    LET counted == IF f.only /\ f.quantity # None /\ f.quantity > Count(item, 0)
                   THEN [item EXCEPT !.quantity = f.quantity,
                            !.total = IF item.unit = None THEN @ ELSE item.unit * f.quantity]
                   ELSE item
        lowest  == Min(f.values)
    IN IF f.apart THEN item
       ELSE IF f.values # {} /\ (counted.unit = None \/ lowest < counted.unit)
       THEN [counted EXCEPT !.unit = lowest, !.total = Times(lowest, counted.quantity)]
       ELSE counted

\* The quantity and total a fragment gives to a line with this price, if the
\* amounts fit within the tolerance.
Fit(quantity, total) == [quantity |-> quantity, total |-> total]
Fits(f, unit, tolerance) ==
    IF f.quantity # None
    THEN IF f.values = {} THEN {Fit(f.quantity, unit * f.quantity)}
         ELSE LET nearest == Nearest(f.values, unit * f.quantity)
              IN {Fit(f.quantity, IF Within(nearest, unit * f.quantity, tolerance)
                                  THEN nearest ELSE unit * f.quantity)}
    ELSE {Fit(Rounded(v, unit), v) : v \in {v \in f.values : /\ Rounded(v, unit) >= 1
                                               /\ Within(Rounded(v, unit) * unit, v, tolerance)}}

Largest(fits) == CHOOSE a \in fits : \A b \in fits : a.quantity >= b.quantity

\* _apply_pending_fragment_to_item: the waiting fragment of the largest
\* quantity, if it is larger than the card's own.
ApplyPending(item, pending) ==
    LET fits == {[at |-> k, fit |-> Largest(Fits(pending[k], item.unit, 12))] :
                    k \in {k \in DOMAIN pending :
                            /\ pending[k].anchor \in {None, NameOf(item)}
                            /\ Fits(pending[k], item.unit, 12) # {}}}
        more == {r \in fits : r.fit.quantity > Count(item, 0)}
        used == Best({[at |-> r.at, fit |-> r.fit, key |-> <<r.fit.quantity>>] : r \in more})
    IN IF item.unit = None \/ item.locked \/ more = {}
       THEN [item |-> item, pending |-> pending]
       ELSE [item    |-> [item EXCEPT !.quantity = used.fit.quantity, !.total = used.fit.total],
             pending |-> RemoveAt(pending, used.at)]

\* A card that was not seen before is an item.
AddCard(state, placed) ==
    LET item == placed.item
        key  == <<NameOf(item), item.quantity, item.unit, item.total>>
    IN [items   |-> IF key \in state.seen THEN state.items ELSE Append(state.items, item),
        seen    |-> state.seen \cup {key},
        pending |-> placed.pending]

\* A fragment is merged into the item above and waits as well.
AddFragment(state, row) ==
    LET above == Last(state.items)
        waits == row.quantity # None \/ row.values # {}
    IN [items   |-> IF state.items = <<>> THEN <<>>
                    ELSE Front(state.items) \o <<Merged(above, row)>>,
        seen    |-> state.seen,
        pending |-> IF ~waits THEN state.pending
                    ELSE Append(state.pending,
                            [quantity |-> row.quantity, values |-> row.values,
                             anchor |-> IF state.items = <<>> THEN None ELSE NameOf(above)])]

\* extract_items_from_dom, one row
AddRow(state, row) == IF IsCard(row) THEN AddCard(state, ApplyPending(ReadCard(row), state.pending))
                      ELSE AddFragment(state, row)

\* _final_reconcile_fragments: what still waits for a name goes to the item of
\* that name whose quantity it raises most, at most 20 cents off.
LateFits(item, f) ==
    LET unit  == item.unit
        found == IF f.quantity = None
                 THEN {Fit(Rounded(v, unit), v) : v \in {v \in f.values : Rounded(v, unit) >= 1}}
                 ELSE {Fit(f.quantity, IF f.values = {} THEN unit * f.quantity
                                       ELSE Nearest(f.values, unit * f.quantity))}
        error(a) == Abs(unit * a.quantity - a.total)
        closest  == CHOOSE a \in found : \A b \in found : error(a) <= error(b)
    IN IF unit = None \/ item.locked \/ found = {} THEN {}
       ELSE {a \in {closest} : a.quantity > Count(item, 1) /\ error(a) <= 20}

Reconcile(items, f) ==
    LET named  == {k \in DOMAIN items : NameOf(items[k]) = f.anchor /\ LateFits(items[k], f) # {}}
        fit(k) == Only(LateFits(items[k], f))
        off(k) == Abs(items[k].unit * fit(k).quantity - fit(k).total)
        chosen == Best({[at |-> k, key |-> <<fit(k).quantity, -off(k)>>] : k \in named}).at
    IN IF f.anchor = None \/ named = {} THEN items
       ELSE [items EXCEPT ![chosen].quantity = fit(chosen).quantity,
                          ![chosen].total = fit(chosen).total]

ReconcileAll(state) == FoldLeft(Reconcile, state.items, state.pending)

ExtractOrderItems(rows) ==
    ReconcileAll(FoldLeft(AddRow, [items |-> <<>>, seen |-> {}, pending |-> <<>>], rows))
-----------------------------------------------------------------------------
(* Cleaning *)

\* normalize_refund_item_pricing: a refund is the amount originally paid.
Refund(item) ==
    LET quantity == Max({1, Count(item, 1)})
        paid == CASE item.original # None -> item.original
                  [] item.original = None /\ item.total \notin {None, 0} -> Abs(item.total)
                  [] OTHER -> IF item.unit \in {None, 0} THEN None ELSE Abs(item.unit) * quantity
    IN IF ~item.refunded \/ paid = None THEN item
       ELSE [item EXCEPT !.total = -paid, !.unit = -Rounded(paid, quantity)]

\* The quantity the arithmetic of a line tells, where none is locked.
CleanQuantity(item) ==
    LET pieces  == Rounded(item.total, item.unit)
        telling == /\ None \notin {item.unit, item.total} /\ item.unit > 0 /\ item.total # 0
                   /\ 25 * Abs(item.total - pieces * item.unit) < 2 * item.unit
                   /\ pieces > Count(item, 0)
    IN CASE item.locked \/ item.measured -> item.quantity
         [] OTHER -> LET quantity == IF telling THEN pieces ELSE item.quantity
                     IN IF quantity # None /\ Count([item EXCEPT !.quantity = quantity], 0) > 9
                        THEN 1 ELSE quantity

\* Mutant: a printed total stands, whatever the quantity has become.
TotalStands(item) ==
    LET quantity == CleanQuantity(item)
        total    == IF item.total = None /\ None \notin {quantity, item.unit}
                    THEN item.unit * quantity ELSE item.total
    IN Refund([item EXCEPT !.quantity = quantity, !.total = total, !.marked = FALSE])

\* clean_order_items, one item: what it costs follows from its quantity.
CleanItem(item) ==
    LET quantity == CleanQuantity(item)
        expected == item.unit * quantity
        priced   == quantity # None /\ item.unit # None /\ ~item.measured
        total    == CASE ~priced -> item.total
                      [] priced /\ item.total # None ->
                            IF item.total < item.unit \/ Abs(item.total - expected) > 2
                            THEN expected ELSE item.total
                      [] OTHER -> expected
    IN Refund([item EXCEPT !.quantity = quantity, !.total = total, !.marked = FALSE])

AddsUp(item) == /\ None \notin {item.unit, item.total}
                /\ Abs(item.total - Max({1, Count(item, 1)}) * item.unit) < 2

Completeness(item) == 3 * Bit(item.quantity # None) + 2 * Bit(item.unit # None)
                      + 2 * Bit(item.total # None)

\* Of two cards by weight: the discounted total, or the explicit one.
PreferWeighed(old, new) ==
    LET comparable == None \notin {old.unit, new.unit, old.total, new.total} /\ old.unit = new.unit
    IN IF ~(old.measured /\ new.measured) THEN new.measured
       ELSE \/ comparable /\ (new.total < old.total \/ new.total - old.total \in 1..5)
            \/ /\ new.weight # None /\ new.total # None
               /\ old.weight = None \/ new.weight > old.weight

\* Of two cards for one product: the one by weight, the discounted price, the
\* more complete card, the larger quantity, the consistent or the larger total.
Prefer(old, new) ==
    \/ (old.measured \/ new.measured) /\ PreferWeighed(old, new)
    \/ AddsUp(new) /\ AddsUp(old) /\ new.unit < old.unit /\ new.unit > 0
    \/ Completeness(new) > Completeness(old)
    \/ Count(new, 0) > Count(old, 0)
    \/ AddsUp(new) /\ AddsUp(old) /\ new.unit < old.unit
       /\ Max({1, Count(new, 1)}) = Max({1, Count(old, 1)})
    \/ /\ None \notin {old.total, new.total, old.quantity, new.quantity}
       /\ Abs(new.total - new.quantity * (IF new.unit = None THEN 0 ELSE new.unit)) < 2
       /\ Abs(old.total - old.quantity * (IF old.unit = None THEN 0 ELSE old.unit)) > 2
    \/ /\ ~(old.measured \/ new.measured)
       /\ new.total # None /\ (old.total = None \/ new.total > old.total)
    \/ old.quantity = None /\ new.quantity # None

\* One line per product. A copy with a stray "M" has the original price, which
\* is what the receipt's subtotal counts: from then on the highest total stays.
AddItem(state, raw, item) ==
    LET copies == state.copies \cup (IF raw.marked THEN {raw.product} ELSE {})
        same   == {k \in DOMAIN state.items : state.items[k].product = item.product}
        k      == Only(same)
        old    == state.items[k]
        wins   == IF item.product \in copies
                  THEN item.total # None /\ (old.total = None \/ item.total > old.total)
                  ELSE Prefer(old, item)
    IN [copies |-> copies,
        items  |-> CASE same = {} -> Append(state.items, item)
                     [] same # {} /\ wins -> [state.items EXCEPT ![k] = item]
                     [] OTHER -> state.items]

AddClean(state, raw) == AddItem(state, raw, CleanItem(raw))

\* Lines in the order of their names: the n-th has n names up to its own.
ByName(items) ==
    LET Place(k) == Cardinality({j \in DOMAIN items : items[j].product <= items[k].product})
    IN [n \in DOMAIN items |-> items[CHOOSE k \in DOMAIN items : Place(k) = n]]

\* clean_order_items
CleanOrderItems(items) ==
    ByName(FoldLeft(AddClean, [items |-> <<>>, copies |-> {}], items).items)
-----------------------------------------------------------------------------
(* What the text of the page adds *)

\* The largest of some quantities whose price is printed near the name.
Raised(item, quantities, prices) ==
    LET fitting == {q \in quantities : /\ q > Count(item, 1)
                                       /\ \E v \in prices : Within(item.unit * q, v, 12)}
        q == Max(fitting)
    IN IF fitting = {} THEN item
       ELSE [item EXCEPT !.quantity = q, !.total = Nearest(prices, item.unit * q)]

\* reconcile_items_with_body_text, for an item and the text around its name: a
\* weight that explains a total, else the largest quantity that does, printed
\* or not.
FromText(item, window) ==
    LET w == window.weighed
    IN CASE item.unit = None -> item
         [] item.unit # None /\ item.unit <= 0 -> item
         [] item.unit # None /\ item.unit > 0 /\ w # None
            /\ Abs(Weighed(w.unit, w.weight) - w.total) <= 25 ->
                [item EXCEPT !.quantity = None, !.weight = w.weight, !.measured = TRUE,
                             !.unit = w.unit, !.total = w.total]
         [] OTHER -> IF item.measured THEN item
                     ELSE Raised(Raised(item, window.quantities, window.prices),
                                 2..9, window.prices)

BagFee(fee) == [product |-> 0, marked |-> FALSE, refunded |-> FALSE, quantity |-> 1,
                unit |-> fee, total |-> fee, original |-> fee, weight |-> None,
                measured |-> FALSE, locked |-> TRUE]

\* item_totals_sum
ItemsTotal(items) == Sum([k \in DOMAIN items |-> IF items[k].total = None THEN 0 ELSE items[k].total])

\* is_implausible_item_parse: less than half of a subtotal of at least $20.
Implausible(items) ==
    /\ receipt.subtotal # None /\ receipt.subtotal >= 2000
    /\ ItemsTotal(items) <= 0 \/ 2 * ItemsTotal(items) < receipt.subtotal

-----------------------------------------------------------------------------
(* The page *)

OrderInit == /\ page = <<>> /\ receipt = None
             /\ best = <<>> /\ stable = 0
             /\ captured = None /\ stored = None

\* The order's page is opened and its receipt read (extract_order_metadata).
Open(r) == /\ receipt = None /\ stored = None
           /\ receipt' = r
           /\ UNCHANGED <<page, best, stable, captured, stored>>

\* The page renders another row, at any time while the importer waits.
Render(row) == /\ receipt # None
               /\ Len(page) < MaxRows
               /\ page' = Append(page, row)
               /\ UNCHANGED <<receipt, best, stable, captured, stored>>

Settled == stable >= 2 /\ best # <<>>

\* wait_for_items_to_render: one poll.
Poll == \E parsed \in {CleanOrderItems(ExtractOrderItems(page))} :
           /\ receipt # None /\ ~Settled
           /\ IF Len(parsed) > Len(best) THEN best' = parsed /\ stable' = 0
              ELSE /\ stable' = IF Len(parsed) = Len(best) /\ parsed # <<>> THEN stable + 1
                                ELSE Max({0, stable - 1})
                   /\ UNCHANGED best
           /\ UNCHANGED <<page, receipt, captured, stored>>

\* The wait ends, settled or at its deadline: an implausible parse is tried
\* once more.
Retry == \E items \in {CleanOrderItems(best)} :
            /\ receipt # None /\ captured = None
            /\ Implausible(items)
            /\ captured' = items
            /\ best' = <<>> /\ stable' = 0
            /\ UNCHANGED <<page, receipt, stored>>

\* What the page charged, or what its lines cost where it shows nothing that
\* could be the price of them.
OrderTotal(items) ==
    LET sum == ItemsTotal(items)
    IN CASE receipt.charged # None -> receipt.charged
         [] receipt.charged = None /\ sum > 0
            /\ (receipt.total = None \/ 2 * receipt.total < sum) -> sum
         [] OTHER -> receipt.total

\* write_orders_to_postgres: the order in the database after this visit. An
\* order that is still implausible is left as it was for a later run.
WriteOrder(items) ==
    IF receipt.subtotal # None /\ receipt.subtotal >= 2000
       /\ 2 * ItemsTotal(items) < receipt.subtotal
    THEN stored
    ELSE [items |-> items, charged |-> receipt.charged, total |-> OrderTotal(items)]

\* The order is complete: windows[p] is the text around the name of product p.
Finish(windows) ==
    \E fresh \in {CleanOrderItems(best)} :
        LET items == IF captured = None \/ ItemsTotal(fresh) > ItemsTotal(captured)
                     THEN fresh ELSE captured
            known == [k \in DOMAIN items |-> FromText(items[k], windows[items[k].product])] \o <<>>
        IN /\ receipt # None
           /\ captured = None => ~Implausible(fresh)
           /\ stored' = WriteOrder(IF receipt.bag = None THEN known
                                    ELSE Append(known, BagFee(receipt.bag)))
           /\ page' = <<>> /\ receipt' = None
           /\ best' = <<>> /\ stable' = 0 /\ captured' = None

Products == {row.product : row \in {r \in OrderRows : IsCard(r)}}

OrderNext == \/ \E r \in Receipts : Open(r)
             \/ \E row \in OrderRows : Render(row)
             \/ Poll
             \/ Retry
             \/ \E windows \in [Products -> Windows] : Finish(windows)

OrderSpec == OrderInit /\ [][OrderNext]_orderVars
-----------------------------------------------------------------------------
(* The reports of save_outputs *)

\* ROUND_HALF_UP of a ratio: halves away from zero.
HalfUp(a, b) == LET size == (2 * Abs(a) + Abs(b)) \div (2 * Abs(b))
                IN IF (a < 0) = (b < 0) THEN size ELSE -size

\* What was charged for an order, in proportion to some amounts: what
\* rounding leaves goes to the largest, and nothing can be shared out in
\* proportion to amounts that sum to nothing.
Allocated(amounts, charged) ==
    LET raw     == Sum(amounts)
        shares  == [k \in DOMAIN amounts |-> HalfUp(amounts[k] * charged, raw)]
        largest == Best({[at |-> k, key |-> <<amounts[k]>>] : k \in DOMAIN amounts}).at
    IN IF charged = None \/ raw = 0 THEN amounts
       ELSE [shares EXCEPT ![largest] = @ + charged - Sum(shares)]

\* receipt_total_charged, or order_total where that is missing or zero.
ChargedTotal(order) == IF order.charged \in {None, 0} THEN order.total ELSE order.charged

Amount(item) == IF item.total = None THEN 0 ELSE item.total

\* Receipt Category Report: what each item cost.
ItemShares(order) ==
    Allocated([k \in DOMAIN order.items |-> Amount(order.items[k])], ChargedTotal(order))

InCategory(items, category) == {k \in DOMAIN items : CategoryOf[items[k].product] = category}

\* Category Totals: what each category cost.
CategoryShares(order, categories) ==
    Allocated([c \in DOMAIN categories |->
                    MapThenSumSet(LAMBDA k : Amount(order.items[k]), InCategory(order.items, categories[c]))],
              ChargedTotal(order))
-----------------------------------------------------------------------------
(* Properties *)

\* Both sheets share out exactly what was charged ("each receipt totals exactly
\* to the amount charged"), and differ on a category by roundings only.
SheetsAgree(order, categories, items, shares) ==
    /\ ItemsTotal(order.items) # 0 /\ ChargedTotal(order) # None =>
            Sum(items) = ChargedTotal(order) /\ Sum(shares) = ChargedTotal(order)
    /\ \A c \in DOMAIN categories :
            Abs(MapThenSumSet(LAMBDA k : items[k], InCategory(order.items, categories[c])) - shares[c])
                <= Len(items) + Len(categories)

\* A line says how many were bought, what one costs and what all cost, in
\* agreement within 12 cents, those of a refund within a cent a piece; and a
\* refund is money back.
LineAddsUp(item) ==
    /\ ~item.measured /\ None \notin {item.quantity, item.unit}
          => /\ item.total # None
             /\ Abs(item.total - item.unit * item.quantity) <= (IF item.refunded THEN item.quantity ELSE 12)
    /\ item.refunded /\ item.total # None => item.total <= 0

\* Cleaning a line again changes no quantity, and an amount by what rounding
\* the price of a piece may lose.
CleansAlike(item, again) ==
    /\ again.quantity = item.quantity
    /\ item.total # None => Abs(again.total - item.total) <= Count(item, 1)

\* The lines of an order add up whatever order the cards and fragments render
\* in, however a quantity was found (printed, inferred, taken from a fragment
\* or from the text) and however often a line is cleaned: once per poll and
\* once more before it is stored. The reports share out exactly what was charged.
OrderLinesAddUp ==
    /\ stored # None => \A k \in DOMAIN stored.items : LineAddsUp(stored.items[k])
    /\ stored # None =>
          \E categories \in {SetToSeq({CategoryOf[i.product] : i \in ToSet(stored.items)})} :
             SheetsAgree(stored, categories, ItemShares(stored), CategoryShares(stored, categories))
    /\ \A again \in {CleanOrderItems(best)} :
          Len(again) = Len(best) /\ \A k \in DOMAIN best : CleansAlike(best[k], again[k])

=============================================================================

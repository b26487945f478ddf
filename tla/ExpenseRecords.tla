--------------------------- MODULE ExpenseRecords ---------------------------
(***************************************************************************)
(* Receipts, purchases and the people who correct them.                    *)
(*                                                                         *)
(* A receipt is a row of budget.receipt_evidence, a purchase a row of      *)
(* budget.expenses.  The importer (parallel_ingest.persist_evidence_first),*)
(* the store imports, the duplicate reviewer, the operator who merges two  *)
(* purchases, the one who deletes or restores a receipt and the one who    *)
(* corrects a date or the allocation of a purchase all write those rows.   *)
(* Each of them is one database transaction, and the advisory lock         *)
(* 'budget.receipt-duplicates' or a row lock keeps two of them apart: a    *)
(* transaction is one action.  What interleaves is the preview an operator *)
(* looks at and the transaction that applies it.                           *)
(*                                                                         *)
(* The purchase a scan books has the key scan:<sha256> of that scan, so it *)
(* is named after its receipt here; the purchases of store orders have a   *)
(* key of their own and no source_sha256.                                  *)
(***************************************************************************)
EXTENDS Integers, FiniteSets

CONSTANTS
    Receipts,       \* scanned or electronic documents, ordered by evidence id
    Orders,         \* Instacart orders, loaded from the order history
    StoreOrders,    \* Costco orders, booked from an electronic document
    Similar,        \* pairs the duplicate scorer finds worth a review
    Identical,      \* pairs it finds to be exact duplicates
    None,           \* SQL NULL
    MaxDecisions    \* bound: operator decisions and order reloads in a behaviour

ASSUME ReceiptsAssumption == Receipts \subseteq Nat /\ IsFiniteSet(Receipts)
ASSUME OrdersAssumption ==
    /\ IsFiniteSet(Orders) /\ IsFiniteSet(StoreOrders)
    /\ (Orders \cup StoreOrders) \intersect Receipts = {}
    /\ Orders \intersect StoreOrders = {}
ASSUME NoneAssumption == None \notin Receipts \cup Orders \cup StoreOrders
ASSUME DecisionsAssumption == MaxDecisions \in Nat

Purchases == Receipts \cup Orders \cup StoreOrders

Pairs == {p \in Receipts \X Receipts : p[1] < p[2]}

\* The pair of two receipts, stored with the smaller id on the left.
Pair(r, s) == IF r < s THEN <<r, s>> ELSE <<s, r>>

ASSUME SimilarAssumption == Identical \subseteq Similar /\ Similar \subseteq Pairs

VARIABLES
    known,       \* receipts that have an evidence row
    home,        \* home[r]: the purchase the evidence row points at, or None
    deleted,     \* receipts whose evidence carries receipt_deleted
    verified,    \* receipts whose date a person verified (receipt_ocr_feedback)
    booked,      \* purchases that have a row
    superseded,  \* superseded[x]: the canonical purchase of a merge, or None
    removed,     \* purchases that carry receipt_deleted
    dated,       \* purchases that carry receipt_date_correction
    date,        \* date[x]: "read" from the document or "verified"
    allocated,   \* purchases that carry item_allocation_correction
    reviewed,    \* purchases with an item a person categorised or described
    link,        \* link[p]: the stored duplicate decision on a pair
    preview,     \* the version of the records an operator is looking at
    decisions,   \* number of decisions and reloads (bound)
    strays       \* history: receipts a refresh took out of an order purchase

receiptVars == <<known, home, deleted, verified>>
purchaseVars == <<booked, superseded, removed, dated, date, allocated, reviewed>>
vars == <<receiptVars, purchaseVars, link, preview, decisions, strays>>

Statuses == {"none", "pending", "auto_linked", "confirmed", "rejected"}
NoPreview == [kind |-> "none"]

Init ==
    /\ known = {}
    /\ home = [r \in Receipts |-> None]
    /\ deleted = {}
    /\ verified = {}
    /\ booked = {}
    /\ superseded = [x \in Purchases |-> None]
    /\ removed = {}
    /\ dated = {}
    /\ date = [x \in Purchases |-> "read"]
    /\ allocated = {}
    /\ reviewed = {}
    /\ link = [p \in Pairs |-> "none"]
    /\ preview = NoPreview
    /\ decisions = 0
    /\ strays = {}

-----------------------------------------------------------------------------
(* What the queries select.                                                *)

\* The evidence of a purchase.
EvidenceOf(x) == {r \in known : home[r] = x}

\* Purchases the reports count: the filter of the analytics views and of
\* find_match.
Counted(x) == x \in booked /\ superseded[x] = None /\ x \notin removed

\* Documents capture_candidates may compare r with: the evidence is live, it
\* does not share r's purchase, and no person has decided on the pair.
Comparable(r) ==
    {s \in known \ {r} :
        /\ s \notin deleted
        /\ home[r] = None \/ home[s] # home[r]
        /\ link[Pair(r, s)] \in {"none", "pending"}}

\* Purchases find_match may choose for r.
Matchable(r) ==
    {x \in Purchases :
        /\ Counted(x)
        /\ \A s \in EvidenceOf(x) \ {r} : link[Pair(r, s)] # "rejected"}

-----------------------------------------------------------------------------
(* Writing the purchase of a receipt.                                      *)

\* upsert_receipt leaves the row alone when a person's work would be lost.
Protected(r) == r \in allocated \cup removed \/ superseded[r] # None

\* The purchase upsert_receipt returns for receipt r.
Saved(r) ==
    IF r \in booked /\ superseded[r] # None THEN superseded[r] ELSE r

\* upsert_receipt.  kept says whether every reviewed item of the stored
\* purchase is found again in the new reading; if not nothing is written.
\* A new row takes its date from the document, an existing one too unless the
\* date was corrected; items that are not found again go.
UpsertUndated(r, kept) ==
    /\ booked' = booked \cup {r}
    /\ date' = IF r \in booked /\ (Protected(r) \/ (r \in reviewed /\ ~kept))
               THEN date ELSE [date EXCEPT ![r] = "read"]
    /\ UNCHANGED <<superseded, removed, dated, allocated, reviewed>>
UpsertReceipt(r, kept) ==
    LET skip  == r \in booked /\ (Protected(r) \/ (r \in reviewed /\ ~kept))
        fresh == ~skip
    IN /\ booked' = booked \cup {r}
       /\ date' = IF fresh /\ r \notin dated
                  THEN [date EXCEPT ![r] = "read"] ELSE date
       /\ reviewed' = IF fresh /\ ~kept THEN reviewed \ {r} ELSE reviewed
       /\ UNCHANGED <<superseded, removed, dated, allocated>>

\* A receipt joins a purchase; the history of strays follows the link.
Attach(r, x) ==
    /\ home' = [home EXCEPT ![r] = x]
    /\ strays' = IF \E s \in strays \ {r} : home[s] = x
                 THEN strays \cup {r} ELSE strays \ {r}

-----------------------------------------------------------------------------
(* Imports.                                                                *)

\* persist_evidence_first on a receipt without a purchase.  capture_candidates
\* records every similar document; one identical document and one possible
\* purchase link the receipt by themselves.  Otherwise find_match may choose a
\* purchase, else the receipt books its own.  On a receipt that has a purchase
\* or was deleted the import refreshes evidence that is not modelled: the link,
\* the deletion and a verified date are kept, a step that changes nothing here.
ImportNew(r) ==
    /\ r \notin deleted
    /\ home[r] = None
    /\ LET near    == {s \in Comparable(r) : Pair(r, s) \in Similar}
           exact   == {s \in near : home[s] # None /\ Pair(r, s) \in Identical}
           targets == {home[s] : s \in near} \ {None}
           auto    == Cardinality(targets) = 1 /\ Cardinality(exact) = 1
       IN /\ link' = [p \in Pairs |->
                         IF auto /\ \E s \in exact : p = Pair(r, s) THEN "auto_linked"
                         ELSE IF \E s \in near : p = Pair(r, s) THEN "pending"
                         ELSE link[p]]
          /\ \/ /\ auto
                /\ \E x \in targets : Attach(r, x)
                /\ UNCHANGED purchaseVars
             \/ /\ ~auto
                /\ \E x \in Matchable(r) : Attach(r, x)
                /\ UNCHANGED purchaseVars
             \/ /\ ~auto
                /\ UpsertReceipt(r, TRUE)
                /\ Attach(r, Saved(r))
    /\ known' = known \cup {r}
    /\ UNCHANGED <<deleted, verified, preview, decisions>>

\* The same import with replace_existing, for an explicit reprocess request.
\* The test on source_sha256 is there to leave the purchase of another
\* document alone; a purchase without one passes it.
Refresh(r) ==
    /\ r \in known \ deleted
    /\ home[r] # None
    /\ home[r] \notin Receipts \ {r}
    /\ home[r] \notin allocated
    /\ \E kept \in {TRUE, r \notin reviewed} : UpsertReceipt(r, kept)
    /\ home' = [home EXCEPT ![r] = Saved(r)]
    /\ strays' = IF home[r] \notin Receipts THEN strays \cup {r} ELSE strays
    /\ UNCHANGED <<known, deleted, verified, link, preview, decisions>>

\* write_orders_to_postgres: an order replaces its row, raw_payload and items
\* included, whether it is loaded for the first time or again.
LoadOrder(o) ==
    /\ o \in booked => decisions < MaxDecisions
    /\ decisions' = IF o \in booked THEN decisions + 1 ELSE decisions
    /\ booked' = booked \cup {o}
    /\ superseded' = [superseded EXCEPT ![o] = None]
    /\ removed' = removed \ {o}
    /\ dated' = dated \ {o}
    /\ date' = [date EXCEPT ![o] = "read"]
    /\ allocated' = allocated \ {o}
    /\ reviewed' = reviewed \ {o}
    /\ UNCHANGED <<receiptVars, link, preview, strays>>

\* electronic.import_receipts: a store document whose order is not booked yet
\* is linked to the one scanned purchase with the same printed identity, or
\* books the order.
ImportElectronic(r, o) ==
    /\ r \notin known
    /\ o \notin booked
    /\ known' = known \cup {r}
    /\ \/ /\ \E x \in Receipts : x \in booked /\ EvidenceOf(x) # {} /\ Attach(r, x)
          /\ UNCHANGED booked
       \/ booked' = booked \cup {o} /\ Attach(r, o)
    /\ UNCHANGED <<deleted, verified, superseded, removed, dated, date,
                   allocated, reviewed, link, preview, decisions>>

-----------------------------------------------------------------------------
(* Deletion and restoration (receipt_deletion.change).                     *)

\* A purchase leaves the reports with its last live receipt, and comes back
\* with the first one.
SettleAlone(r, gone) ==
    removed' = IF home[r] = None THEN removed
               ELSE IF EvidenceOf(home[r]) = {r} /\ r \in gone
                    THEN removed \cup {home[r]}
                    ELSE removed \ {home[r]}
Settle(r, gone) ==
    removed' = IF home[r] = None THEN removed
               ELSE IF EvidenceOf(home[r]) \subseteq gone
                    THEN removed \cup {home[r]}
                    ELSE removed \ {home[r]}

\* A receipt that is catalogued but not imported yet gets an evidence row.
Delete(r) ==
    /\ r \notin deleted
    /\ decisions < MaxDecisions
    /\ known' = known \cup {r}
    /\ deleted' = deleted \cup {r}
    /\ Settle(r, deleted')
    /\ decisions' = decisions + 1
    /\ UNCHANGED <<home, verified, booked, superseded, dated, date, allocated,
                   reviewed, link, preview, strays>>

Restore(r) ==
    /\ r \in deleted
    /\ decisions < MaxDecisions
    /\ deleted' = deleted \ {r}
    /\ Settle(r, deleted')
    /\ decisions' = decisions + 1
    /\ UNCHANGED <<known, home, verified, booked, superseded, dated, date,
                   allocated, reviewed, link, preview, strays>>

-----------------------------------------------------------------------------
(* Decisions with a preview.  A preview is a hash of the rows the decision  *)
(* rests on; the transaction that applies it reads them again and refuses  *)
(* when they changed.                                                      *)

ReceiptRow(r) == <<home[r], r \in deleted, r \in verified>>
PurchaseRow(x) ==
    <<x \in booked, superseded[x], x \in removed, x \in dated, date[x],
      x \in allocated, x \in reviewed>>

\* expense_merge.load: both purchases, their evidence and its decisions.
MergeVersion(x, y) ==
    LET rows == EvidenceOf(x) \cup EvidenceOf(y)
    IN <<PurchaseRow(x), PurchaseRow(y), {<<r, ReceiptRow(r)>> : r \in rows},
         {<<p, link[p]>> : p \in Pairs \intersect (rows \X rows)}>>

\* duplicate_review.read_state: two evidence rows and their decision.
ReviewVersion(r, s) == <<ReceiptRow(r), ReceiptRow(s), link[Pair(r, s)]>>

\* date_correction._read: the evidence, its feedback and its purchase.
DateVersion(r) ==
    <<ReceiptRow(r), IF home[r] = None THEN <<>> ELSE PurchaseRow(home[r])>>

\* allocation_corrections._read: header fields and items, not raw_payload.
AllocationVersion(r) == <<home[r], date[home[r]], home[r] \in reviewed>>

\* expense_merge.validate, with the branch for a pair merged before: neither
\* purchase is superseded, both have evidence, and no pair between them was
\* rejected.
MergeableRejected(keeper, duplicate) ==
    /\ keeper # duplicate
    /\ {keeper, duplicate} \subseteq booked
    /\ superseded[keeper] = None /\ superseded[duplicate] = None
    /\ EvidenceOf(keeper) # {} /\ EvidenceOf(duplicate) # {}
Mergeable(keeper, duplicate) ==
    /\ keeper # duplicate
    /\ {keeper, duplicate} \subseteq booked
    /\ superseded[keeper] = None /\ superseded[duplicate] = None
    /\ EvidenceOf(keeper) # {} /\ EvidenceOf(duplicate) # {}
    /\ LET rows == EvidenceOf(keeper) \cup EvidenceOf(duplicate)
       IN \A p \in Pairs \intersect (rows \X rows) : link[p] # "rejected"

\* duplicate_review.resolve: one of the documents belongs to the chosen
\* purchase and neither belongs to another.
ConfirmableBooked(r, s, x) ==
    /\ link[Pair(r, s)] \in {"none", "pending"}
    /\ x \in {home[r], home[s]} \intersect booked
Confirmable(r, s, x) ==
    /\ link[Pair(r, s)] \in {"none", "pending"}
    /\ x \in {home[r], home[s]} \intersect booked
    /\ {home[r], home[s]} \subseteq {None, x}

\* A rejection cannot split a purchase two documents share.
Rejectable(r, s) ==
    /\ link[Pair(r, s)] \in {"none", "pending"}
    /\ home[r] = None \/ home[r] # home[s]

Preview ==
    /\ decisions < MaxDecisions
    /\ \/ \E x, y \in Purchases :
            /\ Mergeable(x, y)
            /\ preview' = [kind |-> "merge", keeper |-> x, duplicate |-> y,
                           version |-> MergeVersion(x, y)]
       \/ \E p \in Pairs, x \in Purchases :
            /\ p[1] \in known /\ p[2] \in known
            /\ Confirmable(p[1], p[2], x)
            /\ preview' = [kind |-> "confirm", pair |-> p, purchase |-> x,
                           version |-> ReviewVersion(p[1], p[2])]
       \/ \E p \in Pairs :
            /\ p[1] \in known /\ p[2] \in known
            /\ Rejectable(p[1], p[2])
            /\ preview' = [kind |-> "reject", pair |-> p,
                           version |-> ReviewVersion(p[1], p[2])]
       \/ \E r \in known :
            preview' = [kind |-> "date", receipt |-> r, version |-> DateVersion(r)]
       \/ \E r \in known :
            /\ home[r] # None
            /\ preview' = [kind |-> "allocation", receipt |-> r,
                           version |-> AllocationVersion(r)]
    /\ UNCHANGED <<receiptVars, purchaseVars, link, decisions, strays>>

\* Every application consumes its preview; a stale one is refused.
Apply(kind) ==
    /\ preview.kind = kind
    /\ preview' = NoPreview
    /\ decisions < MaxDecisions
    /\ decisions' = decisions + 1

\* The version check of the applying transaction.
Unchanged(version) == preview.version = version

\* expense_merge.merge with apply: the duplicate points at the keeper, its
\* evidence moves over, and every pair across the two is confirmed.
Merge ==
    /\ Apply("merge")
    /\ LET keeper == preview.keeper
           duplicate == preview.duplicate
       IN /\ Mergeable(keeper, duplicate)
          /\ Unchanged(MergeVersion(keeper, duplicate))
          /\ superseded' = [superseded EXCEPT ![duplicate] = keeper]
          /\ home' = [r \in Receipts |->
                         IF r \in EvidenceOf(duplicate) THEN keeper ELSE home[r]]
          /\ link' = [p \in Pairs |->
                         IF \/ p[1] \in EvidenceOf(keeper) /\ p[2] \in EvidenceOf(duplicate)
                            \/ p[2] \in EvidenceOf(keeper) /\ p[1] \in EvidenceOf(duplicate)
                         THEN "confirmed" ELSE link[p]]
          /\ strays' = IF (EvidenceOf(keeper) \cup EvidenceOf(duplicate))
                             \intersect strays = {}
                       THEN strays
                       ELSE strays \cup EvidenceOf(keeper) \cup EvidenceOf(duplicate)
    /\ UNCHANGED <<known, deleted, verified, booked, removed, dated, date,
                   allocated, reviewed>>

\* duplicate_review.resolve with apply, confirming: both documents support
\* the chosen purchase.
Confirm ==
    /\ Apply("confirm")
    /\ LET r == preview.pair[1]
           s == preview.pair[2]
       IN /\ Confirmable(r, s, preview.purchase)
          /\ Unchanged(ReviewVersion(r, s))
          /\ home' = [home EXCEPT ![r] = preview.purchase, ![s] = preview.purchase]
          /\ link' = [link EXCEPT ![preview.pair] = "confirmed"]
          /\ strays' = IF \E t \in strays : home[t] = preview.purchase
                       THEN strays \cup {r, s} ELSE strays
    /\ UNCHANGED <<known, deleted, verified, purchaseVars>>

\* duplicate_review.resolve with apply, rejecting.
Reject ==
    /\ Apply("reject")
    /\ LET r == preview.pair[1]
           s == preview.pair[2]
       IN /\ Rejectable(r, s)
          /\ Unchanged(ReviewVersion(r, s))
          /\ link' = [link EXCEPT ![preview.pair] = "rejected"]
    /\ UNCHANGED <<receiptVars, purchaseVars, strays>>

\* date_correction.correct with apply: the date of the evidence, and of the
\* purchase it points at.
CorrectDate ==
    /\ Apply("date")
    /\ Unchanged(DateVersion(preview.receipt))
    /\ verified' = verified \cup {preview.receipt}
    /\ LET x == home[preview.receipt]
       IN IF x = None THEN UNCHANGED <<dated, date>>
          ELSE /\ dated' = dated \cup {x}
               /\ date' = [date EXCEPT ![x] = "verified"]
    /\ UNCHANGED <<known, home, deleted, booked, superseded, removed,
                   allocated, reviewed, link, strays>>

\* allocation_corrections.correct: reviewed items stay (_protect_removed).
CorrectAllocation ==
    /\ Apply("allocation")
    /\ home[preview.receipt] # None
    /\ Unchanged(AllocationVersion(preview.receipt))
    /\ allocated' = allocated \cup {home[preview.receipt]}
    /\ UNCHANGED <<receiptVars, booked, superseded, removed, dated, date,
                   reviewed, link, strays>>

\* A person categorises or describes an item of a purchase.
ReviewItem(x) ==
    /\ x \in booked \ reviewed
    /\ decisions < MaxDecisions
    /\ reviewed' = reviewed \cup {x}
    /\ decisions' = decisions + 1
    /\ UNCHANGED <<receiptVars, booked, superseded, removed, dated, date,
                   allocated, link, preview, strays>>

Next ==
    \/ \E r \in Receipts :
         \/ ImportNew(r)
         \/ Refresh(r)
         \/ Delete(r)
         \/ Restore(r)
    \/ \E r \in Receipts, o \in StoreOrders : ImportElectronic(r, o)
    \/ \E o \in Orders : LoadOrder(o)
    \/ Preview
    \/ Merge
    \/ Confirm
    \/ Reject
    \/ CorrectDate
    \/ CorrectAllocation
    \/ \E x \in Purchases : ReviewItem(x)

Spec == Init /\ [][Next]_vars

-----------------------------------------------------------------------------
(* Properties.                                                             *)

TypeOK ==
    /\ known \subseteq Receipts
    /\ home \in [Receipts -> Purchases \cup {None}]
    /\ deleted \subseteq known
    /\ verified \subseteq known
    /\ booked \subseteq Purchases
    /\ superseded \in [Purchases -> Purchases \cup {None}]
    /\ removed \subseteq booked
    /\ dated \subseteq booked
    /\ date \in [Purchases -> {"read", "verified"}]
    /\ allocated \subseteq booked
    /\ reviewed \subseteq booked
    /\ link \in [Pairs -> Statuses]
    /\ decisions \in 0 .. MaxDecisions
    /\ strays \subseteq known

\* However merges, imports and reviews interleave, evidence points at a
\* purchase the ledger still stands by (the receipts a refresh took out of an
\* order's purchase excepted, see RefreshBooksNothing), and a purchase booked
\* from a scan stands only while its own scan points at it: no document counts
\* once through its own purchase and once through the one it was linked to.
EvidenceCountsOnce ==
    /\ \A r \in known \ strays :
          home[r] # None => home[r] \in booked /\ superseded[home[r]] = None
    /\ \A r \in Receipts :
          r \in booked /\ superseded[r] = None => r \in known /\ home[r] = r

\* A purchase leaves active accounting totals when all its supporting receipts
\* are deleted: a counted scanned purchase has a receipt that is not.
GoneWithLastReceipt ==
    \A r \in Receipts : Counted(r) => ~(EvidenceOf(r) \subseteq deleted)

\* What a person decided about a pair is never overwritten by an import, a
\* merge or another decision.
HumanDecisionStands ==
    [][\A p \in Pairs :
          link[p] \in {"confirmed", "rejected"} => link'[p] = link[p]]_vars

\* What a person did to a scanned purchase survives every later import: a
\* merge, a verified date, a corrected allocation, a reviewed item.
OperatorWorkStands ==
    [][\A r \in Receipts :
          /\ superseded[r] # None => superseded'[r] = superseded[r]
          /\ date[r] = "verified" => date'[r] = "verified"
          /\ r \in allocated => r \in allocated'
          /\ r \in reviewed => r \in reviewed']_vars

\* persist_evidence_first: "Refresh secondary evidence without replacing the
\* canonical purchase or creating another expense."  A receipt that supports
\* a purchase books no other.
RefreshBooksNothing ==
    [][\A r \in Receipts : r \in booked' \ booked => home[r] = None]_vars
=============================================================================

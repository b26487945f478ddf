------------------------ MODULE ExpenseRecords_proofs ------------------------
(***************************************************************************)
(* Theorems about receipts, purchases and the people who correct them, for *)
(* every set of receipts and orders, every similarity of documents and     *)
(* every number of decisions.                                              *)
(***************************************************************************)
EXTENDS ExpenseRecords, TLAPS

-----------------------------------------------------------------------------
(* The inductive invariant. Only a receipt with a row points at a purchase,*)
(* which is booked; a receipt whose own purchase is booked never loses its *)
(* link, so that an import never books that purchase again.                *)
HomesOK ==
  \A r \in Receipts :
     /\ home[r] # None => r \in known /\ home[r] \in booked
     /\ r \in booked => home[r] # None

MergesOK ==
  \A x \in Purchases : superseded[x] # None => x \in booked /\ superseded[x] \in booked

(* A date a person verified is marked, and imports read the mark.          *)
DatesOK == \A r \in Receipts : date[r] = "verified" => r \in dated

(* What an operator looks at are receipts with a row.                      *)
PreviewOK ==
  /\ preview.kind \in {"confirm", "reject"} =>
       preview.pair \in Pairs /\ preview.pair[1] \in known /\ preview.pair[2] \in known
  /\ preview.kind \in {"date", "allocation"} => preview.receipt \in known

(* The rows of receipts, the rows of purchases, and what is decided.       *)
ReceiptRowsOK ==
  /\ known \subseteq Receipts /\ home \in [Receipts -> Purchases \cup {None}]
  /\ deleted \subseteq known /\ verified \subseteq known /\ strays \subseteq known
  /\ HomesOK
PurchaseRowsOK ==
  /\ booked \subseteq Purchases /\ superseded \in [Purchases -> Purchases \cup {None}]
  /\ removed \subseteq booked /\ dated \subseteq booked
  /\ date \in [Purchases -> {"read", "verified"}]
  /\ allocated \subseteq booked /\ reviewed \subseteq booked
  /\ MergesOK /\ DatesOK
DecisionsOK ==
  link \in [Pairs -> Statuses] /\ decisions \in 0 .. MaxDecisions /\ PreviewOK

RecordsInv == ReceiptRowsOK /\ PurchaseRowsOK /\ DecisionsOK

(* A pair of receipts is stored under one name.                            *)
LEMMA PairStored ==
  /\ \A r, s \in Receipts : r # s => Pair(r, s) \in Pairs
  /\ \A p \in Pairs : p[1] \in Receipts /\ p[2] \in Receipts /\ Pair(p[1], p[2]) = p
BY ReceiptsAssumption DEF Pair, Pairs

LEMMA PurchasesNamed ==
  None \notin Purchases /\ Receipts \subseteq Purchases
BY NoneAssumption DEF Purchases

(* upsert_receipt books the purchase it returns.                           *)
LEMMA Upserted ==
  ASSUME PurchaseRowsOK, NEW r \in Receipts, NEW kept, UpsertReceipt(r, kept)
  PROVE  /\ PurchaseRowsOK'
         /\ Saved(r) \in booked' /\ Saved(r) \in Purchases
         /\ booked' = booked \cup {r}
BY PurchasesNamed DEF PurchaseRowsOK, UpsertReceipt, Saved, Protected, MergesOK, DatesOK

(* A receipt that joins a booked purchase.                                 *)
LEMMA Attached ==
  ASSUME ReceiptRowsOK, NEW r \in Receipts, NEW x \in booked', x \in Purchases,
         Attach(r, x), known' = known \cup {r},
         UNCHANGED <<deleted, verified>>,
         booked \subseteq booked', (booked' \ booked) \intersect Receipts \subseteq {r}
  PROVE  ReceiptRowsOK'
BY PurchasesNamed DEF ReceiptRowsOK, HomesOK, Attach

LEMMA RecordsInit == Init => RecordsInv
BY PurchasesNamed, DecisionsAssumption
   DEF Init, RecordsInv, ReceiptRowsOK, PurchaseRowsOK, DecisionsOK, HomesOK, MergesOK, DatesOK, PreviewOK, NoPreview, Statuses

(* A step of Apply is counted within the bound.                            *)
LEMMA Applied ==
  ASSUME DecisionsOK, decisions < MaxDecisions, decisions' = decisions + 1
  PROVE  decisions' \in 0 .. MaxDecisions
BY DecisionsAssumption DEF DecisionsOK

-----------------------------------------------------------------------------
(* Each action keeps the rows it writes.                                   *)

LEMMA ImportNewKeeps ==
  ASSUME RecordsInv, NEW r \in Receipts, ImportNew(r)
  PROVE  RecordsInv'
<1> USE DEF RecordsInv
<1>1. DecisionsOK'
  <2>1. link' \in [Pairs -> Statuses]
    BY DEF ImportNew, DecisionsOK, Statuses
  <2> QED BY <2>1 DEF ImportNew, DecisionsOK, PreviewOK
<1>2. UNCHANGED <<deleted, verified>> /\ known' = known \cup {r}
  BY DEF ImportNew
<1>3. CASE UNCHANGED purchaseVars /\ \E x \in Purchases : x \in booked /\ Attach(r, x)
  <2>1. PurchaseRowsOK'
    BY <1>3 DEF PurchaseRowsOK, MergesOK, DatesOK, purchaseVars
  <2>2. booked' = booked
    BY <1>3 DEF purchaseVars
  <2> QED BY <1>1, <1>2, <1>3, <2>1, <2>2, Attached
<1>4. CASE UpsertReceipt(r, TRUE) /\ Attach(r, Saved(r))
  BY <1>1, <1>2, <1>4, Upserted, Attached
<1>5. \/ (\E x \in Purchases : x \in booked /\ Attach(r, x)) /\ UNCHANGED purchaseVars
      \/ UpsertReceipt(r, TRUE) /\ Attach(r, Saved(r))
  <2>1. \A s \in known : home[s] # None => home[s] \in Purchases /\ home[s] \in booked
    BY DEF ReceiptRowsOK, HomesOK
  <2>2. Comparable(r) \subseteq known
    BY DEF Comparable
  <2>3. \A x \in Matchable(r) : x \in Purchases /\ x \in booked
    BY DEF Matchable, Counted
  <2> QED BY <2>1, <2>2, <2>3 DEF ImportNew
<1> QED BY <1>3, <1>4, <1>5

LEMMA RefreshKeeps ==
  ASSUME RecordsInv, NEW r \in Receipts, Refresh(r)
  PROVE  RecordsInv'
<1> USE DEF RecordsInv
<1>1. PurchaseRowsOK' /\ Saved(r) \in booked' /\ Saved(r) \in Purchases
      /\ booked' = booked \cup {r}
  BY Upserted DEF Refresh
<1>2. ReceiptRowsOK'
  BY <1>1, PurchasesNamed DEF Refresh, ReceiptRowsOK, HomesOK
<1>3. DecisionsOK'
  BY DEF Refresh, DecisionsOK, PreviewOK
<1> QED BY <1>1, <1>2, <1>3

LEMMA LoadOrderKeeps ==
  ASSUME RecordsInv, NEW o \in Orders, LoadOrder(o)
  PROVE  RecordsInv'
<1> USE DEF RecordsInv
<1>1. o \in Purchases /\ o \notin Receipts
  BY OrdersAssumption DEF Purchases
<1>2. PurchaseRowsOK'
  BY <1>1, PurchasesNamed DEF LoadOrder, PurchaseRowsOK, MergesOK, DatesOK
<1>3. ReceiptRowsOK'
  BY <1>1 DEF LoadOrder, ReceiptRowsOK, HomesOK, receiptVars
<1>4. DecisionsOK'
  BY Applied DEF LoadOrder, DecisionsOK, PreviewOK, receiptVars
<1> QED BY <1>2, <1>3, <1>4

LEMMA ImportElectronicKeeps ==
  ASSUME RecordsInv, NEW r \in Receipts, NEW o \in StoreOrders, ImportElectronic(r, o)
  PROVE  RecordsInv'
<1> USE DEF RecordsInv
<1>1. o \in Purchases /\ o \notin Receipts
  BY OrdersAssumption DEF Purchases
<1>2. PurchaseRowsOK'
  BY <1>1 DEF ImportElectronic, PurchaseRowsOK, MergesOK, DatesOK
<1>3. PICK x \in Purchases : x \in booked' /\ Attach(r, x)
  BY <1>1, PurchasesNamed DEF ImportElectronic
<1>4. ReceiptRowsOK'
  BY <1>1, <1>3, Attached DEF ImportElectronic
<1>5. DecisionsOK'
  BY DEF ImportElectronic, DecisionsOK, PreviewOK
<1> QED BY <1>2, <1>4, <1>5

LEMMA DeleteKeeps ==
  ASSUME RecordsInv, NEW r \in Receipts, Delete(r) \/ Restore(r)
  PROVE  RecordsInv'
<1> USE DEF RecordsInv
<1>1. ReceiptRowsOK'
  BY DEF Delete, Restore, ReceiptRowsOK, HomesOK
<1>2. removed' \subseteq booked
  BY PurchasesNamed DEF Delete, Restore, Settle, ReceiptRowsOK, HomesOK, PurchaseRowsOK
<1>3. PurchaseRowsOK'
  BY <1>2 DEF Delete, Restore, PurchaseRowsOK, MergesOK, DatesOK
<1>4. DecisionsOK'
  BY Applied DEF Delete, Restore, DecisionsOK, PreviewOK
<1> QED BY <1>1, <1>3, <1>4

LEMMA PreviewKeeps ==
  ASSUME RecordsInv, Preview
  PROVE  RecordsInv'
<1> USE DEF RecordsInv
<1>1. ReceiptRowsOK'
  BY DEF Preview, ReceiptRowsOK, HomesOK, receiptVars, purchaseVars
<1>2. PurchaseRowsOK'
  BY DEF Preview, PurchaseRowsOK, MergesOK, DatesOK, purchaseVars
<1>3. PreviewOK'
  <2>1. UNCHANGED known
    BY DEF Preview, receiptVars
  <2> QED BY <2>1 DEF Preview, PreviewOK
<1>4. DecisionsOK'
  BY <1>3 DEF Preview, DecisionsOK
<1> QED BY <1>1, <1>2, <1>4

LEMMA MergeKeeps ==
  ASSUME RecordsInv, Merge
  PROVE  RecordsInv'
<1> USE DEF RecordsInv
<1> DEFINE keeper == preview.keeper
           duplicate == preview.duplicate
<1>1. /\ keeper # duplicate /\ keeper \in booked /\ duplicate \in booked
      /\ keeper \in Purchases /\ duplicate \in Purchases
  BY DEF Merge, Mergeable, PurchaseRowsOK
<1>2. /\ superseded' = [superseded EXCEPT ![duplicate] = keeper]
      /\ home' = [r \in Receipts |-> IF r \in EvidenceOf(duplicate) THEN keeper ELSE home[r]]
      /\ UNCHANGED <<known, deleted, verified, booked, removed, dated, date,
                     allocated, reviewed>>
      /\ preview' = NoPreview
  BY DEF Merge, Apply
<1>3. strays' \subseteq known
  BY DEF Merge, EvidenceOf, ReceiptRowsOK
<1>4. link' \in [Pairs -> Statuses] /\ decisions' \in 0 .. MaxDecisions
  BY Applied DEF Merge, Apply, DecisionsOK, Statuses
<1> HIDE DEF keeper, duplicate
<1>5. ReceiptRowsOK'
  BY <1>1, <1>2, <1>3, PurchasesNamed DEF ReceiptRowsOK, HomesOK, EvidenceOf
<1>6. PurchaseRowsOK'
  BY <1>1, <1>2, PurchasesNamed DEF PurchaseRowsOK, MergesOK, DatesOK
<1>7. DecisionsOK'
  BY <1>2, <1>4 DEF DecisionsOK, PreviewOK, NoPreview
<1> QED BY <1>5, <1>6, <1>7

LEMMA ConfirmKeeps ==
  ASSUME RecordsInv, Confirm
  PROVE  RecordsInv'
<1> USE DEF RecordsInv
<1>1. PICK r \in Receipts, s \in Receipts, x \in Purchases :
         /\ r \in known /\ s \in known /\ x \in booked
         /\ home' = [home EXCEPT ![r] = x, ![s] = x]
         /\ strays' \subseteq strays \cup {r, s}
  <2>1. preview.pair \in Pairs /\ preview.pair[1] \in known /\ preview.pair[2] \in known
    BY DEF Confirm, Apply, DecisionsOK, PreviewOK
  <2>2. preview.purchase \in booked /\ preview.purchase \in Purchases
    BY DEF Confirm, Confirmable, PurchaseRowsOK
  <2>3. /\ home' = [home EXCEPT ![preview.pair[1]] = preview.purchase,
                               ![preview.pair[2]] = preview.purchase]
        /\ strays' \subseteq strays \cup {preview.pair[1], preview.pair[2]}
    BY DEF Confirm
  <2> QED BY <2>1, <2>2, <2>3, PairStored
<1>2. /\ UNCHANGED <<known, deleted, verified, purchaseVars>>
      /\ preview' = NoPreview
  BY DEF Confirm, Apply
<1>3. link' \in [Pairs -> Statuses] /\ decisions' \in 0 .. MaxDecisions
  BY Applied DEF Confirm, Apply, DecisionsOK, Statuses
<1>4. ReceiptRowsOK'
  BY <1>1, <1>2, PurchasesNamed DEF ReceiptRowsOK, HomesOK, purchaseVars
<1>5. PurchaseRowsOK'
  BY <1>2 DEF PurchaseRowsOK, MergesOK, DatesOK, purchaseVars
<1>6. DecisionsOK'
  BY <1>2, <1>3 DEF DecisionsOK, PreviewOK, NoPreview
<1> QED BY <1>4, <1>5, <1>6

LEMMA RejectKeeps ==
  ASSUME RecordsInv, Reject
  PROVE  RecordsInv'
<1> USE DEF RecordsInv
<1>1. link' \in [Pairs -> Statuses] /\ decisions' \in 0 .. MaxDecisions
  BY Applied DEF Reject, Apply, DecisionsOK, Statuses
<1>2. ReceiptRowsOK' /\ PurchaseRowsOK'
  BY DEF Reject, ReceiptRowsOK, HomesOK, PurchaseRowsOK, MergesOK, DatesOK,
         receiptVars, purchaseVars
<1>3. DecisionsOK'
  BY <1>1 DEF Reject, Apply, DecisionsOK, PreviewOK, NoPreview
<1> QED BY <1>2, <1>3

LEMMA CorrectionKeeps ==
  ASSUME RecordsInv, CorrectDate \/ CorrectAllocation
  PROVE  RecordsInv'
<1> USE DEF RecordsInv
<1>1. preview.receipt \in known /\ preview.receipt \in Receipts
  BY DEF CorrectDate, CorrectAllocation, Apply, DecisionsOK, PreviewOK, ReceiptRowsOK
<1>2. decisions' \in 0 .. MaxDecisions
  BY Applied DEF CorrectDate, CorrectAllocation, Apply
<1>3. ReceiptRowsOK'
  BY <1>1 DEF CorrectDate, CorrectAllocation, ReceiptRowsOK, HomesOK, receiptVars
<1>4. home[preview.receipt] # None => home[preview.receipt] \in booked
  BY <1>1 DEF ReceiptRowsOK, HomesOK
<1>5. PurchaseRowsOK'
  <2>1. CASE CorrectDate
    <3> DEFINE x == home[preview.receipt]
    <3>1. \/ UNCHANGED <<dated, date>>
          \/ x # None /\ dated' = dated \cup {x} /\ date' = [date EXCEPT ![x] = "verified"]
      BY <2>1 DEF CorrectDate
    <3>2. UNCHANGED <<booked, superseded, removed, allocated, reviewed>>
      BY <2>1 DEF CorrectDate
    <3>3. x # None => x \in booked
      BY <1>4
    <3> HIDE DEF x
    <3> QED BY <3>1, <3>2, <3>3, PurchasesNamed DEF PurchaseRowsOK, MergesOK, DatesOK
  <2>2. CASE CorrectAllocation
    BY <1>1, <1>4, <2>2 DEF CorrectAllocation, PurchaseRowsOK, MergesOK, DatesOK
  <2> QED BY <2>1, <2>2
<1>6. DecisionsOK'
  BY <1>2 DEF CorrectDate, CorrectAllocation, Apply, DecisionsOK, PreviewOK, NoPreview
<1> QED BY <1>3, <1>5, <1>6

LEMMA ReviewItemKeeps ==
  ASSUME RecordsInv, NEW x \in Purchases, ReviewItem(x)
  PROVE  RecordsInv'
<1> USE DEF RecordsInv
<1>1. ReceiptRowsOK' /\ PurchaseRowsOK'
  BY DEF ReviewItem, ReceiptRowsOK, HomesOK, PurchaseRowsOK, MergesOK, DatesOK, receiptVars
<1>2. DecisionsOK'
  BY Applied DEF ReviewItem, DecisionsOK, PreviewOK, receiptVars
<1> QED BY <1>1, <1>2

LEMMA RecordsStep == RecordsInv /\ [Next]_vars => RecordsInv'
<1> SUFFICES ASSUME RecordsInv, [Next]_vars
             PROVE  RecordsInv'
  OBVIOUS
<1>1. CASE UNCHANGED vars
  BY <1>1 DEF RecordsInv, ReceiptRowsOK, HomesOK, PurchaseRowsOK, MergesOK, DatesOK,
              DecisionsOK, PreviewOK, vars, receiptVars, purchaseVars
<1>2. CASE Next
  BY <1>2, ImportNewKeeps, RefreshKeeps, LoadOrderKeeps, ImportElectronicKeeps, DeleteKeeps,
     PreviewKeeps, MergeKeeps, ConfirmKeeps, RejectKeeps, CorrectionKeeps, ReviewItemKeeps
     DEF Next
<1> QED BY <1>1, <1>2

LEMMA RecordsAlways == Spec => []RecordsInv
BY RecordsInit, RecordsStep, PTL DEF Spec

(* Rows that are read, deleted, merged or corrected are rows there are:    *)
(* type correctness for every set of documents.                            *)
THEOREM RecordsTypeCorrect == Spec => []TypeOK
<1>1. RecordsInv => TypeOK
  BY DEF RecordsInv, ReceiptRowsOK, PurchaseRowsOK, DecisionsOK, TypeOK
<1> QED BY <1>1, RecordsAlways, PTL

-----------------------------------------------------------------------------
(* A document counts once.                                                 *)

StandsBy(r) == home[r] # None => home[r] \in booked /\ superseded[home[r]] = None
OwnStands(r) == r \in booked /\ superseded[r] = None => r \in known /\ home[r] = r

(* A receipt without a purchase joins one that stands, or one that already *)
(* has a stray; or it books its own.                                       *)
LEMMA JoinCountsOnce ==
  ASSUME RecordsInv, EvidenceCountsOnce, NEW r \in Receipts, NEW x \in Purchases, home[r] = None,
         Attach(r, x), known' = known \cup {r}, UNCHANGED superseded,
         booked' = booked \cup {x}, x \in Receipts => x \in booked,
         superseded[x] # None => \E s \in strays \ {r} : home[s] = x
  PROVE  EvidenceCountsOnce'
BY PurchasesNamed
   DEF EvidenceCountsOnce, Attach, RecordsInv, ReceiptRowsOK, HomesOK, PurchaseRowsOK

LEMMA OwnCountsOnce ==
  ASSUME RecordsInv, EvidenceCountsOnce, NEW r \in Receipts, home[r] = None,
         Attach(r, r), known' = known \cup {r}, UNCHANGED superseded,
         booked' = booked \cup {r}
  PROVE  EvidenceCountsOnce'
BY PurchasesNamed
   DEF EvidenceCountsOnce, Attach, RecordsInv, ReceiptRowsOK, HomesOK, PurchaseRowsOK, MergesOK

LEMMA ImportNewCountsOnce ==
  ASSUME RecordsInv, EvidenceCountsOnce, NEW r \in Receipts, ImportNew(r)
  PROVE  EvidenceCountsOnce'
<1>1. home[r] = None /\ known' = known \cup {r} /\ UNCHANGED superseded /\ r \notin booked
  BY DEF ImportNew, purchaseVars, UpsertReceipt, RecordsInv, ReceiptRowsOK, HomesOK
<1>2. \/ \E s \in known \ {r} : home[s] # None /\ Attach(r, home[s]) /\ UNCHANGED booked
      \/ \E x \in Matchable(r) : Attach(r, x) /\ UNCHANGED booked
      \/ Attach(r, r) /\ booked' = booked \cup {r}
  <2>1. Comparable(r) \subseteq known \ {r}
    BY DEF Comparable
  <2>2. Saved(r) = r
    BY <1>1 DEF Saved
  <2> QED BY <2>1, <2>2 DEF ImportNew, purchaseVars, UpsertReceipt
<1>3. CASE Attach(r, r) /\ booked' = booked \cup {r}
  BY <1>1, <1>3, OwnCountsOnce
<1>4. ASSUME NEW s \in known \ {r}, home[s] # None, Attach(r, home[s]), UNCHANGED booked
      PROVE  EvidenceCountsOnce'
  <2>1. home[s] \in Purchases /\ home[s] \in booked
    BY <1>4 DEF RecordsInv, ReceiptRowsOK, HomesOK
  <2>2. superseded[home[s]] # None => s \in strays
    BY <1>4 DEF EvidenceCountsOnce
  <2> QED BY <1>1, <1>4, <2>1, <2>2, JoinCountsOnce
<1>5. ASSUME NEW x \in Matchable(r), Attach(r, x), UNCHANGED booked
      PROVE  EvidenceCountsOnce'
  <2>1. x \in Purchases /\ x \in booked /\ superseded[x] = None
    BY DEF Matchable, Counted
  <2> QED BY <1>1, <1>5, <2>1, JoinCountsOnce
<1> QED BY <1>2, <1>3, <1>4, <1>5

LEMMA RefreshCountsOnce ==
  ASSUME RecordsInv, EvidenceCountsOnce, NEW r \in Receipts, Refresh(r)
  PROVE  EvidenceCountsOnce'
<1>1. /\ booked' = booked \cup {r} /\ UNCHANGED <<superseded, known>>
      /\ home' = [home EXCEPT ![r] = Saved(r)]
      /\ \/ home[r] = r /\ UNCHANGED strays
         \/ home[r] \notin Receipts /\ strays' = strays \cup {r}
  BY PurchasesNamed DEF Refresh, UpsertReceipt, RecordsInv, ReceiptRowsOK
<1>2. superseded[r] = None => Saved(r) = r
  BY DEF Saved
<1>3. r \notin strays /\ home[r] = r => superseded[r] = None
  BY PurchasesNamed DEF Refresh, EvidenceCountsOnce
<1>4. r \notin strays' => home[r] = r /\ superseded[r] = None /\ Saved(r) = r
  BY <1>1, <1>2, <1>3
<1>5. \A s \in known' \ strays' : StandsBy(s)'
  BY <1>1, <1>4, PurchasesNamed
     DEF StandsBy, EvidenceCountsOnce, RecordsInv, ReceiptRowsOK, PurchaseRowsOK
<1>6. \A s \in Receipts : OwnStands(s)'
  BY <1>1, <1>2 DEF OwnStands, EvidenceCountsOnce, RecordsInv, ReceiptRowsOK, Refresh
<1> QED BY <1>5, <1>6 DEF EvidenceCountsOnce, StandsBy, OwnStands

LEMMA LoadOrderCountsOnce ==
  ASSUME RecordsInv, EvidenceCountsOnce, NEW o \in Orders, LoadOrder(o)
  PROVE  EvidenceCountsOnce'
<1>1. o \in Purchases /\ o \notin Receipts
  BY OrdersAssumption DEF Purchases
<1> QED BY <1>1, PurchasesNamed
       DEF LoadOrder, EvidenceCountsOnce, RecordsInv, ReceiptRowsOK, PurchaseRowsOK, receiptVars

LEMMA ImportElectronicCountsOnce ==
  ASSUME RecordsInv, EvidenceCountsOnce, NEW r \in Receipts, NEW o \in StoreOrders,
         ImportElectronic(r, o)
  PROVE  EvidenceCountsOnce'
<1>1. o \in Purchases /\ o \notin Receipts /\ superseded[o] = None
  BY OrdersAssumption DEF Purchases, ImportElectronic, RecordsInv, PurchaseRowsOK, MergesOK
<1>2. home[r] = None /\ known' = known \cup {r} /\ UNCHANGED superseded
  BY DEF ImportElectronic, RecordsInv, ReceiptRowsOK, HomesOK
<1>3. CASE booked' = booked \cup {o} /\ Attach(r, o)
  BY <1>1, <1>2, <1>3, JoinCountsOnce
<1>4. ASSUME NEW x \in Receipts, x \in booked, EvidenceOf(x) # {}, Attach(r, x), UNCHANGED booked
      PROVE  EvidenceCountsOnce'
  <2>1. PICK s \in known : home[s] = x
    BY <1>4 DEF EvidenceOf
  <2>2. s # r
    BY DEF ImportElectronic
  <2>3. superseded[x] # None => s \in strays
    BY <2>1, <1>4, PurchasesNamed DEF EvidenceCountsOnce
  <2>4. x \in Purchases /\ booked' = booked \cup {x}
    BY <1>4, PurchasesNamed
  <2> QED BY <1>2, <1>4, <2>1, <2>2, <2>3, <2>4, JoinCountsOnce
<1> QED BY <1>3, <1>4 DEF ImportElectronic

LEMMA MergeCountsOnce ==
  ASSUME RecordsInv, EvidenceCountsOnce, Merge
  PROVE  EvidenceCountsOnce'
<1> DEFINE keeper == preview.keeper
           duplicate == preview.duplicate
<1>1. /\ keeper # duplicate /\ keeper \in booked /\ keeper \in Purchases
      /\ duplicate \in Purchases /\ superseded[keeper] = None
  BY DEF Merge, Mergeable, RecordsInv, PurchaseRowsOK
<1>2. /\ superseded' = [superseded EXCEPT ![duplicate] = keeper]
      /\ home' = [r \in Receipts |-> IF r \in EvidenceOf(duplicate) THEN keeper ELSE home[r]]
      /\ UNCHANGED <<known, booked>> /\ strays \subseteq strays'
  BY DEF Merge
<1> HIDE DEF keeper, duplicate
<1>3. \A r \in known' \ strays' : StandsBy(r)'
  BY <1>1, <1>2, PurchasesNamed
     DEF StandsBy, EvidenceCountsOnce, EvidenceOf, RecordsInv, ReceiptRowsOK, PurchaseRowsOK
<1>4. \A r \in Receipts : OwnStands(r)'
  BY <1>1, <1>2, PurchasesNamed
     DEF OwnStands, EvidenceCountsOnce, EvidenceOf, RecordsInv, ReceiptRowsOK, PurchaseRowsOK
<1> QED BY <1>3, <1>4 DEF EvidenceCountsOnce, StandsBy, OwnStands

LEMMA ConfirmCountsOnce ==
  ASSUME RecordsInv, EvidenceCountsOnce, Confirm
  PROVE  EvidenceCountsOnce'
<1> DEFINE r == preview.pair[1]
           s == preview.pair[2]
           x == preview.purchase
<1>1. /\ r \in Receipts /\ s \in Receipts /\ x \in Purchases
      /\ x \in booked /\ x \in {home[r], home[s]} /\ {home[r], home[s]} \subseteq {None, x}
      /\ home' = [home EXCEPT ![r] = x, ![s] = x]
      /\ \/ (\E t \in strays : home[t] = x) /\ strays' = strays \cup {r, s}
         \/ (\A t \in strays : home[t] # x) /\ strays' = strays
  <2>1. preview.pair \in Pairs
    BY DEF Confirm, Apply, RecordsInv, DecisionsOK, PreviewOK
  <2>2. Confirmable(r, s, x)
    BY DEF Confirm
  <2>3. home' = [home EXCEPT ![r] = x, ![s] = x]
    BY DEF Confirm
  <2>4. \/ (\E t \in strays : home[t] = x) /\ strays' = strays \cup {r, s}
        \/ (\A t \in strays : home[t] # x) /\ strays' = strays
    BY DEF Confirm
  <2> QED BY <2>1, <2>2, <2>3, <2>4, PairStored DEF Confirmable, RecordsInv, PurchaseRowsOK
<1> HIDE DEF r, s, x
<1>2. UNCHANGED <<known, booked, superseded>>
  BY DEF Confirm, purchaseVars
<1>3. r \notin strays' \/ s \notin strays' => superseded[x] = None
  BY <1>1, PurchasesNamed DEF EvidenceCountsOnce, RecordsInv, ReceiptRowsOK, HomesOK
<1>4. \A t \in known' \ strays' : StandsBy(t)'
  BY <1>1, <1>2, <1>3 DEF StandsBy, EvidenceCountsOnce, RecordsInv, ReceiptRowsOK
<1>5. \A t \in Receipts : OwnStands(t)'
  BY <1>1, <1>2, PurchasesNamed DEF OwnStands, EvidenceCountsOnce, RecordsInv, ReceiptRowsOK
<1> QED BY <1>4, <1>5 DEF EvidenceCountsOnce, StandsBy, OwnStands

(* What moves no receipt, books nothing and merges nothing.                *)
LEMMA OthersCountOnce ==
  ASSUME RecordsInv, EvidenceCountsOnce,
         UNCHANGED <<home, booked, superseded, strays>>,
         known \subseteq known', known' \subseteq Receipts
  PROVE  EvidenceCountsOnce'
BY DEF EvidenceCountsOnce, RecordsInv, ReceiptRowsOK, HomesOK

(* Evidence always points at a purchase the ledger stands by, and a scan   *)
(* whose purchase stands points at that purchase: however merges, imports, *)
(* reviews, refreshes and deletions interleave, no document counts twice.  *)
THEOREM CountsOnce == Spec => []EvidenceCountsOnce
<1>1. Init => EvidenceCountsOnce
  BY DEF Init, EvidenceCountsOnce
<1>2. RecordsInv /\ RecordsInv' /\ EvidenceCountsOnce /\ [Next]_vars => EvidenceCountsOnce'
  <2> SUFFICES ASSUME RecordsInv, RecordsInv', EvidenceCountsOnce, [Next]_vars
               PROVE  EvidenceCountsOnce'
    OBVIOUS
  <2> DEFINE rests == \/ UNCHANGED vars \/ Preview \/ Reject \/ CorrectDate \/ CorrectAllocation
                      \/ \E r \in Receipts : Delete(r) \/ Restore(r)
                      \/ \E x \in Purchases : ReviewItem(x)
  <2>1. CASE rests
    <3>1. UNCHANGED <<home, booked, superseded, strays>> /\ known \subseteq known'
      BY <2>1 DEF Preview, Reject, CorrectDate, CorrectAllocation, Delete, Restore, ReviewItem,
                  vars, receiptVars, purchaseVars
    <3>2. known' \subseteq Receipts
      BY DEF RecordsInv, ReceiptRowsOK
    <3> QED BY <3>1, <3>2, OthersCountOnce
  <2>2. CASE ~rests
    BY <2>2, ImportNewCountsOnce, RefreshCountsOnce, LoadOrderCountsOnce,
       ImportElectronicCountsOnce, MergeCountsOnce, ConfirmCountsOnce
       DEF Next
  <2> QED BY <2>1, <2>2
<1> QED BY <1>1, <1>2, RecordsAlways, PTL DEF Spec

-----------------------------------------------------------------------------
(* Deleted receipts.                                                       *)

(* A purchase that is counted keeps a live receipt that does not leave it. *)
LEMMA ImportsLeaveLive ==
  ASSUME RecordsInv, EvidenceCountsOnce, GoneWithLastReceipt, NEW r \in Receipts,
         ImportNew(r) \/ Refresh(r) \/ \E o \in StoreOrders : ImportElectronic(r, o)
  PROVE  GoneWithLastReceipt'
<1> USE DEF RecordsInv
<1>1. /\ UNCHANGED <<deleted, superseded, removed>> /\ r \notin deleted
      /\ known \subseteq known' /\ r \in known'
      /\ \A s \in Receipts : s # r => home'[s] = home[s]
  BY DEF ImportNew, Refresh, ImportElectronic, Attach, UpsertReceipt, purchaseVars,
         ReceiptRowsOK
<1>2. \A x \in Receipts : x # r => (x \in booked' => x \in booked)
  BY OrdersAssumption DEF ImportNew, Refresh, ImportElectronic, UpsertReceipt, purchaseVars
<1>3. home[r] # None => home[r] = r \/ home[r] \notin Receipts
  BY PurchasesNamed DEF ImportNew, Refresh, ImportElectronic, ReceiptRowsOK, HomesOK
<1>4. r \in booked' /\ superseded[r] = None => home'[r] = r
  BY OrdersAssumption, PurchasesNamed
     DEF ImportNew, Refresh, ImportElectronic, Attach, UpsertReceipt, Saved, purchaseVars,
         ReceiptRowsOK, HomesOK, PurchaseRowsOK, MergesOK, EvidenceCountsOnce
<1>5. ASSUME NEW x \in Receipts, Counted(x)'
      PROVE  \E s \in known' \ deleted' : home'[s] = x
  <2>1. CASE x = r
    BY <1>1, <1>4, <1>5, <2>1 DEF Counted
  <2>2. CASE x # r
    <3>1. Counted(x)
      BY <1>1, <1>2, <1>5, <2>2 DEF Counted
    <3>2. PICK s \in known \ deleted : home[s] = x
      BY <3>1 DEF GoneWithLastReceipt, EvidenceOf
    <3>3. s # r /\ s \in Receipts
      BY <1>3, <2>2, <3>2, PurchasesNamed DEF ReceiptRowsOK
    <3> QED BY <1>1, <3>2, <3>3
  <2> QED BY <2>1, <2>2
<1> QED BY <1>5 DEF GoneWithLastReceipt, EvidenceOf

(* The last live receipt takes its purchase out, the first brings it back. *)
LEMMA DeletionSettles ==
  ASSUME RecordsInv, GoneWithLastReceipt, NEW r \in Receipts, Delete(r) \/ Restore(r)
  PROVE  GoneWithLastReceipt'
<1>1. /\ UNCHANGED <<home, booked, superseded>>
      /\ known' = known \cup {r}
      /\ deleted' = deleted \cup {r} \/ deleted' = deleted \ {r}
      /\ Settle(r, deleted')
  BY DEF Delete, Restore, RecordsInv, ReceiptRowsOK
<1>2. r \in known \/ home[r] = None
  BY DEF RecordsInv, ReceiptRowsOK, HomesOK
<1>3. ASSUME NEW x \in Receipts, Counted(x)'
      PROVE  \E s \in known' \ deleted' : home'[s] = x
  <2>1. CASE home[r] = x
    <3>1. ~(EvidenceOf(x) \subseteq deleted')
      BY <1>1, <1>3, <2>1, PurchasesNamed DEF Settle, Counted
    <3> QED BY <1>1, <3>1 DEF EvidenceOf
  <2>2. CASE home[r] # x
    <3>1. Counted(x)
      BY <1>1, <1>3, <2>2 DEF Settle, Counted
    <3>2. PICK s \in known \ deleted : home[s] = x
      BY <3>1 DEF GoneWithLastReceipt, EvidenceOf
    <3> QED BY <1>1, <2>2, <3>2
  <2> QED BY <2>1, <2>2
<1> QED BY <1>3 DEF GoneWithLastReceipt, EvidenceOf

(* What a merge moves stays with the keeper, what a review confirms joins. *)
LEMMA DecisionsLeaveLive ==
  ASSUME RecordsInv, GoneWithLastReceipt, Merge \/ Confirm
  PROVE  GoneWithLastReceipt'
<1>1. UNCHANGED <<known, deleted, booked, removed>>
  BY DEF Merge, Confirm, purchaseVars
<1>2. \A x \in Purchases : superseded'[x] = None =>
         superseded[x] = None /\ \A s \in Receipts : home[s] = x => home'[s] = x
  <2>1. CASE Merge
    <3> DEFINE keeper == preview.keeper
               duplicate == preview.duplicate
    <3>1. /\ keeper \in Purchases /\ duplicate \in Purchases
          /\ superseded' = [superseded EXCEPT ![duplicate] = keeper]
          /\ home' = [r \in Receipts |-> IF r \in EvidenceOf(duplicate) THEN keeper ELSE home[r]]
      BY <2>1 DEF Merge, Mergeable, RecordsInv, PurchaseRowsOK
    <3> HIDE DEF keeper, duplicate
    <3> QED BY <3>1, PurchasesNamed DEF EvidenceOf, RecordsInv, PurchaseRowsOK
  <2>2. CASE Confirm
    <3> DEFINE r == preview.pair[1]
               s == preview.pair[2]
               x == preview.purchase
    <3>1. preview.pair \in Pairs
      BY <2>2 DEF Confirm, Apply, RecordsInv, DecisionsOK, PreviewOK
    <3>2. /\ {home[r], home[s]} \subseteq {None, x}
          /\ home' = [home EXCEPT ![r] = x, ![s] = x] /\ UNCHANGED superseded
      BY <2>2 DEF Confirm, Confirmable, purchaseVars
    <3>3. r \in Receipts /\ s \in Receipts
      BY <3>1, PairStored
    <3> HIDE DEF r, s, x
    <3> QED BY <3>2, <3>3, PurchasesNamed DEF RecordsInv, ReceiptRowsOK
  <2> QED BY <2>1, <2>2
<1> QED BY <1>1, <1>2, PurchasesNamed
       DEF GoneWithLastReceipt, Counted, EvidenceOf, RecordsInv, ReceiptRowsOK

(* Orders are no scans; nothing else moves a receipt or brings a purchase  *)
(* back.                                                                   *)
LEMMA OthersLeaveLive ==
  ASSUME RecordsInv, GoneWithLastReceipt, UNCHANGED <<known, home, deleted>>,
         \A x \in Receipts : Counted(x)' => Counted(x)
  PROVE  GoneWithLastReceipt'
BY DEF GoneWithLastReceipt, EvidenceOf

(* A counted scan has a receipt that is not deleted: a purchase leaves the *)
(* totals with its last live receipt, whatever merges, imports and reviews *)
(* moved to or from it before.                                             *)
THEOREM LeavesWithLastReceipt == Spec => []GoneWithLastReceipt
<1>1. Init => GoneWithLastReceipt
  BY DEF Init, GoneWithLastReceipt, Counted
<1>2. RecordsInv /\ EvidenceCountsOnce /\ GoneWithLastReceipt /\ [Next]_vars => GoneWithLastReceipt'
  <2> SUFFICES ASSUME RecordsInv, EvidenceCountsOnce, GoneWithLastReceipt, [Next]_vars
               PROVE  GoneWithLastReceipt'
    OBVIOUS
  <2> DEFINE rests == \/ UNCHANGED vars \/ Preview \/ Reject \/ CorrectDate \/ CorrectAllocation
                      \/ \E x \in Purchases : ReviewItem(x)
                      \/ \E o \in Orders : LoadOrder(o)
  <2>1. CASE rests
    <3>1. /\ UNCHANGED <<known, home, deleted>>
          /\ \A x \in Receipts : Counted(x)' => Counted(x)
      <4>1. CASE \E o \in Orders : LoadOrder(o)
        BY <4>1, OrdersAssumption, PurchasesNamed
           DEF LoadOrder, Counted, receiptVars, RecordsInv, PurchaseRowsOK
      <4>2. CASE UNCHANGED <<known, home, deleted, booked, superseded, removed>>
        BY <4>2 DEF Counted
      <4> QED BY <2>1, <4>1, <4>2
              DEF Preview, Reject, CorrectDate, CorrectAllocation, ReviewItem, vars, receiptVars,
                  purchaseVars
    <3> QED BY <3>1, OthersLeaveLive
  <2>2. CASE ~rests
    BY <2>2, ImportsLeaveLive, DeletionSettles, DecisionsLeaveLive DEF Next
  <2> QED BY <2>1, <2>2
<1> QED BY <1>1, <1>2, RecordsAlways, CountsOnce, PTL DEF Spec

-----------------------------------------------------------------------------
(* What a person decided stays.                                            *)

(* The duplicate decisions of people: imports write only pairs nobody      *)
(* decided on, a merge refuses a rejected pair, and a review decides a     *)
(* pair once.                                                              *)
THEOREM DecisionsOfPeopleStand == Spec => HumanDecisionStands
<1> DEFINE stands == \A p \in Pairs :
                        link[p] \in {"confirmed", "rejected"} => link'[p] = link[p]
<1>1. RecordsInv /\ [Next]_vars => stands
  <2> SUFFICES ASSUME RecordsInv, [Next]_vars,
                      NEW p \in Pairs, link[p] \in {"confirmed", "rejected"}
               PROVE  link'[p] = link[p]
    OBVIOUS
  <2> USE DEF RecordsInv, DecisionsOK
  <2>1. CASE UNCHANGED link
    BY <2>1
  <2>2. ASSUME NEW r \in Receipts, ImportNew(r)
        PROVE  link'[p] = link[p]
    <3>1. \A s \in Comparable(r) : p # Pair(r, s)
      BY DEF Comparable
    <3> QED BY <2>2, <3>1 DEF ImportNew
  <2>3. CASE Merge
    <3> DEFINE rows == EvidenceOf(preview.keeper) \cup EvidenceOf(preview.duplicate)
    <3>1. link[p] = "rejected" => p \notin rows \X rows
      BY <2>3 DEF Merge, Mergeable
    <3>2. p = <<p[1], p[2]>>
      BY DEF Pairs
    <3>3. link[p] = "rejected" => p[1] \notin rows \/ p[2] \notin rows
      BY <3>1, <3>2
    <3>4. link'[p] = link[p] \/ (link'[p] = "confirmed" /\ p[1] \in rows /\ p[2] \in rows)
      BY <2>3 DEF Merge
    <3> QED BY <3>3, <3>4
  <2>4. CASE Confirm \/ Reject
    <3>1. preview.pair \in Pairs
      BY <2>4 DEF Confirm, Reject, Apply, PreviewOK
    <3>2. link[preview.pair] \in {"none", "pending"}
      BY <2>4, <3>1, PairStored DEF Confirm, Reject, Confirmable, Rejectable
    <3> QED BY <2>4, <3>2 DEF Confirm, Reject
  <2> QED BY <2>1, <2>2, <2>3, <2>4
          DEF Next, Refresh, Delete, Restore, ImportElectronic, LoadOrder, Preview, CorrectDate,
              CorrectAllocation, ReviewItem, vars
<1> QED BY <1>1, RecordsAlways, PTL DEF Spec, HumanDecisionStands

(* What people did to a scanned purchase, its merge, its verified date, its*)
(* allocation and the items they reviewed, survives every later import.    *)
THEOREM WorkOfPeopleStands == Spec => OperatorWorkStands
<1> DEFINE stands == \A r \in Receipts :
                        /\ superseded[r] # None => superseded'[r] = superseded[r]
                        /\ date[r] = "verified" => date'[r] = "verified"
                        /\ r \in allocated => r \in allocated'
                        /\ r \in reviewed => r \in reviewed'
<1>1. RecordsInv /\ [Next]_vars => stands
  <2> SUFFICES ASSUME RecordsInv, [Next]_vars, NEW r \in Receipts
               PROVE  /\ superseded[r] # None => superseded'[r] = superseded[r]
                      /\ date[r] = "verified" => date'[r] = "verified"
                      /\ r \in allocated => r \in allocated'
                      /\ r \in reviewed => r \in reviewed'
    OBVIOUS
  <2>0. r \in Purchases
    BY PurchasesNamed
  <2> USE <2>0 DEF RecordsInv, PurchaseRowsOK
  <2>1. CASE UNCHANGED <<superseded, date, allocated, reviewed>>
    BY <2>1
  <2>2. ASSUME NEW s \in Receipts, NEW kept, UpsertReceipt(s, kept)
        PROVE  stands
    BY <2>2, PurchasesNamed DEF UpsertReceipt, Protected, DatesOK
  <2>3. ASSUME NEW o \in Orders, LoadOrder(o)
        PROVE  stands
    BY <2>3, OrdersAssumption, PurchasesNamed DEF LoadOrder
  <2>4. CASE Merge
    <3>1. /\ superseded[preview.duplicate] = None /\ UNCHANGED <<date, allocated, reviewed>>
          /\ superseded' = [superseded EXCEPT ![preview.duplicate] = preview.keeper]
      BY <2>4 DEF Merge, Mergeable
    <3> QED BY <3>1
  <2>5. CASE CorrectDate
    BY <2>5 DEF CorrectDate
  <2>6. CASE CorrectAllocation \/ \E x \in Purchases : ReviewItem(x)
    BY <2>6 DEF CorrectAllocation, ReviewItem
  <2> QED BY <2>1, <2>2, <2>3, <2>4, <2>5, <2>6
          DEF Next, ImportNew, Refresh, Delete, Restore, ImportElectronic, Preview, Confirm,
              Reject, vars, purchaseVars
<1> QED BY <1>1, RecordsAlways, PTL DEF Spec, OperatorWorkStands
=============================================================================

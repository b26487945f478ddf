----------------------------- MODULE Allocations -----------------------------
(***************************************************************************)
(* Splitting bank transactions and linking them to receipts                *)
(* (transactions/workflows.py, web/transaction_workflows.py).              *)
(*                                                                         *)
(* Editors open a transaction, look at its allocations for a while and     *)
(* save a complete new split.  The page is built from several queries, the *)
(* save is one transaction under a lock of the bank row.                   *)
(*                                                                         *)
(* Receipts live in another database whose expense numbers change: a       *)
(* rebuild hands them out anew, merges let two receipts share one, and     *)
(* deletions hide a receipt.  A saved link is the hash of the receipt; the *)
(* page shows it with the expense number the receipt has at that time.     *)
(***************************************************************************)
EXTENDS Amounts

CONSTANTS
    Transactions,   \* bank transactions
    Amount(_),      \* the bank amount of a transaction
    Kind(_),        \* "cad", "foreign" or "payment"
    Receipts,       \* hashes of receipts, ordered as their evidence ids
    Expenses,       \* expense numbers
    Editors,        \* people with the page open, or a plan in a file
    Sizes,          \* amounts an editor may enter (bound)
    MaxRows,        \* bound: rows of a split
    MaxSaves,       \* bound: saves of a transaction
    MaxMoves        \* bound: changes to the receipt database

ASSUME BankAssumption ==
    \A t \in Transactions : Amount(t) \in Int \ {0} /\ Kind(t) \in {"cad", "foreign", "payment"}
ASSUME ReceiptsAssumption ==
    /\ IsFiniteSet(Receipts) /\ Receipts \subseteq Nat /\ IsFiniteSet(Expenses)
    /\ None \notin Receipts \cup Expenses
ASSUME SplitAssumption == Sizes \subseteq Int /\ MaxRows \in Nat /\ MaxSaves \in Nat

VARIABLES
    split,     \* split[t]: transaction_allocations of t
    version,   \* version[t]: highest version in its audit
    editor,    \* editor[e]: what e has read
    expense,   \* expense[r]: the expense number of receipt r, or None
    hidden,    \* receipts that are deleted or merged away
    moves      \* number of changes to the receipt database (bound)

receiptVars == <<expense, hidden, moves>>
vars == <<split, version, editor, receiptVars>>

\* A row of a plan: an amount, an expense number and the hash of a saved link.
Plans == [amount : Sizes, expense : Expenses \cup {None}, receipt : Receipts \cup {None}]

Away == [at |-> "away"]

Init ==
    /\ split = [t \in Transactions |-> <<>>]
    /\ version = [t \in Transactions |-> 0]
    /\ editor = [e \in Editors |-> Away]
    /\ expense \in [Receipts -> Expenses \cup {None}]
    /\ hidden = {}
    /\ moves = 0

-----------------------------------------------------------------------------
(* The page: detail.                                                       *)

\* The allocations are read ...
ReadRows(e, t) ==
    /\ editor[e].at = "away"
    /\ editor' = [editor EXCEPT ![e] = [at |-> "reading", of |-> t, rows |-> split[t],
                                        since |-> version[t]]]
    /\ UNCHANGED <<split, version, receiptVars>>

\* ... then their version, in a statement of its own, and last the expense
\* numbers of the saved links.
ReadVersion(e) ==
    LET t == editor[e].of
    IN /\ editor[e].at = "reading"
       /\ editor' = [editor EXCEPT ![e] =
                        [at |-> "open", of |-> t, rows |-> editor[e].rows,
                         since |-> editor[e].since, version |-> version[t],
                         shown |-> expense]]
       /\ UNCHANGED <<split, version, receiptVars>>

\* A row the editor keeps, as the page sends it back: with the hash and the
\* number shown for it.
KeptRow(e, row) ==
    [amount |-> row.amount, receipt |-> row.receipt,
     expense |-> IF row.receipt = None THEN None ELSE editor[e].shown[row.receipt]]

\* A row the editor adds: an expense number may be picked, a hash may not.
AddedRows == {p \in Plans : p.receipt = None}

\* Plans the editor may send: some of the rows on the page and some new ones.
PlansOf(e) ==
    LET kept == {KeptRow(e, row) : row \in Range(editor[e].rows)}
    IN UNION {[1 .. n -> kept \cup AddedRows] : n \in 1 .. MaxRows}

-----------------------------------------------------------------------------
(* save_allocations.                                                       *)

AnyVersion(e) == TRUE
SameVersion(e) == editor[e].version = version[editor[e].of]

\* normalize_allocations: amounts have the sign of the bank amount and sum to it.
Balanced(plan, t) ==
    /\ \A i \in DOMAIN plan : plan[i].amount * Amount(t) > 0
    /\ FoldFunction(LAMBDA row, sum : row.amount + sum, 0, plan) = Amount(t)

\* The evidence an expense number stands for: the primary receipt not hidden.
Evidence(x) ==
    LET live == {r \in Receipts \ hidden : expense[r] = x}
    IN IF live = {} THEN None ELSE CHOOSE r \in live : \A s \in live : r <= s

\* A picked expense must have a receipt, and the one a saved link names; a
\* saved link without an expense number must be there already.
LinkedAnyway(t, row) ==
    IF row.expense # None THEN Evidence(row.expense) # None
    ELSE row.receipt = None \/ row.receipt \in {b.receipt : b \in Range(split[t])}
Linkable(t, row) ==
    IF row.expense # None
    THEN /\ Evidence(row.expense) # None
         /\ row.receipt \in {None, Evidence(row.expense)}
    ELSE row.receipt = None \/ row.receipt \in {b.receipt : b \in Range(split[t])}

Link(row) == IF row.expense # None THEN Evidence(row.expense) ELSE row.receipt

Save(e, plan) ==
    LET t == editor[e].of
    IN /\ editor[e].at = "open"
       /\ version[t] < MaxSaves
       /\ Kind(t) # "payment"
       /\ SameVersion(e)
       /\ Balanced(plan, t)
       /\ Kind(t) = "foreign" =>
            \A i \in DOMAIN plan : plan[i].expense = None /\ plan[i].receipt = None
       /\ \A i \in DOMAIN plan : Linkable(t, plan[i])
       /\ split' = [split EXCEPT ![t] =
                       [i \in DOMAIN plan |-> [amount |-> plan[i].amount, receipt |-> Link(plan[i])]]]
       /\ version' = [version EXCEPT ![t] = @ + 1]
       /\ editor' = [editor EXCEPT ![e] = Away]
       /\ UNCHANGED receiptVars

\* The editor gives up, or the save is refused and the page loaded again.
Leave(e) ==
    /\ editor[e].at # "away"
    /\ editor' = [editor EXCEPT ![e] = Away]
    /\ UNCHANGED <<split, version, receiptVars>>

-----------------------------------------------------------------------------
(* The receipt database.                                                   *)

\* A receipt gets another expense number, or none: a rebuild, an import, a merge.
Renumber(r, x) ==
    /\ moves < MaxMoves
    /\ expense[r] # x
    /\ expense' = [expense EXCEPT ![r] = x]
    /\ moves' = moves + 1
    /\ UNCHANGED <<split, version, editor, hidden>>

Hide(r) ==
    /\ moves < MaxMoves
    /\ hidden' = IF r \in hidden THEN hidden \ {r} ELSE hidden \cup {r}
    /\ moves' = moves + 1
    /\ UNCHANGED <<split, version, editor, expense>>

Next ==
    \/ \E e \in Editors :
        \/ \E t \in Transactions : ReadRows(e, t)
        \/ ReadVersion(e)
        \/ editor[e].at = "open" /\ \E plan \in PlansOf(e) : Save(e, plan)
        \/ Leave(e)
    \/ \E r \in Receipts :
        \/ \E x \in Expenses \cup {None} : Renumber(r, x)
        \/ Hide(r)

Spec == Init /\ [][Next]_vars

-----------------------------------------------------------------------------
(* Properties.                                                             *)

\* Each step of an editor that changes a split.
Saves(e) == editor[e].at = "open" /\ version'[editor[e].of] > version[editor[e].of]
                /\ editor'[e] = Away

\* A save replaces the rows its editor saw: of two editors of one transaction
\* the second is refused.  Excepted are pages whose rows and version were read
\* on either side of a save.
SeenReplaced ==
    [][\A e \in Editors :
          Saves(e) /\ editor[e].since = editor[e].version =>
              split[editor[e].of] = editor[e].rows]_vars

\* docs/bank-transactions.md: "regenerated expense integers are display hints
\* and cannot silently relink an allocation to a different receipt".  A row
\* saved with a link keeps that receipt, however the numbers moved between the
\* page and the save.
LinksStand ==
    [][\A e \in Editors :
          Saves(e) =>
            \A plan \in PlansOf(e) :
                Save(e, plan) =>
                    \A i \in DOMAIN plan :
                        plan[i].receipt # None =>
                            split'[editor[e].of][i].receipt = plan[i].receipt]_vars
=============================================================================

---------------------------- MODULE BankMatching ----------------------------
(***************************************************************************)
(* Matching one bank transaction with purchases                            *)
(* (transactions/reconciliation.py) and filling the purchase it matches    *)
(* (transactions/integration.py). A purchase is offered to the matcher as  *)
(* how it compares with the transaction; the transaction is decided again  *)
(* when more purchases are known.                                          *)
(***************************************************************************)
EXTENDS Integers, FiniteSets, Sequences

CONSTANTS Comparisons,  \* [amount, days, merchant, card, account, identifier]
          Blank,      \* no value, no decision
          MaxPurchases  \* bound on purchases

ASSUME MatchingAssumption ==
    /\ MaxPurchases \in Nat /\ Blank \notin Nat
    /\ Comparisons \subseteq [amount : BOOLEAN, days : Nat \cup {Blank}, merchant : 0 .. 100,
                             card : BOOLEAN, account : BOOLEAN, identifier : BOOLEAN]

VARIABLES offered,    \* the comparison of each purchase, by expense_pk
          decision,   \* row of transaction_expense_reconciliation
          filled,     \* date and payer of each purchase, by whom they were given
          looking     \* values an enrichment has read

matchingVars == <<offered, decision, filled, looking>>

MatchingInit ==
    /\ offered = <<>> /\ decision = Blank
    /\ filled = <<>> /\ looking = Blank

-----------------------------------------------------------------------------
(* score *)

DateScore(days) == CASE days = Blank -> 0
                     [] days = 0 -> 20
                     [] days = 1 -> 10
                     [] days \in {2, 3} -> 5
                     [] OTHER -> 0
\* The similarity of the names in per cent.
MerchantScore(percent) == CASE percent >= 90 -> 20
                            [] percent >= 75 /\ percent < 90 -> 10
                            [] percent >= 55 /\ percent < 75 -> 5
                            [] OTHER -> 0
Worth(agrees, points) == IF agrees THEN points ELSE 0

Score(c) == Worth(c.amount, 45) + DateScore(c.days) + MerchantScore(c.merchant)
            + Worth(c.card, 10) + Worth(c.account, 10) + Worth(c.identifier, 30)

AUTO_MATCH_THRESHOLD == 80
AMBIGUITY_MARGIN == 10

BestPurchase == CHOOSE k \in DOMAIN offered :
            \A j \in DOMAIN offered : \/ Score(offered[k]) > Score(offered[j])
                                      \/ Score(offered[k]) = Score(offered[j]) /\ k <= j
\* Mutant: a purchase as far behind as the margin is not a rival.
RivalsWithin(k) == {j \in DOMAIN offered \ {k} : Score(offered[j]) > Score(offered[k]) - AMBIGUITY_MARGIN}
Rivals(k) == {j \in DOMAIN offered \ {k} : Score(offered[j]) >= Score(offered[k]) - AMBIGUITY_MARGIN}

Decision ==
    IF offered = <<>> \/ Score(offered[BestPurchase]) < AUTO_MATCH_THRESHOLD
    THEN [outcome |-> "unmatched", purchase |-> Blank]
    ELSE IF Rivals(BestPurchase) # {} THEN [outcome |-> "ambiguous", purchase |-> Blank]
    ELSE [outcome |-> "matched", purchase |-> BestPurchase]

-----------------------------------------------------------------------------
(* Steps *)

Offer(c) ==
    /\ Len(offered) < MaxPurchases
    /\ offered' = Append(offered, c)
    /\ \E at \in {Blank, "own"} : filled' = Append(filled, [at |-> at, payer |-> Blank])
    /\ UNCHANGED <<decision, looking>>

\* decide and save_decision: the row of an earlier decision is replaced.
Decide ==
    /\ decision # Decision
    /\ decision' = Decision
    /\ UNCHANGED <<offered, filled, looking>>

\* enrich_matched_expense reads the purchase it is to fill, ...
LookAt(payer) ==
    /\ looking = Blank
    /\ decision # Blank /\ decision.outcome = "matched"
    /\ LET own == filled[decision.purchase]
       IN looking' = [purchase |-> decision.purchase, payer |-> payer, at |-> own.at = Blank,
                      by |-> own.payer = Blank /\ payer # Blank]
    /\ UNCHANGED <<offered, decision, filled>>

\* ... and fills what is empty when it is written.
Coalesce(old, new) == IF old = Blank THEN new ELSE old
Fill(own, l) == [at |-> Coalesce(own.at, "bank"), payer |-> Coalesce(own.payer, l.payer)]

Enrich ==
    /\ looking # Blank
    /\ filled' = [filled EXCEPT ![looking.purchase] = Fill(@, looking)]
    /\ looking' = Blank
    /\ UNCHANGED <<offered, decision>>

\* An import or a person completes the purchase meanwhile.
FillIn(k) ==
    /\ \E field \in {"at", "payer"} :
          /\ filled[k][field] = Blank
          /\ filled' = [filled EXCEPT ![k][field] = "own"]
    /\ UNCHANGED <<offered, decision, looking>>

MatchingNext ==
    \/ \E c \in Comparisons : Offer(c)
    \/ Decide
    \/ \E payer \in {Blank, "bank"} : LookAt(payer)
    \/ Enrich
    \/ \E k \in DOMAIN filled : FillIn(k)

MatchingSpec == MatchingInit /\ [][MatchingNext]_matchingVars
-----------------------------------------------------------------------------
(* Properties *)

\* A link made without a person has a reason a person would accept: the
\* amount, or the order number together with day and merchant; and no other
\* purchase is told from the linked one by its card or its account alone.
SafeMatch ==
    decision # Blank /\ decision.outcome = "matched" /\ decision = Decision =>
        LET c == offered[decision.purchase]
        IN /\ c.amount \/ (c.identifier /\ c.days \in {0, 1} /\ c.merchant >= 75)
           /\ \A k \in DOMAIN offered \ {decision.purchase} :
                 offered[k] \notin {[c EXCEPT !.card = FALSE], [c EXCEPT !.account = FALSE], c}
=============================================================================

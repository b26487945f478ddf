----------------------------- MODULE MCWebEdits -----------------------------
(***************************************************************************)
(* What people edit in the web application, on small instances: splits of  *)
(* bank transactions by two editors, or the items of a purchase.  The two  *)
(* share no state, so one of them runs while the other rests.              *)
(***************************************************************************)
EXTENDS Allocations, ItemReview

CONSTANTS cad, usd, e1, e2

MCTransactions == {cad, usd}
MCAmount(t) == IF t = cad THEN 2 ELSE 1
MCKind(t) == IF t = cad THEN "cad" ELSE "foreign"
MCReceipts == 1 .. 2
MCExpenses == {11}
MCEditors == {e1, e2}
MCSizes == {-1, 1, 2}
MCSymmetry == Permutations(MCEditors)

\* An item with a misread name, the name it should have, and two products: a
\* jar, for which both names have evidence, and a towel of a retired category.
MCLines == {<<"slsa", 3>>, <<"salsa", 3>>}
MCKeyword == [x \in {"slsa", "salsa", "jar", "towel"} |->
                 CASE x = "jar" -> "food" [] x = "towel" -> "old" [] OTHER -> None]
MCSection == [x \in {"slsa", "salsa"} |-> IF x = "slsa" THEN "home" ELSE None]
MCMentions == {<<"salsa", "sa">>, <<"slsa", "sa">>, <<"jar", "sa">>, <<"jar", "jar">>}
MCSupported == {<<"slsa", "jar">>, <<"salsa", "jar">>, <<"salsa", "towel">>}
MCCorrected == (<<"slsa", "jar">> :> "salsa")
MCSavedRules == {Rule("any", "contains", "sa", "food", 100, TRUE),
                 Rule("any", "exact", "jar", "home", 5, TRUE),
                 Rule("any", "contains", "sa", "food", 100, FALSE),
                 Rule("elsewhere", "contains", "sa", "home", 5, TRUE)}

MCInit == Init /\ ItemInit
MCNext ==
    \/ ItemInit /\ Next /\ UNCHANGED itemVars
    \/ Init /\ (\A r \in Receipts : expense[r] = None)
       /\ ItemNext /\ UNCHANGED vars
MCSpec == MCInit /\ [][MCNext]_<<vars, itemVars>>
=============================================================================

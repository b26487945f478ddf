------------------------- MODULE MCIntakePublication -------------------------
(* Two publishers, one or two receipts.                                    *)
EXTENDS IntakePublication, TLC

CONSTANTS a, b, p1, p2

OneSource == {a}
TwoSources == {a, b}
MCPublisher == {p1, p2}
MCSymmetry == Permutations(MCPublisher) \cup Permutations(TwoSources)
=============================================================================

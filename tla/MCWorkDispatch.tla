--------------------------- MODULE MCWorkDispatch ---------------------------
(* Two workers on one source reference, which holds first one content and *)
(* then another: a fresh reprocess and a cached re-extraction of the one,  *)
(* a normal message of the other.                                          *)
EXTENDS WorkDispatch, TLC

CONSTANTS w1, w2, s1, s2, p1, fresh, plain, again

MCWorker == {w1, w2}
MCPath == {p1}
MCSource == {s1, s2}
MCPathOf == [s \in MCSource |-> p1]
MCRequest == {fresh, plain, again}
MCSourceOf == [r \in MCRequest |-> IF r = plain THEN s2 ELSE s1]
MCKind == [r \in MCRequest |->
             CASE r = fresh -> "reprocess"
               [] r = plain -> "normal"
               [] OTHER -> "cached"]
MCSymmetry == Permutations(MCWorker)
=============================================================================

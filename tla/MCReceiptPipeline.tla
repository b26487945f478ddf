------------------------- MODULE MCReceiptPipeline -------------------------
(* One worker, one collector and one path.                                 *)
EXTENDS ReceiptPipeline, TLC

CONSTANTS w1, k1, s1, p1, newer, plain, again, s2

MCWorker == {w1}
MCCollector == {k1}
MCSource == {s1}
MCPath == {p1}
MCPathOf == [s \in MCSource |-> p1]

(* A fresh reprocess and the normal import of the same receipt.            *)
ImportRequest == {newer, plain}
ImportSourceOf == [r \in ImportRequest |-> s1]
ImportKind == [r \in ImportRequest |->
                 IF r = plain THEN "normal" ELSE "reprocess"]

(* The import of s2 and a cached re-extraction of s1, filed under one path. *)
ReplacedSource == {s1, s2}
ReplacedPathOf == [s \in ReplacedSource |-> p1]
CommandRequest == {plain, again}
CommandSourceOf == [r \in CommandRequest |-> IF r = plain THEN s2 ELSE s1]
CommandKind == [r \in CommandRequest |->
                  IF r = plain THEN "normal" ELSE "cached"]
=============================================================================

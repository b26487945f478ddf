----------------------------- MODULE ReceiptJob -----------------------------
(***************************************************************************)
(* What the receipt pipeline promises about a queued request, without      *)
(* queues, workers, locks or transactions: a request that was accepted is  *)
(* in the end recorded or parked for an operator, what is recorded stays   *)
(* recorded, and nothing is recorded that nobody asked for.                *)
(***************************************************************************)
CONSTANT Job

VARIABLES requested, recorded, parked

jobVars == <<requested, recorded, parked>>

Init == requested = {} /\ recorded = {} /\ parked = {}

Accept(r) ==
  /\ requested' = requested \cup {r}
  /\ UNCHANGED <<recorded, parked>>

(* One durable outcome may settle several requests for the same receipt.   *)
Record(R) ==
  /\ R # {} /\ R \subseteq requested \ recorded
  /\ recorded' = recorded \cup R
  /\ UNCHANGED <<requested, parked>>

Park(r) ==
  /\ r \in requested
  /\ parked' = parked \cup {r}
  /\ UNCHANGED <<requested, recorded>>

Next ==
  \/ \E r \in Job : Accept(r) \/ Park(r)
  \/ \E R \in SUBSET Job : Record(R)

Settles == \A r \in Job : r \in requested ~> r \in recorded \cup parked

Spec == Init /\ [][Next]_jobVars
LiveSpec == Spec /\ Settles
=============================================================================

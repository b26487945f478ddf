-------------------------- MODULE MCExpenseRecords --------------------------
(* Instances of ExpenseRecords for TLC. *)
EXTENDS ExpenseRecords

CONSTANTS i1, c1

MCReceipts == 1 .. 3
MCSimilar == {<<1, 2>>, <<2, 3>>}
MCIdentical == {<<1, 2>>}
MCOrders == {i1}
MCStoreOrders == {c1}
=============================================================================

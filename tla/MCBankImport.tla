---------------------------- MODULE MCBankImport ----------------------------
(* An instance of BankImport for TLC: a configured and an unknown account,  *)
(* downloads of one, two or no readable rows.                              *)
EXTENDS BankImport
CONSTANTS f1, f2, bad, absent, k1
MCFiles == {f1, f2}
MCAccount(f) == IF f = f1 THEN "house" ELSE "new"
MCAccounts == {"house", "new"}
MCRegistered == {"house"}
MCKeys == {k1}
MCContents == {[k \in {k1} |-> 1], [k \in {k1} |-> 2], bad}
=============================================================================

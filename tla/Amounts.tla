------------------------------- MODULE Amounts -------------------------------
(***************************************************************************)
(* What the calculations on receipts share: amounts in cents, a value for  *)
(* "nothing was found", and the ways Python compares and chooses.          *)
(***************************************************************************)
EXTENDS Integers, Sequences, SequencesExt, FiniteSetsExt

CONSTANT None    \* no value

Abs(n) == IF n < 0 THEN -n ELSE n
Sum(s) == FoldLeft(+, 0, s)

\* Amounts differ only by more than a cent.
Agree(a, b) == Abs(a - b) <= 1

Bit(b) == IF b THEN 1 ELSE 0
Least(a, b) == Min({a, b})

Only(S) == CHOOSE x \in S : TRUE
IsSingle(S) == Cardinality(S) = 1

\* Tuples compare like in Python; max keeps the first of equals. ranked holds
\* records with a key and the place at of what it ranks.
Below(a, b) == \E k \in DOMAIN a : a[k] < b[k] /\ \A j \in 1..(k - 1) : a[j] = b[j]
Best(ranked) == CHOOSE r \in ranked : \A o \in ranked :
                    ~Below(r.key, o.key) /\ (o.at < r.at => Below(o.key, r.key))

=============================================================================

--------------------------- MODULE OrderedMatches ---------------------------
(***************************************************************************)
(* The association of two ordered readings of one receipt                  *)
(* (receipt_ocr_alternatives.unique_ordered_matches). Row i of the left    *)
(* reading may be row j of the right one with a weight, 0 if it cannot be. *)
(* The program keeps "only associations shared by all maximum-weight       *)
(* monotonic matchings", which it finds by counting optimal paths; the     *)
(* reference below enumerates the matchings.                               *)
(***************************************************************************)
EXTENDS Integers, Sequences, FiniteSets, FiniteSetsExt, Functions

CONSTANTS Rows,      \* number of rows of the left reading
          Columns,   \* number of rows of the right reading
          Weights    \* weights a pair of rows may have, 0 for no match

ASSUME MatchAssumption == /\ Rows \in Nat \ {0} /\ Columns \in Nat \ {0}
                          /\ 0 \in Weights /\ Weights \subseteq Nat

VARIABLES weight,    \* weight[i][j] of the rows placed so far
          placed     \* rows of the left reading whose weights are known

matchVars == <<weight, placed>>

Height(w) == Len(w)
Width(w)  == IF w = <<>> THEN 0 ELSE Len(w[1])
Cells(w)  == (1..Height(w)) \X (1..Width(w))

-----------------------------------------------------------------------------
(* The two tables of best weights, each with its number of optimal paths. *)

Max3(a, b, c) == Max({a, b, c})

\* forward[i, j]: best weight of the first i rows against the first j.
Forward(w) ==
    LET best[i \in 0..Height(w), j \in 0..Width(w)] ==
            IF i = 0 \/ j = 0 THEN 0
            ELSE Max3(best[i - 1, j], best[i, j - 1], best[i - 1, j - 1] + w[i][j])
    IN best

\* backward[i, j]: best weight of the rows after i against the rows after j.
Backward(w) ==
    LET best[i \in 0..Height(w), j \in 0..Width(w)] ==
            IF i = Height(w) \/ j = Width(w) THEN 0
            ELSE Max3(best[i + 1, j], best[i, j + 1], best[i + 1, j + 1] + w[i + 1][j + 1])
    IN best

PrefixCount(w, best) ==
    LET count[i \in 0..Height(w), j \in 0..Width(w)] ==
            IF i = 0 \/ j = 0 THEN 1
            ELSE (IF best[i - 1, j] = best[i, j] THEN count[i - 1, j] ELSE 0)
                 + (IF best[i, j - 1] = best[i, j] THEN count[i, j - 1] ELSE 0)
                 + (IF w[i][j] > 0 /\ best[i - 1, j - 1] + w[i][j] = best[i, j]
                    THEN count[i - 1, j - 1] ELSE 0)
    IN count

SuffixCount(w, best) ==
    LET count[i \in 0..Height(w), j \in 0..Width(w)] ==
            IF i = Height(w) \/ j = Width(w) THEN 1
            ELSE (IF best[i + 1, j] = best[i, j] THEN count[i + 1, j] ELSE 0)
                 + (IF best[i, j + 1] = best[i, j] THEN count[i, j + 1] ELSE 0)
                 + (IF w[i + 1][j + 1] > 0 /\ best[i + 1, j + 1] + w[i + 1][j + 1] = best[i, j]
                    THEN count[i + 1, j + 1] ELSE 0)
    IN count

\* Wrong: the pairs on some optimal path.
SomeOrderedMatches(w) ==
    LET forward  == Forward(w)
        backward == Backward(w)
    IN {<<i, j>> \in Cells(w) :
            /\ w[i][j] > 0
            /\ forward[i - 1, j - 1] + w[i][j] + backward[i, j] = forward[Height(w), Width(w)]}

\* unique_ordered_matches: the pairs on every optimal path.
UniqueOrderedMatches(w) ==
    LET forward  == Forward(w)
        backward == Backward(w)
        prefix   == PrefixCount(w, forward)
        suffix   == SuffixCount(w, backward)
    IN {<<i, j>> \in Cells(w) :
            /\ w[i][j] > 0
            /\ forward[i - 1, j - 1] + w[i][j] + backward[i, j] = forward[Height(w), Width(w)]
            /\ prefix[i - 1, j - 1] * suffix[i, j] = prefix[Height(w), Width(w)]}

-----------------------------------------------------------------------------
(* The readings are compared row by row. *)

MatchInit == /\ weight = [i \in 1..Rows |-> [j \in 1..Columns |-> 0]]
             /\ placed = 0

Compare(row) == /\ placed < Rows
                /\ placed' = placed + 1
                /\ weight' = [weight EXCEPT ![placed + 1] = row]

MatchNext == \E row \in [1..Columns -> Weights] : Compare(row)

MatchSpec == MatchInit /\ [][MatchNext]_matchVars

-----------------------------------------------------------------------------
(* Properties *)

\* Rows are matched in order and none twice.
Monotonic(pairs) == \A p, q \in pairs : p # q => (p[1] < q[1] <=> p[2] < q[2])
                                                 /\ p[1] # q[1] /\ p[2] # q[2]

\* The reference: all matchings of positive pairs, and those of most weight.
Matchings(w) == {pairs \in SUBSET {c \in Cells(w) : w[c[1]][c[2]] > 0} : Monotonic(pairs)}
TotalWeight(w, pairs) == MapThenSumSet(LAMBDA p : w[p[1]][p[2]], pairs)
BestMatchings(w) ==
    LET all  == Matchings(w)
        best == Max({TotalWeight(w, pairs) : pairs \in all})
    IN {pairs \in all : TotalWeight(w, pairs) = best}

\* A price or a spelling is taken over from another reading exactly for the
\* rows that every best alignment associates: a repeated product with a
\* missing reading stays unmatched ("Missing duplicate purchases are
\* ambiguous, so neither row receives that reading", align).
OnlySharedMatches ==
    placed > 0 => \E best \in {BestMatchings(weight)} :
        UniqueOrderedMatches(weight) = {c \in Cells(weight) : \A pairs \in best : c \in pairs}

=============================================================================

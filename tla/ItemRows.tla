------------------------------- MODULE ItemRows -------------------------------
(***************************************************************************)
(* Which amount belongs to which product when an engine reads the names    *)
(* and the prices of a receipt as columns of their own                     *)
(* (receipts/item_evidence.py, rows): the lines of one reading, before the *)
(* joined text is read like any other (ReceiptReading). Where a pass also  *)
(* reports positions they decide; they are left out.                       *)
(*                                                                         *)
(* A line is [kind, row]: a name or a saving without its amount, a price   *)
(* that stands alone, a tax mark, a heading, a total without its amount,   *)
(* or other. Names and prices carry the printed row they belong to, which  *)
(* the program does not see.                                               *)
(***************************************************************************)
EXTENDS Amounts, OrderedMatches, SequencesExt

CONSTANT MaxColumn    \* bound on the lines of the reading

ASSUME ColumnAssumption == MaxColumn \in Nat

VARIABLE column       \* lines as the engine emits them

Of(lines, kinds) == {k \in DOMAIN lines : lines[k].kind \in kinds}

\* names, the labels of savings included; and prices, but those of totals.
NameLines(lines)  == Of(lines, {"name", "saving"})
PriceLines(lines) == {k \in Of(lines, {"price"}) : k - 1 \notin Of(lines, {"total"})}

InOrder(S) == SetToSortSeq(S, LAMBDA a, b : a < b)

-----------------------------------------------------------------------------
(* Complete blocks *)

InBlocks(lines) == NameLines(lines) \cup PriceLines(lines) \cup Of(lines, {"tax"})

\* The lines of the block that begins at some line.
BlockFrom(blocks, first) == {k \in blocks : k >= first /\ (first..k) \subseteq blocks}

\* close_block: the names of a block and its prices one to one in their order,
\* if there are as many. A price below a heading may belong above it, unless
\* every price of the block stands above its name.
PairsOfBlock(lines, block) ==
    LET ns == InOrder(block \cap NameLines(lines))
        ps == InOrder(block \cap PriceLines(lines))
        doubtful == /\ ps[1] < ns[1] /\ ps[1] - 1 \in Of(lines, {"heading"})
                    /\ Len(ns) = 1 \/ \E k \in DOMAIN ns : ps[k] > ns[k]
    IN IF ns = <<>> \/ Len(ns) # Len(ps) THEN {}
       ELSE IF doubtful THEN {} ELSE {<<ns[k], ps[k]>> : k \in DOMAIN ns}

\* Mutant: blocks are left to the nearest price.
NoBlockPairs(lines) == {}

BlockPairs(lines) ==
    LET blocks == InBlocks(lines)
    IN UNION {PairsOfBlock(lines, BlockFrom(blocks, k)) : k \in {k \in blocks : k - 1 \notin blocks}}

\* directions: whether the prices of a section follow its names or precede
\* them, where at least two pairs agree.
Section(lines, k) == {j \in DOMAIN lines : Of(lines, {"heading"}) \cap (Min({j, k})..Max({j, k})) = {}}
Direction(lines, pairs, k) ==
    LET here  == {p \in pairs : p[1] \in Section(lines, k)}
        signs == {p[2] > p[1] : p \in here}
    IN IF Cardinality(here) >= 2 /\ IsSingle(signs) THEN (IF Only(signs) THEN 1 ELSE -1) ELSE 0

-----------------------------------------------------------------------------
(* All lines *)

\* row_weight: 1 where a price may belong to a name.
RowWeight(lines, pairs, i, j) ==
    LET blocked == {p \in pairs : p[1] = i}
        below   == j = i - 1 /\ j - 1 \in Of(lines, {"heading"})
        against == Direction(lines, pairs, i) * (j - i) < 0
        between == {k \in DOMAIN lines : Min({i, j}) < k /\ k < Max({i, j})}
    IN IF blocked # {} THEN Bit(<<i, j>> \in pairs)
       ELSE Bit(/\ ~below /\ ~against
                /\ Abs(i - j) <= 3 /\ between \subseteq Of(lines, {"tax"}))

\* The pairs of a name and a price whose lines are joined.
JoinedWith(lines, pairs, ns, ps) ==
    {<<ns[m[1]], ps[m[2]]>> : m \in UniqueOrderedMatches(
        [i \in DOMAIN ns |-> [j \in DOMAIN ps |-> RowWeight(lines, pairs, ns[i], ps[j])]])}
Joined(lines) == JoinedWith(lines, BlockPairs(lines), InOrder(NameLines(lines)), InOrder(PriceLines(lines)))

-----------------------------------------------------------------------------
(* An engine emits the columns of a section as it finds them, each from the *)
(* top, the names ahead of their prices or the prices ahead of their names. *)

ColumnInit == column = <<>>

Counted(kinds) == Cardinality({k \in Of(column, kinds) : column[k].row > 0})
Balanced == Counted({"name", "saving"}) = Counted({"price"})

\* Names emitted without their prices up to line k, or the other way round.
Lead(lines, k) == LET upTo(kinds) == Cardinality({j \in Of(lines, kinds) : j <= k /\ lines[j].row > 0})
                  IN upTo({"name", "saving"}) - upTo({"price"})
OneWay(lines) == \A j \in DOMAIN lines : \A k \in Section(lines, j) : Lead(lines, j) * Lead(lines, k) >= 0

Emit(lines) == /\ Len(column) + Len(lines) <= MaxColumn
               /\ OneWay(column \o lines)
               /\ column' = column \o lines

EmitName(kind) == Emit(<<[kind |-> kind, row |-> Counted({"name", "saving"}) + 1]>>)
EmitPrice      == Emit(<<[kind |-> "price", row |-> Counted({"price"}) + 1]>>)
EmitTax        == Emit(<<[kind |-> "tax", row |-> 0]>>)

\* Whatever interrupts the columns stands between complete sections.
Interrupt == /\ Balanced
             /\ \/ \E kind \in {"heading", "other"} : Emit(<<[kind |-> kind, row |-> 0]>>)
                \/ Emit(<<[kind |-> "total", row |-> 0], [kind |-> "price", row |-> 0]>>)

ColumnNext == (\E kind \in {"name", "saving"} : EmitName(kind)) \/ EmitPrice \/ EmitTax \/ Interrupt

ColumnSpec == ColumnInit /\ [][ColumnNext]_column

-----------------------------------------------------------------------------
(* Properties *)

\* The lines of column k's block, where it has one.
StartsWithPrice(block) == column[Min(block \cap (NameLines(column) \cup PriceLines(column)))].kind = "price"

\* A price or a spelling is taken over exactly where every best alignment
\* agrees, and so no product ever has another's price while complete sections
\* are emitted, in whichever order their columns come; and each has its own
\* unless its block begins with a price ("Adjacent columns may be emitted
\* price-first or name-first", rows).
PricesFindTheirRows ==
    /\ OnlySharedMatches
    /\ Balanced =>
        \E joined \in {Joined(column)} :
            /\ \A p \in joined : column[p[1]].row = column[p[2]].row
            /\ \A k \in NameLines(column) :
                    \/ \E p \in joined : p[1] = k
                    \/ \E b \in {j \in InBlocks(column) : j <= k /\ j - 1 \notin InBlocks(column)} :
                        /\ (b..k) \subseteq InBlocks(column)
                        /\ StartsWithPrice(BlockFrom(InBlocks(column), b))

=============================================================================

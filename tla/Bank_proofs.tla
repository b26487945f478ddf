----------------------------- MODULE Bank_proofs -----------------------------
(***************************************************************************)
(* Proofs about bank transactions: how exports become ledger rows, how a   *)
(* transaction is matched with a purchase, and how people split it, for    *)
(* every value of the constants.                                           *)
(***************************************************************************)
EXTENDS BankImport, BankMatching, Allocations, WellFoundedInduction, TLAPS

-----------------------------------------------------------------------------
(* The matcher.                                                            *)

LEMMA SmallerIsWellFounded ==
  \E R : /\ IsWellFoundedOn(R, Nat)
         /\ \A m, n \in Nat : <<n, m>> \in R <=> n < m
<1>1. \A m, n \in Nat : <<n, m>> \in OpToRel(<, Nat) <=> n < m
  BY DEF OpToRel
<1> QED BY <1>1, NatLessThanWellFounded, Zenon

LEMMA LeastNatural ==
  ASSUME NEW S \in SUBSET Nat, S # {}
  PROVE  \E m \in S : \A n \in S : m <= n
<1>1. PICK R : /\ IsWellFoundedOn(R, Nat)
               /\ \A m, n \in Nat : <<n, m>> \in R <=> n < m
  BY SmallerIsWellFounded
<1>2. \E m \in S : \A n \in S : ~(<<n, m>> \in R)
  BY <1>1, WFMin
<1>3. PICK m \in S : \A n \in S : ~(<<n, m>> \in R)
  BY <1>2
<1>4. ASSUME NEW n \in S
      PROVE  m <= n
  <2>1. m \in Nat /\ n \in Nat
    OBVIOUS
  <2>2. <<n, m>> \in R <=> n < m
    BY <1>1, <2>1
  <2> QED BY <1>3, <2>1, <2>2
<1> QED BY <1>4

LEMMA ScoreTypes ==
  \A c \in Comparisons :
     /\ DateScore(c.days) \in 0..20 /\ MerchantScore(c.merchant) \in 0..20
     /\ DateScore(c.days) >= 10 => c.days \in {0, 1}
     /\ MerchantScore(c.merchant) >= 10 => c.merchant >= 75
     /\ Score(c) \in 0..135
<1> SUFFICES ASSUME NEW c \in Comparisons
             PROVE  /\ DateScore(c.days) \in 0..20 /\ MerchantScore(c.merchant) \in 0..20
                    /\ DateScore(c.days) >= 10 => c.days \in {0, 1}
                    /\ MerchantScore(c.merchant) >= 10 => c.merchant >= 75
                    /\ Score(c) \in 0..135
  OBVIOUS
<1>1. c.days \in Nat \cup {Blank} /\ c.merchant \in 0..100
  BY MatchingAssumption
<1>2. DateScore(c.days) \in 0..20 /\ (DateScore(c.days) >= 10 => c.days \in {0, 1})
  BY <1>1, MatchingAssumption DEF DateScore
<1>3. MerchantScore(c.merchant) \in 0..20 /\ (MerchantScore(c.merchant) >= 10 => c.merchant >= 75)
  BY <1>1 DEF MerchantScore
<1>4. \A b, n : Worth(b, n) = n \/ Worth(b, n) = 0
  BY DEF Worth
<1> QED BY <1>2, <1>3, <1>4 DEF Score

(* Points are compared as numbers are.                                     *)
LEMMA Points ==
  \A x, y \in 0..135 :
     /\ 135 - x \in Nat
     /\ ~(x < 80) => x >= 80
     /\ x > y \/ x = y => x >= y
     /\ 135 - x <= 135 - y /\ 135 - x # 135 - y => x > y
     /\ 135 - x = 135 - y => x = y
OBVIOUS

(* Some purchase comes first: the one of the best score, the oldest of     *)
(* equals.                                                                 *)
LEMMA BestExists ==
  ASSUME offered \in Seq(Comparisons), offered # <<>>
  PROVE  /\ BestPurchase \in DOMAIN offered
         /\ \A j \in DOMAIN offered : Score(offered[BestPurchase]) >= Score(offered[j])
<1> DEFINE Leading(k) == \A j \in DOMAIN offered :
                            \/ Score(offered[k]) > Score(offered[j])
                            \/ Score(offered[k]) = Score(offered[j]) /\ k <= j
           Losses == {135 - Score(offered[k]) : k \in DOMAIN offered}
<1>1. /\ DOMAIN offered \subseteq Nat /\ DOMAIN offered # {}
      /\ \A k \in DOMAIN offered : offered[k] \in Comparisons
  <2>1. DOMAIN offered = 1 .. Len(offered) /\ Len(offered) \in Nat /\ Len(offered) # 0
    OBVIOUS
  <2>2. \A k \in 1 .. Len(offered) : offered[k] \in Comparisons
    OBVIOUS
  <2>3. 1 \in 1 .. Len(offered)
    BY <2>1
  <2> QED BY <2>1, <2>2, <2>3
<1>2. ASSUME NEW k \in DOMAIN offered
      PROVE  Score(offered[k]) \in 0..135
  BY <1>1, ScoreTypes
<1> HIDE DEF Score
<1>3. PICK l \in Losses : \A n \in Losses : l <= n
  <2>1. ASSUME NEW n \in Losses
        PROVE  n \in Nat
    <3>1. PICK k \in DOMAIN offered : n = 135 - Score(offered[k])
      OBVIOUS
    <3> QED BY <1>2, <3>1, Points, Zenon
  <2>2. Losses \in SUBSET Nat /\ Losses # {}
    BY <1>1, <2>1
  <2> HIDE DEF Losses
  <2> QED BY <2>2, LeastNatural
<1> DEFINE Winners == {k \in DOMAIN offered : 135 - Score(offered[k]) = l}
<1>4. PICK w \in Winners : \A k \in Winners : w <= k
  <2>1. Winners \in SUBSET Nat /\ Winners # {}
    BY <1>1
  <2> HIDE DEF Winners
  <2> QED BY <2>1, LeastNatural
<1>5. w \in DOMAIN offered /\ Leading(w)
  <2> SUFFICES ASSUME NEW j \in DOMAIN offered
               PROVE  \/ Score(offered[w]) > Score(offered[j])
                      \/ Score(offered[w]) = Score(offered[j]) /\ w <= j
    BY <1>4
  <2>1. 135 - Score(offered[j]) \in Losses
    OBVIOUS
  <2>2. l <= 135 - Score(offered[j])
    BY <1>3, <2>1
  <2>3. l = 135 - Score(offered[w]) /\ w \in DOMAIN offered
    OBVIOUS
  <2>4. 135 - Score(offered[j]) = l => w <= j
    BY <1>4
  <2>5. Score(offered[w]) \in 0..135 /\ Score(offered[j]) \in 0..135
    BY <1>2, <2>3
  <2> HIDE DEF Losses, Winners
  <2>6. CASE 135 - Score(offered[j]) = l
    <3>1. 135 - Score(offered[w]) = 135 - Score(offered[j])
      BY <2>3, <2>6, Zenon
    <3>2. Score(offered[w]) = Score(offered[j])
      <4> DEFINE x == Score(offered[w])
                 y == Score(offered[j])
      <4>1. x \in 0..135 /\ y \in 0..135 /\ 135 - x = 135 - y
        BY <2>5, <3>1
      <4> HIDE DEF x, y
      <4>2. x = y
        BY <4>1
      <4> QED BY <4>2 DEF x, y
    <3> QED BY <2>4, <2>6, <3>2, Zenon
  <2>7. CASE 135 - Score(offered[j]) # l
    BY <2>2, <2>3, <2>5, <2>7, Points, Zenon
  <2> QED BY <2>6, <2>7
<1>6. BestPurchase \in DOMAIN offered /\ Leading(BestPurchase)
  BY <1>5 DEF BestPurchase
<1>7. ASSUME NEW j \in DOMAIN offered
      PROVE  Score(offered[BestPurchase]) >= Score(offered[j])
  <2>1. /\ Score(offered[BestPurchase]) \in 0..135 /\ Score(offered[j]) \in 0..135
        /\ \/ Score(offered[BestPurchase]) > Score(offered[j])
           \/ Score(offered[BestPurchase]) = Score(offered[j])
    BY <1>2, <1>6
  <2> QED BY <2>1, Points, Zenon
<1> QED BY <1>6, <1>7

OfferedOK == offered \in Seq(Comparisons)

LEMMA OfferedTypes == MatchingSpec => []OfferedOK
<1>1. MatchingInit => OfferedOK
  BY DEF MatchingInit, OfferedOK
<1>2. OfferedOK /\ [MatchingNext]_matchingVars => OfferedOK'
  BY DEF OfferedOK, MatchingNext, matchingVars, Offer, Decide, LookAt, Enrich, FillIn
<1> QED BY <1>1, <1>2, PTL DEF MatchingSpec

(* A link made without a person has a reason a person would accept: the    *)
(* amount, or the order number with day and merchant, and no other         *)
(* purchase is told from it by its card or its account alone.              *)
THEOREM LinksAreSafe == MatchingSpec => []SafeMatch
<1>1. OfferedOK => SafeMatch
  <2> SUFFICES ASSUME offered \in Seq(Comparisons), decision = Decision,
                      decision.outcome = "matched"
               PROVE  LET c == offered[decision.purchase]
                      IN /\ c.amount \/ (c.identifier /\ c.days \in {0, 1} /\ c.merchant >= 75)
                         /\ \A k \in DOMAIN offered \ {decision.purchase} :
                               offered[k] \notin {[c EXCEPT !.card = FALSE],
                                                  [c EXCEPT !.account = FALSE], c}
    BY DEF SafeMatch, OfferedOK
  <2> DEFINE b == BestPurchase
             c == offered[b]
  <2>1. /\ decision.purchase = b /\ offered # <<>>
        /\ ~(Score(c) < AUTO_MATCH_THRESHOLD) /\ Rivals(b) = {}
    <3>1. Decision.outcome = "matched"
      OBVIOUS
    <3> QED BY <3>1 DEF Decision
  <2>2. b \in DOMAIN offered /\ c \in Comparisons
    BY <2>1, BestExists
  <2>3. ASSUME NEW k \in DOMAIN offered
        PROVE  offered[k] \in Comparisons /\ Score(offered[k]) \in 0..135
    BY ScoreTypes
  <2>4. /\ DateScore(c.days) \in 0..20 /\ MerchantScore(c.merchant) \in 0..20
        /\ DateScore(c.days) >= 10 => c.days \in {0, 1}
        /\ MerchantScore(c.merchant) >= 10 => c.merchant >= 75
        /\ Score(c) \in 0..135 /\ Score(c) >= 80
    <3> HIDE DEF c
    <3>1. /\ DateScore(c.days) \in 0..20 /\ MerchantScore(c.merchant) \in 0..20
          /\ DateScore(c.days) >= 10 => c.days \in {0, 1}
          /\ MerchantScore(c.merchant) >= 10 => c.merchant >= 75
          /\ Score(c) \in 0..135
      BY <2>2, ScoreTypes
    <3>2. Score(c) >= 80
      <4>1. ~(Score(c) < 80)
        BY <2>1 DEF AUTO_MATCH_THRESHOLD
      <4> QED BY <3>1, <4>1, Points, Zenon
    <3> QED BY <3>1, <3>2
  <2> HIDE DEF c
  <2>5. c.amount \/ (c.identifier /\ c.days \in {0, 1} /\ c.merchant >= 75)
    <3> SUFFICES ASSUME ~c.amount
                 PROVE  c.identifier /\ DateScore(c.days) >= 10 /\ MerchantScore(c.merchant) >= 10
      BY <2>4
    <3>1. Score(c) = 0 + DateScore(c.days) + MerchantScore(c.merchant) + Worth(c.card, 10)
                       + Worth(c.account, 10) + Worth(c.identifier, 30)
      BY DEF Score, Worth
    <3>2. Worth(c.card, 10) \in {0, 10} /\ Worth(c.account, 10) \in {0, 10}
          /\ Worth(c.identifier, 30) = IF c.identifier THEN 30 ELSE 0
      BY DEF Worth
    <3>3. 0 + DateScore(c.days) + MerchantScore(c.merchant) + Worth(c.card, 10)
            + Worth(c.account, 10) + Worth(c.identifier, 30) >= 80
      BY <2>4, <3>1
    <3> DEFINE x == DateScore(c.days)
               y == MerchantScore(c.merchant)
               u == Worth(c.card, 10)
               v == Worth(c.account, 10)
               z == Worth(c.identifier, 30)
    <3>4. /\ x \in 0..20 /\ y \in 0..20 /\ u \in {0, 10} /\ v \in {0, 10} /\ z \in {0, 30}
          /\ 0 + x + y + u + v + z >= 80
      BY <2>4, <3>2, <3>3
    <3> HIDE DEF x, y, u, v, z
    <3>5. z = 30 /\ x >= 10 /\ y >= 10
      BY <3>4
    <3> QED BY <3>2, <3>5 DEF x, y, z
  <2>6. ASSUME NEW k \in DOMAIN offered \ {b},
               offered[k] \in {[c EXCEPT !.card = FALSE], [c EXCEPT !.account = FALSE], c}
        PROVE  FALSE
    <3> DEFINE d == offered[k]
    <3> USE DEF c
    <3>1. d \in Comparisons /\ Score(d) \in 0..135
      BY <2>3
    <3>2. /\ d.amount = c.amount /\ d.days = c.days /\ d.merchant = c.merchant
          /\ d.identifier = c.identifier
          /\ \/ d.card = c.card \/ d.account = c.account
          /\ d.card \in {c.card, FALSE} /\ d.account \in {c.account, FALSE}
      BY <2>2, <2>6, MatchingAssumption
    <3>3. Score(d) >= Score(c) - 10
      <4>1. Worth(d.card, 10) + Worth(d.account, 10) >= Worth(c.card, 10) + Worth(c.account, 10) - 10
        BY <3>2 DEF Worth
      <4>2. /\ Worth(d.amount, 45) = Worth(c.amount, 45)
            /\ Worth(d.identifier, 30) = Worth(c.identifier, 30)
            /\ Worth(c.amount, 45) \in Nat /\ Worth(c.identifier, 30) \in Nat
            /\ Worth(c.card, 10) \in Nat /\ Worth(c.account, 10) \in Nat
            /\ Worth(d.card, 10) \in Nat /\ Worth(d.account, 10) \in Nat
        BY <3>2 DEF Worth
      <4>3. DateScore(d.days) = DateScore(c.days) /\ MerchantScore(d.merchant) = MerchantScore(c.merchant)
        BY <3>2
      <4> DEFINE A == Worth(c.amount, 45)
                 X == DateScore(c.days)
                 Y == MerchantScore(c.merchant)
                 Z == Worth(c.identifier, 30)
                 U == Worth(c.card, 10)
                 V == Worth(c.account, 10)
                 S == Worth(d.card, 10)
                 T == Worth(d.account, 10)
      <4>4. Score(c) = A + X + Y + U + V + Z /\ Score(d) = A + X + Y + S + T + Z
        BY <4>2, <4>3 DEF Score
      <4> HIDE DEF c, d
      <4>5. /\ A \in Nat /\ Z \in Nat /\ U \in Nat /\ V \in Nat /\ S \in Nat /\ T \in Nat
            /\ S + T >= U + V - 10
        BY <4>1, <4>2
      <4>6. X \in 0..20 /\ Y \in 0..20
        BY <2>4
      <4> HIDE DEF A, X, Y, Z, U, V, S, T
      <4> QED BY <4>4, <4>5, <4>6
    <3> QED BY <2>1, <3>3 DEF Rivals, AMBIGUITY_MARGIN
  <2>7. c = offered[decision.purchase]
    BY <2>1 DEF c
  <2>8. \A k \in DOMAIN offered \ {decision.purchase} :
           offered[k] \notin {[c EXCEPT !.card = FALSE], [c EXCEPT !.account = FALSE], c}
    BY <2>1, <2>6
  <2> QED BY <2>5, <2>7, <2>8
<1> QED BY <1>1, OfferedTypes, PTL

-----------------------------------------------------------------------------
(* Exports become rows.                                                    *)

(* The rows of a set of imports: every account has as many identical rows  *)
(* as the export that shows the most of them.                              *)
LedgerOf(i) ==
  {row \in Rows : \E x \in i : x[2] = row[1] /\ row[3] <= x[1][row[2]]}

BooksOK ==
  /\ ledger = LedgerOf(imports)
  /\ \A a \in Actors : job[a].write.ledger = LedgerOf(job[a].write.imports)

(* A file is known only by an import of its contents.                      *)
ArtifactsOK ==
  /\ \A x \in artifacts : \E r \in Accounts : <<x[2], r>> \in imports
  /\ \A a \in Actors : \A x \in job[a].write.artifacts :
        \E r \in Accounts : <<x[2], r>> \in job[a].write.imports

(* What a discovery row says of its contents, when i are imported.         *)
Settled(row, i) ==
  row.status = "imported" =>
    /\ row.of \in Contents /\ retained[row.of] = "whole"
    /\ \E r \in Accounts : <<row.of, r>> \in i

FoundOK ==
  /\ \A f \in Files : Settled(found[f], imports)
  /\ \A f \in DOMAIN job["scan"].found :
        Settled(job["scan"].found[f], imports \cup job["scan"].write.imports)

(* What the scan has done with the files that stayed as they were.         *)
SettlesOK ==
  job["scan"].open =>
    \A f \in steady \ failures :
       Parses(inbox[f]) /\ Account(f) \in Registered /\ retained[inbox[f]] # "partial" =>
         \/ f \in job["scan"].todo
         \/ /\ f \in DOMAIN job["scan"].found
            /\ job["scan"].found[f] = [status |-> "imported", of |-> inbox[f]]

ImportInv == ImportTypeOK /\ BooksOK /\ ArtifactsOK /\ FoundOK /\ SettlesOK

LEMMA FingerprintsAre ==
  ASSUME NEW c \in [Keys -> Nat], NEW r \in Accounts
  PROVE  Fingerprints(c, r) = {row \in Rows : row[1] = r /\ row[3] <= c[row[2]]}
<1>1. ASSUME NEW row \in Fingerprints(c, r)
      PROVE  row \in Rows /\ row[1] = r /\ row[3] <= c[row[2]]
  <2>1. PICK k \in Keys : row \in {<<r, k, n>> : n \in 1 .. c[k]}
    BY DEF Fingerprints
  <2>2. PICK n \in 1 .. c[k] : row = <<r, k, n>>
    BY <2>1
  <2>3. c[k] \in Nat /\ n \in Nat \ {0} /\ n <= c[k]
    OBVIOUS
  <2> QED BY <2>2, <2>3 DEF Rows
<1>2. ASSUME NEW row \in Rows, row[1] = r, row[3] <= c[row[2]]
      PROVE  row \in Fingerprints(c, r)
  <2>1. PICK k \in Keys, n \in Nat \ {0} : row = <<r, k, n>>
    BY <1>2 DEF Rows
  <2>2. c[k] \in Nat /\ n \in 1 .. c[k]
    BY <1>2, <2>1
  <2> QED BY <2>1, <2>2 DEF Fingerprints
<1> QED BY <1>1, <1>2

LEMMA LedgerUnion ==
  ASSUME NEW i, NEW j
  PROVE  LedgerOf(i \cup j) = LedgerOf(i) \cup LedgerOf(j)
BY DEF LedgerOf

LEMMA LedgerOfOne ==
  ASSUME NEW c \in [Keys -> Nat], NEW r \in Accounts
  PROVE  LedgerOf({<<c, r>>}) = Fingerprints(c, r)
BY FingerprintsAre DEF LedgerOf

(* What an import writes.                                                  *)
LEMMA BookedTypes ==
  ASSUME NEW w \in Writes, NEW f \in Files, NEW c \in Contents, NEW r \in Accounts,
         Parses(c), w.ledger = LedgerOf(w.imports)
  PROVE  LET v == Booked(w, f, c, r)
         IN /\ v \in Writes /\ v.ledger = LedgerOf(v.imports)
            /\ v.imports = w.imports \cup {<<c, r>>}
            /\ v.artifacts = w.artifacts \cup {<<f, c>>}
            /\ c \in Exports
<1>1. c \in [Keys -> Nat] /\ c \in Exports
  BY ContentsAssumption DEF Parses, Exports
<1>2. Fingerprints(c, r) \subseteq Rows /\ LedgerOf({<<c, r>>}) = Fingerprints(c, r)
  BY <1>1, FingerprintsAre, LedgerOfOne
<1>3. LedgerOf(w.imports \cup {<<c, r>>}) = w.ledger \cup Fingerprints(c, r)
  BY <1>2, LedgerUnion
<1> HIDE DEF Fingerprints, LedgerOf, Rows
<1>4. Booked(w, f, c, r) \in Writes
  BY <1>1, <1>2 DEF Booked, Writes
<1> QED BY <1>1, <1>3, <1>4 DEF Booked

(* The types of a transaction's parts.                                     *)
LEMMA JobParts ==
  ASSUME ImportTypeOK, NEW a \in Actors
  PROVE  /\ job[a] \in Jobs /\ job[a].open \in BOOLEAN /\ job[a].todo \subseteq Files
         /\ job[a].write \in Writes
         /\ DOMAIN job[a].found \subseteq Files
         /\ \A f \in DOMAIN job[a].found : job[a].found[f] \in FoundRows
         /\ job[a].todo # {} => job[a].open
<1>1. job[a] \in Jobs /\ (~job[a].open => job[a] = NoJob)
  BY DEF ImportTypeOK
<1>2. job[a].found \in Reports
  BY <1>1 DEF Jobs
<1>3. PICK d \in SUBSET Files : job[a].found \in [d -> FoundRows]
  BY <1>2 DEF Reports
<1>4. NoJob.todo = {}
  BY DEF NoJob
<1> HIDE DEF FoundRows
<1>5. DOMAIN job[a].found \subseteq Files /\ \A f \in DOMAIN job[a].found : job[a].found[f] \in FoundRows
  BY <1>3
<1> QED BY <1>1, <1>4, <1>5 DEF Jobs

(* What Done leaves of the scan: one file less to do, and its row.         *)
LEMMA DoneJob ==
  ASSUME ImportTypeOK, NEW f \in job["scan"].todo, NEW s \in {"imported", "failed"},
         NEW c \in Contents \cup {Absent}, NEW w \in Writes, Done(f, s, c, w)
  PROVE  /\ job' \in [Actors -> Jobs] /\ job'["tree"] = job["tree"]
         /\ job["scan"].open /\ job'["scan"].open
         /\ job'["scan"].todo = job["scan"].todo \ {f} /\ job'["scan"].write = w
         /\ DOMAIN job'["scan"].found = DOMAIN job["scan"].found \cup {f}
         /\ job'["scan"].found[f] = [status |-> s, of |-> c]
         /\ \A g \in DOMAIN job["scan"].found \ {f} :
               job'["scan"].found[g] = job["scan"].found[g]
<1> DEFINE old == job["scan"].found
           new == [g \in DOMAIN old \cup {f} |->
                     IF g = f THEN [status |-> s, of |-> c] ELSE old[g]]
           x == [open |-> job["scan"].open, todo |-> job["scan"].todo \ {f},
                 write |-> w, found |-> new]
<1>1. /\ job["scan"] \in Jobs /\ job["scan"].open \in BOOLEAN /\ job["scan"].todo \subseteq Files
      /\ DOMAIN old \subseteq Files /\ \A g \in DOMAIN old : old[g] \in FoundRows
      /\ job["scan"].open
  BY JobParts DEF Actors
<1>2. [status |-> s, of |-> c] \in FoundRows
  BY DEF FoundRows
<1>3. f \in Files
  BY <1>1
<1> HIDE DEF FoundRows
<1>4. new \in [DOMAIN old \cup {f} -> FoundRows] /\ DOMAIN old \cup {f} \subseteq Files
  BY <1>1, <1>2, <1>3
<1>5. new \in Reports
  BY <1>4 DEF Reports
<1>6. x \in Jobs
  <2> HIDE DEF new
  <2> QED BY <1>1, <1>5 DEF Jobs
<1>7. job' = [job EXCEPT !["scan"] = x]
  BY DEF Done
<1>8. /\ x.open /\ x.todo = job["scan"].todo \ {f} /\ x.write = w
      /\ DOMAIN x.found = DOMAIN old \cup {f} /\ x.found[f] = [status |-> s, of |-> c]
      /\ \A g \in DOMAIN old \ {f} : x.found[g] = old[g]
  BY <1>1
<1> HIDE DEF x, new
<1>9. job' \in [Actors -> Jobs] /\ job'["tree"] = job["tree"] /\ job'["scan"] = x
  BY <1>6, <1>7 DEF ImportTypeOK, Actors
<1> QED BY <1>1, <1>8, <1>9

LEMMA NoJobIsJob == NoJob \in Jobs /\ NoWrites \in Writes
<1>1. NoReport \in [{} -> FoundRows]
  BY DEF NoReport
<1>2. NoReport \in Reports
  BY <1>1 DEF Reports
<1>3. NoWrites \in Writes
  BY DEF NoWrites, Writes
<1> QED BY <1>2, <1>3 DEF NoJob, Jobs

(* The discovery row the scan sees of a file.                              *)
LEMMA RowTypes ==
  ASSUME ImportTypeOK, NEW f \in Files
  PROVE  Row(f) \in FoundRows
BY JobParts DEF Row, ImportTypeOK, Actors

(* What the end of a transaction leaves of the actors.                     *)
LEMMA EndedJob ==
  ASSUME ImportTypeOK, NEW a \in Actors, job' = [job EXCEPT ![a] = NoJob],
         held' = IF held = a THEN "nobody" ELSE held
  PROVE  /\ job' \in [Actors -> Jobs] /\ job'[a] = NoJob
         /\ \A b \in Actors \ {a} : job'[b] = job[b]
         /\ \A b \in Actors : ~job'[b].open => job'[b] = NoJob
         /\ held' \in Actors \cup {"nobody"}
         /\ held' # "nobody" => job'[held'].open
<1> HIDE DEF Jobs
<1>1. job' \in [Actors -> Jobs] /\ job'[a] = NoJob /\ \A b \in Actors \ {a} : job'[b] = job[b]
  BY NoJobIsJob DEF ImportTypeOK
<1> QED BY <1>1 DEF ImportTypeOK

LEMMA CommitTypes ==
  ASSUME ImportTypeOK, NEW a \in Actors, Commit(a)
  PROVE  /\ ledger' = ledger \cup job[a].write.ledger
         /\ imports' = imports \cup job[a].write.imports
         /\ artifacts' = artifacts \cup job[a].write.artifacts
         /\ profile' = profile \cup job[a].write.profile
         /\ ledger' \subseteq Rows /\ imports' \subseteq Exports \X Accounts
         /\ artifacts' \subseteq Files \X Exports
         /\ Registered \subseteq profile' /\ profile' \subseteq Accounts
<1>1. job[a].write \in Writes
  BY JobParts
<1>2. /\ ledger' = ledger \cup job[a].write.ledger
      /\ imports' = imports \cup job[a].write.imports
      /\ artifacts' = artifacts \cup job[a].write.artifacts
      /\ profile' = profile \cup job[a].write.profile
  BY DEF Commit, Seen
<1> HIDE DEF Rows, Exports
<1> QED BY <1>1, <1>2 DEF Writes, ImportTypeOK

(* What a scan does with one file keeps the types.                         *)
LEMMA DoneTypes ==
  ASSUME ImportTypeOK, NEW f \in job["scan"].todo, NEW s \in {"imported", "failed"},
         NEW c \in Contents \cup {Absent}, NEW w \in Writes, Done(f, s, c, w),
         UNCHANGED <<inbox, ledgerVars, found, steady, changes>>,
         held' \in {held, "scan"}, failures' \subseteq Files, faults' \in 0 .. MaxFaults,
         (c \in Contents /\ KeepOriginal(c)) \/ UNCHANGED retained
  PROVE  ImportTypeOK'
<1> USE DEF ledgerVars
<1>1. /\ job' \in [Actors -> Jobs] /\ job'["tree"] = job["tree"] /\ job'["scan"].open
  BY DoneJob
<1>2. retained' \in [Contents -> {"none", "partial", "whole"}]
  BY DEF KeepOriginal, ImportTypeOK
<1>3. \A a \in Actors : ~job'[a].open => job'[a] = NoJob
  BY <1>1 DEF ImportTypeOK, Actors
<1>4. held' \in Actors \cup {"nobody"} /\ (held' # "nobody" => job'[held'].open)
  BY <1>1 DEF ImportTypeOK, Actors
<1> QED BY <1>1, <1>2, <1>3, <1>4 DEF ImportTypeOK

LEMMA ImportTypeStep == ImportTypeOK /\ BooksOK /\ [ImportNext]_importVars => ImportTypeOK'
<1> SUFFICES ASSUME ImportTypeOK, BooksOK, [ImportNext]_importVars
             PROVE  ImportTypeOK'
  OBVIOUS
<1> USE DEF ledgerVars
<1> HIDE DEF Jobs, Writes, Rows, Exports, FoundRows
<1>s. /\ job["scan"].todo \subseteq Files /\ job["tree"].todo \subseteq Files
      /\ job["scan"].write \in Writes /\ job["tree"].write \in Writes
      /\ job["scan"].write.ledger = LedgerOf(job["scan"].write.imports)
      /\ job["tree"].write.ledger = LedgerOf(job["tree"].write.imports)
  BY JobParts DEF Actors, BooksOK
<1>b. faults \in 0 .. MaxFaults /\ failures \subseteq Files
      /\ \A f \in Files : inbox[f] \in Contents \cup {Absent} /\ Account(f) \in Accounts
  BY AccountAssumption DEF ImportTypeOK
<1>1. CASE UNCHANGED importVars
  BY <1>1 DEF importVars, ImportTypeOK
<1>2. ASSUME NEW f \in Files, NEW c \in Contents \cup {Absent}, Download(f, c)
      PROVE  ImportTypeOK'
  BY <1>2, BoundsAssumption DEF Download, ImportTypeOK
<1>3. ASSUME NEW f \in Files, SkipKnown(f)
      PROVE  ImportTypeOK'
  <2>1. /\ f \in job["scan"].todo /\ inbox[f] \in Contents /\ KeepOriginal(inbox[f])
        /\ Done(f, "imported", inbox[f], job["scan"].write)
        /\ UNCHANGED <<inbox, ledgerVars, found, held, steady, failures, changes, faults>>
    BY <1>3, <1>b DEF SkipKnown
  <2> QED BY <2>1, <1>s, <1>b, DoneTypes
<1>4. ASSUME NEW f \in Files, ImportFile(f)
      PROVE  ImportTypeOK'
  <2>1. /\ f \in job["scan"].todo /\ inbox[f] \in Contents /\ KeepOriginal(inbox[f])
        /\ Parses(inbox[f]) /\ held' = "scan"
        /\ Done(f, "imported", inbox[f], Booked(job["scan"].write, f, inbox[f], Account(f)))
        /\ UNCHANGED <<inbox, ledgerVars, found, steady, failures, changes, faults>>
    BY <1>4, <1>b DEF ImportFile, Importable
  <2>2. Booked(job["scan"].write, f, inbox[f], Account(f)) \in Writes
    BY <2>1, <1>s, <1>b, BookedTypes
  <2> QED BY <2>1, <2>2, <1>b, DoneTypes
<1>5. ASSUME NEW f \in Files, RejectFile(f)
      PROVE  ImportTypeOK'
  <2>1. /\ f \in job["scan"].todo /\ inbox[f] \in Contents
        /\ KeepOriginal(inbox[f]) \/ UNCHANGED retained
        /\ Done(f, "failed", inbox[f], job["scan"].write)
        /\ UNCHANGED <<inbox, ledgerVars, found, held, steady, failures, changes, faults>>
    BY <1>5, <1>b DEF RejectFile
  <2> QED BY <2>1, <1>s, <1>b, DoneTypes
<1>6. ASSUME NEW f \in Files, FailFile(f)
      PROVE  ImportTypeOK'
  <2>1. /\ f \in job["scan"].todo /\ inbox[f] \in Contents /\ KeepOriginal(inbox[f])
        /\ Done(f, "failed", inbox[f], job["scan"].write)
        /\ failures' \subseteq Files /\ faults' = faults + 1 /\ faults < MaxFaults
        /\ UNCHANGED <<inbox, ledgerVars, found, held, steady, changes>>
    BY <1>6, <1>b DEF FailFile
  <2>2. faults' \in 0 .. MaxFaults
    BY <2>1, <1>b, BoundsAssumption
  <2> QED BY <2>1, <2>2, <1>s, DoneTypes
<1>7. ASSUME NEW f \in Files, MissFile(f)
      PROVE  ImportTypeOK'
  <2>1. /\ f \in job["scan"].todo /\ Done(f, "failed", Row(f).of, job["scan"].write)
        /\ UNCHANGED <<inbox, retained, ledgerVars, found, held, steady, failures, changes, faults>>
    BY <1>7 DEF MissFile
  <2>2. Row(f).of \in Contents \cup {Absent}
    BY RowTypes DEF FoundRows
  <2> QED BY <2>1, <2>2, <1>s, <1>b, DoneTypes
<1>8. ASSUME NEW f \in Files, PassFile(f)
      PROVE  ImportTypeOK'
  <2> DEFINE x == [job["scan"] EXCEPT !.todo = @ \ {f}]
  <2>1. x \in Jobs /\ x.open /\ job["scan"].open
    BY <1>8, JobParts DEF Jobs, PassFile, Actors
  <2>2. job' = [job EXCEPT !["scan"] = x]
    BY <1>8 DEF PassFile
  <2> HIDE DEF x
  <2>3. job' \in [Actors -> Jobs] /\ job'["scan"] = x /\ job'["tree"] = job["tree"]
    BY <2>1, <2>2 DEF ImportTypeOK, Actors
  <2> QED BY <1>8, <2>1, <2>3 DEF PassFile, ImportTypeOK, Actors
<1>9. ASSUME NEW f \in Files, ImportPlanned(f)
      PROVE  ImportTypeOK'
  <2> DEFINE w == Booked(job["tree"].write, f, inbox[f], Account(f))
             x == [open |-> job["tree"].open, todo |-> job["tree"].todo \ {f}, write |-> w,
                   found |-> job["tree"].found]
  <2>1. f \in job["tree"].todo /\ inbox[f] \in Contents /\ Parses(inbox[f])
    BY <1>9, <1>b DEF ImportPlanned, Parses
  <2>2. w \in Writes
    BY <2>1, <1>s, <1>b, BookedTypes
  <2> HIDE DEF w
  <2>3. x \in Jobs /\ x.open /\ job["tree"].open
    BY <2>1, <2>2, JobParts DEF Jobs, Actors
  <2>4. job' = [job EXCEPT !["tree"] = x]
    BY <1>9 DEF ImportPlanned, w
  <2> HIDE DEF x
  <2>5. job' \in [Actors -> Jobs] /\ job'["tree"] = x /\ job'["scan"] = job["scan"]
    BY <2>3, <2>4 DEF ImportTypeOK, Actors
  <2> QED BY <1>9, <2>3, <2>5 DEF ImportPlanned, ImportTypeOK, Actors
<1>10. ASSUME NEW f \in Files, NEW r \in Accounts, ImportByHand(f, r)
       PROVE  ImportTypeOK'
  <2>1. inbox[f] \in Contents /\ Parses(inbox[f])
    BY <1>10, <1>b DEF ImportByHand, Parses
  <2>2. NoWrites.ledger = LedgerOf(NoWrites.imports)
    BY DEF NoWrites, LedgerOf
  <2>3. Booked(NoWrites, f, inbox[f], r) \in Writes
    BY <2>1, <2>2, NoJobIsJob, BookedTypes
  <2> QED BY <1>10, <2>3 DEF ImportByHand, ImportTypeOK, Writes
<1>11. CASE StartScan
  <2> DEFINE x == Begun({f \in Files : inbox[f] # Absent})
  <2>1. x \in Jobs /\ x.open
    BY NoJobIsJob DEF NoJob, Begun, Jobs
  <2>2. job' = [job EXCEPT !["scan"] = x]
    BY <1>11 DEF StartScan
  <2> HIDE DEF x
  <2>3. job' \in [Actors -> Jobs] /\ job'["scan"] = x /\ job'["tree"] = job["tree"]
    BY <2>1, <2>2 DEF ImportTypeOK, Actors
  <2> QED BY <1>11, <2>1, <2>3 DEF StartScan, ImportTypeOK, Actors
<1>12. CASE EndScan
  <2>1. \A f \in Files : Row(f) \in FoundRows
    BY RowTypes
  <2>2. found' \in [Files -> FoundRows]
    BY <1>12, <2>1 DEF EndScan
  <2>3. "scan" \in Actors /\ Commit("scan")
    BY <1>12 DEF EndScan, Actors
  <2>4. job' = [job EXCEPT !["scan"] = NoJob] /\ held' = IF held = "scan" THEN "nobody" ELSE held
    BY <2>3 DEF Commit
  <2> QED BY <1>12, <2>2, <2>3, <2>4, EndedJob, CommitTypes DEF EndScan, ImportTypeOK
<1>13. CASE CrashScan
  <2>1. "scan" \in Actors /\ job' = [job EXCEPT !["scan"] = NoJob]
        /\ held' = IF held = "scan" THEN "nobody" ELSE held
    BY <1>13 DEF CrashScan, RollBack, Actors
  <2>2. faults' \in 0 .. MaxFaults
    BY <1>13, <1>b, BoundsAssumption DEF CrashScan
  <2>3. retained' \in [Contents -> {"none", "partial", "whole"}]
    BY <1>13 DEF CrashScan, ImportTypeOK
  <2> QED BY <1>13, <2>1, <2>2, <2>3, EndedJob DEF CrashScan, RollBack, ImportTypeOK
<1>14. CASE PlanTree
  <2> DEFINE x == Begun({f \in Files : inbox[f] # Absent})
  <2>1. x \in Jobs /\ x.open
    BY NoJobIsJob DEF NoJob, Begun, Jobs
  <2>2. job' = [job EXCEPT !["tree"] = x]
    BY <1>14 DEF PlanTree
  <2> HIDE DEF x
  <2>3. job' \in [Actors -> Jobs] /\ job'["tree"] = x /\ job'["scan"] = job["scan"]
    BY <2>1, <2>2 DEF ImportTypeOK, Actors
  <2> QED BY <1>14, <2>1, <2>3 DEF PlanTree, ImportTypeOK, Actors
<1>15. CASE EndTree
  <2>1. "tree" \in Actors /\ Commit("tree")
    BY <1>15 DEF EndTree, Actors
  <2>2. job' = [job EXCEPT !["tree"] = NoJob] /\ held' = IF held = "tree" THEN "nobody" ELSE held
    BY <2>1 DEF Commit
  <2> QED BY <1>15, <2>1, <2>2, EndedJob, CommitTypes DEF EndTree, ImportTypeOK
<1>16. CASE FailTree
  <2>1. "tree" \in Actors /\ job' = [job EXCEPT !["tree"] = NoJob]
        /\ held' = IF held = "tree" THEN "nobody" ELSE held
    BY <1>16 DEF FailTree, RollBack, Actors
  <2>2. faults' \in 0 .. MaxFaults
    BY <1>16, <1>b, BoundsAssumption DEF FailTree
  <2> QED BY <1>16, <2>1, <2>2, EndedJob DEF FailTree, RollBack, ImportTypeOK
<1> QED BY <1>1, <1>2, <1>3, <1>4, <1>5, <1>6, <1>7, <1>8, <1>9, <1>10, <1>11, <1>12, <1>13,
           <1>14, <1>15, <1>16 DEF ImportNext

(* What a step writes: nothing, the import of one file in a transaction,   *)
(* what a transaction has written, or a file imported by hand.             *)
WritesNothing ==
  /\ UNCHANGED <<ledger, imports, artifacts>>
  /\ \A a \in Actors : job'[a].write \in {job[a].write, NoWrites}

WritesImport(a, f) ==
  /\ inbox[f] \in Contents /\ Parses(inbox[f])
  /\ UNCHANGED <<ledger, imports, artifacts>>
  /\ job'[a].write = Booked(job[a].write, f, inbox[f], Account(f))
  /\ \A b \in Actors \ {a} : job'[b].write = job[b].write

LEMMA WriteSteps ==
  ASSUME ImportTypeOK, [ImportNext]_importVars
  PROVE  \/ WritesNothing
         \/ \E a \in Actors, f \in Files : WritesImport(a, f)
         \/ \E a \in Actors : Commit(a)
         \/ \E f \in Files, r \in Accounts : ImportByHand(f, r)
<1> USE DEF ledgerVars
<1>b. \A f \in Files : inbox[f] \in Contents \cup {Absent}
  BY DEF ImportTypeOK
<1>w. NoJob.write = NoWrites /\ \A files : Begun(files).write = NoWrites
  BY DEF NoJob, Begun
<1>d. ASSUME NEW f \in job["scan"].todo, NEW s \in {"imported", "failed"},
             NEW c \in Contents \cup {Absent}, NEW w, Done(f, s, c, w)
      PROVE  job'["scan"].write = w /\ job'["tree"] = job["tree"]
  BY <1>d DEF Done, ImportTypeOK, Actors
<1>1. CASE UNCHANGED importVars
  BY <1>1 DEF importVars, WritesNothing
<1>2. ASSUME NEW f \in Files,
             SkipKnown(f) \/ RejectFile(f) \/ FailFile(f) \/ MissFile(f) \/ PassFile(f)
      PROVE  WritesNothing
  <2>1. UNCHANGED <<ledger, imports, artifacts>>
    BY <1>2 DEF SkipKnown, RejectFile, FailFile, MissFile, PassFile
  <2>2. job'["tree"] = job["tree"] /\ job'["scan"].write = job["scan"].write
    <3>1. CASE PassFile(f)
      <4>1. job["scan"] \in Jobs
        BY DEF ImportTypeOK, Actors
      <4> QED BY <3>1, <4>1 DEF PassFile, ImportTypeOK, Actors, Jobs
    <3>2. CASE ~PassFile(f)
      <4>1. f \in job["scan"].todo
        BY <1>2, <3>2 DEF SkipKnown, RejectFile, FailFile, MissFile
      <4>2. PICK s \in {"imported", "failed"}, c \in Contents \cup {Absent} :
               Done(f, s, c, job["scan"].write)
        <5>1. inbox[f] \in Contents \cup {Absent} /\ Row(f).of \in Contents \cup {Absent}
          BY <1>b, RowTypes DEF FoundRows
        <5>2. \/ Done(f, "imported", inbox[f], job["scan"].write)
              \/ Done(f, "failed", inbox[f], job["scan"].write)
              \/ Done(f, "failed", Row(f).of, job["scan"].write)
          BY <1>2, <3>2 DEF SkipKnown, RejectFile, FailFile, MissFile
        <5> HIDE DEF Row, Done
        <5> QED BY <5>1, <5>2
      <4> QED BY <1>d, <4>1, <4>2
    <3> QED BY <3>1, <3>2
  <2> QED BY <2>1, <2>2 DEF WritesNothing, Actors
<1>3. ASSUME NEW f \in Files, ImportFile(f)
      PROVE  WritesImport("scan", f)
  <2>1. /\ f \in job["scan"].todo /\ inbox[f] \in Contents /\ Parses(inbox[f])
        /\ Done(f, "imported", inbox[f], Booked(job["scan"].write, f, inbox[f], Account(f)))
        /\ UNCHANGED <<ledger, imports, artifacts>>
    BY <1>3, <1>b DEF ImportFile, Importable
  <2>2. job'["scan"].write = Booked(job["scan"].write, f, inbox[f], Account(f))
        /\ job'["tree"] = job["tree"]
    BY <1>d, <2>1
  <2> QED BY <2>1, <2>2 DEF WritesImport, Actors
<1>4. ASSUME NEW f \in Files, ImportPlanned(f)
      PROVE  WritesImport("tree", f)
  BY <1>4, <1>b DEF ImportPlanned, Parses, WritesImport, ImportTypeOK, Actors
<1>5. CASE StartScan \/ PlanTree \/ \E f \in Files : \E c \in Contents \cup {Absent} : Download(f, c)
  BY <1>5, <1>w DEF StartScan, PlanTree, Download, WritesNothing, ImportTypeOK, Actors
<1>6. CASE CrashScan \/ FailTree
  BY <1>6, <1>w DEF CrashScan, FailTree, RollBack, WritesNothing, ImportTypeOK, Actors
<1>7. CASE EndScan \/ EndTree
  BY <1>7 DEF EndScan, EndTree, Actors
<1> QED BY <1>1, <1>2, <1>3, <1>4, <1>5, <1>6, <1>7 DEF ImportNext, Actors

LEMMA BooksStep ==
  ImportTypeOK /\ BooksOK /\ ArtifactsOK /\ [ImportNext]_importVars => BooksOK' /\ ArtifactsOK'
<1> SUFFICES ASSUME ImportTypeOK, BooksOK, ArtifactsOK, [ImportNext]_importVars
             PROVE  BooksOK' /\ ArtifactsOK'
  OBVIOUS
<1> HIDE DEF LedgerOf
<1>n. /\ NoWrites.ledger = {} /\ NoWrites.imports = {} /\ NoWrites.artifacts = {}
      /\ LedgerOf({}) = {}
  BY DEF NoWrites, LedgerOf
<1>j. \A a \in Actors : job[a].write \in Writes /\ job[a].write.ledger = LedgerOf(job[a].write.imports)
  BY JobParts DEF BooksOK
<1>1. CASE WritesNothing
  BY <1>1, <1>n DEF WritesNothing, BooksOK, ArtifactsOK
<1>2. ASSUME NEW a \in Actors, NEW f \in Files, WritesImport(a, f)
      PROVE  BooksOK' /\ ArtifactsOK'
  <2> DEFINE v == Booked(job[a].write, f, inbox[f], Account(f))
  <2>1. /\ v.ledger = LedgerOf(v.imports)
        /\ v.imports = job[a].write.imports \cup {<<inbox[f], Account(f)>>}
        /\ v.artifacts = job[a].write.artifacts \cup {<<f, inbox[f]>>}
        /\ Account(f) \in Accounts
    BY <1>2, <1>j, BookedTypes, AccountAssumption DEF WritesImport
  <2>2. job'[a].write = v /\ UNCHANGED <<ledger, imports, artifacts>>
        /\ \A b \in Actors \ {a} : job'[b].write = job[b].write
    BY <1>2 DEF WritesImport
  <2> HIDE DEF v
  <2>3. BooksOK'
    BY <2>1, <2>2 DEF BooksOK
  <2>4. ASSUME NEW x \in v.artifacts
        PROVE  \E r \in Accounts : <<x[2], r>> \in v.imports
    <3>1. CASE x \in job[a].write.artifacts
      BY <2>1, <3>1 DEF ArtifactsOK
    <3>2. CASE x = <<f, inbox[f]>>
      BY <2>1, <3>2
    <3> QED BY <2>1, <3>1, <3>2
  <2>5. ArtifactsOK'
    BY <2>2, <2>4 DEF ArtifactsOK
  <2> QED BY <2>3, <2>5
<1>3. ASSUME NEW a \in Actors, Commit(a)
      PROVE  BooksOK' /\ ArtifactsOK'
  <2>1. /\ ledger' = ledger \cup job[a].write.ledger
        /\ imports' = imports \cup job[a].write.imports
        /\ artifacts' = artifacts \cup job[a].write.artifacts
    BY <1>3, CommitTypes
  <2>2. \A b \in Actors : job'[b].write \in {job[b].write, NoWrites}
    BY <1>3 DEF Commit, NoJob, ImportTypeOK
  <2>3. ledger' = LedgerOf(imports')
    BY <2>1, LedgerUnion DEF BooksOK
  <2> QED BY <2>1, <2>2, <2>3, <1>n DEF BooksOK, ArtifactsOK
<1>4. ASSUME NEW f \in Files, NEW r \in Accounts, ImportByHand(f, r)
      PROVE  BooksOK' /\ ArtifactsOK'
  <2> DEFINE v == Booked(NoWrites, f, inbox[f], r)
  <2>1. inbox[f] \in Contents /\ Parses(inbox[f])
    BY <1>4 DEF ImportByHand, Parses, ImportTypeOK
  <2>a. /\ v.ledger = LedgerOf(v.imports)
        /\ v.imports = NoWrites.imports \cup {<<inbox[f], r>>}
        /\ v.artifacts = NoWrites.artifacts \cup {<<f, inbox[f]>>}
    <3>1. NoWrites \in Writes /\ NoWrites.ledger = LedgerOf(NoWrites.imports)
      BY <1>n, NoJobIsJob
    <3> QED BY <2>1, <3>1, BookedTypes
  <2>2. /\ v.ledger = LedgerOf(v.imports) /\ v.imports = {<<inbox[f], r>>}
        /\ v.artifacts = {<<f, inbox[f]>>}
    <3> HIDE DEF v
    <3> QED BY <1>n, <2>a
  <2>3. /\ ledger' = ledger \cup v.ledger /\ imports' = imports \cup v.imports
        /\ artifacts' = artifacts \cup v.artifacts /\ job' = job
    BY <1>4 DEF ImportByHand
  <2> HIDE DEF v
  <2>4. ledger' = LedgerOf(imports')
    BY <2>2, <2>3, LedgerUnion DEF BooksOK
  <2>5. BooksOK'
    BY <2>3, <2>4 DEF BooksOK
  <2>6. ASSUME NEW x \in artifacts'
        PROVE  \E q \in Accounts : <<x[2], q>> \in imports'
    <3>1. CASE x \in artifacts
      BY <2>3, <3>1 DEF ArtifactsOK
    <3>2. CASE x = <<f, inbox[f]>>
      BY <2>2, <2>3, <3>2
    <3> QED BY <2>2, <2>3, <3>1, <3>2
  <2> QED BY <2>3, <2>5, <2>6 DEF ArtifactsOK
<1> QED BY <1>1, <1>2, <1>3, <1>4, WriteSteps

(* An original that is retained stays retained, and one cut short stays    *)
(* cut short.                                                              *)
LEMMA OriginalsStay ==
  ASSUME ImportTypeOK, [ImportNext]_importVars, NEW c \in Contents
  PROVE  /\ retained[c] = "whole" => retained'[c] = "whole"
         /\ retained[c] = "partial" => retained'[c] = "partial"
<1> USE DEF ledgerVars
<1>1. CASE UNCHANGED retained
  BY <1>1
<1>2. ASSUME NEW d \in Contents, KeepOriginal(d)
      PROVE  /\ retained[c] = "whole" => retained'[c] = "whole"
             /\ retained[c] = "partial" => retained'[c] = "partial"
  BY <1>2 DEF KeepOriginal, ImportTypeOK
<1>3. CASE CrashScan
  BY <1>3 DEF CrashScan, ImportTypeOK
<1>4. UNCHANGED retained \/ CrashScan \/ \E f \in Files : inbox[f] # Absent /\ KeepOriginal(inbox[f])
  BY DEF importVars, ImportNext, Download, SkipKnown, ImportFile, RejectFile, FailFile, MissFile, PassFile,
         ImportPlanned, ImportByHand, StartScan, EndScan, PlanTree, EndTree, FailTree
<1>5. \A f \in Files : inbox[f] # Absent => inbox[f] \in Contents
  BY DEF ImportTypeOK
<1> QED BY <1>1, <1>2, <1>3, <1>4, <1>5

(* What the scan has found stays so while imports only grow.               *)
LEMMA ReportStays ==
  ASSUME ImportTypeOK, FoundOK, [ImportNext]_importVars, imports \subseteq imports',
         job'["scan"].found = job["scan"].found,
         job'["scan"].write.imports = job["scan"].write.imports,
         NEW f \in DOMAIN job'["scan"].found
  PROVE  Settled(job["scan"].found[f], imports \cup job["scan"].write.imports)'
BY OriginalsStay DEF FoundOK, Settled

LEMMA FoundStays ==
  ASSUME ImportTypeOK, FoundOK, [ImportNext]_importVars, imports \subseteq imports', found' = found,
         NEW f \in Files
  PROVE  Settled(found[f], imports)'
BY OriginalsStay DEF FoundOK, Settled

(* A row the scan writes says imported only of what it found imported.     *)
LEMMA DoneReports ==
  ASSUME ImportTypeOK, FoundOK, [ImportNext]_importVars,
         NEW f \in job["scan"].todo, NEW s \in {"imported", "failed"},
         NEW c \in Contents \cup {Absent}, NEW w \in Writes, Done(f, s, c, w),
         job["scan"].write.imports \subseteq w.imports,
         UNCHANGED <<imports, found>>,
         s = "imported" =>
           /\ c \in Contents /\ retained'[c] = "whole"
           /\ \E r \in Accounts : <<c, r>> \in imports \cup w.imports
  PROVE  FoundOK'
<1>1. /\ job'["scan"].write = w
      /\ DOMAIN job'["scan"].found = DOMAIN job["scan"].found \cup {f}
      /\ job'["scan"].found[f] = [status |-> s, of |-> c]
      /\ \A g \in DOMAIN job["scan"].found \ {f} :
            job'["scan"].found[g] = job["scan"].found[g]
  BY DoneJob
<1>2. ASSUME NEW g \in DOMAIN job["scan"].found \ {f}
      PROVE  Settled(job["scan"].found[g], imports \cup job["scan"].write.imports)'
  <2>1. Settled(job["scan"].found[g], imports \cup job["scan"].write.imports)
    BY DEF FoundOK
  <2>2. job'["scan"].found[g] = job["scan"].found[g]
    BY <1>1
  <2> QED BY <1>1, <2>1, <2>2, OriginalsStay DEF Settled
<1>3. Settled(job["scan"].found[f], imports \cup job["scan"].write.imports)'
  <2>1. /\ job'["scan"].found[f].status = s /\ job'["scan"].found[f].of = c
        /\ imports' \cup job'["scan"].write.imports = imports \cup w.imports
    BY <1>1
  <2> QED BY <2>1 DEF Settled
<1>4. \A g \in Files : Settled(found[g], imports)'
  BY FoundStays
<1> QED BY <1>1, <1>2, <1>3, <1>4 DEF FoundOK

LEMMA FoundStep ==
  ImportTypeOK /\ BooksOK /\ ArtifactsOK /\ FoundOK /\ [ImportNext]_importVars => FoundOK'
<1> SUFFICES ASSUME ImportTypeOK, BooksOK, ArtifactsOK, FoundOK, [ImportNext]_importVars
             PROVE  FoundOK'
  OBVIOUS
<1> USE DEF ledgerVars
<1> HIDE DEF Settled, FoundRows, Writes, Exports
<1>s. /\ job["scan"].write \in Writes
      /\ job["scan"].write.ledger = LedgerOf(job["scan"].write.imports)
  BY JobParts DEF Actors, BooksOK
<1>b. \A f \in Files : inbox[f] \in Contents \cup {Absent} /\ Account(f) \in Accounts
  BY AccountAssumption DEF ImportTypeOK
<1>q. ASSUME found' = found, imports \subseteq imports', job'["scan"] = job["scan"]
      PROVE  FoundOK'
  <2>1. \A g \in Files : Settled(found[g], imports)'
    BY <1>q, FoundStays
  <2>2. \A g \in DOMAIN job'["scan"].found :
           Settled(job["scan"].found[g], imports \cup job["scan"].write.imports)'
    BY <1>q, ReportStays
  <2> QED BY <2>1, <2>2 DEF FoundOK
<1>e. ASSUME job'["scan"].found = NoReport, \A g \in Files : Settled(found[g], imports)'
      PROVE  FoundOK'
  BY <1>e DEF FoundOK, NoReport
<1>k. ASSUME NEW c \in Contents, Retainable(c), KeepOriginal(c)
      PROVE  retained'[c] = "whole"
  BY <1>k DEF Retainable, KeepOriginal, ImportTypeOK
<1>1. CASE UNCHANGED importVars
  BY <1>1, <1>q DEF importVars
<1>2. ASSUME NEW f \in Files, NEW c \in Contents \cup {Absent}, Download(f, c)
      PROVE  FoundOK'
  BY <1>2, <1>q DEF Download
<1>3. ASSUME NEW f \in Files, SkipKnown(f)
      PROVE  FoundOK'
  <2> DEFINE c == inbox[f]
             i == imports \cup job["scan"].write.imports
  <2>1. /\ f \in job["scan"].todo /\ c \in Contents /\ Retainable(c) /\ KeepOriginal(c)
        /\ Known(f, c) /\ Done(f, "imported", c, job["scan"].write)
        /\ UNCHANGED <<imports, found>>
    BY <1>3, <1>b DEF SkipKnown
  <2>2. \E r \in Accounts : <<c, r>> \in i
    <3>1. CASE <<f, c>> \in Seen("scan").artifacts
      BY <3>1 DEF Seen, ArtifactsOK, Actors
    <3>2. CASE Row(f) = [status |-> "imported", of |-> c]
      <4>1. CASE f \in DOMAIN job["scan"].found
        BY <3>2, <4>1 DEF Row, FoundOK, Settled
      <4>2. CASE f \notin DOMAIN job["scan"].found
        BY <3>2, <4>2 DEF Row, FoundOK, Settled
      <4> QED BY <4>1, <4>2
    <3> QED BY <2>1, <3>1, <3>2 DEF Known
  <2>3. retained'[c] = "whole"
    BY <1>k, <2>1
  <2> HIDE DEF c
  <2> QED BY <1>s, <2>1, <2>2, <2>3, DoneReports
<1>4. ASSUME NEW f \in Files, ImportFile(f)
      PROVE  FoundOK'
  <2> DEFINE c == inbox[f]
             w == Booked(job["scan"].write, f, c, Account(f))
  <2>1. /\ f \in job["scan"].todo /\ c \in Contents /\ Retainable(c) /\ KeepOriginal(c)
        /\ Parses(c) /\ Done(f, "imported", c, w) /\ UNCHANGED <<imports, found>>
    BY <1>4, <1>b DEF ImportFile, Importable
  <2>2. w \in Writes /\ w.imports = job["scan"].write.imports \cup {<<c, Account(f)>>}
    BY <1>s, <1>b, <2>1, BookedTypes
  <2>3. retained'[c] = "whole"
    BY <1>k, <2>1
  <2> HIDE DEF c, w
  <2> QED BY <1>b, <2>1, <2>2, <2>3, DoneReports
<1>5. ASSUME NEW f \in Files, RejectFile(f) \/ FailFile(f) \/ MissFile(f)
      PROVE  FoundOK'
  <2>1. f \in job["scan"].todo /\ UNCHANGED <<imports, found>>
    BY <1>5 DEF RejectFile, FailFile, MissFile
  <2>2. PICK c \in Contents \cup {Absent} : Done(f, "failed", c, job["scan"].write)
    <3>1. inbox[f] \in Contents \cup {Absent} /\ Row(f).of \in Contents \cup {Absent}
      BY <1>b, RowTypes DEF FoundRows
    <3>2. \/ Done(f, "failed", inbox[f], job["scan"].write)
          \/ Done(f, "failed", Row(f).of, job["scan"].write)
      BY <1>5 DEF RejectFile, FailFile, MissFile
    <3> HIDE DEF Row, Done
    <3> QED BY <3>1, <3>2
  <2> QED BY <1>s, <2>1, <2>2, DoneReports
<1>6. ASSUME NEW f \in Files, PassFile(f)
      PROVE  FoundOK'
  <2>1. job["scan"] \in Jobs
    BY DEF ImportTypeOK, Actors
  <2>2. /\ UNCHANGED <<imports, found>> /\ job'["scan"].found = job["scan"].found
        /\ job'["scan"].write.imports = job["scan"].write.imports
    BY <1>6, <2>1 DEF PassFile, ImportTypeOK, Actors, Jobs
  <2>3. \A g \in Files : Settled(found[g], imports)'
    BY <2>2, FoundStays
  <2>4. \A g \in DOMAIN job'["scan"].found :
           Settled(job["scan"].found[g], imports \cup job["scan"].write.imports)'
    BY <2>2, ReportStays
  <2> QED BY <2>3, <2>4 DEF FoundOK
<1>7. ASSUME NEW f \in Files, ImportPlanned(f)
      PROVE  FoundOK'
  BY <1>7, <1>q DEF ImportPlanned, ImportTypeOK, Actors
<1>8. ASSUME NEW f \in Files, NEW r \in Accounts, ImportByHand(f, r)
      PROVE  FoundOK'
  BY <1>8, <1>q DEF ImportByHand
<1>9. CASE PlanTree \/ FailTree
  BY <1>9, <1>q DEF PlanTree, FailTree, RollBack, ImportTypeOK, Actors
<1>10. CASE EndTree
  BY <1>10, <1>q DEF EndTree, Commit, Seen, ImportTypeOK, Actors
<1>11. CASE StartScan \/ CrashScan
  <2>1. job'["scan"].found = NoReport /\ UNCHANGED <<imports, found>>
    BY <1>11 DEF StartScan, CrashScan, RollBack, Begun, NoJob, ImportTypeOK, Actors
  <2>2. \A g \in Files : Settled(found[g], imports)'
    BY <2>1, FoundStays
  <2> QED BY <1>e, <2>1, <2>2
<1>12. CASE EndScan
  <2>1. job'["scan"].found = NoReport /\ imports' = imports \cup job["scan"].write.imports
    BY <1>12 DEF EndScan, Commit, Seen, NoJob, ImportTypeOK, Actors
  <2>2. ASSUME NEW g \in Files
        PROVE  Settled(found[g], imports)'
    <3>1. found'[g] = Row(g) /\ UNCHANGED retained
      BY <1>12 DEF EndScan
    <3>2. CASE g \in DOMAIN job["scan"].found
      <4>1. Settled(job["scan"].found[g], imports \cup job["scan"].write.imports)
        BY <3>2 DEF FoundOK
      <4> QED BY <2>1, <3>1, <3>2, <4>1 DEF Row, Settled
    <3>3. CASE g \notin DOMAIN job["scan"].found
      <4>1. Settled(found[g], imports)
        BY DEF FoundOK
      <4> QED BY <2>1, <3>1, <3>3, <4>1 DEF Row, Settled
    <3> QED BY <3>2, <3>3
  <2> QED BY <1>e, <2>1, <2>2
<1> QED BY <1>1, <1>2, <1>3, <1>4, <1>5, <1>6, <1>7, <1>8, <1>9, <1>10, <1>11, <1>12 DEF ImportNext

-----------------------------------------------------------------------------
(* What a scan leaves behind.                                              *)

(* The scan has dealt with a file: with what it was when the scan began.   *)
Dealt(f) ==
  \/ f \in job["scan"].todo
  \/ /\ f \in DOMAIN job["scan"].found
     /\ job["scan"].found[f] = [status |-> "imported", of |-> inbox[f]]

Due(f) == Parses(inbox[f]) /\ Account(f) \in Registered /\ retained[inbox[f]] # "partial"

LEMMA SettlesAre ==
  SettlesOK <=> (job["scan"].open => \A f \in steady \ failures : Due(f) => Dealt(f))
BY DEF SettlesOK, Due, Dealt

(* A file that is due stays the same while the scan goes on.               *)
LEMMA DueWas ==
  ASSUME ImportTypeOK, [ImportNext]_importVars, NEW f \in Files, Due(f)', inbox'[f] = inbox[f]
  PROVE  Due(f) /\ inbox[f] \in Contents
BY OriginalsStay, ContentsAssumption DEF Due, Parses, ImportTypeOK

LEMMA SettlesStep ==
  ImportInv /\ [ImportNext]_importVars => SettlesOK'
<1> SUFFICES ASSUME ImportTypeOK, BooksOK, ArtifactsOK, FoundOK, SettlesOK, [ImportNext]_importVars,
                    job'["scan"].open, NEW f \in steady' \ failures', Due(f)'
             PROVE  Dealt(f)'
  BY DEF ImportInv, SettlesOK, Due, Dealt
<1> USE DEF ledgerVars
<1>f. f \in Files
  BY ImportTypeStep DEF ImportTypeOK
<1>s. job["scan"].write \in Writes /\ "scan" \in Actors
      /\ job["scan"].write.ledger = LedgerOf(job["scan"].write.imports)
      /\ \A g \in Files : inbox[g] \in Contents \cup {Absent} /\ Account(g) \in Accounts
  BY JobParts, AccountAssumption DEF Actors, BooksOK, ImportTypeOK
<1>d. ASSUME inbox'[f] = inbox[f], f \in steady \ failures, job["scan"].open
      PROVE  Due(f) /\ Dealt(f) /\ inbox[f] \in Contents
  BY <1>d, <1>f, DueWas, SettlesAre
<1>q. ASSUME UNCHANGED inbox, steady' \ failures' \subseteq steady \ failures, job'["scan"] = job["scan"]
      PROVE  Dealt(f)'
  BY <1>q, <1>d DEF Dealt
<1>k. ASSUME NEW g \in job["scan"].todo, NEW s \in {"imported", "failed"},
             NEW c \in Contents \cup {Absent}, NEW w \in Writes, Done(g, s, c, w),
             UNCHANGED <<inbox, steady>>, failures \subseteq failures',
             g = f => s = "imported" /\ c = inbox[f]
      PROVE  Dealt(f)'
  <2>1. /\ job["scan"].open /\ job'["scan"].todo = job["scan"].todo \ {g}
        /\ DOMAIN job'["scan"].found = DOMAIN job["scan"].found \cup {g}
        /\ job'["scan"].found[g] = [status |-> s, of |-> c]
        /\ \A h \in DOMAIN job["scan"].found \ {g} :
              job'["scan"].found[h] = job["scan"].found[h]
    BY <1>k, DoneJob
  <2>2. Dealt(f)
    BY <1>d, <1>k, <2>1
  <2>3. CASE g = f
    BY <1>k, <2>1, <2>3 DEF Dealt
  <2>4. CASE g # f
    BY <1>k, <2>1, <2>2, <2>4 DEF Dealt
  <2> QED BY <2>3, <2>4
<1>1. CASE UNCHANGED importVars
  BY <1>1, <1>q DEF importVars
<1>2. ASSUME NEW g \in Files, NEW c \in Contents \cup {Absent}, Download(g, c)
      PROVE  Dealt(f)'
  <2>1. inbox'[f] = inbox[f] /\ f \in steady \ failures /\ job' = job
    BY <1>2, <1>f DEF Download, ImportTypeOK
  <2> QED BY <1>d, <2>1 DEF Dealt
<1>3. ASSUME NEW g \in Files, SkipKnown(g)
      PROVE  Dealt(f)'
  <2>1. /\ g \in job["scan"].todo /\ inbox[g] \in Contents
        /\ Done(g, "imported", inbox[g], job["scan"].write)
        /\ UNCHANGED <<inbox, steady, failures>>
    BY <1>3, <1>s DEF SkipKnown
  <2> QED BY <1>k, <1>s, <2>1
<1>4. ASSUME NEW g \in Files, ImportFile(g)
      PROVE  Dealt(f)'
  <2>1. /\ g \in job["scan"].todo /\ inbox[g] \in Contents /\ Parses(inbox[g])
        /\ Done(g, "imported", inbox[g], Booked(job["scan"].write, g, inbox[g], Account(g)))
        /\ UNCHANGED <<inbox, steady, failures>>
    BY <1>4, <1>s DEF ImportFile, Importable
  <2>2. Booked(job["scan"].write, g, inbox[g], Account(g)) \in Writes
    BY <1>s, <2>1, BookedTypes
  <2> QED BY <1>k, <2>1, <2>2
<1>5. ASSUME NEW g \in Files, RejectFile(g)
      PROVE  Dealt(f)'
  <2>1. /\ g \in job["scan"].todo /\ inbox[g] \in Contents
        /\ Done(g, "failed", inbox[g], job["scan"].write)
        /\ UNCHANGED <<inbox, steady, failures>>
        /\ IF Retainable(inbox[g]) THEN ~Importable(g, inbox[g]) ELSE UNCHANGED retained
    BY <1>5, <1>s DEF RejectFile
  <2>2. g # f
    <3> SUFFICES ASSUME g = f
                 PROVE  FALSE
      OBVIOUS
    <3>1. job["scan"].open
      BY <2>1, JobParts DEF Actors
    <3>2. Due(f)
      BY <1>d, <2>1, <3>1
    <3>3. Registered \subseteq Seen("scan").profile
      BY DEF ImportTypeOK, Seen
    <3> QED BY <2>1, <3>2, <3>3 DEF Due, Retainable, Importable
  <2> QED BY <1>k, <1>s, <2>1, <2>2
<1>6. ASSUME NEW g \in Files, FailFile(g)
      PROVE  Dealt(f)'
  <2>1. /\ g \in job["scan"].todo /\ inbox[g] \in Contents
        /\ Done(g, "failed", inbox[g], job["scan"].write)
        /\ UNCHANGED <<inbox, steady>> /\ failures' = failures \cup {g}
    BY <1>6, <1>s DEF FailFile
  <2> QED BY <1>k, <1>s, <2>1
<1>7. ASSUME NEW g \in Files, MissFile(g)
      PROVE  Dealt(f)'
  <2>1. /\ g \in job["scan"].todo /\ inbox[g] = Absent
        /\ Done(g, "failed", Row(g).of, job["scan"].write)
        /\ UNCHANGED <<inbox, steady, failures>>
    BY <1>7 DEF MissFile
  <2>2. Row(g).of \in Contents \cup {Absent}
    BY RowTypes DEF FoundRows
  <2>3. g # f
    BY <2>1 DEF Due, Parses
  <2> HIDE DEF Row
  <2> QED BY <1>k, <1>s, <2>1, <2>2, <2>3
<1>8. ASSUME NEW g \in Files, PassFile(g)
      PROVE  Dealt(f)'
  <2>1. g \in job["scan"].todo \ steady /\ UNCHANGED <<inbox, steady, failures>>
    BY <1>8 DEF PassFile
  <2>2. /\ job'["scan"].todo = job["scan"].todo \ {g}
        /\ job'["scan"].found = job["scan"].found
    BY <1>8 DEF PassFile, ImportTypeOK, Actors, Jobs
  <2>3. job["scan"].open
    BY <2>1, JobParts DEF Actors
  <2> QED BY <1>d, <2>1, <2>2, <2>3 DEF Dealt
<1>9. ASSUME NEW g \in Files, ImportPlanned(g)
      PROVE  Dealt(f)'
  BY <1>9, <1>q DEF ImportPlanned, ImportTypeOK, Actors
<1>10. ASSUME NEW g \in Files, NEW r \in Accounts, ImportByHand(g, r)
       PROVE  Dealt(f)'
  BY <1>10, <1>q DEF ImportByHand
<1>11. CASE PlanTree \/ FailTree \/ EndTree
  BY <1>11, <1>q DEF PlanTree, FailTree, RollBack, EndTree, Commit, ImportTypeOK, Actors
<1>12. CASE StartScan
  <2>1. job'["scan"].todo = {g \in Files : inbox[g] # Absent} /\ inbox' = inbox
    BY <1>12 DEF StartScan, Begun, ImportTypeOK, Actors
  <2> QED BY <1>f, <2>1 DEF Dealt, Due, Parses
<1>13. CASE EndScan \/ CrashScan
  BY <1>13 DEF EndScan, Commit, CrashScan, RollBack, NoJob, ImportTypeOK, Actors
<1> QED BY <1>1, <1>2, <1>3, <1>4, <1>5, <1>6, <1>7, <1>8, <1>9, <1>10, <1>11, <1>12, <1>13
        DEF ImportNext

-----------------------------------------------------------------------------
(* The theorems about imports.                                             *)

LEMMA InitHasImportInv == ImportInit => ImportInv
<1> SUFFICES ASSUME ImportInit
             PROVE  ImportInv
  OBVIOUS
<1>1. \A a \in Actors : job[a] = NoJob
  BY DEF ImportInit
<1>2. NoJob.write = NoWrites /\ NoWrites.ledger = {} /\ NoWrites.imports = {}
      /\ NoWrites.artifacts = {} /\ ~NoJob.open /\ DOMAIN NoJob.found = {}
  BY DEF NoJob, NoWrites, NoReport
<1>3. NotFound \in FoundRows /\ NotFound.status = "none"
  BY DEF NotFound, FoundRows
<1>4. ImportTypeOK
  <2> HIDE DEF NotFound, FoundRows, Jobs, NoJob, Rows, Exports
  <2> QED BY <1>3, NoJobIsJob, AccountAssumption, BoundsAssumption
          DEF ImportInit, ImportTypeOK, Actors
<1>5. LedgerOf({}) = {}
  BY DEF LedgerOf
<1> HIDE DEF NoJob, NoWrites, NotFound, LedgerOf
<1>6. BooksOK /\ ArtifactsOK
  BY <1>1, <1>2, <1>5 DEF ImportInit, BooksOK, ArtifactsOK
<1>7. FoundOK /\ SettlesOK
  BY <1>1, <1>2, <1>3 DEF ImportInit, FoundOK, SettlesOK, Settled, Actors
<1> QED BY <1>4, <1>6, <1>7 DEF ImportInv

LEMMA ImportKeepsInv == ImportInv /\ [ImportNext]_importVars => ImportInv'
BY ImportTypeStep, BooksStep, FoundStep, SettlesStep DEF ImportInv

LEMMA ImportInvariant == ImportSpec => []ImportInv
BY InitHasImportInv, ImportKeepsInv, PTL DEF ImportSpec

(* The variables keep their types: a job is open exactly while its         *)
(* transaction is, and the schema lock is held by an open one.             *)
THEOREM ImportTypeCorrect == ImportSpec => []ImportTypeOK
<1>1. ImportInv => ImportTypeOK
  BY DEF ImportInv
<1> QED BY <1>1, ImportInvariant, PTL

(* A download shown as imported has all its rows in the ledger and its     *)
(* original retained, whatever crashes, rollbacks and replacements of the  *)
(* file come between reading it and committing the scan.                   *)
THEOREM FoundIsWhole == ImportSpec => []ImportedWhole
<1>1. ImportInv => ImportedWhole
  <2> SUFFICES ASSUME ImportTypeOK, BooksOK, FoundOK,
                      NEW f \in Files, found[f].status = "imported"
               PROVE  /\ retained[found[f].of] = "whole"
                      /\ \E a \in Accounts :
                          /\ <<found[f].of, a>> \in imports
                          /\ Fingerprints(found[f].of, a) \subseteq ledger
    BY DEF ImportInv, ImportedWhole
  <2>1. retained[found[f].of] = "whole"
    BY DEF FoundOK, Settled
  <2>2. PICK r \in Accounts : <<found[f].of, r>> \in imports
    BY DEF FoundOK, Settled
  <2>3. found[f].of \in [Keys -> Nat]
    BY <2>2, ContentsAssumption DEF ImportTypeOK, Exports
  <2>4. Fingerprints(found[f].of, r) = LedgerOf({<<found[f].of, r>>})
    BY <2>3, LedgerOfOne
  <2>5. LedgerOf({<<found[f].of, r>>}) \subseteq ledger
    BY <2>2 DEF BooksOK, LedgerOf
  <2> QED BY <2>1, <2>2, <2>4, <2>5
<1> QED BY <1>1, ImportInvariant, PTL

(* An account has as many identical rows as the export that shows the most *)
(* of them, however often, in which order and under which names exports of *)
(* overlapping periods are imported.                                       *)
THEOREM RowsAreBookedOnce == ImportSpec => []BookedOnce
<1>1. ImportInv => BookedOnce
  <2> SUFFICES ASSUME ImportTypeOK, BooksOK, NEW a \in Accounts, NEW k \in Keys
               PROVE  {r \in ledger : r[1] = a /\ r[2] = k}
                        = {<<a, k, n>> :
                             n \in UNION {1 .. i[1][k] : i \in {x \in imports : x[2] = a}}}
    BY DEF ImportInv, BookedOnce
  <2> DEFINE Mine == {x \in imports : x[2] = a}
             Counts == UNION {1 .. i[1][k] : i \in Mine}
  <2>1. \A i \in imports : i[1] \in [Keys -> Nat] /\ i[1][k] \in Nat
    BY ContentsAssumption DEF ImportTypeOK, Exports
  <2>2. ASSUME NEW r \in ledger, r[1] = a, r[2] = k
        PROVE  r[3] \in Counts /\ r = <<a, k, r[3]>>
    <3>1. PICK x \in imports : x[2] = a /\ r[3] <= x[1][k]
      BY <2>2 DEF BooksOK, LedgerOf
    <3>2. r \in Rows
      BY DEF ImportTypeOK
    <3>3. r[3] \in Nat \ {0} /\ r = <<a, k, r[3]>>
      BY <2>2, <3>2 DEF Rows
    <3>4. r[3] \in 1 .. x[1][k]
      BY <2>1, <3>1, <3>3
    <3> QED BY <3>1, <3>3, <3>4
  <2>3. ASSUME NEW n \in Counts
        PROVE  <<a, k, n>> \in ledger
    <3>1. PICK x \in imports : x[2] = a /\ n \in 1 .. x[1][k]
      OBVIOUS
    <3>2. n \in Nat \ {0} /\ n <= x[1][k]
      BY <2>1, <3>1
    <3>3. <<a, k, n>> \in Rows
      BY <3>2 DEF Rows
    <3> QED BY <3>1, <3>2, <3>3 DEF BooksOK, LedgerOf
  <2> HIDE DEF Counts
  <2>4. {r \in ledger : r[1] = a /\ r[2] = k} = {<<a, k, n>> : n \in Counts}
    BY <2>2, <2>3
  <2> QED BY <2>4 DEF Counts
<1> QED BY <1>1, ImportInvariant, PTL

(* A scan that commits leaves no download behind that it could import: one *)
(* that was not replaced while it ran, parses, belongs to a configured     *)
(* account, was not failed by the database and has no original that a      *)
(* crash cut short.                                                        *)
THEOREM ScanLeavesNothing == ImportSpec => ScanSettles
<1> DEFINE Leaves ==
      job["scan"].open /\ ~job'["scan"].open /\ faults' = faults =>
          \A f \in steady \ failures :
              /\ Parses(inbox[f]) /\ Account(f) \in Registered
              /\ retained[inbox[f]] # "partial"
              => found'[f] = [status |-> "imported", of |-> inbox[f]]
<1>1. ImportInv /\ [ImportNext]_importVars => [Leaves]_importVars
  <2> SUFFICES ASSUME ImportTypeOK, SettlesOK, ImportNext,
                      job["scan"].open, ~job'["scan"].open, faults' = faults,
                      NEW f \in steady \ failures, Due(f)
               PROVE  found'[f] = [status |-> "imported", of |-> inbox[f]]
    BY DEF ImportInv, Due, importVars
  <2>f. f \in Files
    BY DEF ImportTypeOK
  <2>1. EndScan
    <3> USE DEF ImportTypeOK, Actors
    <3>1. ASSUME NEW g \in Files, NEW s, NEW c, NEW w, Done(g, s, c, w)
          PROVE  FALSE
      BY <3>1 DEF Done
    <3>2. ASSUME NEW g \in Files, SkipKnown(g) \/ ImportFile(g) \/ RejectFile(g)
                                  \/ FailFile(g) \/ MissFile(g)
          PROVE  FALSE
      BY <3>1, <3>2 DEF SkipKnown, ImportFile, RejectFile, FailFile, MissFile
    <3>3. ASSUME NEW g \in Files, PassFile(g)
          PROVE  FALSE
      BY <3>3 DEF PassFile, Jobs
    <3>4. ASSUME NEW g \in Files, NEW r, NEW c, Download(g, c) \/ ImportPlanned(g) \/ ImportByHand(g, r)
          PROVE  FALSE
      BY <3>4 DEF Download, ImportPlanned, ImportByHand
    <3>5. ~StartScan /\ ~PlanTree /\ ~EndTree /\ ~FailTree
      BY DEF StartScan, PlanTree, EndTree, FailTree, Commit, RollBack
    <3>6. ~CrashScan
      BY DEF CrashScan
    <3> QED BY <3>2, <3>3, <3>4, <3>5, <3>6 DEF ImportNext
  <2>2. job["scan"].todo = {} /\ found'[f] = Row(f)
    BY <2>f, <2>1 DEF EndScan
  <2>3. Dealt(f)
    BY SettlesAre
  <2> QED BY <2>2, <2>3 DEF Dealt, Row
<1> QED BY <1>1, ImportInvariant, PTL DEF ImportSpec, ScanSettles

-----------------------------------------------------------------------------
(* Splits of transactions.                                                 *)

(* What an editor has read is what is saved, or was saved before.          *)
EditorsOK ==
  /\ split = [t \in Transactions |-> split[t]]
  /\ version \in [Transactions -> Nat]
  /\ editor = [e \in Editors |-> editor[e]]
  /\ \A e \in Editors :
        editor[e].at # "away" =>
          /\ editor[e].at \in {"reading", "open"}
          /\ editor[e].of \in Transactions /\ editor[e].since \in Nat
          /\ editor[e].since <= version[editor[e].of]
          /\ editor[e].since = version[editor[e].of] => editor[e].rows = split[editor[e].of]

(* A save counts the version up and changes nothing else of the split's.   *)
LEMMA SaveChanges ==
  ASSUME EditorsOK, NEW e \in Editors, NEW plan, Save(e, plan)
  PROVE  /\ editor[e].at = "open" /\ editor[e].of \in Transactions
         /\ version' \in [Transactions -> Nat]
         /\ version'[editor[e].of] = version[editor[e].of] + 1
         /\ \A t \in Transactions \ {editor[e].of} : version'[t] = version[t] /\ split'[t] = split[t]
         /\ split' = [t \in Transactions |-> split'[t]]
         /\ split'[editor[e].of] = [i \in DOMAIN plan |->
                                      [amount |-> plan[i].amount, receipt |-> Link(plan[i])]]
         /\ editor' = [editor EXCEPT ![e] = Away]
<1> DEFINE t == editor[e].of
           new == [i \in DOMAIN plan |-> [amount |-> plan[i].amount, receipt |-> Link(plan[i])]]
<1>1. /\ editor[e].at = "open" /\ editor' = [editor EXCEPT ![e] = Away]
      /\ version' = [version EXCEPT ![t] = version[t] + 1] /\ split' = [split EXCEPT ![t] = new]
  BY DEF Save
<1>2. t \in Transactions /\ version \in [Transactions -> Nat] /\ version[t] + 1 \in Nat
      /\ split = [u \in Transactions |-> split[u]]
  BY <1>1 DEF EditorsOK
<1> HIDE DEF t, new
<1>3. version' \in [Transactions -> Nat] /\ version'[t] = version[t] + 1
      /\ \A u \in Transactions \ {t} : version'[u] = version[u]
  BY <1>1, <1>2
<1>4. split'[t] = new /\ (\A u \in Transactions \ {t} : split'[u] = split[u])
      /\ split' = [u \in Transactions |-> split'[u]]
  BY <1>1, <1>2
<1> QED BY <1>1, <1>2, <1>3, <1>4 DEF t, new

LEMMA EditorsStep == EditorsOK /\ [Next]_vars => EditorsOK'
<1> SUFFICES ASSUME EditorsOK, [Next]_vars
             PROVE  EditorsOK'
  OBVIOUS
<1> USE DEF receiptVars
<1>q. ASSUME UNCHANGED <<split, version, editor>>
      PROVE  EditorsOK'
  BY <1>q DEF EditorsOK
<1>1. CASE UNCHANGED vars
  BY <1>1, <1>q DEF vars
<1>2. ASSUME NEW e \in Editors, NEW t \in Transactions, ReadRows(e, t)
      PROVE  EditorsOK'
  <2> DEFINE x == [at |-> "reading", of |-> t, rows |-> split[t], since |-> version[t]]
  <2>1. /\ editor' = [editor EXCEPT ![e] = x] /\ UNCHANGED <<split, version>>
        /\ version[t] \in Nat
    BY <1>2 DEF ReadRows, EditorsOK
  <2>2. x.at = "reading" /\ x.of = t /\ x.since = version[t] /\ x.rows = split[t]
    OBVIOUS
  <2> HIDE DEF x
  <2> QED BY <2>1, <2>2 DEF EditorsOK
<1>3. ASSUME NEW e \in Editors, ReadVersion(e)
      PROVE  EditorsOK'
  <2> DEFINE x == [at |-> "open", of |-> editor[e].of, rows |-> editor[e].rows,
                   since |-> editor[e].since, version |-> version[editor[e].of],
                   shown |-> expense]
  <2>1. /\ editor' = [editor EXCEPT ![e] = x] /\ UNCHANGED <<split, version>>
        /\ editor[e].at = "reading"
    BY <1>3 DEF ReadVersion
  <2>2. x.at = "open" /\ x.of = editor[e].of /\ x.since = editor[e].since /\ x.rows = editor[e].rows
    OBVIOUS
  <2> HIDE DEF x
  <2> QED BY <2>1, <2>2 DEF EditorsOK
<1>4. ASSUME NEW e \in Editors, NEW plan, Save(e, plan)
      PROVE  EditorsOK'
  <2> DEFINE t == editor[e].of
  <2>1. /\ t \in Transactions /\ version' \in [Transactions -> Nat]
        /\ version'[t] = version[t] + 1 /\ version[t] \in Nat
        /\ \A u \in Transactions \ {t} : version'[u] = version[u] /\ split'[u] = split[u]
        /\ split' = [u \in Transactions |-> split'[u]]
        /\ editor' = [editor EXCEPT ![e] = Away]
    BY <1>4, SaveChanges DEF EditorsOK
  <2>2. Away.at = "away"
    BY DEF Away
  <2> HIDE DEF t
  <2>3. \A f \in Editors : editor'[f] = IF f = e THEN Away ELSE editor[f]
    BY <2>1 DEF EditorsOK
  <2>4. ASSUME NEW f \in Editors \ {e}, editor[f].at # "away"
        PROVE  /\ editor[f].since <= version'[editor[f].of]
               /\ editor[f].since = version'[editor[f].of] => editor[f].rows = split'[editor[f].of]
    <3>1. CASE editor[f].of = t
      BY <2>1, <2>4, <3>1 DEF EditorsOK
    <3>2. CASE editor[f].of # t
      BY <2>1, <2>4, <3>2 DEF EditorsOK
    <3> QED BY <3>1, <3>2
  <2> QED BY <2>1, <2>2, <2>3, <2>4 DEF EditorsOK
<1>5. ASSUME NEW e \in Editors, Leave(e)
      PROVE  EditorsOK'
  BY <1>5 DEF Leave, Away, EditorsOK
<1>6. ASSUME NEW r \in Receipts, NEW x, Renumber(r, x) \/ Hide(r)
      PROVE  EditorsOK'
  BY <1>6, <1>q DEF Renumber, Hide
<1> QED BY <1>1, <1>2, <1>3, <1>4, <1>5, <1>6 DEF Next

(* Only its own save ends an editor's page with a new version.             *)
LEMMA OwnSave ==
  ASSUME EditorsOK, [Next]_vars, NEW e \in Editors, Saves(e)
  PROVE  \E plan : Save(e, plan)
<1> USE DEF receiptVars
<1>1. /\ editor[e].at = "open" /\ editor'[e] = Away /\ editor[e].of \in Transactions
      /\ version[editor[e].of] \in Nat /\ version'[editor[e].of] > version[editor[e].of]
  BY DEF Saves, EditorsOK
<1>2. version' # version
  BY <1>1
<1>3. PICK f \in Editors : \E plan : Save(f, plan)
  BY <1>2 DEF Next, vars, ReadRows, ReadVersion, Leave, Renumber, Hide
<1>4. f = e
  <2>1. editor' = [editor EXCEPT ![f] = Away]
    BY <1>3, SaveChanges
  <2>2. f # e => editor'[e] = editor[e]
    BY <2>1 DEF EditorsOK
  <2>3. Away.at = "away"
    BY DEF Away
  <2> QED BY <1>1, <2>2, <2>3
<1> QED BY <1>3, <1>4

LEMMA EditorsInvariant == Spec => []EditorsOK
<1>1. Init => EditorsOK
  BY DEF Init, EditorsOK, Away
<1> QED BY <1>1, EditorsStep, PTL DEF Spec

(* Of two editors of one transaction the second is refused: a save         *)
(* replaces the rows that its editor saw.                                  *)
THEOREM SavesReplaceWhatWasSeen == Spec => SeenReplaced
<1> DEFINE Replaced(e) == Saves(e) /\ editor[e].since = editor[e].version =>
                         split[editor[e].of] = editor[e].rows
<1>1. EditorsOK /\ [Next]_vars => [\A e \in Editors : Replaced(e)]_vars
  <2> SUFFICES ASSUME EditorsOK, [Next]_vars, NEW e \in Editors,
                      Saves(e), editor[e].since = editor[e].version
               PROVE  split[editor[e].of] = editor[e].rows
    OBVIOUS
  <2>1. PICK plan : Save(e, plan)
    BY OwnSave
  <2>2. editor[e].at = "open" /\ editor[e].version = version[editor[e].of]
    BY <2>1 DEF Save, SameVersion
  <2> QED BY <2>2 DEF EditorsOK
<1> QED BY <1>1, EditorsInvariant, PTL DEF Spec, SeenReplaced

(* A row saved with a link keeps that receipt, however the expense numbers *)
(* moved between the page and the save.                                    *)
THEOREM LinksAreKept == Spec => LinksStand
<1> DEFINE LinksKept(e) == Saves(e) =>
             \A plan \in PlansOf(e) :
                 Save(e, plan) =>
                     \A i \in DOMAIN plan :
                         plan[i].receipt # None =>
                             split'[editor[e].of][i].receipt = plan[i].receipt
<1>1. EditorsOK /\ [Next]_vars => [\A e \in Editors : LinksKept(e)]_vars
  <2> SUFFICES ASSUME EditorsOK, [Next]_vars, NEW e \in Editors, NEW plan, Save(e, plan),
                      NEW i \in DOMAIN plan, plan[i].receipt # None
               PROVE  split'[editor[e].of][i].receipt = plan[i].receipt
    OBVIOUS
  <2>1. split'[editor[e].of] = [j \in DOMAIN plan |->
                                  [amount |-> plan[j].amount, receipt |-> Link(plan[j])]]
    BY SaveChanges
  <2>2. split'[editor[e].of][i].receipt = Link(plan[i])
    BY <2>1
  <2>3. Linkable(editor[e].of, plan[i])
    BY DEF Save
  <2> QED BY <2>2, <2>3 DEF Linkable, Link
<1> QED BY <1>1, EditorsInvariant, PTL DEF Spec, LinksStand
=============================================================================

------------------------- MODULE Calculations_proofs -------------------------
(***************************************************************************)
(* Theorems about the calculations on what a receipt shows: the decisions  *)
(* from repeated readings, the page chosen from the engines' readings, the *)
(* seller read in the header, and the items stored of a store's receipt -  *)
(* for every set of readings, pages and documents, of any length and in    *)
(* any order.                                                              *)
(***************************************************************************)
EXTENDS OcrEvidence, OcrPages, Merchants, CostcoReceipts,
        FiniteSetTheorems, WellFoundedInduction, TLAPS

-----------------------------------------------------------------------------
(* Finite sets, and the least number of a set of them.                     *)

(* The order of the natural numbers is well founded.                       *)
LEMMA SmallerIsWellFounded ==
  \E R : /\ IsWellFoundedOn(R, Nat)
         /\ \A m, n \in Nat : <<n, m>> \in R <=> n < m
<1>1. \A m, n \in Nat : <<n, m>> \in OpToRel(<, Nat) <=> n < m
  BY DEF OpToRel
<1> QED BY <1>1, NatLessThanWellFounded, Zenon

(* Every nonempty set of natural numbers has a least one.                  *)
LEMMA LeastNatural ==
  ASSUME NEW S \in SUBSET Nat, S # {}
  PROVE  \E m \in S : \A n \in S : m <= n
<1>1. PICK R : /\ IsWellFoundedOn(R, Nat)
               /\ \A m, n \in Nat : <<n, m>> \in R <=> n < m
  BY SmallerIsWellFounded
<1>2. \E m \in S : \A n \in S : ~(<<n, m>> \in R)
  BY <1>1, WFMin
<1>3. PICK m \in S : \A n \in S : ~(<<n, m>> \in R)
  BY <1>2
<1>4. ASSUME NEW n \in S
      PROVE  m <= n
  <2>1. m \in Nat /\ n \in Nat
    OBVIOUS
  <2>2. <<n, m>> \in R <=> n < m
    BY <1>1, <2>1
  <2> QED BY <1>3, <2>1, <2>2
<1> QED BY <1>4

(* What a finite set maps to is finite.                                    *)
LEMMA ImageIsFinite ==
  ASSUME NEW S, IsFiniteSet(S), NEW f
  PROVE  IsFiniteSet({f[x] : x \in S})
<1> DEFINE T == {f[x] : x \in S}
           g == [x \in S |-> f[x]]
<1>1. g \in Surjection(S, T)
  BY DEF Surjection
<1> HIDE DEF T, g
<1>2. IsFiniteSet(T)
  BY <1>1, FS_Surjection
<1> QED BY <1>2 DEF T

(* What a set of one element holds.                                        *)
LEMMA SingleIs ==
  ASSUME NEW S, IsFiniteSet(S), IsSingle(S)
  PROVE  S = {Only(S)}
<1>1. \E x : S = {x}
  BY FS_Singleton DEF IsSingle
<1> QED BY <1>1 DEF Only

-----------------------------------------------------------------------------
(* The best of several: tuples compare lexicographically.                  *)

(* The keys a choice compares: n numbers.                                  *)
Keys(n) == [1..n -> Int]

(* Of two different keys, one is below the other.                          *)
LEMMA LexTotal ==
  ASSUME NEW n \in Nat, NEW a \in Keys(n), NEW b \in Keys(n), a # b
  PROVE  Below(a, b) \/ Below(b, a)
<1> DEFINE D == {k \in 1..n : a[k] # b[k]}
<1>1. D # {} /\ D \in SUBSET Nat
  BY DEF Keys
<1>2. PICK k \in D : \A j \in D : k <= j
  BY <1>1, LeastNatural
<1>3. \A j \in 1..(k - 1) : a[j] = b[j]
  BY <1>2
<1>4. a[k] < b[k] \/ b[k] < a[k]
  BY <1>2 DEF Keys
<1> QED BY <1>2, <1>3, <1>4 DEF Below, Keys

(* No key is both below and above another.                                 *)
LEMMA LexAsym ==
  ASSUME NEW n \in Nat, NEW a \in Keys(n), NEW b \in Keys(n), Below(a, b)
  PROVE  ~Below(b, a)
<1> SUFFICES ASSUME Below(b, a) PROVE FALSE
  OBVIOUS
<1>1. PICK k \in 1..n : a[k] < b[k] /\ \A j \in 1..(k - 1) : a[j] = b[j]
  BY DEF Below, Keys
<1>2. PICK m \in 1..n : b[m] < a[m] /\ \A j \in 1..(m - 1) : b[j] = a[j]
  BY DEF Below, Keys
<1>3. a[k] \in Int /\ b[k] \in Int /\ a[m] \in Int /\ b[m] \in Int
  BY DEF Keys
<1> QED BY <1>1, <1>2, <1>3

(* The order of the keys is transitive.                                    *)
LEMMA LexTrans ==
  ASSUME NEW n \in Nat, NEW a \in Keys(n), NEW b \in Keys(n), NEW c \in Keys(n),
         Below(a, b), Below(b, c)
  PROVE  Below(a, c)
<1>1. PICK k \in 1..n : a[k] < b[k] /\ \A j \in 1..(k - 1) : a[j] = b[j]
  BY DEF Below, Keys
<1>2. PICK m \in 1..n : b[m] < c[m] /\ \A j \in 1..(m - 1) : b[j] = c[j]
  BY DEF Below, Keys
<1>3. /\ a[k] \in Int /\ b[k] \in Int /\ a[m] \in Int /\ b[m] \in Int
      /\ c[k] \in Int /\ c[m] \in Int
  BY DEF Keys
<1>4. PICK i \in 1..n : i = IF k <= m THEN k ELSE m
  OBVIOUS
<1>5. a[i] < c[i]
  BY <1>1, <1>2, <1>3, <1>4
<1>6. \A j \in 1..(i - 1) : a[j] = c[j]
  BY <1>1, <1>2, <1>4
<1> QED BY <1>5, <1>6 DEF Below, Keys

(* What Best chooses by.                                                   *)
Leads(r, o) == ~Below(r.key, o.key) /\ (o.at < r.at => Below(o.key, r.key))
(* Strictly better, or as good and not later: a total order of the         *)
(* entries.                                                                *)
Ahead(r, o) == Below(o.key, r.key) \/ (r.key = o.key /\ r.at <= o.at)

(* Any two entries compare, and who is ahead leads.                        *)
LEMMA AheadLeads ==
  ASSUME NEW n \in Nat, NEW r, NEW o, r.key \in Keys(n), o.key \in Keys(n),
         r.at \in Int, o.at \in Int
  PROVE  /\ Ahead(r, o) \/ Ahead(o, r)
         /\ Ahead(r, o) => Leads(r, o)
         /\ Ahead(r, r)
<1>1. ~Below(r.key, r.key)
  BY LexAsym
<1>2. r.key = o.key \/ Below(r.key, o.key) \/ Below(o.key, r.key)
  BY LexTotal
<1>3. ~(Below(r.key, o.key) /\ Below(o.key, r.key))
  BY LexAsym
<1> QED BY <1>1, <1>2, <1>3 DEF Ahead, Leads

(* The order of the entries is transitive.                                 *)
LEMMA AheadTrans ==
  ASSUME NEW n \in Nat, NEW p, NEW q, NEW r,
         p.key \in Keys(n), q.key \in Keys(n), r.key \in Keys(n),
         p.at \in Int, q.at \in Int, r.at \in Int,
         Ahead(p, q), Ahead(q, r)
  PROVE  Ahead(p, r)
<1>1. Below(r.key, q.key) /\ Below(q.key, p.key) => Below(r.key, p.key)
  BY LexTrans
<1> QED BY <1>1 DEF Ahead

(* Best really chooses: in a finite set of entries there is one that       *)
(* leads.                                                                  *)
LEMMA BestIs ==
  ASSUME NEW n \in Nat, NEW S, IsFiniteSet(S), S # {},
         \A r \in S : r.key \in Keys(n) /\ r.at \in Int
  PROVE  Best(S) \in S /\ \A o \in S : Leads(Best(S), o)
<1> DEFINE Headed(T) == \E r \in T : \A o \in T : Ahead(r, o)
           Sizes == {m \in Nat : \E T \in SUBSET S : T # {} /\ Cardinality(T) = m /\ ~Headed(T)}
<1>1. ASSUME Sizes # {} PROVE FALSE
  <2>1. PICK m \in Sizes : \A k \in Sizes : m <= k
    BY <1>1, LeastNatural
  <2>2. PICK T \in SUBSET S : T # {} /\ Cardinality(T) = m /\ ~Headed(T)
    BY <2>1
  <2>3. PICK x : x \in T
    BY <2>2
  <2> DEFINE U == T \ {x}
  <2>4. IsFiniteSet(T) /\ IsFiniteSet(U) /\ Cardinality(U) = m - 1 /\ U \in SUBSET S
    BY <2>2, <2>3, FS_Subset, FS_RemoveElement
  <2>5. x.key \in Keys(n) /\ x.at \in Int
    BY <2>2, <2>3
  <2>6. Ahead(x, x)
    BY <2>5, AheadLeads
  <2>7. U # {}
    BY <2>2, <2>3, <2>6
  <2>8. m - 1 \in Nat
    BY <2>4, FS_CardinalityType
  <2>9. Headed(U)
    <3>1. m - 1 \notin Sizes
      BY <2>1, <2>8
    <3> QED BY <3>1, <2>4, <2>7, <2>8
  <2>10. PICK r \in U : \A o \in U : Ahead(r, o)
    BY <2>9
  <2>11. r \in S /\ r.key \in Keys(n) /\ r.at \in Int /\ r \in T
    BY <2>4, <2>10
  <2>12. CASE Ahead(r, x)
    BY <2>2, <2>10, <2>11, <2>12
  <2>13. CASE Ahead(x, r)
    <3>1. ASSUME NEW o \in T PROVE Ahead(x, o)
      <4>1. CASE o = x
        BY <4>1, <2>6
      <4>2. CASE o # x
        <5>1. o \in U /\ o.key \in Keys(n) /\ o.at \in Int
          BY <4>2, <2>4
        <5> QED BY <5>1, <2>5, <2>10, <2>11, <2>13, AheadTrans
      <4> QED BY <4>1, <4>2
    <3> QED BY <3>1, <2>2, <2>3
  <2> QED BY <2>5, <2>11, <2>12, <2>13, AheadLeads
<1>2. Cardinality(S) \in Nat
  BY FS_CardinalityType
<1>3. Headed(S)
  BY <1>1, <1>2
<1>4. PICK r \in S : \A o \in S : Ahead(r, o)
  BY <1>3
<1>5. \A o \in S : Leads(r, o)
  BY <1>4, AheadLeads
<1> QED BY <1>5 DEF Best, Leads

-----------------------------------------------------------------------------
(* Least elements, and places.                                             *)

(* Min of a nonempty set of natural numbers is its least element.          *)
LEMMA LeastOfNaturals ==
  ASSUME NEW S \in SUBSET Nat, S # {}
  PROVE  Min(S) \in S /\ \A n \in S : Min(S) <= n
<1>1. PICK m \in S : \A n \in S : m <= n
  BY LeastNatural
<1> QED BY <1>1 DEF Min

(* A list has finitely many places.                                        *)
LEMMA PlacesOf ==
  ASSUME NEW S, NEW s \in Seq(S)
  PROVE  DOMAIN s = 1..Len(s) /\ Len(s) \in Nat /\ IsFiniteSet(DOMAIN s)
<1>1. DOMAIN s = 1..Len(s) /\ Len(s) \in Nat
  OBVIOUS
<1> QED BY <1>1, FS_Interval

-----------------------------------------------------------------------------
(* The decisions from repeated readings.                                   *)

(* The two sequences show the same readings, in whatever order and number. *)
SameReadings(s, t) ==
  /\ \A k \in DOMAIN s : \E j \in DOMAIN t : t[j] = s[k]
  /\ \A j \in DOMAIN t : \E k \in DOMAIN s : s[k] = t[j]

(* A repeated pass shows nothing new.                                      *)
LEMMA RepeatedReading ==
  ASSUME NEW S, NEW s \in Seq(S), NEW i \in DOMAIN s
  PROVE  SameReadings(Append(s, s[i]), s)
<1> DEFINE t == Append(s, s[i])
<1>1. /\ DOMAIN t = 1 .. Len(s) + 1 /\ DOMAIN s = 1 .. Len(s) /\ Len(s) \in Nat
      /\ \A k \in DOMAIN s : t[k] = s[k]
      /\ t[Len(s) + 1] = s[i]
  OBVIOUS
<1>2. DOMAIN t = DOMAIN s \cup {Len(s) + 1}
  BY <1>1
<1> HIDE DEF t
<1> QED BY <1>1, <1>2 DEF SameReadings, t

-----------------------------------------------------------------------------
(* The price of a row.                                                     *)

(* The readings at some places of s are those at some places of t.         *)
SameAt(s, a, t, b) ==
  /\ \A k \in a : \E j \in b : t[j] = s[k]
  /\ \A j \in b : \E k \in a : s[k] = t[j]

(* The readings a price may come from are the same.                        *)
LEMMA EligibleSame ==
  ASSUME NEW row, NEW s, NEW t, SameReadings(s, t)
  PROVE  SameAt(s, EligiblePrices(row, s), t, EligiblePrices(row, t))
<1>1. {s[i].value : i \in {k \in DOMAIN s : s[k].kind = "literal"}}
        = {t[i].value : i \in {k \in DOMAIN t : t[k].kind = "literal"}}
  BY DEF SameReadings
<1> QED BY <1>1 DEF SameReadings, EligiblePrices, SameAt

(* What the decision asks of the eligible readings.                        *)
LEMMA ReadSame ==
  ASSUME NEW s, NEW t, NEW a, NEW b, SameAt(s, a, t, b), NEW v
  PROVE  ReadWith(s, a, v) = ReadWith(t, b, v)
BY DEF ReadWith, SameAt

(* The values two engines of a run agreed on are the same.                 *)
LEMMA EnginesSame ==
  ASSUME NEW s, NEW t, NEW a, NEW b, SameAt(s, a, t, b)
  PROVE  TwoEngines(s, a) = TwoEngines(t, b)
<1> DEFINE Engines(q, c, v, run) ==
             {r.engine : r \in {x \in ReadWith(q, c, v) : x.run = run}} \ {None}
           Agreed(q, c, v) ==
             \E run \in {q[i].run : i \in c} \ {None} : Cardinality(Engines(q, c, v, run)) >= 2
<1>1. ASSUME NEW v, NEW run
      PROVE  Engines(s, a, v, run) = Engines(t, b, v, run)
  <2>1. ReadWith(s, a, v) = ReadWith(t, b, v)
    BY ReadSame
  <2> QED BY ONLY <2>1
<1>2. {s[i].value : i \in a} = {t[i].value : i \in b} /\ {s[i].run : i \in a} = {t[i].run : i \in b}
  BY DEF SameAt
<1>3. /\ TwoEngines(s, a) = {v \in {s[i].value : i \in a} : Agreed(s, a, v)}
      /\ TwoEngines(t, b) = {v \in {t[i].value : i \in b} : Agreed(t, b, v)}
  BY ONLY TRUE DEF TwoEngines
<1> HIDE DEF Engines
<1>4. ASSUME NEW v
      PROVE  Agreed(s, a, v) <=> Agreed(t, b, v)
  BY <1>1, <1>2
<1> HIDE DEF Agreed
<1> QED BY ONLY <1>2, <1>3, <1>4

(* The values two renders agreed on are the same.                          *)
LEMMA RendersSame ==
  ASSUME NEW row, NEW s, NEW t, NEW a, NEW b, SameAt(s, a, t, b)
  PROVE  TwoRenders(row, s, a) = TwoRenders(row, t, b)
<1> DEFINE Renders(q, c, v) == {r.render : r \in {x \in ReadWith(q, c, v) : x.currency}}
           Agreed(q, c, v) == DollarAsDigit(row.value, v) /\ Cardinality(Renders(q, c, v)) >= 2
<1>1. ASSUME NEW v
      PROVE  Renders(s, a, v) = Renders(t, b, v)
  <2>1. ReadWith(s, a, v) = ReadWith(t, b, v)
    BY ReadSame
  <2> QED BY ONLY <2>1
<1>2. {s[i].value : i \in a} = {t[i].value : i \in b}
  BY DEF SameAt
<1>3. /\ TwoRenders(row, s, a) = {v \in {s[i].value : i \in a} : Agreed(s, a, v)}
      /\ TwoRenders(row, t, b) = {v \in {t[i].value : i \in b} : Agreed(t, b, v)}
  BY ONLY TRUE DEF TwoRenders
<1> HIDE DEF Renders
<1>4. ASSUME NEW v
      PROVE  Agreed(s, a, v) <=> Agreed(t, b, v)
  BY <1>1
<1> HIDE DEF Agreed
<1> QED BY ONLY <1>2, <1>3, <1>4

(* Whether one value stands out is decided the same way.                   *)
LEMMA ClearSame ==
  ASSUME NEW row, NEW s, NEW t, NEW a, NEW b, SameAt(s, a, t, b)
  PROVE  ClearReading(row, s, a) = ClearReading(row, t, b)
<1> DEFINE Quality(q, c, v) ==
             Max({0} \cup {r.confidence :
                   r \in {x \in ReadWith(q, c, v) : x.currency /\ x.confidence # None}})
           Opponents(q, c, v) ==
             {r.confidence : r \in {q[i] : i \in c} \ ReadWith(q, c, v)}
               \cup (IF row.value \notin {None, v} /\ row.confidence \notin {None, 0}
                     THEN {row.confidence} ELSE {})
           Clear(q, c, v) == /\ Quality(q, c, v) >= MinConfidence
                             /\ Opponents(q, c, v) # {} /\ None \notin Opponents(q, c, v)
                             /\ Quality(q, c, v) - Max(Opponents(q, c, v)) >= Margin
<1>1. ASSUME NEW v
      PROVE  /\ Quality(s, a, v) = Quality(t, b, v)
             /\ Opponents(s, a, v) = Opponents(t, b, v)
  <2>1. ReadWith(s, a, v) = ReadWith(t, b, v) /\ {s[i] : i \in a} = {t[i] : i \in b}
    <3>1. ReadWith(s, a, v) = ReadWith(t, b, v)
      BY ReadSame
    <3>2. {s[i] : i \in a} = {t[i] : i \in b}
      BY DEF SameAt
    <3> QED BY <3>1, <3>2
  <2> QED BY ONLY <2>1
<1>2. {s[i].value : i \in a} = {t[i].value : i \in b}
  BY DEF SameAt
<1>3. /\ ClearReading(row, s, a) = {v \in {s[i].value : i \in a} : Clear(s, a, v)}
      /\ ClearReading(row, t, b) = {v \in {t[i].value : i \in b} : Clear(t, b, v)}
  BY ONLY TRUE DEF ClearReading
<1> HIDE DEF Quality, Opponents
<1>4. ASSUME NEW v
      PROVE  Clear(s, a, v) <=> Clear(t, b, v)
  BY <1>1
<1> HIDE DEF Clear
<1> QED BY ONLY <1>2, <1>3, <1>4

(* The price of a row depends on what the passes read, not on how often or *)
(* in which order they read it.                                            *)
LEMMA PriceOfReadings ==
  ASSUME NEW row, NEW s, NEW t, SameReadings(s, t)
  PROVE  ResolvePrice(row, s) = ResolvePrice(row, t)
<1> DEFINE a == EligiblePrices(row, s)
           b == EligiblePrices(row, t)
<1>1. SameAt(s, a, t, b)
  BY EligibleSame
<1>2. OneRun(s) = OneRun(t)
  <2>1. {s[i].run : i \in DOMAIN s} = {t[i].run : i \in DOMAIN t}
    BY DEF SameReadings
  <2> QED BY <2>1 DEF OneRun
<1>3. /\ TwoEngines(s, a) = TwoEngines(t, b)
      /\ TwoRenders(row, s, a) = TwoRenders(row, t, b)
      /\ ClearReading(row, s, a) = ClearReading(row, t, b)
  BY <1>1, EnginesSame, RendersSame, ClearSame
<1>4. /\ {s[i].value : i \in a} = {t[i].value : i \in b}
      /\ (\E i \in a : s[i].value = row.value) <=> (\E i \in b : t[i].value = row.value)
  BY <1>1 DEF SameAt
<1> QED BY <1>2, <1>3, <1>4 DEF ResolvePrice

-----------------------------------------------------------------------------
(* The date.                                                               *)

(* The candidates cs of the passes s are the rows that the candidates ds   *)
(* of the passes t are, in passes that read the same.                      *)
SameRows(s, cs, t, ds) ==
  /\ \A c \in cs : \E d \in ds : c[2] = d[2] /\ s[c[1]] = t[d[1]]
  /\ \A d \in ds : \E c \in cs : c[2] = d[2] /\ s[c[1]] = t[d[1]]

(* PrintedTwice looks at the row and at the pass it is in.                 *)
TwiceIn(pass, row) ==
  row.digits = 4 /\ \E l \in pass.lines : l.digits = 2 /\ l.date = row.date /\ Apart(row, l)

(* The candidates of a sequence of passes are those of its passes.         *)
LEMMA CandidateIs ==
  ASSUME NEW s, NEW c
  PROVE  c \in Candidates(s) <=> \E i \in DOMAIN s : \E l \in s[i].lines : c = <<i, l>>
BY DEF Candidates

(* A row is twice in the candidates when it is twice in a pass.            *)
LEMMA TwiceInPass ==
  ASSUME NEW s, NEW c \in Candidates(s)
  PROVE  PrintedTwice(c, Candidates(s)) <=> TwiceIn(s[c[1]], c[2])
<1>1. PICK i \in DOMAIN s : \E l \in s[i].lines : c = <<i, l>>
  BY CandidateIs
<1>2. PICK l \in s[i].lines : c = <<i, l>>
  BY <1>1
<1>3. c[1] = i /\ c[2] = l
  BY <1>2
<1>4. ASSUME NEW d
      PROVE  d \in Candidates(s) /\ d[1] = i <=> \E m \in s[i].lines : d = <<i, m>>
  BY CandidateIs
<1>5. ASSUME NEW m \in s[i].lines
      PROVE  <<i, m>> \in Candidates(s) /\ <<i, m>>[1] = i /\ <<i, m>>[2] = m
  BY CandidateIs
<1>6. ASSUME NEW d \in Candidates(s), d[1] = i
      PROVE  d[2] \in s[i].lines
  BY <1>4, <1>6
<1> QED BY <1>3, <1>5, <1>6 DEF PrintedTwice, TwiceIn

(* The passes put forward the same candidates.                             *)
LEMMA CandidatesSame ==
  ASSUME NEW s, NEW t, SameReadings(s, t)
  PROVE  SameRows(s, Candidates(s), t, Candidates(t))
<1>1. ASSUME NEW c \in Candidates(s)
      PROVE  \E d \in Candidates(t) : c[2] = d[2] /\ s[c[1]] = t[d[1]]
  <2>1. PICK i \in DOMAIN s : \E l \in s[i].lines : c = <<i, l>>
    BY CandidateIs
  <2>2. PICK l \in s[i].lines : c = <<i, l>>
    BY <2>1
  <2>3. PICK j \in DOMAIN t : t[j] = s[i]
    BY DEF SameReadings
  <2>4. <<j, l>> \in Candidates(t)
    BY <2>3, CandidateIs
  <2> QED BY <2>2, <2>3, <2>4
<1>2. ASSUME NEW d \in Candidates(t)
      PROVE  \E c \in Candidates(s) : c[2] = d[2] /\ s[c[1]] = t[d[1]]
  <2>1. PICK j \in DOMAIN t : \E l \in t[j].lines : d = <<j, l>>
    BY CandidateIs
  <2>2. PICK l \in t[j].lines : d = <<j, l>>
    BY <2>1
  <2>3. PICK i \in DOMAIN s : t[j] = s[i]
    BY DEF SameReadings
  <2>4. <<i, l>> \in Candidates(s)
    BY <2>3, CandidateIs
  <2> QED BY <2>2, <2>3, <2>4
<1> QED BY <1>1, <1>2 DEF SameRows

(* The passes support a row in the same way.                               *)
LEMMA RowsSame ==
  ASSUME NEW s, NEW cs, NEW t, NEW ds, SameRows(s, cs, t, ds)
  PROVE  /\ SameRows(s, Strongest(cs), t, Strongest(ds))
         /\ DatesOf(cs) = DatesOf(ds)
         /\ Clocks(cs) = Clocks(ds)
<1>1. SameRows(s, Strongest(cs), t, Strongest(ds))
  BY DEF SameRows, Strongest
<1>2. DatesOf(cs) = DatesOf(ds)
  BY DEF SameRows, DatesOf
<1>3. Clocks(cs) = Clocks(ds)
  BY DEF SameRows, Clocks
<1> QED BY <1>1, <1>2, <1>3

(* The three ways in which a disputed date finds support.                  *)
LEMMA IndependentSame ==
  ASSUME NEW s, NEW t, SameReadings(s, t),
         NEW cs, NEW ds, cs \subseteq Candidates(s), ds \subseteq Candidates(t),
         SameRows(s, cs, t, ds)
  PROVE  IndependentDate(s, cs, Candidates(s)) = IndependentDate(t, ds, Candidates(t))
<1> DEFINE Backed(q, c, es) ==
             /\ c[2].time # None
             /\ PrintedTwice(c, Candidates(q))
             /\ \E e \in es : e[2].digits = 4 /\ e[2].date = c[2].date /\ OtherEngine(q, c, e)
<1>1. ASSUME NEW c \in cs, NEW d \in ds, c[2] = d[2], s[c[1]] = t[d[1]]
      PROVE  Backed(s, c, cs) <=> Backed(t, d, ds)
  <2>1. PrintedTwice(c, Candidates(s)) <=> PrintedTwice(d, Candidates(t))
    <3>1. c \in Candidates(s) /\ d \in Candidates(t)
      OBVIOUS
    <3> QED BY <3>1, <1>1, TwiceInPass
  <2>2. ASSUME NEW e \in cs, NEW f \in ds, e[2] = f[2], s[e[1]] = t[f[1]]
        PROVE  OtherEngine(s, c, e) <=> OtherEngine(t, d, f)
    BY <1>1, <2>2 DEF OtherEngine
  <2> QED BY <1>1, <2>1, <2>2 DEF SameRows
<1> DEFINE Dates(q, es) == DatesOf({c \in es : Backed(q, c, es)})
<1>2. Dates(s, cs) = Dates(t, ds)
  <2> HIDE DEF Backed
  <2> QED BY <1>1 DEF SameRows, DatesOf
<1>3. /\ IndependentDate(s, cs, Candidates(s)) = IF IsSingle(Dates(s, cs)) THEN Only(Dates(s, cs)) ELSE None
      /\ IndependentDate(t, ds, Candidates(t)) = IF IsSingle(Dates(t, ds)) THEN Only(Dates(t, ds)) ELSE None
  BY ONLY TRUE DEF IndependentDate
<1> HIDE DEF Dates
<1> QED BY ONLY <1>2, <1>3

(* A year is completed from the same candidates.                           *)
LEMMA YearSame ==
  ASSUME NEW s, NEW t, SameReadings(s, t),
         NEW cs, NEW ds, cs \subseteq Candidates(s), ds \subseteq Candidates(t),
         SameRows(s, cs, t, ds)
  PROVE  YearDate(cs, Candidates(s)) = YearDate(ds, Candidates(t))
<1> DEFINE Short(q) == DatesOf({c \in Candidates(q) : c[2].digits = 2})
           Near(c, target) == \/ c[2].digits = 2 /\ c[2].date = target
                              \/ /\ c[2].digits = 4 /\ c[2].date[3] = target[3]
                                 /\ GlyphsApart(c[2].date, target) <= 1
           Agreed(q, es, target) ==
             /\ IsSingle(Short(q))
             /\ Cardinality(Clocks(es)) <= 1
             /\ \A c \in es : Near(c, target)
             /\ \E c \in es : c[2].date = target /\ PrintedTwice(c, Candidates(q))
<1>1. Short(s) = Short(t)
  BY CandidatesSame DEF SameRows, DatesOf
<1>2. Clocks(cs) = Clocks(ds)
  BY RowsSame
<1>3. ASSUME NEW c \in cs, NEW d \in ds, c[2] = d[2], s[c[1]] = t[d[1]]
      PROVE  PrintedTwice(c, Candidates(s)) <=> PrintedTwice(d, Candidates(t))
  <2>1. c \in Candidates(s) /\ d \in Candidates(t)
    OBVIOUS
  <2> QED BY <2>1, <1>3, TwiceInPass
<1>4. /\ YearDate(cs, Candidates(s)) = IF Agreed(s, cs, Only(Short(s))) THEN Only(Short(s)) ELSE None
      /\ YearDate(ds, Candidates(t)) = IF Agreed(t, ds, Only(Short(t))) THEN Only(Short(t)) ELSE None
  BY ONLY TRUE DEF YearDate
<1>5. ASSUME NEW target
      PROVE  Agreed(s, cs, target) <=> Agreed(t, ds, target)
  <2>1. (\A c \in cs : Near(c, target)) <=> (\A d \in ds : Near(d, target))
    BY DEF SameRows
  <2>2. (\E c \in cs : c[2].date = target /\ PrintedTwice(c, Candidates(s)))
          <=> (\E d \in ds : d[2].date = target /\ PrintedTwice(d, Candidates(t)))
    BY <1>3 DEF SameRows
  <2> HIDE DEF Short, Near
  <2> QED BY <1>1, <1>2, <2>1, <2>2
<1> HIDE DEF Short, Agreed
<1> QED BY ONLY <1>1, <1>4, <1>5

(* The printed dates are the same.                                         *)
LEMMA PrintedSame ==
  ASSUME NEW s, NEW t, SameReadings(s, t),
         NEW cs, NEW ds, cs \subseteq Candidates(s), ds \subseteq Candidates(t),
         SameRows(s, cs, t, ds)
  PROVE  PrintedDate(cs, Candidates(s)) = PrintedDate(ds, Candidates(t))
<1> DEFINE Twice(q, es) ==
             DatesOf({c \in es : c[2].time # None /\ PrintedTwice(c, Candidates(q))})
           Agreed(q, es) == /\ IsSingle(Clocks(es))
                            /\ IsSingle(Twice(q, es))
                            /\ \A c \in es : GlyphsApart(c[2].date, Only(Twice(q, es))) <= 1
<1>1. Clocks(cs) = Clocks(ds)
  BY RowsSame
<1>2. ASSUME NEW c \in cs, NEW d \in ds, c[2] = d[2], s[c[1]] = t[d[1]]
      PROVE  PrintedTwice(c, Candidates(s)) <=> PrintedTwice(d, Candidates(t))
  <2>1. c \in Candidates(s) /\ d \in Candidates(t)
    OBVIOUS
  <2> QED BY <2>1, <1>2, TwiceInPass
<1>3. Twice(s, cs) = Twice(t, ds)
  BY <1>2 DEF SameRows, DatesOf
<1>4. /\ PrintedDate(cs, Candidates(s)) = IF Agreed(s, cs) THEN Only(Twice(s, cs)) ELSE None
      /\ PrintedDate(ds, Candidates(t)) = IF Agreed(t, ds) THEN Only(Twice(t, ds)) ELSE None
  BY ONLY TRUE DEF PrintedDate
<1> HIDE DEF Twice
<1>5. Agreed(s, cs) <=> Agreed(t, ds)
  BY <1>1, <1>3 DEF SameRows
<1> HIDE DEF Agreed
<1> QED BY ONLY <1>3, <1>4, <1>5

(* What the date of a receipt is decided from.                             *)
Backing(first, s) ==
  CASE IndependentDate(s, first, Candidates(s)) # None -> IndependentDate(s, first, Candidates(s))
    [] OTHER -> IF YearDate(first, Candidates(s)) # None THEN YearDate(first, Candidates(s))
                ELSE PrintedDate(first, Candidates(s))

(* What the dated candidates of the passes decide.                         *)
Decided(s) ==
  LET first == Strongest(Candidates(s))
  IN IF Cardinality(DatesOf(first)) > 1 /\ Backing(first, s) # None
     THEN {c \in first : c[2].date = Backing(first, s)} ELSE first

(* The candidates that have a time.                                        *)
Timed(cs) == {<<c[2].date, c[2].time>> : c \in {c \in cs : c[2].time # None}}

(* The same candidates decide the same date.                               *)
LEMMA DecidedSame ==
  ASSUME NEW s, NEW t, SameReadings(s, t)
  PROVE  SameRows(s, Decided(s), t, Decided(t))
<1> DEFINE cs == Strongest(Candidates(s))
           ds == Strongest(Candidates(t))
<1>1. SameRows(s, cs, t, ds) /\ cs \subseteq Candidates(s) /\ ds \subseteq Candidates(t)
  BY CandidatesSame, RowsSame DEF Strongest
<1>2. DatesOf(cs) = DatesOf(ds)
  BY <1>1, RowsSame
<1> HIDE DEF cs, ds
<1>3. Backing(cs, s) = Backing(ds, t)
  <2>1. IndependentDate(s, cs, Candidates(s)) = IndependentDate(t, ds, Candidates(t))
    BY <1>1, IndependentSame
  <2>2. YearDate(cs, Candidates(s)) = YearDate(ds, Candidates(t))
    BY <1>1, YearSame
  <2>3. PrintedDate(cs, Candidates(s)) = PrintedDate(ds, Candidates(t))
    BY <1>1, PrintedSame
  <2> QED BY ONLY <2>1, <2>2, <2>3 DEF Backing
<1>4. SameRows(s, {c \in cs : c[2].date = Backing(cs, s)}, t, {d \in ds : d[2].date = Backing(ds, t)})
  <2>1. SameRows(s, {c \in cs : c[2].date = Backing(ds, t)}, t, {d \in ds : d[2].date = Backing(ds, t)})
    BY ONLY <1>1 DEF SameRows
  <2> QED BY ONLY <1>3, <2>1
<1> QED BY ONLY <1>1, <1>2, <1>3, <1>4 DEF Decided, cs, ds

(* The date depends on what the passes read, not on how often or in which  *)
(* order they read it.                                                     *)
LEMMA DateOfReadings ==
  ASSUME NEW s, NEW t, SameReadings(s, t)
  PROVE  ResolveDate(s) = ResolveDate(t)
<1> DEFINE Fields(days, timed) ==
             [date   |-> IF IsSingle(days) THEN Only(days) ELSE None,
              time   |-> IF IsSingle(days) /\ IsSingle(timed) THEN Only(timed)[2] ELSE None,
              status |-> IF Cardinality(days) > 1 \/ Cardinality(timed) > 1
                         THEN "conflict" ELSE "selected"]
<1>1. /\ ResolveDate(s) = Fields(DatesOf(Decided(s)), Timed(Decided(s)))
      /\ ResolveDate(t) = Fields(DatesOf(Decided(t)), Timed(Decided(t)))
  BY ONLY TRUE DEF ResolveDate, Decided, Backing, Timed
<1> HIDE DEF Fields
<1>2. DatesOf(Decided(s)) = DatesOf(Decided(t))
  BY DecidedSame, RowsSame
<1>3. Timed(Decided(s)) = Timed(Decided(t))
  BY DecidedSame DEF SameRows, Timed
<1> QED BY ONLY <1>1, <1>2, <1>3

-----------------------------------------------------------------------------
(* The totals.                                                             *)

(* The financial header depends on the readings only, not on how often or  *)
(* in what order they come.                                                *)
LEMMA HeaderOfReadings ==
  ASSUME NEW s, NEW t, SameReadings(s, t)
  PROVE  FinancialHeader(s) = FinancialHeader(t)
<1> DEFINE Values(r) == <<r.subtotal, r.tax, r.total>>
           Adds(r) == /\ None \notin {r.subtotal, r.tax, r.total}
                      /\ r.subtotal + r.tax - r.total \in -1..1
           Support(q, v) == {<<q[i].run, q[i].page, q[i].engine>> :
                              i \in {k \in DOMAIN q : Adds(q[k]) /\ Values(q[k]) = v}}
           TotalsRead(q) == {Values(q[i]) : i \in {k \in DOMAIN q : Adds(q[k])}}
           Supported(q) == {v \in TotalsRead(q) : \E a, b \in Support(q, v) :
                              /\ a[1] = b[1] /\ a[2] = b[2] /\ a[3] # b[3]}
<1>1. /\ FinancialHeader(s) = IF IsSingle(Supported(s)) THEN Only(Supported(s)) ELSE None
      /\ FinancialHeader(t) = IF IsSingle(Supported(t)) THEN Only(Supported(t)) ELSE None
  BY ONLY TRUE DEF FinancialHeader
<1> HIDE DEF Values, Adds
<1>2. TotalsRead(s) = TotalsRead(t)
  BY DEF SameReadings
<1>3. ASSUME NEW v
      PROVE  Support(s, v) = Support(t, v)
  BY DEF SameReadings
<1> HIDE DEF TotalsRead, Support
<1>4. Supported(s) = Supported(t)
  BY <1>2, <1>3
<1> HIDE DEF Supported
<1> QED BY ONLY <1>1, <1>4

-----------------------------------------------------------------------------
(* The passes are lists of readings.                                       *)
PassesListed == \E S : prices \in Seq(S) /\ dates \in Seq(S) /\ headers \in Seq(S)

(* Every step leaves the passes lists of readings.                         *)
LEMMA EvidenceStep ==
  ASSUME PassesListed, [EvidenceNext]_evidenceVars
  PROVE  PassesListed'
<1>1. PICK S : prices \in Seq(S) /\ dates \in Seq(S) /\ headers \in Seq(S)
  BY DEF PassesListed
<1> DEFINE T == S \cup PriceReadings \cup DatePasses \cup HeaderPasses
<1>2. prices \in Seq(T) /\ dates \in Seq(T) /\ headers \in Seq(T)
  BY <1>1
<1>3. prices' \in Seq(T) /\ dates' \in Seq(T) /\ headers' \in Seq(T)
  <2> HIDE DEF T
  <2>1. ASSUME NEW row, DecideRow(row)
        PROVE  prices' \in Seq(T) /\ dates' \in Seq(T) /\ headers' \in Seq(T)
    BY <1>2, <2>1 DEF DecideRow
  <2>2. ASSUME NEW reading \in PriceReadings, ReadPrice(reading)
        PROVE  prices' \in Seq(T) /\ dates' \in Seq(T) /\ headers' \in Seq(T)
    <3>1. reading \in T
      BY DEF T
    <3> QED BY <1>2, <2>2, <3>1 DEF ReadPrice
  <2>3. ASSUME NEW pass \in DatePasses, ReadDates(pass)
        PROVE  prices' \in Seq(T) /\ dates' \in Seq(T) /\ headers' \in Seq(T)
    <3>1. pass \in T
      BY DEF T
    <3> QED BY <1>2, <2>3, <3>1 DEF ReadDates
  <2>4. ASSUME NEW pass \in HeaderPasses, ReadHeader(pass)
        PROVE  prices' \in Seq(T) /\ dates' \in Seq(T) /\ headers' \in Seq(T)
    <3>1. pass \in T
      BY DEF T
    <3> QED BY <1>2, <2>4, <3>1 DEF ReadHeader
  <2> QED BY <1>2, <2>1, <2>2, <2>3, <2>4 DEF EvidenceNext, evidenceVars
<1> QED BY <1>3 DEF PassesListed

(* Whatever the passes read, another pass of the same engine over the same *)
(* render that reads the same again changes no price, no date and no       *)
(* header.                                                                 *)
THEOREM RepeatedPassesAreNotVotes == EvidenceSpec => []PassesAreNotVotes
<1>1. EvidenceInit => PassesListed
  BY DEF EvidenceInit, PassesListed
<1>2. PassesListed /\ [EvidenceNext]_evidenceVars => PassesListed'
  BY EvidenceStep
<1>3. PassesListed => PassesAreNotVotes
  <2> SUFFICES ASSUME NEW S, prices \in Seq(S), dates \in Seq(S), headers \in Seq(S)
               PROVE  PassesAreNotVotes
    BY DEF PassesListed
  <2>1. ASSUME NEW i \in DOMAIN prices
        PROVE  ResolvePrice(base, Append(prices, prices[i])) = ResolvePrice(base, prices)
    BY RepeatedReading, PriceOfReadings
  <2>2. ASSUME NEW i \in DOMAIN dates
        PROVE  ResolveDate(Append(dates, dates[i])) = ResolveDate(dates)
    BY RepeatedReading, DateOfReadings
  <2>3. ASSUME NEW i \in DOMAIN headers
        PROVE  FinancialHeader(Append(headers, headers[i])) = FinancialHeader(headers)
    BY RepeatedReading, HeaderOfReadings
  <2> QED BY <2>1, <2>2, <2>3 DEF PassesAreNotVotes
<1> QED BY <1>1, <1>2, <1>3, PTL DEF EvidenceSpec

-----------------------------------------------------------------------------
(* The page.                                                               *)

(* A reading is a list of lines, with the confidence and the resolution of *)
(* its pass.                                                               *)
IsCandidate(c) == c.text \in Seq(ToSet(c.text)) /\ c.confidence \in Int /\ c.dpi \in Int

(* A condition counts as zero or one.                                      *)
LEMMA BitType == \A b : Bit(b) \in 0..1 /\ (Bit(b) = 1 <=> b)
BY DEF Bit

(* The smaller of two natural numbers is one.                              *)
LEMMA LeastType ==
  ASSUME NEW a \in Nat, NEW b \in Nat
  PROVE  Least(a, b) \in Nat
BY LeastOfNaturals DEF Least

(* The structure of a text scores as an integer.                           *)
LEMMA StructureType ==
  ASSUME NEW text, text \in Seq(ToSet(text))
  PROVE  Structure(text) \in Int
<1> DEFINE Stamps == {k \in DOMAIN text : text[k].kind = "stamp"}
           Moneys == {k \in DOMAIN text : Money(text[k]) # None}
           Labelled == {k \in DOMAIN text : text[k].kind \in Labels \cup {"included"}}
<1>1. IsFiniteSet(DOMAIN text)
  BY PlacesOf
<1>2. Stamps \in SUBSET DOMAIN text /\ Moneys \in SUBSET DOMAIN text /\ Labelled \in SUBSET DOMAIN text
  OBVIOUS
<1>3. Structure(text) = 500 * Bit(Cardinality(Stamps) > 0)
        + 20 * Least(5, Cardinality(Moneys)) + 40 * Least(3, Cardinality(Labelled))
  BY DEF Structure
<1> HIDE DEF Stamps, Moneys, Labelled
<1>4. Cardinality(Moneys) \in Nat /\ Cardinality(Labelled) \in Nat
  BY <1>1, <1>2, FS_Subset, FS_CardinalityType
<1>5. Least(5, Cardinality(Moneys)) \in Nat /\ Least(3, Cardinality(Labelled)) \in Nat
  BY <1>4, LeastType
<1>6. Bit(Cardinality(Stamps) > 0) \in 0..1
  BY BitType
<1> QED BY <1>3, <1>5, <1>6

(* Readings are ranked by whole numbers, coherent totals first.            *)
LEMMA RankType ==
  ASSUME NEW readings, IsFiniteSet(readings), NEW r, IsCandidate(r.of)
  PROVE  Rank(readings, r) \in Keys(9) /\ Rank(readings, r)[1] = Bit(Coherent(r.totals))
<1> DEFINE t == r.totals
           coherent == Coherent(t)
           Agreeing == {o \in readings : /\ o.totals.total # None
                                         /\ Agree(o.totals.total, t.total)}
           SameName == {o \in readings : o.of.merchant = r.of.merchant}
           agreeing == IF t.total = None THEN 0 ELSE Cardinality(Agreeing)
           sameName == IF r.of.merchant = None THEN 0 ELSE Cardinality(SameName)
           itemsAdd == /\ r.amounts # <<>> /\ t.subtotal # None
                       /\ Agree(Sum(r.amounts), t.subtotal)
           direction == SameDirection(t)
           structure == Structure(r.of.text)
<1>1. Rank(readings, r) =
        <<Bit(coherent), Bit(direction), IF coherent THEN 0 ELSE agreeing,
         Bit(itemsAdd), IF coherent THEN agreeing ELSE 0, IF coherent THEN sameName ELSE 0,
         IF coherent THEN r.of.confidence ELSE 0, structure, r.of.dpi>>
  BY DEF Rank
<1>2. Agreeing \in SUBSET readings /\ SameName \in SUBSET readings
  OBVIOUS
<1>3. structure \in Int /\ r.of.confidence \in Int /\ r.of.dpi \in Int
  BY StructureType DEF IsCandidate
<1> HIDE DEF coherent, itemsAdd, direction, structure, Agreeing, SameName
<1>4. Cardinality(Agreeing) \in Nat /\ Cardinality(SameName) \in Nat
  BY <1>2, FS_Subset, FS_CardinalityType
<1>5. agreeing \in Int /\ sameName \in Int
  BY <1>4
<1> HIDE DEF agreeing, sameName, t
<1>6. Bit(coherent) \in Int /\ Bit(itemsAdd) \in Int /\ Bit(direction) \in Int
  BY BitType
<1>7. Rank(readings, r) \in [1..9 -> Int]
  BY <1>1, <1>3, <1>5, <1>6
<1>8. Rank(readings, r)[1] = Bit(coherent)
  BY <1>1
<1> QED BY <1>7, <1>8 DEF Keys, coherent, t

(* The base of the page is coherent where any candidate is.                *)
LEMMA CoherentBase ==
  ASSUME NEW cs, cs \in Seq({c \in ToSet(cs) : IsCandidate(c)}),
         NEW i \in DOMAIN cs, Coherent(Header(cs[i].text))
  PROVE  \E k \in DOMAIN cs : SelectCandidate(cs) = cs[k] /\ Coherent(Header(cs[k].text))
<1> DEFINE f == [k \in DOMAIN cs |-> [at |-> k, of |-> cs[k], totals |-> Header(cs[k].text),
                                      amounts |-> ItemAmounts(cs[k].text)]]
           Readings == {f[k] : k \in DOMAIN cs}
           g == [k \in DOMAIN cs |-> [at |-> f[k].at, key |-> Rank(Readings, f[k])]]
           Ranked == {g[k] : k \in DOMAIN cs}
           best == Best(Ranked)
<1>1. DOMAIN cs = 1..Len(cs) /\ IsFiniteSet(DOMAIN cs) /\ \A k \in DOMAIN cs : IsCandidate(cs[k])
  BY PlacesOf
<1>2. SelectCandidate(cs) = cs[best.at]
  <2>1. Readings = {[at |-> k, of |-> cs[k], totals |-> Header(cs[k].text),
                     amounts |-> ItemAmounts(cs[k].text)] : k \in DOMAIN cs}
    OBVIOUS
  <2>2. Ranked = {[at |-> r.at, key |-> Rank(Readings, r)] : r \in Readings}
    <3> HIDE DEF f
    <3> QED OBVIOUS
  <2> QED BY ONLY <2>1, <2>2 DEF SelectCandidate, best
<1>3. \A k \in DOMAIN cs : f[k].at = k /\ f[k].of = cs[k] /\ f[k].totals = Header(cs[k].text)
  OBVIOUS
<1> HIDE DEF f
<1>4. IsFiniteSet(Readings)
  BY <1>1, ImageIsFinite
<1> HIDE DEF Readings
<1>5. ASSUME NEW k \in DOMAIN cs
      PROVE  /\ g[k].at = k /\ g[k].key \in Keys(9)
             /\ g[k].key[1] = Bit(Coherent(Header(cs[k].text)))
  <2>1. IsCandidate(f[k].of)
    BY <1>1, <1>3
  <2>2. Rank(Readings, f[k]) \in Keys(9) /\ Rank(Readings, f[k])[1] = Bit(Coherent(f[k].totals))
    BY <1>4, <2>1, RankType
  <2> QED BY <1>3, <2>2
<1> HIDE DEF g
<1>6. IsFiniteSet(Ranked) /\ Ranked # {}
  BY <1>1, ImageIsFinite
<1>7. \A r \in Ranked : r.key \in Keys(9) /\ r.at \in Int
  BY <1>1, <1>5
<1>8. g[i] \in Ranked
  OBVIOUS
<1> HIDE DEF Ranked
<1>9. best \in Ranked /\ Leads(best, g[i])
  BY <1>6, <1>7, <1>8, BestIs
<1>10. PICK k \in DOMAIN cs : best = g[k]
  BY <1>9 DEF Ranked
<1>11. Coherent(Header(cs[k].text))
  <2>1. SUFFICES ASSUME ~Coherent(Header(cs[k].text)) PROVE FALSE
    OBVIOUS
  <2>2. g[k].key[1] = 0 /\ g[i].key[1] = 1
    BY <1>5, <2>1 DEF Bit
  <2>3. Below(g[k].key, g[i].key)
    <3>1. 1 \in DOMAIN g[k].key
      BY <1>5 DEF Keys
    <3> QED BY <2>2, <3>1 DEF Below
  <2> QED BY <2>3, <1>9, <1>10 DEF Leads
<1> QED BY <1>2, <1>5, <1>10, <1>11

(* Neither the consensus nor a supplied row changes coherent totals.       *)
LEMMA KeepsHeader ==
  ASSUME NEW text, Coherent(Header(text)), NEW changed
  PROVE  Header(KeepHeader(text, changed)) = Header(text)
BY DEF KeepHeader

(* A finite nonempty set of integers has a greatest one.                   *)
LEMMA GreatestOf ==
  ASSUME NEW m \in Nat, NEW S \in SUBSET (1..m), S # {}
  PROVE  Max(S) \in S /\ \A k \in S : k <= Max(S)
<1> DEFINE Left == {m - k : k \in S}
<1>1. \A k \in S : k \in 1..m
  OBVIOUS
<1>2. Left \in SUBSET Nat /\ Left # {}
  <2>1. \A k \in S : m - k \in Nat
    BY <1>1
  <2>2. PICK k \in S : TRUE
    OBVIOUS
  <2>3. m - k \in Left
    OBVIOUS
  <2> QED BY <2>1, <2>3
<1>3. PICK l \in Left : \A k \in Left : l <= k
  BY <1>2, LeastNatural
<1>4. PICK k \in S : l = m - k
  BY <1>3
<1>5. ASSUME NEW j \in S PROVE k >= j
  <2>1. m - k <= m - j
    BY <1>3, <1>4
  <2> HIDE DEF Left
  <2> QED BY <1>1, <2>1
<1> HIDE DEF Left
<1> QED BY <1>4, <1>5 DEF Max

(* A bounded nonempty set of natural numbers has a greatest one.           *)
LEMMA GreatestOfInterval ==
  ASSUME NEW m \in Nat, m # 0
  PROVE  Max(1..m) = m /\ (1..m) \ {m} = 1..(m - 1) /\ 1..m # {}
<1>1. 1..m # {} /\ m \in 1..m /\ (1..m) \ {m} = 1..(m - 1)
  OBVIOUS
<1>2. Max(1..m) \in 1..m /\ m <= Max(1..m)
  BY <1>1, GreatestOf
<1> QED BY <1>1, <1>2

(* What the candidates supply to a text, one after the other (SelectPage), *)
(* and the function that the fold computes it by.                          *)
AllSupplied(cs, order, first) ==
  FoldLeft(LAMBDA text, i : Supplemented(text, cs[i].text), first, order)

(* f is the text as each candidate in turn supplies what it misses.        *)
SupplyBy(cs, order, first, m, f) ==
  f = [s \in SUBSET (1..m) |->
         IF s = {} THEN first ELSE Supplemented(f[s \ {Max(s)}], cs[order[Max(s)]].text)]

(* The candidates can be gone through in turn: the fold is defined.        *)
LEMMA SupplyExists ==
  ASSUME NEW cs, NEW order, NEW first, NEW n \in Nat
  PROVE  \E f : SupplyBy(cs, order, first, n, f)
<1> DEFINE Step(text, k) == Supplemented(text, cs[order[k]].text)
           Folds(f, m) == f = [s \in SUBSET (1..m) |->
                                 IF s = {} THEN first ELSE Step(f[s \ {Max(s)}], Max(s))]
           Missing == {m \in Nat : ~ \E f : Folds(f, m)}
<1> HIDE DEF Step
<1>1. ASSUME NEW m \in Nat, \A f : ~Folds(f, m), \A k \in Nat : (\A f : ~Folds(f, k)) => m <= k
      PROVE  FALSE
  <2>1. m # 0
    <3> DEFINE f == [s \in SUBSET (1..0) |-> first]
    <3>1. SUBSET (1..0) = {{}}
      OBVIOUS
    <3>2. Folds(f, 0)
      BY <3>1
    <3> QED BY <1>1, <3>2
  <2>2. \E f : Folds(f, m - 1)
    <3>1. m - 1 \in Nat /\ ~(m <= m - 1)
      BY <2>1
    <3> HIDE DEF Folds
    <3> QED BY <1>1, <3>1
  <2>3. PICK f : Folds(f, m - 1)
    BY <2>2
  <2> DEFINE g == [s \in SUBSET (1..m) |-> IF m \in s THEN Step(f[s \ {m}], m) ELSE f[s]]
  <2>4. ASSUME NEW s \in SUBSET (1..m)
        PROVE  g[s] = IF s = {} THEN first ELSE Step(g[s \ {Max(s)}], Max(s))
    <3>1. CASE m \in s
      <4>1. Max(s) = m
        <5>1. Max(s) \in s /\ m <= Max(s)
          BY <3>1, GreatestOf
        <5>2. Max(s) \in 1..m
          BY <5>1
        <5> QED BY ONLY <5>1, <5>2, m \in Nat
      <4>2. s \ {m} \in SUBSET (1..m) /\ m \notin s \ {m}
        OBVIOUS
      <4>3. g[s \ {m}] = f[s \ {m}]
        BY <4>2
      <4> QED BY <3>1, <4>1, <4>3
    <3>2. CASE m \notin s /\ s # {}
      <4>1. s \in SUBSET (1..(m - 1))
        BY <3>2
      <4>2. f[s] = Step(f[s \ {Max(s)}], Max(s))
        BY <2>3, <3>2, <4>1
      <4>3. g[s \ {Max(s)}] = f[s \ {Max(s)}] /\ g[s] = f[s]
        BY <3>2
      <4> QED BY <3>2, <4>2, <4>3
    <3>3. CASE s = {}
      <4>1. s \in SUBSET (1..(m - 1)) /\ m \notin s
        BY <3>3
      <4>2. f[s] = first
        BY <2>3, <3>3, <4>1
      <4> QED BY <3>3, <4>1, <4>2
    <3> QED BY <3>1, <3>2, <3>3
  <2>5. Folds(g, m)
    <3>1. g = [s \in SUBSET (1..m) |-> g[s]]
      OBVIOUS
    <3> HIDE DEF g
    <3> QED BY <2>4, <3>1
  <2> HIDE DEF Folds
  <2> QED BY <1>1, <2>5
<1> HIDE DEF Folds
<1>2. Missing = {}
  <2> SUFFICES ASSUME Missing # {} PROVE FALSE
    OBVIOUS
  <2>1. Missing \in SUBSET Nat
    OBVIOUS
  <2> HIDE DEF Missing
  <2>2. PICK m \in Missing : \A k \in Missing : m <= k
    BY <2>1, LeastNatural
  <2> QED BY <1>1, <2>2 DEF Missing
<1>3. \E f : Folds(f, n)
  BY <1>2
<1> QED BY <1>3 DEF SupplyBy, Folds, Step

(* However many candidates supply rows, a header that adds up stays.       *)
LEMMA SuppliedHeader ==
  ASSUME NEW cs, NEW order, NEW first, NEW n \in Nat, DOMAIN order = 1..n,
         Coherent(Header(first))
  PROVE  Header(AllSupplied(cs, order, first)) = Header(first)
<1> DEFINE iter == CHOOSE f : SupplyBy(cs, order, first, n, f)
           Wrong == {m \in 0..n : Header(iter[1..m]) # Header(first)}
<1>1. AllSupplied(cs, order, first) = iter[1..n]
  BY DEF AllSupplied, SupplyBy, FoldLeft, MapThenFoldSet
<1>2. SupplyBy(cs, order, first, n, iter)
  BY SupplyExists
<1> HIDE DEF iter
<1>3. ASSUME NEW s \in SUBSET (1..n)
      PROVE  iter[s] = IF s = {} THEN first
                       ELSE Supplemented(iter[s \ {Max(s)}], cs[order[Max(s)]].text)
  BY <1>2 DEF SupplyBy
<1>4. ASSUME NEW m \in 0..n, Header(iter[1..m]) # Header(first),
             \A k \in 0..n : Header(iter[1..k]) # Header(first) => m <= k
      PROVE  FALSE
  <2>1. 1..m \in SUBSET (1..n) /\ m \in Nat /\ 1..0 = {} /\ {} \in SUBSET (1..n)
    OBVIOUS
  <2>2. m # 0
    <3>1. iter[{}] = first
      BY <1>3, <2>1
    <3> QED BY <1>4, <2>1, <3>1
  <2>3. Max(1..m) = m /\ (1..m) \ {m} = 1..(m - 1) /\ 1..m # {}
    BY <2>1, <2>2, GreatestOfInterval
  <2>4. iter[1..m] = Supplemented(iter[1..(m - 1)], cs[order[m]].text)
    BY <1>3, <2>1, <2>3
  <2>5. Header(iter[1..(m - 1)]) = Header(first)
    <3>1. m - 1 \in 0..n /\ ~(m <= m - 1)
      BY <2>2
    <3> QED BY <1>4, <3>1
  <2>6. Header(Supplemented(iter[1..(m - 1)], cs[order[m]].text)) = Header(iter[1..(m - 1)])
    BY <2>5, KeepsHeader DEF Supplemented
  <2> QED BY <1>4, <2>4, <2>5, <2>6
<1>5. Wrong = {}
  <2> SUFFICES ASSUME Wrong # {} PROVE FALSE
    OBVIOUS
  <2>1. Wrong \in SUBSET Nat
    OBVIOUS
  <2> HIDE DEF Wrong
  <2>2. PICK m \in Wrong : \A k \in Wrong : m <= k
    BY <2>1, LeastNatural
  <2> QED BY <1>4, <2>2 DEF Wrong
<1>6. Header(iter[1..n]) = Header(first)
  BY <1>5
<1> HIDE DEF Wrong
<1> QED BY <1>1, <1>6

-----------------------------------------------------------------------------
(* The readings of a page are a list of candidates.                        *)
PagesRead == candidates \in Seq(OcrCandidates)

(* If any engine read totals that add up, the page shows such totals,      *)
(* whatever the other engines supplied to it and whatever the text layer   *)
(* of the file adds.                                                       *)
THEOREM CoherentHeaderStays == PagesSpec => []CoherentHeaderWins
<1>1. PagesInit => PagesRead
  BY DEF PagesInit, PagesRead
<1>2. PagesRead /\ [PagesNext]_pagesVars => PagesRead'
  BY DEF PagesRead, PagesNext, ReadLayer, Recognise, pagesVars
<1>3. PagesRead => CoherentHeaderWins
  <2> DEFINE CoherentHeaders == {c.totals : c \in {r \in {[totals |-> Header(candidates[i].text)]
                                    : i \in DOMAIN candidates} : Coherent(r.totals)}}
             Own == IF layer = None THEN {} ELSE {Header(layer)}
             ocr == SelectPage(candidates)
  <2> SUFFICES ASSUME PagesRead, CoherentHeaders # {}
               PROVE  /\ Header(ocr) \in CoherentHeaders
                      /\ (\A t \in Own : Coherent(t)) => Header(PageText(layer, ocr)) \in CoherentHeaders \cup Own
    BY DEF CoherentHeaderWins
  <2>1. \A t : t \in CoherentHeaders <=> \E i \in DOMAIN candidates : t = Header(candidates[i].text) /\ Coherent(t)
    <3> DEFINE All == {[totals |-> Header(candidates[i].text)] : i \in DOMAIN candidates}
    <3>1. ASSUME NEW i \in DOMAIN candidates
          PROVE  \E r \in All : r.totals = Header(candidates[i].text)
      <4>1. [totals |-> Header(candidates[i].text)] \in All
        OBVIOUS
      <4>2. \A h : [totals |-> h].totals = h
        OBVIOUS
      <4> HIDE DEF All
      <4> QED BY <4>1, <4>2
    <3>2. ASSUME NEW r \in All
          PROVE  \E i \in DOMAIN candidates : r.totals = Header(candidates[i].text)
      OBVIOUS
    <3>3. CoherentHeaders = {c.totals : c \in {r \in All : Coherent(r.totals)}}
      OBVIOUS
    <3> HIDE DEF All, CoherentHeaders
    <3> QED BY <3>1, <3>2, <3>3
  <2> HIDE DEF CoherentHeaders
  <2>2. candidates \in Seq({c \in ToSet(candidates) : IsCandidate(c)})
    <3>1. candidates \in Seq(OcrCandidates)
      BY DEF PagesRead
    <3>2. ASSUME NEW k \in 1..Len(candidates)
          PROVE  candidates[k] \in {c \in ToSet(candidates) : IsCandidate(c)}
      <4>1. candidates[k] \in OcrCandidates /\ k \in DOMAIN candidates
        BY <3>1
      <4>2. IsCandidate(candidates[k])
        BY <4>1, CandidatesAssumption DEF IsCandidate
      <4>3. candidates[k] \in ToSet(candidates)
        BY <4>1 DEF ToSet
      <4> QED BY <4>2, <4>3
    <3> QED BY <3>1, <3>2
  <2>3. PICK k \in DOMAIN candidates : /\ SelectCandidate(candidates) = candidates[k]
                                       /\ Coherent(Header(candidates[k].text))
    BY <2>1, <2>2, CoherentBase
  <2> DEFINE first == ConsensusText(candidates, candidates[k])
  <2>4. Header(first) = Header(candidates[k].text)
    BY <2>3, KeepsHeader DEF ConsensusText
  <2>5. Header(ocr) = Header(first)
    <3> DEFINE score == [i \in DOMAIN candidates |-> SummaryScore(candidates[i].text)]
               Before(i) == {j \in DOMAIN candidates :
                                score[j] > score[i] \/ (score[j] = score[i] /\ j < i)}
               order == [m \in DOMAIN candidates |->
                            CHOOSE i \in DOMAIN candidates : Cardinality(Before(i)) = m - 1]
    <3>1. ocr = AllSupplied(candidates, order, first)
      BY <2>3 DEF SelectPage, AllSupplied
    <3>2. DOMAIN order = 1..Len(candidates) /\ Len(candidates) \in Nat
      BY DEF PagesRead
    <3> HIDE DEF order, first
    <3>3. Coherent(Header(first))
      BY <2>3, <2>4
    <3> QED BY <3>1, <3>2, <3>3, SuppliedHeader
  <2> HIDE DEF ocr, first
  <2>6. Header(ocr) \in CoherentHeaders /\ Coherent(Header(ocr))
    BY <2>1, <2>3, <2>4, <2>5
  <2>7. ASSUME \A t \in Own : Coherent(t)
        PROVE  Header(PageText(layer, ocr)) \in CoherentHeaders \cup Own
    <3>1. PageText(layer, ocr) \in {ocr, Supplemented(ocr, layer)}
            \/ (layer # None /\ PageText(layer, ocr) = Supplemented(layer, ocr))
      <4> DEFINE Stamped(text) == \E l \in ToSet(text) : l.kind = "stamp"
                 OcrLeads == layer = <<>> \/ (Stamped(ocr) /\ ~Stamped(layer))
      <4>1. PageText(layer, ocr) = IF layer = None THEN ocr
                                   ELSE IF OcrLeads THEN Supplemented(ocr, layer)
                                        ELSE Supplemented(layer, ocr)
        BY DEF PageText
      <4> HIDE DEF OcrLeads
      <4> QED BY ONLY <4>1
    <3>2. Header(Supplemented(ocr, layer)) = Header(ocr)
      BY <2>6, KeepsHeader DEF Supplemented
    <3>3. layer # None => Header(layer) \in Own /\ Header(Supplemented(layer, ocr)) = Header(layer)
      BY <2>7, KeepsHeader DEF Supplemented
    <3> HIDE DEF Own
    <3> QED BY <2>6, <3>1, <3>2, <3>3
  <2> QED BY <2>6, <2>7
<1> QED BY <1>1, <1>2, <1>3, PTL DEF PagesSpec

-----------------------------------------------------------------------------
(* The seller in the header.                                               *)

(* The header is the head of the page.                                     *)
LEMMA AboveIs ==
  ASSUME NEW S, NEW lines \in Seq(S)
  PROVE  /\ IsFiniteSet(DOMAIN AboveCustomer(lines))
         /\ \A k \in DOMAIN AboveCustomer(lines) :
              k \in DOMAIN lines /\ AboveCustomer(lines)[k] = lines[k]
<1> DEFINE Ends == {k \in DOMAIN lines : lines[k].kind = "customer"} \cup {Len(lines) + 1}
           m == Min(Ends)
<1>1. DOMAIN lines = 1..Len(lines) /\ Len(lines) \in Nat
  BY PlacesOf
<1>2. m \in Ends /\ m <= Len(lines) + 1
  <2>1. Ends \in SUBSET Nat /\ Len(lines) + 1 \in Ends
    BY <1>1
  <2> HIDE DEF Ends
  <2> QED BY <2>1, LeastOfNaturals
<1>3. m \in 1..Len(lines) + 1
  BY <1>1, <1>2
<1>4. AboveCustomer(lines) = SubSeq(lines, 1, m - 1)
  BY DEF AboveCustomer
<1> HIDE DEF m
<1>5. /\ DOMAIN SubSeq(lines, 1, m - 1) = 1..(m - 1)
      /\ \A k \in 1..(m - 1) : SubSeq(lines, 1, m - 1)[k] = lines[k]
  BY <1>1, <1>3
<1>6. IsFiniteSet(1..(m - 1))
  BY <1>3, FS_Interval
<1> QED BY <1>1, <1>3, <1>4, <1>5, <1>6

(* A document lists lines and hosts.                                       *)
Listed(doc) == doc.lines \in Seq(ToSet(doc.lines)) /\ IsFiniteSet(doc.hosts)

(* However a name is spelled, it is the same word.                         *)
LEMMA SpellingWord ==
  ASSUME NEW doc, Listed(doc), NEW i \in DOMAIN doc.lines
  PROVE  Spelling(doc, doc.lines[i].name)[1] = doc.lines[i].name[1]
<1> DEFINE name == doc.lines[i].name
           Times(n) == Cardinality({k \in DOMAIN doc.lines : doc.lines[k].name = n})
                         + Bit(doc.thanks = n) + Bit(n \in doc.hosts)
           Near == {n \in {l.name : l \in ToSet(doc.lines)} \cup doc.hosts : n[1] = name[1]}
           Most(n) == \A m \in Near :
                         Times(m) < Times(n) \/ (Times(m) = Times(n) /\ (n = name \/ m # name))
           Bound == Cardinality(DOMAIN doc.lines) + 2
<1>1. IsFiniteSet(DOMAIN doc.lines) /\ Cardinality(DOMAIN doc.lines) \in Nat
  BY PlacesOf, FS_CardinalityType DEF Listed
<1>2. ASSUME NEW n PROVE Times(n) \in 0..Bound
  <2> DEFINE At == {k \in DOMAIN doc.lines : doc.lines[k].name = n}
  <2>1. IsFiniteSet(At) /\ Cardinality(At) <= Cardinality(DOMAIN doc.lines)
    BY <1>1, FS_Subset
  <2>2. Cardinality(At) \in Nat
    BY <2>1, FS_CardinalityType
  <2> HIDE DEF At
  <2>3. Cardinality(At) + Bit(doc.thanks = n) + Bit(n \in doc.hosts) \in 0..Bound
    BY <1>1, <2>1, <2>2 DEF Bit
  <2> QED BY <2>3 DEF At
<1>3. name \in Near
  BY DEF ToSet
<1> HIDE DEF Near, Times
<1> DEFINE Left == {Bound - Times(n) : n \in Near}
<1>4. Left \in SUBSET Nat /\ Left # {}
  BY <1>1, <1>2, <1>3
<1>5. PICK least \in Left : \A x \in Left : least <= x
  BY <1>4, LeastNatural
<1>6. PICK n \in Near : least = Bound - Times(n)
  BY <1>5
<1>7. ASSUME NEW m \in Near PROVE Times(m) <= Times(n)
  <2>1. Bound - Times(m) \in Left
    OBVIOUS
  <2>2. Bound - Times(n) <= Bound - Times(m)
    BY <1>5, <1>6, <2>1
  <2>3. Bound \in Int /\ Times(m) \in Int /\ Times(n) \in Int
    BY <1>1, <1>2
  <2> HIDE DEF Bound
  <2> QED BY <2>2, <2>3
<1>8. \E x \in Near : Most(x)
  <2>1. CASE Times(name) = Times(n)
    BY <1>2, <1>3, <1>7, <2>1
  <2>2. CASE Times(name) # Times(n)
    <3>1. Times(name) < Times(n)
      BY <1>2, <1>3, <1>7, <2>2
    <3>2. Most(n)
      BY <1>2, <1>7, <3>1
    <3> QED BY <3>2
  <2> QED BY <2>1, <2>2
<1> DEFINE most == CHOOSE x \in Near : Most(x)
<1>9. most \in Near
  <2> HIDE DEF Most
  <2> QED BY <1>8
<1>10. Spelling(doc, name) = IF Times(most) >= 2 THEN most ELSE name
  BY DEF Spelling, Near, Times
<1> HIDE DEF most
<1> QED BY <1>9, <1>10 DEF Near

(* A merchant who is read in a document stands in its header.              *)
LEMMA IssuerWord ==
  ASSUME NEW doc, Listed(doc), Issuer(doc) # None
  PROVE  ReadsWord(doc.lines, Issuer(doc)[1][1])
<1> DEFINE above == Len(AboveCustomer(doc.lines))
           Sources == {[at |-> 0, key |-> <<-8>>]}
              \cup {[at |-> k, key |-> <<-Source(doc, doc.lines[k], k <= above)>>] : k \in DOMAIN doc.lines}
           best == Best(Sources)
<1>1. DOMAIN doc.lines = 1..Len(doc.lines) /\ Len(doc.lines) \in Nat /\ IsFiniteSet(DOMAIN doc.lines)
  BY PlacesOf DEF Listed
<1>2. ASSUME NEW k, NEW first PROVE Source(doc, doc.lines[k], first) \in Int
  BY DEF Source
<1>3. IsFiniteSet(Sources)
  <2> DEFINE f == [k \in DOMAIN doc.lines |->
                     [at |-> k, key |-> <<-Source(doc, doc.lines[k], k <= above)>>]]
  <2>1. IsFiniteSet({f[k] : k \in DOMAIN doc.lines})
    BY <1>1, ImageIsFinite
  <2>2. {f[k] : k \in DOMAIN doc.lines}
          = {[at |-> k, key |-> <<-Source(doc, doc.lines[k], k <= above)>>] : k \in DOMAIN doc.lines}
    OBVIOUS
  <2>3. IsFiniteSet({[at |-> 0, key |-> <<-8>>]})
    BY FS_Singleton
  <2> QED BY <2>1, <2>2, <2>3, FS_Union
<1>4. \A r \in Sources : r.key \in Keys(1) /\ r.at \in Int
  <2>1. \A x \in Int : <<x>> \in Keys(1)
    BY DEF Keys
  <2> QED BY <1>1, <1>2, <2>1
<1>5. Sources # {}
  OBVIOUS
<1> HIDE DEF Sources
<1>6. best \in Sources
  BY <1>3, <1>4, <1>5, BestIs
<1>7. Issuer(doc) = IF best.at = 0 THEN None
                    ELSE Normal(Taken(doc, -best.key[1], doc.lines[best.at]))
  BY DEF Issuer, Sources
<1> HIDE DEF best
<1>8. best.at \in DOMAIN doc.lines
  BY <1>6, <1>7 DEF Sources
<1>9. ASSUME NEW source PROVE Taken(doc, source, doc.lines[best.at])[1][1] = doc.lines[best.at].name[1]
  BY <1>8, SpellingWord DEF Taken, Label
<1>10. \A label : Normal(label)[1][1] = label[1][1]
  BY DEF Normal
<1> QED BY <1>7, <1>8, <1>9, <1>10 DEF ReadsWord

-----------------------------------------------------------------------------
(* What the passes decide.                                                 *)

(* Every pass reports a listed document, and the passes are finitely many. *)
AllListed(passes) ==
  /\ IsFiniteSet(DOMAIN passes)
  /\ \A k \in DOMAIN passes : Listed(passes[k].text)

(* Two different elements make two.                                        *)
LEMMA TwoPlaces ==
  ASSUME NEW S, IsFiniteSet(S), NEW i \in S, NEW k \in S, i # k
  PROVE  Cardinality(S) >= 2
<1>1. IsFiniteSet({i}) /\ Cardinality({i}) = 1
  BY FS_Singleton
<1>2. Cardinality({i} \cup {k}) = 2
  BY <1>1, FS_AddElement
<1>3. Cardinality({i, k}) = 2
  <2>1. {i, k} = {i} \cup {k}
    OBVIOUS
  <2> QED BY <1>2, <2>1
<1>4. Cardinality({i, k}) <= Cardinality(S) /\ Cardinality(S) \in Nat
  BY FS_Subset, FS_CardinalityType
<1> QED BY <1>3, <1>4

(* The merchant most passes read stands in the header of two of them.      *)
LEMMA MostReadWord ==
  ASSUME NEW passes, AllListed(passes), NEW hosts,
         NEW n, n = MostRead([k \in DOMAIN passes |-> Issuer(passes[k].text)], hosts), n # None
  PROVE  Cardinality({k \in DOMAIN passes : ReadsWord(passes[k].text.lines, n[1][1])}) >= 2
<1> DEFINE read == [k \in DOMAIN passes |-> Issuer(passes[k].text)]
           Votes(m) == {k \in DOMAIN read : read[k] = m}
           Hosted == ToSet(read) \cap {<<h, "">> : h \in hosts}
           Top == {m \in Hosted : /\ Cardinality(Votes(m)) >= 2
                                 /\ \A o \in Hosted : Cardinality(Votes(o)) <= Cardinality(Votes(m))}
           Readers == {k \in DOMAIN passes : ReadsWord(passes[k].text.lines, n[1][1])}
<1>1. MostRead(read, hosts) = IF IsSingle(Top) THEN Only(Top) ELSE None
  BY DEF MostRead
<1>2. IsFiniteSet(Top)
  <2>1. IsFiniteSet({read[k] : k \in DOMAIN read})
    BY ImageIsFinite DEF AllListed
  <2>2. Top \in SUBSET {read[k] : k \in DOMAIN read}
    BY DEF ToSet
  <2> QED BY <2>1, <2>2, FS_Subset
<1>3. n \in Top
  <2> HIDE DEF Top
  <2> QED BY <1>1, <1>2, SingleIs
<1>4. Cardinality(Votes(n)) >= 2
  BY <1>3
<1>5. Votes(n) \in SUBSET Readers
  BY IssuerWord DEF AllListed
<1>6. IsFiniteSet(Readers)
  BY FS_Subset DEF AllListed
<1> HIDE DEF Votes, Readers
<1>7. /\ Cardinality(Votes(n)) <= Cardinality(Readers)
      /\ Cardinality(Votes(n)) \in Nat /\ Cardinality(Readers) \in Nat
  BY <1>5, <1>6, FS_Subset, FS_CardinalityType
<1>8. Cardinality(Readers) >= 2
  BY ONLY <1>4, <1>7
<1> QED BY <1>8 DEF Readers

(* A branch the passes agree on has a number and stands in two of them.    *)
LEMMA BranchWord ==
  ASSUME NEW passes, AllListed(passes), NEW b, b = BranchOfPasses(passes), b # None
  PROVE  /\ b[2] # ""
         /\ Cardinality({k \in DOMAIN passes : ReadsWord(passes[k].text.lines, b[1][1])}) >= 2
<1> DEFINE Lines(k) == AboveCustomer(passes[k].text.lines)
           With(run) == {k \in DOMAIN passes : passes[k].run = run}
           Backed(k) == {c \in Branches(Lines(k)) :
                        /\ \E i \in With(passes[k].run) : c[1] \in Brands(Lines(i))
                        /\ \E i \in With(passes[k].run) :
                              /\ passes[i].engine # passes[k].engine
                              /\ \E d \in Branches(Lines(i)) : d[1][1] = c[1][1] /\ d[2] = c[2]}
           Supported == UNION {Backed(k) : k \in DOMAIN passes}
           Readers == {k \in DOMAIN passes : ReadsWord(passes[k].text.lines, b[1][1])}
<1>1. BranchOfPasses(passes) = IF IsSingle(Supported) THEN Only(Supported) ELSE None
  BY DEF BranchOfPasses
<1>2. ASSUME NEW k \in DOMAIN passes
      PROVE  /\ IsFiniteSet(Branches(Lines(k)))
             /\ \A c \in Branches(Lines(k)) : c[2] # "" /\ ReadsWord(passes[k].text.lines, c[1][1])
  <2> DEFINE At == {j \in DOMAIN Lines(k) : /\ Lines(k)[j].kind = "plain"
                                            /\ Lines(k)[j].tail # ""
                                            /\ j + 1 \in Streets(Lines(k))}
             f == [j \in At |-> Label(Lines(k)[j])]
  <2>1. /\ IsFiniteSet(DOMAIN Lines(k))
        /\ \A j \in DOMAIN Lines(k) : /\ j \in DOMAIN passes[k].text.lines
                                      /\ Lines(k)[j] = passes[k].text.lines[j]
    BY AboveIs DEF AllListed, Listed
  <2>2. IsFiniteSet(At)
    BY <2>1, FS_Subset
  <2>3. Branches(Lines(k)) = {f[j] : j \in At}
    BY DEF Branches
  <2>4. IsFiniteSet({f[j] : j \in At})
    BY <2>2, ImageIsFinite
  <2>5. \A j \in At : /\ f[j][2] # ""
                      /\ ReadsWord(passes[k].text.lines, f[j][1][1])
    BY <2>1 DEF Label, ReadsWord
  <2> HIDE DEF At, f, Lines
  <2> QED BY <2>3, <2>4, <2>5
<1>3. IsFiniteSet(Supported)
  <2> DEFINE g == [k \in DOMAIN passes |-> Backed(k)]
  <2>1. IsFiniteSet({g[k] : k \in DOMAIN passes})
    <3> HIDE DEF g
    <3>1. IsFiniteSet(DOMAIN passes)
      BY DEF AllListed
    <3> QED BY <3>1, ImageIsFinite
  <2>2. ASSUME NEW k \in DOMAIN passes PROVE IsFiniteSet(g[k])
    <3>1. g[k] \in SUBSET Branches(Lines(k))
      OBVIOUS
    <3> QED BY <1>2, <3>1, FS_Subset
  <2>3. Supported = UNION {g[k] : k \in DOMAIN passes}
    OBVIOUS
  <2> HIDE DEF g
  <2> QED BY <2>1, <2>2, <2>3, FS_UNION
<1>4. b \in Supported
  <2> HIDE DEF Supported
  <2> QED BY <1>1, <1>3, SingleIs
<1>5. PICK k \in DOMAIN passes : b \in Backed(k)
  BY <1>4
<1>6. b \in Branches(Lines(k))
  BY <1>5
<1>7. PICK i \in DOMAIN passes : /\ passes[i].engine # passes[k].engine
                                 /\ \E d \in Branches(Lines(i)) : d[1][1] = b[1][1] /\ d[2] = b[2]
  BY <1>5
<1> HIDE DEF Lines, Backed
<1>8. i \in Readers /\ k \in Readers /\ i # k /\ b[2] # ""
  BY <1>2, <1>6, <1>7
<1>9. IsFiniteSet(Readers)
  BY FS_Subset DEF AllListed
<1> HIDE DEF Readers
<1>10. Cardinality(Readers) >= 2
  BY <1>8, <1>9, TwoPlaces
<1> QED BY <1>8, <1>10 DEF Readers

(* A numbered store has its number.                                        *)
Numbers(lines) ==
  \A k \in DOMAIN lines : lines[k].kind \in {"store", "branch"} => lines[k].tail # ""

(* Finitely many stores, each with a number.                               *)
Tailed(stores) == IsFiniteSet(stores) /\ \A s \in stores : s[2] # ""

(* The numbered stores of a header have their numbers.                     *)
LEMMA NumberedStoresAre ==
  ASSUME NEW S, NEW lines \in Seq(S), Numbers(lines)
  PROVE  Tailed(NumberedStores(lines))
<1> DEFINE Numbered == {k \in DOMAIN lines : lines[k].kind \in {"store", "branch"}}
           First == {k \in Numbered : \A j \in Numbered : j < k => lines[j].tail # lines[k].tail}
           f == [k \in First |-> IF lines[k].kind = "store" THEN <<None, lines[k].tail>>
                                 ELSE Label(lines[k])]
<1>1. NumberedStores(lines) = {f[k] : k \in First}
  BY DEF NumberedStores
<1>2. IsFiniteSet(First)
  BY PlacesOf, FS_Subset
<1>3. \A k \in First : f[k][2] # ""
  BY DEF Label, Numbers
<1> HIDE DEF First, f
<1>4. IsFiniteSet({f[k] : k \in First})
  BY <1>2, ImageIsFinite
<1> QED BY <1>1, <1>3, <1>4 DEF Tailed

(* The store lines of a header.                                            *)
LEMMA StoreLinesAre ==
  ASSUME NEW S, NEW lines \in Seq(S), NEW merchant
  PROVE  /\ IsFiniteSet(StoreLines(AboveCustomer(lines), merchant))
         /\ \A s \in StoreLines(AboveCustomer(lines), merchant) : s # merchant
<1> DEFINE Above == AboveCustomer(lines)
           At == {k \in DOMAIN Above : /\ <<Above[k].name, "">> = merchant /\ Above[k].tail # ""
                                       /\ {k + 1, k + 2} \cap Streets(Above) # {}}
           f == [k \in At |-> Label(Above[k])]
<1>1. StoreLines(Above, merchant) = {f[k] : k \in At}
  BY DEF StoreLines
<1>2. IsFiniteSet(At)
  BY AboveIs, FS_Subset
<1>3. ASSUME NEW k \in At PROVE f[k] # merchant
  <2>1. f[k] = <<Above[k].name, Above[k].tail>> /\ <<Above[k].name, "">> = merchant /\ Above[k].tail # ""
    BY DEF Label
  <2>2. <<Above[k].name, "">>[2] = "" /\ <<Above[k].name, Above[k].tail>>[2] = Above[k].tail
    OBVIOUS
  <2> HIDE DEF f, Above
  <2>3. merchant[2] = "" /\ f[k][2] # ""
    BY <2>1, <2>2
  <2> QED BY ONLY <2>3
<1> HIDE DEF At, f
<1>4. IsFiniteSet({f[k] : k \in At})
  BY <1>2, ImageIsFinite
<1> QED BY <1>1, <1>3, <1>4

(* Nobody is his own store.                                                *)
LEMMA NotHisStore ==
  ASSUME NEW doc, Listed(doc), NEW passes, AllListed(passes),
         NEW stores, Tailed(stores), NEW named, stores # {named},
         NEW found, found = WithStore(doc, passes, stores, named), found.merchant # None
  PROVE  found.merchant = Normal(named) /\ found.merchant # found.store
<1> DEFINE Above(lines) == StoreLines(AboveCustomer(lines), Normal(named))
           SellersRead == UNION {Above(passes[k].text.lines) : k \in DOMAIN passes}
           Own == Above(doc.lines)
           store == StoreOf(named, stores, Own, Own \cup SellersRead)
<1>1. named # None
  <2>1. WithStore(doc, passes, stores, None).merchant = None
    BY DEF WithStore
  <2> QED BY <2>1
<1>2. found = [merchant |-> Normal(named), store |-> store]
  BY <1>1 DEF WithStore
<1> HIDE DEF store
<1>3. found.merchant = Normal(named) /\ found.store = store /\ Normal(named) # None
  BY ONLY <1>2, found.merchant # None
<1>4. IsFiniteSet(Own) /\ \A s \in Own : s # Normal(named)
  BY StoreLinesAre DEF Listed
<1>5. IsFiniteSet(SellersRead) /\ \A s \in SellersRead : s # Normal(named)
  <2> DEFINE g == [k \in DOMAIN passes |-> Above(passes[k].text.lines)]
  <2>1. ASSUME NEW k \in DOMAIN passes
        PROVE  IsFiniteSet(g[k]) /\ \A s \in g[k] : s # Normal(named)
    BY StoreLinesAre DEF AllListed, Listed
  <2>2. SellersRead = UNION {g[k] : k \in DOMAIN passes}
    OBVIOUS
  <2> HIDE DEF g
  <2>3. IsFiniteSet({g[k] : k \in DOMAIN passes})
    <3>1. IsFiniteSet(DOMAIN passes)
      BY DEF AllListed
    <3> QED BY <3>1, ImageIsFinite
  <2> QED BY <2>1, <2>2, <2>3, FS_UNION
<1> HIDE DEF Own, SellersRead
<1>6. IsFiniteSet(Own \cup SellersRead) /\ \A s \in Own \cup SellersRead : s # Normal(named)
  BY <1>4, <1>5, FS_Union
<1>7. Normal(named) = named \/ Normal(named)[2] = ""
  BY DEF Normal
<1>8. \A s \in stores : stores = {s} => s # Normal(named)
  BY <1>7 DEF Tailed
<1>9. /\ IsSingle(Own) => Only(Own) \in Own
      /\ IsSingle(Own \cup SellersRead) => Only(Own \cup SellersRead) \in Own \cup SellersRead
      /\ IsSingle(stores) => stores = {Only(stores)}
  BY <1>4, <1>6, SingleIs DEF Tailed
<1>10. store # Normal(named)
  <2> USE DEF store
  <2>1. CASE Cardinality(stores) <= 1 /\ IsSingle(Own)
    BY <2>1, <1>4, <1>9 DEF StoreOf
  <2>2. CASE Cardinality(stores) <= 1 /\ ~IsSingle(Own) /\ IsSingle(Own \cup SellersRead)
    BY <2>2, <1>6, <1>9 DEF StoreOf
  <2>3. CASE ~(Cardinality(stores) <= 1 /\ IsSingle(Own)) /\
             ~(Cardinality(stores) <= 1 /\ ~IsSingle(Own) /\ IsSingle(Own \cup SellersRead))
    <3>1. store = CASE stores = {} /\ Normal(named) # named /\ named[2] # "" -> named
                    [] OTHER -> IF IsSingle(stores) THEN Only(stores) ELSE None
      BY <2>3 DEF StoreOf
    <3> HIDE DEF store
    <3> QED BY <3>1, <1>3, <1>8, <1>9
  <2> QED BY <2>1, <2>2, <2>3
<1> QED BY <1>3, <1>10

(* Where a merchant comes from.                                            *)
LEMMA MerchantIs ==
  ASSUME NEW doc, Listed(doc), NEW passes, AllListed(passes), NEW hint,
         Numbers(doc.lines), NEW found, found = MerchantAndStore(doc, hint, passes), found.merchant # None
  PROVE  /\ found.merchant # found.store
         /\ \/ hint # None /\ found.merchant = Normal(hint)
            \/ ReadsWord(doc.lines, found.merchant[1][1])
            \/ Cardinality({k \in DOMAIN passes :
                 ReadsWord(passes[k].text.lines, found.merchant[1][1])}) >= 2
<1> DEFINE hosts == doc.hosts \cup UNION {passes[k].text.hosts : k \in DOMAIN passes}
           branch == BranchOfPasses(passes)
           stores == NumberedStores(doc.lines)
           read == MostRead([k \in DOMAIN passes |-> Issuer(passes[k].text)], hosts)
           issuer == IF read = None THEN Issuer(doc) ELSE read
           named == Named(issuer, stores, hint)
<1>1. found = IF branch # None THEN [merchant |-> <<branch[1], "">>, store |-> branch]
              ELSE WithStore(doc, passes, stores, named)
  BY DEF MerchantAndStore
<1> HIDE DEF hosts, branch, stores, read, issuer, named
<1>2. CASE branch # None
  <2>1. /\ branch[2] # ""
        /\ Cardinality({k \in DOMAIN passes : ReadsWord(passes[k].text.lines, branch[1][1])}) >= 2
    BY <1>2, BranchWord DEF branch
  <2>2. found.merchant = <<branch[1], "">> /\ found.store = branch
    <3>1. found = [merchant |-> <<branch[1], "">>, store |-> branch]
      BY <1>1, <1>2
    <3> QED BY ONLY <3>1
  <2>3. found.merchant # found.store /\ found.merchant[1] = branch[1]
    <3>1. <<branch[1], "">>[1] = branch[1] /\ <<branch[1], "">>[2] = ""
      OBVIOUS
    <3>2. <<branch[1], "">> # branch
      BY ONLY <2>1, <3>1
    <3> QED BY <2>2, <3>1, <3>2
  <2> QED BY <2>1, <2>3
<1>3. CASE branch = None
  <2>1. Tailed(stores)
    BY NumberedStoresAre DEF Listed, stores
  <2>2. issuer # None =>
          \/ ReadsWord(doc.lines, issuer[1][1])
          \/ Cardinality({k \in DOMAIN passes : ReadsWord(passes[k].text.lines, issuer[1][1])}) >= 2
    <3>1. read # None =>
            Cardinality({k \in DOMAIN passes : ReadsWord(passes[k].text.lines, read[1][1])}) >= 2
      BY MostReadWord DEF read
    <3>2. Issuer(doc) # None => ReadsWord(doc.lines, Issuer(doc)[1][1])
      BY IssuerWord
    <3> QED BY <3>1, <3>2 DEF issuer
  <2>3. /\ named \in {issuer, hint, None}
        /\ named # None => stores # {named}
    BY DEF Named, named
  <2>4. found = WithStore(doc, passes, stores, named)
    BY <1>1, <1>3
  <2>5. named # None
    <3>1. WithStore(doc, passes, stores, None).merchant = None
      BY DEF WithStore
    <3> QED BY <2>4, <3>1
  <2>6. found.merchant = Normal(named) /\ found.merchant # found.store
    BY <2>1, <2>3, <2>4, <2>5, NotHisStore
  <2>7. Normal(named)[1][1] = named[1][1]
    BY DEF Normal
  <2>8. CASE named = issuer
    BY <2>2, <2>5, <2>6, <2>7, <2>8
  <2>9. CASE named = hint
    BY <2>5, <2>6, <2>9
  <2> QED BY <2>3, <2>5, <2>8, <2>9
<1> QED BY <1>2, <1>3

(* Where a street stands.                                                  *)
LEMMA StreetStands ==
  ASSUME NEW doc, Listed(doc), NEW passes, AllListed(passes),
         NEW street, street = StoreAddress(doc, passes), street # None
  PROVE  \E lines \in {AboveCustomer(doc.lines)}
                        \cup {AboveCustomer(passes[k].text.lines) : k \in DOMAIN passes} :
            \E k \in Streets(lines) : lines[k].name = street
<1> DEFINE Names(lines) == {lines[k].name : k \in Streets(lines)}
           Own == Names(AboveCustomer(doc.lines))
           Others == {Names(AboveCustomer(passes[k].text.lines)) : k \in DOMAIN passes}
<1>1. StoreAddress(doc, passes) =
        CASE IsSingle(Own) -> Only(Own)
          [] Cardinality(Own) > 1 -> None
          [] OTHER -> IF /\ \A o \in Others : Cardinality(o) <= 1
                         /\ IsSingle(UNION Others)
                      THEN Only(UNION Others) ELSE None
  BY DEF StoreAddress
<1>2. ASSUME NEW S, NEW lines \in Seq(S)
      PROVE  IsFiniteSet(Names(AboveCustomer(lines)))
  <2> DEFINE Above == AboveCustomer(lines)
             f == [k \in Streets(Above) |-> Above[k].name]
  <2>1. IsFiniteSet(Streets(Above))
    BY AboveIs, FS_Subset DEF Streets
  <2>2. Names(Above) = {f[k] : k \in Streets(Above)}
    OBVIOUS
  <2> HIDE DEF f, Above
  <2>3. IsFiniteSet({f[k] : k \in Streets(Above)})
    BY <2>1, ImageIsFinite
  <2> QED BY <2>2, <2>3 DEF Above
<1>3. IsFiniteSet(Own)
  BY <1>2 DEF Listed
<1>4. IsFiniteSet(UNION Others)
  <2> DEFINE g == [k \in DOMAIN passes |-> Names(AboveCustomer(passes[k].text.lines))]
  <2>1. ASSUME NEW k \in DOMAIN passes PROVE IsFiniteSet(g[k])
    BY <1>2 DEF AllListed, Listed
  <2>2. Others = {g[k] : k \in DOMAIN passes}
    OBVIOUS
  <2> HIDE DEF g, Others
  <2>3. IsFiniteSet({g[k] : k \in DOMAIN passes})
    <3>1. IsFiniteSet(DOMAIN passes)
      BY DEF AllListed
    <3> QED BY <3>1, ImageIsFinite
  <2> QED BY <2>1, <2>2, <2>3, FS_UNION
<1>5. street \in Own \/ street \in UNION Others
  <2> HIDE DEF Own, Others
  <2>1. /\ IsSingle(Own) => Only(Own) \in Own
        /\ IsSingle(UNION Others) => Only(UNION Others) \in UNION Others
    BY <1>3, <1>4, SingleIs
  <2> QED BY <1>1, <2>1
<1> QED BY <1>5

(* What was printed and what the passes reported are lists of lines.       *)
HeadersListed ==
  /\ document = [lines |-> document.lines, hosts |-> document.hosts, thanks |-> document.thanks]
  /\ Listed(document)
  /\ Numbers(document.lines)
  /\ reports \in Seq(Reports)

(* A list over a set is a list over a larger one.                          *)
LEMMA SeqGrows ==
  ASSUME NEW S, NEW T, S \subseteq T, NEW s \in Seq(S)
  PROVE  s \in Seq(T)
OBVIOUS

(* Every step leaves the headers lists of lines.                           *)
LEMMA MerchantStep ==
  ASSUME HeadersListed, [MerchantNext]_merchantVars
  PROVE  HeadersListed'
<1>1. ASSUME NEW line \in HeaderLines, PrintHeaderLine(line)
      PROVE  HeadersListed'
  <2> DEFINE lines == document.lines
             next == Append(lines, line)
  <2>1. document' = [document EXCEPT !.lines = next] /\ reports' = reports
    BY <1>1 DEF PrintHeaderLine
  <2>2. lines \in Seq(ToSet(lines) \cup {line})
    <3>1. lines \in Seq(ToSet(lines)) /\ ToSet(lines) \subseteq ToSet(lines) \cup {line}
      BY DEF HeadersListed, Listed
    <3> HIDE DEF lines
    <3> QED BY <3>1, SeqGrows
  <2>3. /\ next \in Seq(ToSet(lines) \cup {line})
        /\ DOMAIN next = 1..Len(lines) + 1 /\ Len(lines) \in Nat
        /\ DOMAIN lines = 1..Len(lines)
        /\ \A k \in DOMAIN lines : next[k] = lines[k]
        /\ next[Len(lines) + 1] = line
    BY <2>2
  <2>4. ToSet(lines) \cup {line} \subseteq ToSet(next)
    BY <2>3 DEF ToSet
  <2>5. next \in Seq(ToSet(next))
    BY <2>3, <2>4
  <2>6. Numbers(next)
    <3>1. \A k \in DOMAIN next : k \in DOMAIN lines \/ k = Len(lines) + 1
      BY <2>3
    <3>2. line.kind \in {"store", "branch"} => line.tail # ""
      BY MerchantAssumption
    <3> QED BY <2>3, <3>1, <3>2 DEF HeadersListed, Numbers
  <2> HIDE DEF next
  <2>7. document' = [lines |-> next, hosts |-> document.hosts, thanks |-> document.thanks]
    BY <2>1 DEF HeadersListed
  <2> QED BY <2>1, <2>5, <2>6, <2>7 DEF HeadersListed, Listed
<1>2. ASSUME NEW footer \in Footers, PrintFooter(footer)
      PROVE  HeadersListed'
  <2>1. /\ document' = [document EXCEPT !.hosts = footer.hosts, !.thanks = footer.thanks]
        /\ reports' = reports
    BY <1>2 DEF PrintFooter
  <2>2. IsFiniteSet(footer.hosts)
    BY MerchantAssumption
  <2>3. document' = [lines |-> document.lines, hosts |-> footer.hosts, thanks |-> footer.thanks]
    BY <2>1 DEF HeadersListed
  <2> QED BY <2>1, <2>2, <2>3 DEF HeadersListed, Listed
<1>3. ASSUME NEW r \in Reports, Report(r)
      PROVE  HeadersListed'
  BY <1>3 DEF Report, HeadersListed
<1>4. CASE UNCHANGED merchantVars
  BY <1>4 DEF merchantVars, HeadersListed
<1> QED BY <1>1, <1>2, <1>3, <1>4 DEF MerchantNext

(* The merchant of a receipt is the hint, or stands in its header, or two  *)
(* passes read it there; it is never its own store, and the address is a   *)
(* street read in a header.                                                *)
THEOREM SellerIsPrinted == MerchantSpec => []SellerPrinted
<1>1. MerchantInit => HeadersListed
  <2> SUFFICES ASSUME MerchantInit PROVE HeadersListed
    OBVIOUS
  <2>1. document = BlankDocument /\ reports = <<>>
    BY DEF MerchantInit
  <2>2. document = [lines |-> <<>>, hosts |-> {}, thanks |-> None]
    BY <2>1 DEF BlankDocument
  <2> QED BY <2>1, <2>2, FS_EmptySet DEF HeadersListed, Listed, Numbers
<1>2. HeadersListed /\ [MerchantNext]_merchantVars => HeadersListed'
  BY MerchantStep
<1>3. HeadersListed => SellerPrinted
  <2> SUFFICES ASSUME HeadersListed PROVE SellerPrinted
    OBVIOUS
  <2> DEFINE passes == FirstPage(reports)
  <2>1. Listed(document)
    BY DEF HeadersListed
  <2>2. AllListed(passes)
    <3>1. DOMAIN passes \in SUBSET DOMAIN reports /\ \A k \in DOMAIN passes : passes[k] = reports[k]
      BY DEF FirstPage, Restrict
    <3>2. IsFiniteSet(DOMAIN reports) /\ \A k \in DOMAIN reports : reports[k] \in Reports
      <4>1. reports \in Seq(Reports)
        BY DEF HeadersListed
      <4> QED BY <4>1, PlacesOf
    <3> HIDE DEF passes
    <3>3. IsFiniteSet(DOMAIN passes)
      BY <3>1, <3>2, FS_Subset
    <3>4. \A k \in DOMAIN passes : Listed(passes[k].text)
      BY <3>1, <3>2, MerchantAssumption DEF Listed
    <3> QED BY <3>3, <3>4 DEF AllListed
  <2> HIDE DEF passes
  <2>3. ASSUME NEW hint \in Hints, NEW found \in {MerchantAndStore(document, hint, passes)},
               found.merchant # None
        PROVE  /\ found.merchant # found.store
               /\ \/ hint # None /\ found.merchant = Normal(hint)
                  \/ ReadsWord(document.lines, found.merchant[1][1])
                  \/ Cardinality({k \in DOMAIN passes :
                        ReadsWord(passes[k].text.lines, found.merchant[1][1])}) >= 2
    <3>1. Numbers(document.lines)
      BY DEF HeadersListed
    <3>2. found = MerchantAndStore(document, hint, passes)
      OBVIOUS
    <3> QED BY <2>1, <2>2, <2>3, <3>1, <3>2, MerchantIs
  <2>4. ASSUME NEW street \in {StoreAddress(document, passes)} \ {None}
        PROVE  \E lines \in {AboveCustomer(document.lines)}
                   \cup {AboveCustomer(passes[k].text.lines) : k \in DOMAIN passes} :
                  \E k \in Streets(lines) : lines[k].name = street
    BY <2>1, <2>2, StreetStands
  <2> QED BY <2>3, <2>4 DEF SellerPrinted, passes
<1> QED BY <1>1, <1>2, <1>3, PTL DEF MerchantSpec

-----------------------------------------------------------------------------
(* Sums over finite sets.                                                  *)

(* A property of every subset of a finite set follows when it passes from  *)
(* the subsets with one element less: a smallest exception would have none *)
(* among those.                                                            *)
LEMMA SmallestSet ==
  ASSUME NEW S, IsFiniteSet(S), NEW B \in SUBSET (SUBSET S), B # {}
  PROVE  \E T \in B : \A x \in T : T \ {x} \notin B
<1> DEFINE Sizes == {Cardinality(T) : T \in B}
<1>1. \A T \in SUBSET S : IsFiniteSet(T) /\ Cardinality(T) \in Nat
  BY FS_Subset, FS_CardinalityType
<1>2. Sizes \in SUBSET Nat /\ Sizes # {}
  BY <1>1
<1>3. PICK m \in Sizes : \A n \in Sizes : m <= n
  BY <1>2, LeastNatural
<1>4. PICK T \in B : Cardinality(T) = m
  BY <1>3
<1>5. ASSUME NEW x \in T, T \ {x} \in B
      PROVE  FALSE
  <2>1. Cardinality(T \ {x}) \in Sizes
    BY <1>5
  <2>2. Cardinality(T \ {x}) = m - 1
    BY <1>1, <1>4, FS_RemoveElement
  <2> QED BY <1>2, <1>3, <2>1, <2>2
<1> QED BY <1>4, <1>5

(* A finite set of natural numbers has a greatest one.                     *)
LEMMA GreatestNatural ==
  ASSUME NEW S \in SUBSET Nat, IsFiniteSet(S), S # {}
  PROVE  \E m \in S : \A n \in S : n <= m
<1> DEFINE Topped(T) == \E m \in T : \A n \in T : n <= m
           Wrong == {T \in SUBSET S : T # {} /\ ~Topped(T)}
<1>1. ASSUME NEW T \in SUBSET S, \A y \in T : T \ {y} \notin Wrong
      PROVE  T \notin Wrong
  <2>1. ASSUME NEW x \in T PROVE Topped(T)
    <3>1. CASE T \ {x} = {}
      BY <2>1, <3>1
    <3>2. CASE T \ {x} # {}
      <4>1. PICK m \in T \ {x} : \A n \in T \ {x} : n <= m
        BY <1>1, <2>1, <3>2
      <4>2. CASE m <= x
        <5>1. \A n \in T : n <= x
          BY <2>1, <4>1, <4>2
        <5> QED BY <2>1, <5>1
      <4>3. CASE x <= m
        BY <2>1, <4>1, <4>3
      <4> QED BY <2>1, <4>1, <4>2, <4>3
    <3> QED BY <3>1, <3>2
  <2> QED BY <2>1
<1>2. Wrong \in SUBSET (SUBSET S)
  OBVIOUS
<1> HIDE DEF Wrong
<1>3. Wrong = {}
  BY <1>1, <1>2, SmallestSet
<1>4. S \in SUBSET S
  OBVIOUS
<1> QED BY <1>3, <1>4 DEF Wrong

(* g sums f over the subsets of S.                                         *)
Sums(f, S, g) ==
  /\ g \in [SUBSET S -> Int]
  /\ g[{}] = 0
  /\ \A T \in SUBSET S : \A x \in T : g[T] = f[x] + g[T \ {x}]

(* The sum as the community modules fold it.                               *)
SumsBy(f, S, g) ==
  g = [T \in SUBSET S |->
         IF T = {} THEN 0 ELSE f[CHOOSE x \in T : TRUE] + g[T \ {CHOOSE x \in T : TRUE}]]

(* f gives each element of the finite set S an integer.                    *)
Numeric(f, S) == IsFiniteSet(S) /\ \A x \in S : f[x] \in Int

(* The sum is defined.                                                     *)
LEMMA SumExists ==
  ASSUME NEW S, NEW f, Numeric(f, S)
  PROVE  \E g : SumsBy(f, S, g)
<1> DEFINE pick(T) == CHOOSE x \in T : TRUE
           Upto(m) == {T \in SUBSET S : Cardinality(T) <= m}
           Down(g, m) == g = [T \in Upto(m) |->
                                IF T = {} THEN 0 ELSE f[pick(T)] + g[T \ {pick(T)}]]
           Missing == {m \in Nat : ~ \E g : Down(g, m)}
<1>1. \A T : T # {} => pick(T) \in T
  OBVIOUS
<1> HIDE DEF pick
<1>2. \A T \in SUBSET S : /\ Cardinality(T) \in Nat
                          /\ Cardinality(T) <= Cardinality(S)
                          /\ Cardinality(T) = 0 <=> T = {}
                          /\ \A x \in T : Cardinality(T \ {x}) = Cardinality(T) - 1
  BY FS_Subset, FS_CardinalityType, FS_EmptySet, FS_RemoveElement DEF Numeric
<1>3. ASSUME NEW m \in Nat, \A g : ~Down(g, m), \A k \in Nat : (\A g : ~Down(g, k)) => m <= k
      PROVE  FALSE
  <2>1. m # 0
    <3> DEFINE g == [T \in Upto(0) |-> 0]
    <3>1. \A T \in Upto(0) : T = {}
      BY <1>2
    <3>2. Down(g, 0)
      BY <3>1
    <3> QED BY <1>3, <3>2
  <2>2. \E g : Down(g, m - 1)
    <3>1. m - 1 \in Nat /\ ~(m <= m - 1)
      BY <2>1
    <3> HIDE DEF Down
    <3> QED BY <1>3, <3>1
  <2>3. PICK h : Down(h, m - 1)
    BY <2>2
  <2> DEFINE g == [T \in Upto(m) |->
                     IF Cardinality(T) = m THEN f[pick(T)] + h[T \ {pick(T)}] ELSE h[T]]
  <2>4. ASSUME NEW T \in Upto(m)
        PROVE  g[T] = IF T = {} THEN 0 ELSE f[pick(T)] + g[T \ {pick(T)}]
    <3>1. T # {} => /\ T \ {pick(T)} \in Upto(m)
                    /\ Cardinality(T \ {pick(T)}) = Cardinality(T) - 1
      BY <1>1, <1>2
    <3>2. T # {} => g[T \ {pick(T)}] = h[T \ {pick(T)}]
      BY <1>2, <3>1
    <3>3. CASE Cardinality(T) = m
      <4>1. T # {} /\ g[T] = f[pick(T)] + h[T \ {pick(T)}]
        BY <1>2, <2>1, <3>3
      <4> QED BY <3>2, <4>1
    <3>4. CASE Cardinality(T) # m
      <4>1. T \in Upto(m - 1) /\ g[T] = h[T]
        BY <1>2, <3>4
      <4>2. h[T] = IF T = {} THEN 0 ELSE f[pick(T)] + h[T \ {pick(T)}]
        BY <2>3, <4>1
      <4> QED BY <3>2, <4>1, <4>2
    <3> QED BY <3>3, <3>4
  <2>5. Down(g, m)
    <3>1. g = [T \in Upto(m) |-> g[T]]
      OBVIOUS
    <3> HIDE DEF g, Upto
    <3> QED BY <2>4, <3>1
  <2> HIDE DEF Down
  <2> QED BY <1>3, <2>5
<1> HIDE DEF Down
<1>4. Missing = {}
  <2> SUFFICES ASSUME Missing # {} PROVE FALSE
    OBVIOUS
  <2>1. Missing \in SUBSET Nat
    OBVIOUS
  <2> HIDE DEF Missing
  <2>2. PICK m \in Missing : \A k \in Missing : m <= k
    BY <2>1, LeastNatural
  <2> QED BY <1>3, <2>2 DEF Missing
<1>5. S \in SUBSET S /\ Cardinality(S) \in Nat
  BY <1>2
<1>6. \E g : Down(g, Cardinality(S))
  BY <1>4, <1>5
<1>7. Upto(Cardinality(S)) = SUBSET S
  BY <1>2
<1> QED BY <1>6, <1>7 DEF SumsBy, Down, pick

(* Whichever element the fold takes first, the sum is that of the rest and *)
(* any one element.                                                        *)
LEMMA SumsAre ==
  ASSUME NEW S, NEW f, Numeric(f, S), NEW g, SumsBy(f, S, g)
  PROVE  Sums(f, S, g)
<1> DEFINE pick(T) == CHOOSE x \in T : TRUE
<1>1. \A T : T # {} => pick(T) \in T
  OBVIOUS
<1>2. /\ DOMAIN g = SUBSET S /\ g = [T \in SUBSET S |-> g[T]]
      /\ \A T \in SUBSET S : g[T] = IF T = {} THEN 0 ELSE f[pick(T)] + g[T \ {pick(T)}]
  BY DEF SumsBy
<1> HIDE DEF pick
<1> DEFINE Odd == {T \in SUBSET S : g[T] \notin Int}
           Wrong == {T \in SUBSET S : \E x \in T : g[T] # f[x] + g[T \ {x}]}
<1>3. Odd = {}
  <2>1. ASSUME NEW T \in SUBSET S, \A y \in T : T \ {y} \notin Odd
        PROVE  T \notin Odd
    <3>1. CASE T = {}
      <4>1. g[T] = 0
        BY <1>2, <3>1
      <4> QED BY <4>1
    <3>2. CASE T # {}
      <4>1. pick(T) \in T /\ g[T] = f[pick(T)] + g[T \ {pick(T)}]
        BY <1>1, <1>2, <3>2
      <4>2. g[T \ {pick(T)}] \in Int /\ f[pick(T)] \in Int
        BY <2>1, <4>1 DEF Numeric
      <4> QED BY <4>1, <4>2
    <3> QED BY <3>1, <3>2
  <2>2. Odd \in SUBSET (SUBSET S)
    OBVIOUS
  <2> HIDE DEF Odd
  <2> QED BY <2>1, <2>2, SmallestSet DEF Numeric
<1>4. \A T \in SUBSET S : g[T] \in Int
  BY <1>3
<1> HIDE DEF Odd
<1>5. ASSUME NEW T \in SUBSET S, \A y \in T : T \ {y} \notin Wrong
      PROVE  T \notin Wrong
  <2>1. ASSUME NEW x \in T PROVE g[T] = f[x] + g[T \ {x}]
    <3> DEFINE y == pick(T)
    <3>1. y \in T /\ g[T] = f[y] + g[T \ {y}]
      BY <1>1, <1>2, <2>1
    <3>2. CASE x = y
      BY <3>1, <3>2
    <3>3. CASE x # y
      <4>1. g[T \ {y}] = f[x] + g[(T \ {y}) \ {x}]
        BY <1>5, <3>1, <3>3
      <4>2. g[T \ {x}] = f[y] + g[(T \ {x}) \ {y}]
        BY <1>5, <3>1, <3>3
      <4>3. (T \ {y}) \ {x} = (T \ {x}) \ {y}
        OBVIOUS
      <4>4. /\ g[(T \ {x}) \ {y}] \in Int /\ f[x] \in Int /\ f[y] \in Int
            /\ g[T \ {x}] \in Int /\ g[T \ {y}] \in Int
        BY <1>4, <3>1 DEF Numeric
      <4> HIDE DEF y
      <4>5. g[T] = f[y] + (f[x] + g[(T \ {x}) \ {y}])
        BY <3>1, <4>1, <4>3
      <4> QED BY <4>2, <4>4, <4>5
    <3> QED BY <3>2, <3>3
  <2> QED BY <2>1
<1>6. Wrong = {}
  <2>1. Wrong \in SUBSET (SUBSET S)
    OBVIOUS
  <2> HIDE DEF Wrong
  <2> QED BY <1>5, <2>1, SmallestSet DEF Numeric
<1>7. \A T \in SUBSET S : \A x \in T : g[T] = f[x] + g[T \ {x}]
  BY <1>6
<1>8. g \in [SUBSET S -> Int]
  BY <1>2, <1>4
<1>9. g[{}] = 0
  BY <1>2
<1> QED BY <1>7, <1>8, <1>9 DEF Sums

(* The sum of f over S.                                                    *)
SumOf(f, S) == (CHOOSE g : Sums(f, S, g))[S]

(* Sums of equal values are equal, over whatever sets they were taken.     *)
LEMMA SumsAgree ==
  ASSUME NEW S, NEW T, NEW f, NEW h, NEW g, NEW k, Sums(f, S, g), Sums(h, T, k),
         NEW R \in SUBSET S, R \in SUBSET T, IsFiniteSet(R), \A x \in R : f[x] = h[x]
  PROVE  g[R] = k[R]
<1> DEFINE Wrong == {Q \in SUBSET R : g[Q] # k[Q]}
<1>1. ASSUME NEW Q \in SUBSET R, \A y \in Q : Q \ {y} \notin Wrong
      PROVE  Q \notin Wrong
  <2>1. CASE Q = {}
    BY <2>1 DEF Sums
  <2>2. CASE Q # {}
    <3>1. PICK x \in Q : TRUE
      BY <2>2
    <3>2. g[Q] = f[x] + g[Q \ {x}] /\ k[Q] = h[x] + k[Q \ {x}]
      <4>1. Q \in SUBSET S /\ Q \in SUBSET T
        OBVIOUS
      <4> QED BY <3>1, <4>1 DEF Sums
    <3>3. g[Q \ {x}] = k[Q \ {x}] /\ f[x] = h[x]
      BY <1>1, <3>1
    <3> QED BY <3>2, <3>3
  <2> QED BY <2>1, <2>2
<1>2. Wrong = {}
  <2>1. Wrong \in SUBSET (SUBSET R)
    OBVIOUS
  <2> HIDE DEF Wrong
  <2> QED BY <1>1, <2>1, SmallestSet
<1> QED BY <1>2

(* The sum of a part is found in the sums of the whole.                    *)
LEMMA SumOfPart ==
  ASSUME NEW S, NEW f, Numeric(f, S), NEW T \in SUBSET S, NEW g, Sums(f, S, g)
  PROVE  SumOf(f, T) = g[T]
<1>1. Numeric(f, T)
  BY FS_Subset DEF Numeric
<1>2. \E k : Sums(f, T, k)
  BY <1>1, SumExists, SumsAre
<1> DEFINE k == CHOOSE k : Sums(f, T, k)
<1>3. Sums(f, T, k)
  BY <1>2
<1> HIDE DEF k
<1>4. g[T] = k[T]
  BY <1>1, <1>3, SumsAgree DEF Numeric
<1> QED BY <1>4 DEF SumOf, k

(* The sum is an integer: nothing over no element, and else any element    *)
(* and the sum of the rest.                                                *)
LEMMA SumIs ==
  ASSUME NEW S, NEW f, Numeric(f, S)
  PROVE  /\ SumOf(f, S) \in Int
         /\ SumOf(f, {}) = 0
         /\ \A x \in S : SumOf(f, S) = f[x] + SumOf(f, S \ {x})
<1>1. PICK g : Sums(f, S, g)
  BY SumExists, SumsAre
<1>2. \A T \in SUBSET S : SumOf(f, T) = g[T]
  BY <1>1, SumOfPart
<1> QED BY <1>1, <1>2 DEF Sums

(* Equal values have equal sums.                                           *)
LEMMA SumSame ==
  ASSUME NEW S, NEW f, NEW h, Numeric(f, S), \A x \in S : f[x] = h[x]
  PROVE  SumOf(f, S) = SumOf(h, S)
<1>1. Numeric(h, S)
  BY DEF Numeric
<1>2. PICK g : Sums(f, S, g)
  BY SumExists, SumsAre
<1>3. PICK k : Sums(h, S, k)
  BY <1>1, SumExists, SumsAre
<1>4. g[S] = k[S]
  BY <1>2, <1>3, SumsAgree DEF Numeric
<1> QED BY <1>1, <1>2, <1>3, <1>4, SumOfPart

(* Disjoint parts add up.                                                  *)
LEMMA SumOfParts ==
  ASSUME NEW S, NEW f, Numeric(f, S), NEW A \in SUBSET S, NEW B \in SUBSET S, A \cap B = {}
  PROVE  SumOf(f, A \cup B) = SumOf(f, A) + SumOf(f, B)
<1> DEFINE Wrong == {Q \in SUBSET B : SumOf(f, A \cup Q) # SumOf(f, A) + SumOf(f, Q)}
<1>1. \A Q \in SUBSET S : Numeric(f, Q)
  BY FS_Subset DEF Numeric
<1>2. SumOf(f, A) \in Int /\ \A Q \in SUBSET B : SumOf(f, Q) \in Int
  BY <1>1, SumIs
<1>3. ASSUME NEW Q \in SUBSET B, \A y \in Q : Q \ {y} \notin Wrong
      PROVE  Q \notin Wrong
  <2>1. CASE Q = {}
    <3>1. SumOf(f, Q) = 0 /\ A \cup Q = A
      <4>1. SumOf(f, {}) = 0
        BY SumIs
      <4> QED BY <2>1, <4>1
    <3>2. SumOf(f, A \cup Q) = SumOf(f, A)
      BY <3>1
    <3>3. SumOf(f, A \cup Q) = SumOf(f, A) + SumOf(f, Q)
      BY <1>2, <3>1, <3>2
    <3> QED BY <3>3
  <2>2. CASE Q # {}
    <3>1. PICK x \in Q : TRUE
      BY <2>2
    <3>2. /\ SumOf(f, Q) = f[x] + SumOf(f, Q \ {x})
          /\ SumOf(f, A \cup Q) = f[x] + SumOf(f, (A \cup Q) \ {x})
      <4>1. Numeric(f, Q) /\ Numeric(f, A \cup Q) /\ x \in Q /\ x \in A \cup Q
        BY <1>1, <3>1
      <4> QED BY <4>1, SumIs
    <3>3. (A \cup Q) \ {x} = A \cup (Q \ {x})
      BY <3>1
    <3>4. SumOf(f, A \cup (Q \ {x})) = SumOf(f, A) + SumOf(f, Q \ {x})
      BY <1>3, <3>1
    <3>5. f[x] \in Int /\ SumOf(f, Q \ {x}) \in Int
      BY <1>2, <3>1 DEF Numeric
    <3> QED BY <1>2, <3>2, <3>3, <3>4, <3>5
  <2> QED BY <2>1, <2>2
<1>4. Wrong = {}
  <2>1. Wrong \in SUBSET (SUBSET B) /\ IsFiniteSet(B)
    BY <1>1 DEF Numeric
  <2> HIDE DEF Wrong
  <2> QED BY <1>3, <2>1, SmallestSet
<1> QED BY <1>4

(* So many times one value.                                                *)
LEMMA SumOfEqual ==
  ASSUME NEW S, NEW f, IsFiniteSet(S), NEW a \in Int, \A x \in S : f[x] = a
  PROVE  SumOf(f, S) = a * Cardinality(S)
<1> DEFINE Wrong == {Q \in SUBSET S : SumOf(f, Q) # a * Cardinality(Q)}
<1>1. \A Q \in SUBSET S : Numeric(f, Q)
  BY FS_Subset DEF Numeric
<1>2. ASSUME NEW Q \in SUBSET S, \A y \in Q : Q \ {y} \notin Wrong
      PROVE  Q \notin Wrong
  <2>1. CASE Q = {}
    <3>1. SumOf(f, Q) = 0 /\ Cardinality(Q) = 0
      BY <2>1, <1>1, SumIs, FS_EmptySet
    <3> QED BY <3>1
  <2>2. CASE Q # {}
    <3>1. PICK x \in Q : TRUE
      BY <2>2
    <3>2. SumOf(f, Q) = a + SumOf(f, Q \ {x})
      BY <1>1, <3>1, SumIs
    <3>3. SumOf(f, Q \ {x}) = a * Cardinality(Q \ {x})
      BY <1>2, <3>1
    <3>4. Cardinality(Q \ {x}) = Cardinality(Q) - 1 /\ Cardinality(Q) \in Nat
      BY <3>1, FS_Subset, FS_RemoveElement, FS_CardinalityType
    <3>5. \A n \in Nat : a + a * (n - 1) = a * n
      OBVIOUS
    <3> QED BY <3>2, <3>3, <3>4, <3>5
  <2> QED BY <2>1, <2>2
<1>3. Wrong = {}
  <2>1. Wrong \in SUBSET (SUBSET S)
    OBVIOUS
  <2> HIDE DEF Wrong
  <2> QED BY <1>2, <2>1, SmallestSet
<1> QED BY <1>3

(* Those that c puts in class k.                                           *)
ClassOf(S, c, k) == {x \in S : c[x] = k}

(* The classes of a partition add up to the whole.                         *)
LEMMA SumOfClasses ==
  ASSUME NEW S, NEW f, Numeric(f, S), NEW c, NEW K, NEW w,
         \A k : k \in K <=> \E x \in S : k = c[x],
         \A k \in K : w[k] = SumOf(f, ClassOf(S, c, k))
  PROVE  Numeric(w, K) /\ SumOf(w, K) = SumOf(f, S)
<1> DEFINE In(J) == {x \in S : c[x] \in J}
           Wrong == {J \in SUBSET K : SumOf(w, J) # SumOf(f, In(J))}
<1>1. \A Q \in SUBSET S : Numeric(f, Q)
  BY FS_Subset DEF Numeric
<1>2. Numeric(w, K)
  <2>1. IsFiniteSet(K)
    <3>1. K = {c[x] : x \in S}
      OBVIOUS
    <3> QED BY <3>1, ImageIsFinite DEF Numeric
  <2>2. ASSUME NEW k \in K PROVE w[k] \in Int
    <3>1. ClassOf(S, c, k) \in SUBSET S
      BY DEF ClassOf
    <3> QED BY <1>1, <3>1, SumIs
  <2> QED BY <2>1, <2>2 DEF Numeric
<1>3. \A J \in SUBSET K : Numeric(w, J)
  BY <1>2, FS_Subset DEF Numeric
<1>4. ASSUME NEW J \in SUBSET K, \A y \in J : J \ {y} \notin Wrong
      PROVE  J \notin Wrong
  <2>1. CASE J = {}
    <3>1. In(J) = {}
      BY <2>1
    <3>2. SumOf(w, {}) = 0 /\ SumOf(f, {}) = 0
      BY <1>2, SumIs
    <3> QED BY <2>1, <3>1, <3>2
  <2>2. CASE J # {}
    <3>1. PICK k \in J : TRUE
      BY <2>2
    <3> DEFINE Class == ClassOf(S, c, k)
    <3>2. SumOf(w, J) = w[k] + SumOf(w, J \ {k})
      BY <1>3, <3>1, SumIs
    <3>3. SumOf(w, J \ {k}) = SumOf(f, In(J \ {k}))
      BY <1>4, <3>1
    <3>4. /\ In(J) = Class \cup In(J \ {k}) /\ Class \cap In(J \ {k}) = {}
          /\ Class \in SUBSET S /\ In(J \ {k}) \in SUBSET S
      BY <3>1 DEF ClassOf
    <3>5. w[k] = SumOf(f, Class)
      BY <3>1
    <3> HIDE DEF In, Class
    <3>6. SumOf(f, In(J)) = SumOf(f, Class) + SumOf(f, In(J \ {k}))
      <4> DEFINE Rest == In(J \ {k})
      <4>2. Class \in SUBSET S /\ Rest \in SUBSET S /\ Class \cap Rest = {}
        BY <3>4
      <4> HIDE DEF Rest
      <4>3. SumOf(f, Class \cup Rest) = SumOf(f, Class) + SumOf(f, Rest)
        BY <4>2, SumOfParts
      <4>1. SumOf(f, Class \cup In(J \ {k})) = SumOf(f, Class) + SumOf(f, In(J \ {k}))
        BY ONLY <4>3 DEF Rest
      <4> QED BY <3>4, <4>1
    <3>7. SumOf(w, J) = SumOf(f, In(J))
      BY <3>2, <3>3, <3>5, <3>6
    <3> QED BY <3>7
  <2> QED BY <2>1, <2>2
<1>5. Wrong = {}
  <2>1. Wrong \in SUBSET (SUBSET K) /\ IsFiniteSet(K)
    <3> HIDE DEF In
    <3> QED BY <1>2 DEF Numeric
  <2>2. \A J \in SUBSET K : (\A y \in J : J \ {y} \notin Wrong) => J \notin Wrong
    <3> HIDE DEF Wrong
    <3> QED BY <1>4
  <2> HIDE DEF Wrong
  <2>3. Wrong # {} => \E T \in Wrong : \A x \in T : T \ {x} \notin Wrong
    BY <2>1, SmallestSet
  <2> QED BY <2>1, <2>2, <2>3
<1>6. In(K) = S /\ K \in SUBSET K
  OBVIOUS
<1> HIDE DEF In
<1> QED BY <1>2, <1>5, <1>6

(* What is added to one value is added to the sum.                         *)
LEMMA SumChanged ==
  ASSUME NEW S, NEW f, NEW h, Numeric(f, S), NEW x \in S, NEW d \in Int,
         h[x] = f[x] + d, \A y \in S \ {x} : h[y] = f[y]
  PROVE  Numeric(h, S) /\ SumOf(h, S) = SumOf(f, S) + d
<1>1. Numeric(h, S) /\ Numeric(f, S \ {x})
  BY FS_Subset DEF Numeric
<1>2. SumOf(f, S \ {x}) = SumOf(h, S \ {x})
  BY <1>1, SumSame
<1>3. SumOf(f, S) = f[x] + SumOf(f, S \ {x}) /\ SumOf(h, S) = h[x] + SumOf(h, S \ {x})
  BY <1>1, SumIs
<1>4. SumOf(f, S \ {x}) \in Int /\ f[x] \in Int
  BY <1>1, SumIs DEF Numeric
<1> QED BY <1>1, <1>2, <1>3, <1>4

-----------------------------------------------------------------------------
(* The sums of the model are such sums.                                    *)

(* What the rows of an expense cost together.                              *)
Spent(rows) == MapThenSumSet(LAMBDA r : r.total, rows)

(* What the lines at some places charge together.                          *)
Charged(lines, at) == MapThenSumSet(LAMBDA n : lines[n].amount, at)

(* The function by which the totals are folded.                            *)
SpentBy(rows, g) ==
  g = [T \in SUBSET rows |->
         IF T = {} THEN 0
         ELSE (CHOOSE x \in T : TRUE).total + g[T \ {CHOOSE x \in T : TRUE}]]

(* The function by which the charges are folded.                           *)
ChargedBy(lines, at, g) ==
  g = [T \in SUBSET at |->
         IF T = {} THEN 0
         ELSE lines[CHOOSE x \in T : TRUE].amount + g[T \ {CHOOSE x \in T : TRUE}]]

(* The amounts of a list of items or lines.                                *)
AmountsOf(list) == [n \in DOMAIN list |-> list[n].amount]

(* The totals of rows.                                                     *)
TotalsOf(rows) == [r \in rows |-> r.total]

(* The rows cost the sum of their totals.                                  *)
LEMMA SpentIs ==
  ASSUME NEW rows, Numeric(TotalsOf(rows), rows)
  PROVE  Spent(rows) = SumOf(TotalsOf(rows), rows)
<1> DEFINE iter == CHOOSE g : SpentBy(rows, g)
           f == TotalsOf(rows)
<1>1. Spent(rows) = iter[rows]
  BY DEF Spent, SpentBy, MapThenSumSet, MapThenFoldSet
<1>2. ASSUME NEW g PROVE SpentBy(rows, g) <=> SumsBy(f, rows, g)
  <2> DEFINE a(T) == CHOOSE x \in T : TRUE
             p == [T \in SUBSET rows |-> IF T = {} THEN 0 ELSE a(T).total + g[T \ {a(T)}]]
             q == [T \in SUBSET rows |-> IF T = {} THEN 0 ELSE f[a(T)] + g[T \ {a(T)}]]
  <2>1. \A T : T # {} => a(T) \in T
    OBVIOUS
  <2>2. (SpentBy(rows, g) <=> g = p) /\ (SumsBy(f, rows, g) <=> g = q)
    BY DEF SpentBy, SumsBy
  <2> HIDE DEF a
  <2>3. \A T \in SUBSET rows : T # {} => f[a(T)] = a(T).total
    BY <2>1 DEF TotalsOf
  <2>4. p = q
    BY <2>3
  <2> QED BY <2>2, <2>4
<1>3. \E g : SumsBy(f, rows, g)
  BY SumExists
<1>4. SpentBy(rows, iter)
  BY <1>2, <1>3
<1> HIDE DEF iter
<1>5. Sums(f, rows, iter)
  BY <1>2, <1>4, SumsAre
<1> QED BY <1>1, <1>5, SumOfPart

(* The lines are charged the sum of their amounts.                         *)
LEMMA ChargedIs ==
  ASSUME NEW lines, NEW at \in SUBSET DOMAIN lines, Numeric(AmountsOf(lines), at)
  PROVE  Charged(lines, at) = SumOf(AmountsOf(lines), at)
<1> DEFINE iter == CHOOSE g : ChargedBy(lines, at, g)
           f == AmountsOf(lines)
<1>1. Charged(lines, at) = iter[at]
  BY DEF Charged, ChargedBy, MapThenSumSet, MapThenFoldSet
<1>2. ASSUME NEW g PROVE ChargedBy(lines, at, g) <=> SumsBy(f, at, g)
  <2> DEFINE a(T) == CHOOSE x \in T : TRUE
             p == [T \in SUBSET at |-> IF T = {} THEN 0 ELSE lines[a(T)].amount + g[T \ {a(T)}]]
             q == [T \in SUBSET at |-> IF T = {} THEN 0 ELSE f[a(T)] + g[T \ {a(T)}]]
  <2>1. \A T : T # {} => a(T) \in T
    OBVIOUS
  <2>2. (ChargedBy(lines, at, g) <=> g = p) /\ (SumsBy(f, at, g) <=> g = q)
    BY DEF ChargedBy, SumsBy
  <2> HIDE DEF a
  <2>3. \A T \in SUBSET at : T # {} => f[a(T)] = lines[a(T)].amount
    BY <2>1 DEF AmountsOf
  <2>4. p = q
    BY <2>3
  <2> QED BY <2>2, <2>4
<1>3. \E g : SumsBy(f, at, g)
  BY SumExists
<1>4. ChargedBy(lines, at, iter)
  BY <1>2, <1>3
<1> HIDE DEF iter
<1>5. Sums(f, at, iter)
  BY <1>2, <1>4, SumsAre
<1> QED BY <1>1, <1>5, SumOfPart

-----------------------------------------------------------------------------
(* The items of a receipt.                                                 *)

(* An item read: its name, its amount, and what it is filed under.         *)
IsItem(r) ==
  /\ r = [name |-> r.name, amount |-> r.amount, category |-> r.category, by |-> r.by]
  /\ r.amount \in Int

(* A list of items.                                                        *)
ItemList(items) == items \in Seq(ToSet(items)) /\ \A n \in DOMAIN items : IsItem(items[n])

(* What the items cost.                                                    *)
CostOf(items) == SumOf(AmountsOf(items), DOMAIN items)

(* The items of a list cost an integer.                                    *)
LEMMA ItemListNumeric ==
  ASSUME NEW items, ItemList(items)
  PROVE  Numeric(AmountsOf(items), DOMAIN items) /\ CostOf(items) \in Int
<1>1. Numeric(AmountsOf(items), DOMAIN items)
  <2>1. IsFiniteSet(DOMAIN items)
    BY PlacesOf DEF ItemList
  <2> QED BY <2>1 DEF Numeric, ItemList, AmountsOf, IsItem
<1> QED BY <1>1, SumIs DEF CostOf

(* A line adds its amount to the items when it is sold, and nothing else.  *)
LEMMA LineAdds ==
  ASSUME NEW lines, NEW items, ItemList(items), NEW n,
         SoldLine(lines[n]) => lines[n].amount \in Int
  PROVE  /\ ItemList(AddLine(lines, items, n))
         /\ CostOf(AddLine(lines, items, n))
              = CostOf(items) + (IF SoldLine(lines[n]) THEN lines[n].amount ELSE 0)
<1> DEFINE new == AddLine(lines, items, n)
           d == lines[n].amount
           m == Len(items)
<1>1. /\ DOMAIN items = 1..m /\ m \in Nat /\ IsFiniteSet(DOMAIN items)
      /\ Numeric(AmountsOf(items), DOMAIN items) /\ CostOf(items) \in Int
  BY PlacesOf, ItemListNumeric DEF ItemList
<1>2. CASE ~SoldLine(lines[n])
  <2>1. new = items
    BY <1>2 DEF AddLine, SoldLine
  <2>2. SoldLine(lines[n]) = FALSE
    BY <1>2 DEF SoldLine
  <2> HIDE DEF new
  <2>3. ItemList(new) /\ CostOf(new) = CostOf(items)
    BY <2>1
  <2> QED BY <1>1, <2>2, <2>3 DEF new
<1>3. CASE SoldLine(lines[n]) /\ lines[n].kind = "discount" /\ items # <<>>
  <2>1. new = [items EXCEPT ![m].amount = @ + d]
    BY <1>3 DEF AddLine
  <2>2. m \in DOMAIN items
    BY <1>1, <1>3
  <2> DEFINE r == [items[m] EXCEPT !.amount = @ + d]
  <2>3. IsItem(r) /\ r.amount = items[m].amount + d
    <3>1. IsItem(items[m])
      BY <2>2 DEF ItemList
    <3> DEFINE o == items[m]
    <3>2. o = [name |-> o.name, amount |-> o.amount, category |-> o.category, by |-> o.by] /\ o.amount \in Int
      BY <3>1 DEF IsItem
    <3> HIDE DEF o
    <3>3. [o EXCEPT !.amount = @ + d]
            = [name |-> o.name, amount |-> o.amount + d, category |-> o.category, by |-> o.by]
      BY <3>2
    <3>4. d \in Int
      BY <1>3
    <3> HIDE DEF d
    <3>5. /\ IsItem([o EXCEPT !.amount = @ + d])
          /\ [o EXCEPT !.amount = @ + d].amount = o.amount + d
      BY <3>2, <3>3, <3>4 DEF IsItem
    <3> QED BY <3>5 DEF o
  <2>4. DOMAIN new = 1..m /\ \A k \in 1..m : new[k] = IF k = m THEN r ELSE items[k]
    BY <1>1, <2>1
  <2>5. new \in Seq(ToSet(new))
    <3>1. new = [k \in 1..m |-> new[k]]
      BY <2>1, <1>1
    <3> HIDE DEF new
    <3> QED BY <1>1, <2>4, <3>1 DEF ToSet
  <2> HIDE DEF new, r
  <2>6. ItemList(new)
    BY <1>1, <2>3, <2>4, <2>5 DEF ItemList
  <2>7. /\ AmountsOf(new)[m] = AmountsOf(items)[m] + d
        /\ \A k \in (1..m) \ {m} : AmountsOf(new)[k] = AmountsOf(items)[k]
    BY <1>1, <2>2, <2>3, <2>4 DEF AmountsOf
  <2>8. SumOf(AmountsOf(new), 1..m) = SumOf(AmountsOf(items), 1..m) + d
    <3>1. Numeric(AmountsOf(items), 1..m) /\ m \in 1..m /\ d \in Int
      BY <1>1, <1>3, <2>2
    <3> DEFINE f == AmountsOf(items)
               h == AmountsOf(new)
               T == 1..m
    <3>2. /\ Numeric(f, T) /\ m \in T /\ d \in Int
          /\ h[m] = f[m] + d /\ \A k \in T \ {m} : h[k] = f[k]
      BY <2>7, <3>1
    <3> HIDE DEF d, m, f, h, T
    <3>3. SumOf(h, T) = SumOf(f, T) + d
      BY <3>2, SumChanged
    <3> QED BY <3>3 DEF f, h, T
  <2>9. CostOf(new) = CostOf(items) + d
    BY <1>1, <2>4, <2>8 DEF CostOf
  <2> QED BY <1>3, <2>6, <2>9 DEF new
<1>4. CASE SoldLine(lines[n]) /\ ~(lines[n].kind = "discount" /\ items # <<>>)
  <2> DEFINE r == ItemAt(lines, n)
  <2>1. new = Append(items, r)
    BY <1>4 DEF AddLine
  <2>2. IsItem(r) /\ r.amount = d
    BY <1>4 DEF ItemAt, IsItem
  <2> HIDE DEF r
  <2>3. items \in Seq(ToSet(items) \cup {r})
    <3>1. items \in Seq(ToSet(items)) /\ ToSet(items) \subseteq ToSet(items) \cup {r}
      BY DEF ItemList
    <3> QED BY <3>1
  <2>4. /\ DOMAIN new = 1..m + 1
        /\ \A k \in 1..m : new[k] = items[k]
        /\ new[m + 1] = r
        /\ new \in Seq(ToSet(items) \cup {r})
    BY <1>1, <2>1, <2>3
  <2> HIDE DEF new
  <2>5. ToSet(items) \cup {r} \subseteq ToSet(new)
    BY <1>1, <2>4 DEF ToSet
  <2>6. ItemList(new)
    <3>1. new \in Seq(ToSet(new))
      BY <2>4, <2>5
    <3>2. \A k \in 1..m + 1 : k = m + 1 \/ k \in 1..m
      BY <1>1
    <3> QED BY <1>1, <2>2, <2>4, <3>1, <3>2 DEF ItemList
  <2>7. Numeric(AmountsOf(new), 1..m + 1) /\ CostOf(new) = SumOf(AmountsOf(new), 1..m + 1)
    BY <2>4, <2>6, ItemListNumeric DEF CostOf
  <2>8. SumOf(AmountsOf(new), 1..m + 1) = AmountsOf(new)[m + 1] + SumOf(AmountsOf(new), 1..m)
    <3>1. m + 1 \in 1..m + 1 /\ (1..m + 1) \ {m + 1} = 1..m
      BY <1>1
    <3> QED BY <2>7, <3>1, SumIs
  <2>9. AmountsOf(new)[m + 1] = d /\ \A k \in 1..m : AmountsOf(items)[k] = AmountsOf(new)[k]
    BY <1>1, <2>2, <2>4 DEF AmountsOf
  <2>10. SumOf(AmountsOf(items), 1..m) = SumOf(AmountsOf(new), 1..m)
    BY <1>1, <2>9, SumSame
  <2>11. CostOf(new) = CostOf(items) + d
    <3>1. CostOf(items) = SumOf(AmountsOf(items), 1..m) /\ d \in Int
      BY <1>1, <1>4 DEF CostOf
    <3> HIDE DEF d
    <3> QED BY <1>1, <2>7, <2>8, <2>9, <2>10, <3>1
  <2> QED BY <1>4, <2>6, <2>11 DEF new
<1> QED BY <1>2, <1>3, <1>4

(* What is above the subtotal is a list of the same lines.                 *)
LEMMA AboveLines ==
  ASSUME NEW S, NEW lines \in Seq(S)
  PROVE  AboveSubtotal(lines) \in Seq(S)
<1> DEFINE At == {k \in 1..Len(lines) : lines[k].kind = "subtotal"}
<1>1. AboveSubtotal(lines) = IF (IF At # {} THEN Min(At) ELSE 0) = 0 THEN lines
                             ELSE SubSeq(lines, 1, (IF At # {} THEN Min(At) ELSE 0) - 1)
  BY DEF AboveSubtotal, SelectInSeq
<1>2. At # {} => Min(At) \in 1..Len(lines)
  <2>1. At \in SUBSET Nat /\ At \in SUBSET (1..Len(lines))
    OBVIOUS
  <2> HIDE DEF At
  <2> QED BY <2>1, LeastOfNaturals
<1> HIDE DEF At
<1>3. CASE At = {}
  BY <1>1, <1>3
<1>4. CASE At # {}
  <2>1. AboveSubtotal(lines) = SubSeq(lines, 1, Min(At) - 1)
    BY <1>1, <1>2, <1>4
  <2>2. \A m \in 1..Len(lines) : SubSeq(lines, 1, m - 1) \in Seq(S)
    OBVIOUS
  <2> QED BY <1>2, <1>4, <2>1, <2>2
<1> QED BY <1>3, <1>4

(* What the lines of a receipt are read into, one after the other.         *)
AllRead(lines, order) ==
  FoldLeft(LAMBDA items, n : AddLine(lines, items, n), <<>>, order)

(* f[s] is what the lines at the places s are read into.                   *)
ReadsBy(lines, order, m, f) ==
  f = [s \in SUBSET (1..m) |->
         IF s = {} THEN <<>> ELSE AddLine(lines, f[s \ {Max(s)}], order[Max(s)])]

(* The lines can be read one after the other: the fold is defined.         *)
LEMMA ReadExists ==
  ASSUME NEW lines, NEW order, NEW n \in Nat
  PROVE  \E f : ReadsBy(lines, order, n, f)
<1> DEFINE Step(items, k) == AddLine(lines, items, order[k])
           Folds(f, m) == f = [s \in SUBSET (1..m) |->
                                 IF s = {} THEN <<>> ELSE Step(f[s \ {Max(s)}], Max(s))]
           Missing == {m \in Nat : ~ \E f : Folds(f, m)}
<1> HIDE DEF Step
<1>1. ASSUME NEW m \in Nat, \A f : ~Folds(f, m), \A k \in Nat : (\A f : ~Folds(f, k)) => m <= k
      PROVE  FALSE
  <2>1. m # 0
    <3> DEFINE f == [s \in SUBSET (1..0) |-> <<>>]
    <3>1. SUBSET (1..0) = {{}}
      OBVIOUS
    <3>2. Folds(f, 0)
      BY <3>1
    <3> QED BY <1>1, <3>2
  <2>2. \E f : Folds(f, m - 1)
    <3>1. m - 1 \in Nat /\ ~(m <= m - 1)
      BY <2>1
    <3> HIDE DEF Folds
    <3> QED BY <1>1, <3>1
  <2>3. PICK f : Folds(f, m - 1)
    BY <2>2
  <2> DEFINE g == [s \in SUBSET (1..m) |-> IF m \in s THEN Step(f[s \ {m}], m) ELSE f[s]]
  <2>4. ASSUME NEW s \in SUBSET (1..m)
        PROVE  g[s] = IF s = {} THEN <<>> ELSE Step(g[s \ {Max(s)}], Max(s))
    <3>1. CASE m \in s
      <4>1. Max(s) = m
        <5>1. Max(s) \in s /\ m <= Max(s)
          BY <3>1, GreatestOf
        <5>2. Max(s) \in 1..m
          BY <5>1
        <5> QED BY ONLY <5>1, <5>2, m \in Nat
      <4>2. s \ {m} \in SUBSET (1..m) /\ m \notin s \ {m}
        OBVIOUS
      <4>3. g[s \ {m}] = f[s \ {m}]
        BY <4>2
      <4> QED BY <3>1, <4>1, <4>3
    <3>2. CASE m \notin s /\ s # {}
      <4>1. s \in SUBSET (1..(m - 1))
        BY <3>2
      <4>2. f[s] = Step(f[s \ {Max(s)}], Max(s))
        BY <2>3, <3>2, <4>1
      <4>3. g[s \ {Max(s)}] = f[s \ {Max(s)}] /\ g[s] = f[s]
        BY <3>2
      <4> QED BY <3>2, <4>2, <4>3
    <3>3. CASE s = {}
      <4>1. s \in SUBSET (1..(m - 1)) /\ m \notin s
        BY <3>3
      <4>2. f[s] = <<>>
        BY <2>3, <3>3, <4>1
      <4> QED BY <3>3, <4>1, <4>2
    <3> QED BY <3>1, <3>2, <3>3
  <2>5. Folds(g, m)
    <3>1. g = [s \in SUBSET (1..m) |-> g[s]]
      OBVIOUS
    <3> HIDE DEF g
    <3> QED BY <2>4, <3>1
  <2> HIDE DEF Folds
  <2> QED BY <1>1, <2>5
<1> HIDE DEF Folds
<1>2. Missing = {}
  <2> SUFFICES ASSUME Missing # {} PROVE FALSE
    OBVIOUS
  <2>1. Missing \in SUBSET Nat
    OBVIOUS
  <2> HIDE DEF Missing
  <2>2. PICK m \in Missing : \A k \in Missing : m <= k
    BY <2>1, LeastNatural
  <2> QED BY <1>1, <2>2 DEF Missing
<1>3. \E f : Folds(f, n)
  BY <1>2
<1> QED BY <1>3 DEF ReadsBy, Folds, Step

(* The lines of a receipt that are sold.                                   *)
SoldOn(lines) == {n \in DOMAIN lines : SoldLine(lines[n])}

(* Each of them has an amount.                                             *)
AllPriced(lines) == \A n \in SoldOn(lines) : lines[n].amount \in Int

(* The items of a receipt cost what its lines above the subtotal charge.   *)
LEMMA ItemsCost ==
  ASSUME NEW S, NEW paperLines \in Seq(S), AllPriced(AboveSubtotal(paperLines))
  PROVE  /\ ItemList(ItemsOf(paperLines))
         /\ CostOf(ItemsOf(paperLines))
              = Charged(AboveSubtotal(paperLines), SoldOn(AboveSubtotal(paperLines)))
<1> DEFINE lines == AboveSubtotal(paperLines)
           order == [i \in DOMAIN lines |-> i]
           n == Len(lines)
           iter == CHOOSE f : ReadsBy(lines, order, n, f)
           f == AmountsOf(lines)
           Upto(m) == {k \in SoldOn(lines) : k <= m}
           Right(m) == /\ ItemList(iter[1..m])
                       /\ CostOf(iter[1..m]) = SumOf(f, Upto(m))
           Wrong == {m \in 0..n : ~Right(m)}
<1>1. lines \in Seq(S) /\ DOMAIN lines = 1..n /\ n \in Nat /\ IsFiniteSet(DOMAIN lines)
  BY AboveLines, PlacesOf
<1>2. ItemsOf(paperLines) = AllRead(lines, order)
  BY DEF ItemsOf, AllRead, FoldLeftDomain
<1> HIDE DEF lines
<1>3. AllRead(lines, order) = iter[1..n]
  BY <1>1 DEF AllRead, ReadsBy, FoldLeft, MapThenFoldSet
<1>4. ReadsBy(lines, order, n, iter)
  BY <1>1, ReadExists
<1> HIDE DEF iter
<1>5. ASSUME NEW s \in SUBSET (1..n)
      PROVE  iter[s] = IF s = {} THEN <<>> ELSE AddLine(lines, iter[s \ {Max(s)}], Max(s))
  <2>1. s # {} => Max(s) \in DOMAIN lines
    BY <1>1, GreatestOf
  <2> QED BY <1>4, <2>1 DEF ReadsBy
<1>6. \A Q \in SUBSET SoldOn(lines) : Numeric(f, Q)
  <2>1. IsFiniteSet(SoldOn(lines))
    BY <1>1, FS_Subset DEF SoldOn
  <2>2. \A k \in SoldOn(lines) : f[k] \in Int
    BY DEF AllPriced, AmountsOf, SoldOn, lines
  <2> HIDE DEF f
  <2> QED BY <2>1, <2>2, FS_Subset DEF Numeric
<1> HIDE DEF f, order
<1>7. ASSUME NEW m \in 0..n, \A k \in 0..n : ~Right(k) => m <= k
      PROVE  Right(m)
  <2>1. CASE m = 0
    <3>1. iter[1..0] = <<>>
      <4>1. 1..0 = {} /\ {} \in SUBSET (1..n)
        OBVIOUS
      <4> QED BY <1>5, <4>1
    <3>2. ItemList(<<>>)
      BY DEF ItemList, ToSet
    <3>3. CostOf(<<>>) = 0 /\ SumOf(f, {}) = 0
      <4>1. DOMAIN <<>> = {}
        OBVIOUS
      <4>2. Numeric(AmountsOf(<<>>), {}) /\ Numeric(f, {})
        BY <4>1, FS_EmptySet DEF Numeric
      <4> QED BY <4>1, <4>2, SumIs DEF CostOf
    <3>4. Upto(0) = {}
      BY <1>1 DEF SoldOn
    <3> HIDE DEF Upto
    <3> QED BY <2>1, <3>1, <3>2, <3>3, <3>4
  <2>2. CASE m # 0
    <3>1. m - 1 \in 0..n /\ ~(m <= m - 1) /\ m \in 1..n /\ m \in DOMAIN lines
      BY <1>1, <2>2
    <3>2. Right(m - 1)
      BY <1>7, <3>1
    <3> DEFINE items == iter[1..(m - 1)]
    <3>3. iter[1..m] = AddLine(lines, items, m)
      <4>1. Max(1..m) = m /\ (1..m) \ {m} = 1..(m - 1) /\ 1..m # {}
        BY <3>1, GreatestOfInterval
      <4>2. 1..m \in SUBSET (1..n)
        OBVIOUS
      <4> QED BY <1>5, <4>1, <4>2
    <3>4. m \in SoldOn(lines) <=> SoldLine(lines[m])
      BY <3>1 DEF SoldOn
    <3>5. SoldLine(lines[m]) => lines[m].amount \in Int /\ f[m] = lines[m].amount
      BY <3>1, <3>4 DEF AllPriced, lines, f, AmountsOf
    <3> HIDE DEF items
    <3>6. /\ ItemList(AddLine(lines, items, m))
          /\ CostOf(AddLine(lines, items, m))
               = CostOf(items) + (IF SoldLine(lines[m]) THEN lines[m].amount ELSE 0)
      BY <3>2, <3>5, LineAdds DEF items
    <3>7. CostOf(items) = SumOf(f, Upto(m - 1)) /\ CostOf(items) \in Int
      BY <3>2, ItemListNumeric DEF items
    <3>8. CASE SoldLine(lines[m])
      <4>1. m \in Upto(m) /\ Upto(m) \ {m} = Upto(m - 1) /\ Upto(m) \in SUBSET SoldOn(lines)
        BY <1>1, <3>1, <3>4, <3>8 DEF SoldOn
      <4> HIDE DEF Upto
      <4>2. SumOf(f, Upto(m)) = f[m] + SumOf(f, Upto(m - 1))
        BY <1>6, <4>1, SumIs
      <4>3. CostOf(iter[1..m]) = SumOf(f, Upto(m))
        BY <3>3, <3>5, <3>6, <3>7, <3>8, <4>2
      <4> QED BY <3>3, <3>6, <4>3
    <3>9. CASE ~SoldLine(lines[m])
      <4>1. Upto(m) = Upto(m - 1)
        BY <1>1, <3>1, <3>4, <3>9 DEF SoldOn
      <4> HIDE DEF Upto
      <4>2. CostOf(iter[1..m]) = SumOf(f, Upto(m))
        BY <3>3, <3>6, <3>7, <3>9, <4>1
      <4> QED BY <3>3, <3>6, <4>2
    <3> QED BY <3>8, <3>9
  <2> QED BY <2>1, <2>2
<1> HIDE DEF Right
<1>8. Wrong = {}
  <2> SUFFICES ASSUME Wrong # {} PROVE FALSE
    OBVIOUS
  <2>1. Wrong \in SUBSET Nat
    BY <1>1
  <2> HIDE DEF Wrong
  <2>2. PICK m \in Wrong : \A k \in Wrong : m <= k
    BY <2>1, LeastNatural
  <2> QED BY <1>7, <2>2 DEF Wrong
<1>9. Right(n)
  BY <1>1, <1>8
<1>10. Upto(n) = SoldOn(lines)
  BY <1>1 DEF SoldOn
<1>11. SumOf(f, SoldOn(lines)) = Charged(lines, SoldOn(lines))
  <2>1. SoldOn(lines) \in SUBSET DOMAIN lines /\ Numeric(AmountsOf(lines), SoldOn(lines))
    BY <1>6 DEF SoldOn, f
  <2> QED BY <2>1, ChargedIs DEF f
<1> QED BY <1>2, <1>3, <1>9, <1>10, <1>11 DEF Right, lines

-----------------------------------------------------------------------------
(* What is stored.                                                         *)

(* The row that an item is grouped into.                                   *)
RowOf(items, r) ==
  [name |-> r.name, category |-> r.category, by |-> r.by, unit |-> r.amount,
   quantity |-> Cardinality({n \in DOMAIN items : items[n] = r}),
   total |-> r.amount * Cardinality({n \in DOMAIN items : items[n] = r})]

(* Grouping equal items keeps what they cost.                              *)
LEMMA GroupsCost ==
  ASSUME NEW items, ItemList(items)
  PROVE  Spent(Grouped(items)) = CostOf(items)
<1> DEFINE S == DOMAIN items
           f == AmountsOf(items)
           c == [n \in S |-> RowOf(items, items[n])]
           K == Grouped(items)
           w == TotalsOf(K)
<1>1. Numeric(f, S) /\ IsFiniteSet(S)
  BY ItemListNumeric DEF Numeric
<1>2. \A k : k \in K <=> \E n \in S : k = c[n]
  BY DEF Grouped, RowOf, ToSet
<1>3. ASSUME NEW k \in K
      PROVE  w[k] = SumOf(f, ClassOf(S, c, k))
  <2>1. PICK n \in S : k = RowOf(items, items[n])
    BY <1>2
  <2> DEFINE Equal == {m \in S : items[m] = items[n]}
             a == items[n].amount
  <2>2. ASSUME NEW m \in S PROVE c[m] = k <=> items[m] = items[n]
    <3>1. IsItem(items[m]) /\ IsItem(items[n])
      BY <2>1, <2>2 DEF ItemList
    <3>2. ASSUME RowOf(items, items[m]) = RowOf(items, items[n])
          PROVE  items[m] = items[n]
      <4>1. \A r : /\ RowOf(items, r).name = r.name /\ RowOf(items, r).category = r.category
                   /\ RowOf(items, r).by = r.by /\ RowOf(items, r).unit = r.amount
        BY DEF RowOf
      <4>2. /\ items[m].name = items[n].name /\ items[m].category = items[n].category
            /\ items[m].by = items[n].by /\ items[m].amount = items[n].amount
        BY <3>2, <4>1
      <4> QED BY <3>1, <4>2 DEF IsItem
    <3> QED BY <2>1, <3>2
  <2>3. ClassOf(S, c, k) = Equal
    BY <2>2 DEF ClassOf
  <2>4. Equal \in SUBSET S /\ IsFiniteSet(Equal) /\ a \in Int /\ \A m \in Equal : f[m] = a
    <3>1. Equal \in SUBSET S
      OBVIOUS
    <3>2. IsFiniteSet(Equal)
      BY <1>1, <3>1, FS_Subset
    <3>3. a \in Int
      BY <2>1 DEF ItemList, IsItem
    <3>4. \A m \in Equal : f[m] = a
      BY DEF AmountsOf
    <3> QED BY <3>1, <3>2, <3>3, <3>4
  <2>5. w[k] = a * Cardinality(Equal)
    <3>1. w[k] = k.total
      BY DEF TotalsOf
    <3>2. k.total = a * Cardinality(Equal)
      BY <2>1 DEF RowOf
    <3> QED BY <3>1, <3>2
  <2> HIDE DEF Equal, f, a
  <2>6. SumOf(f, Equal) = a * Cardinality(Equal)
    BY <2>4, SumOfEqual
  <2> QED BY <2>3, <2>5, <2>6
<1> HIDE DEF S, f, c, K, w
<1>4. Numeric(w, K) /\ SumOf(w, K) = SumOf(f, S)
  BY <1>1, <1>2, <1>3, SumOfClasses
<1>5. Spent(K) = SumOf(w, K)
  BY <1>4, SpentIs DEF w
<1> QED BY <1>4, <1>5 DEF CostOf, K, f, S

(* Whatever category an item is given, it keeps its cost.                  *)
LEMMA CategoriesCost ==
  ASSUME NEW items, ItemList(items), NEW e, NEW answer, NEW new,
         new = [n \in DOMAIN items |-> Categorize(items[n], e, answer)] \o <<>>
  PROVE  ItemList(new) /\ CostOf(new) = CostOf(items)
<1> DEFINE g == [n \in DOMAIN items |-> Categorize(items[n], e, answer)]
           m == Len(items)
<1>1. DOMAIN items = 1..m /\ m \in Nat
  BY PlacesOf DEF ItemList
<1>2. ASSUME NEW n \in DOMAIN items
      PROVE  IsItem(g[n]) /\ g[n].amount = items[n].amount
  <2> DEFINE r == items[n]
  <2>1. r = [name |-> r.name, amount |-> r.amount, category |-> r.category, by |-> r.by] /\ r.amount \in Int
    BY DEF ItemList, IsItem
  <2>2. \E category, by : Categorize(r, e, answer) = [r EXCEPT !.category = category, !.by = by]
    <3>1. CASE r.category # None
      <4>1. Categorize(r, e, answer) = r
        BY <3>1 DEF Categorize
      <4> HIDE DEF r
      <4>2. r = [r EXCEPT !.category = r.category, !.by = r.by]
        BY <2>1
      <4> QED BY <4>1, <4>2
    <3>2. CASE r.category = None /\ Cached(e, r.name) # None
      BY <3>2 DEF Categorize, Cached
    <3>3. CASE r.category = None /\ Cached(e, r.name) = None
      BY <3>3 DEF Categorize, Cached
    <3> QED BY <3>1, <3>2, <3>3
  <2>3. PICK category, by : g[n] = [r EXCEPT !.category = category, !.by = by]
    BY <2>2
  <2> HIDE DEF r, g
  <2>4. g[n] = [name |-> r.name, amount |-> r.amount, category |-> category, by |-> by]
    BY <2>1, <2>3
  <2>5. IsItem(g[n]) /\ g[n].amount = r.amount
    BY <2>1, <2>4 DEF IsItem
  <2> QED BY <2>5 DEF r
<1>3. g \in Seq({g[n] : n \in DOMAIN items}) /\ DOMAIN g = 1..m
  BY <1>1
<1>4. new = g
  BY <1>3
<1> HIDE DEF g
<1>5. ItemList(new)
  BY <1>1, <1>2, <1>3, <1>4 DEF ItemList, ToSet
<1>6. \A n \in 1..m : AmountsOf(new)[n] = AmountsOf(items)[n]
  BY <1>1, <1>2, <1>3, <1>4 DEF AmountsOf
<1>7. SumOf(AmountsOf(new), 1..m) = SumOf(AmountsOf(items), 1..m)
  BY <1>1, <1>5, <1>6, <1>3, <1>4, ItemListNumeric, SumSame
<1> QED BY <1>1, <1>3, <1>4, <1>5, <1>7 DEF CostOf

-----------------------------------------------------------------------------
(* A receipt read in this run has the items its lines charge.              *)
ReadRight(receipt) ==
  /\ receipt = [file |-> receipt.file, order |-> receipt.order, items |-> receipt.items,
                total |-> receipt.total, lines |-> receipt.lines]
  /\ receipt.file \in Nat
  /\ ItemList(receipt.items)
  /\ CostOf(receipt.items) = Charged(AboveSubtotal(receipt.lines), SoldOn(AboveSubtotal(receipt.lines)))

(* The receipt being printed is a list of lines, and those read in this    *)
(* run are right.                                                          *)
RunRight ==
  /\ paper \in Seq(Printed)
  /\ \E S : batch \in Seq(S)
  /\ \A n \in DOMAIN batch : ReadRight(batch[n])

(* A stored order spends what its lines charge.                            *)
BooksRight ==
  \A order \in DOMAIN books :
     Spent(books[order].items)
       = Charged(AboveSubtotal(books[order].lines), SoldOn(AboveSubtotal(books[order].lines)))

(* The lines of a receipt that are sold have an amount.                    *)
LEMMA PrintedPriced ==
  ASSUME NEW lines \in Seq(Printed)
  PROVE  AllPriced(AboveSubtotal(lines))
<1>1. AboveSubtotal(lines) \in Seq(Printed)
  BY AboveLines
<1>2. \A n \in DOMAIN AboveSubtotal(lines) : AboveSubtotal(lines)[n] \in Printed
  BY <1>1
<1> QED BY <1>2, CostcoAssumption DEF AllPriced, SoldOn, SoldLine

(* Reading a receipt adds one that is right.                               *)
LEMMA ReadsRight ==
  ASSUME RunRight, NEW f \in Files, ReadPdf(f)
  PROVE  RunRight'
<1> DEFINE items == ItemsOf(paper)
           unknown == Unknown(items, model)
           batches == Chunks(SetToSeq(unknown))
           key == IF OrderOn[f] = None THEN <<"file", f>> ELSE OrderOn[f]
<1>1. \E e, answer : batch' = Append(batch,
             [file |-> f, order |-> key,
              items |-> [n \in DOMAIN items |-> Categorize(items[n], e, answer)] \o <<>>,
              total |-> PaidOn(paper), lines |-> paper])
  <2> DEFINE asked(result) == AskAll(model, batches, result)
             given(result, opinion) ==
               [name \in unknown |-> IF name \in asked(result).names THEN opinion[name] ELSE None]
  <2>1. \E result \in [DOMAIN batches -> Outcomes], opinion \in [unknown -> Budget \cup {None}] :
           batch' = Append(batch,
             [file |-> f, order |-> key,
              items |-> [n \in DOMAIN items |-> Categorize(items[n], model, given(result, opinion))] \o <<>>,
              total |-> PaidOn(paper), lines |-> paper])
    BY DEF ReadPdf
  <2> HIDE DEF items, unknown, batches, key, given
  <2> QED BY <2>1
<1>2. PICK e, answer : batch' = Append(batch,
             [file |-> f, order |-> key,
              items |-> [n \in DOMAIN items |-> Categorize(items[n], e, answer)] \o <<>>,
              total |-> PaidOn(paper), lines |-> paper])
  BY <1>1
<1> DEFINE new == [n \in DOMAIN items |-> Categorize(items[n], e, answer)] \o <<>>
           receipt == [file |-> f, order |-> key, items |-> new, total |-> PaidOn(paper), lines |-> paper]
<1>3. paper \in Seq(Printed) /\ paper' = <<>>
  BY DEF RunRight, ReadPdf
<1>4. /\ ItemList(items)
      /\ CostOf(items) = Charged(AboveSubtotal(paper), SoldOn(AboveSubtotal(paper)))
  BY <1>3, PrintedPriced, ItemsCost
<1> HIDE DEF items
<1>5. ItemList(new) /\ CostOf(new) = CostOf(items)
  BY <1>4, CategoriesCost
<1> HIDE DEF new, key
<1>6. ReadRight(receipt)
  BY <1>4, <1>5, CostcoAssumption DEF ReadRight
<1>7. batch' = Append(batch, receipt)
  BY <1>2 DEF new
<1> HIDE DEF receipt
<1>8. PICK S : batch \in Seq(S)
  BY DEF RunRight
<1>9. /\ batch' \in Seq(S \cup {receipt})
      /\ DOMAIN batch' = 1..Len(batch) + 1 /\ DOMAIN batch = 1..Len(batch) /\ Len(batch) \in Nat
      /\ \A n \in DOMAIN batch : batch'[n] = batch[n]
      /\ batch'[Len(batch) + 1] = receipt
  <2>1. batch \in Seq(S \cup {receipt})
    BY <1>8
  <2> QED BY <1>7, <2>1
<1>10. \A n \in DOMAIN batch' : n \in DOMAIN batch \/ n = Len(batch) + 1
  BY <1>9
<1> QED BY <1>3, <1>6, <1>9, <1>10 DEF RunRight

(* The last file of an order is among the receipts of the run.             *)
LEMMA LastFileIs ==
  ASSUME RunRight, NEW order, \E r \in ToSet(batch) : r.order = order
  PROVE  LastFile(order) \in ToSet(batch)
<1> DEFINE Mine == {n \in DOMAIN batch : batch[n].order = order}
           g == [n \in Mine |-> batch[n].file]
           TheirFiles == {g[n] : n \in Mine}
<1>1. IsFiniteSet(DOMAIN batch)
  BY PlacesOf DEF RunRight
<1>2. IsFiniteSet(Mine) /\ Mine # {}
  <2>1. Mine # {}
    BY DEF ToSet
  <2> QED BY <1>1, <2>1, FS_Subset
<1>3. IsFiniteSet(TheirFiles) /\ TheirFiles # {} /\ TheirFiles \in SUBSET Nat
  <2>1. \A n \in Mine : g[n] \in Nat
    BY DEF RunRight, ReadRight
  <2>2. IsFiniteSet(TheirFiles)
    <3> HIDE DEF g, Mine
    <3> QED BY <1>2, ImageIsFinite
  <2> HIDE DEF g, Mine
  <2> QED BY <1>2, <2>1, <2>2
<1>4. PICK m \in TheirFiles : \A k \in TheirFiles : k <= m
  BY <1>3, GreatestNatural
<1>5. PICK n \in Mine : m = batch[n].file
  BY <1>4
<1>6. batch[n] \in ToSet(batch) /\ batch[n].order = order
  BY <1>5 DEF ToSet
<1>7. ASSUME NEW s \in ToSet(batch), s.order = order
      PROVE  s.file <= batch[n].file
  <2>1. PICK k \in DOMAIN batch : s = batch[k]
    BY DEF ToSet
  <2>2. k \in Mine /\ g[k] = s.file
    BY <1>7, <2>1
  <2>3. s.file \in TheirFiles
    BY <2>2
  <2> QED BY <1>4, <1>5, <2>3
<1>8. \E r \in ToSet(batch) :
         r.order = order /\ \A s \in ToSet(batch) : s.order = order => s.file <= r.file
  BY <1>6, <1>7
<1> QED BY <1>8 DEF LastFile

(* What is written is right.                                               *)
LEMMA WritesRight ==
  ASSUME RunRight, BooksRight, WriteRun
  PROVE  RunRight' /\ BooksRight'
<1> DEFINE orders == {r.order : r \in ToSet(batch)}
           row(order) == [items |-> Grouped(LastFile(order).items), total |-> LastFile(order).total,
                          lines |-> LastFile(order).lines]
<1>1. /\ books' = Over([order \in orders |-> row(order)], books)
      /\ batch' = <<>> /\ paper' = <<>>
  BY DEF WriteRun
<1>2. RunRight'
  <2>1. <<>> \in Seq({}) /\ DOMAIN <<>> = {} /\ <<>> \in Seq(Printed)
    OBVIOUS
  <2> QED BY <1>1, <2>1 DEF RunRight
<1>3. ASSUME NEW order \in orders
      PROVE  Spent(row(order).items)
               = Charged(AboveSubtotal(row(order).lines), SoldOn(AboveSubtotal(row(order).lines)))
  <2> DEFINE r == LastFile(order)
  <2>1. r \in ToSet(batch)
    BY <1>3, LastFileIs
  <2>2. ReadRight(r)
    BY <2>1 DEF RunRight, ToSet
  <2> HIDE DEF r
  <2>3. Spent(Grouped(r.items)) = Charged(AboveSubtotal(r.lines), SoldOn(AboveSubtotal(r.lines)))
    BY <2>2, GroupsCost DEF ReadRight
  <2>4. row(order).items = Grouped(r.items) /\ row(order).lines = r.lines
    BY DEF r
  <2> HIDE DEF row
  <2> QED BY <2>3, <2>4
<1>4. /\ DOMAIN books' = orders \cup DOMAIN books
      /\ \A order \in DOMAIN books' :
            books'[order] = IF order \in orders THEN row(order) ELSE books[order]
  <2> HIDE DEF orders, row
  <2> QED BY <1>1 DEF Over
<1> HIDE DEF orders, row
<1> QED BY <1>2, <1>3, <1>4 DEF BooksRight

(* Every step keeps the receipts of the run and the stored orders right.   *)
LEMMA CostcoStep ==
  ASSUME RunRight, BooksRight, [CostcoNext]_costcoVars
  PROVE  RunRight' /\ BooksRight'
<1>1. ASSUME NEW line \in Printed, PrintLine(line)
      PROVE  RunRight' /\ BooksRight'
  <2>1. paper' = Append(paper, line) /\ batch' = batch /\ books' = books
    BY <1>1 DEF PrintLine
  <2> QED BY <2>1 DEF RunRight, BooksRight
<1>2. ASSUME NEW f \in Files, ReadPdf(f)
      PROVE  RunRight' /\ BooksRight'
  <2>1. books' = books
    BY <1>2 DEF ReadPdf
  <2>2. RunRight'
    BY <1>2, ReadsRight
  <2> QED BY <2>1, <2>2 DEF BooksRight
<1>3. CASE WriteRun
  BY <1>3, WritesRight
<1>4. CASE UNCHANGED costcoVars
  BY <1>4 DEF costcoVars, RunRight, BooksRight
<1> QED BY <1>1, <1>2, <1>3, <1>4 DEF CostcoNext

(* What a stored order spends on its items is what its receipt prints      *)
(* above the subtotal: no discount and no repeated product is lost or      *)
(* counted twice, whatever the rules and the model say of their names.     *)
THEOREM SpendIsPreserved == CostcoSpec => []SpendPreserved
<1>1. CostcoInit => RunRight /\ BooksRight
  <2> SUFFICES ASSUME CostcoInit PROVE RunRight /\ BooksRight
    OBVIOUS
  <2>1. paper = <<>> /\ batch = <<>> /\ books = <<>>
    BY DEF CostcoInit
  <2>2. <<>> \in Seq({}) /\ DOMAIN <<>> = {} /\ <<>> \in Seq(Printed)
    OBVIOUS
  <2> QED BY <2>1, <2>2 DEF RunRight, BooksRight
<1>2. RunRight /\ BooksRight /\ [CostcoNext]_costcoVars => RunRight' /\ BooksRight'
  BY CostcoStep
<1>3. BooksRight => SpendPreserved
  BY DEF BooksRight, SpendPreserved, Spent, Charged, SoldOn
<1> QED BY <1>1, <1>2, <1>3, PTL DEF CostcoSpec

-----------------------------------------------------------------------------
(* The items of a scanned receipt.                                         *)

(* The lines of a document: any of its body and then of its summary.       *)
AllLines == Body \cup Summary

(* The first b lines of a text are body, the others summary.               *)
Shaped(text, b) ==
  /\ text \in Seq(AllLines) /\ b \in 0..Len(text)
  /\ \A i \in 1..b : text[i] \in Body
  /\ \A i \in (b + 1)..Len(text) : text[i] \in Summary

(* Discounts and deposits.                                                 *)
Adjusts(text) == {j \in DOMAIN text : text[j].kind \in {"saving", "deposit"}}

(* An amount that is money is an integer.                                  *)
LEMMA MoneyType ==
  ASSUME NEW line, line \in AllLines, Money(line) # None
  PROVE  Money(line) = line.amount /\ Money(line) \in Int
BY LinesHaveKinds DEF Money, AllLines

(* So is what is read under a line.                                        *)
LEMMA BelowType ==
  ASSUME NEW text \in Seq(AllLines), NEW i \in 1..Len(text)
  PROVE  /\ AmountBelow(text, i) # None => AmountBelow(text, i) \in Int
         /\ PumpAmount(text, i) # None => PumpAmount(text, i) \in Int
<1>1. ASSUME AmountBelow(text, i) # None PROVE AmountBelow(text, i) \in Int
  <2> DEFINE below == LineAt(text, i + 1)
  <2>1. below.kind = "bare" /\ AmountBelow(text, i) = Money(below) /\ Money(below) # None
    BY <1>1 DEF AmountBelow
  <2>2. NoLine.kind = "end"
    BY DEF NoLine
  <2>3. i + 1 \in 1..Len(text) /\ below = text[i + 1]
    BY <2>1, <2>2 DEF LineAt
  <2>4. below \in AllLines
    BY <2>3
  <2> HIDE DEF below
  <2> QED BY <2>1, <2>4, MoneyType
<1>2. ASSUME PumpAmount(text, i) # None PROVE PumpAmount(text, i) \in Int
  <2> DEFINE summary == {"subtotal", "gst", "pst", "tax", "included", "total", "tender", "change"}
             rows == {k \in (i + 1)..Min({i + 8, Len(text)}) :
                         /\ text[k].kind = "pump" /\ Money(text[k]) # None
                         /\ \A j \in (i + 1)..k : text[j].kind \notin summary}
  <2>1. rows # {} /\ PumpAmount(text, i) = Money(text[Min(rows)])
    BY <1>2 DEF PumpAmount
  <2>2. Len(text) \in Nat /\ {i + 8, Len(text)} \in SUBSET Nat
    OBVIOUS
  <2>3. Min({i + 8, Len(text)}) \in {i + 8, Len(text)} /\ Min({i + 8, Len(text)}) <= Len(text)
    BY <2>2, LeastOfNaturals
  <2>4. rows \in SUBSET (1..Len(text)) /\ rows \in SUBSET Nat
    BY <2>2, <2>3
  <2>5. \A k \in rows : text[k] \in AllLines /\ Money(text[k]) # None
    BY <2>4
  <2> HIDE DEF rows
  <2>6. Min(rows) \in rows
    BY <2>1, <2>4, LeastOfNaturals
  <2> QED BY <2>1, <2>5, <2>6, MoneyType
<1> QED BY <1>1, <1>2

(* Who owns an adjustment is the last product above it.                    *)
LEMMA OwnerIs ==
  ASSUME NEW text \in Seq(AllLines), NEW m \in 1..Len(text)
  PROVE  /\ Owner(text, m) \in 0..(m - 1)
         /\ NamesProduct(text[m]) => Owner(text, m + 1) = m
         /\ ~NamesProduct(text[m]) => Owner(text, m + 1) = Owner(text, m)
<1> DEFINE Products(n) == {0} \cup {i \in 1..(n - 1) : NamesProduct(text[i])}
<1>1. \A n \in Nat : Owner(text, n) = Max(Products(n))
  BY DEF Owner
<1>2. ASSUME NEW n \in Nat \ {0}
      PROVE  Max(Products(n)) \in Products(n) /\ \A k \in Products(n) : k <= Max(Products(n))
  <2>1. Products(n) \in SUBSET Nat /\ Products(n) # {} /\ Products(n) \subseteq 0..(n - 1)
    OBVIOUS
  <2> HIDE DEF Products
  <2>2. IsFiniteSet(Products(n))
    <3>1. IsFiniteSet(0..(n - 1))
      BY FS_Interval
    <3> QED BY <2>1, <3>1, FS_Subset
  <2>3. PICK k \in Products(n) : \A j \in Products(n) : j <= k
    BY <2>1, <2>2, GreatestNatural
  <2>4. \A j \in Products(n) : k >= j
    BY <2>1, <2>3
  <2>5. /\ Max(Products(n)) \in Products(n)
        /\ \A j \in Products(n) : Max(Products(n)) >= j
    BY <2>3, <2>4 DEF Max
  <2> QED BY <2>1, <2>5
<1>3. Max(Products(m)) \in 0..(m - 1)
  BY <1>2
<1>4. ASSUME NamesProduct(text[m]) PROVE Max(Products(m + 1)) = m
  <2>1. m \in Products(m + 1) /\ \A k \in Products(m + 1) : k <= m
    BY <1>4
  <2>2. Max(Products(m + 1)) \in Products(m + 1) /\ m <= Max(Products(m + 1))
    <3>1. m + 1 \in Nat \ {0}
      OBVIOUS
    <3> HIDE DEF Products
    <3> QED BY <1>2, <2>1, <3>1
  <2>3. Max(Products(m + 1)) <= m
    BY <2>1, <2>2
  <2>4. Max(Products(m + 1)) \in Nat
    BY <2>2
  <2> QED BY <2>2, <2>3, <2>4
<1>5. ASSUME ~NamesProduct(text[m]) PROVE Max(Products(m + 1)) = Max(Products(m))
  <2>1. Products(m + 1) = Products(m)
    BY <1>5
  <2> QED BY <2>1
<1>6. m \in Nat /\ m + 1 \in Nat
  OBVIOUS
<1> HIDE DEF Products
<1> QED BY <1>1, <1>3, <1>4, <1>5, <1>6

-----------------------------------------------------------------------------
(* The items of a text, and what was read into them after m of its lines.  *)

(* The kinds of the adjustments among the first m lines under line i.      *)
KindsUnder(text, i, m) ==
  {text[j].kind : j \in {n \in Adjusts(text) : n <= m /\ Owner(text, n) = i}}

(* An item has the amount printed for it, but for its adjustments.         *)
ItemRight(text, item, m) ==
  LET printed == PrintedAmount(text, item.line)
      kinds   == KindsUnder(text, item.line, m)
  IN /\ item = [line |-> item.line, amount |-> item.amount]
     /\ item.line \in 1..m /\ item.amount \in Int /\ printed \in Int
     /\ kinds = {} => item.amount = printed
     /\ printed >= 0 => item.amount >= 0
     /\ printed < 0 => \/ item.amount < 0
                       \/ item.amount = 0 /\ "saving" \in kinds
                       \/ {"saving", "deposit"} \subseteq kinds

(* The adjustments among the first m lines whose product is not sold.      *)
LinesOf(items) == {items[k].line : k \in DOMAIN items}
Stray(text, items, m) == {j \in Adjusts(text) : j <= m /\ Owner(text, j) \notin LinesOf(items)}

(* In the body the product that takes adjustments is the one above.        *)
StateRight(text, b, state, m) ==
  /\ state = [items |-> state.items, target |-> state.target, issues |-> state.issues,
              ended |-> state.ended]
  /\ \E S : state.items \in Seq(S)
  /\ state.issues \in Nat
  /\ \A k \in DOMAIN state.items : ItemRight(text, state.items[k], m)
  /\ Cardinality(Stray(text, state.items, m)) <= state.issues
  /\ m <= b => /\ ~state.ended
               /\ state.target # None =>
                    /\ state.target \in DOMAIN state.items
                    /\ state.items[state.target].line = Owner(text, m + 1)

(* Lines that are no adjustments leave the adjustments as they were.       *)
LEMMA NoAdjustment ==
  ASSUME NEW text \in Seq(AllLines), NEW m \in 1..Len(text), m \notin Adjusts(text)
  PROVE  /\ \A i : KindsUnder(text, i, m) = KindsUnder(text, i, m - 1)
         /\ \A items : Stray(text, items, m) = Stray(text, items, m - 1)
         /\ KindsUnder(text, m, m) = {}
<1>1. \A j \in Adjusts(text) : j <= m <=> j <= m - 1
  BY DEF Adjusts
<1>2. \A j \in Adjusts(text) : j <= m => Owner(text, j) # m
  <2>1. ASSUME NEW j \in Adjusts(text), j <= m PROVE Owner(text, j) # m
    <3>1. j \in 1..Len(text)
      BY DEF Adjusts
    <3>2. Owner(text, j) \in 0..(j - 1)
      BY <3>1, OwnerIs
    <3> QED BY <2>1, <3>1, <3>2
  <2> QED BY <2>1
<1> QED BY <1>1, <1>2 DEF KindsUnder, Stray

(* They are finitely many.                                                 *)
LEMMA StrayFinite ==
  ASSUME NEW text \in Seq(AllLines), NEW items, NEW m
  PROVE  /\ IsFiniteSet(Stray(text, items, m))
         /\ Cardinality(Stray(text, items, m)) \in Nat
<1>1. IsFiniteSet(DOMAIN text)
  BY PlacesOf
<1>2. Stray(text, items, m) \in SUBSET DOMAIN text
  BY DEF Stray, Adjusts
<1> QED BY <1>1, <1>2, FS_Subset, FS_CardinalityType

(* A line that sells nothing and adjusts nothing keeps the items.          *)
LEMMA PassedRight ==
  ASSUME NEW text, NEW b, Shaped(text, b), NEW m \in 1..Len(text), m \notin Adjusts(text),
         NEW state, StateRight(text, b, state, m - 1),
         NEW next, next = [items |-> state.items, target |-> next.target,
                           issues |-> state.issues, ended |-> next.ended],
         m <= b => /\ ~next.ended
                   /\ next.target # None => next.target = state.target /\ ~NamesProduct(text[m])
  PROVE  StateRight(text, b, next, m)
<1>1. text \in Seq(AllLines) /\ b \in Nat /\ Len(text) \in Nat
  BY DEF Shaped
<1>2. next.items = state.items /\ next.issues = state.issues
  OBVIOUS
<1>3. ASSUME NEW k \in DOMAIN state.items PROVE ItemRight(text, state.items[k], m)
  <2>1. ItemRight(text, state.items[k], m - 1)
    BY DEF StateRight
  <2>2. KindsUnder(text, state.items[k].line, m) = KindsUnder(text, state.items[k].line, m - 1)
    BY <1>1, NoAdjustment
  <2>3. state.items[k].line \in 1..(m - 1) => state.items[k].line \in 1..m
    OBVIOUS
  <2> QED BY <2>1, <2>2, <2>3 DEF ItemRight
<1>4. Stray(text, state.items, m) = Stray(text, state.items, m - 1)
  BY <1>1, NoAdjustment
<1>5. ASSUME m <= b, next.target # None
      PROVE  /\ next.target \in DOMAIN state.items
             /\ state.items[next.target].line = Owner(text, m + 1)
  <2>1. next.target = state.target /\ Owner(text, m + 1) = Owner(text, m)
    BY <1>1, <1>5, OwnerIs
  <2>2. m - 1 <= b /\ (m - 1) + 1 = m
    BY <1>1, <1>5
  <2> QED BY <1>5, <2>1, <2>2 DEF StateRight
<1> QED BY <1>2, <1>3, <1>4, <1>5 DEF StateRight

(* A line that sells a product adds it with the amount printed for it.     *)
LEMMA SoldRight ==
  ASSUME NEW text, NEW b, Shaped(text, b), NEW m \in 1..Len(text), m \notin Adjusts(text),
         NEW state, StateRight(text, b, state, m - 1), ~state.ended,
         NEW amount \in Int, amount = PrintedAmount(text, m),
         m <= b => NamesProduct(text[m])
  PROVE  StateRight(text, b, Sold(state, m, amount), m)
<1> DEFINE next == Sold(state, m, amount)
           item == [line |-> m, amount |-> amount]
           n == Len(state.items)
<1>1. text \in Seq(AllLines) /\ b \in Nat /\ Len(text) \in Nat
  BY DEF Shaped
<1>2. next = [items |-> Append(state.items, item), target |-> n + 1, issues |-> state.issues,
              ended |-> state.ended]
  <2> DEFINE s == [items |-> state.items, target |-> state.target, issues |-> state.issues,
                   ended |-> state.ended]
  <2>1. state = s
    BY DEF StateRight
  <2> DEFINE x == Append(state.items, item)
             u == [items |-> x, target |-> state.target, issues |-> state.issues,
                   ended |-> state.ended]
  <2>2. [s EXCEPT !.items = x] = u
    <3> HIDE DEF x
    <3> QED OBVIOUS
  <2>3. [u EXCEPT !.target = n + 1]
          = [items |-> x, target |-> n + 1, issues |-> state.issues, ended |-> state.ended]
    <3> HIDE DEF x
    <3> QED OBVIOUS
  <2>4. next = [state EXCEPT !.items = x, !.target = n + 1]
    BY DEF Sold
  <2> HIDE DEF s, next, x, u
  <2>5. next = [[state EXCEPT !.items = x] EXCEPT !.target = n + 1]
    BY <2>4
  <2> QED BY <2>1, <2>2, <2>3, <2>5 DEF x
<1>3. PICK S : state.items \in Seq(S)
  BY DEF StateRight
<1>4. /\ next.items \in Seq(S \cup {item}) /\ n \in Nat
      /\ DOMAIN state.items = 1..n /\ DOMAIN next.items = 1..(n + 1)
      /\ \A k \in 1..n : next.items[k] = state.items[k]
      /\ next.items[n + 1] = item
  <2>1. state.items \in Seq(S \cup {item})
    BY <1>3
  <2> HIDE DEF item
  <2> QED BY <1>2, <2>1
<1>5. ItemRight(text, item, m)
  <2>1. KindsUnder(text, m, m) = {}
    BY <1>1, NoAdjustment
  <2>2. item.line = m /\ item.amount = amount
    OBVIOUS
  <2>3. item = [line |-> item.line, amount |-> item.amount]
    OBVIOUS
  <2> HIDE DEF item
  <2> QED BY <2>1, <2>2, <2>3 DEF ItemRight
<1> HIDE DEF item
<1>6. ASSUME NEW k \in 1..(n + 1) PROVE ItemRight(text, next.items[k], m)
  <2>1. CASE k = n + 1
    BY <1>4, <1>5, <2>1
  <2>2. CASE k \in 1..n
    <3>1. ItemRight(text, state.items[k], m - 1)
      BY <1>4, <2>2 DEF StateRight
    <3>2. KindsUnder(text, state.items[k].line, m) = KindsUnder(text, state.items[k].line, m - 1)
      BY <1>1, NoAdjustment
    <3>3. state.items[k].line \in 1..(m - 1) => state.items[k].line \in 1..m
      OBVIOUS
    <3>4. ItemRight(text, state.items[k], m)
      BY <3>1, <3>2, <3>3 DEF ItemRight
    <3> QED BY <1>4, <2>2, <3>4
  <2> QED BY <1>4, <2>1, <2>2
<1>7. Cardinality(Stray(text, next.items, m)) <= state.issues
  <2>1. Stray(text, next.items, m) \in SUBSET Stray(text, state.items, m - 1)
    <3>1. LinesOf(state.items) \subseteq LinesOf(next.items)
      BY <1>4 DEF LinesOf
    <3>2. Stray(text, state.items, m) = Stray(text, state.items, m - 1)
      BY <1>1, NoAdjustment
    <3> QED BY <3>1, <3>2 DEF Stray
  <2>2. Cardinality(Stray(text, next.items, m)) <= Cardinality(Stray(text, state.items, m - 1))
    BY <1>1, <2>1, StrayFinite, FS_Subset
  <2>3. state.issues \in Nat /\ Cardinality(Stray(text, state.items, m - 1)) <= state.issues
    BY DEF StateRight
  <2> QED BY <1>1, <2>2, <2>3, StrayFinite
<1>8. m <= b => next.items[n + 1].line = Owner(text, m + 1)
  BY <1>1, <1>4, OwnerIs DEF item
<1> HIDE DEF next
<1>9. /\ next = [items |-> next.items, target |-> next.target, issues |-> next.issues, ended |-> next.ended]
      /\ next.target = n + 1 /\ next.issues = state.issues /\ ~next.ended
  BY <1>2
<1>10. state.issues \in Nat
  BY DEF StateRight
<1>11. StateRight(text, b, next, m)
  BY <1>4, <1>6, <1>7, <1>8, <1>9, <1>10 DEF StateRight
<1> QED BY <1>11 DEF next

(* A discount or deposit changes the product above it or counts as an      *)
(* issue.                                                                  *)
LEMMA AdjustedRight ==
  ASSUME NEW text, NEW b, Shaped(text, b), NEW m \in 1..Len(text), m \in Adjusts(text),
         NEW state, StateRight(text, b, state, m - 1)
  PROVE  StateRight(text, b, Adjusted(state, text, m), m)
<1> DEFINE own == Money(text[m])
           amount == IF own # None THEN own ELSE AmountBelow(text, m)
           discount == text[m].kind = "saving"
           next == Adjusted(state, text, m)
           t == state.target
           n == Len(state.items)
<1>1. text \in Seq(AllLines) /\ b \in Nat /\ Len(text) \in Nat /\ text[m] \in AllLines
  BY DEF Shaped
<1>2. m <= b
  <2>1. m > b => text[m] \in Summary
    BY <1>1 DEF Shaped
  <2> QED BY <1>1, <2>1, LinesHaveKinds DEF Adjusts
<1>3. ~NamesProduct(text[m])
  BY DEF NamesProduct, Adjusts
<1>4. Owner(text, m + 1) = Owner(text, m) /\ Owner(text, m) \in 0..(m - 1)
  BY <1>1, <1>3, OwnerIs
<1>5. PICK S : state.items \in Seq(S)
  BY DEF StateRight
<1>6. DOMAIN state.items = 1..n /\ n \in Nat
  BY <1>5
<1>7. /\ \A j \in Adjusts(text) : j <= m <=> j <= m - 1 \/ j = m
      /\ ~(m <= m - 1)
  BY <1>1 DEF Adjusts
<1>8. /\ state = [items |-> state.items, target |-> t, issues |-> state.issues, ended |-> state.ended]
      /\ state.issues \in Nat /\ ~state.ended
      /\ t # None => t \in DOMAIN state.items /\ state.items[t].line = Owner(text, m)
      /\ \A k \in 1..n : ItemRight(text, state.items[k], m - 1)
      /\ Cardinality(Stray(text, state.items, m - 1)) <= state.issues
  <2>1. m - 1 <= b /\ (m - 1) + 1 = m
    BY <1>1, <1>2
  <2> QED BY <1>6, <2>1 DEF StateRight
<1>9. ASSUME NEW i
      PROVE  /\ i # Owner(text, m) => KindsUnder(text, i, m) = KindsUnder(text, i, m - 1)
             /\ i = Owner(text, m) => KindsUnder(text, i, m) = KindsUnder(text, i, m - 1) \cup {text[m].kind}
  BY <1>7 DEF KindsUnder
<1>10. ASSUME ~Adjustable(state, discount, amount)
       PROVE  StateRight(text, b, next, m)
  <2>1. next = [state EXCEPT !.issues = @ + 1]
    BY <1>10 DEF Adjusted
  <2>2. next = [items |-> state.items, target |-> t, issues |-> state.issues + 1, ended |-> state.ended]
    <3> DEFINE s == [items |-> state.items, target |-> t, issues |-> state.issues, ended |-> state.ended]
    <3>1. [s EXCEPT !.issues = @ + 1]
            = [items |-> state.items, target |-> t, issues |-> state.issues + 1, ended |-> state.ended]
      OBVIOUS
    <3>2. state = s
      BY <1>8
    <3> HIDE DEF s, next
    <3> QED BY <2>1, <3>1, <3>2
  <2>3. ASSUME NEW k \in 1..n PROVE ItemRight(text, state.items[k], m)
    <3>1. ItemRight(text, state.items[k], m - 1)
      BY <1>8
    <3>2. /\ KindsUnder(text, state.items[k].line, m - 1) \subseteq KindsUnder(text, state.items[k].line, m)
      BY <1>9
    <3>3. state.items[k].line \in 1..(m - 1) => state.items[k].line \in 1..m
      OBVIOUS
    <3> QED BY <3>1, <3>2, <3>3 DEF ItemRight
  <2>4. Cardinality(Stray(text, state.items, m)) <= state.issues + 1
    <3>1. Stray(text, state.items, m) \in SUBSET (Stray(text, state.items, m - 1) \cup {m})
      BY <1>7 DEF Stray
    <3> DEFINE R == Stray(text, state.items, m - 1)
    <3>2. IsFiniteSet(R) /\ Cardinality(R) \in Nat /\ Cardinality(R) <= state.issues
      BY <1>1, <1>8, StrayFinite
    <3> HIDE DEF R
    <3>3. /\ IsFiniteSet(R \cup {m})
          /\ Cardinality(R \cup {m}) \in {Cardinality(R), Cardinality(R) + 1}
      BY <3>2, FS_AddElement
    <3>4. Cardinality(Stray(text, state.items, m)) <= Cardinality(R \cup {m})
      BY <3>1, <3>3, FS_Subset DEF R
    <3>5. Cardinality(Stray(text, state.items, m)) \in Nat
      BY <1>1, StrayFinite
    <3> QED BY <1>8, <3>2, <3>3, <3>4, <3>5
  <2> HIDE DEF next
  <2>5. /\ next.items = state.items /\ next.target = t /\ next.issues = state.issues + 1
        /\ next.ended = state.ended
    BY <2>2
  <2>6. next = [items |-> next.items, target |-> next.target, issues |-> next.issues, ended |-> next.ended]
    BY <2>2
  <2>7. t # None => t \in DOMAIN state.items /\ state.items[t].line = Owner(text, m + 1)
    BY <1>4, <1>8
  <2>8. \E T : next.items \in Seq(T)
    BY <1>5, <2>5
  <2>9. \A k \in DOMAIN next.items : ItemRight(text, next.items[k], m)
    BY <1>6, <2>3, <2>5
  <2>10. next.issues \in Nat /\ Cardinality(Stray(text, next.items, m)) <= next.issues
    BY <1>8, <2>4, <2>5
  <2>11. ~next.ended
    BY <1>8, <2>5
  <2>12. next.target # None => /\ next.target \in DOMAIN next.items
                              /\ next.items[next.target].line = Owner(text, m + 1)
    BY <2>5, <2>7
  <2> QED BY ONLY <2>6, <2>8, <2>9, <2>10, <2>11, <2>12 DEF StateRight
<1>11. ASSUME Adjustable(state, discount, amount)
       PROVE  StateRight(text, b, next, m)
  <2> DEFINE sold == state.items[t].amount
             sign == IF sold < 0 THEN -1 ELSE 1
             delta == IF discount THEN -Abs(amount) ELSE Abs(amount)
             item == [line |-> state.items[t].line, amount |-> sold + sign * delta]
             printed == PrintedAmount(text, state.items[t].line)
             before == KindsUnder(text, state.items[t].line, m - 1)
             after == KindsUnder(text, state.items[t].line, m)
  <2>1. t # None /\ amount # None /\ (discount => Abs(amount) <= Abs(sold))
    BY <1>11 DEF Adjustable
  <2>2. t \in 1..n /\ state.items[t].line = Owner(text, m)
    BY <1>6, <1>8, <2>1
  <2>3. amount \in Int
    <3>1. own # None => own \in Int
      BY <1>1, MoneyType
    <3>2. own = None => amount \in Int
      BY <1>1, <2>1, BelowType
    <3> QED BY <3>1, <3>2
  <2>4. ItemRight(text, state.items[t], m - 1)
    BY <1>8, <2>2
  <2>5. /\ sold \in Int /\ printed \in Int /\ state.items[t].line \in 1..(m - 1)
        /\ state.items[t] = [line |-> state.items[t].line, amount |-> sold]
        /\ before = {} => sold = printed
        /\ printed >= 0 => sold >= 0
        /\ printed < 0 => \/ sold < 0
                          \/ sold = 0 /\ "saving" \in before
                          \/ {"saving", "deposit"} \subseteq before
    BY <2>4 DEF ItemRight
  <2>6. after = before \cup {text[m].kind} /\ text[m].kind \in {"saving", "deposit"}
    BY <1>9, <2>2 DEF Adjusts
  <2>7. item.line = state.items[t].line /\ item.amount = sold + sign * delta
    OBVIOUS
  <2>8. next = [state EXCEPT !.items[t].amount = sold + sign * delta]
    BY <1>11 DEF Adjusted
  <2>9. next = [items |-> [state.items EXCEPT ![t] = item], target |-> t, issues |-> state.issues,
                ended |-> state.ended]
    <3> DEFINE s == [items |-> state.items, target |-> t, issues |-> state.issues, ended |-> state.ended]
               a == sold + sign * delta
               r == [line |-> state.items[t].line, amount |-> sold]
    <3>1. [s EXCEPT !.items[t].amount = a]
            = [items |-> [state.items EXCEPT ![t].amount = a], target |-> t, issues |-> state.issues,
               ended |-> state.ended]
      OBVIOUS
    <3>2. state = s
      BY <1>8
    <3>3. [r EXCEPT !.amount = a] = item
      OBVIOUS
    <3>4. state.items[t] = r
      BY <2>5
    <3> HIDE DEF s, a, item, r
    <3>5. [state.items[t] EXCEPT !.amount = a] = item
      BY <3>3, <3>4
    <3>6. [state.items EXCEPT ![t].amount = a] = [state.items EXCEPT ![t] = item]
      BY <3>5
    <3>7. next = [state EXCEPT !.items[t].amount = a]
      BY <2>8 DEF a
    <3> HIDE DEF next
    <3> QED BY <3>1, <3>2, <3>6, <3>7
  <2>10. /\ item.amount \in Int
         /\ printed >= 0 => item.amount >= 0
         /\ printed < 0 => \/ item.amount < 0
                           \/ item.amount = 0 /\ "saving" \in after
                           \/ {"saving", "deposit"} \subseteq after
    <3>1. Abs(amount) \in Nat /\ (sold >= 0 => Abs(sold) = sold) /\ (sold < 0 => Abs(sold) = -sold)
      BY <2>3, <2>5 DEF Abs
    <3>2. item.amount = IF sold < 0
                        THEN (IF discount THEN sold + Abs(amount) ELSE sold - Abs(amount))
                        ELSE (IF discount THEN sold - Abs(amount) ELSE sold + Abs(amount))
      <4> DEFINE A == Abs(amount)
      <4>1. A \in Int
        BY <3>1
      <4>2. delta = (IF discount THEN -A ELSE A)
        OBVIOUS
      <4> HIDE DEF A, discount, delta
      <4>3. sold + sign * delta = IF sold < 0
                        THEN (IF discount THEN sold + A ELSE sold - A)
                        ELSE (IF discount THEN sold - A ELSE sold + A)
        <5> HIDE DEF sold
        <5> QED BY <2>5, <4>1, <4>2
      <4> HIDE DEF sign, sold
      <4> QED BY <2>7, <4>3 DEF A
    <3> DEFINE A == Abs(amount)
               c == item.amount
    <3>3. discount => A <= Abs(sold)
      BY <2>1
    <3>4. discount => "saving" \in after
      BY <2>6
    <3>5. ~discount => "deposit" \in after
      BY <2>6
    <3>6. before \subseteq after
      BY <2>6
    <3> HIDE DEF A, c, item, sold, discount, printed, before, after, sign, delta
    <3>7. A \in Nat /\ c = IF sold < 0
                        THEN (IF discount THEN sold + A ELSE sold - A)
                        ELSE (IF discount THEN sold - A ELSE sold + A)
      BY <3>1, <3>2 DEF A, c
    <3>8. c \in Int /\ (printed >= 0 => c >= 0)
      BY <2>5, <3>1, <3>3, <3>7
    <3>9. printed < 0 => \/ c < 0
                         \/ c = 0 /\ "saving" \in after
                         \/ {"saving", "deposit"} \subseteq after
      BY <2>5, <3>1, <3>3, <3>4, <3>5, <3>6, <3>7
    <3> QED BY <3>8, <3>9 DEF c
  <2>11. ItemRight(text, item, m)
    <3>1. item = [line |-> item.line, amount |-> item.amount] /\ item.line \in 1..m
      BY <2>5
    <3>2. after # {}
      BY <2>6
    <3> HIDE DEF item
    <3> QED BY <2>5, <2>7, <2>10, <3>1, <3>2 DEF ItemRight
  <2>12. ASSUME NEW k \in 1..n, k # t PROVE ItemRight(text, state.items[k], m)
    <3>1. ItemRight(text, state.items[k], m - 1)
      BY <1>8
    <3>2. KindsUnder(text, state.items[k].line, m - 1) \subseteq KindsUnder(text, state.items[k].line, m)
      BY <1>9
    <3>3. state.items[k].line \in 1..(m - 1) => state.items[k].line \in 1..m
      OBVIOUS
    <3> QED BY <3>1, <3>2, <3>3 DEF ItemRight
  <2>13. /\ next.items = [state.items EXCEPT ![t] = item] /\ next.target = t
         /\ next.issues = state.issues /\ next.ended = state.ended
    BY <2>9
  <2>14. /\ DOMAIN next.items = 1..n /\ next.items[t] = item
         /\ \A k \in 1..n : k # t => next.items[k] = state.items[k]
    BY <1>6, <2>2, <2>13
  <2>15. next.items \in Seq(S \cup {item})
    <3> HIDE DEF item
    <3>1. \A k \in 1..n : next.items[k] \in S \cup {item}
      BY <1>5, <1>6, <2>14
    <3> HIDE DEF next, n, t
    <3>2. next.items = [k \in DOMAIN state.items |-> next.items[k]]
      BY <2>13
    <3>3. next.items = [k \in 1..n |-> next.items[k]] /\ n \in Nat
      BY <1>6, <3>2
    <3> QED BY <3>1, <3>3
  <2>16. LinesOf(next.items) = LinesOf(state.items)
    <3>1. \A k \in 1..n : next.items[k].line = state.items[k].line
      BY <2>7, <2>14
    <3> HIDE DEF next
    <3> QED BY <1>6, <2>14, <3>1 DEF LinesOf
  <2>17. Owner(text, m) \in LinesOf(state.items)
    BY <1>6, <2>2 DEF LinesOf
  <2>18. Stray(text, next.items, m) = Stray(text, state.items, m - 1)
    BY <1>7, <2>16, <2>17 DEF Stray
  <2>19. ASSUME NEW k \in 1..n PROVE ItemRight(text, next.items[k], m)
    <3> HIDE DEF next, item
    <3> QED BY <2>11, <2>12, <2>14, <2>19
  <2>20. next = [items |-> next.items, target |-> next.target, issues |-> next.issues, ended |-> next.ended]
    BY <2>9
  <2>21. t \in DOMAIN next.items /\ next.items[t].line = Owner(text, m + 1)
    BY <1>4, <2>2, <2>7, <2>14
  <2> HIDE DEF next, item
  <2> QED BY <1>8, <2>13, <2>14, <2>15, <2>18, <2>19, <2>20, <2>21 DEF StateRight
<1> QED BY <1>10, <1>11

(* Whatever a line is, what is read into the items is right.               *)
LEMMA LineRight ==
  ASSUME NEW text, NEW b, Shaped(text, b), NEW m \in 1..Len(text),
         NEW state, StateRight(text, b, state, m - 1)
  PROVE  StateRight(text, b, ReadItem(state, text, m), m)
<1> DEFINE line == text[m]
           next == ReadItem(state, text, m)
           pump == PumpAmount(text, m)
           below == AmountBelow(text, m)
<1>1. /\ text \in Seq(AllLines) /\ b \in Nat /\ Len(text) \in Nat
      /\ line \in AllLines /\ DOMAIN text = 1..Len(text)
  BY DEF Shaped
<1>2. m <= b => line \in Body /\ ~state.ended
  <2>1. m <= b => m - 1 <= b
    BY <1>1
  <2> QED BY <1>1, <2>1 DEF Shaped, StateRight
<1>3. m \in Adjusts(text) <=> line.kind \in {"saving", "deposit"}
  BY <1>1 DEF Adjusts
<1>4. state = [items |-> state.items, target |-> state.target, issues |-> state.issues,
               ended |-> state.ended]
  BY DEF StateRight
<1>5. CASE state.ended \/ EndsItems(state, line)
  <2>1. next = [state EXCEPT !.ended = TRUE]
    BY <1>5 DEF ReadItem
  <2>2. next = [items |-> state.items, target |-> state.target, issues |-> state.issues, ended |-> TRUE]
    <3> DEFINE s == [items |-> state.items, target |-> state.target, issues |-> state.issues,
                     ended |-> state.ended]
    <3>1. ASSUME NEW x
          PROVE  [s EXCEPT !.ended = x]
            = [items |-> state.items, target |-> state.target, issues |-> state.issues, ended |-> x]
      OBVIOUS
    <3> HIDE DEF s, next
    <3> QED BY <1>4, <2>1, <3>1 DEF s
  <2>3. ~(m <= b)
    BY <1>2, <1>5, LinesHaveKinds DEF EndsItems
  <2>4. m \notin Adjusts(text)
    <3>1. line \in Summary
      BY <1>1, <2>3 DEF Shaped
    <3> QED BY <1>3, <3>1, LinesHaveKinds
  <2>5. next = [items |-> state.items, target |-> next.target, issues |-> state.issues, ended |-> next.ended]
    BY <2>2
  <2> HIDE DEF next
  <2> QED BY <2>3, <2>4, <2>5, PassedRight DEF next
<1>6. CASE ~state.ended /\ ~EndsItems(state, line) /\ line.kind \in {"saving", "deposit"}
  <2>1. next = Adjusted(state, text, m)
    BY <1>6 DEF ReadItem
  <2> QED BY <1>3, <1>6, <2>1, AdjustedRight
<1>7. CASE /\ ~state.ended /\ ~EndsItems(state, line) /\ line.kind \notin {"saving", "deposit"}
           /\ \/ line.kind \in SkippedKinds
              \/ Money(line) # None /\ line.kind \in {"bare", "pump"}
  <2>1. next = state
    BY <1>7 DEF ReadItem
  <2>2. ~NamesProduct(line)
    BY <1>7 DEF NamesProduct, SkippedKinds
  <2>3. m \notin Adjusts(text)
    BY <1>3, <1>7
  <2> HIDE DEF next
  <2>4. next = [items |-> state.items, target |-> next.target, issues |-> state.issues, ended |-> next.ended]
    BY <1>4, <2>1
  <2> QED BY <1>7, <2>1, <2>2, <2>3, <2>4, PassedRight DEF next
<1>8. CASE /\ ~state.ended /\ ~EndsItems(state, line) /\ line.kind \notin {"saving", "deposit"}
           /\ line.kind \notin SkippedKinds /\ Money(line) = None
  <2>1. next = Unpriced(state, text, m) /\ m \notin Adjusts(text)
    BY <1>3, <1>8 DEF ReadItem
  <2>2. CASE pump # None
    <3>1. next = Sold(state, m, pump)
      BY <2>1, <2>2 DEF Unpriced
    <3>2. pump = PrintedAmount(text, m) /\ pump \in Int
      BY <1>1, <1>8, <2>2, BelowType DEF PrintedAmount
    <3>3. NamesProduct(line)
      BY <2>2 DEF PumpAmount, NamesProduct
    <3> QED BY <1>8, <2>1, <3>1, <3>2, <3>3, SoldRight
  <2>3. CASE pump = None /\ line.kind \in {"product", "fuel"} /\ below # None
    <3>1. next = Sold(state, m, below)
      BY <2>1, <2>3 DEF Unpriced
    <3>2. below = PrintedAmount(text, m) /\ below \in Int
      BY <1>1, <1>8, <2>3, BelowType DEF PrintedAmount
    <3>3. NamesProduct(line)
      BY <2>3 DEF NamesProduct
    <3> QED BY <1>8, <2>1, <3>1, <3>2, <3>3, SoldRight
  <2>4. CASE pump = None /\ ~(line.kind \in {"product", "fuel"} /\ below # None)
    <3>1. next = [state EXCEPT !.target = None]
      BY <2>1, <2>4 DEF Unpriced
    <3>2. next = [items |-> state.items, target |-> None, issues |-> state.issues, ended |-> state.ended]
      <4> DEFINE s == [items |-> state.items, target |-> state.target, issues |-> state.issues,
                       ended |-> state.ended]
      <4>1. [s EXCEPT !.target = None]
              = [items |-> state.items, target |-> None, issues |-> state.issues, ended |-> state.ended]
        OBVIOUS
      <4> HIDE DEF s, next
      <4> QED BY <1>4, <3>1, <4>1 DEF s
    <3> HIDE DEF next
    <3>3. next = [items |-> state.items, target |-> next.target, issues |-> state.issues, ended |-> next.ended]
      BY <3>2
    <3>4. next.target = None /\ ~next.ended
      BY <1>8, <3>2
    <3> QED BY <2>1, <3>3, <3>4, PassedRight DEF next
  <2> QED BY <2>2, <2>3, <2>4
<1>9. CASE /\ ~state.ended /\ ~EndsItems(state, line) /\ line.kind \notin {"saving", "deposit"}
           /\ line.kind \notin SkippedKinds /\ Money(line) # None
           /\ line.kind \notin {"bare", "pump"}
  <2>1. next = Sold(state, m, Money(line)) /\ m \notin Adjusts(text)
    BY <1>3, <1>9 DEF ReadItem
  <2>2. Money(line) = PrintedAmount(text, m) /\ Money(line) \in Int
    BY <1>1, <1>9, MoneyType DEF PrintedAmount
  <2>3. m <= b => NamesProduct(line)
    BY <1>2, <1>9, LinesHaveKinds DEF NamesProduct, SkippedKinds
  <2> QED BY <1>9, <2>1, <2>2, <2>3, SoldRight
<1> QED BY <1>5, <1>6, <1>7, <1>8, <1>9

(* The fold over the lines of a text, and the function it is computed by.  *)
NoItems == [items |-> <<>>, target |-> None, issues |-> 0, ended |-> FALSE]

(* The fold over lines in an order.                                        *)
AllItems(text, order) == FoldLeft(LAMBDA state, i : ReadItem(state, text, i), NoItems, order)

(* f[s] is what the lines at the places s are read into.                   *)
ItemsBy(text, order, m, f) ==
  f = [s \in SUBSET (1..m) |->
         IF s = {} THEN NoItems ELSE ReadItem(f[s \ {Max(s)}], text, order[Max(s)])]

(* The lines can be read one after the other: the fold is defined.         *)
LEMMA ItemsExist ==
  ASSUME NEW text, NEW order, NEW n \in Nat
  PROVE  \E f : ItemsBy(text, order, n, f)
<1> DEFINE Step(state, k) == ReadItem(state, text, order[k])
           Folds(f, m) == f = [s \in SUBSET (1..m) |->
                                 IF s = {} THEN NoItems ELSE Step(f[s \ {Max(s)}], Max(s))]
           Missing == {m \in Nat : ~ \E f : Folds(f, m)}
<1> HIDE DEF Step
<1>1. ASSUME NEW m \in Nat, \A f : ~Folds(f, m), \A k \in Nat : (\A f : ~Folds(f, k)) => m <= k
      PROVE  FALSE
  <2>1. m # 0
    <3> DEFINE f == [s \in SUBSET (1..0) |-> NoItems]
    <3>1. SUBSET (1..0) = {{}}
      OBVIOUS
    <3>2. Folds(f, 0)
      BY <3>1
    <3> QED BY <1>1, <3>2
  <2>2. \E f : Folds(f, m - 1)
    <3>1. m - 1 \in Nat /\ ~(m <= m - 1)
      BY <2>1
    <3> HIDE DEF Folds
    <3> QED BY <1>1, <3>1
  <2>3. PICK f : Folds(f, m - 1)
    BY <2>2
  <2> DEFINE g == [s \in SUBSET (1..m) |-> IF m \in s THEN Step(f[s \ {m}], m) ELSE f[s]]
  <2>4. ASSUME NEW s \in SUBSET (1..m)
        PROVE  g[s] = IF s = {} THEN NoItems ELSE Step(g[s \ {Max(s)}], Max(s))
    <3>1. CASE m \in s
      <4>1. Max(s) = m
        <5>1. Max(s) \in s /\ m <= Max(s)
          BY <3>1, GreatestOf
        <5>2. Max(s) \in 1..m
          BY <5>1
        <5> QED BY ONLY <5>1, <5>2, m \in Nat
      <4>2. s \ {m} \in SUBSET (1..m) /\ m \notin s \ {m}
        OBVIOUS
      <4>3. g[s \ {m}] = f[s \ {m}]
        BY <4>2
      <4> QED BY <3>1, <4>1, <4>3
    <3>2. CASE m \notin s /\ s # {}
      <4>1. s \in SUBSET (1..(m - 1))
        BY <3>2
      <4>2. f[s] = Step(f[s \ {Max(s)}], Max(s))
        BY <2>3, <3>2, <4>1
      <4>3. g[s \ {Max(s)}] = f[s \ {Max(s)}] /\ g[s] = f[s]
        BY <3>2
      <4> QED BY <3>2, <4>2, <4>3
    <3>3. CASE s = {}
      <4>1. s \in SUBSET (1..(m - 1)) /\ m \notin s
        BY <3>3
      <4>2. f[s] = NoItems
        BY <2>3, <3>3, <4>1
      <4> QED BY <3>3, <4>1, <4>2
    <3> QED BY <3>1, <3>2, <3>3
  <2>5. Folds(g, m)
    <3>1. g = [s \in SUBSET (1..m) |-> g[s]]
      OBVIOUS
    <3> HIDE DEF g
    <3> QED BY <2>4, <3>1
  <2> HIDE DEF Folds
  <2> QED BY <1>1, <2>5
<1> HIDE DEF Folds
<1>2. Missing = {}
  <2> SUFFICES ASSUME Missing # {} PROVE FALSE
    OBVIOUS
  <2>1. Missing \in SUBSET Nat
    OBVIOUS
  <2> HIDE DEF Missing
  <2>2. PICK m \in Missing : \A k \in Missing : m <= k
    BY <2>1, LeastNatural
  <2> QED BY <1>1, <2>2 DEF Missing
<1>3. \E f : Folds(f, n)
  BY <1>2
<1> QED BY <1>3 DEF ItemsBy, Folds, Step

(* The items of a document are right.                                      *)
LEMMA ItemsRight ==
  ASSUME NEW text, NEW b, Shaped(text, b)
  PROVE  StateRight(text, b, ExtractItems(text), Len(text))
<1> DEFINE order == [i \in DOMAIN text |-> i]
           n == Len(text)
           iter == CHOOSE f : ItemsBy(text, order, n, f)
           Wrong == {m \in 0..n : ~StateRight(text, b, iter[1..m], m)}
<1>1. /\ text \in Seq(AllLines) /\ DOMAIN text = 1..n /\ n \in Nat
      /\ b \in 0..n
  BY PlacesOf DEF Shaped
<1>2. ExtractItems(text) = AllItems(text, order)
  BY DEF ExtractItems, AllItems, FoldLeftDomain, NoItems
<1>3. AllItems(text, order) = iter[1..n]
  BY <1>1 DEF AllItems, ItemsBy, FoldLeft, MapThenFoldSet
<1>4. ItemsBy(text, order, n, iter)
  BY <1>1, ItemsExist
<1> HIDE DEF iter
<1>5. ASSUME NEW s \in SUBSET (1..n)
      PROVE  iter[s] = IF s = {} THEN NoItems ELSE ReadItem(iter[s \ {Max(s)}], text, Max(s))
  <2>1. s # {} => Max(s) \in DOMAIN text
    BY <1>1, GreatestOf
  <2> QED BY <1>4, <2>1 DEF ItemsBy
<1> HIDE DEF order
<1>6. ASSUME NEW m \in 0..n, \A k \in Wrong : m <= k
      PROVE  StateRight(text, b, iter[1..m], m)
  <2>1. CASE m = 0
    <3>1. 1..0 = {} /\ {} \in SUBSET (1..n)
      OBVIOUS
    <3>2. iter[1..0] = NoItems
      BY <1>5, <3>1
    <3>3. NoItems.items = <<>> /\ NoItems.target = None /\ NoItems.issues = 0 /\ ~NoItems.ended
      BY DEF NoItems
    <3>4. Stray(text, <<>>, 0) = {}
      BY <1>1 DEF Stray, Adjusts
    <3>5. Cardinality({}) = 0
      BY FS_EmptySet
    <3>6. <<>> \in Seq({}) /\ DOMAIN <<>> = {}
      OBVIOUS
    <3>7. NoItems = [items |-> NoItems.items, target |-> NoItems.target, issues |-> NoItems.issues,
                     ended |-> NoItems.ended]
      BY DEF NoItems
    <3>8. StateRight(text, b, NoItems, 0)
      <4> DEFINE z == NoItems
      <4>1. z.items = <<>> /\ z.target = None /\ z.issues = 0 /\ ~z.ended
        BY <3>3
      <4>2. z = [items |-> z.items, target |-> z.target, issues |-> z.issues, ended |-> z.ended]
        BY <3>7
      <4> HIDE DEF z
      <4>3. \E S : z.items \in Seq(S)
        BY <3>6, <4>1
      <4>4. \A k \in DOMAIN z.items : ItemRight(text, z.items[k], 0)
        BY <3>6, <4>1
      <4>5. z.issues \in Nat /\ Cardinality(Stray(text, z.items, 0)) <= z.issues
        <5>1. Stray(text, z.items, 0) = {}
          BY <3>4, <4>1
        <5>2. Cardinality(Stray(text, z.items, 0)) = 0
          BY <3>5, <5>1
        <5>3. z.issues = 0 /\ 0 \in Nat /\ 0 <= 0
          BY <4>1
        <5> QED BY <5>2, <5>3
      <4>6. StateRight(text, b, z, 0)
        BY <4>1, <4>2, <4>3, <4>4, <4>5 DEF StateRight
      <4> QED BY <4>6 DEF z
    <3> QED BY <2>1, <3>2, <3>8
  <2>2. CASE m # 0
    <3>1. m \in 1..n /\ m - 1 \in 0..n /\ ~(m <= m - 1)
      BY <1>1, <2>2
    <3>2. StateRight(text, b, iter[1..(m - 1)], m - 1)
      BY <1>6, <3>1
    <3>3. iter[1..m] = ReadItem(iter[1..(m - 1)], text, m)
      <4>1. Max(1..m) = m /\ (1..m) \ {m} = 1..(m - 1) /\ 1..m # {}
        BY <3>1, GreatestOfInterval
      <4>2. 1..m \in SUBSET (1..n)
        OBVIOUS
      <4> QED BY <1>5, <4>1, <4>2
    <3> HIDE DEF Wrong
    <3> QED BY <3>1, <3>2, <3>3, LineRight
  <2> QED BY <2>1, <2>2
<1>7. Wrong = {}
  <2> SUFFICES ASSUME Wrong # {} PROVE FALSE
    OBVIOUS
  <2>1. Wrong \in SUBSET Nat
    BY <1>1
  <2> HIDE DEF Wrong
  <2>2. PICK m \in Wrong : \A k \in Wrong : m <= k
    BY <2>1, LeastNatural
  <2>3. m \in 0..n /\ ~StateRight(text, b, iter[1..m], m)
    BY <2>2 DEF Wrong
  <2> QED BY <1>6, <2>2, <2>3
<1> QED BY <1>1, <1>2, <1>3, <1>7

(* The smaller of two integers is one of them.                             *)
LEMMA LesserOf ==
  ASSUME NEW c \in Int, NEW d \in Int
  PROVE  Min({c, d}) \in Int
<1>1. \E x \in {c, d} : \A y \in {c, d} : x <= y
  OBVIOUS
<1> QED BY <1>1 DEF Min

(* What two pages share is a number of rows.                               *)
LEMMA OverlapIs ==
  ASSUME NEW merged \in Seq(AllLines), NEW page \in Seq(AllLines)
  PROVE  Overlap(merged, page) \in Nat
<1> DEFINE limit == Min({25, Len(merged), Len(page)})
           exact == {n \in 1..limit : LastRows(merged, n) = FirstRows(page, n)}
           similar(skip) ==
             {n \in 2..Min({limit, Len(page) - skip}) :
                 LET left  == LastRows(merged, n)
                     right == SubSeq(page, skip + 1, skip + n)
                 IN /\ Cardinality({k \in 1..n : Priced(left[k])}) >= 2
                    /\ \A k \in 1..n : Alike(left[k], right[k])}
           heading == Money(page[1]) = None
<1>1. limit \in Nat
  <2>1. {25, Len(merged), Len(page)} \in SUBSET Nat
    OBVIOUS
  <2> QED BY <2>1, LeastOfNaturals
<1>2. ASSUME NEW S \in SUBSET Nat, S # {}, IsFiniteSet(S) PROVE Max(S) \in Nat
  <2>1. PICK m \in S : \A k \in S : k <= m
    BY <1>2, GreatestNatural
  <2>2. m \in S /\ \A k \in S : m >= k
    BY <2>1
  <2> QED BY <2>2 DEF Max
<1>3. exact \in SUBSET Nat /\ IsFiniteSet(exact)
  <2>1. exact \in SUBSET (1..limit)
    OBVIOUS
  <2>2. SUBSET (1..limit) \subseteq SUBSET Nat
    OBVIOUS
  <2> HIDE DEF exact, limit
  <2>3. IsFiniteSet(1..limit)
    BY <1>1, FS_Interval
  <2>4. IsFiniteSet(exact)
    BY <2>1, <2>3, FS_Subset
  <2> QED BY <2>1, <2>2, <2>4
<1>4. ASSUME NEW skip \in Nat PROVE similar(skip) \in SUBSET Nat /\ IsFiniteSet(similar(skip))
  <2>1. similar(skip) \in SUBSET (2..Min({limit, Len(page) - skip}))
    OBVIOUS
  <2>2. Len(page) - skip \in Int
    OBVIOUS
  <2> HIDE DEF similar, limit
  <2>3. Min({limit, Len(page) - skip}) \in Int
    BY <1>1, <2>2, LesserOf
  <2> DEFINE most == Min({limit, Len(page) - skip})
  <2>4. SUBSET (2..most) \subseteq SUBSET Nat
    OBVIOUS
  <2>5. similar(skip) \in SUBSET (2..most) /\ most \in Int
    BY <2>1, <2>3
  <2> HIDE DEF most
  <2>6. IsFiniteSet(2..most)
    BY <2>5, FS_Interval
  <2>7. IsFiniteSet(similar(skip))
    BY <2>5, <2>6, FS_Subset
  <2> QED BY <2>4, <2>5, <2>7
<1>5. Overlap(merged, page)
        = IF exact # {} THEN Max(exact)
          ELSE IF similar(0) # {} THEN Max(similar(0))
          ELSE IF heading /\ similar(1) # {} THEN 1 + Max(similar(1))
          ELSE 0
  BY DEF Overlap
<1> HIDE DEF exact, similar, heading
<1> QED BY <1>2, <1>3, <1>4, <1>5

(* A page under the pages before it, without the rows they share.          *)
Under(merged, page) ==
  IF merged = <<>> THEN page
  ELSE merged \o SubSeq(page, Overlap(merged, page) + 1, Len(page))

(* f[s] is what the pages s are merged into.                               *)
MergedBy(scan, m, f) ==
  f = [s \in SUBSET (1..m) |->
         IF s = {} THEN <<>> ELSE Under(f[s \ {Max(s)}], scan[Max(s)])]

(* The greatest of one and of two.                                         *)
LEMMA TopOfTwo == /\ Max(1..1) = 1 /\ (1..1) \ {1} = {} /\ 1..1 # {}
                  /\ Max(1..2) = 2 /\ (1..2) \ {2} = 1..1 /\ 1..2 # {}
<1>1. \A m \in Nat : m # 0 => Max(1..m) = m
  BY GreatestOfInterval
<1>2. 1 \in Nat /\ 1 # 0 /\ 2 \in Nat /\ 2 # 0
  OBVIOUS
<1>3. Max(1..1) = 1 /\ Max(1..2) = 2
  BY <1>1, <1>2, Zenon
<1>4. (1..1) \ {1} = {} /\ 1..1 # {}
  OBVIOUS
<1>5. (1..2) \ {2} = 1..1 /\ 1..2 # {}
  OBVIOUS
<1> QED BY <1>3, <1>4, <1>5, Zenon

(* The entries of a list.                                                  *)
LEMMA SeqEntries ==
  ASSUME NEW S, NEW s \in Seq(S)
  PROVE  \A i \in 1..Len(s) : s[i] \in S
OBVIOUS

(* Two pages are merged in their order.                                    *)
LEMMA MergedIs ==
  ASSUME NEW S, NEW scan \in Seq(S), Len(scan) \in {1, 2}
  PROVE  MergePages(scan) = IF Len(scan) = 1 THEN scan[1] ELSE Under(scan[1], scan[2])
<1> DEFINE n == Len(scan)
           iter == CHOOSE f : MergedBy(scan, n, f)
<1>1. DOMAIN scan = 1..n /\ n \in 1..2
  OBVIOUS
<1>2. MergePages(scan) = iter[1..n]
  BY <1>1 DEF MergePages, MergedBy, Under, FoldLeft, MapThenFoldSet
<1>3. \E f : MergedBy(scan, n, f)
  <2> DEFINE one == [s \in SUBSET (1..n) |-> IF s = {} THEN <<>> ELSE scan[Max(s)]]
             g == [s \in SUBSET (1..n) |->
                     IF s = {} THEN <<>> ELSE Under(one[s \ {Max(s)}], scan[Max(s)])]
  <2>1. ASSUME NEW s \in SUBSET (1..n), s # {}
        PROVE  g[s \ {Max(s)}] = one[s \ {Max(s)}]
    <3>1. Max(s) \in s /\ \A k \in s : k <= Max(s)
      BY <1>1, <2>1, GreatestOf
    <3>2. s \ {Max(s)} \in SUBSET (1..n)
      OBVIOUS
    <3>3. CASE s \ {Max(s)} = {}
      BY <3>2, <3>3
    <3>4. CASE s \ {Max(s)} # {}
      <4> DEFINE r == s \ {Max(s)}
      <4>1. \A k \in r : k = 1
        <5>1. \A k \in s : k = 1 \/ k = 2
          BY <1>1
        <5> DEFINE top == Max(s)
        <5>2. top \in s /\ \A k \in s : k <= top
          BY <3>1
        <5> HIDE DEF top
        <5>3. \A k \in s \ {top} : k = 1
          BY <5>1, <5>2
        <5> QED BY <5>3 DEF top
      <4>2. r \ {Max(r)} = {}
        <5>1. Max(r) \in r
          BY <1>1, <3>2, <3>4, GreatestOf
        <5> HIDE DEF r
        <5> QED BY <4>1, <5>1
      <4>3. {} \in SUBSET (1..n) /\ one[{}] = <<>>
        OBVIOUS
      <4>4. g[r] = Under(one[r \ {Max(r)}], scan[Max(r)]) /\ one[r] = scan[Max(r)]
        BY <3>2, <3>4
      <4>5. g[r] = Under(<<>>, scan[Max(r)])
        BY <4>2, <4>3, <4>4
      <4> HIDE DEF r, g, one
      <4>6. g[r] = scan[Max(r)]
        BY <4>5 DEF Under
      <4> QED BY <4>4, <4>6 DEF r
    <3> QED BY <3>3, <3>4
  <2>2. ASSUME NEW s \in SUBSET (1..n)
        PROVE  g[s] = IF s = {} THEN <<>> ELSE Under(g[s \ {Max(s)}], scan[Max(s)])
    <3>1. g[s] = IF s = {} THEN <<>> ELSE Under(one[s \ {Max(s)}], scan[Max(s)])
      OBVIOUS
    <3> HIDE DEF g, one
    <3> QED BY <2>1, <3>1
  <2>3. g = [s \in SUBSET (1..n) |-> g[s]]
    OBVIOUS
  <2> HIDE DEF g
  <2>4. MergedBy(scan, n, g)
    BY <2>2, <2>3 DEF MergedBy
  <2> QED BY <2>4
<1>4. MergedBy(scan, n, iter)
  BY <1>3
<1> HIDE DEF iter
<1>5. ASSUME NEW s \in SUBSET (1..n)
      PROVE  iter[s] = IF s = {} THEN <<>> ELSE Under(iter[s \ {Max(s)}], scan[Max(s)])
  BY <1>4 DEF MergedBy
<1>6. iter[1..1] = scan[1]
  <2>1. Max(1..1) = 1 /\ (1..1) \ {1} = {} /\ 1..1 # {}
    BY TopOfTwo
  <2>2. 1..1 \in SUBSET (1..n) /\ {} \in SUBSET (1..n)
    BY <1>1
  <2>3. iter[{}] = <<>>
    BY <1>5, <2>2
  <2>4. iter[1..1] = Under(<<>>, scan[1])
    BY <1>5, <2>1, <2>2, <2>3
  <2> QED BY <2>4 DEF Under
<1>7. n = 2 => iter[1..2] = Under(scan[1], scan[2])
  <2>1. Max(1..2) = 2 /\ (1..2) \ {2} = 1..1 /\ 1..2 # {}
    BY TopOfTwo
  <2>2. n = 2 => 1..2 \in SUBSET (1..n)
    OBVIOUS
  <2> QED BY <1>5, <1>6, <2>1, <2>2
<1> QED BY <1>1, <1>2, <1>6, <1>7

-----------------------------------------------------------------------------
(* The pages that were scanned: body lines on the first of two, body lines *)
(* and then summary lines on the last.                                     *)
PagesShaped(scan) ==
  /\ scan \in Seq(Seq(AllLines)) /\ Len(scan) \in {1, 2}
  /\ \E b \in Nat : Shaped(scan[Len(scan)], b)
  /\ Len(scan) = 2 => scan[1] \in Seq(Body)

(* So is the text they are merged into.                                    *)
LEMMA MergedShaped ==
  ASSUME NEW scan, PagesShaped(scan)
  PROVE  \E b \in Nat : Shaped(MergePages(scan), b)
<1>1. scan \in Seq(Seq(AllLines))
  BY DEF PagesShaped
<1>2. CASE Len(scan) = 1
  BY <1>1, <1>2, MergedIs DEF PagesShaped
<1>3. CASE Len(scan) = 2
  <2> DEFINE p == scan[1]
             q == scan[2]
  <2>1. MergePages(scan) = Under(p, q)
    <3>1. Len(scan) \in {1, 2} /\ Len(scan) # 1
      BY <1>3
    <3>2. MergePages(scan) = IF Len(scan) = 1 THEN scan[1] ELSE Under(scan[1], scan[2])
      BY <1>1, <3>1, MergedIs
    <3> QED BY <3>1, <3>2
  <2>2. PICK b \in Nat : Shaped(q, b)
    BY <1>3 DEF PagesShaped
  <2>3. p \in Seq(Body) /\ p \in Seq(AllLines) /\ q \in Seq(AllLines)
    <3>1. p \in Seq(Body)
      BY <1>3 DEF PagesShaped
    <3>2. p \in Seq(AllLines) /\ q \in Seq(AllLines)
      <4>1. 1 \in 1..Len(scan) /\ 2 \in 1..Len(scan)
        BY <1>3
      <4> QED BY <1>1, <4>1, SeqEntries
    <3> QED BY <3>1, <3>2
  <2> HIDE DEF p, q
  <2>4. CASE p = <<>>
    BY <2>1, <2>2, <2>4 DEF Under
  <2>5. CASE p # <<>>
    <3> DEFINE o == Overlap(p, q)
               rest == SubSeq(q, o + 1, Len(q))
               text == p \o rest
               c == IF o >= b THEN Len(p) ELSE Len(p) + (b - o)
    <3>1. MergePages(scan) = text
      BY <2>1, <2>5 DEF Under
    <3>2. o \in Nat
      BY <2>3, OverlapIs
    <3>3. /\ b \in 0..Len(q) /\ Len(q) \in Nat
          /\ \A i \in 1..b : q[i] \in Body
          /\ \A i \in (b + 1)..Len(q) : q[i] \in Summary
      BY <2>2 DEF Shaped
    <3> HIDE DEF o
    <3>4. rest \in Seq(AllLines) /\ Len(rest) = IF o >= Len(q) THEN 0 ELSE Len(q) - o
      BY <2>3, <3>2
    <3>5. \A i \in 1..Len(rest) : rest[i] = q[o + i]
      BY <2>3, <3>2
    <3> HIDE DEF rest
    <3>6. /\ text \in Seq(AllLines) /\ Len(text) = Len(p) + Len(rest)
          /\ \A i \in 1..Len(p) : text[i] = p[i]
          /\ \A i \in (Len(p) + 1)..Len(text) : text[i] = rest[i - Len(p)]
      BY <2>3, <3>4
    <3> HIDE DEF text
    <3>7. Len(p) \in Nat /\ Len(rest) \in Nat
      BY <2>3, <3>4
    <3>8. c \in 0..Len(text) /\ c \in Nat
      BY <3>2, <3>3, <3>4, <3>6, <3>7
    <3>9. ASSUME NEW i \in 1..c PROVE text[i] \in Body
      <4>1. CASE i <= Len(p)
        BY <2>3, <3>6, <3>7, <4>1
      <4>2. CASE i > Len(p)
        <5> DEFINE k == i - Len(p)
        <5>1. o < b /\ k \in 1..(b - o) /\ o + k \in 1..b
          BY <3>2, <3>7, <4>2
        <5>2. k \in 1..Len(rest) /\ i \in (Len(p) + 1)..Len(text)
          BY <3>2, <3>3, <3>4, <3>6, <3>7, <4>2, <5>1
        <5> QED BY <3>3, <3>5, <3>6, <5>1, <5>2
      <4> QED BY <3>7, <4>1, <4>2
    <3>10. ASSUME NEW i \in (c + 1)..Len(text) PROVE text[i] \in Summary
      <4> DEFINE k == i - Len(p)
      <4>1. i \in (Len(p) + 1)..Len(text) /\ k \in 1..Len(rest)
        BY <3>2, <3>3, <3>6, <3>7, <3>8
      <4>2. o + k \in (b + 1)..Len(q)
        BY <3>2, <3>3, <3>4, <3>7, <4>1
      <4> QED BY <3>3, <3>5, <3>6, <4>1, <4>2
    <3>11. Shaped(text, c)
      BY <3>6, <3>8, <3>9, <3>10 DEF Shaped
    <3> QED BY <3>1, <3>8, <3>11
  <2> QED BY <2>4, <2>5
<1> QED BY <1>2, <1>3 DEF PagesShaped

(* A line printed in its order goes under the lines of the last page.      *)
LEMMA LineShaped ==
  ASSUME NEW text, NEW b \in Nat, Shaped(text, b), NEW line \in AllLines,
         line \in Body => \A i \in 1..Len(text) : text[i] \in Body
  PROVE  \E c \in Nat : Shaped(Append(text, line), c)
<1> DEFINE next == Append(text, line)
           n == Len(text)
<1>1. /\ text \in Seq(AllLines) /\ n \in Nat /\ b \in 0..n
      /\ \A i \in 1..b : text[i] \in Body
      /\ \A i \in (b + 1)..n : text[i] \in Summary
  BY DEF Shaped
<1>2. /\ next \in Seq(AllLines) /\ Len(next) = n + 1 /\ next[n + 1] = line
      /\ \A i \in 1..n : next[i] = text[i]
  BY <1>1
<1> HIDE DEF next, n
<1>3. CASE line \in Body
  <2>1. Shaped(next, n + 1)
    <3>1. \A i \in 1..(n + 1) : next[i] \in Body
      BY <1>1, <1>2, <1>3 DEF n
    <3>2. n + 1 \in 0..Len(next) /\ (n + 1 + 1)..Len(next) = {}
      BY <1>1, <1>2
    <3> QED BY <1>2, <3>1, <3>2 DEF Shaped
  <2> QED BY <1>1, <2>1 DEF next
<1>4. CASE line \in Summary
  <2>1. Shaped(next, b)
    <3>1. \A i \in 1..b : next[i] \in Body
      BY <1>1, <1>2
    <3>2. \A i \in (b + 1)..Len(next) : next[i] \in Summary
      BY <1>1, <1>2, <1>4
    <3>3. b \in 0..Len(next)
      BY <1>1, <1>2
    <3> QED BY <1>2, <3>1, <3>2, <3>3 DEF Shaped
  <2> QED BY <2>1 DEF next
<1> QED BY <1>3, <1>4 DEF AllLines

(* Before a document's summary all of its lines are body lines.            *)
LEMMA BeforeSummary ==
  ASSUME PagesShaped(pages), ~SummaryBegun
  PROVE  \A i \in 1..Len(pages[Len(pages)]) : pages[Len(pages)][i] \in Body
<1> DEFINE p == pages[Len(pages)]
<1>1. Len(pages) \in DOMAIN pages
  BY DEF PagesShaped
<1>2. PICK b \in Nat : Shaped(p, b)
  BY DEF PagesShaped
<1>3. \A line \in ToSet(p) : line \notin Summary
  BY <1>1 DEF SummaryBegun
<1> HIDE DEF p
<1>4. DOMAIN p = 1..Len(p) /\ Len(p) \in Nat /\ b \in 0..Len(p)
  BY <1>2, PlacesOf DEF Shaped
<1>5. \A i \in 1..Len(p) : p[i] \notin Summary
  BY <1>3, <1>4 DEF ToSet
<1>6. \A i \in 1..Len(p) : i \in 1..b \/ i \in (b + 1)..Len(p)
  BY <1>4
<1>7. \A i \in 1..Len(p) : p[i] \in Body
  BY <1>2, <1>5, <1>6 DEF Shaped
<1> QED BY <1>7 DEF p

-----------------------------------------------------------------------------
(* The inductive invariant of the reading of a receipt: the pages have the *)
(* shape of a document, and a complete receipt has every adjustment        *)
(* placed.                                                                 *)
ReadingInv ==
  /\ PagesShaped(pages)
  /\ outcome = "complete" => ExtractItems(MergePages(pages)).issues = 0

(* A receipt with adjustments that found no product is not complete.       *)
LEMMA CompleteIs ==
  ASSUME NEW r, StatusOf(ReviewReasons(r)) = "complete"
  PROVE  ExtractItems(r.text).issues = 0
<1>1. ReviewReasons(r) = {}
  BY DEF StatusOf
<1>2. "unreadable_ocr" \in {"unreadable_ocr"} /\ "unresolved_item_adjustment" \in {"unresolved_item_adjustment"}
  OBVIOUS
<1> QED BY <1>1, <1>2 DEF ReviewReasons

(* A blank page has the shape of a document.                               *)
LEMMA ReadingStarts == ReadingInit => ReadingInv
<1> SUFFICES ASSUME ReadingInit PROVE ReadingInv
  OBVIOUS
<1>1. pages = << <<>> >> /\ outcome = "scanning"
  BY DEF ReadingInit
<1>2. <<>> \in Seq(AllLines) /\ Len(<<>>) = 0
  OBVIOUS
<1>3. Shaped(<<>>, 0)
  BY <1>2 DEF Shaped
<1>4. Len(pages) = 1 /\ pages[1] = <<>> /\ pages \in Seq(Seq(AllLines))
  BY <1>1, <1>2
<1> QED BY <1>1, <1>3, <1>4 DEF ReadingInv, PagesShaped

(* Every step of the scanner and of the parser keeps it.                   *)
LEMMA ReadingSteps == ReadingInv /\ [ReadingNext]_readingVars => ReadingInv'
<1> SUFFICES ASSUME ReadingInv, [ReadingNext]_readingVars PROVE ReadingInv'
  OBVIOUS
<1> DEFINE n == Len(pages)
<1>1. pages \in Seq(Seq(AllLines)) /\ n \in {1, 2} /\ DOMAIN pages = 1..n
  BY DEF ReadingInv, PagesShaped
<1>2. PICK b \in Nat : Shaped(pages[n], b)
  BY DEF ReadingInv, PagesShaped
<1>3. ASSUME NEW line \in Body \cup Summary, ScanLine(line) PROVE ReadingInv'
  <2>1. /\ outcome' = "scanning"
        /\ pages' = [pages EXCEPT ![n] = Append(@, line)]
        /\ line \in Body => ~SummaryBegun
    BY <1>3 DEF ScanLine
  <2>2. line \in Body => \A i \in 1..Len(pages[n]) : pages[n][i] \in Body
    BY <2>1, BeforeSummary DEF ReadingInv
  <2>3. \E c \in Nat : Shaped(Append(pages[n], line), c)
    BY <1>2, <2>2, LineShaped DEF AllLines
  <2>4. Append(pages[n], line) \in Seq(AllLines)
    BY <2>3 DEF Shaped
  <2> DEFINE p == Append(pages[n], line)
             next == [pages EXCEPT ![n] = p]
  <2>5. /\ next \in Seq(Seq(AllLines)) /\ Len(next) = n /\ next[n] = p
        /\ n = 2 => next[1] = pages[1]
    <3> DEFINE S == Seq(AllLines)
    <3>1. pages \in Seq(S) /\ p \in S
      BY <1>1, <2>4
    <3> HIDE DEF p, S
    <3>2. next \in Seq(S) /\ Len(next) = n
      BY <1>1, <3>1
    <3>3. next[n] = p /\ (n = 2 => next[1] = pages[1])
      BY <1>1
    <3> QED BY <3>2, <3>3 DEF S
  <2>6. pages' = next
    BY <2>1
  <2> HIDE DEF next
  <2>7. PagesShaped(next)
    BY <1>1, <2>3, <2>5 DEF PagesShaped, ReadingInv
  <2> QED BY <2>1, <2>6, <2>7 DEF ReadingInv
<1>4. ASSUME TurnPage PROVE ReadingInv'
  <2>1. /\ outcome' = "scanning" /\ n < 2 /\ ~SummaryBegun
        /\ pages' = Append(pages, <<>>)
    BY <1>4 DEF TurnPage
  <2>2. \A i \in 1..Len(pages[1]) : pages[1][i] \in Body
    BY <1>1, <2>1, BeforeSummary DEF ReadingInv
  <2>3. pages[1] \in Seq(Body)
    <3>1. pages[1] \in Seq(AllLines)
      BY <1>1, SeqEntries
    <3> DEFINE p == pages[1]
    <3>2. p \in Seq(AllLines) /\ \A i \in 1..Len(p) : p[i] \in Body
      BY <2>2, <3>1
    <3> HIDE DEF p
    <3>3. p = [i \in 1..Len(p) |-> p[i]] /\ Len(p) \in Nat
      BY <3>2
    <3>4. p \in Seq(Body)
      BY <3>2, <3>3
    <3> QED BY <3>4 DEF p
  <2>4. <<>> \in Seq(AllLines) /\ Shaped(<<>>, 0)
    BY DEF Shaped
  <2> DEFINE next == Append(pages, <<>>)
  <2>5. next \in Seq(Seq(AllLines)) /\ Len(next) = 2 /\ next[1] = pages[1] /\ next[2] = <<>>
    BY <1>1, <2>1, <2>4
  <2> HIDE DEF next
  <2>6. PagesShaped(next)
    BY <2>3, <2>4, <2>5 DEF PagesShaped
  <2> QED BY <2>1, <2>6 DEF ReadingInv, next
<1>5. ASSUME Parse PROVE ReadingInv'
  <2>1. pages' = pages
    BY <1>5 DEF Parse
  <2> DEFINE r == ReadReceipt(pages)
  <2>2. outcome' = "raised" \/ outcome' = StatusOf(ReviewReasons(r))
    BY <1>5 DEF Parse
  <2>3. r.text = MergePages(pages)
    BY DEF ReadReceipt
  <2> HIDE DEF r
  <2>4. outcome' = "complete" => ExtractItems(MergePages(pages)).issues = 0
    BY <2>2, <2>3, CompleteIs
  <2> QED BY <2>1, <2>4 DEF ReadingInv
<1>6. ASSUME UNCHANGED readingVars PROVE ReadingInv'
  BY <1>6 DEF ReadingInv, readingVars
<1> QED BY <1>3, <1>4, <1>5, <1>6 DEF ReadingNext

(* What the invariant says of the items of a receipt.                      *)
LEMMA ItemsKeepAdjustments == ReadingInv => AdjustmentsStay
<1> SUFFICES ASSUME ReadingInv PROVE AdjustmentsStay
  OBVIOUS
<1> DEFINE text  == MergePages(pages)
           state == ExtractItems(text)
           ends  == {Len(text) + 1} \cup {i \in DOMAIN text : text[i].kind \in {"subtotal", "total"}}
           end   == Min(ends)
           adjustments == {j \in 1..(end - 1) : text[j].kind \in {"saving", "deposit"}}
           sold  == {state.items[k].line : k \in DOMAIN state.items}
<1>1. PICK b \in Nat : Shaped(text, b)
  BY MergedShaped DEF ReadingInv
<1>2. StateRight(text, b, state, Len(text))
  BY <1>1, ItemsRight
<1>3. outcome = "complete" => state.issues = 0
  BY DEF ReadingInv
<1> HIDE DEF text, state
<1>4. /\ text \in Seq(AllLines) /\ DOMAIN text = 1..Len(text) /\ Len(text) \in Nat /\ b \in 0..Len(text)
      /\ \A i \in 1..b : text[i] \in Body
      /\ \A i \in (b + 1)..Len(text) : text[i] \in Summary
  BY <1>1, PlacesOf DEF Shaped
<1>5. end \in b + 1..Len(text) + 1
  <2>1. ends \in SUBSET Nat /\ ends # {} /\ Len(text) + 1 \in ends
    BY <1>4
  <2>2. ASSUME NEW i \in ends PROVE i > b
    <3>1. i \in 1..b => text[i].kind \notin {"subtotal", "total"}
      BY <1>4, LinesHaveKinds
    <3> QED BY <1>4, <3>1
  <2> HIDE DEF ends
  <2>3. end \in ends /\ end <= Len(text) + 1
    BY <2>1, LeastOfNaturals
  <2>4. end > b /\ end \in Nat
    BY <2>1, <2>2, <2>3
  <2> QED BY <1>4, <2>3, <2>4
<1> HIDE DEF end
<1>6. adjustments = Adjusts(text)
  <2>1. ASSUME NEW j \in Adjusts(text) PROVE j \in adjustments
    <3>1. j \in 1..Len(text) /\ text[j].kind \in {"saving", "deposit"}
      BY <1>4 DEF Adjusts
    <3>2. j \notin (b + 1)..Len(text)
      BY <1>4, <3>1, LinesHaveKinds
    <3>3. j \in 1..b
      BY <1>4, <3>1, <3>2
    <3> QED BY <1>4, <1>5, <3>1, <3>3
  <2>2. ASSUME NEW j \in adjustments PROVE j \in Adjusts(text)
    BY <1>4, <1>5 DEF Adjusts
  <2> QED BY <2>1, <2>2
<1> HIDE DEF adjustments
<1>7. sold = LinesOf(state.items)
  BY DEF LinesOf
<1>8. ASSUME NEW i
      PROVE  KindsUnder(text, i, Len(text)) = {text[j].kind : j \in {k \in adjustments : Owner(text, k) = i}}
  <2>1. \A k \in Adjusts(text) : k <= Len(text)
    BY <1>4 DEF Adjusts
  <2> QED BY <1>6, <2>1 DEF KindsUnder
<1>9. Stray(text, state.items, Len(text)) = {j \in adjustments : Owner(text, j) \notin sold}
  <2>1. \A k \in Adjusts(text) : k <= Len(text)
    BY <1>4 DEF Adjusts
  <2> QED BY <1>6, <1>7, <2>1 DEF Stray
<1>10. Cardinality({j \in adjustments : Owner(text, j) \notin sold}) <= state.issues
  BY <1>2, <1>9 DEF StateRight
<1>11. ASSUME outcome = "complete" PROVE \A j \in adjustments : Owner(text, j) \in sold
  <2>1. Cardinality(Stray(text, state.items, Len(text))) = 0
    BY <1>2, <1>3, <1>4, <1>11, StrayFinite DEF StateRight
  <2>2. Stray(text, state.items, Len(text)) = {}
    BY <1>4, <2>1, StrayFinite, FS_EmptySet
  <2> HIDE DEF sold
  <2> QED BY <1>9, <2>2
<1>12. ASSUME NEW k \in DOMAIN state.items
       PROVE  LET item    == state.items[k]
                  printed == PrintedAmount(text, item.line)
                  kinds   == {text[j].kind : j \in {h \in adjustments : Owner(text, h) = item.line}}
              IN /\ kinds = {} => item.amount = printed
                 /\ printed >= 0 => item.amount >= 0
                 /\ printed < 0 => item.amount <= 0 \/ {"saving", "deposit"} \subseteq kinds
  <2> DEFINE item == state.items[k]
             printed == PrintedAmount(text, item.line)
             kinds == KindsUnder(text, item.line, Len(text))
  <2>1. ItemRight(text, item, Len(text))
    BY <1>2 DEF StateRight
  <2>2. kinds = {text[j].kind : j \in {h \in adjustments : Owner(text, h) = item.line}}
    BY <1>8
  <2>3. /\ item.amount \in Int
        /\ kinds = {} => item.amount = printed
        /\ printed >= 0 => item.amount >= 0
        /\ printed < 0 => \/ item.amount < 0
                          \/ item.amount = 0 /\ "saving" \in kinds
                          \/ {"saving", "deposit"} \subseteq kinds
    BY <2>1 DEF ItemRight
  <2>4. printed < 0 => item.amount <= 0 \/ {"saving", "deposit"} \subseteq kinds
    BY <2>3
  <2> HIDE DEF kinds, printed
  <2> QED BY <2>2, <2>3, <2>4 DEF printed
<1> HIDE DEF sold
<1> QED BY <1>10, <1>11, <1>12 DEF AdjustmentsStay, text, state, adjustments, end, ends, sold

(* A discount or deposit changes the product it is printed under or keeps  *)
(* the receipt in review.                                                  *)
THEOREM AdjustmentsAreKept == ReadingSpec => []AdjustmentsStay
<1>1. ReadingSpec => []ReadingInv
  BY ReadingStarts, ReadingSteps, PTL DEF ReadingSpec
<1> QED BY <1>1, ItemsKeepAdjustments, PTL

=============================================================================

---------------------------- MODULE Orders_proofs ----------------------------
(***************************************************************************)
(* Theorems about an order of a web store on its way from a page that is   *)
(* still rendering to the database: the lines stored of it and the reports *)
(* on it add up, for every page of any length, whatever order its rows     *)
(* render in and however often they are parsed and cleaned.                *)
(***************************************************************************)
EXTENDS StoreOrders, Calculations_proofs

-----------------------------------------------------------------------------
(* Folds: a state goes through the entries of a list, one after the other. *)

(* g[s] is the state after the entries at the places s.                    *)
Walks(first, step, n, g) ==
  /\ g[{}] = first
  /\ \A s \in SUBSET (1..n) : s # {} => g[s] = step[<<g[s \ {Max(s)}], Max(s)>>]

(* Where each step leads from a state to a state, the entries can be gone  *)
(* through one after the other.                                            *)
LEMMA WalkExists ==
  ASSUME NEW T, NEW first \in T, NEW n \in Nat, NEW step \in [T \X (1..n) -> T]
  PROVE  \E g \in [SUBSET (1..n) -> T] : Walks(first, step, n, g)
<1> DEFINE Missing == {m \in 0..n : ~ \E g \in [SUBSET (1..m) -> T] : Walks(first, step, m, g)}
<1>1. ASSUME NEW m \in 0..n, \A k \in Missing : m <= k
      PROVE  \E g \in [SUBSET (1..m) -> T] : Walks(first, step, m, g)
  <2>1. CASE m = 0
    <3> DEFINE g == [s \in SUBSET (1..0) |-> first]
    <3>1. SUBSET (1..0) = {{}}
      OBVIOUS
    <3>2. g \in [SUBSET (1..0) -> T] /\ Walks(first, step, 0, g)
      BY <3>1 DEF Walks
    <3> QED BY <2>1, <3>2
  <2>2. CASE m # 0
    <3>1. m \in 1..n /\ m - 1 \in 0..n /\ ~(m <= m - 1)
      BY <2>2
    <3>2. PICK f \in [SUBSET (1..(m - 1)) -> T] : Walks(first, step, m - 1, f)
      <4>1. m - 1 \notin Missing
        <5> HIDE DEF Missing
        <5> QED BY <1>1, <3>1
      <4> QED BY <3>1, <4>1
    <3> DEFINE rest(s) == s \ {m}
               g == [s \in SUBSET (1..m) |-> IF m \in s THEN step[<<f[rest(s)], m>>] ELSE f[s]]
    <3>3. \A s \in SUBSET (1..m) : rest(s) \in SUBSET (1..(m - 1)) /\ (m \notin s => s = rest(s))
      <4>1. \A k \in 1..m : k # m => k \in 1..(m - 1)
        BY <3>1
      <4> QED BY <4>1
    <3>4. \A s \in SUBSET (1..m) : g[s] \in T
      <4> HIDE DEF rest
      <4> TAKE s \in SUBSET (1..m)
      <4>1. f[rest(s)] \in T
        BY <3>2, <3>3
      <4>2. step[<<f[rest(s)], m>>] \in T
        BY <3>1, <4>1
      <4> QED BY <3>3, <4>1, <4>2
    <3>5. ASSUME NEW s \in SUBSET (1..m), s # {}
          PROVE  g[s] = step[<<g[s \ {Max(s)}], Max(s)>>]
      <4>1. CASE m \in s
        <5>1. Max(s) = m
          <6>3. m \in Nat
            BY <3>1
          <6>1. Max(s) \in s /\ m <= Max(s)
            BY <6>3, <3>5, <4>1, GreatestOf
          <6>2. Max(s) \in 1..m
            BY <6>1
          <6> QED BY ONLY <6>1, <6>2, m \in 0..n, n \in Nat
        <5>2. g[s \ {m}] = f[s \ {m}]
          OBVIOUS
        <5> QED BY <4>1, <5>1, <5>2
      <4>2. CASE m \notin s
        <5>1. s \in SUBSET (1..(m - 1))
          BY <3>3, <4>2
        <5>2. f[s] = step[<<f[s \ {Max(s)}], Max(s)>>]
          BY <3>2, <3>5, <5>1 DEF Walks
        <5>3. g[s \ {Max(s)}] = f[s \ {Max(s)}] /\ g[s] = f[s]
          BY <4>2
        <5> QED BY <5>2, <5>3
      <4> QED BY <4>1, <4>2
    <3>6. g[{}] = first
      <4>1. {} \in SUBSET (1..m) /\ f[{}] = first
        BY <3>2 DEF Walks
      <4> QED BY <4>1
    <3>7. g \in [SUBSET (1..m) -> T]
      <4>1. g = [s \in SUBSET (1..m) |-> g[s]]
        OBVIOUS
      <4> HIDE DEF g
      <4> QED BY <3>4, <4>1
    <3> HIDE DEF g
    <3> QED BY <3>5, <3>6, <3>7 DEF Walks
  <2> QED BY <2>1, <2>2
<1>2. Missing = {}
  <2> SUFFICES ASSUME Missing # {} PROVE FALSE
    OBVIOUS
  <2>1. Missing \in SUBSET Nat
    OBVIOUS
  <2> HIDE DEF Missing
  <2>2. PICK m \in Missing : \A k \in Missing : m <= k
    BY <2>1, LeastNatural
  <2> QED BY <1>1, <2>2 DEF Missing
<1>3. n \in 0..n
  OBVIOUS
<1> QED BY <1>2, <1>3

(* A state that every step keeps in T stays in T.                          *)
LEMMA WalkStays ==
  ASSUME NEW T, NEW n \in Nat, NEW g, g[{}] \in T,
         \A s \in SUBSET (1..n) : s # {} /\ g[s \ {Max(s)}] \in T => g[s] \in T
  PROVE  \A s \in SUBSET (1..n) : g[s] \in T
<1> DEFINE Wrong == {s \in SUBSET (1..n) : g[s] \notin T}
<1>1. ASSUME NEW s \in SUBSET (1..n), \A k \in s : s \ {k} \notin Wrong
      PROVE  s \notin Wrong
  <2>1. CASE s = {}
    BY <2>1
  <2>2. CASE s # {}
    <3>1. Max(s) \in s
      BY <2>2, GreatestOf
    <3>2. g[s \ {Max(s)}] \in T
      BY <1>1, <3>1
    <3> QED BY <2>2, <3>2
  <2> QED BY <2>1, <2>2
<1>2. IsFiniteSet(1..n)
  BY FS_Interval
<1>3. Wrong \in SUBSET (SUBSET (1..n))
  OBVIOUS
<1> HIDE DEF Wrong
<1>4. Wrong = {}
  BY <1>1, <1>2, <1>3, SmallestSet
<1> QED BY <1>4 DEF Wrong

-----------------------------------------------------------------------------
(* Sums of lists.                                                          *)

(* The amounts of a list, added one after the other.                       *)
SumBy(s, g) ==
  g = [p \in SUBSET DOMAIN s |-> IF p = {} THEN 0 ELSE g[p \ {Max(p)}] + s[Max(p)]]

(* The sum of a list is that of its entries, in any order.                 *)
LEMMA ListSum ==
  ASSUME NEW s \in Seq(Int)
  PROVE  Numeric(s, DOMAIN s) /\ Sum(s) = SumOf(s, DOMAIN s) /\ Sum(s) \in Int
<1> DEFINE n == Len(s)
           iter == CHOOSE g : SumBy(s, g)
           step == [t \in Int \X (1..n) |-> t[1] + s[t[2]]]
<1>1. DOMAIN s = 1..n /\ n \in Nat /\ IsFiniteSet(DOMAIN s)
  BY PlacesOf
<1>2. Numeric(s, DOMAIN s)
  BY <1>1 DEF Numeric
<1>3. Sum(s) = iter[DOMAIN s]
  BY DEF Sum, SumBy, FoldLeft, MapThenFoldSet
<1>4. \A t \in Int, k \in 1..n : step[<<t, k>>] = t + s[k] /\ step[<<t, k>>] \in Int
  OBVIOUS
<1>5. step \in [Int \X (1..n) -> Int]
  <2>1. \A x \in Int \X (1..n) : x = <<x[1], x[2]>> /\ x[1] \in Int /\ x[2] \in 1..n
    OBVIOUS
  <2> QED BY <2>1
<1> HIDE DEF step
<1>6. PICK w \in [SUBSET (1..n) -> Int] : Walks(0, step, n, w)
  <2>1. n \in Nat
    BY <1>1
  <2> HIDE DEF n
  <2>2. \A x \in Int : \E w \in [SUBSET (1..n) -> Int] : Walks(x, step, n, w)
    BY <2>1, <1>5, WalkExists
  <2>3. 0 \in Int
    OBVIOUS
  <2> QED BY <2>2, <2>3, Zenon
<1>7. SumBy(s, w)
  <2>1. \A p \in SUBSET (1..n) : p # {} => w[p] = w[p \ {Max(p)}] + s[Max(p)]
    <3> TAKE p \in SUBSET (1..n)
    <3> HAVE p # {}
    <3>1. Max(p) \in 1..n /\ w[p \ {Max(p)}] \in Int
      BY <1>1, GreatestOf
    <3> QED BY <1>4, <1>6, <3>1 DEF Walks
  <2> QED BY <1>1, <1>6, <2>1 DEF SumBy, Walks
<1>8. SumBy(s, iter)
  BY <1>7
<1> HIDE DEF iter
<1>9. PICK g : Sums(s, DOMAIN s, g)
  BY <1>2, SumExists, SumsAre
<1> DEFINE Wrong == {p \in SUBSET (1..n) : iter[p] # g[p]}
<1>10. ASSUME NEW p \in SUBSET (1..n), \A k \in p : p \ {k} \notin Wrong
       PROVE  p \notin Wrong
  <2>1. CASE p = {}
    BY <1>1, <1>8, <1>9, <2>1 DEF SumBy, Sums
  <2>2. CASE p # {}
    <3>1. Max(p) \in p
      BY <1>1, <2>2, GreatestOf
    <3>2. iter[p \ {Max(p)}] = g[p \ {Max(p)}]
      BY <1>10, <3>1
    <3>3. iter[p] = iter[p \ {Max(p)}] + s[Max(p)]
      BY <1>1, <1>8, <2>2 DEF SumBy
    <3>4. g[p] = s[Max(p)] + g[p \ {Max(p)}] /\ g[p \ {Max(p)}] \in Int /\ s[Max(p)] \in Int
      <4>1. p \in SUBSET DOMAIN s /\ p \ {Max(p)} \in SUBSET DOMAIN s /\ Max(p) \in DOMAIN s
        BY <1>1, <3>1
      <4>2. g[p \ {Max(p)}] \in Int
        BY <1>9, <4>1 DEF Sums
      <4>3. g[p] = s[Max(p)] + g[p \ {Max(p)}]
        BY <1>9, <3>1, <4>1 DEF Sums
      <4> QED BY <4>1, <4>2, <4>3
    <3> QED BY <3>2, <3>3, <3>4
  <2> QED BY <2>1, <2>2
<1>11. Wrong = {}
  <2>1. Wrong \in SUBSET (SUBSET (1..n))
    OBVIOUS
  <2> HIDE DEF Wrong
  <2> QED BY <1>1, <1>10, <2>1, SmallestSet
<1>12. iter[DOMAIN s] = g[DOMAIN s] /\ g[DOMAIN s] \in Int
  BY <1>1, <1>9, <1>11 DEF Sums
<1>13. SumOf(s, DOMAIN s) = g[DOMAIN s]
  BY <1>2, <1>9, SumOfPart
<1> QED BY <1>2, <1>3, <1>12, <1>13

(* u times f and v times h together.                                       *)
Combined(u, f, v, h, S) == [x \in S |-> u * f[x] + v * h[x]]

(* The sum of what is added and multiplied.                                *)
LEMMA SumLinear ==
  ASSUME NEW S, NEW f, NEW h, NEW u \in Int, NEW v \in Int, Numeric(f, S), Numeric(h, S)
  PROVE  /\ Numeric(Combined(u, f, v, h, S), S)
         /\ SumOf(Combined(u, f, v, h, S), S) = u * SumOf(f, S) + v * SumOf(h, S)
<1> DEFINE w == Combined(u, f, v, h, S)
<1>0. \A x \in S : w[x] = u * f[x] + v * h[x]
  BY DEF Combined
<1> HIDE DEF w
<1>1. Numeric(w, S)
  BY <1>0 DEF Numeric
<1> DEFINE Wrong == {Q \in SUBSET S : SumOf(w, Q) # u * SumOf(f, Q) + v * SumOf(h, Q)}
<1>2. \A Q \in SUBSET S : Numeric(f, Q) /\ Numeric(h, Q) /\ Numeric(w, Q)
  BY <1>1, FS_Subset DEF Numeric
<1>3. ASSUME NEW Q \in SUBSET S, \A y \in Q : Q \ {y} \notin Wrong
      PROVE  Q \notin Wrong
  <2>1. CASE Q = {}
    <3>1. SumOf(f, Q) = 0 /\ SumOf(h, Q) = 0 /\ SumOf(w, Q) = 0
      BY <2>1, <1>2, SumIs
    <3> QED BY <3>1
  <2>2. CASE Q # {}
    <3>1. PICK x \in Q : TRUE
      BY <2>2
    <3> DEFINE R == Q \ {x}
    <3>2. /\ SumOf(w, Q) = w[x] + SumOf(w, R)
          /\ SumOf(f, Q) = f[x] + SumOf(f, R)
          /\ SumOf(h, Q) = h[x] + SumOf(h, R)
      BY <1>2, <3>1, SumIs
    <3>3. SumOf(w, R) = u * SumOf(f, R) + v * SumOf(h, R)
      BY <1>3, <3>1
    <3>4. f[x] \in Int /\ h[x] \in Int /\ SumOf(f, R) \in Int /\ SumOf(h, R) \in Int
      BY <1>2, <3>1, SumIs DEF Numeric
    <3>5. w[x] = u * f[x] + v * h[x]
      BY <1>0, <3>1
    <3> HIDE DEF R
    <3>6. \A a, b, c, d \in Int : (u * a + v * b) + (u * c + v * d) = u * (a + c) + v * (b + d)
      OBVIOUS
    <3>7. SumOf(w, Q) = u * SumOf(f, Q) + v * SumOf(h, Q)
      BY <3>2, <3>3, <3>4, <3>5, <3>6
    <3> QED BY <3>7
  <2> QED BY <2>1, <2>2
<1>4. Wrong = {}
  <2>1. Wrong \in SUBSET (SUBSET S) /\ IsFiniteSet(S)
    BY DEF Numeric
  <2> HIDE DEF Wrong
  <2> QED BY <1>3, <2>1, SmallestSet
<1> QED BY <1>1, <1>4 DEF w

(* Small values sum to little.                                             *)
LEMMA SumBounded ==
  ASSUME NEW S, NEW f, NEW b \in Nat, Numeric(f, S), \A x \in S : -b <= f[x] /\ f[x] <= b
  PROVE  -(b * Cardinality(S)) <= SumOf(f, S) /\ SumOf(f, S) <= b * Cardinality(S)
<1> DEFINE Held(Q) == -(b * Cardinality(Q)) <= SumOf(f, Q) /\ SumOf(f, Q) <= b * Cardinality(Q)
           Wrong == {Q \in SUBSET S : ~Held(Q)}
<1>1. \A Q \in SUBSET S : Numeric(f, Q)
  BY FS_Subset DEF Numeric
<1>2. ASSUME NEW Q \in SUBSET S, \A y \in Q : Q \ {y} \notin Wrong
      PROVE  Q \notin Wrong
  <2>1. CASE Q = {}
    <3>1. SumOf(f, Q) = 0 /\ Cardinality(Q) = 0
      BY <2>1, <1>1, SumIs, FS_EmptySet
    <3> QED BY <3>1
  <2>2. CASE Q # {}
    <3>1. PICK x \in Q : TRUE
      BY <2>2
    <3>2. SumOf(f, Q) = f[x] + SumOf(f, Q \ {x}) /\ SumOf(f, Q \ {x}) \in Int /\ f[x] \in Int
      BY <1>1, <3>1, SumIs DEF Numeric
    <3>3. Held(Q \ {x})
      BY <1>2, <3>1
    <3>4. Cardinality(Q \ {x}) = Cardinality(Q) - 1 /\ Cardinality(Q) \in Nat
      <4>1. IsFiniteSet(Q)
        BY <1>1 DEF Numeric
      <4> QED BY <3>1, <4>1, FS_RemoveElement, FS_CardinalityType
    <3>5. \A m \in Nat : b * m = b + b * (m - 1) /\ b * m \in Int /\ b * (m - 1) \in Int
      OBVIOUS
    <3>6. b * Cardinality(Q) = b + b * Cardinality(Q \ {x}) /\ b * Cardinality(Q \ {x}) \in Int
      BY <3>4, <3>5
    <3>7. -b <= f[x] /\ f[x] <= b
      BY <3>1
    <3> QED BY <3>2, <3>3, <3>6, <3>7
  <2> QED BY <2>1, <2>2
<1>3. Wrong = {}
  <2>1. Wrong \in SUBSET (SUBSET S) /\ IsFiniteSet(S)
    BY DEF Numeric
  <2> HIDE DEF Wrong
  <2> QED BY <1>2, <2>1, SmallestSet
<1> QED BY <1>3

-----------------------------------------------------------------------------
(* What was charged for an order, shared out.                              *)

(* The quotient of a division is the last multiple not above the number.   *)
LEMMA DivIs ==
  \A m \in Int, d \in Nat \ {0} : /\ m \div d \in Int
                                  /\ d * (m \div d) <= m /\ m < d * (m \div d) + d
OBVIOUS
(* A rounded ratio is off by half of the divisor at most.                  *)
LEMMA RoundingIs ==
  ASSUME NEW a \in Int, NEW b \in Int \ {0}
  PROVE  /\ HalfUp(a, b) \in Int
         /\ -Abs(b) <= 2 * (b * HalfUp(a, b)) - 2 * a
         /\ 2 * (b * HalfUp(a, b)) - 2 * a <= Abs(b)
<1> DEFINE c == Abs(b)
           m == 2 * Abs(a) + c
           q == m \div (2 * c)
<1>1. c \in Nat \ {0} /\ Abs(a) \in Nat /\ m \in Nat /\ 2 * c \in Nat \ {0}
  BY DEF Abs
<1>2. q \in Int /\ (2 * c) * q <= m /\ m < (2 * c) * q + 2 * c
  <2> DEFINE d == 2 * c
  <2>1. d \in Nat \ {0} /\ m \in Int /\ q = m \div d
    BY <1>1
  <2> HIDE DEF c, m, d, q
  <2>2. q \in Int /\ d * q <= m /\ m < d * q + d
    BY <2>1, DivIs
  <2> QED BY <2>2 DEF d
<1>3. HalfUp(a, b) = IF (a < 0) = (b < 0) THEN q ELSE -q
  BY DEF HalfUp
<1> HIDE DEF q
<1>4. HalfUp(a, b) \in Int
  BY <1>2, <1>3
<1> DEFINE p == c * q
<1>5. p \in Int /\ 2 * p <= m /\ m < 2 * p + 2 * c
  <2> HIDE DEF c, m
  <2>1. p \in Int /\ (2 * c) * q = 2 * p
    BY <1>1, <1>2
  <2> QED BY <1>1, <1>2, <2>1
<1>6. b * HalfUp(a, b) = IF a < 0 THEN -p ELSE p
  <2>1. CASE b < 0 /\ a < 0
    <3>1. c = -b /\ HalfUp(a, b) = q
      BY <1>3, <2>1 DEF Abs
    <3>2. b * q = -(c * q)
      BY <1>2, <3>1
    <3> QED BY <2>1, <3>1, <3>2
  <2>2. CASE ~(b < 0) /\ a < 0
    <3>1. c = b /\ HalfUp(a, b) = -q
      BY <1>3, <2>2 DEF Abs
    <3>2. b * (-q) = -(c * q)
      BY <1>2, <3>1
    <3> QED BY <2>2, <3>1, <3>2
  <2>3. CASE b < 0 /\ ~(a < 0)
    <3>1. c = -b /\ HalfUp(a, b) = -q
      BY <1>3, <2>3 DEF Abs
    <3>2. b * (-q) = c * q
      BY <1>2, <3>1
    <3> QED BY <2>3, <3>1, <3>2
  <2>4. CASE ~(b < 0) /\ ~(a < 0)
    <3>1. c = b /\ HalfUp(a, b) = q
      BY <1>3, <2>4 DEF Abs
    <3> QED BY <2>4, <3>1
  <2> QED BY <2>1, <2>2, <2>3, <2>4
<1> HIDE DEF p
<1>7. CASE a < 0
  <2>1. m = c - 2 * a /\ b * HalfUp(a, b) = -p
    BY <1>6, <1>7 DEF Abs
  <2> HIDE DEF c, m
  <2>2. 2 * (b * HalfUp(a, b)) - 2 * a = -2 * p - 2 * a
    BY <1>5, <2>1
  <2>3. -c <= -2 * p - 2 * a /\ -2 * p - 2 * a <= c
    BY <1>1, <1>5, <2>1
  <2>4. -c <= 2 * (b * HalfUp(a, b)) - 2 * a /\ 2 * (b * HalfUp(a, b)) - 2 * a <= c
    BY <2>2, <2>3
  <2> QED BY <1>4, <2>4 DEF c
<1>8. CASE ~(a < 0)
  <2>1. m = c + 2 * a /\ b * HalfUp(a, b) = p
    BY <1>6, <1>8 DEF Abs
  <2> HIDE DEF c, m
  <2>2. 2 * (b * HalfUp(a, b)) - 2 * a = 2 * p - 2 * a
    BY <1>5, <2>1
  <2>3. -c <= 2 * p - 2 * a /\ 2 * p - 2 * a <= c
    BY <1>1, <1>5, <2>1
  <2>4. -c <= 2 * (b * HalfUp(a, b)) - 2 * a /\ 2 * (b * HalfUp(a, b)) - 2 * a <= c
    BY <2>2, <2>3
  <2> QED BY <1>4, <2>4 DEF c
<1> QED BY <1>7, <1>8

(* What the lines at some places cost together.                            *)
CostAt(list, at) == MapThenSumSet(LAMBDA k : Amount(list[k]), at)

(* What the entries at some places sum to.                                 *)
EntriesAt(s, at) == MapThenSumSet(LAMBDA k : s[k], at)

(* The function by which the costs are folded.                             *)
CostBy(list, at, g) ==
  g = [T \in SUBSET at |->
         IF T = {} THEN 0
         ELSE Amount(list[CHOOSE x \in T : TRUE]) + g[T \ {CHOOSE x \in T : TRUE}]]

(* What each line of a list costs.                                         *)
CostsOf(list) == [k \in DOMAIN list |-> Amount(list[k])]

(* What lines cost together is the sum over their places.                  *)
LEMMA CostIs ==
  ASSUME NEW list, NEW at \in SUBSET DOMAIN list, Numeric(CostsOf(list), at)
  PROVE  CostAt(list, at) = SumOf(CostsOf(list), at)
<1> DEFINE iter == CHOOSE g : CostBy(list, at, g)
           f == CostsOf(list)
<1>1. CostAt(list, at) = iter[at]
  BY DEF CostAt, CostBy, MapThenSumSet, MapThenFoldSet
<1>2. ASSUME NEW g PROVE CostBy(list, at, g) <=> SumsBy(f, at, g)
  <2> DEFINE a(T) == CHOOSE x \in T : TRUE
             p == [T \in SUBSET at |-> IF T = {} THEN 0 ELSE Amount(list[a(T)]) + g[T \ {a(T)}]]
             q == [T \in SUBSET at |-> IF T = {} THEN 0 ELSE f[a(T)] + g[T \ {a(T)}]]
  <2>1. \A T : T # {} => a(T) \in T
    OBVIOUS
  <2>2. (CostBy(list, at, g) <=> g = p) /\ (SumsBy(f, at, g) <=> g = q)
    BY DEF CostBy, SumsBy
  <2> HIDE DEF a
  <2>3. \A T \in SUBSET at : T # {} => f[a(T)] = Amount(list[a(T)])
    BY <2>1 DEF CostsOf
  <2>4. p = q
    BY <2>3
  <2> QED BY <2>2, <2>4
<1>3. \E g : SumsBy(f, at, g)
  BY SumExists
<1>4. CostBy(list, at, iter)
  BY <1>2, <1>3
<1> HIDE DEF iter
<1>5. Sums(f, at, iter)
  BY <1>2, <1>4, SumsAre
<1> QED BY <1>1, <1>5, SumOfPart

(* The sum of some entries of a list is the sum over their places.         *)
LEMMA EntriesAre ==
  ASSUME NEW s, NEW at, Numeric(s, at)
  PROVE  EntriesAt(s, at) = SumOf(s, at)
<1> DEFINE iter == CHOOSE g : SumsBy(s, at, g)
<1>1. EntriesAt(s, at) = iter[at]
  BY DEF EntriesAt, SumsBy, MapThenSumSet, MapThenFoldSet
<1>2. Sums(s, at, iter)
  BY SumExists, SumsAre
<1> HIDE DEF iter
<1> QED BY <1>1, <1>2, SumOfPart

(* A finite set can be listed, each element once.                          *)
LEMMA ListedOnce ==
  ASSUME NEW S, IsFiniteSet(S)
  PROVE  LET list == SetToSeq(S)
         IN /\ list \in Seq(S) /\ Len(list) = Cardinality(S)
            /\ \A x \in S : \E k \in DOMAIN list : list[k] = x
            /\ \A k, j \in DOMAIN list : list[k] = list[j] => k = j
<1> DEFINE n == Cardinality(S)
           Good(f) == f \in [1..n -> S] /\ IsInjective(f)
           list == SetToSeq(S)
<1>1. n \in Nat
  BY FS_CardinalityType
<1>2. \E f : Good(f)
  <2>1. PICK f : f \in Bijection(1..n, S)
    BY FS_CardinalityType DEF ExistsBijection
  <2> QED BY <2>1 DEF Bijection, Injection, Surjection, IsInjective
<1>3. Good(list)
  BY <1>2 DEF SetToSeq
<1> HIDE DEF list
<1>4. DOMAIN list = 1..n /\ list \in Seq(S) /\ Len(list) = n
  BY <1>1, <1>3
<1>5. \A k, j \in DOMAIN list : list[k] = list[j] => k = j
  BY <1>3 DEF IsInjective
<1> DEFINE T == {list[k] : k \in 1..n}
<1>6. list \in Bijection(1..n, T)
  BY <1>3, <1>4, <1>5 DEF Bijection, Injection, Surjection, IsInjective
<1>7. T \in SUBSET S
  BY <1>3
<1>8. Cardinality(T) = n
  <2>2. ExistsBijection(1..n, T)
    BY <1>6 DEF ExistsBijection
  <2> HIDE DEF T
  <2> QED BY <1>1, <2>2, FS_CountingElements
<1>9. T = S
  <2> HIDE DEF T
  <2> QED BY <1>7, <1>8, FS_Subset
<1> QED BY <1>4, <1>5, <1>9 DEF list

(* s shares out charged in proportion to the amounts: every share is       *)
(* rounded, and one of them takes the rest d.                              *)
SharedOut(amounts, charged, s, shares, at, d) ==
  LET raw == SumOf(amounts, DOMAIN amounts)
  IN /\ shares \in Seq(Int) /\ Len(shares) = Len(amounts) /\ at \in DOMAIN amounts /\ d \in Int
     /\ s = [shares EXCEPT ![at] = @ + d]
     /\ \A k \in DOMAIN amounts :
          /\ -Abs(raw) <= 2 * (raw * shares[k]) - 2 * (amounts[k] * charged)
          /\ 2 * (raw * shares[k]) - 2 * (amounts[k] * charged) <= Abs(raw)
     /\ -(Abs(raw) * Len(amounts)) <= 2 * (raw * d) /\ 2 * (raw * d) <= Abs(raw) * Len(amounts)
     /\ s \in Seq(Int) /\ Sum(s) = charged

(* What was charged is shared out: rounded shares, and what rounding       *)
(* leaves goes to one place.                                               *)
LEMMA AllocatedIs ==
  ASSUME NEW amounts \in Seq(Int), NEW charged \in Int, charged # None, Sum(amounts) # 0
  PROVE  \E shares, at, d : SharedOut(amounts, charged, Allocated(amounts, charged), shares, at, d)
<1> DEFINE n == Len(amounts)
           S == DOMAIN amounts
           raw == Sum(amounts)
           shares == [k \in DOMAIN amounts |-> HalfUp(amounts[k] * charged, raw)]
           ranked == {[at |-> k, key |-> <<amounts[k]>>] : k \in DOMAIN amounts}
           at == Best(ranked).at
           d == charged - Sum(shares)
           s == [shares EXCEPT ![at] = @ + charged - Sum(shares)]
           b == Abs(raw)
<1>1. S = 1..n /\ n \in Nat /\ IsFiniteSet(S) /\ Cardinality(S) = n
  <2>1. S = 1..n /\ n \in Nat /\ IsFiniteSet(S)
    BY PlacesOf
  <2>2. \A i, j \in Int : Cardinality(i..j) = IF i > j THEN 0 ELSE j - i + 1
    BY FS_Interval
  <2>3. Cardinality(1..n) = n
    <3>1. 1 \in Int /\ n \in Int
      BY <2>1
    <3>2. Cardinality(1..n) = IF 1 > n THEN 0 ELSE n - 1 + 1
      BY <2>2, <3>1
    <3> QED BY <2>1, <3>2
  <2> QED BY <2>1, <2>3
<1>2. Numeric(amounts, S) /\ raw = SumOf(amounts, S) /\ raw \in Int
  BY ListSum
<1>3. raw # 0 /\ b \in Nat
  BY <1>2 DEF Abs
<1>4. S # {}
  <2> SUFFICES ASSUME S = {} PROVE FALSE
    OBVIOUS
  <2>1. SumOf(amounts, {}) = 0
    BY <1>2, SumIs
  <2> QED BY <1>2, <1>3, <2>1
<1>5. at \in S
  <2>1. IsFiniteSet(ranked)
    <3> DEFINE f == [k \in S |-> [at |-> k, key |-> <<amounts[k]>>]]
    <3>1. ranked = {f[k] : k \in S}
      OBVIOUS
    <3> HIDE DEF f, ranked
    <3> QED BY <1>1, <3>1, ImageIsFinite
  <2>2. ranked # {}
    BY <1>4
  <2>3. \A r \in ranked : r.key \in Keys(1) /\ r.at \in Int /\ r.at \in S
    <3> TAKE r \in ranked
    <3>1. PICK k \in S : r = [at |-> k, key |-> <<amounts[k]>>]
      OBVIOUS
    <3>2. r.at = k /\ r.key = <<amounts[k]>> /\ k \in Int /\ amounts[k] \in Int
      BY <1>1, <3>1
    <3>3. <<amounts[k]>> \in [1..1 -> Int]
      BY <3>2
    <3> QED BY <3>2, <3>3 DEF Keys
  <2> HIDE DEF ranked
  <2>4. \A m \in Nat : (\A r \in ranked : r.key \in Keys(m) /\ r.at \in Int) => Best(ranked) \in ranked
    BY <2>1, <2>2, BestIs
  <2>5. 1 \in Nat
    OBVIOUS
  <2>6. Best(ranked) \in ranked
    BY <2>3, <2>4, <2>5, Zenon
  <2> QED BY <2>3, <2>6
<1> HIDE DEF ranked
<1> HIDE DEF at
<1>6. \A k \in S : /\ shares[k] \in Int
                   /\ -b <= 2 * (raw * shares[k]) - 2 * (amounts[k] * charged)
                   /\ 2 * (raw * shares[k]) - 2 * (amounts[k] * charged) <= b
  <2> TAKE k \in S
  <2> DEFINE p == amounts[k] * charged
  <2>1. p \in Int /\ shares[k] = HalfUp(p, raw)
    OBVIOUS
  <2> HIDE DEF p, raw
  <2>2. /\ HalfUp(p, raw) \in Int
        /\ -Abs(raw) <= 2 * (raw * HalfUp(p, raw)) - 2 * p
        /\ 2 * (raw * HalfUp(p, raw)) - 2 * p <= Abs(raw)
    BY <1>2, <1>3, <2>1, RoundingIs
  <2> QED BY <2>1, <2>2 DEF p
<1>7. shares \in Seq(Int) /\ Len(shares) = n /\ DOMAIN shares = S
  <2>1. shares \in [1..n -> Int]
    BY <1>1, <1>6
  <2> QED BY <1>1, <2>1
<1>8. s = Allocated(amounts, charged)
  BY DEF Allocated, at, ranked
<1> HIDE DEF shares
<1>9. Numeric(shares, S) /\ Sum(shares) = SumOf(shares, S) /\ Sum(shares) \in Int
  BY <1>7, ListSum
<1>10. d \in Int /\ s = [shares EXCEPT ![at] = @ + d]
  <2>1. d \in Int
    BY <1>9
  <2>2. shares[at] + charged - Sum(shares) = shares[at] + d
    BY <1>5, <1>6, <1>9
  <2> QED BY <2>1, <2>2
<1>11. s \in Seq(Int) /\ DOMAIN s = S /\ s[at] = shares[at] + d /\ \A k \in S \ {at} : s[k] = shares[k]
  <2>1. shares \in [1..n -> Int] /\ at \in 1..n /\ shares[at] + d \in Int
    BY <1>1, <1>5, <1>6, <1>7, <1>10
  <2>2. s \in [1..n -> Int] /\ s[at] = shares[at] + d /\ \A k \in S \ {at} : s[k] = shares[k]
    BY <2>1, <1>1, <1>10
  <2> HIDE DEF s
  <2> QED BY <1>1, <2>2
<1> HIDE DEF s
<1>12. Sum(s) = charged
  <2>1. SumOf(s, S) = SumOf(shares, S) + d
    <3> HIDE DEF d
    <3>1. /\ Numeric(shares, S) /\ at \in S /\ d \in Int
          /\ s[at] = shares[at] + d /\ \A k \in S \ {at} : s[k] = shares[k]
      BY <1>5, <1>9, <1>10, <1>11
    <3> HIDE DEF S
    <3> QED BY ONLY <3>1, SumChanged
  <2>2. Sum(s) = SumOf(s, S)
    BY <1>11, ListSum
  <2> QED BY <1>9, <2>1, <2>2
<1> DEFINE e == Combined(2 * raw, shares, -2 * charged, amounts, S)
<1>13. \A k \in S : e[k] = 2 * (raw * shares[k]) - 2 * (amounts[k] * charged)
  <2> TAKE k \in S
  <2> DEFINE x == shares[k]
             y == amounts[k]
  <2>1. x \in Int /\ y \in Int /\ raw \in Int
    BY <1>2, <1>6
  <2>2. e[k] = (2 * raw) * x + (-2 * charged) * y
    BY DEF Combined
  <2> HIDE DEF x, y, raw, e
  <2>3. (2 * raw) * x + (-2 * charged) * y = 2 * (raw * x) - 2 * (y * charged)
    BY ONLY <2>1, charged \in Int
  <2>4. e[k] = 2 * (raw * x) - 2 * (y * charged)
    BY ONLY <2>2, <2>3
  <2> QED BY ONLY <2>4 DEF x, y
<1>14. Numeric(e, S) /\ SumOf(e, S) = (2 * raw) * SumOf(shares, S) + (-2 * charged) * SumOf(amounts, S)
  <2> DEFINE u == 2 * raw
             v == -2 * charged
  <2>1. u \in Int /\ v \in Int /\ Numeric(shares, S) /\ Numeric(amounts, S)
    BY <1>2, <1>9
  <2> HIDE DEF u, v
  <2>2. /\ Numeric(Combined(u, shares, v, amounts, S), S)
        /\ SumOf(Combined(u, shares, v, amounts, S), S) = u * SumOf(shares, S) + v * SumOf(amounts, S)
    BY ONLY <2>1, SumLinear
  <2> QED BY ONLY <2>2 DEF u, v, e
<1>15. SumOf(e, S) = -(2 * (raw * d))
  <2>1. \A x, y, c \in Int : (2 * x) * y + (-2 * c) * x = -(2 * (x * (c - y)))
    OBVIOUS
  <2>2. raw \in Int /\ charged \in Int /\ Sum(shares) \in Int
    BY <1>2, <1>9
  <2> HIDE DEF raw, shares
  <2>3. (2 * raw) * Sum(shares) + (-2 * charged) * raw = -(2 * (raw * (charged - Sum(shares))))
    BY ONLY <2>1, <2>2
  <2> HIDE DEF e, S
  <2> QED BY ONLY <1>2, <1>9, <1>14, <2>3 DEF d
<1> HIDE DEF e
<1>16. -(b * n) <= SumOf(e, S) /\ SumOf(e, S) <= b * n
  <2>1. \A k \in S : -b <= e[k] /\ e[k] <= b
    BY <1>6, <1>13
  <2> HIDE DEF b
  <2> QED BY <1>1, <1>3, <1>14, <2>1, SumBounded
<1> HIDE DEF d
<1>17. -(b * n) <= 2 * (raw * d) /\ 2 * (raw * d) <= b * n
  <2>1. raw * d \in Int /\ b * n \in Int
    BY <1>1, <1>2, <1>3, <1>10
  <2> HIDE DEF b, raw
  <2> QED BY <1>15, <1>16, <2>1
<1>18. SharedOut(amounts, charged, s, shares, at, d)
  BY <1>2, <1>5, <1>6, <1>7, <1>10, <1>11, <1>12, <1>17 DEF SharedOut
<1> QED BY <1>8, <1>18

(* A factor on both sides of a bound cancels.                              *)
LEMMA CancelFactor ==
  ASSUME NEW r \in Int \ {0}, NEW d \in Int, NEW k \in Nat,
         -(Abs(r) * k) <= 2 * (r * d), 2 * (r * d) <= Abs(r) * k
  PROVE  -k <= 2 * d /\ 2 * d <= k
<1>1. \A x, z \in Nat : x > 0 /\ z > 0 => x * z > 0
  OBVIOUS
<1>2. ASSUME NEW x \in Nat \ {0}, NEW y \in Int, -(x * k) <= 2 * (x * y), 2 * (x * y) <= x * k
      PROVE  -k <= 2 * y /\ 2 * y <= k
  <2>1. CASE 2 * y > k
    <3>1. 2 * y - k \in Nat /\ 2 * y - k > 0
      BY <2>1
    <3>2. x * (2 * y - k) > 0
      BY <1>1, <3>1
    <3>3. x * (2 * y - k) = 2 * (x * y) - x * k
      OBVIOUS
    <3>4. x * y \in Int /\ x * k \in Int
      OBVIOUS
    <3> QED BY <1>2, <3>2, <3>3, <3>4
  <2>2. CASE 2 * y < -k
    <3>1. -(2 * y) - k \in Nat /\ -(2 * y) - k > 0
      BY <2>2
    <3>2. x * (-(2 * y) - k) > 0
      BY <1>1, <3>1
    <3>3. x * (-(2 * y) - k) = -(2 * (x * y)) - x * k
      OBVIOUS
    <3>4. x * y \in Int /\ x * k \in Int
      OBVIOUS
    <3> QED BY <1>2, <3>2, <3>3, <3>4
  <2> QED BY <2>1, <2>2
<1>3. CASE r > 0
  <2>1. r \in Nat \ {0} /\ Abs(r) = r
    BY <1>3 DEF Abs
  <2> QED BY <1>2, <2>1
<1>4. CASE r < 0
  <2> DEFINE x == -r
             y == -d
  <2>1. x \in Nat \ {0} /\ y \in Int /\ Abs(r) = x
    BY <1>4 DEF Abs
  <2>2. x * y = r * d
    OBVIOUS
  <2>3. -(x * k) <= 2 * (x * y) /\ 2 * (x * y) <= x * k
    BY <2>1, <2>2
  <2> HIDE DEF x
  <2>4. -k <= 2 * y /\ 2 * y <= k
    BY <1>2, <2>1, <2>3
  <2> QED BY <2>4
<1> QED BY <1>3, <1>4

(* The shares of the lines of a category and the share of the category     *)
(* differ by roundings only.                                               *)
LEMMA CategoryDiffers ==
  ASSUME NEW amounts \in Seq(Int), NEW costs \in Seq(Int), NEW charged \in Int,
         NEW s, NEW shares, NEW at, NEW d, SharedOut(amounts, charged, s, shares, at, d),
         NEW t, NEW parts, NEW on, NEW r, SharedOut(costs, charged, t, parts, on, r),
         Sum(amounts) = Sum(costs), Sum(amounts) # 0,
         NEW T \in SUBSET DOMAIN amounts, NEW c \in DOMAIN costs, costs[c] = SumOf(amounts, T)
  PROVE  Abs(SumOf(s, T) - t[c]) <= Len(amounts) + Len(costs)
<1> DEFINE n == Len(amounts)
           m == Len(costs)
           S == DOMAIN amounts
           raw == SumOf(amounts, S)
           b == Abs(raw)
           e == Combined(2 * raw, shares, -2 * charged, amounts, T)
           cost == costs[c]
           x == SumOf(shares, T)
           y == parts[c]
           da == IF at \in T THEN d ELSE 0
           ra == IF c = on THEN r ELSE 0
<1>1. S = 1..n /\ n \in Nat /\ IsFiniteSet(S) /\ DOMAIN costs = 1..m /\ m \in Nat /\ m >= 1
  BY PlacesOf
<1>2. Numeric(amounts, S) /\ raw = Sum(amounts) /\ raw \in Int /\ raw # 0
  BY ListSum
<1>3. raw = SumOf(costs, DOMAIN costs)
  BY <1>2, ListSum
<1>4. b \in Nat \ {0}
  BY <1>2 DEF Abs
<1>5. IsFiniteSet(T) /\ Cardinality(T) \in Nat /\ Cardinality(T) <= n
  <2>1. \A i, j \in Int : Cardinality(i..j) = IF i > j THEN 0 ELSE j - i + 1
    BY FS_Interval
  <2>2. Cardinality(1..n) = n
    <3>1. 1 \in Int /\ n \in Int
      BY <1>1
    <3>2. Cardinality(1..n) = IF 1 > n THEN 0 ELSE n - 1 + 1
      BY <2>1, <3>1
    <3> QED BY <1>1, <3>2
  <2> QED BY <1>1, <2>2, FS_Subset, FS_CardinalityType
<1>6. /\ shares \in Seq(Int) /\ Len(shares) = n /\ at \in S /\ d \in Int
      /\ s = [shares EXCEPT ![at] = @ + d]
      /\ \A k \in S : /\ -b <= 2 * (raw * shares[k]) - 2 * (amounts[k] * charged)
                      /\ 2 * (raw * shares[k]) - 2 * (amounts[k] * charged) <= b
      /\ -(b * n) <= 2 * (raw * d) /\ 2 * (raw * d) <= b * n
  BY DEF SharedOut
<1>7. /\ parts \in Seq(Int) /\ Len(parts) = m /\ r \in Int
      /\ t = [parts EXCEPT ![on] = @ + r]
      /\ -b <= 2 * (raw * y) - 2 * (cost * charged)
      /\ 2 * (raw * y) - 2 * (cost * charged) <= b
      /\ -(b * m) <= 2 * (raw * r) /\ 2 * (raw * r) <= b * m
  BY <1>3 DEF SharedOut
<1>8. y \in Int /\ t[c] = y + ra /\ ra \in Int
  BY <1>1, <1>7
<1>9. /\ \A k \in S : shares[k] \in Int /\ amounts[k] \in Int
      /\ s[at] = shares[at] + d /\ \A k \in S \ {at} : s[k] = shares[k]
  <2>1. shares \in Seq(Int) /\ Len(shares) = n /\ at \in S /\ s = [shares EXCEPT ![at] = @ + d]
    BY <1>6
  <2>2. DOMAIN shares = S
    BY <1>1, <2>1, PlacesOf
  <2> QED BY <2>1, <2>2
<1>10. Numeric(shares, T) /\ Numeric(amounts, T)
  BY <1>5, <1>9 DEF Numeric
<1>11. x \in Int /\ cost \in Int /\ cost = SumOf(amounts, T)
  BY <1>10, SumIs
<1>12. SumOf(s, T) = x + da
  <2>1. CASE at \in T
    <3>1. \A k \in T \ {at} : s[k] = shares[k]
      BY <1>9
    <3>2. SumOf(s, T) = x + d
      <4>1. d \in Int /\ s[at] = shares[at] + d
        BY <1>6, <1>9
      <4> QED BY ONLY <4>1, <1>10, <2>1, <3>1, SumChanged
    <3> QED BY <2>1, <3>2
  <2>2. CASE at \notin T
    <3>1. \A k \in T : shares[k] = s[k]
      BY <1>9, <2>2
    <3>2. SumOf(shares, T) = SumOf(s, T)
      BY ONLY <1>10, <3>1, SumSame
    <3> QED BY <1>11, <2>2, <3>2
  <2> QED BY <2>1, <2>2
<1>13. Numeric(e, T) /\ SumOf(e, T) = (2 * raw) * x + (-2 * charged) * cost
  <2> DEFINE u == 2 * raw
             v == -2 * charged
  <2>1. u \in Int /\ v \in Int /\ Numeric(shares, T) /\ Numeric(amounts, T)
    BY <1>2, <1>10
  <2> HIDE DEF u, v, cost
  <2>2. /\ Numeric(Combined(u, shares, v, amounts, T), T)
        /\ SumOf(Combined(u, shares, v, amounts, T), T) = u * SumOf(shares, T) + v * SumOf(amounts, T)
    BY ONLY <2>1, SumLinear
  <2>3. SumOf(amounts, T) = cost
    BY <1>11
  <2> QED BY ONLY <2>2, <2>3 DEF u, v, e, x
<1>14. -(b * n) <= SumOf(e, T) /\ SumOf(e, T) <= b * n
  <2>1. \A k \in T : -b <= e[k] /\ e[k] <= b
    <3> TAKE k \in T
    <3>1. k \in S /\ e[k] = (2 * raw) * shares[k] + (-2 * charged) * amounts[k]
      BY DEF Combined
    <3> DEFINE p == shares[k]
               q == amounts[k]
    <3>2. p \in Int /\ q \in Int
      BY <1>9
    <3>3. -b <= 2 * (raw * p) - 2 * (q * charged) /\ 2 * (raw * p) - 2 * (q * charged) <= b
      BY <1>6
    <3>4. e[k] = (2 * raw) * p + (-2 * charged) * q
      BY <3>1
    <3> HIDE DEF p, q, raw, e, b
    <3>5. (2 * raw) * p + (-2 * charged) * q = 2 * (raw * p) - 2 * (q * charged)
      BY ONLY <1>2, <3>2, charged \in Int
    <3> QED BY <3>3, <3>4, <3>5
  <2> HIDE DEF e, b
  <2>2. -(b * Cardinality(T)) <= SumOf(e, T) /\ SumOf(e, T) <= b * Cardinality(T)
    BY <1>4, <1>13, <2>1, SumBounded
  <2>3. b * Cardinality(T) <= b * n /\ b * Cardinality(T) \in Int /\ b * n \in Int
    <3> DEFINE h == Cardinality(T)
    <3>1. h \in Nat /\ h <= n
      BY <1>5
    <3> HIDE DEF h, n
    <3>2. n - h \in Nat /\ b * (n - h) = b * n - b * h /\ b * (n - h) >= 0
      BY <1>1, <1>4, <3>1
    <3>3. b * h \in Int /\ b * n \in Int
      BY <1>1, <1>4, <3>1
    <3> QED BY <3>2, <3>3 DEF h
  <2> QED BY <1>13, <2>2, <2>3, SumIs
<1>15. /\ -(b * n) <= 2 * (raw * da) /\ 2 * (raw * da) <= b * n
       /\ -(b * m) <= 2 * (raw * ra) /\ 2 * (raw * ra) <= b * m
       /\ da \in Int /\ ra \in Int
  <2>1. b * n \in Int /\ b * m \in Int /\ b * n >= 0 /\ b * m >= 0 /\ raw * 0 = 0
    BY <1>1, <1>2, <1>4
  <2>2. /\ -(b * n) <= 2 * (raw * d) /\ 2 * (raw * d) <= b * n /\ d \in Int
        /\ -(b * m) <= 2 * (raw * r) /\ 2 * (raw * r) <= b * m /\ r \in Int
    BY <1>6, <1>7
  <2>3. (da = d \/ da = 0) /\ (ra = r \/ ra = 0)
    OBVIOUS
  <2> HIDE DEF raw, b, n, m, da, ra
  <2>4. -(b * n) <= 2 * (raw * da) /\ 2 * (raw * da) <= b * n /\ da \in Int
    BY ONLY <2>1, <2>2, <2>3
  <2>5. -(b * m) <= 2 * (raw * ra) /\ 2 * (raw * ra) <= b * m /\ ra \in Int
    BY ONLY <2>1, <2>2, <2>3
  <2> QED BY <2>4, <2>5
<1> HIDE DEF raw, b, n, m, e, x, y, cost, da, ra, S
<1> DEFINE z == (x + da) - (y + ra)
<1>16. z \in Int
  BY <1>8, <1>11, <1>15
<1>17. 2 * (raw * z) = SumOf(e, T) + 2 * (raw * da)
                       - (2 * (raw * y) - 2 * (cost * charged)) - 2 * (raw * ra)
  <2>0. /\ raw \in Int /\ x \in Int /\ y \in Int /\ da \in Int /\ ra \in Int /\ cost \in Int
        /\ charged \in Int
    BY <1>2, <1>8, <1>11, <1>15
  <2>1. SumOf(e, T) = 2 * (raw * x) - 2 * (cost * charged)
    <3>1. (2 * raw) * x + (-2 * charged) * cost = 2 * (raw * x) - 2 * (cost * charged)
      BY ONLY <2>0
    <3> QED BY <1>13, <3>1
  <2> DEFINE px == raw * x
             py == raw * y
             pd == raw * da
             pr == raw * ra
             pc == cost * charged
             pz == raw * z
  <2>2. pz = px + pd - py - pr
    BY ONLY <2>0
  <2>3. px \in Int /\ pd \in Int /\ py \in Int /\ pr \in Int /\ pc \in Int
    BY ONLY <2>0
  <2>4. SumOf(e, T) = 2 * px - 2 * pc
    BY <2>1
  <2> HIDE DEF px, py, pd, pr, pc, pz
  <2>5. 2 * pz = SumOf(e, T) + 2 * pd - (2 * py - 2 * pc) - 2 * pr
    BY ONLY <2>2, <2>3, <2>4
  <2> QED BY <2>5 DEF px, py, pd, pr, pc, pz
<1>18. -(b * (2 * n + m + 1)) <= 2 * (raw * z) /\ 2 * (raw * z) <= b * (2 * n + m + 1)
  <2>1. b * (2 * n + m + 1) = 2 * (b * n) + b * m + b
    BY <1>1, <1>4
  <2>2. b * n \in Int /\ b * m \in Int /\ b \in Int
    BY <1>1, <1>4
  <2>3. /\ 2 * (raw * da) \in Int /\ 2 * (raw * ra) \in Int
        /\ 2 * (raw * y) - 2 * (cost * charged) \in Int
    <3>1. /\ raw \in Int /\ y \in Int /\ da \in Int /\ ra \in Int /\ cost \in Int
          /\ charged \in Int
      BY <1>2, <1>8, <1>11, <1>15
    <3> QED BY ONLY <3>1
  <2>4. SumOf(e, T) \in Int
    BY <1>13, SumIs
  <2>5. -b <= 2 * (raw * y) - 2 * (cost * charged) /\ 2 * (raw * y) - 2 * (cost * charged) <= b
    BY <1>7
  <2> DEFINE bn == b * n
             bm == b * m
             pd == 2 * (raw * da)
             pr == 2 * (raw * ra)
             py == 2 * (raw * y) - 2 * (cost * charged)
             pz == 2 * (raw * z)
             k == b * (2 * n + m + 1)
             w == SumOf(e, T)
  <2>6. k = 2 * bn + bm + b /\ bn \in Int /\ bm \in Int /\ b \in Int
    BY <2>1, <2>2
  <2>7. pd \in Int /\ pr \in Int /\ py \in Int /\ w \in Int /\ pz = w + pd - py - pr
    BY <1>17, <2>3, <2>4
  <2>8. -bn <= w /\ w <= bn /\ -bn <= pd /\ pd <= bn /\ -bm <= pr /\ pr <= bm /\ -b <= py /\ py <= b
    BY <1>14, <1>15, <2>5
  <2> HIDE DEF bn, bm, pd, pr, py, pz, k, w
  <2>9. -k <= pz /\ pz <= k
    BY ONLY <2>6, <2>7, <2>8
  <2> QED BY <2>9 DEF k, pz
<1>19. -(2 * n + m + 1) <= 2 * z /\ 2 * z <= 2 * n + m + 1
  <2> DEFINE k == 2 * n + m + 1
  <2>1. k \in Nat /\ raw \in Int \ {0} /\ b = Abs(raw)
    BY <1>1, <1>2 DEF b
  <2>2. -(Abs(raw) * k) <= 2 * (raw * z) /\ 2 * (raw * z) <= Abs(raw) * k
    BY <1>18, <2>1
  <2> HIDE DEF k, z
  <2>3. -k <= 2 * z /\ 2 * z <= k
    BY <1>16, <2>1, <2>2, CancelFactor
  <2> QED BY <2>3 DEF k
<1>20. SumOf(s, T) - t[c] = z
  BY <1>8, <1>12
<1>21. Abs(z) <= n + m
  <2> HIDE DEF z
  <2> QED BY <1>1, <1>16, <1>19 DEF Abs
<1> QED BY <1>20, <1>21 DEF n, m

(* An order as it is stored: its lines cost an integer or nothing.         *)
Reportable(order) ==
  /\ order.items \in Seq(ToSet(order.items))
  /\ \A k \in DOMAIN order.items : order.items[k].total \in OrNone(Int)
  /\ order.charged \in OrNone(Int) /\ order.total \in OrNone(Int)

(* The categories of an order's lines.                                     *)
CategoriesOf(order) == {CategoryOf[i.product] : i \in ToSet(order.items)}

(* The two sheets of a report share out what was charged, and agree on     *)
(* every category.                                                         *)
LEMMA SheetsShare ==
  ASSUME NEW order, Reportable(order)
  PROVE  LET categories == SetToSeq(CategoriesOf(order))
         IN SheetsAgree(order, categories, ItemShares(order), CategoryShares(order, categories))
<1> DEFINE items == order.items
           categories == SetToSeq(CategoriesOf(order))
           S == DOMAIN items
           n == Len(items)
           m == Len(categories)
           K == DOMAIN categories
           a == CostsOf(items)
           in(c) == InCategory(items, categories[c])
           b == [c \in K |-> CostAt(items, in(c))]
           charged == ChargedTotal(order)
<1>1. S = 1..n /\ n \in Nat /\ IsFiniteSet(S)
  BY PlacesOf DEF Reportable
<1>2. /\ CategoriesOf(order) = {CategoryOf[items[k].product] : k \in S}
      /\ IsFiniteSet(CategoriesOf(order))
  <2>1. CategoriesOf(order) = {CategoryOf[items[k].product] : k \in S}
    BY DEF CategoriesOf, ToSet
  <2> DEFINE f == [k \in S |-> CategoryOf[items[k].product]]
  <2>2. CategoriesOf(order) = {f[k] : k \in S}
    BY <2>1
  <2> HIDE DEF f
  <2>3. IsFiniteSet({f[k] : k \in S})
    BY <1>1, ImageIsFinite
  <2> QED BY <2>1, <2>2, <2>3
<1>3. /\ categories \in Seq(CategoriesOf(order)) /\ K = 1..m /\ m \in Nat
      /\ \A x \in CategoriesOf(order) : \E k \in K : categories[k] = x
      /\ \A k, j \in K : categories[k] = categories[j] => k = j
  <2>1. /\ categories \in Seq(CategoriesOf(order))
        /\ \A x \in CategoriesOf(order) : \E k \in K : categories[k] = x
        /\ \A k, j \in K : categories[k] = categories[j] => k = j
    BY <1>2, ListedOnce
  <2> HIDE DEF categories
  <2> QED BY <2>1, PlacesOf
<1> HIDE DEF categories
<1>4. a \in Seq(Int) /\ DOMAIN a = S /\ Len(a) = n
  <2>1. \A k \in S : Amount(items[k]) \in Int
    BY DEF Reportable, OrNone, Amount
  <2>2. a \in [1..n -> Int]
    BY <1>1, <2>1 DEF CostsOf
  <2> HIDE DEF a
  <2> QED BY <1>1, <2>2
<1>5. Numeric(a, S) /\ Sum(a) = SumOf(a, S) /\ Sum(a) \in Int
  BY <1>4, ListSum
<1>6. ItemsTotal(items) = Sum(a)
  BY DEF ItemsTotal, CostsOf, Amount
<1>7. \A c \in K : in(c) \in SUBSET S /\ CostAt(items, in(c)) = SumOf(a, in(c)) /\ SumOf(a, in(c)) \in Int
  <2> TAKE c \in K
  <2>1. in(c) \in SUBSET S
    BY DEF InCategory
  <2> HIDE DEF in
  <2>2. Numeric(a, in(c))
    BY <1>5, <2>1, FS_Subset DEF Numeric
  <2>3. SumOf(a, in(c)) \in Int
    BY <2>2, SumIs
  <2> QED BY <2>1, <2>2, <2>3, CostIs
<1>8. b \in Seq(Int) /\ DOMAIN b = K /\ Len(b) = m /\ \A c \in K : b[c] = SumOf(a, in(c))
  <2>1. b \in [1..m -> Int]
    BY <1>3, <1>7
  <2>2. \A c \in K : b[c] = SumOf(a, in(c))
    BY <1>7
  <2> HIDE DEF b
  <2> QED BY <1>3, <2>1, <2>2
<1>9. Sum(b) = Sum(a)
  <2> DEFINE place == [k \in S |-> CHOOSE j \in K : categories[j] = CategoryOf[items[k].product]]
  <2>1. \A k \in S : place[k] \in K /\ categories[place[k]] = CategoryOf[items[k].product]
    <3> TAKE k \in S
    <3>1. CategoryOf[items[k].product] \in CategoriesOf(order)
      BY <1>2
    <3>2. \E j \in K : categories[j] = CategoryOf[items[k].product]
      BY <1>3, <3>1
    <3> QED BY <3>2
  <2>2. \A k : k \in K <=> \E x \in S : k = place[x]
    <3>1. ASSUME NEW c \in K PROVE \E x \in S : c = place[x]
      <4>1. categories[c] \in CategoriesOf(order)
        BY <1>3
      <4>2. PICK x \in S : categories[c] = CategoryOf[items[x].product]
        BY <1>2, <4>1
      <4> HIDE DEF place
      <4> QED BY <1>3, <2>1, <4>2
    <3> HIDE DEF place
    <3> QED BY <2>1, <3>1
  <2> HIDE DEF place
  <2>3. \A c \in K : in(c) = ClassOf(S, place, c)
    BY <1>3, <2>1 DEF InCategory, ClassOf
  <2>4. \A c \in K : b[c] = SumOf(a, ClassOf(S, place, c))
    BY <1>8, <2>3
  <2> HIDE DEF a, b, in, K, S
  <2>5. SumOf(b, K) = SumOf(a, S)
    BY ONLY <1>5, <2>2, <2>4, SumOfClasses
  <2>6. Sum(b) = SumOf(b, K)
    BY <1>8, ListSum
  <2> QED BY <1>5, <2>5, <2>6
<1>10. ItemShares(order) = Allocated(a, charged)
  BY DEF ItemShares, CostsOf
<1>11. CategoryShares(order, categories) = Allocated(b, charged)
  BY DEF CategoryShares, CostAt
<1>12. charged \in OrNone(Int)
  BY DEF ChargedTotal, Reportable
<1> HIDE DEF a, b, charged
<1> DEFINE s == Allocated(a, charged)
           t == Allocated(b, charged)
           Close(c) == Abs(EntriesAt(s, in(c)) - t[c]) <= Len(s) + m
<1>15. (/\ ItemsTotal(items) # 0 /\ charged # None => Sum(s) = charged /\ Sum(t) = charged
        /\ \A c \in K : Close(c))
       => SheetsAgree(order, categories, s, t)
  <2> HIDE DEF s, t
  <2> QED BY DEF SheetsAgree, EntriesAt, charged
<1>13. CASE charged = None \/ Sum(a) = 0
  <2>1. s = a /\ t = b
    BY <1>9, <1>13 DEF Allocated
  <2> HIDE DEF s, t, in
  <2>2. ASSUME NEW c \in K PROVE Close(c)
    <3>1. Numeric(a, in(c))
      BY <1>5, <1>7, FS_Subset DEF Numeric
    <3>2. EntriesAt(s, in(c)) = t[c] /\ t[c] \in Int
      BY <1>7, <1>8, <2>1, <3>1, EntriesAre
    <3>3. \A x \in Int : Abs(x - x) = 0
      BY DEF Abs
    <3>4. Abs(EntriesAt(s, in(c)) - t[c]) = 0
      BY <3>2, <3>3
    <3>5. 0 <= Len(s) + m
      BY <1>1, <1>3, <1>4, <2>1
    <3> QED BY <3>4, <3>5
  <2>3. ~(ItemsTotal(items) # 0 /\ charged # None)
    BY <1>6, <1>13
  <2>4. SheetsAgree(order, categories, ItemShares(order), CategoryShares(order, categories))
    BY <1>15, <2>2, <2>3, <1>10, <1>11 DEF s, t
  <2> QED BY <2>4 DEF categories
<1>14. CASE charged # None /\ Sum(a) # 0
  <2>1. charged \in Int
    BY <1>12, <1>14 DEF OrNone
  <2>2. PICK sh, at, d : SharedOut(a, charged, s, sh, at, d)
    BY <1>4, <1>14, <2>1, AllocatedIs
  <2>3. PICK ps, on, r : SharedOut(b, charged, t, ps, on, r)
    BY <1>8, <1>9, <1>14, <2>1, AllocatedIs
  <2> HIDE DEF s, t, in
  <2>4. Sum(s) = charged /\ Sum(t) = charged /\ s \in Seq(Int) /\ Len(s) = n /\ DOMAIN s = S
    <3>1. Sum(s) = charged /\ Sum(t) = charged /\ s \in Seq(Int)
      BY <2>2, <2>3 DEF SharedOut
    <3>2. sh \in Seq(Int) /\ Len(sh) = n /\ s = [sh EXCEPT ![at] = @ + d]
      BY <1>4, <2>2 DEF SharedOut
    <3>3. DOMAIN sh = S
      BY <1>1, <3>2, PlacesOf
    <3>4. DOMAIN s = S
      BY <3>2, <3>3
    <3>5. Len(s) = n
      BY <1>1, <3>1, <3>4, PlacesOf
    <3> QED BY <3>1, <3>4, <3>5
  <2>5. ASSUME NEW c \in K PROVE Close(c)
    <3>1. in(c) \in SUBSET DOMAIN a /\ c \in DOMAIN b /\ b[c] = SumOf(a, in(c))
      BY <1>4, <1>7, <1>8
    <3>2. Abs(SumOf(s, in(c)) - t[c]) <= Len(a) + Len(b)
      BY <1>4, <1>8, <1>9, <1>14, <2>1, <2>2, <2>3, <3>1, CategoryDiffers
    <3>3. Numeric(s, in(c))
      <4>1. in(c) \in SUBSET S /\ Numeric(s, S)
        BY <1>7, <2>4, ListSum
      <4> QED BY <4>1, FS_Subset DEF Numeric
    <3>4. EntriesAt(s, in(c)) = SumOf(s, in(c))
      BY <3>3, EntriesAre
    <3> QED BY <1>4, <1>8, <2>4, <3>2, <3>4
  <2>6. SheetsAgree(order, categories, ItemShares(order), CategoryShares(order, categories))
    BY <1>15, <2>4, <2>5, <1>6, <1>10, <1>11 DEF s, t
  <2> QED BY <2>6 DEF categories
<1> QED BY <1>13, <1>14 DEF categories

-----------------------------------------------------------------------------
(* The lines of a store's order, cleaned.                                  *)

(* An item of an order: what a card says, or a line that was cleaned.      *)
Items == [product : Products, marked : BOOLEAN, refunded : BOOLEAN, quantity : OrNone(Counts),
          unit : OrNone(Int), total : OrNone(Int), original : OrNone(Nat), weight : OrNone(Nat),
          measured : BOOLEAN, locked : BOOLEAN]

(* Only these fields change.                                               *)
SameCard(x, y) ==
  /\ y.product = x.product /\ y.refunded = x.refunded /\ y.original = x.original
  /\ y.weight = x.weight /\ y.measured = x.measured /\ y.locked = x.locked

(* Another quantity changes nothing else of an item.                       *)
LEMMA CountedIs ==
  ASSUME NEW x \in Items, NEW q \in OrNone(Counts),
         NEW y, y = [x EXCEPT !.quantity = q]
  PROVE  /\ y \in Items /\ SameCard(x, y) /\ y.marked = x.marked
         /\ y.quantity = q /\ y.unit = x.unit /\ y.total = x.total
BY DEF Items, SameCard

(* An item in another quantity, which costs so much.                       *)
Recounted(x, q, t) == [x EXCEPT !.quantity = q, !.total = t]

(* It is the item x in the quantity q at the total t.                      *)
ItemOf(x, q, t, y) ==
  /\ y \in Items /\ SameCard(x, y) /\ y.marked = x.marked
  /\ y.quantity = q /\ y.unit = x.unit /\ y.total = t

(* An item in another quantity keeps its price.                            *)
LEMMA RecountedIs ==
  ASSUME NEW x \in Items, NEW q \in OrNone(Counts), NEW t \in OrNone(Int)
  PROVE  ItemOf(x, q, t, Recounted(x, q, t))
BY DEF Items, SameCard, Recounted, ItemOf

(* An item at another price.                                               *)
Repriced(x, u, t) == [x EXCEPT !.unit = u, !.total = t]

(* An item at another price keeps its quantity.                            *)
LEMMA RepricedIs ==
  ASSUME NEW x \in Items, NEW u \in OrNone(Int), NEW t \in OrNone(Int)
  PROVE  /\ Repriced(x, u, t) \in Items /\ SameCard(x, Repriced(x, u, t))
         /\ Repriced(x, u, t).marked = x.marked
         /\ Repriced(x, u, t).quantity = x.quantity
         /\ Repriced(x, u, t).unit = u /\ Repriced(x, u, t).total = t
BY DEF Items, SameCard, Repriced

(* Price and total may be written in either order.                         *)
LEMMA PricedEitherWay ==
  ASSUME NEW x \in Items, NEW u \in OrNone(Int), NEW t \in OrNone(Int)
  PROVE  [x EXCEPT !.total = t, !.unit = u] = Repriced(x, u, t)
BY DEF Items, Repriced

(* A line before what was paid for it is given back.                       *)
Counted(x, q, t) == [x EXCEPT !.quantity = q, !.total = t, !.marked = FALSE]

(* It is the line x in the quantity q at the total t.                      *)
LineOf(x, q, t, y) ==
  /\ y \in Items /\ SameCard(x, y) /\ y.marked = FALSE
  /\ y.quantity = q /\ y.unit = x.unit /\ y.total = t

(* A line in a quantity at a total is a line of that product.              *)
LEMMA CleanedIs ==
  ASSUME NEW x \in Items, NEW q \in OrNone(Counts), NEW t \in OrNone(Int)
  PROVE  LineOf(x, q, t, Counted(x, q, t))
BY DEF Items, SameCard, Counted, LineOf

(* A rounded ratio is the nearest number.                                  *)
LEMMA RoundedIs ==
  ASSUME NEW a \in Nat, NEW b \in Nat \ {0}
  PROVE  /\ Rounded(a, b) \in Nat
         /\ 2 * (b * Rounded(a, b)) <= 2 * a + b
         /\ 2 * a + b < 2 * (b * Rounded(a, b)) + 2 * b
<1> DEFINE m == 2 * a + b
           d == 2 * b
           q == m \div d
<1>1. m \in Nat /\ d \in Nat \ {0} /\ Rounded(a, b) = q
  BY DEF Rounded
<1>2. q \in Int /\ d * q <= m /\ m < d * q + d
  <2> HIDE DEF m, d
  <2> QED BY <1>1, DivIs
<1> HIDE DEF q, m
<1>3. d * q = 2 * (b * q) /\ b * q \in Int
  BY <1>2
<1>4. q \in Nat
  <2>1. CASE q < 0
    <3>1. \A x, y \in Int : x > 0 /\ y < 0 => x * y <= -x
      OBVIOUS
    <3>2. d * q <= -d
      <4>1. d \in Int /\ d > 0
        BY <1>1
      <4> HIDE DEF d
      <4> QED BY <1>2, <2>1, <3>1, <4>1
    <3> HIDE DEF d
    <3> QED BY <1>1, <1>2, <3>2
  <2> QED BY <1>2, <2>1
<1> QED BY <1>1, <1>2, <1>3, <1>4 DEF m

(* The ratio of a multiple is exact.                                       *)
LEMMA RoundedBack ==
  ASSUME NEW r \in Nat, NEW b \in Nat \ {0}
  PROVE  Rounded(r * b, b) = r
<1> DEFINE a == r * b
           q == Rounded(a, b)
<1>1. a \in Nat /\ a = b * r
  OBVIOUS
<1> HIDE DEF a
<1>2. q \in Nat /\ 2 * (b * q) <= 2 * a + b /\ 2 * a + b < 2 * (b * q) + 2 * b
  BY <1>1, RoundedIs
<1> HIDE DEF q
<1>3. \A x \in Int : x > 0 => b * x >= b
  OBVIOUS
<1>4. b * q \in Int /\ b * r \in Int /\ b * (q - r) = b * q - b * r /\ b * (r - q) = b * r - b * q
  BY <1>2
<1>5. CASE q > r
  <2>1. b * (q - r) >= b
    BY <1>2, <1>3, <1>5
  <2> QED BY <1>1, <1>2, <1>4, <2>1
<1>6. CASE q < r
  <2>1. b * (r - q) >= b
    BY <1>2, <1>3, <1>6
  <2> QED BY <1>1, <1>2, <1>4, <2>1
<1> QED BY <1>2, <1>5, <1>6 DEF q, a

(* What a card says is in prices and counts.                               *)
RawRight(x) == x \in Items /\ x.unit \in OrNone(Prices) /\ x.total \in OrNone(Nat)

(* So many were bought.                                                    *)
Bought(x) == Count(x, 1)

(* A cleaned line that was not refunded: what it costs follows from its    *)
(* quantity.                                                               *)
SaleRight(y) ==
  /\ y.unit \in OrNone(Prices) /\ y.total \in OrNone(Nat)
  /\ ~y.measured /\ None \notin {y.quantity, y.unit}
       => /\ y.total # None /\ y.total >= y.unit
          /\ y.total - y.unit * y.quantity <= 2 /\ y.unit * y.quantity - y.total <= 2

(* A cleaned refund: the amount paid, or nothing that could be paid back.  *)
RefundRight(y) ==
  \/ \E p \in Nat : /\ y.total = -p /\ y.unit = -Rounded(p, Bought(y))
                    /\ y.original \in {None, p}
  \/ y.total \in {None, 0} /\ y.unit = None /\ y.original = None

(* A line that cleaning leaves as it is.                                   *)
CleanRight(y) ==
  /\ y \in Items /\ ~y.marked
  /\ CleanQuantity(y) = y.quantity
  /\ ~y.locked /\ ~y.measured /\ y.quantity # None => y.quantity <= 9
  /\ ~y.refunded => SaleRight(y)
  /\ y.refunded => RefundRight(y)

(* The price and the total of a line tell a larger quantity than it has.   *)
Telling(x) ==
  /\ None \notin {x.unit, x.total} /\ x.unit > 0 /\ x.total # 0
  /\ 25 * Abs(x.total - Rounded(x.total, x.unit) * x.unit) < 2 * x.unit
  /\ Rounded(x.total, x.unit) > Count(x, 0)

(* At least one is bought.                                                 *)
LEMMA BoughtIs ==
  ASSUME NEW x \in Items
  PROVE  Bought(x) \in Nat \ {0} /\ Max({1, Count(x, 1)}) = Bought(x)
<1>1. Bought(x) \in Nat \ {0}
  BY OrderAssumption DEF Items, Bought, Count, OrNone, Counts
<1>2. \A n \in Nat \ {0} : Max({1, n}) = n
  BY DEF Max
<1> QED BY <1>1, <1>2 DEF Bought

(* The quantity that the arithmetic of a line tells is a number of pieces, *)
(* at most nine where it is not locked.                                    *)
LEMMA CleanQuantityIs ==
  ASSUME NEW x \in Items, x.unit \in OrNone(Prices) => x.total \in OrNone(Nat),
         x.unit \notin OrNone(Prices) => x.unit <= 0
  PROVE  /\ CleanQuantity(x) \in OrNone(Counts)
         /\ ~x.locked /\ ~x.measured /\ CleanQuantity(x) # None => CleanQuantity(x) <= 9
         /\ x.locked \/ x.measured => CleanQuantity(x) = x.quantity
         /\ ~x.locked /\ ~x.measured /\ CleanQuantity(x) = None => x.quantity = None /\ ~Telling(x)
<1>1. None \notin Int
  BY OrderAssumption
<1> DEFINE pieces == Rounded(x.total, x.unit)
           q == IF Telling(x) THEN pieces ELSE x.quantity
<1>2. x.quantity \in OrNone(Counts) /\ Count(x, 0) \in Nat
  BY <1>1 DEF Items, OrNone, Counts, Count
<1>3. ASSUME Telling(x) PROVE pieces \in Counts
  <2>1. x.unit \in Prices /\ x.total \in Nat
    BY <1>1, <1>3 DEF Items, OrNone, Prices, Telling
  <2>2. pieces \in Nat
    <3> DEFINE u == x.unit
               t == x.total
    <3>1. u \in Nat \ {0} /\ t \in Nat
      BY <2>1 DEF Prices
    <3> HIDE DEF u, t
    <3>2. Rounded(t, u) \in Nat
      BY <3>1, RoundedIs
    <3> QED BY <3>2 DEF u, t
  <2>3. pieces > Count(x, 0)
    BY <1>3 DEF Telling
  <2> HIDE DEF pieces
  <2> QED BY <1>2, <2>2, <2>3 DEF Counts
<1>4. q \in OrNone(Counts)
  <2> HIDE DEF pieces
  <2> QED BY <1>2, <1>3 DEF OrNone
<1>5. Count([x EXCEPT !.quantity = q], 0) = IF q = None THEN 0 ELSE q
  <2> HIDE DEF q
  <2>1. [x EXCEPT !.quantity = q].quantity = q
    BY <1>4, CountedIs
  <2> QED BY <2>1 DEF Count
<1>6. CASE x.locked \/ x.measured
  <2>1. CleanQuantity(x) = x.quantity
    BY <1>6 DEF CleanQuantity
  <2> QED BY <1>2, <1>6, <2>1
<1>7. CASE ~(x.locked \/ x.measured)
  <2>1. CleanQuantity(x) = IF q # None /\ Count([x EXCEPT !.quantity = q], 0) > 9 THEN 1 ELSE q
    BY <1>7 DEF CleanQuantity, Telling
  <2>2. q = None => x.quantity = None /\ ~Telling(x)
    <3> HIDE DEF pieces
    <3> QED BY <1>1, <1>3 DEF Counts
  <2> HIDE DEF q
  <2> QED BY <1>1, <1>4, <1>5, <1>7, <2>1, <2>2 DEF OrNone, Counts
<1> QED BY <1>6, <1>7

(* Where nothing tells a larger quantity, the quantity stays.              *)
LEMMA QuantityStays ==
  ASSUME NEW y \in Items, ~y.locked /\ ~y.measured /\ y.quantity # None => y.quantity <= 9,
         ~Telling(y)
  PROVE  CleanQuantity(y) = y.quantity
<1> DEFINE q == y.quantity
<1>1. q \in OrNone(Counts)
  BY DEF Items
<1>2. Count([y EXCEPT !.quantity = q], 0) = IF q = None THEN 0 ELSE q
  <2> HIDE DEF q
  <2>1. [y EXCEPT !.quantity = q].quantity = q
    BY <1>1, CountedIs
  <2> QED BY <2>1 DEF Count
<1>3. CASE y.locked \/ y.measured
  BY <1>3 DEF CleanQuantity
<1>4. CASE ~(y.locked \/ y.measured)
  <2>1. CleanQuantity(y) = IF q # None /\ Count([y EXCEPT !.quantity = q], 0) > 9 THEN 1 ELSE q
    BY <1>4 DEF CleanQuantity, Telling
  <2> HIDE DEF q
  <2>2. q # None => q \in Counts /\ q <= 9
    BY <1>1, <1>4 DEF OrNone, q
  <2> QED BY <1>2, <2>1, <2>2 DEF Counts, q
<1> QED BY <1>3, <1>4

(* What a line costs with the quantity q.                                  *)
CleanTotal(x, q) ==
  IF q = None \/ x.unit = None \/ x.measured THEN x.total
  ELSE IF x.total # None /\ ~(x.total < x.unit \/ Abs(x.total - x.unit * q) > 2) THEN x.total
  ELSE x.unit * q

(* A line is cleaned in steps: its quantity, its total, and the refund.    *)
LEMMA CleanItemIs ==
  ASSUME NEW x
  PROVE  CleanItem(x) = Refund(Counted(x, CleanQuantity(x), CleanTotal(x, CleanQuantity(x))))
<1> DEFINE q == CleanQuantity(x)
           expected == x.unit * q
           priced == q # None /\ x.unit # None /\ ~x.measured
           t == CASE ~priced -> x.total
                  [] priced /\ x.total # None ->
                        IF x.total < x.unit \/ Abs(x.total - expected) > 2 THEN expected ELSE x.total
                  [] OTHER -> expected
<1>1. CleanItem(x) = Refund(Counted(x, q, t))
  BY DEF CleanItem, Counted
<1> HIDE DEF q
<1>2. t = CleanTotal(x, q)
  <2>1. CASE ~priced
    BY <2>1 DEF CleanTotal
  <2>2. CASE priced /\ x.total # None
    BY <2>2 DEF CleanTotal
  <2>3. CASE priced /\ x.total = None
    BY <2>3 DEF CleanTotal
  <2> QED BY <2>1, <2>2, <2>3
<1> HIDE DEF t
<1> QED BY <1>1, <1>2 DEF q

(* What was paid for a line, None if that is not known.                    *)
PaidFor(y) ==
  IF y.original # None THEN y.original
  ELSE IF y.total \notin {None, 0} THEN Abs(y.total)
  ELSE IF y.unit \in {None, 0} THEN None ELSE Abs(y.unit) * Bought(y)

(* A refund is minus what was paid, and anything else stays.               *)
LEMMA RefundIs ==
  ASSUME NEW y \in Items
  PROVE  /\ PaidFor(y) \in OrNone(Nat)
         /\ ~y.refunded \/ PaidFor(y) = None => Refund(y) = y
         /\ y.refunded /\ PaidFor(y) # None =>
              /\ Refund(y) \in Items /\ SameCard(y, Refund(y)) /\ Refund(y).marked = y.marked
              /\ Refund(y).quantity = y.quantity /\ Refund(y).total = -PaidFor(y)
              /\ Refund(y).unit = -Rounded(PaidFor(y), Bought(y))
<1> DEFINE quantity == Max({1, Count(y, 1)})
           paid == CASE y.original # None -> y.original
                     [] y.original = None /\ y.total \notin {None, 0} -> Abs(y.total)
                     [] OTHER -> IF y.unit \in {None, 0} THEN None ELSE Abs(y.unit) * quantity
<1>1. quantity = Bought(y) /\ Bought(y) \in Nat \ {0}
  BY BoughtIs
<1>2. PaidFor(y) \in OrNone(Nat)
  <2>1. \A a \in Int : Abs(a) \in Nat
    BY DEF Abs
  <2>2. \A a, b \in Nat : a * b \in Nat
    OBVIOUS
  <2>3. y.unit # None => y.unit \in Int /\ Abs(y.unit) * Bought(y) \in Nat
    <3>1. y.unit # None => Abs(y.unit) \in Nat
      BY <2>1 DEF Items, OrNone
    <3> QED BY <1>1, <2>2, <3>1 DEF Items, OrNone
  <2> QED BY <2>1, <2>3 DEF PaidFor, Items, OrNone
<1>3. Refund(y) = IF ~y.refunded \/ paid = None THEN y
                  ELSE [y EXCEPT !.total = -paid, !.unit = -Rounded(paid, quantity)]
  BY DEF Refund
<1>4. paid = PaidFor(y)
  <2> HIDE DEF quantity
  <2>1. CASE y.original # None
    BY <2>1 DEF PaidFor
  <2>2. CASE y.original = None /\ y.total \notin {None, 0}
    BY <2>2 DEF PaidFor
  <2>3. CASE y.original = None /\ y.total \in {None, 0}
    BY <1>1, <2>3 DEF PaidFor
  <2> QED BY <2>1, <2>2, <2>3
<1> HIDE DEF paid, quantity
<1>5. CASE ~y.refunded \/ PaidFor(y) = None
  BY <1>2, <1>3, <1>4, <1>5
<1>6. CASE y.refunded /\ PaidFor(y) # None
  <2> DEFINE p == PaidFor(y)
             u == -Rounded(p, Bought(y))
             t == -p
  <2>1. p \in Nat
    BY <1>2, <1>6 DEF OrNone
  <2>2. u \in OrNone(Int) /\ t \in OrNone(Int)
    <3> HIDE DEF p
    <3>1. Rounded(p, Bought(y)) \in Nat
      BY <1>1, <2>1, RoundedIs
    <3> QED BY <2>1, <3>1 DEF OrNone
  <2>3. Refund(y) = [y EXCEPT !.total = t, !.unit = u]
    BY <1>1, <1>3, <1>4, <1>6
  <2> HIDE DEF p, u, t
  <2>4. Refund(y) = Repriced(y, u, t)
    <3>1. [y EXCEPT !.total = t, !.unit = u] = Repriced(y, u, t)
      BY ONLY y \in Items, <2>2, PricedEitherWay
    <3> QED BY ONLY <2>3, <3>1
  <2>5. /\ Refund(y) \in Items /\ SameCard(y, Refund(y)) /\ Refund(y).marked = y.marked
        /\ Refund(y).quantity = y.quantity /\ Refund(y).total = t /\ Refund(y).unit = u
    BY ONLY y \in Items, <2>2, <2>4, RepricedIs
  <2> QED BY <1>2, <1>6, <2>5 DEF p, u, t
<1> QED BY <1>5, <1>6

(* A total within two cents of the price of a quantity tells no larger     *)
(* quantity: here prices must be above two cents.                          *)
LEMMA NothingTold ==
  ASSUME NEW u \in Prices, NEW q \in Counts, NEW t \in Nat, t - u * q <= 2, u * q - t <= 2
  PROVE  ~(25 * Abs(t - Rounded(t, u) * u) < 2 * u /\ Rounded(t, u) > q)
<1> DEFINE p == Rounded(t, u)
<1>1. u \in Nat \ {0} /\ u >= 3 /\ q \in Nat
  BY DEF Prices, Counts
<1>2. p \in Nat /\ 2 * (u * p) <= 2 * t + u
  BY <1>1, RoundedIs
<1> HIDE DEF p
<1> SUFFICES ASSUME 25 * Abs(t - p * u) < 2 * u, p > q PROVE FALSE
  BY DEF p
<1>3. u * p >= u * q + u
  <2>1. p - q >= 1 /\ p - q \in Nat
    BY <1>1, <1>2
  <2>2. \A x \in Nat : x >= 1 => u * x >= u
    BY <1>1
  <2>3. u * (p - q) = u * p - u * q
    BY <1>1, <1>2
  <2>4. u * p \in Int /\ u * q \in Int
    BY <1>1, <1>2
  <2> QED BY <1>1, <2>1, <2>2, <2>3, <2>4
<1> DEFINE a == u * p
           b == u * q
<1>4. a \in Int /\ b \in Int /\ p * u = a
  BY <1>1, <1>2
<1>5. 25 * Abs(t - a) < 2 * u
  BY <1>4
<1>6. a >= b + u /\ 2 * a <= 2 * t + u /\ t - b <= 2
  BY <1>2, <1>3
<1> HIDE DEF a, b
<1>7. a - t >= u - 2 /\ a - t > 0
  BY <1>1, <1>4, <1>6
<1>8. Abs(t - a) = a - t
  BY <1>1, <1>4, <1>7 DEF Abs
<1> QED BY <1>1, <1>4, <1>5, <1>7, <1>8

(* The total of a cleaned line is an integer or missing.                   *)
LEMMA CleanTotalIs ==
  ASSUME NEW x \in Items, NEW q \in OrNone(Counts)
  PROVE  CleanTotal(x, q) \in OrNone(Int)
<1> DEFINE u == x.unit
<1>1. u \in OrNone(Int) /\ x.total \in OrNone(Int)
  BY DEF Items
<1>2. u # None /\ q # None => u * q \in Int
  BY <1>1 DEF OrNone, Counts
<1> QED BY <1>1, <1>2 DEF CleanTotal, OrNone

(* A line of a card, cleaned.                                              *)
LEMMA CleanedRaw ==
  ASSUME NEW x, RawRight(x)
  PROVE  CleanRight(CleanItem(x)) /\ CleanItem(x).product = x.product
<1> DEFINE q == CleanQuantity(x)
           t == CleanTotal(x, q)
           y == Counted(x, q, t)
           z == CleanItem(x)
<1>1. None \notin Int /\ x \in Items /\ x.unit \in OrNone(Prices) /\ x.total \in OrNone(Nat)
  BY OrderAssumption DEF RawRight
<1>2. /\ q \in OrNone(Counts) /\ (~x.locked /\ ~x.measured /\ q # None => q <= 9)
      /\ x.locked \/ x.measured => q = x.quantity
  BY <1>1, CleanQuantityIs
<1>3. z = Refund(y)
  BY CleanItemIs
<1>4. ~x.locked /\ ~x.measured /\ q = None => x.quantity = None /\ ~Telling(x)
  BY <1>1, CleanQuantityIs
<1> HIDE DEF q
<1>5. t \in OrNone(Nat)
  <2>1. x.unit # None /\ q # None => x.unit * q \in Nat
    <3> DEFINE u == x.unit
    <3>1. u # None => u \in Nat
      BY <1>1 DEF OrNone, Prices
    <3> HIDE DEF u
    <3>2. u # None /\ q # None => u * q \in Nat
      BY <1>2, <3>1 DEF OrNone, Counts
    <3> QED BY <3>2 DEF u
  <2> QED BY <1>1, <2>1 DEF CleanTotal, OrNone
<1>6. /\ y \in Items /\ SameCard(x, y) /\ y.marked = FALSE
      /\ y.quantity = q /\ y.unit = x.unit /\ y.total = t
  <2>1. t \in OrNone(Int)
    BY <1>5 DEF OrNone
  <2> HIDE DEF t
  <2>2. x \in Items /\ q \in OrNone(Counts)
    BY <1>1, <1>2
  <2>3. LineOf(x, q, t, y)
    BY ONLY <2>1, <2>2, CleanedIs
  <2> QED BY <2>3 DEF LineOf
<1> HIDE DEF y
<1>7. CASE ~y.refunded
  <2>1. z = y
    BY <1>3, <1>6, <1>7, RefundIs
  <2>2. SaleRight(y)
    <3> DEFINE u == x.unit
               e == u * q
    <3>1. CASE q # None /\ u # None /\ ~x.measured
      <4>1. u \in Nat /\ u > 2 /\ q \in Nat /\ q > 0
        BY <1>1, <1>2, <3>1 DEF OrNone, Prices, Counts
      <4>2. e \in Nat /\ e >= u
        <5>1. \A i, j \in Nat : j > 0 => i * j \in Nat /\ i * j >= i
          OBVIOUS
        <5> HIDE DEF u
        <5> QED BY <4>1, <5>1
      <4>3. t = IF x.total # None /\ ~(x.total < u \/ Abs(x.total - e) > 2) THEN x.total ELSE e
        BY <3>1 DEF CleanTotal
      <4>4. t # None /\ t >= u /\ t - e <= 2 /\ e - t <= 2
        <5> HIDE DEF e, u
        <5> QED BY <1>1, <4>1, <4>2, <4>3 DEF Abs, OrNone
      <4> QED BY <1>1, <1>5, <1>6, <4>4 DEF SaleRight
    <3>2. CASE ~(q # None /\ u # None /\ ~x.measured)
      BY <1>1, <1>5, <1>6, <3>2 DEF SaleRight, SameCard
    <3> QED BY <3>1, <3>2
  <2>3. CleanQuantity(y) = y.quantity
    <3>1. CASE y.locked \/ y.measured
      BY <3>1 DEF CleanQuantity
    <3>2. CASE ~(y.locked \/ y.measured) /\ q = None
      <4>1. t = x.total /\ x.quantity = None
        BY <1>4, <1>6, <3>2 DEF CleanTotal, SameCard
      <4>2. ~Telling(x)
        BY <1>4, <1>6, <3>2 DEF SameCard
      <4>3. Count(x, 0) = Count(y, 0)
        BY <1>6, <3>2, <4>1 DEF Count
      <4>4. y.unit = x.unit /\ y.total = x.total
        BY <1>6, <4>1
      <4>5. ~Telling(y)
        BY <4>2, <4>3, <4>4 DEF Telling
      <4> QED BY <1>6, <3>2, <4>5, QuantityStays
    <3>3. CASE ~(y.locked \/ y.measured) /\ q # None
      <4>1. /\ y.unit # None => y.unit \in Prices
            /\ y.quantity \in Counts /\ Count(y, 0) = y.quantity /\ y.quantity <= 9
        BY <1>1, <1>2, <1>6, <3>3 DEF OrNone, Count, SameCard
      <4>2. y.unit # None => /\ y.total \in Nat /\ y.total - y.unit * y.quantity <= 2
                             /\ y.unit * y.quantity - y.total <= 2
        BY <1>6, <2>2, <3>3 DEF SaleRight, OrNone
      <4>3. y.unit # None => ~(/\ 25 * Abs(y.total - Rounded(y.total, y.unit) * y.unit) < 2 * y.unit
                               /\ Rounded(y.total, y.unit) > y.quantity)
        <5> DEFINE a == y.unit
                   b == y.quantity
                   c == y.total
        <5>1. a # None => a \in Prices /\ b \in Counts /\ c \in Nat /\ c - a * b <= 2 /\ a * b - c <= 2
          BY <4>1, <4>2
        <5> HIDE DEF a, b, c
        <5>2. a # None => ~(25 * Abs(c - Rounded(c, a) * a) < 2 * a /\ Rounded(c, a) > b)
          BY <5>1, NothingTold
        <5> QED BY <5>2 DEF a, b, c
      <4>4. ~Telling(y)
        BY <4>1, <4>3 DEF Telling
      <4> QED BY <1>6, <4>1, <4>4, QuantityStays
    <3> QED BY <3>1, <3>2, <3>3
  <2> QED BY <1>2, <1>6, <1>7, <2>1, <2>2, <2>3 DEF CleanRight, SameCard
<1>8. CASE y.refunded
  <2>1. ~y.locked /\ ~y.measured /\ y.quantity # None => y.quantity <= 9
    BY <1>2, <1>6 DEF SameCard
  <2>2. CASE PaidFor(y) = None
    <3>1. z = y
      BY <1>3, <1>6, <2>2, RefundIs
    <3>2. y.original = None /\ y.total \in {None, 0} /\ y.unit \in {None, 0}
      <4>1. y.unit # None => Abs(y.unit) * Bought(y) \in Int
        <5>1. y.unit # None => Abs(y.unit) \in Int
          BY <1>6 DEF Items, OrNone, Abs
        <5>2. Bought(y) \in Int
          <6>1. y \in Items
            BY <1>6
          <6>2. Bought(y) \in Nat
            BY <6>1, BoughtIs
          <6> QED BY <6>2
        <5>3. \A a, b \in Int : a * b \in Int
          OBVIOUS
        <5> QED BY <5>1, <5>2, <5>3
      <4>2. y.total # None => Abs(y.total) \in Int
        BY <1>6 DEF Items, OrNone, Abs
      <4> QED BY <1>1, <2>2, <4>1, <4>2 DEF PaidFor
    <3>3. y.unit = None
      BY <1>1, <1>6, <3>2 DEF OrNone, Prices
    <3>4. CleanQuantity(y) = y.quantity
      BY <1>6, <2>1, <3>3, QuantityStays DEF Telling
    <3> QED BY <1>6, <1>8, <2>1, <3>1, <3>2, <3>3, <3>4 DEF CleanRight, RefundRight, SameCard
  <2>3. CASE PaidFor(y) # None
    <3> DEFINE p == PaidFor(y)
    <3>1. /\ z \in Items /\ SameCard(y, z) /\ z.marked = y.marked
          /\ z.quantity = y.quantity /\ z.total = -p
          /\ z.unit = -Rounded(p, Bought(y)) /\ p \in OrNone(Nat)
      BY <1>3, <1>6, <1>8, <2>3, RefundIs
    <3>2. p \in Nat /\ Bought(z) = Bought(y) /\ Rounded(p, Bought(z)) \in Nat
      <4>1. p \in Nat /\ Bought(z) = Bought(y)
        BY <2>3, <3>1 DEF OrNone, Bought, Count
      <4> HIDE DEF p
      <4> QED BY <3>1, <4>1, BoughtIs, RoundedIs
    <3>3. z.original \in {None, p}
      BY <3>1 DEF PaidFor, SameCard
    <3>4. RefundRight(z)
      BY <3>1, <3>2, <3>3 DEF RefundRight
    <3>5. z.unit \in Int /\ z.unit <= 0
      BY <3>1, <3>2
    <3>6. CleanQuantity(z) = z.quantity
      <4>1. ~z.locked /\ ~z.measured /\ z.quantity # None => z.quantity <= 9
        BY <2>1, <3>1 DEF SameCard
      <4>2. ~Telling(z)
        BY <3>5 DEF Telling
      <4> HIDE DEF z
      <4> QED BY <3>1, <4>1, <4>2, QuantityStays
    <3>7. CleanRight(z) /\ z.product = x.product
      <4> HIDE DEF z
      <4> QED BY <1>6, <1>8, <2>1, <3>1, <3>4, <3>6 DEF CleanRight, SameCard
    <3> QED BY <3>7
  <2> QED BY <2>2, <2>3
<1> QED BY <1>6, <1>7, <1>8

(* Zero has no sign.                                                       *)
LEMMA MinusZero == -0 = 0
<1>1. \A i \in Int : -i = 0 - i
  OBVIOUS
<1>2. 0 - 0 = 0 /\ 0 \in Int
  OBVIOUS
<1>3. -0 = 0 - 0
  BY ONLY <1>1, <1>2, Zenon
<1> QED BY ONLY <1>2, <1>3, Zenon

(* A line in its own quantity at its own total is itself.                  *)
LEMMA SameLine ==
  ASSUME NEW y \in Items, ~y.marked
  PROVE  Counted(y, y.quantity, y.total) = y
BY DEF Items, Counted

(* What was rounded is near.                                               *)
LEMMA RoundedNear ==
  ASSUME NEW p \in Nat, NEW b \in Nat \ {0}
  PROVE  p - Rounded(p, b) * b <= b /\ Rounded(p, b) * b - p <= b
<1> DEFINE r == Rounded(p, b)
<1>1. r \in Nat /\ 2 * (b * r) <= 2 * p + b /\ 2 * p + b < 2 * (b * r) + 2 * b
  BY RoundedIs
<1> HIDE DEF r
<1>2. r * b = b * r /\ b * r \in Int
  BY <1>1
<1> QED BY <1>1, <1>2 DEF r

(* A refund cleaned again is the refund of what was paid, or of what its   *)
(* rounded price comes to.                                                 *)
LEMMA RefundAgain ==
  ASSUME NEW y \in Items, ~y.marked, y.refunded,
         NEW p \in Nat, y.total = -p, y.unit = -Rounded(p, Bought(y)), y.original \in {None, p},
         NEW t \in {-p, -(Rounded(p, Bought(y)) * Bought(y))},
         NEW c, LineOf(y, y.quantity, t, c)
  PROVE  \E n \in {p, Rounded(p, Bought(y)) * Bought(y)} :
            /\ n \in Nat /\ Refund(c) \in Items /\ SameCard(y, Refund(c)) /\ ~Refund(c).marked
            /\ Refund(c).quantity = y.quantity /\ Refund(c).total = -n
            /\ Refund(c).unit = -Rounded(n, Bought(y)) /\ Refund(c).original \in {None, n}
<1> DEFINE b == Bought(y)
           r == Rounded(p, b)
           z == Refund(c)
<1>1. None \notin Int /\ b \in Nat \ {0} /\ r \in Nat
  <2>1. b \in Nat \ {0}
    BY BoughtIs
  <2> HIDE DEF b
  <2> QED BY OrderAssumption, <2>1, RoundedIs
<1>2. /\ c \in Items /\ SameCard(y, c) /\ c.marked = FALSE
      /\ c.quantity = y.quantity /\ c.unit = -r /\ c.total = t /\ c.refunded
  BY DEF LineOf, SameCard
<1>3. Bought(c) = b
  BY <1>2 DEF Bought, Count
<1>4. /\ PaidFor(c) \in OrNone(Nat)
      /\ PaidFor(c) = None => z = c
      /\ PaidFor(c) # None =>
           /\ z \in Items /\ SameCard(c, z) /\ z.marked = c.marked
           /\ z.quantity = c.quantity /\ z.total = -PaidFor(c)
           /\ z.unit = -Rounded(PaidFor(c), b)
  BY <1>2, <1>3, RefundIs
<1>5. r * b \in Nat /\ Rounded(r * b, b) = r
  <2> HIDE DEF b, r
  <2> QED BY <1>1, RoundedBack
<1> HIDE DEF z, b
<1>6. CASE c.original # None
  <2>1. PaidFor(c) = p
    BY <1>1, <1>2, <1>6 DEF PaidFor, SameCard
  <2> QED BY <1>1, <1>2, <1>4, <1>6, <2>1 DEF SameCard, z, b
<1>7. CASE c.original = None
  <2>1. PICK n \in {p, r * b} : t = -n /\ n \in Nat /\ Rounded(n, b) = r
    BY <1>5 DEF b
  <2>2. CASE n # 0
    <3>1. PaidFor(c) = n
      BY <1>1, <1>2, <1>7, <2>1, <2>2 DEF PaidFor, Abs
    <3>2. /\ z \in Items /\ SameCard(y, z) /\ ~z.marked /\ z.quantity = y.quantity
          /\ z.total = -n /\ z.unit = -Rounded(n, b) /\ z.original \in {None, n}
      BY <1>1, <1>2, <1>4, <1>7, <2>1, <3>1 DEF SameCard
    <3> QED BY <2>1, <3>2 DEF z, b
  <2>3. CASE n = 0
    <3>1. r = 0
      <4>1. Rounded(0 * b, b) = 0 /\ 0 * b = 0
        BY <1>1, RoundedBack
      <4> HIDE DEF r
      <4> QED BY <2>1, <2>3, <4>1
    <3>2. PaidFor(c) = None
      <4>1. c.total = 0 /\ c.unit = 0
        <5> HIDE DEF r
        <5>1. -r = 0 /\ -n = 0
          BY ONLY <2>3, <3>1, MinusZero, Zenon
        <5> QED BY <1>2, <2>1, <5>1
      <4> QED BY ONLY <1>7, <4>1 DEF PaidFor
    <3>3. /\ z \in Items /\ SameCard(y, z) /\ ~z.marked /\ z.quantity = y.quantity
          /\ z.total = -n /\ z.unit = -Rounded(n, b) /\ z.original \in {None, n}
      BY <1>1, <1>2, <1>4, <1>7, <2>1, <3>2 DEF SameCard
    <3> QED BY <2>1, <3>3 DEF z, b
  <2> QED BY <2>2, <2>3
<1> QED BY <1>6, <1>7

(* A line that was cleaned stays one, and is the same line.                *)
LEMMA CleanAgain ==
  ASSUME NEW y, CleanRight(y)
  PROVE  /\ CleanRight(CleanItem(y)) /\ CleanItem(y).product = y.product
         /\ CleansAlike(y, CleanItem(y))
<1> DEFINE q == y.quantity
           t == CleanTotal(y, q)
           c == Counted(y, q, t)
           z == CleanItem(y)
<1>1. None \notin Int /\ y \in Items /\ ~y.marked /\ CleanQuantity(y) = q /\ q \in OrNone(Counts)
  BY OrderAssumption DEF CleanRight, Items
<1>2. z = Refund(c)
  BY <1>1, CleanItemIs
<1>3. t \in OrNone(Int)
  <2> HIDE DEF q
  <2> QED BY <1>1, CleanTotalIs
<1>4. LineOf(y, q, t, c)
  <2> HIDE DEF q, t
  <2> QED BY <1>1, <1>3, CleanedIs
<1>5. t = y.total => c = y
  BY <1>1, SameLine
<1> HIDE DEF z
<1>6. ASSUME z = y PROVE CleansAlike(y, z)
  <2>1. \A a \in Int : Abs(a - a) = 0
    BY DEF Abs
  <2>2. y.total # None => Abs(y.total - y.total) = 0
    BY <1>1, <2>1 DEF Items, OrNone
  <2>3. Count(y, 1) >= 0
    <3>1. Bought(y) \in Nat
      BY <1>1, BoughtIs
    <3> QED BY <3>1 DEF Bought
  <2> QED BY <1>6, <2>2, <2>3 DEF CleansAlike
<1>7. CASE ~y.refunded
  <2>1. SaleRight(y)
    BY <1>7 DEF CleanRight
  <2>2. t = y.total
    <3>1. CASE q = None \/ y.unit = None \/ y.measured
      BY <3>1 DEF CleanTotal
    <3>2. CASE ~(q = None \/ y.unit = None \/ y.measured)
      <4> DEFINE u == y.unit
                 e == u * q
                 a == y.total
      <4>1. a # None /\ a >= u /\ a - e <= 2 /\ e - a <= 2 /\ a \in Nat /\ u \in Int /\ q \in Int
        BY <1>1, <2>1, <3>2 DEF SaleRight, OrNone, Prices, Counts
      <4>2. e \in Int
        <5> HIDE DEF u, q
        <5> QED BY <4>1
      <4>3. ~(a < u \/ Abs(a - e) > 2)
        <5> HIDE DEF a, u, e
        <5> QED BY <4>1, <4>2 DEF Abs
      <4> QED BY <3>2, <4>1, <4>3 DEF CleanTotal
    <3> QED BY <3>1, <3>2
  <2>3. z = y
    BY <1>1, <1>2, <1>5, <1>7, <2>2, RefundIs
  <2> QED BY <1>6, <2>3 DEF z
<1>8. CASE y.refunded
  <2>1. RefundRight(y)
    BY <1>8 DEF CleanRight
  <2>2. CASE y.total \in {None, 0} /\ y.unit = None /\ y.original = None
    <3>1. t = y.total
      BY <2>2 DEF CleanTotal
    <3>2. PaidFor(y) = None
      BY <2>2 DEF PaidFor
    <3>3. z = y
      BY <1>1, <1>2, <1>5, <3>1, <3>2, RefundIs
    <3> QED BY <1>6, <3>3 DEF z
  <2>3. ASSUME NEW p \in Nat, y.total = -p, y.unit = -Rounded(p, Bought(y)), y.original \in {None, p}
        PROVE  CleanRight(z) /\ z.product = y.product /\ CleansAlike(y, z)
    <3> DEFINE b == Bought(y)
               r == Rounded(p, b)
    <3>1. b \in Nat \ {0} /\ r \in Nat /\ b = Count(y, 1)
      <4>1. b \in Nat \ {0} /\ b = Count(y, 1)
        BY <1>1, BoughtIs DEF Bought
      <4> HIDE DEF b
      <4> QED BY <4>1, RoundedIs
    <3>2. t \in {-p, -(r * b)}
      <4>1. q # None => b = q
        BY <3>1 DEF Count
      <4>2. (-r) * b = -(r * b)
        <5> HIDE DEF r, b
        <5> QED BY <3>1
      <4> HIDE DEF b
      <4> QED BY <2>3, <4>1, <4>2 DEF CleanTotal, b
    <3>3. PICK n \in {p, r * b} :
             /\ n \in Nat /\ z \in Items /\ SameCard(y, z) /\ ~z.marked
             /\ z.quantity = q /\ z.total = -n
             /\ z.unit = -Rounded(n, b) /\ z.original \in {None, n}
      BY ONLY <1>1, <1>2, <1>4, <1>8, <2>3, <3>2, RefundAgain
    <3>4. p - r * b <= b /\ r * b - p <= b /\ r * b \in Nat
      <4> HIDE DEF b
      <4>1. p - r * b <= b /\ r * b - p <= b
        BY <3>1, RoundedNear
      <4> HIDE DEF r
      <4> QED BY <3>1, <4>1
    <3>5. Abs(z.total - y.total) <= b
      <4> DEFINE s == r * b
      <4>1. n \in {p, s} /\ p - s <= b /\ s - p <= b /\ s \in Nat /\ z.total = -n /\ y.total = -p
        BY <2>3, <3>3, <3>4
      <4> HIDE DEF s, b
      <4> QED BY <3>1, <4>1 DEF Abs
    <3>6. CleansAlike(y, z)
      BY <3>1, <3>3, <3>5 DEF CleansAlike
    <3>7. Bought(z) = b /\ Rounded(n, b) \in Nat
      <4>1. Bought(z) = b
        BY <3>3 DEF Bought, Count
      <4> HIDE DEF b
      <4> QED BY <3>1, <3>3, <4>1, RoundedIs
    <3>8. RefundRight(z)
      BY <3>3, <3>7 DEF RefundRight
    <3>9. ~z.locked /\ ~z.measured /\ z.quantity # None => z.quantity <= 9
      BY <3>3 DEF SameCard, CleanRight
    <3>10. CleanQuantity(z) = z.quantity
      <4>1. ~Telling(z)
        BY <3>3, <3>7 DEF Telling
      <4> QED BY <3>3, <3>9, <4>1, QuantityStays
    <3>11. CleanRight(z) /\ z.product = y.product
      BY <1>8, <3>3, <3>8, <3>9, <3>10 DEF CleanRight, SameCard
    <3> QED BY <3>6, <3>11
  <2> QED BY <2>1, <2>2, <2>3 DEF RefundRight, z
<1> QED BY <1>7, <1>8 DEF z

(* A finite nonempty set of natural numbers has a greatest one.            *)
LEMMA MostOf ==
  ASSUME NEW S \in SUBSET Nat, IsFiniteSet(S), S # {}
  PROVE  Max(S) \in S /\ \A n \in S : n <= Max(S)
<1>1. PICK m \in S : \A n \in S : n <= m
  BY GreatestNatural
<1>2. m >= m /\ \A n \in S : m >= n
  BY <1>1
<1>3. Max(S) \in S /\ \A n \in S : Max(S) >= n
  BY <1>2 DEF Max
<1> QED BY <1>3

(* Of some values, one is nearest to a target.                             *)
LEMMA NearestIs ==
  ASSUME NEW values \in SUBSET Nat, values # {}, NEW target \in Int
  PROVE  /\ Nearest(values, target) \in values
         /\ \A w \in values : Abs(Nearest(values, target) - target) <= Abs(w - target)
<1> DEFINE Off == {Abs(w - target) : w \in values}
<1>1. Off \in SUBSET Nat /\ Off # {}
  <2>1. \A i \in Int : Abs(i) \in Nat
    BY DEF Abs
  <2>2. \A w \in values : w - target \in Int
    OBVIOUS
  <2> QED BY <2>1, <2>2
<1> HIDE DEF Off
<1>2. PICK m \in Off : \A n \in Off : m <= n
  BY <1>1, LeastNatural
<1>3. \E v \in values : \A w \in values : Abs(v - target) <= Abs(w - target)
  BY <1>2 DEF Off
<1> QED BY <1>3 DEF Nearest

(* The text of the page leaves an item, or gives it a quantity whose price *)
(* is printed within twelve cents.                                         *)
LEMMA RaisedIs ==
  ASSUME NEW x \in Items, x.unit \in Prices,
         NEW quantities \in SUBSET Counts, IsFiniteSet(quantities), NEW printed \in SUBSET Prices
  PROVE  LET y == Raised(x, quantities, printed)
         IN y = x \/ \E q \in Counts, v \in Prices : /\ ItemOf(x, q, v, y)
                                                     /\ Abs(v - x.unit * q) < 12
<1> DEFINE fitting == {q \in quantities : /\ q > Count(x, 1)
                                          /\ \E v \in printed : Within(x.unit * q, v, 12)}
           q == Max(fitting)
           v == Nearest(printed, x.unit * q)
           y == Raised(x, quantities, printed)
<1>1. y = IF fitting = {} THEN x ELSE Recounted(x, q, v)
  BY DEF Raised, Recounted
<1>2. CASE fitting = {}
  BY <1>1, <1>2
<1>3. CASE fitting # {}
  <2>1. fitting \in SUBSET Nat /\ IsFiniteSet(fitting)
    BY FS_Subset DEF Counts
  <2>2. q \in fitting
    <3> HIDE DEF fitting
    <3> QED BY <1>3, <2>1, MostOf
  <2>3. q \in Counts /\ \E w \in printed : Within(x.unit * q, w, 12)
    BY <2>2
  <2> HIDE DEF q
  <2> DEFINE e == x.unit * q
  <2>4. e \in Int /\ printed \in SUBSET Nat
    BY <2>3 DEF Prices, Counts
  <2> HIDE DEF e
  <2>5. PICK w \in printed : Within(e, w, 12)
    BY <2>3 DEF e
  <2>6. /\ Nearest(printed, e) \in printed
        /\ Abs(Nearest(printed, e) - e) <= Abs(w - e)
    BY <2>4, <2>5, NearestIs
  <2>7. Abs(w - e) < 12
    BY <2>4, <2>5 DEF Within, Abs
  <2>8. v \in Prices /\ Abs(v - e) < 12
    <3>1. \A i \in Int : Abs(i) \in Int
      BY DEF Abs
    <3>2. v = Nearest(printed, e)
      BY DEF e
    <3> HIDE DEF v
    <3>3. v \in Prices /\ v \in Int /\ w \in Int /\ v - e \in Int /\ w - e \in Int
      <4>1. v \in printed
        BY <2>6, <3>2
      <4> QED BY <2>4, <2>5, <4>1
    <3> QED BY <2>6, <2>7, <3>1, <3>2, <3>3
  <2> HIDE DEF v
  <2>9. v \in OrNone(Int) /\ q \in OrNone(Counts)
    BY <2>3, <2>8 DEF OrNone, Prices
  <2>10. ItemOf(x, q, v, Recounted(x, q, v))
    BY ONLY x \in Items, <2>9, RecountedIs
  <2>11. y = Recounted(x, q, v)
    BY <1>1, <1>3
  <2> HIDE DEF y
  <2> QED BY <2>3, <2>8, <2>10, <2>11 DEF e, y
<1> QED BY <1>2, <1>3

(* A line of an order as it is stored.                                     *)
StoredRight(x) == x.total \in OrNone(Int) /\ LineAddsUp(x)

(* A cleaned line adds up.                                                 *)
LEMMA CleanAddsUp ==
  ASSUME NEW y, CleanRight(y)
  PROVE  StoredRight(y)
<1>1. None \notin Int /\ y \in Items /\ y.total \in OrNone(Int)
  BY OrderAssumption DEF CleanRight, Items
<1> DEFINE e == y.unit * y.quantity
<1>2. CASE ~y.refunded
  <2>1. CASE ~y.measured /\ None \notin {y.quantity, y.unit}
    <3>1. y.total # None /\ y.total \in Int /\ y.total - e <= 2 /\ e - y.total <= 2
      BY <1>1, <1>2, <2>1 DEF CleanRight, SaleRight, OrNone
    <3>2. e \in Int
      <4>1. y.unit \in Int /\ y.quantity \in Int
        BY <1>1, <2>1 DEF Items, OrNone, Counts
      <4> QED BY <4>1
    <3>3. Abs(y.total - e) <= 12
      <4> HIDE DEF e
      <4> QED BY <3>1, <3>2 DEF Abs
    <3> QED BY <1>1, <1>2, <3>1, <3>3 DEF StoredRight, LineAddsUp
  <2>2. CASE ~(~y.measured /\ None \notin {y.quantity, y.unit})
    BY <1>1, <1>2, <2>2 DEF StoredRight, LineAddsUp
  <2> QED BY <2>1, <2>2
<1>3. CASE y.refunded
  <2>1. RefundRight(y)
    BY <1>3 DEF CleanRight
  <2>2. CASE y.total \in {None, 0} /\ y.unit = None /\ y.original = None
    BY <1>1, <2>2 DEF StoredRight, LineAddsUp
  <2>3. ASSUME NEW p \in Nat, y.total = -p, y.unit = -Rounded(p, Bought(y))
        PROVE  StoredRight(y)
    <3> DEFINE b == Bought(y)
               r == Rounded(p, b)
    <3>1. b \in Nat \ {0}
      BY <1>1, BoughtIs
    <3>2. r \in Nat
      <4> HIDE DEF b
      <4> QED BY <3>1, RoundedIs
    <3>3. p - r * b <= b /\ r * b - p <= b
      <4> HIDE DEF b
      <4> QED BY <3>1, RoundedNear
    <3>4. y.total # None /\ y.total <= 0
      BY <1>1, <2>3
    <3>5. ASSUME y.quantity # None
          PROVE  Abs(y.total - e) <= y.quantity
      <4>1. y.quantity = b
        BY <3>5 DEF Bought, Count
      <4>2. e = -(r * b)
        <5>1. (-r) * b = -(r * b)
          <6> HIDE DEF r, b
          <6> QED BY <3>1, <3>2
        <5> QED BY <2>3, <4>1, <5>1
      <4> DEFINE s == r * b
      <4>3. s \in Int
        <5> HIDE DEF r, b
        <5> QED BY <3>1, <3>2
      <4>4. y.total = -p /\ e = -s /\ p - s <= b /\ s - p <= b
        BY <2>3, <3>3, <4>2
      <4> HIDE DEF s, b, e
      <4> QED BY <3>1, <4>1, <4>3, <4>4 DEF Abs
    <3> QED BY <1>1, <1>3, <3>4, <3>5 DEF StoredRight, LineAddsUp
  <2> QED BY <2>1, <2>2, <2>3 DEF RefundRight
<1> QED BY <1>2, <1>3

(* A line adds up when the text has raised its quantity.                   *)
LEMMA RaisedAddsUp ==
  ASSUME NEW x \in Items, x.unit \in Prices, ~x.refunded, StoredRight(x),
         NEW quantities \in SUBSET Counts, IsFiniteSet(quantities), NEW printed \in SUBSET Prices
  PROVE  LET y == Raised(x, quantities, printed)
         IN y \in Items /\ y.unit \in Prices /\ ~y.refunded /\ StoredRight(y)
<1> DEFINE y == Raised(x, quantities, printed)
<1>1. \/ y = x
      \/ \E q \in Counts, v \in Prices : ItemOf(x, q, v, y) /\ Abs(v - x.unit * q) < 12
  BY RaisedIs
<1> HIDE DEF y
<1>2. ASSUME NEW q \in Counts, NEW v \in Prices, ItemOf(x, q, v, y), Abs(v - x.unit * q) < 12
      PROVE  y \in Items /\ y.unit \in Prices /\ ~y.refunded /\ StoredRight(y)
  <2>1. None \notin Int /\ v \in Int
    BY OrderAssumption DEF Prices
  <2>2. /\ y \in Items /\ y.unit = x.unit /\ y.refunded = x.refunded
        /\ y.quantity = q /\ y.total = v
    BY <1>2 DEF ItemOf, SameCard
  <2> DEFINE d == Abs(v - x.unit * q)
  <2>3. d < 12 /\ d = Abs(y.total - y.unit * y.quantity)
    BY <1>2, <2>2
  <2>4. d \in Int
    <3>1. x.unit * q \in Int
      BY DEF Prices, Counts
    <3> QED BY <2>1, <3>1 DEF Abs
  <2>5. d <= 12
    <3> HIDE DEF d
    <3> QED BY <2>3, <2>4
  <2> HIDE DEF d
  <2>6. LineAddsUp(y)
    BY <2>1, <2>2, <2>3, <2>5 DEF LineAddsUp
  <2> QED BY <2>1, <2>2, <2>6 DEF StoredRight, OrNone
<1> QED BY <1>1, <1>2 DEF y

(* A cleaned line adds up whatever the text around its name adds.          *)
LEMMA FromTextAddsUp ==
  ASSUME NEW x, CleanRight(x), NEW w \in Windows
  PROVE  StoredRight(FromText(x, w))
<1> DEFINE y == FromText(x, w)
           weighs == w.weighed # None /\ Abs(Weighed(w.weighed.unit, w.weighed.weight) - w.weighed.total) <= 25
           heavy == [x EXCEPT !.quantity = None, !.weight = w.weighed.weight, !.measured = TRUE,
                              !.unit = w.weighed.unit, !.total = w.weighed.total]
           once == Raised(x, w.quantities, w.prices)
           twice == Raised(once, 2..9, w.prices)
<1>1. None \notin Int /\ x \in Items /\ StoredRight(x)
  BY CleanAddsUp, OrderAssumption DEF CleanRight
<1>2. CASE x.unit = None \/ x.unit <= 0
  <2>1. y = x
    <3>1. CASE x.unit = None
      BY ONLY <3>1 DEF FromText
    <3>2. CASE x.unit # None /\ x.unit <= 0
      <4>1. x.unit \in Int
        BY <1>1, <3>2 DEF Items, OrNone
      <4>2. ~(x.unit > 0)
        BY <3>2, <4>1
      <4> QED BY ONLY <3>2, <4>2 DEF FromText
    <3> QED BY <1>2, <3>1, <3>2
  <2> QED BY <1>1, <2>1
<1>3. CASE x.unit # None /\ x.unit > 0
  <2>1. x.unit \in Int
    BY <1>1, <1>3 DEF Items, OrNone
  <2>2. ~x.refunded
    <3> SUFFICES ASSUME x.refunded PROVE FALSE
      OBVIOUS
    <3>1. RefundRight(x)
      BY DEF CleanRight
    <3>2. PICK p \in Nat : x.unit = -Rounded(p, Bought(x))
      BY <1>3, <3>1 DEF RefundRight
    <3> DEFINE b == Bought(x)
               r == Rounded(p, b)
    <3>3. b \in Nat \ {0}
      BY <1>1, BoughtIs
    <3>4. r \in Nat
      <4> HIDE DEF b
      <4> QED BY <3>3, RoundedIs
    <3>5. x.unit = -r
      BY <3>2
    <3> HIDE DEF r
    <3> QED BY <1>3, <3>4, <3>5
  <2>3. x.unit \in Prices
    BY <1>3, <2>2 DEF CleanRight, SaleRight, OrNone
  <2>4. ~(x.unit <= 0)
    BY <1>3, <2>1
  <2>5. y = IF weighs THEN heavy ELSE IF x.measured THEN x ELSE twice
    BY <1>3, <2>4 DEF FromText
  <2>6. CASE weighs
    <3>1. y = heavy
      BY <2>5, <2>6
    <3>2. heavy.measured = TRUE /\ heavy.refunded = x.refunded /\ heavy.total = w.weighed.total
      BY <1>1 DEF Items
    <3>3. w.weighed.total \in Prices
      BY <2>6, OrderAssumption
    <3> HIDE DEF heavy, y
    <3> QED BY <2>2, <3>1, <3>2, <3>3 DEF StoredRight, LineAddsUp, OrNone, Prices, y
  <2>7. CASE ~weighs /\ x.measured
    BY <1>1, <2>5, <2>7
  <2>8. CASE ~weighs /\ ~x.measured
    <3>1. w.quantities \in SUBSET Counts /\ IsFiniteSet(w.quantities) /\ w.prices \in SUBSET Prices
      BY OrderAssumption
    <3>2. once \in Items /\ once.unit \in Prices /\ ~once.refunded /\ StoredRight(once)
      BY ONLY <1>1, <2>2, <2>3, <3>1, RaisedAddsUp
    <3>3. 2..9 \in SUBSET Counts /\ IsFiniteSet(2..9)
      <4>1. 2..9 \in SUBSET Counts
        BY DEF Counts
      <4>2. \A a, b \in Int : IsFiniteSet(a..b)
        BY FS_Interval
      <4>3. IsFiniteSet(2..9)
        BY ONLY 2 \in Int, 9 \in Int, <4>2, Zenon
      <4> QED BY <4>1, <4>3
    <3> HIDE DEF once
    <3>4. StoredRight(twice)
      BY ONLY <3>1, <3>2, <3>3, RaisedAddsUp
    <3> QED BY <2>5, <2>8, <3>4
  <2> QED BY <2>6, <2>7, <2>8
<1>4. x.unit = None \/ x.unit <= 0 \/ x.unit > 0
  BY <1>1 DEF Items, OrNone
<1> QED BY <1>2, <1>3, <1>4

-----------------------------------------------------------------------------
(* The cards and fragments of a store's order.                             *)

(* A row that is a card.                                                   *)
Card(row) == row \in OrderRows /\ IsCard(row)

(* What a card says.                                                       *)
LEMMA CardIs ==
  ASSUME NEW card, Card(card)
  PROVE  /\ card.product \in Products /\ card.marked \in BOOLEAN /\ card.refunded \in BOOLEAN
         /\ card.one \in BOOLEAN
         /\ card.quantity \in OrNone(Counts) /\ card.weight \in OrNone(Nat)
         /\ card.each \in OrNone(Prices) /\ card.current \in OrNone(Prices)
         /\ card.original \in OrNone(Prices) /\ card.measure \in OrNone(Prices)
         /\ card.pair # None => card.pair.quantity \in Nat /\ card.pair.total \in Prices
         /\ card.loose \in SUBSET Prices /\ IsFiniteSet(card.loose)
<1>1. card \in {r \in OrderRows : "product" \in DOMAIN r}
  BY DEF Card, IsCard
<1>2. card.product \in Products
  BY <1>1 DEF Products, IsCard
<1>3. /\ {card.each, card.current, card.original, card.measure} \subseteq OrNone(Prices)
      /\ {card.marked, card.refunded, card.one} \subseteq BOOLEAN
      /\ card.quantity \in OrNone(Counts) /\ card.weight \in OrNone(Nat)
      /\ card.pair # None => card.pair.quantity \in Nat /\ card.pair.total \in Prices
      /\ card.loose \subseteq Prices /\ IsFiniteSet(card.loose)
  BY <1>1, OrderAssumption
<1> QED BY <1>2, <1>3

(* Prices and counts are numbers, and a missing value is none.             *)
LEMMA PricesAre == None \notin Int /\ Prices \subseteq Nat /\ Counts \subseteq Nat
BY OrderAssumption DEF Prices, Counts

(* What a card says once its prices are read is right.                     *)
LEMMA AsReadIs ==
  ASSUME NEW card, Card(card), NEW q \in OrNone(Counts), NEW u \in OrNone(Prices),
         NEW t \in OrNone(Nat), NEW o \in OrNone(Nat), NEW m \in BOOLEAN
  PROVE  RawRight(AsRead(card, q, u, t, o, m))
<1> DEFINE w == IF m THEN card.weight ELSE None
           k == card.one \/ ByWeight(card)
<1>1. w \in OrNone(Nat) /\ k \in BOOLEAN
  BY CardIs DEF OrNone, ByWeight
<1>2. card.product \in Products /\ card.marked \in BOOLEAN /\ card.refunded \in BOOLEAN
  BY CardIs
<1>3. AsRead(card, q, u, t, o, m) =
        [product |-> card.product, marked |-> card.marked, refunded |-> card.refunded,
         quantity |-> q, unit |-> u, total |-> t, original |-> o,
         weight |-> w, measured |-> m, locked |-> k]
  BY DEF AsRead
<1>4. u \in OrNone(Int) /\ t \in OrNone(Int)
  BY PricesAre DEF OrNone
<1> DEFINE x == AsRead(card, q, u, t, o, m)
<1>5. x \in Items /\ x.unit = u /\ x.total = t
  <2> HIDE DEF w, k
  <2> QED BY <1>1, <1>2, <1>3, <1>4 DEF Items
<1> QED BY <1>5 DEF RawRight

(* What a weight costs is a number of cents.                               *)
LEMMA WeighedIs ==
  ASSUME NEW price \in Nat, NEW weight \in Nat
  PROVE  Weighed(price, weight) \in Nat
<1> DEFINE a == price * weight
<1>1. a \in Nat
  OBVIOUS
<1> HIDE DEF a
<1>2. Rounded(a, 100) \in Nat
  <2>1. \A b \in Nat \ {0} : Rounded(a, b) \in Nat
    BY <1>1, RoundedIs
  <2>2. 100 \in Nat \ {0}
    OBVIOUS
  <2> QED BY ONLY <2>1, <2>2, Zenon
<1> QED BY <1>2 DEF Weighed, a

(* A card with a current price is read right.                              *)
LEMMA CurrentIs ==
  ASSUME NEW card, Card(card), card.current # None, NEW q \in OrNone(Counts)
  PROVE  RawRight(ReadCurrent(card, q))
<1> DEFINE full == Weighed(card.measure, card.weight)
           o == IF card.weight # None /\ ~Within(full, card.current, 6) THEN full ELSE None
           m == card.weight # None
           fits == Within(card.each * Times(1, q), card.current, 12)
<1>1. /\ card.current \in OrNone(Nat) /\ card.current \in OrNone(Prices)
      /\ card.measure \in OrNone(Prices) /\ card.each \in OrNone(Prices)
      /\ card.weight \in OrNone(Nat) /\ None \in OrNone(Nat) /\ None \in OrNone(Counts)
  BY CardIs, PricesAre DEF OrNone
<1>2. CASE card.measure # None
  <2>1. ReadCurrent(card, q) = AsRead(card, None, card.measure, card.current, o, m)
    BY <1>2 DEF ReadCurrent
  <2>2. card.weight # None => full \in Nat
    BY <1>1, <1>2, WeighedIs, PricesAre DEF OrNone
  <2>3. o \in OrNone(Nat) /\ m \in BOOLEAN
    BY <2>2 DEF OrNone
  <2> HIDE DEF o, m
  <2>4. RawRight(AsRead(card, None, card.measure, card.current, o, m))
    BY <1>1, <2>3, AsReadIs
  <2> QED BY <2>1, <2>4
<1>3. CASE card.measure = None /\ card.each # None /\ q # None /\ fits
  <2>1. ReadCurrent(card, q) = AsRead(card, q, card.each, card.current, None, FALSE)
    BY <1>3 DEF ReadCurrent
  <2> QED BY <1>1, <2>1, AsReadIs
<1>4. CASE card.measure = None /\ ~(card.each # None /\ q # None /\ fits)
  <2>1. ReadCurrent(card, q) = AsRead(card, q, card.current, card.current, None, FALSE)
    BY <1>4 DEF ReadCurrent
  <2> QED BY <1>1, <2>1, AsReadIs
<1> QED BY <1>2, <1>3, <1>4

(* The lowest of some prices is one.                                       *)
LEMMA LeastPrice ==
  ASSUME NEW S \in SUBSET Prices, S # {}
  PROVE  Min(S) \in Prices
<1>1. S \in SUBSET Nat
  BY PricesAre
<1>2. Min(S) \in S
  BY <1>1, LeastOfNaturals
<1> QED BY <1>2

(* The highest of some prices is one.                                      *)
LEMMA MostPrice ==
  ASSUME NEW S \in SUBSET Prices, S # {}, IsFiniteSet(S)
  PROVE  Max(S) \in Prices
<1>1. S \in SUBSET Nat
  BY PricesAre
<1>2. Max(S) \in S
  BY <1>1, MostOf
<1> QED BY <1>2

(* What a quantity costs is a number of cents.                             *)
LEMMA TimesIs ==
  ASSUME NEW price \in Nat, NEW q \in OrNone(Counts)
  PROVE  Times(price, q) \in Nat
<1>1. q # None => q \in Nat
  BY PricesAre DEF OrNone
<1>2. q # None => price * q \in Nat
  BY <1>1
<1> QED BY <1>2 DEF Times

(* The loose amounts of a card.                                            *)
Others(card) == card.loose \cup Known({card.original})
                  \cup (IF card.pair = None THEN {} ELSE {card.pair.total})

(* A price that the loose amounts of a card tell.                          *)
PlainLoose(card, q) ==
  LET top    == Max(Others(card))
      pieces == Rounded(top, card.each)
      priced == IF q = None \/ card.each = None THEN FALSE
                ELSE pieces >= 1 /\ Within(pieces * card.each, top, 8)
  IN CASE card.each # None /\ Others(card) = {} ->
            AsRead(card, q, card.each, card.each, None, FALSE)
       [] card.each # None /\ Others(card) # {} /\ priced ->
            AsRead(card, Max({q, pieces}), card.each, top, None, FALSE)
       [] OTHER -> AsRead(card, q, Min(Others(card)), Times(Min(Others(card)), q), None, FALSE)

(* The loose amounts of a card are finitely many prices.                   *)
LEMMA OthersAre ==
  ASSUME NEW card, Card(card)
  PROVE  /\ Others(card) \in SUBSET Prices /\ IsFiniteSet(Others(card))
         /\ Others(card) \cup Known({card.each, card.measure}) \in SUBSET Prices
         /\ IsFiniteSet(Others(card) \cup Known({card.each, card.measure}))
<1>1. IsFiniteSet({card.original}) /\ IsFiniteSet({card.pair.total}) /\ IsFiniteSet({})
      /\ IsFiniteSet({card.each, card.measure})
  <2>1. {card.each, card.measure} = {card.each} \cup {card.measure}
    OBVIOUS
  <2>2. \A x : IsFiniteSet({x})
    BY FS_Singleton
  <2>3. IsFiniteSet({card.each} \cup {card.measure})
    BY <2>2, FS_Union
  <2> QED BY <2>1, <2>2, <2>3, FS_EmptySet
<1>2. IsFiniteSet(Known({card.original})) /\ IsFiniteSet(Known({card.each, card.measure}))
  BY <1>1, FS_Subset DEF Known
<1> DEFINE a == Known({card.original})
           b == IF card.pair = None THEN {} ELSE {card.pair.total}
           c == Known({card.each, card.measure})
<1>3. a \in SUBSET Prices /\ c \in SUBSET Prices /\ b \in SUBSET Prices
  BY CardIs DEF Known, OrNone
<1>4. IsFiniteSet(b)
  BY <1>1
<1>5. card.loose \in SUBSET Prices /\ IsFiniteSet(card.loose)
  BY CardIs
<1>6. Others(card) = (card.loose \cup a) \cup b
  BY DEF Others
<1> HIDE DEF a, b, c
<1>7. IsFiniteSet(card.loose \cup a)
  BY <1>2, <1>5, FS_Union DEF a
<1>8. IsFiniteSet(Others(card))
  BY <1>4, <1>6, <1>7, FS_Union
<1>9. IsFiniteSet(Others(card) \cup c)
  BY <1>2, <1>8, FS_Union DEF c
<1> QED BY <1>3, <1>5, <1>6, <1>8, <1>9 DEF c

(* A card without a weight is read right from its loose amounts.           *)
LEMMA PlainIs ==
  ASSUME NEW card, Card(card), NEW q \in OrNone(Counts), card.each # None \/ Others(card) # {}
  PROVE  RawRight(PlainLoose(card, q))
<1> DEFINE others == Others(card)
           top == Max(others)
           pieces == Rounded(top, card.each)
           priced == IF q = None \/ card.each = None THEN FALSE
                     ELSE pieces >= 1 /\ Within(pieces * card.each, top, 8)
           least == Min(others)
           x == PlainLoose(card, q)
<1>1. others \in SUBSET Prices /\ IsFiniteSet(others)
  BY OthersAre
<1>2. card.each \in OrNone(Prices) /\ None \in OrNone(Nat) /\ None \in OrNone(Prices)
  BY CardIs DEF OrNone
<1>3. \A p \in Prices : p \in OrNone(Nat) /\ p \in OrNone(Prices) /\ p \in Nat
  BY PricesAre DEF OrNone
<1>4. x = CASE card.each # None /\ others = {} ->
                 AsRead(card, q, card.each, card.each, None, FALSE)
            [] card.each # None /\ others # {} /\ priced ->
                 AsRead(card, Max({q, pieces}), card.each, top, None, FALSE)
            [] OTHER -> AsRead(card, q, least, Times(least, q), None, FALSE)
  BY DEF PlainLoose
<1> HIDE DEF others, x
<1>5. CASE card.each # None /\ others = {}
  <2>1. x = AsRead(card, q, card.each, card.each, None, FALSE)
    BY <1>4, <1>5
  <2>2. card.each \in OrNone(Nat)
    BY <1>2, <1>3, <1>5 DEF OrNone
  <2> QED BY <1>2, <2>1, <2>2, AsReadIs DEF x
<1>6. CASE card.each # None /\ others # {} /\ priced
  <2>1. x = AsRead(card, Max({q, pieces}), card.each, top, None, FALSE)
    BY <1>4, <1>6
  <2>2. top \in Prices
    BY <1>1, <1>6, MostPrice
  <2>3. q \in Counts /\ card.each \in Prices
    BY <1>2, <1>6 DEF OrNone
  <2>4. pieces \in Counts
    <3> HIDE DEF top
    <3>1. top \in Nat /\ card.each \in Nat \ {0}
      BY <2>2, <2>3 DEF Prices
    <3>2. pieces \in Nat
      BY <3>1, RoundedIs
    <3>3. pieces >= 1
      BY <1>6
    <3> HIDE DEF pieces
    <3> QED BY <3>2, <3>3 DEF Counts
  <2> HIDE DEF pieces, top
  <2>5. Max({q, pieces}) \in OrNone(Counts)
    <3>1. {q, pieces} \in SUBSET Nat /\ {q, pieces} = {q} \cup {pieces}
      BY <2>3, <2>4, PricesAre
    <3>2. IsFiniteSet({q, pieces})
      <4>1. IsFiniteSet({q}) /\ IsFiniteSet({pieces})
        BY FS_Singleton
      <4> QED BY <3>1, <4>1, FS_Union
    <3>3. Max({q, pieces}) \in {q, pieces}
      BY <3>1, <3>2, MostOf
    <3> QED BY <2>3, <2>4, <3>3 DEF OrNone
  <2>6. top \in OrNone(Nat) /\ card.each \in OrNone(Prices)
    BY <1>3, <2>2, <2>3
  <2> QED BY <1>2, <2>1, <2>5, <2>6, AsReadIs DEF x
<1>7. CASE ~(card.each # None /\ others = {}) /\ ~(card.each # None /\ others # {} /\ priced)
  <2>1. x = AsRead(card, q, least, Times(least, q), None, FALSE)
    BY <1>4, <1>7
  <2>2. others # {}
    BY <1>7 DEF others
  <2>3. least \in Prices
    BY <1>1, <2>2, LeastPrice
  <2> HIDE DEF least
  <2>4. Times(least, q) \in OrNone(Nat)
    BY <1>3, <2>3, TimesIs DEF OrNone
  <2>5. least \in OrNone(Prices)
    BY <1>3, <2>3
  <2> QED BY <1>2, <2>1, <2>4, <2>5, AsReadIs DEF x
<1> QED BY <1>5, <1>6, <1>7 DEF x

(* A card with loose amounts is read right.                                *)
LEMMA LooseIs ==
  ASSUME NEW card, Card(card), NEW q \in OrNone(Counts)
  PROVE  RawRight(ReadLoose(card, q))
<1> DEFINE all == Others(card) \cup Known({card.each, card.measure})
           full == Weighed(card.measure, card.weight)
           plain == PlainLoose(card, q)
           o == IF Within(Max(all), full, 6) THEN None ELSE Max(all)
           x == ReadLoose(card, q)
<1>1. all \in SUBSET Prices /\ IsFiniteSet(all)
  BY OthersAre
<1>2. x = CASE all = {} -> AsRead(card, q, None, None, None, FALSE)
            [] card.measure # None /\ card.weight # None ->
                   AsRead(card, None, card.measure, full, o, TRUE)
            [] card.measure # None /\ card.weight = None ->
                   AsRead(card, None, card.measure, Max(all), None, FALSE)
            [] OTHER -> IF plain.total = card.original THEN [plain EXCEPT !.total = plain.unit]
                        ELSE plain
  BY DEF ReadLoose, PlainLoose, Others
<1>3. /\ card.measure \in OrNone(Prices) /\ card.each \in OrNone(Prices)
      /\ card.weight \in OrNone(Nat)
      /\ None \in OrNone(Nat) /\ None \in OrNone(Counts) /\ None \in OrNone(Prices)
  BY CardIs DEF OrNone
<1>4. \A p \in Prices : p \in OrNone(Nat) /\ p \in OrNone(Prices) /\ p \in Nat
  BY PricesAre DEF OrNone
<1>5. all # {} => Max(all) \in Prices
  BY <1>1, MostPrice
<1>6. card.measure # None => all # {}
  BY DEF Known
<1>7. all # {} /\ card.measure = None => card.each # None \/ Others(card) # {}
  BY DEF Known
<1> HIDE DEF all, x, plain
<1>8. CASE all = {}
  <2>1. x = AsRead(card, q, None, None, None, FALSE)
    BY <1>2, <1>6, <1>8
  <2> QED BY <1>3, <2>1, AsReadIs DEF x
<1>9. CASE all # {} /\ card.measure # None /\ card.weight # None
  <2>1. x = AsRead(card, None, card.measure, full, o, TRUE)
    BY <1>2, <1>9
  <2>2. full \in OrNone(Nat)
    BY <1>3, <1>4, <1>9, WeighedIs DEF OrNone
  <2>3. o \in OrNone(Nat)
    BY <1>3, <1>4, <1>5, <1>9
  <2> HIDE DEF full, o
  <2> QED BY <1>3, <2>1, <2>2, <2>3, AsReadIs DEF x
<1>10. CASE all # {} /\ card.measure # None /\ card.weight = None
  <2>1. x = AsRead(card, None, card.measure, Max(all), None, FALSE)
    BY <1>2, <1>10
  <2>2. Max(all) \in OrNone(Nat)
    BY <1>4, <1>5, <1>10
  <2> QED BY <1>3, <2>1, <2>2, AsReadIs DEF x
<1>11. CASE all # {} /\ card.measure = None
  <2>1. x = IF plain.total = card.original THEN [plain EXCEPT !.total = plain.unit] ELSE plain
    BY <1>2, <1>11
  <2>2. RawRight(plain)
    BY <1>7, <1>11, PlainIs DEF plain
  <2> DEFINE y == [plain EXCEPT !.total = plain.unit]
  <2>3. RawRight(y)
    <3>1. plain \in Items /\ plain.unit \in OrNone(Prices)
      BY <2>2 DEF RawRight
    <3>2. plain.unit \in OrNone(Nat) /\ plain.unit \in OrNone(Int)
      BY <1>4, <3>1 DEF OrNone
    <3>3. y \in Items /\ y.unit = plain.unit /\ y.total = plain.unit
      BY <3>1, <3>2 DEF Items
    <3> HIDE DEF y
    <3> QED BY <3>1, <3>2, <3>3 DEF RawRight
  <2> QED BY <2>1, <2>2, <2>3 DEF x
<1> QED BY <1>8, <1>9, <1>10, <1>11 DEF x

(* Every card is read right.                                               *)
LEMMA CardRead ==
  ASSUME NEW card, Card(card)
  PROVE  RawRight(ReadCard(card))
<1> DEFINE q == IF card.one THEN 1 ELSE card.quantity
           read == IF card.current # None THEN ReadCurrent(card, q) ELSE ReadLoose(card, q)
           whole == AsRead(card, card.pair.quantity, card.each, card.pair.total, None, FALSE)
           x == ReadCard(card)
<1>1. q \in OrNone(Counts)
  <2>1. 1 \in Counts
    BY DEF Counts
  <2> QED BY <2>1, CardIs DEF OrNone
<1>2. RawRight(read)
  <2> HIDE DEF q
  <2> QED BY <1>1, CurrentIs, LooseIs
<1>3. x = IF Direct(card) THEN [whole EXCEPT !.locked = @ \/ card.pair.quantity = 1]
          ELSE IF /\ read.original = None /\ card.original # None /\ read.total # None
                  /\ card.original > read.total
               THEN [read EXCEPT !.original = card.original] ELSE read
  BY DEF ReadCard
<1> HIDE DEF x, read
<1>4. CASE Direct(card)
  <2>1. /\ card.pair.quantity \in OrNone(Counts) /\ card.each \in OrNone(Prices)
        /\ card.pair.total \in OrNone(Nat) /\ None \in OrNone(Nat)
    <3>1. card.pair # None /\ card.pair.quantity >= 1
      BY <1>4 DEF Direct
    <3>2. card.pair.quantity \in Nat /\ card.pair.total \in Prices /\ card.each \in OrNone(Prices)
      BY <3>1, CardIs
    <3>3. card.pair.quantity \in Counts
      BY <3>1, <3>2 DEF Counts
    <3>4. card.pair.total \in Nat
      BY <3>2, PricesAre
    <3> QED BY <3>2, <3>3, <3>4 DEF OrNone
  <2>2. RawRight(whole)
    BY <2>1, AsReadIs
  <2> HIDE DEF whole
  <2> DEFINE y == [whole EXCEPT !.locked = @ \/ card.pair.quantity = 1]
  <2>3. y \in Items /\ y.unit = whole.unit /\ y.total = whole.total
    BY <2>2 DEF RawRight, Items
  <2>4. x = y
    BY <1>3, <1>4
  <2> HIDE DEF y
  <2> QED BY <2>2, <2>3, <2>4 DEF RawRight, x
<1>5. CASE ~Direct(card)
  <2> DEFINE y == [read EXCEPT !.original = card.original]
  <2>1. card.original \in OrNone(Nat)
    BY CardIs, PricesAre DEF OrNone
  <2>2. y \in Items /\ y.unit = read.unit /\ y.total = read.total
    BY <1>2, <2>1 DEF RawRight, Items
  <2>3. x \in {read, y}
    BY <1>3, <1>5
  <2> HIDE DEF y
  <2> QED BY <1>2, <2>2, <2>3 DEF RawRight, x
<1> QED BY <1>4, <1>5

(* What a fragment shows.                                                  *)
FragmentRight(f) == /\ f.quantity \in OrNone(Counts)
                    /\ f.values \in SUBSET Prices /\ IsFiniteSet(f.values)

(* A row without a name has a quantity and prices.                         *)
LEMMA FragmentIs ==
  ASSUME NEW row \in OrderRows, ~IsCard(row)
  PROVE  FragmentRight(row)
<1>1. row \in {r \in OrderRows : "product" \notin DOMAIN r}
  BY DEF IsCard
<1> QED BY <1>1, OrderAssumption DEF FragmentRight

(* Merging gives a line at a price and in a quantity.                      *)
LEMMA FragmentMergedIs ==
  ASSUME NEW x, RawRight(x), NEW f, FragmentRight(f)
  PROVE  RawRight(Merged(x, f)) /\ Merged(x, f).product = x.product
<1> DEFINE more == f.only /\ f.quantity # None /\ f.quantity > Count(x, 0)
           t == IF x.unit = None THEN x.total ELSE x.unit * f.quantity
           c == IF more THEN Recounted(x, f.quantity, t) ELSE x
           low == Min(f.values)
           cheaper == f.values # {} /\ (c.unit = None \/ low < c.unit)
           y == Merged(x, f)
<1>1. y = IF f.apart THEN x
          ELSE IF cheaper THEN Repriced(c, low, Times(low, c.quantity)) ELSE c
  BY DEF Merged, Recounted, Repriced
<1>2. x \in Items /\ x.unit \in OrNone(Prices) /\ x.total \in OrNone(Nat)
  BY DEF RawRight
<1>3. f.quantity \in OrNone(Counts) /\ f.values \in SUBSET Prices
  BY DEF FragmentRight
<1>4. RawRight(c) /\ c.product = x.product
  <2>1. CASE more
    <3>1. t \in OrNone(Nat)
      <4>1. x.unit # None => x.unit \in Nat
        BY <1>2, PricesAre DEF OrNone
      <4>2. f.quantity \in Nat
        BY <1>3, <2>1, PricesAre DEF OrNone
      <4>3. x.unit # None => x.unit * f.quantity \in Nat
        BY <4>1, <4>2
      <4> QED BY <1>2, <4>3 DEF OrNone
    <3>2. t \in OrNone(Int)
      BY <3>1 DEF OrNone
    <3> DEFINE z == Recounted(x, f.quantity, t)
    <3>3. ItemOf(x, f.quantity, t, z)
      <4> HIDE DEF t
      <4> QED BY ONLY <1>2, <1>3, <3>2, RecountedIs
    <3>4. c = z
      BY <2>1
    <3> HIDE DEF t, z, c
    <3> QED BY <1>2, <3>1, <3>3, <3>4 DEF ItemOf, SameCard, RawRight
  <2>2. CASE ~more
    BY <2>2
  <2> QED BY <2>1, <2>2
<1> HIDE DEF c, y
<1>5. CASE ~f.apart /\ cheaper
  <2>1. low \in Prices
    BY <1>3, <1>5, LeastPrice
  <2> HIDE DEF low
  <2>2. c \in Items /\ c.quantity \in OrNone(Counts)
    BY <1>4 DEF RawRight, Items
  <2> DEFINE s == Times(low, c.quantity)
  <2>3. s \in Nat
    BY <2>1, <2>2, TimesIs, PricesAre
  <2> HIDE DEF s
  <2>4. low \in OrNone(Int) /\ s \in OrNone(Int)
    BY <2>1, <2>3, PricesAre DEF OrNone
  <2>5. y = Repriced(c, low, s)
    BY <1>1, <1>5 DEF low, s
  <2>6. /\ y \in Items /\ SameCard(c, y) /\ y.unit = low /\ y.total = s
    BY ONLY <2>2, <2>4, <2>5, RepricedIs
  <2> QED BY <1>4, <2>1, <2>3, <2>6 DEF RawRight, SameCard, OrNone, y
<1>6. CASE ~(~f.apart /\ cheaper)
  <2>1. y \in {x, c}
    BY <1>1, <1>6
  <2> QED BY <1>4, <2>1 DEF y
<1> QED BY <1>5, <1>6

(* What fragments give to a line.                                          *)
Fitting == [quantity : Counts, total : Nat]

(* A quantity with its total.                                              *)
LEMMA FitIs ==
  ASSUME NEW q \in Counts, NEW t \in Nat
  PROVE  Fit(q, t) \in Fitting /\ Fit(q, t).quantity = q /\ Fit(q, t).total = t
BY DEF Fit, Fitting

(* What a fragment gives to a line is finitely many quantities with        *)
(* totals.                                                                 *)
LEMMA FitsAre ==
  ASSUME NEW f, FragmentRight(f), NEW u \in Prices, NEW tolerance
  PROVE  Fits(f, u, tolerance) \in SUBSET Fitting /\ IsFiniteSet(Fits(f, u, tolerance))
<1>1. f.quantity \in OrNone(Counts) /\ f.values \in SUBSET Prices /\ IsFiniteSet(f.values)
  BY DEF FragmentRight
<1>2. u \in Nat \ {0} /\ Prices \subseteq Nat /\ Counts \subseteq Nat
  BY PricesAre DEF Prices
<1> DEFINE F == Fits(f, u, tolerance)
<1>3. CASE f.quantity # None
  <2> DEFINE q == f.quantity
             e == u * q
             near == Nearest(f.values, e)
             t == IF f.values = {} THEN e ELSE IF Within(near, e, tolerance) THEN near ELSE e
  <2>1. q \in Counts
    BY <1>1, <1>3 DEF OrNone
  <2>2. e \in Nat
    <3>1. q \in Nat /\ u \in Nat
      BY <1>2, <2>1
    <3> HIDE DEF q
    <3> QED BY <3>1
  <2>3. F = {Fit(q, t)}
    BY <1>3 DEF Fits
  <2> HIDE DEF e
  <2>4. t \in Nat
    <3>1. f.values # {} => near \in f.values
      <4>1. f.values \in SUBSET Nat
        BY <1>1, <1>2
      <4>2. e \in Int
        BY <2>2
      <4> QED BY ONLY <4>1, <4>2, NearestIs
    <3> QED BY <1>1, <1>2, <2>2, <3>1
  <2> HIDE DEF t, q, F
  <2>5. Fit(q, t) \in Fitting
    BY <2>1, <2>4, FitIs
  <2>6. IsFiniteSet({Fit(q, t)})
    BY FS_Singleton
  <2> QED BY <2>3, <2>5, <2>6 DEF F
<1>4. CASE f.quantity = None
  <2> DEFINE S == {v \in f.values : /\ Rounded(v, u) >= 1
                                    /\ Within(Rounded(v, u) * u, v, tolerance)}
             g == [v \in S |-> Fit(Rounded(v, u), v)]
  <2>1. F = {Fit(Rounded(v, u), v) : v \in S}
    BY <1>4 DEF Fits
  <2>2. F = {g[v] : v \in S}
    BY <2>1
  <2>3. IsFiniteSet(S)
    BY <1>1, FS_Subset
  <2>4. IsFiniteSet({g[v] : v \in S})
    <3> HIDE DEF S, g
    <3> QED BY <2>3, ImageIsFinite
  <2>5. ASSUME NEW v \in S PROVE Fit(Rounded(v, u), v) \in Fitting
    <3>1. v \in Nat /\ Rounded(v, u) >= 1
      BY <1>1, <1>2
    <3>2. Rounded(v, u) \in Nat
      BY <1>2, <3>1, RoundedIs
    <3>3. Rounded(v, u) \in Counts
      BY <3>1, <3>2 DEF Counts
    <3> QED BY <3>1, <3>3, FitIs
  <2> HIDE DEF S, g, F
  <2> QED BY <2>1, <2>2, <2>4, <2>5 DEF F
<1> QED BY <1>3, <1>4

(* One of them is largest.                                                 *)
LEMMA LargestIs ==
  ASSUME NEW F \in SUBSET Fitting, IsFiniteSet(F), F # {}
  PROVE  Largest(F) \in F
<1> DEFINE g == [a \in F |-> a.quantity]
           Q == {g[a] : a \in F}
<1>1. Q \in SUBSET Nat /\ Q # {}
  BY PricesAre DEF Fitting
<1>2. IsFiniteSet(Q)
  <2> HIDE DEF g
  <2> QED BY ImageIsFinite
<1>3. Q = {a.quantity : a \in F}
  OBVIOUS
<1> HIDE DEF g, Q
<1>4. PICK m \in Q : \A n \in Q : n <= m
  BY <1>1, <1>2, GreatestNatural
<1>5. PICK a \in F : m = a.quantity
  BY <1>3
<1>6. \A b \in F : a.quantity >= b.quantity
  <2>1. \A b \in F : b.quantity \in Q /\ b.quantity \in Nat /\ a.quantity \in Nat
    BY <1>1, <1>3
  <2> QED BY <1>4, <1>5, <2>1
<1> QED BY <1>6 DEF Largest

(* Lines as cards and fragments make them, and fragments that wait for one. *)
RawItems == {x \in Items : RawRight(x)}
(* A fragment that waits: its quantity, its values, and the name above it. *)
Waiting == {f \in [quantity : OrNone(Counts), values : SUBSET Prices,
                   anchor : {None} \cup (BOOLEAN \X Products)] : IsFiniteSet(f.values)}

(* The best of some places is one of them.                                 *)
LEMMA BestOfOne ==
  ASSUME NEW ranked, IsFiniteSet(ranked), ranked # {},
         \A r \in ranked : r.key \in [1..1 -> Int] /\ r.at \in Int
  PROVE  Best(ranked) \in ranked
<1>1. \A r \in ranked : r.key \in Keys(1) /\ r.at \in Int
  BY DEF Keys
<1>2. \A m \in Nat : (\A r \in ranked : r.key \in Keys(m) /\ r.at \in Int) => Best(ranked) \in ranked
  BY BestIs
<1>3. 1 \in Nat
  OBVIOUS
<1> QED BY <1>1, <1>2, <1>3, Zenon

(* Of finitely many entries ranked by two numbers, Best is one.            *)
LEMMA BestOfTwo ==
  ASSUME NEW ranked, IsFiniteSet(ranked), ranked # {},
         \A r \in ranked : r.key \in [1..2 -> Int] /\ r.at \in Int
  PROVE  Best(ranked) \in ranked
<1>1. \A r \in ranked : r.key \in Keys(2) /\ r.at \in Int
  BY DEF Keys
<1>2. \A m \in Nat : (\A r \in ranked : r.key \in Keys(m) /\ r.at \in Int) => Best(ranked) \in ranked
  BY BestIs
<1>3. 2 \in Nat
  OBVIOUS
<1> QED BY <1>1, <1>2, <1>3, Zenon

(* A list without one of its entries.                                      *)
LEMMA Removed ==
  ASSUME NEW S, NEW s \in Seq(S), NEW k \in DOMAIN s
  PROVE  RemoveAt(s, k) \in Seq(S)
<1>1. k \in 1..Len(s) /\ Len(s) \in Nat
  OBVIOUS
<1>2. SubSeq(s, 1, k - 1) \in Seq(S) /\ SubSeq(s, k + 1, Len(s)) \in Seq(S)
  BY <1>1
<1> QED BY <1>2 DEF RemoveAt

(* The fragment a card takes leaves it an item of the same product.        *)
LEMMA ApplyPendingIs ==
  ASSUME NEW x \in RawItems, NEW pending \in Seq(Waiting)
  PROVE  /\ ApplyPending(x, pending).item \in RawItems
         /\ ApplyPending(x, pending).item.product = x.product
         /\ ApplyPending(x, pending).pending \in Seq(Waiting)
<1> DEFINE u == x.unit
           F(k) == Fits(pending[k], u, 12)
           D == {k \in DOMAIN pending : pending[k].anchor \in {None, NameOf(x)} /\ F(k) # {}}
           fits == {[at |-> k, fit |-> Largest(F(k))] : k \in D}
           more == {r \in fits : r.fit.quantity > Count(x, 0)}
           ranked == {[at |-> r.at, fit |-> r.fit, key |-> <<r.fit.quantity>>] : r \in more}
           used == Best(ranked)
           z == Recounted(x, used.fit.quantity, used.fit.total)
           result == ApplyPending(x, pending)
<1>1. result = IF u = None \/ x.locked \/ more = {} THEN [item |-> x, pending |-> pending]
               ELSE [item |-> z, pending |-> RemoveAt(pending, used.at)]
  BY DEF ApplyPending, Recounted
<1>2. x \in Items /\ RawRight(x) /\ u \in OrNone(Prices)
  BY DEF RawItems, RawRight
<1>3. CASE u = None \/ x.locked \/ more = {}
  <2>1. result = [item |-> x, pending |-> pending]
    BY <1>1, <1>3
  <2> HIDE DEF result
  <2> QED BY <2>1 DEF result
<1>4. CASE ~(u = None \/ x.locked \/ more = {})
  <2>1. u \in Prices
    BY <1>2, <1>4 DEF OrNone
  <2> HIDE DEF u
  <2>2. \A k \in DOMAIN pending : F(k) \in SUBSET Fitting /\ IsFiniteSet(F(k))
    <3> TAKE k \in DOMAIN pending
    <3>1. pending[k] \in Waiting
      OBVIOUS
    <3>2. FragmentRight(pending[k])
      BY <3>1 DEF Waiting, FragmentRight
    <3> QED BY <2>1, <3>2, FitsAre
  <2>3. \A k \in D : Largest(F(k)) \in Fitting
    <3> TAKE k \in D
    <3>1. F(k) # {} /\ F(k) \in SUBSET Fitting /\ IsFiniteSet(F(k))
      BY <2>2
    <3> HIDE DEF F
    <3>2. Largest(F(k)) \in F(k)
      BY <3>1, LargestIs
    <3> QED BY <3>1, <3>2
  <2>4. IsFiniteSet(D)
    <3>1. IsFiniteSet(DOMAIN pending)
      BY PlacesOf
    <3>2. D \in SUBSET DOMAIN pending
      OBVIOUS
    <3> HIDE DEF D
    <3> QED BY <3>1, <3>2, FS_Subset
  <2>5. IsFiniteSet(more) /\ \A r \in more : r.at \in D /\ r.fit \in Fitting
    <3> DEFINE g == [k \in D |-> [at |-> k, fit |-> Largest(F(k))]]
    <3>1. fits = {g[k] : k \in D}
      OBVIOUS
    <3>2. \A k \in D : g[k].at = k /\ g[k].fit = Largest(F(k))
      OBVIOUS
    <3> HIDE DEF g, D, F, fits
    <3>3. IsFiniteSet(fits)
      BY <2>4, <3>1, ImageIsFinite
    <3>4. \A r \in fits : r.at \in D /\ r.fit \in Fitting
      BY <2>3, <3>1, <3>2
    <3> QED BY <3>3, <3>4, FS_Subset
  <2> HIDE DEF more
  <2>6. IsFiniteSet(ranked) /\ ranked # {}
    <3> DEFINE g == [r \in more |-> [at |-> r.at, fit |-> r.fit, key |-> <<r.fit.quantity>>]]
    <3>1. ranked = {g[r] : r \in more}
      OBVIOUS
    <3> HIDE DEF g, ranked
    <3> QED BY <1>4, <2>5, <3>1, ImageIsFinite
  <2>7. \A r \in ranked : r.at \in D /\ r.fit \in Fitting /\ r.key = <<r.fit.quantity>>
    <3> HIDE DEF D
    <3> QED BY <2>5
  <2>8. \A r \in ranked : r.key \in [1..1 -> Int] /\ r.at \in Int
    <3> HIDE DEF ranked
    <3> TAKE r \in ranked
    <3>1. r.fit.quantity \in Int
      <4>1. r.fit \in Fitting
        BY <2>7
      <4>2. \A a \in Fitting : a.quantity \in Nat
        BY PricesAre DEF Fitting
      <4> QED BY <4>1, <4>2
    <3>2. <<r.fit.quantity>> \in [1..1 -> Int]
      BY <3>1
    <3>3. r.at \in DOMAIN pending
      BY <2>7
    <3> QED BY <2>7, <3>2, <3>3
  <2> HIDE DEF ranked
  <2>9. used \in ranked
    BY <2>6, <2>8, BestOfOne
  <2>10. used.at \in DOMAIN pending /\ used.fit.quantity \in Counts /\ used.fit.total \in Nat
    BY <2>7, <2>9 DEF Fitting
  <2>11. RemoveAt(pending, used.at) \in Seq(Waiting)
    BY <2>10, Removed
  <2>12. result = [item |-> z, pending |-> RemoveAt(pending, used.at)]
    BY <1>1, <1>4
  <2> HIDE DEF used, result
  <2>13. used.fit.quantity \in OrNone(Counts) /\ used.fit.total \in OrNone(Int)
         /\ used.fit.total \in OrNone(Nat)
    BY <2>10 DEF OrNone
  <2>14. ItemOf(x, used.fit.quantity, used.fit.total, z)
    BY ONLY <1>2, <2>13, RecountedIs
  <2>15. result.item = z /\ result.pending = RemoveAt(pending, used.at)
    <3> HIDE DEF z
    <3> QED BY <2>12
  <2> HIDE DEF z
  <2>16. RawRight(z) /\ z.product = x.product
    BY <1>2, <2>13, <2>14 DEF ItemOf, SameCard, RawRight
  <2> QED BY <2>11, <2>15, <2>16 DEF RawItems, RawRight, result
<1> QED BY <1>3, <1>4

(* What a fragment gives to an item it is reconciled with, which has a     *)
(* price.                                                                  *)
LEMMA LateFitsAre ==
  ASSUME NEW x \in RawItems, NEW f \in Waiting
  PROVE  /\ LateFits(x, f) \in SUBSET Fitting
         /\ LateFits(x, f) # {} => x.unit \in Prices
<1> DEFINE u == x.unit
           S == {v \in f.values : Rounded(v, u) >= 1}
           e == u * f.quantity
           found == IF f.quantity = None THEN {Fit(Rounded(v, u), v) : v \in S}
                    ELSE {Fit(f.quantity, IF f.values = {} THEN e ELSE Nearest(f.values, e))}
           error(a) == Abs(u * a.quantity - a.total)
           closest == CHOOSE a \in found : \A b \in found : error(a) <= error(b)
           F == LateFits(x, f)
<1>1. F = IF u = None \/ x.locked \/ found = {} THEN {}
          ELSE {a \in {closest} : a.quantity > Count(x, 1) /\ error(a) <= 20}
  BY DEF LateFits
<1>2. u \in OrNone(Prices) /\ f.quantity \in OrNone(Counts) /\ f.values \in SUBSET Prices
  BY DEF RawItems, RawRight, Waiting
<1> HIDE DEF F
<1>3. CASE u = None \/ x.locked \/ found = {}
  <2>1. F = {}
    BY <1>1, <1>3
  <2> QED BY <2>1 DEF F
<1>4. CASE ~(u = None \/ x.locked \/ found = {})
  <2>1. u \in Prices
    BY <1>2, <1>4 DEF OrNone
  <2>2. u \in Nat \ {0} /\ Prices \subseteq Nat /\ Counts \subseteq Nat
    BY <2>1, PricesAre DEF Prices
  <2> HIDE DEF u
  <2>3. found \in SUBSET Fitting
    <3>1. CASE f.quantity = None
      <4>1. ASSUME NEW v \in S PROVE Fit(Rounded(v, u), v) \in Fitting
        <5>1. v \in Nat /\ Rounded(v, u) >= 1
          BY <1>2, <2>2
        <5>2. Rounded(v, u) \in Nat
          BY <2>2, <5>1, RoundedIs
        <5>3. Rounded(v, u) \in Counts
          BY <5>1, <5>2 DEF Counts
        <5> QED BY <5>1, <5>3, FitIs
      <4> HIDE DEF S
      <4> QED BY <3>1, <4>1
    <3>2. CASE f.quantity # None
      <4> DEFINE q == f.quantity
                 t == IF f.values = {} THEN e ELSE Nearest(f.values, e)
      <4>1. q \in Counts
        BY <1>2, <3>2 DEF OrNone
      <4>2. e \in Nat
        <5>1. q \in Nat
          BY <2>2, <4>1
        <5> HIDE DEF q
        <5>2. u * q \in Nat
          BY <2>2, <5>1
        <5> QED BY <5>2 DEF q
      <4> HIDE DEF e
      <4>3. t \in Nat
        <5>1. f.values \in SUBSET Nat
          BY <1>2, <2>2
        <5>2. e \in Int
          BY <4>2
        <5>3. f.values # {} => Nearest(f.values, e) \in f.values
          BY ONLY <5>1, <5>2, NearestIs
        <5> QED BY <4>2, <5>1, <5>3
      <4>4. found = {Fit(q, t)}
        BY <3>2
      <4> HIDE DEF t, q, found
      <4>5. Fit(q, t) \in Fitting
        BY <4>1, <4>3, FitIs
      <4> QED BY <4>4, <4>5
    <3> QED BY <3>1, <3>2
  <2> HIDE DEF found
  <2>4. closest \in found
    <3> DEFINE Errors == {error(a) : a \in found}
    <3>1. \A i \in Int : Abs(i) \in Nat
      BY DEF Abs
    <3>2. \A a \in found : u * a.quantity - a.total \in Int
      <4> TAKE a \in found
      <4>1. a.quantity \in Nat /\ a.total \in Nat
        BY <2>2, <2>3 DEF Fitting
      <4> QED BY <2>2, <4>1
    <3>3. Errors \in SUBSET Nat /\ Errors # {}
      BY <1>4, <3>1, <3>2
    <3> HIDE DEF Errors, error
    <3>4. PICK m \in Errors : \A n \in Errors : m <= n
      BY <3>3, LeastNatural
    <3>5. PICK a \in found : m = error(a)
      BY DEF Errors
    <3>6. \A b \in found : error(a) <= error(b)
      BY <3>4, <3>5 DEF Errors
    <3> QED BY <3>6
  <2> HIDE DEF closest
  <2>5. F \in SUBSET {closest}
    BY <1>1, <1>4
  <2> QED BY <2>1, <2>3, <2>4, <2>5 DEF F, u
<1> QED BY <1>3, <1>4

(* Reconciling a fragment leaves a list of items.                          *)
LEMMA ReconcileIs ==
  ASSUME NEW items \in Seq(RawItems), NEW f \in Waiting
  PROVE  Reconcile(items, f) \in Seq(RawItems)
<1> DEFINE named == {k \in DOMAIN items : NameOf(items[k]) = f.anchor /\ LateFits(items[k], f) # {}}
           fit(k) == Only(LateFits(items[k], f))
           off(k) == Abs(items[k].unit * fit(k).quantity - fit(k).total)
           ranked == {[at |-> k, key |-> <<fit(k).quantity, -off(k)>>] : k \in named}
           chosen == Best(ranked).at
           r == [items EXCEPT ![chosen].quantity = fit(chosen).quantity,
                              ![chosen].total = fit(chosen).total]
<1>1. Reconcile(items, f) = IF f.anchor = None \/ named = {} THEN items ELSE r
  BY DEF Reconcile
<1>2. CASE f.anchor = None \/ named = {}
  BY <1>1, <1>2
<1>3. CASE ~(f.anchor = None \/ named = {})
  <2>1. \A k \in named : fit(k) \in Fitting /\ items[k].unit \in Prices /\ k \in DOMAIN items
    <3> TAKE k \in named
    <3>1. LateFits(items[k], f) # {} /\ items[k] \in RawItems /\ k \in DOMAIN items
      OBVIOUS
    <3>2. LateFits(items[k], f) \in SUBSET Fitting /\ items[k].unit \in Prices
      BY <3>1, LateFitsAre
    <3>3. Only(LateFits(items[k], f)) \in LateFits(items[k], f)
      BY <3>1 DEF Only
    <3> QED BY <3>1, <3>2, <3>3
  <2>2. IsFiniteSet(named)
    <3>1. IsFiniteSet(DOMAIN items)
      BY PlacesOf
    <3>2. named \in SUBSET DOMAIN items
      OBVIOUS
    <3> HIDE DEF named
    <3> QED BY <3>1, <3>2, FS_Subset
  <2> HIDE DEF named, fit
  <2>3. \A k \in named : fit(k).quantity \in Counts /\ fit(k).total \in Nat /\ off(k) \in Int
    <3> TAKE k \in named
    <3>1. fit(k).quantity \in Counts /\ fit(k).total \in Nat
      BY <2>1 DEF Fitting
    <3>2. items[k].unit \in Nat /\ fit(k).quantity \in Nat
      BY <2>1, <3>1, PricesAre
    <3>3. items[k].unit * fit(k).quantity \in Int
      BY <3>2
    <3>4. \A i \in Int : Abs(i) \in Int
      BY DEF Abs
    <3>5. items[k].unit * fit(k).quantity - fit(k).total \in Int
      BY <3>1, <3>3
    <3> QED BY <3>1, <3>4, <3>5
  <2> HIDE DEF off
  <2>4. IsFiniteSet(ranked) /\ ranked # {}
    <3> DEFINE g == [k \in named |-> [at |-> k, key |-> <<fit(k).quantity, -off(k)>>]]
    <3>1. ranked = {g[k] : k \in named}
      OBVIOUS
    <3> HIDE DEF g, ranked
    <3> QED BY <1>3, <2>2, <3>1, ImageIsFinite
  <2>5. \A o \in ranked : o.at \in named /\ o.key \in [1..2 -> Int] /\ o.at \in Int
    <3> TAKE o \in ranked
    <3>1. PICK k \in named : o = [at |-> k, key |-> <<fit(k).quantity, -off(k)>>]
      OBVIOUS
    <3>2. fit(k).quantity \in Int /\ off(k) \in Int
      <4>1. fit(k).quantity \in Counts /\ off(k) \in Int
        BY <2>3
      <4>2. Counts \subseteq Int
        BY PricesAre
      <4> QED BY <4>1, <4>2
    <3> DEFINE a == fit(k).quantity
               b == off(k)
    <3>3. a \in Int /\ b \in Int
      BY <3>2
    <3>4. o.at = k /\ o.key = <<a, -b>> /\ k \in DOMAIN items
      BY <2>1, <3>1
    <3> HIDE DEF a, b
    <3>5. <<a, -b>> \in [1..2 -> Int]
      BY <3>3
    <3> QED BY <3>4, <3>5
  <2> HIDE DEF ranked
  <2>6. Best(ranked) \in ranked
    BY <2>4, <2>5, BestOfTwo
  <2>7. chosen \in named
    BY <2>5, <2>6
  <2> HIDE DEF chosen
  <2> DEFINE q == fit(chosen).quantity
             t == fit(chosen).total
             x == items[chosen]
             z == Recounted(x, q, t)
  <2>8. q \in OrNone(Counts) /\ t \in OrNone(Int) /\ t \in OrNone(Nat)
    BY <2>3, <2>7 DEF OrNone
  <2>9. x \in Items /\ x \in RawItems /\ chosen \in DOMAIN items /\ x.unit \in OrNone(Prices)
    <3>1. chosen \in DOMAIN items
      BY <2>1, <2>7
    <3> QED BY <3>1 DEF RawItems, RawRight
  <2>10. r = [items EXCEPT ![chosen] = z]
    BY <2>9 DEF Recounted
  <2> HIDE DEF q, t, r
  <2>11. ItemOf(x, q, t, z)
    BY ONLY <2>8, <2>9, RecountedIs
  <2>12. z \in RawItems
    <3> HIDE DEF z, x
    <3> QED BY <2>8, <2>9, <2>11 DEF ItemOf, RawItems, RawRight
  <2> HIDE DEF z
  <2>13. r \in Seq(RawItems)
    BY <2>9, <2>10, <2>12
  <2> QED BY <1>1, <1>3, <2>13
<1> QED BY <1>2, <1>3

(* What tells one card from another, and the state of a parse.             *)
CardKeys == (BOOLEAN \X Products) \X OrNone(Counts) \X OrNone(Int) \X OrNone(Int)
(* The state of a parse: the items, the cards that were seen, and the      *)
(* fragments that wait.                                                    *)
Parses == [items : Seq(RawItems), seen : SUBSET CardKeys, pending : Seq(Waiting)]

(* A card continues a parse.                                               *)
LEMMA AddCardIs ==
  ASSUME NEW state \in Parses, NEW placed,
         placed.item \in RawItems, placed.pending \in Seq(Waiting)
  PROVE  AddCard(state, placed) \in Parses
<1> DEFINE item == placed.item
           key == <<NameOf(item), item.quantity, item.unit, item.total>>
           items == IF key \in state.seen THEN state.items ELSE Append(state.items, item)
           seen == state.seen \cup {key}
<1>1. key \in CardKeys
  BY DEF RawItems, Items, NameOf, CardKeys
<1> HIDE DEF key
<1>2. seen \in SUBSET CardKeys
  BY <1>1 DEF Parses
<1>3. items \in Seq(RawItems)
  BY DEF Parses
<1>4. AddCard(state, placed) = [items |-> items, seen |-> seen, pending |-> placed.pending]
  BY DEF AddCard, key
<1> HIDE DEF items, seen
<1> QED BY <1>2, <1>3, <1>4 DEF Parses

(* A fragment continues a parse.                                           *)
LEMMA AddFragmentIs ==
  ASSUME NEW state \in Parses, NEW row \in OrderRows, ~IsCard(row)
  PROVE  AddFragment(state, row) \in Parses
<1> DEFINE items == state.items
           above == Last(items)
           waits == row.quantity # None \/ row.values # {}
           list == IF items = <<>> THEN <<>> ELSE Front(items) \o <<Merged(above, row)>>
           f == [quantity |-> row.quantity, values |-> row.values,
                 anchor |-> IF items = <<>> THEN None ELSE NameOf(above)]
           pending == IF ~waits THEN state.pending ELSE Append(state.pending, f)
<1>1. /\ items \in Seq(RawItems) /\ state.seen \in SUBSET CardKeys
      /\ state.pending \in Seq(Waiting)
  BY DEF Parses
<1>2. FragmentRight(row)
  BY FragmentIs
<1>3. AddFragment(state, row) = [items |-> list, seen |-> state.seen, pending |-> pending]
  BY DEF AddFragment
<1> HIDE DEF items
<1>4. items # <<>> => above \in RawItems /\ Front(items) \in Seq(RawItems)
  <2> SUFFICES ASSUME items # <<>> PROVE above \in RawItems /\ Front(items) \in Seq(RawItems)
    OBVIOUS
  <2>1. Len(items) \in Nat /\ Len(items) > 0 /\ Len(items) \in DOMAIN items
    BY <1>1
  <2>2. items[Len(items)] \in RawItems
    BY <1>1, <2>1
  <2>3. SubSeq(items, 1, Len(items) - 1) \in Seq(RawItems)
    BY <1>1, <2>1
  <2> QED BY <2>2, <2>3 DEF Last, Front
<1> HIDE DEF above
<1>5. list \in Seq(RawItems)
  <2>1. ASSUME items # <<>> PROVE Merged(above, row) \in RawItems
    <3>1. RawRight(above)
      BY <1>4, <2>1 DEF RawItems
    <3>2. RawRight(Merged(above, row))
      BY <1>2, <3>1, FragmentMergedIs
    <3> QED BY <3>2 DEF RawItems, RawRight
  <2> QED BY <1>4, <2>1
<1>6. pending \in Seq(Waiting)
  <2>1. items # <<>> => NameOf(above) \in BOOLEAN \X Products
    BY <1>4 DEF NameOf, RawItems, Items
  <2>2. f \in Waiting
    BY <1>2, <2>1 DEF Waiting, FragmentRight
  <2> HIDE DEF f, waits
  <2> QED BY <1>1, <2>2
<1> HIDE DEF list, pending
<1> QED BY <1>1, <1>3, <1>5, <1>6 DEF Parses

(* Every row continues a parse.                                            *)
LEMMA AddRowIs ==
  ASSUME NEW state \in Parses, NEW row \in OrderRows
  PROVE  AddRow(state, row) \in Parses
<1>1. CASE IsCard(row)
  <2>1. RawRight(ReadCard(row))
    BY <1>1, CardRead DEF Card
  <2>2. ReadCard(row) \in RawItems /\ state.pending \in Seq(Waiting)
    BY <2>1 DEF RawItems, RawRight, Parses
  <2> DEFINE placed == ApplyPending(ReadCard(row), state.pending)
  <2>3. placed.item \in RawItems /\ placed.pending \in Seq(Waiting)
    BY <2>2, ApplyPendingIs
  <2> HIDE DEF placed
  <2>4. AddCard(state, placed) \in Parses
    BY <2>3, AddCardIs
  <2> QED BY <1>1, <2>4 DEF AddRow, placed
<1>2. CASE ~IsCard(row)
  BY <1>2, AddFragmentIs DEF AddRow
<1> QED BY <1>1, <1>2

(* The rows of a page, read one after the other.                           *)
RowsBy(rows, g) ==
  g = [p \in SUBSET DOMAIN rows |->
         IF p = {} THEN [items |-> <<>>, seen |-> {}, pending |-> <<>>]
         ELSE AddRow(g[p \ {Max(p)}], rows[Max(p)])]

(* The rows of a page are parsed, one after the other.                     *)
LEMMA RowsAre ==
  ASSUME NEW rows \in Seq(OrderRows)
  PROVE  FoldLeft(AddRow, [items |-> <<>>, seen |-> {}, pending |-> <<>>], rows) \in Parses
<1> DEFINE n == Len(rows)
           first == [items |-> <<>>, seen |-> {}, pending |-> <<>>]
           iter == CHOOSE g : RowsBy(rows, g)
           step == [t \in Parses \X (1..n) |-> AddRow(t[1], rows[t[2]])]
           result == FoldLeft(AddRow, first, rows)
<1>1. DOMAIN rows = 1..n /\ n \in Nat
  BY PlacesOf
<1>2. result = iter[DOMAIN rows]
  BY DEF RowsBy, FoldLeft, MapThenFoldSet
<1>3. \A t \in Parses, k \in 1..n : /\ AddRow(t, rows[k]) \in Parses
                                    /\ step[<<t, k>>] = AddRow(t, rows[k])
  BY <1>1, AddRowIs
<1>4. step \in [Parses \X (1..n) -> Parses]
  <2>1. \A x \in Parses \X (1..n) : x[1] \in Parses /\ x[2] \in 1..n
    OBVIOUS
  <2> QED BY <1>3, <2>1
<1>5. first \in Parses
  BY DEF Parses
<1> HIDE DEF step, result, n, first
<1>6. PICK w \in [SUBSET (1..n) -> Parses] : Walks(first, step, n, w)
  BY <1>1, <1>4, <1>5, WalkExists
<1>7. RowsBy(rows, w)
  <2>1. \A p \in SUBSET (1..n) : p # {} => w[p] = AddRow(w[p \ {Max(p)}], rows[Max(p)])
    <3> TAKE p \in SUBSET (1..n)
    <3> HAVE p # {}
    <3>1. Max(p) \in 1..n /\ w[p \ {Max(p)}] \in Parses
      BY <1>1, GreatestOf
    <3> QED BY <1>3, <1>6, <3>1 DEF Walks
  <2> QED BY <1>1, <1>6, <2>1 DEF RowsBy, Walks, first
<1>8. RowsBy(rows, iter)
  BY <1>7
<1> HIDE DEF iter
<1>9. iter[{}] \in Parses
  BY <1>5, <1>8 DEF RowsBy, first
<1>10. ASSUME NEW p \in SUBSET (1..n), p # {}, iter[p \ {Max(p)}] \in Parses
       PROVE  iter[p] \in Parses
  <2>1. Max(p) \in 1..n
    BY <1>1, <1>10, GreatestOf
  <2>2. iter[p] = AddRow(iter[p \ {Max(p)}], rows[Max(p)])
    BY <1>1, <1>8, <1>10 DEF RowsBy
  <2> QED BY <1>3, <1>10, <2>1, <2>2
<1>11. \A p \in SUBSET (1..n) : iter[p] \in Parses
  BY <1>1, <1>9, <1>10, WalkStays
<1>12. result \in Parses
  BY <1>1, <1>2, <1>11
<1> QED BY <1>12 DEF result, first

(* The fragments that still wait, one after the other.                     *)
LateBy(items, pending, g) ==
  g = [p \in SUBSET DOMAIN pending |->
         IF p = {} THEN items ELSE Reconcile(g[p \ {Max(p)}], pending[Max(p)])]

(* The fragments that still wait are reconciled, one after the other.      *)
LEMMA LateAre ==
  ASSUME NEW items \in Seq(RawItems), NEW pending \in Seq(Waiting)
  PROVE  FoldLeft(Reconcile, items, pending) \in Seq(RawItems)
<1> DEFINE n == Len(pending)
           T == Seq(RawItems)
           iter == CHOOSE g : LateBy(items, pending, g)
           step == [t \in T \X (1..n) |-> Reconcile(t[1], pending[t[2]])]
           result == FoldLeft(Reconcile, items, pending)
<1>1. DOMAIN pending = 1..n /\ n \in Nat
  BY PlacesOf
<1>2. result = iter[DOMAIN pending]
  BY DEF LateBy, FoldLeft, MapThenFoldSet
<1>3. \A t \in T, k \in 1..n : /\ Reconcile(t, pending[k]) \in T
                               /\ step[<<t, k>>] = Reconcile(t, pending[k])
  <2> TAKE t \in T, k \in 1..n
  <2>1. pending[k] \in Waiting
    BY <1>1
  <2>2. Reconcile(t, pending[k]) \in T
    BY <2>1, ReconcileIs
  <2> HIDE DEF T
  <2>3. step[<<t, k>>] = Reconcile(t, pending[k])
    OBVIOUS
  <2> QED BY <2>2, <2>3
<1>4. items \in T
  OBVIOUS
<1> HIDE DEF T
<1>5. step \in [T \X (1..n) -> T]
  <2>1. \A x \in T \X (1..n) : x[1] \in T /\ x[2] \in 1..n
    OBVIOUS
  <2> QED BY <1>3, <2>1
<1> HIDE DEF step, result, n
<1>6. PICK w \in [SUBSET (1..n) -> T] : Walks(items, step, n, w)
  BY <1>1, <1>4, <1>5, WalkExists
<1>7. LateBy(items, pending, w)
  <2>1. \A p \in SUBSET (1..n) : p # {} => w[p] = Reconcile(w[p \ {Max(p)}], pending[Max(p)])
    <3> TAKE p \in SUBSET (1..n)
    <3> HAVE p # {}
    <3>1. Max(p) \in 1..n /\ w[p \ {Max(p)}] \in T
      BY <1>1, GreatestOf
    <3> QED BY <1>3, <1>6, <3>1 DEF Walks
  <2> QED BY <1>1, <1>6, <2>1 DEF LateBy, Walks
<1>8. LateBy(items, pending, iter)
  BY <1>7
<1> HIDE DEF iter
<1>9. iter[{}] \in T
  BY <1>4, <1>8 DEF LateBy
<1>10. ASSUME NEW p \in SUBSET (1..n), p # {}, iter[p \ {Max(p)}] \in T
       PROVE  iter[p] \in T
  <2>1. Max(p) \in 1..n
    BY <1>1, <1>10, GreatestOf
  <2>2. iter[p] = Reconcile(iter[p \ {Max(p)}], pending[Max(p)])
    BY <1>1, <1>8, <1>10 DEF LateBy
  <2> QED BY <1>3, <1>10, <2>1, <2>2
<1>11. \A p \in SUBSET (1..n) : iter[p] \in T
  BY <1>1, <1>9, <1>10, WalkStays
<1>12. result \in T
  BY <1>1, <1>2, <1>11
<1> QED BY <1>12 DEF result, T

(* The lines that a page shows.                                            *)
LEMMA ExtractedAre ==
  ASSUME NEW rows \in Seq(OrderRows)
  PROVE  ExtractOrderItems(rows) \in Seq(RawItems)
<1> DEFINE parse == FoldLeft(AddRow, [items |-> <<>>, seen |-> {}, pending |-> <<>>], rows)
<1>1. parse \in Parses
  BY RowsAre
<1>2. ExtractOrderItems(rows) = FoldLeft(Reconcile, parse.items, parse.pending)
  BY DEF ExtractOrderItems, ReconcileAll
<1> HIDE DEF parse
<1>3. parse.items \in Seq(RawItems) /\ parse.pending \in Seq(Waiting)
  BY <1>1 DEF Parses
<1> QED BY <1>2, <1>3, LateAre

-----------------------------------------------------------------------------
(* The lines of an order, in the order of their names.                     *)

(* Cleaned lines, and what may be cleaned.                                 *)
CleanItems == {y \in Items : CleanRight(y)}
(* What may be cleaned: an item of a parse, or a line cleaned before.      *)
Cleanable == RawItems \cup CleanItems

(* No two lines are for one product.                                       *)
Distinct(s) == \A j, k \in DOMAIN s : s[j].product = s[k].product => j = k

(* Lines in the order of their names, each for a product of its own.       *)
SortedList(s) ==
  /\ s \in Seq(CleanItems)
  /\ \A j, k \in DOMAIN s : j < k => s[j].product < s[k].product

(* So many lines have names up to that of the k-th.                        *)
UpTo(s, k) == {j \in DOMAIN s : s[j].product <= s[k].product}
(* The place of a line in the order of the names.                          *)
Place(s, k) == Cardinality(UpTo(s, k))

(* The lines in the order of their names, by their places.                 *)
LEMMA ByNameIs ==
  ASSUME NEW s
  PROVE  ByName(s) = [m \in DOMAIN s |-> s[CHOOSE k \in DOMAIN s : Place(s, k) = m]]
BY DEF ByName, Place, UpTo

(* Products are numbers, in alphabetical order.                            *)
LEMMA ProductsAre == Products \subseteq Nat
<1>1. ASSUME NEW row \in OrderRows, IsCard(row) PROVE row.product \in Nat
  <2>1. row \in {r \in OrderRows : "product" \in DOMAIN r}
    BY <1>1 DEF IsCard
  <2> QED BY <2>1, OrderAssumption
<1> QED BY <1>1 DEF Products

(* Each line has a place of its own, and each place is some line's.        *)
LEMMA PlacesAre ==
  ASSUME NEW s \in Seq(CleanItems), Distinct(s)
  PROVE  \A m \in DOMAIN s : \E k \in DOMAIN s : Place(s, k) = m
<1> DEFINE n == Len(s)
           f == [k \in 1..n |-> Place(s, k)]
<1>1. DOMAIN s = 1..n /\ n \in Nat /\ IsFiniteSet(1..n)
  BY PlacesOf
<1>2. Cardinality(1..n) = n
  <2>1. \A i, j \in Int : Cardinality(i..j) = IF i > j THEN 0 ELSE j - i + 1
    BY FS_Interval
  <2>2. 1 \in Int /\ n \in Int
    BY <1>1
  <2>3. Cardinality(1..n) = IF 1 > n THEN 0 ELSE n - 1 + 1
    BY <2>1, <2>2
  <2> QED BY <1>1, <2>3
<1>3. \A k \in 1..n : s[k].product \in Nat
  <2>1. \A k \in 1..n : s[k] \in CleanItems
    BY <1>1
  <2> QED BY <2>1, ProductsAre DEF CleanItems, Items
<1>4. \A k \in 1..n : UpTo(s, k) \in SUBSET (1..n) /\ k \in UpTo(s, k)
  BY <1>1, <1>3 DEF UpTo
<1>5. \A k \in 1..n : /\ IsFiniteSet(UpTo(s, k)) /\ Place(s, k) \in Nat
                      /\ Place(s, k) <= n /\ Place(s, k) # 0
  <2> TAKE k \in 1..n
  <2> HIDE DEF n
  <2>1. /\ IsFiniteSet(UpTo(s, k)) /\ Cardinality(UpTo(s, k)) <= Cardinality(1..n)
    BY <1>1, <1>4, FS_Subset
  <2>2. Cardinality(UpTo(s, k)) \in Nat /\ Cardinality(UpTo(s, k)) # 0
    BY <1>4, <2>1, FS_CardinalityType, FS_EmptySet
  <2> QED BY <1>2, <2>1, <2>2 DEF Place
<1>6. ASSUME NEW j \in 1..n, NEW k \in 1..n, j # k, s[j].product < s[k].product
      PROVE  Place(s, j) # Place(s, k)
  <2>1. UpTo(s, j) \in SUBSET UpTo(s, k)
    BY <1>1, <1>3, <1>6 DEF UpTo
  <2>2. k \notin UpTo(s, j)
    BY <1>3, <1>6 DEF UpTo
  <2>3. UpTo(s, j) # UpTo(s, k)
    BY <1>4, <2>2
  <2> QED BY <1>5, <2>1, <2>3, FS_Subset DEF Place
<1>7. \A j, k \in 1..n : Place(s, j) = Place(s, k) => j = k
  <2> TAKE j \in 1..n, k \in 1..n
  <2>1. j # k => s[j].product < s[k].product \/ s[k].product < s[j].product
    BY <1>1, <1>3 DEF Distinct
  <2> QED BY <1>6, <2>1
<1>8. f \in Injection(1..n, 1..n)
  <2> HIDE DEF n
  <2>1. \A k \in 1..n : Place(s, k) \in 1..n
    BY <1>1, <1>5
  <2> QED BY <1>7, <2>1 DEF Injection, IsInjective
<1>9. f \in Surjection(1..n, 1..n)
  <2> HIDE DEF f
  <2> QED BY <1>1, <1>8, FS_Injection
<1>10. \A m \in 1..n : \E k \in 1..n : f[k] = m
  BY <1>9 DEF Surjection
<1> QED BY <1>1, <1>10

(* Lines for different products, put in order.                             *)
LEMMA OrderedIs ==
  ASSUME NEW s \in Seq(CleanItems), Distinct(s)
  PROVE  SortedList(ByName(s)) /\ Len(ByName(s)) = Len(s)
<1> DEFINE n == Len(s)
           at(m) == CHOOSE k \in DOMAIN s : Place(s, k) = m
           r == ByName(s)
<1>1. DOMAIN s = 1..n /\ n \in Nat
  BY PlacesOf
<1>2. \A m \in 1..n : at(m) \in 1..n /\ Place(s, at(m)) = m
  BY <1>1, PlacesAre
<1>3. r = [m \in 1..n |-> s[at(m)]]
  BY <1>1, ByNameIs
<1> HIDE DEF at, r
<1>4. \A m \in 1..n : s[at(m)] \in CleanItems /\ s[at(m)].product \in Nat
  <2>1. \A k \in 1..n : s[k] \in CleanItems
    BY <1>1
  <2>2. \A y \in CleanItems : y.product \in Nat
    BY ProductsAre DEF CleanItems, Items
  <2> QED BY <1>2, <2>1, <2>2
<1>5. r \in Seq(CleanItems) /\ Len(r) = n /\ DOMAIN r = 1..n
  BY <1>1, <1>3, <1>4
<1>6. ASSUME NEW j \in 1..n, NEW k \in 1..n, j < k
      PROVE  r[j].product < r[k].product
  <2> DEFINE a == at(j)
             b == at(k)
  <2>1. a \in DOMAIN s /\ b \in DOMAIN s /\ Place(s, a) = j /\ Place(s, b) = k
    BY <1>1, <1>2
  <2>2. s[a].product \in Nat /\ s[b].product \in Nat /\ r[j] = s[a] /\ r[k] = s[b]
    BY <1>3, <1>4
  <2> HIDE DEF a, b
  <2>3. CASE s[b].product <= s[a].product
    <3>1. UpTo(s, b) \in SUBSET UpTo(s, a)
      <4>1. \A i \in DOMAIN s : s[i].product \in Nat
        <5>1. \A k1 \in DOMAIN s : s[k1] \in CleanItems
          OBVIOUS
        <5> QED BY <5>1, ProductsAre DEF CleanItems, Items
      <4> QED BY <2>2, <2>3, <4>1 DEF UpTo
    <3>2. IsFiniteSet(UpTo(s, a))
      <4>1. IsFiniteSet(DOMAIN s)
        BY PlacesOf
      <4> QED BY <4>1, FS_Subset DEF UpTo
    <3>3. Place(s, b) <= Place(s, a)
      BY <3>1, <3>2, FS_Subset DEF Place
    <3>4. k <= j
      BY <2>1, <3>3
    <3> QED BY <1>6, <3>4
  <2>4. CASE ~(s[b].product <= s[a].product)
    BY <2>2, <2>4
  <2> QED BY <2>3, <2>4
<1> QED BY <1>5, <1>6 DEF SortedList, r

(* Lines in order stay as they are.                                        *)
LEMMA OrderedStays ==
  ASSUME NEW s \in Seq(CleanItems), NEW n \in Nat, DOMAIN s = 1..n,
         \A j, k \in 1..n : j < k => s[j].product < s[k].product
  PROVE  \A m \in 1..n : ByName(s)[m] = s[m]
<1>1. \A k \in 1..n : s[k].product \in Nat
  <2>1. \A k \in 1..n : s[k] \in CleanItems
    OBVIOUS
  <2> QED BY <2>1, ProductsAre DEF CleanItems, Items
<1>2. ASSUME NEW k \in 1..n PROVE Place(s, k) = k
  <2>1. UpTo(s, k) = 1..k
    <3>1. ASSUME NEW j \in 1..n PROVE s[j].product <= s[k].product <=> j <= k
      <4>1. j < k => s[j].product < s[k].product
        OBVIOUS
      <4>2. k < j => s[k].product < s[j].product
        OBVIOUS
      <4>3. j = k => s[j].product = s[k].product
        OBVIOUS
      <4> QED BY <1>1, <4>1, <4>2, <4>3
    <3> QED BY <3>1 DEF UpTo
  <2>2. \A i, j \in Int : Cardinality(i..j) = IF i > j THEN 0 ELSE j - i + 1
    BY FS_Interval
  <2>3. 1 \in Int /\ k \in Int
    OBVIOUS
  <2>4. Cardinality(1..k) = IF 1 > k THEN 0 ELSE k - 1 + 1
    BY <2>2, <2>3
  <2> QED BY <2>1, <2>4 DEF Place
<1>3. ASSUME NEW m \in 1..n PROVE (CHOOSE k \in DOMAIN s : Place(s, k) = m) = m
  <2>1. \A k \in DOMAIN s : Place(s, k) = m <=> k = m
    BY <1>2
  <2> QED BY <2>1
<1> QED BY <1>3, ByNameIs

(* The state of a cleaning: a line per product, and those seen marked.     *)
CleanStates == {t \in [items : Seq(CleanItems), copies : SUBSET Products] : Distinct(t.items)}

(* Cleaning makes a right line of the same product.                        *)
LEMMA CleanableIs ==
  ASSUME NEW x \in Cleanable
  PROVE  CleanItem(x) \in CleanItems /\ CleanItem(x).product = x.product /\ x.product \in Products
<1>1. CleanRight(CleanItem(x)) /\ CleanItem(x).product = x.product
  BY CleanedRaw, CleanAgain DEF Cleanable, RawItems, CleanItems
<1>2. x.product \in Products
  BY DEF Cleanable, RawItems, CleanItems, Items
<1> QED BY <1>1, <1>2 DEF CleanItems, CleanRight

(* A line continues the cleaning: there is one line per product.           *)
LEMMA AddItemIs ==
  ASSUME NEW state \in CleanStates, NEW raw, raw.product \in Products,
         NEW item \in CleanItems
  PROVE  AddItem(state, raw, item) \in CleanStates
<1> DEFINE s == state.items
           copies == state.copies \cup (IF raw.marked THEN {raw.product} ELSE {})
           same == {k \in DOMAIN s : s[k].product = item.product}
           k == Only(same)
           old == s[k]
           wins == IF item.product \in copies
                   THEN item.total # None /\ (old.total = None \/ item.total > old.total)
                   ELSE Prefer(old, item)
           list == CASE same = {} -> Append(s, item)
                     [] same # {} /\ wins -> [s EXCEPT ![k] = item]
                     [] OTHER -> s
<1>1. AddItem(state, raw, item) = [copies |-> copies, items |-> list]
  BY DEF AddItem
<1>2. s \in Seq(CleanItems) /\ Distinct(s) /\ state.copies \in SUBSET Products
  BY DEF CleanStates
<1>3. copies \in SUBSET Products
  BY <1>2
<1> HIDE DEF s, wins, copies
<1>4. list \in Seq(CleanItems) /\ Distinct(list)
  <2>1. CASE same = {}
    <3>1. list = Append(s, item)
      BY <2>1
    <3> DEFINE n == Len(s)
               r == Append(s, item)
    <3>2. /\ DOMAIN s = 1..n /\ n \in Nat /\ DOMAIN r = 1..(n + 1) /\ r \in Seq(CleanItems)
          /\ r[n + 1] = item /\ \A j \in 1..n : r[j] = s[j]
      BY <1>2
    <3> HIDE DEF r, n
    <3>3. \A j \in 1..n : r[j].product # item.product
      BY <2>1, <3>2
    <3>4. \A i, j \in 1..(n + 1) : r[i].product = r[j].product => i = j
      <4>1. \A j \in 1..(n + 1) : j \in 1..n \/ j = n + 1
        BY <3>2
      <4>2. \A i, j \in 1..n : r[i].product = r[j].product => i = j
        BY <1>2, <3>2 DEF Distinct
      <4> QED BY <3>2, <3>3, <4>1, <4>2
    <3>5. Distinct(r)
      BY <3>2, <3>4 DEF Distinct
    <3> HIDE DEF list
    <3> QED BY <3>1, <3>2, <3>5 DEF r
  <2>2. CASE same # {} /\ wins
    <3>1. list = [s EXCEPT ![k] = item]
      BY <2>2
    <3>2. k \in DOMAIN s /\ s[k].product = item.product
      BY <2>2 DEF Only
    <3> HIDE DEF k, list
    <3>3. list \in Seq(CleanItems) /\ DOMAIN list = DOMAIN s
      BY <1>2, <3>1, <3>2
    <3>4. \A j \in DOMAIN s : list[j].product = s[j].product
      BY <3>1, <3>2
    <3> QED BY <1>2, <3>3, <3>4 DEF Distinct
  <2>3. CASE same # {} /\ ~wins
    <3>1. list = s
      BY <2>3
    <3> QED BY <1>2, <3>1
  <2> QED BY <2>1, <2>2, <2>3
<1> HIDE DEF list
<1> QED BY <1>1, <1>3, <1>4 DEF CleanStates

(* A line without a copy is added.                                         *)
LEMMA AddItemNew ==
  ASSUME NEW state, state.copies = {}, NEW raw, raw.marked = FALSE, NEW item,
         \A j \in DOMAIN state.items : state.items[j].product # item.product
  PROVE  AddItem(state, raw, item) = [copies |-> {}, items |-> Append(state.items, item)]
<1> DEFINE same == {k \in DOMAIN state.items : state.items[k].product = item.product}
<1>1. same = {}
  OBVIOUS
<1>2. state.copies \cup (IF raw.marked THEN {raw.product} ELSE {}) = {}
  OBVIOUS
<1> QED BY <1>1, <1>2 DEF AddItem

(* Lines, cleaned one after the other.                                     *)
CleanBy(items, g) ==
  g = [p \in SUBSET DOMAIN items |->
         IF p = {} THEN [items |-> <<>>, copies |-> {}]
         ELSE AddClean(g[p \ {Max(p)}], items[Max(p)])]

(* The items are cleaned one after the other: the fold is defined.         *)
LEMMA CleaningIs ==
  ASSUME NEW items \in Seq(Cleanable)
  PROVE  \E g : /\ CleanBy(items, g)
                /\ \A p \in SUBSET DOMAIN items : g[p] \in CleanStates
                /\ FoldLeft(AddClean, [items |-> <<>>, copies |-> {}], items) = g[DOMAIN items]
<1> DEFINE n == Len(items)
           T == CleanStates
           first == [items |-> <<>>, copies |-> {}]
           iter == CHOOSE g : CleanBy(items, g)
           step == [t \in T \X (1..n) |-> AddClean(t[1], items[t[2]])]
           result == FoldLeft(AddClean, first, items)
<1>1. DOMAIN items = 1..n /\ n \in Nat
  BY PlacesOf
<1>2. result = iter[DOMAIN items]
  BY DEF CleanBy, FoldLeft, MapThenFoldSet
<1>3. \A t \in T, k \in 1..n : /\ AddClean(t, items[k]) \in T
                               /\ step[<<t, k>>] = AddClean(t, items[k])
  <2> TAKE t \in T, k \in 1..n
  <2>1. items[k] \in Cleanable
    BY <1>1
  <2>2. AddClean(t, items[k]) \in T
    BY <2>1, CleanableIs, AddItemIs DEF AddClean
  <2> HIDE DEF T
  <2>3. step[<<t, k>>] = AddClean(t, items[k])
    OBVIOUS
  <2> QED BY <2>2, <2>3
<1>4. first \in T
  BY DEF CleanStates, Distinct
<1> HIDE DEF T
<1>5. step \in [T \X (1..n) -> T]
  <2>1. \A x \in T \X (1..n) : x[1] \in T /\ x[2] \in 1..n
    OBVIOUS
  <2> QED BY <1>3, <2>1
<1> HIDE DEF step, result, n, first
<1>6. PICK w \in [SUBSET (1..n) -> T] : Walks(first, step, n, w)
  BY <1>1, <1>4, <1>5, WalkExists
<1>7. CleanBy(items, w)
  <2>1. \A p \in SUBSET (1..n) : p # {} => w[p] = AddClean(w[p \ {Max(p)}], items[Max(p)])
    <3> TAKE p \in SUBSET (1..n)
    <3> HAVE p # {}
    <3>1. Max(p) \in 1..n /\ w[p \ {Max(p)}] \in T
      BY <1>1, GreatestOf
    <3> QED BY <1>3, <1>6, <3>1 DEF Walks
  <2> QED BY <1>1, <1>6, <2>1 DEF CleanBy, Walks, first
<1>8. CleanBy(items, iter)
  BY <1>7
<1> HIDE DEF iter
<1>9. iter[{}] \in T
  BY <1>4, <1>8 DEF CleanBy, first
<1>10. ASSUME NEW p \in SUBSET (1..n), p # {}, iter[p \ {Max(p)}] \in T
       PROVE  iter[p] \in T
  <2>1. Max(p) \in 1..n
    BY <1>1, <1>10, GreatestOf
  <2>2. iter[p] = AddClean(iter[p \ {Max(p)}], items[Max(p)])
    BY <1>1, <1>8, <1>10 DEF CleanBy
  <2> QED BY <1>3, <1>10, <2>1, <2>2
<1>11. \A p \in SUBSET (1..n) : iter[p] \in T
  BY <1>1, <1>9, <1>10, WalkStays
<1>12. CleanBy(items, iter) /\ (\A p \in SUBSET DOMAIN items : iter[p] \in CleanStates)
       /\ result = iter[DOMAIN items]
  BY <1>1, <1>2, <1>8, <1>11 DEF T
<1> QED BY <1>12 DEF result, first

(* Cleaning gives lines in order.                                          *)
LEMMA CleanedInOrder ==
  ASSUME NEW items \in Seq(Cleanable)
  PROVE  SortedList(CleanOrderItems(items))
<1> DEFINE t == FoldLeft(AddClean, [items |-> <<>>, copies |-> {}], items)
<1>1. PICK g : /\ \A p \in SUBSET DOMAIN items : g[p] \in CleanStates
               /\ t = g[DOMAIN items]
  BY CleaningIs
<1>2. CleanOrderItems(items) = ByName(t.items)
  BY DEF CleanOrderItems
<1> HIDE DEF t
<1>3. t.items \in Seq(CleanItems) /\ Distinct(t.items)
  BY <1>1 DEF CleanStates
<1> QED BY <1>2, <1>3, OrderedIs

(* The first k lines of s, cleaned.                                        *)
CleanedTo(s, k, t) ==
  /\ t.copies = {} /\ t.items \in Seq(CleanItems) /\ DOMAIN t.items = 1..k
  /\ \A i \in 1..k : t.items[i] = CleanItem(s[i])

(* A list that was cleaned and ordered is cleaned line by line: no line    *)
(* meets another of its product.                                           *)
LEMMA CleanedList ==
  ASSUME NEW s, SortedList(s), NEW g, CleanBy(s, g),
         \A p \in SUBSET DOMAIN s : g[p] \in CleanStates
  PROVE  CleanedTo(s, Len(s), g[1..Len(s)])
<1> DEFINE n == Len(s)
           Wrong == {k \in 0..n : ~CleanedTo(s, k, g[1..k])}
<1>1. s \in Seq(CleanItems) /\ DOMAIN s = 1..n /\ n \in Nat
  BY PlacesOf DEF SortedList
<1>2. ASSUME NEW k \in 0..n, \A m \in Wrong : k <= m
      PROVE  CleanedTo(s, k, g[1..k])
  <2>1. CASE k = 0
    <3>1. 1..0 = {} /\ {} \in SUBSET DOMAIN s
      OBVIOUS
    <3>2. g[{}] = [items |-> <<>>, copies |-> {}]
      BY <3>1 DEF CleanBy
    <3>3. g[1..0].copies = {} /\ g[1..0].items = <<>>
      BY <3>1, <3>2
    <3>4. <<>> \in Seq(CleanItems) /\ DOMAIN <<>> = 1..0
      OBVIOUS
    <3>5. CleanedTo(s, 0, g[1..0])
      BY <3>1, <3>3, <3>4 DEF CleanedTo
    <3> QED BY <2>1, <3>5
  <2>2. CASE k # 0
    <3> DEFINE j == k - 1
               t == g[1..j]
               item == CleanItem(s[k])
    <3>1. j \in 0..n /\ ~(k <= j) /\ k \in 1..n /\ k \in Nat /\ j + 1 = k
      BY <1>1, <2>2
    <3>2. CleanedTo(s, j, t)
      <4>1. j \notin Wrong
        <5> HIDE DEF Wrong
        <5> QED BY <1>2, <3>1
      <4> QED BY <3>1, <4>1
    <3>3. Max(1..k) = k /\ (1..k) \ {k} = 1..j /\ 1..k # {} /\ 1..k \in SUBSET DOMAIN s
      <4>1. Max(1..k) = k /\ (1..k) \ {k} = 1..(k - 1) /\ 1..k # {}
        BY <2>2, <3>1, GreatestOfInterval
      <4> QED BY <1>1, <3>1, <4>1
    <3>4. g[1..k] = AddClean(g[(1..k) \ {Max(1..k)}], s[Max(1..k)])
      BY <3>3 DEF CleanBy
    <3>5. g[1..k] = AddItem(t, s[k], item)
      BY <3>3, <3>4 DEF AddClean
    <3>6. s[k] \in CleanItems /\ s[k].marked = FALSE
      <4>1. s[k] \in CleanItems
        BY <1>1, <3>1
      <4> QED BY <4>1 DEF CleanItems, CleanRight, Items
    <3>7. \A i \in 1..n : /\ CleanItem(s[i]).product = s[i].product /\ s[i].product \in Nat
                          /\ CleanItem(s[i]) \in CleanItems
      <4> TAKE i \in 1..n
      <4>1. s[i] \in Cleanable
        BY <1>1 DEF Cleanable
      <4> QED BY <4>1, CleanableIs, ProductsAre
    <3> HIDE DEF j, t, item
    <3>8. \A i \in 1..j : i \in 1..n /\ i < k
      BY <1>1, <3>1
    <3>9. \A i \in 1..j : s[i].product < s[k].product
      BY <1>1, <3>1, <3>8 DEF SortedList
    <3>10. \A i \in DOMAIN t.items : t.items[i].product # item.product
      <4> TAKE i \in DOMAIN t.items
      <4>1. i \in 1..j /\ t.items[i] = CleanItem(s[i])
        BY <3>2 DEF CleanedTo
      <4>2. t.items[i].product = s[i].product /\ item.product = s[k].product
        BY <3>1, <3>7, <3>8, <4>1 DEF item
      <4> QED BY <3>1, <3>7, <3>8, <3>9, <4>1, <4>2
    <3>11. g[1..k] = [copies |-> {}, items |-> Append(t.items, item)]
      <4>1. t.copies = {}
        BY <3>2 DEF CleanedTo
      <4> QED BY ONLY <3>5, <3>6, <3>10, <4>1, AddItemNew
    <3>12. t.items \in Seq(CleanItems) /\ DOMAIN t.items = 1..j /\ item \in CleanItems
      BY <3>1, <3>2, <3>7 DEF CleanedTo, item
    <3>13. /\ Append(t.items, item) \in Seq(CleanItems) /\ DOMAIN Append(t.items, item) = 1..k
           /\ Append(t.items, item)[k] = item
           /\ \A i \in 1..j : Append(t.items, item)[i] = t.items[i]
      <4> DEFINE r == t.items
      <4>1. r \in Seq(CleanItems) /\ DOMAIN r = 1..j /\ item \in CleanItems /\ j \in Nat
        BY <3>1, <3>12
      <4> HIDE DEF r
      <4>2. Len(r) = j
        BY <4>1
      <4>3. /\ Append(r, item) \in Seq(CleanItems) /\ DOMAIN Append(r, item) = 1..(j + 1)
            /\ Append(r, item)[j + 1] = item
            /\ \A i \in 1..j : Append(r, item)[i] = r[i]
        BY <4>1, <4>2
      <4> QED BY <3>1, <4>3 DEF r
    <3>14. \A i \in 1..k : i \in 1..j \/ i = k
      BY <3>1
    <3>15. \A i \in 1..k : Append(t.items, item)[i] = CleanItem(s[i])
      <4> TAKE i \in 1..k
      <4>1. i \in 1..j => t.items[i] = CleanItem(s[i])
        BY <3>2 DEF CleanedTo
      <4> QED BY <3>13, <3>14, <4>1 DEF item
    <3> QED BY <3>11, <3>13, <3>15 DEF CleanedTo
  <2> QED BY <2>1, <2>2
<1>3. Wrong = {}
  <2> SUFFICES ASSUME Wrong # {} PROVE FALSE
    OBVIOUS
  <2>1. Wrong \in SUBSET Nat
    BY <1>1
  <2> HIDE DEF Wrong
  <2>2. PICK k \in Wrong : \A m \in Wrong : k <= m
    BY <2>1, LeastNatural
  <2> QED BY <1>2, <2>2 DEF Wrong
<1>4. n \in 0..n
  BY <1>1
<1> QED BY <1>3, <1>4

(* Lines that were cleaned are the same lines when they are cleaned again. *)
LEMMA ListAgain ==
  ASSUME NEW s, SortedList(s)
  PROVE  /\ Len(CleanOrderItems(s)) = Len(s)
         /\ \A k \in DOMAIN s : CleansAlike(s[k], CleanOrderItems(s)[k])
<1> DEFINE n == Len(s)
           t == FoldLeft(AddClean, [items |-> <<>>, copies |-> {}], s)
           r == t.items
<1>1. s \in Seq(CleanItems) /\ DOMAIN s = 1..n /\ n \in Nat
  BY PlacesOf DEF SortedList
<1>2. s \in Seq(Cleanable)
  BY <1>1 DEF Cleanable
<1>3. PICK g : /\ CleanBy(s, g) /\ \A p \in SUBSET DOMAIN s : g[p] \in CleanStates
               /\ t = g[DOMAIN s]
  BY <1>2, CleaningIs
<1>4. CleanedTo(s, n, t)
  <2> HIDE DEF t
  <2> QED BY <1>1, <1>3, CleanedList
<1>5. CleanOrderItems(s) = ByName(r)
  BY DEF CleanOrderItems
<1> HIDE DEF t
<1>6. /\ r \in Seq(CleanItems) /\ DOMAIN r = 1..n
      /\ \A i \in 1..n : r[i] = CleanItem(s[i])
  BY <1>4 DEF CleanedTo
<1>7. Distinct(r)
  <2>1. t \in CleanStates
    BY <1>3
  <2> QED BY <2>1 DEF CleanStates
<1> HIDE DEF r
<1>8. \A i \in 1..n : s[i] \in CleanItems /\ r[i].product = s[i].product
  <2> TAKE i \in 1..n
  <2>1. s[i] \in CleanItems /\ s[i] \in Cleanable
    BY <1>1 DEF Cleanable
  <2> QED BY <1>6, <2>1, CleanableIs
<1>9. \A j, k \in 1..n : j < k => r[j].product < r[k].product
  BY <1>1, <1>8 DEF SortedList
<1>10. \A m \in 1..n : ByName(r)[m] = r[m]
  BY <1>1, <1>6, <1>9, OrderedStays
<1>11. Len(ByName(r)) = n
  <2>1. Len(ByName(r)) = Len(r)
    BY <1>6, <1>7, OrderedIs
  <2>2. Len(r) = n
    BY <1>1, <1>6
  <2> QED BY <2>1, <2>2
<1>12. \A k \in 1..n : CleansAlike(s[k], r[k])
  <2> TAKE k \in 1..n
  <2>1. CleanRight(s[k])
    BY <1>8 DEF CleanItems
  <2> QED BY <1>6, <2>1, CleanAgain
<1> QED BY <1>1, <1>5, <1>10, <1>11, <1>12

-----------------------------------------------------------------------------
(* An order from its page to the database.                                 *)

(* An order in the database.                                               *)
StoredOrder(order) ==
  Reportable(order) /\ \A k \in DOMAIN order.items : LineAddsUp(order.items[k])

(* The page shows rows, and what was parsed, captured and stored is right. *)
OrderInv ==
  /\ page \in Seq(OrderRows)
  /\ receipt \in Receipts \cup {None}
  /\ SortedList(best)
  /\ captured = None \/ SortedList(captured)
  /\ stored = None \/ StoredOrder(stored)

(* An order of lines that add up.                                          *)
LEMMA OrderWritten ==
  ASSUME NEW S, NEW list \in Seq(S), \A x \in S : StoredRight(x),
         receipt \in Receipts, stored = None \/ StoredOrder(stored)
  PROVE  WriteOrder(list) = stored \/ StoredOrder(WriteOrder(list))
<1> DEFINE order == [items |-> list, charged |-> receipt.charged, total |-> OrderTotal(list)]
           a == CostsOf(list)
<1>1. DOMAIN list = 1..Len(list) /\ Len(list) \in Nat
  BY PlacesOf
<1>2. \A k \in DOMAIN list : /\ list[k].total \in OrNone(Int) /\ LineAddsUp(list[k])
                             /\ list[k] \in ToSet(list)
  BY DEF StoredRight, ToSet
<1>3. list \in Seq(ToSet(list))
  BY <1>1, <1>2
<1>4. receipt.charged \in OrNone(Int) /\ receipt.total \in OrNone(Int)
  BY OrderAssumption
<1>5. OrderTotal(list) \in OrNone(Int)
  <2> DEFINE f == [k \in DOMAIN list |-> IF list[k].total = None THEN 0 ELSE list[k].total]
  <2>1. \A k \in 1..Len(list) : f[k] \in Int
    BY <1>1, <1>2 DEF OrNone
  <2>2. f \in Seq(Int)
    <3> DEFINE n == Len(list)
    <3>1. f = [k \in 1..n |-> f[k]]
      BY <1>1
    <3>2. n \in Nat /\ \A k \in 1..n : f[k] \in Int
      BY <1>1, <2>1
    <3> HIDE DEF f, n
    <3> QED BY ONLY <3>1, <3>2
  <2>3. ItemsTotal(list) = Sum(f)
    BY DEF ItemsTotal
  <2> HIDE DEF f
  <2>4. ItemsTotal(list) \in Int
    BY <2>2, <2>3, ListSum
  <2> QED BY <1>4, <2>4 DEF OrderTotal, OrNone
<1>6. Reportable(order)
  <2>1. order.items = list /\ order.charged = receipt.charged /\ order.total = OrderTotal(list)
    OBVIOUS
  <2> HIDE DEF order
  <2> QED BY <1>2, <1>3, <1>4, <1>5, <2>1 DEF Reportable
<1>7. StoredOrder(order)
  BY <1>2, <1>6 DEF StoredOrder
<1>8. WriteOrder(list) \in {stored, order}
  BY DEF WriteOrder
<1> HIDE DEF order
<1> QED BY <1>7, <1>8

(* Whatever the text of the page adds, and with the bag fee, what is       *)
(* written adds up.                                                        *)
LEMMA KnownAddUp ==
  ASSUME NEW items, SortedList(items), NEW windows \in [Products -> Windows],
         receipt \in Receipts, stored = None \/ StoredOrder(stored)
  PROVE  LET known == [k \in DOMAIN items |-> FromText(items[k], windows[items[k].product])] \o <<>>
             order == WriteOrder(IF receipt.bag = None THEN known
                                 ELSE Append(known, BagFee(receipt.bag)))
         IN order = None \/ StoredOrder(order)
<1> DEFINE n == Len(items)
           line(k) == FromText(items[k], windows[items[k].product])
           fee == BagFee(receipt.bag)
           f == [k \in DOMAIN items |-> line(k)]
           known == f \o <<>>
           list == IF receipt.bag = None THEN known ELSE Append(known, fee)
           S == {line(k) : k \in 1..n} \cup (IF receipt.bag = None THEN {} ELSE {fee})
<1>1. items \in Seq(CleanItems) /\ DOMAIN items = 1..n /\ n \in Nat
  BY PlacesOf DEF SortedList
<1>2. \A k \in 1..n : StoredRight(line(k))
  <2> TAKE k \in 1..n
  <2>1. items[k] \in CleanItems
    BY <1>1
  <2>2. CleanRight(items[k]) /\ items[k].product \in Products
    BY <2>1 DEF CleanItems, Items
  <2>3. windows[items[k].product] \in Windows
    BY <2>2
  <2> QED BY <2>2, <2>3, FromTextAddsUp
<1>3. receipt.bag # None => StoredRight(fee)
  <2> SUFFICES ASSUME receipt.bag # None PROVE StoredRight(fee)
    OBVIOUS
  <2> DEFINE b == receipt.bag
  <2>1. b \in Int
    BY OrderAssumption DEF OrNone
  <2> HIDE DEF b
  <2>2. b * 1 = b /\ Abs(b - b * 1) = 0
    BY <2>1 DEF Abs
  <2>3. /\ BagFee(b).total = b /\ BagFee(b).unit = b /\ BagFee(b).quantity = 1
        /\ ~BagFee(b).refunded
    BY DEF BagFee
  <2>4. None \notin Int
    BY OrderAssumption
  <2>5. StoredRight(BagFee(b))
    BY <2>1, <2>2, <2>3, <2>4 DEF StoredRight, LineAddsUp, OrNone
  <2> QED BY <2>5 DEF b
<1> HIDE DEF line, fee
<1>4. \A x \in S : StoredRight(x)
  BY <1>2, <1>3
<1>5. known \in Seq(S)
  <2>1. f \in Seq(S)
    <3>1. \A k \in 1..n : line(k) \in S
      OBVIOUS
    <3>2. f = [k \in 1..n |-> line(k)]
      BY <1>1
    <3> HIDE DEF f, S, n
    <3> QED BY <1>1, <3>1, <3>2
  <2> HIDE DEF f, S
  <2> QED BY <2>1
<1>6. receipt.bag # None => fee \in S
  OBVIOUS
<1>7. list \in Seq(S)
  <2> HIDE DEF S, known
  <2> QED BY <1>5, <1>6
<1> HIDE DEF S, list
<1>8. WriteOrder(list) = stored \/ StoredOrder(WriteOrder(list))
  BY <1>4, <1>7, OrderWritten
<1> QED BY <1>8 DEF list, known, f, fee, line

(* Nothing is parsed or stored before the page is open.                    *)
LEMMA OrderStarts == ASSUME OrderInit PROVE OrderInv
<1>1. <<>> \in Seq(OrderRows) /\ <<>> \in Seq(CleanItems) /\ DOMAIN <<>> = {}
  OBVIOUS
<1> QED BY <1>1 DEF OrderInit, OrderInv, SortedList

(* Every step keeps what was parsed, captured and stored right.            *)
LEMMA OrderKept == ASSUME OrderInv, [OrderNext]_orderVars PROVE OrderInv'
<1>1. CASE UNCHANGED orderVars
  BY <1>1 DEF OrderInv, orderVars
<1>2. ASSUME NEW r \in Receipts, Open(r) PROVE OrderInv'
  BY <1>2 DEF OrderInv, Open
<1>3. ASSUME NEW row \in OrderRows, Render(row) PROVE OrderInv'
  <2>1. Append(page, row) \in Seq(OrderRows)
    BY DEF OrderInv
  <2> QED BY <1>3, <2>1 DEF OrderInv, Render
<1>4. CASE Poll
  <2>1. ExtractOrderItems(page) \in Seq(Cleanable)
    <3>1. ExtractOrderItems(page) \in Seq(RawItems)
      BY ExtractedAre DEF OrderInv
    <3> HIDE DEF ExtractOrderItems
    <3> QED BY <3>1 DEF Cleanable
  <2>2. SortedList(CleanOrderItems(ExtractOrderItems(page)))
    BY <2>1, CleanedInOrder
  <2>3. best' \in {best, CleanOrderItems(ExtractOrderItems(page))}
    BY <1>4 DEF Poll
  <2>4. UNCHANGED <<page, receipt, captured, stored>>
    BY <1>4 DEF Poll
  <2> QED BY <2>2, <2>3, <2>4 DEF OrderInv
<1>5. CASE Retry
  <2>1. best \in Seq(Cleanable)
    <3>1. best \in Seq(CleanItems)
      BY DEF OrderInv, SortedList
    <3> QED BY <3>1 DEF Cleanable
  <2>2. SortedList(CleanOrderItems(best))
    BY <2>1, CleanedInOrder
  <2>3. captured' = CleanOrderItems(best) /\ best' = <<>> /\ UNCHANGED <<page, receipt, stored>>
    BY <1>5 DEF Retry
  <2>4. SortedList(<<>>)
    <3>1. <<>> \in Seq(CleanItems) /\ DOMAIN <<>> = {}
      OBVIOUS
    <3> QED BY <3>1 DEF SortedList
  <2> QED BY <2>2, <2>3, <2>4 DEF OrderInv
<1>6. ASSUME NEW windows \in [Products -> Windows], Finish(windows) PROVE OrderInv'
  <2> DEFINE fresh == CleanOrderItems(best)
             items == IF captured = None \/ ItemsTotal(fresh) > ItemsTotal(captured)
                      THEN fresh ELSE captured
             known == [k \in DOMAIN items |-> FromText(items[k], windows[items[k].product])] \o <<>>
             order == WriteOrder(IF receipt.bag = None THEN known
                                 ELSE Append(known, BagFee(receipt.bag)))
  <2>1. best \in Seq(Cleanable)
    <3>1. best \in Seq(CleanItems)
      BY DEF OrderInv, SortedList
    <3> QED BY <3>1 DEF Cleanable
  <2>2. SortedList(fresh)
    BY <2>1, CleanedInOrder
  <2>3. /\ receipt # None /\ stored' = order
        /\ page' = <<>> /\ receipt' = None /\ best' = <<>> /\ captured' = None
    BY <1>6 DEF Finish
  <2> HIDE DEF fresh
  <2>4. SortedList(items)
    BY <2>2 DEF OrderInv
  <2>5. receipt \in Receipts /\ (stored = None \/ StoredOrder(stored))
    BY <2>3 DEF OrderInv
  <2> HIDE DEF items
  <2>6. order = None \/ StoredOrder(order)
    BY <2>4, <2>5, KnownAddUp
  <2> HIDE DEF order
  <2>7. SortedList(<<>>) /\ <<>> \in Seq(OrderRows)
    <3>1. <<>> \in Seq(CleanItems) /\ DOMAIN <<>> = {} /\ <<>> \in Seq(OrderRows)
      OBVIOUS
    <3> QED BY <3>1 DEF SortedList
  <2> QED BY <2>3, <2>6, <2>7 DEF OrderInv
<1> QED BY <1>1, <1>2, <1>3, <1>4, <1>5, <1>6 DEF OrderNext

(* The lines and the reports of an order that is right add up.             *)
LEMMA OrderHolds == ASSUME OrderInv PROVE OrderLinesAddUp
<1>1. stored # None => \A k \in DOMAIN stored.items : LineAddsUp(stored.items[k])
  BY DEF OrderInv, StoredOrder
<1>2. stored # None =>
        \E categories \in {SetToSeq({CategoryOf[i.product] : i \in ToSet(stored.items)})} :
           SheetsAgree(stored, categories, ItemShares(stored), CategoryShares(stored, categories))
  <2>1. stored # None => Reportable(stored)
    BY DEF OrderInv, StoredOrder
  <2> DEFINE categories == SetToSeq(CategoriesOf(stored))
  <2>2. stored # None =>
          SheetsAgree(stored, categories, ItemShares(stored), CategoryShares(stored, categories))
    BY <2>1, SheetsShare
  <2>3. categories = SetToSeq({CategoryOf[i.product] : i \in ToSet(stored.items)})
    BY DEF CategoriesOf
  <2> HIDE DEF categories
  <2> QED BY <2>2, <2>3
<1>3. \A again \in {CleanOrderItems(best)} :
         Len(again) = Len(best) /\ \A k \in DOMAIN best : CleansAlike(best[k], again[k])
  BY ListAgain DEF OrderInv
<1> QED BY <1>1, <1>2, <1>3 DEF OrderLinesAddUp

(* Every line stored of an order says how many were bought, what one costs *)
(* and what all cost in agreement, whatever order the cards and fragments  *)
(* rendered in and however often a line was cleaned; cleaning it again     *)
(* changes no quantity; and the reports share out exactly what was         *)
(* charged.                                                                *)
THEOREM LinesAddUp == OrderSpec => []OrderLinesAddUp
<1>1. OrderInit => OrderInv
  BY OrderStarts
<1>2. OrderInv /\ [OrderNext]_orderVars => OrderInv'
  BY OrderKept
<1>3. OrderInv => OrderLinesAddUp
  BY OrderHolds
<1> QED BY <1>1, <1>2, <1>3, PTL DEF OrderSpec
=============================================================================

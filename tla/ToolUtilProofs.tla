--------------------------- MODULE ToolUtilProofs ---------------------------
(***************************************************************************)
(* What the helpers of the tools and the operators on sequences return,    *)
(* for texts of any length and any limit.                                  *)
(***************************************************************************)
EXTENDS ToolUtil, SequencesExt, FunctionTheorems, FiniteSetTheorems, SequenceTheorems, WellFoundedInduction, TLAPS

\* A set of numbers with a bound has a greatest one.
LEMMA MaxOf ==
  ASSUME NEW S \in SUBSET Nat, S # {}, NEW b \in Nat, \A x \in S : x <= b
  PROVE  Max(S) \in S /\ \A x \in S : x <= Max(S)
<1> DEFINE bounds == {u \in Nat : \A x \in S : x <= u}
<1>1. PICK u \in bounds : \A v \in bounds : ~(<<v, u>> \in OpToRel(<, Nat))
  <2>1. b \in bounds /\ bounds \subseteq Nat
    OBVIOUS
  <2> QED
    BY <2>1, NatLessThanWellFounded, WFMin
<1>2. \A v \in bounds : ~(v < u)
  BY <1>1 DEF OpToRel
<1>3. u \in S
  <2> SUFFICES ASSUME u \notin S PROVE FALSE
    OBVIOUS
  <2>1. \A x \in S : x \in Nat /\ x <= u /\ x # u
    OBVIOUS
  <2>2. u \in Nat /\ u - 1 \in Nat /\ \A x \in S : x <= u - 1
    <3>1. u \in Nat
      BY <1>1
    <3>2. PICK x \in S : TRUE
      OBVIOUS
    <3>3. x \in Nat /\ x < u
      BY <2>1, <3>1
    <3> HIDE DEF bounds
    <3> QED
      BY <2>1, <3>1, <3>3
  <2>3. u - 1 \in bounds
    BY <2>2
  <2> QED
    BY <1>2, <2>2, <2>3
<1> QED
  BY <1>3 DEF Max

\* A set of numbers has a smallest one.
LEMMA MinOf ==
  ASSUME NEW S \in SUBSET Nat, S # {}
  PROVE  Min(S) \in S /\ \A x \in S : Min(S) <= x
<1>1. PICK u \in S : \A v \in S : ~(<<v, u>> \in OpToRel(<, Nat))
  BY NatLessThanWellFounded, WFMin
<1>2. u \in Nat /\ \A v \in S : v \in Nat /\ ~(v < u)
  BY <1>1 DEF OpToRel
<1>3. \A v \in S : u <= v
  BY <1>2
<1> QED
  BY <1>1, <1>3 DEF Min

\* Induction over the numbers up to n, for a set of them.
LEMMA UpToN ==
  ASSUME NEW n \in Int, NEW S, 1 \in S, \A i \in 2..n : i - 1 \in S => i \in S
  PROVE  1..n \subseteq S
<1> DEFINE bad == (1..n) \ S
<1> SUFFICES ASSUME bad # {} PROVE FALSE
  OBVIOUS
<1>1. bad \in SUBSET Nat
  OBVIOUS
<1>2. Min(bad) \in bad /\ \A x \in bad : Min(bad) <= x
  BY <1>1, MinOf
<1> DEFINE m == Min(bad)
<1>3. m \in 1..n /\ m \notin S
  BY <1>2
<1> HIDE DEF m, bad
<1>4. m \in 2..n /\ m - 1 \in 1..n /\ ~(m <= m - 1)
  BY <1>3
<1>5. m - 1 \in S
  BY <1>2, <1>4 DEF bad, m
<1> QED
  BY <1>3, <1>4, <1>5

\* The same from nought.
LEMMA FromNought ==
  ASSUME NEW n \in Nat, NEW S, 0 \in S, \A i \in 1..n : i - 1 \in S => i \in S
  PROVE  0..n \subseteq S
<1> DEFINE bad == (0..n) \ S
<1> SUFFICES ASSUME bad # {} PROVE FALSE
  OBVIOUS
<1>1. bad \in SUBSET Nat
  OBVIOUS
<1>2. PICK m \in bad : \A x \in bad : m <= x
  <2>1. Min(bad) \in bad /\ \A x \in bad : Min(bad) <= x
    BY <1>1, MinOf
  <2> QED
    BY <2>1
<1>3. m \in 1..n /\ m - 1 \in 0..n /\ ~(m <= m - 1)
  OBVIOUS
<1>4. m - 1 \in S
  BY <1>2, <1>3
<1> QED
  BY <1>3, <1>4

\* The smaller and the greater of two numbers.
LEMMA MinOfTwo ==
  ASSUME NEW a \in Int, NEW b \in Int
  PROVE  /\ Min({a, b}) \in {a, b} /\ Min({a, b}) <= a /\ Min({a, b}) <= b
         /\ Max({a, b}) \in {a, b} /\ a <= Max({a, b}) /\ b <= Max({a, b})
<1>1. \E x \in {a, b} : \A y \in {a, b} : x <= y
  OBVIOUS
<1>2. \E x \in {a, b} : \A y \in {a, b} : x >= y
  OBVIOUS
<1>3. Min({a, b}) \in {a, b} /\ \A y \in {a, b} : Min({a, b}) <= y
  BY <1>1 DEF Min
<1>4. Max({a, b}) \in {a, b} /\ \A y \in {a, b} : Max({a, b}) >= y
  BY <1>2 DEF Max
<1> QED
  BY <1>3, <1>4

\* A limit is never zero and never above the hard one.
LEMMA Clamped ==
  ASSUME NEW n \in Int, NEW def \in Nat \ {0}, NEW max \in Nat \ {0}
  PROVE  clampLimit(n, def, max) \in Nat \ {0} /\ clampLimit(n, def, max) <= max
<1> DEFINE m == IF n <= 0 THEN def ELSE n
<1>1. m \in Nat \ {0}
  OBVIOUS
<1> HIDE DEF m
<1>2. Min({m, max}) \in {m, max} /\ Min({m, max}) <= max
  BY <1>1, MinOfTwo
<1> QED
  BY <1>1, <1>2 DEF clampLimit, m

\* The numbers of a finite set, from the smallest to the greatest.
LEMMA NthOf ==
  ASSUME NEW S \in SUBSET Int, IsFiniteSet(S)
  PROVE  /\ Cardinality(S) \in Nat
         /\ \A k \in 1..Cardinality(S) :
              Nth(S, k) \in S /\ Cardinality({m \in S : m <= Nth(S, k)}) = k
         /\ \A j, k \in 1..Cardinality(S) : j < k => Nth(S, j) < Nth(S, k)
         /\ \A n \in S : \E k \in 1..Cardinality(S) : n = Nth(S, k)
<1> DEFINE upTo(n) == {m \in S : m <= n}
           rank == [n \in S |-> Cardinality(upTo(n))]
           c == Cardinality(S)
<1>1. c \in Nat
  BY FS_CardinalityType
<1>2. \A n \in S : IsFiniteSet(upTo(n)) /\ Cardinality(upTo(n)) \in Nat /\ Cardinality(upTo(n)) <= c
  BY FS_Subset, FS_CardinalityType
<1>3. ASSUME NEW n \in S PROVE Cardinality(upTo(n)) \in 1..c
  <2>1. upTo(n) # {}
    OBVIOUS
  <2>2. Cardinality(upTo(n)) # 0
    BY <1>2, <2>1, FS_EmptySet
  <2> QED
    BY <1>1, <1>2, <2>2
<1>4. ASSUME NEW m \in S, NEW n \in S, m < n PROVE Cardinality(upTo(m)) < Cardinality(upTo(n))
  <2>1. upTo(m) \in SUBSET upTo(n) /\ n \in upTo(n) /\ n \notin upTo(m)
    <3>1. m \in Int /\ n \in Int /\ \A l \in S : l \in Int
      OBVIOUS
    <3>2. n <= n /\ ~(n <= m) /\ \A l \in S : l <= m => l <= n
      BY <1>4, <3>1
    <3> QED
      BY <3>2
  <2>2. Cardinality(upTo(m)) <= Cardinality(upTo(n)) /\ Cardinality(upTo(m)) # Cardinality(upTo(n))
    BY <1>2, <2>1, FS_Subset
  <2> QED
    BY <1>2, <2>2
<1> HIDE DEF upTo
<1>5. rank \in Injection(S, 1..c)
  <2>1. rank \in [S -> 1..c]
    BY <1>3
  <2>2. \A m, n \in S : rank[m] = rank[n] => m = n
    BY <1>2, <1>4
  <2> QED
    BY <2>1, <2>2 DEF Injection, IsInjective
<1>6. rank \in Surjection(S, 1..c)
  <2>1. IsFiniteSet(1..c) /\ Cardinality(1..c) = c
    BY <1>1, FS_Interval
  <2> QED
    BY <1>5, <2>1, FS_Injection
<1>7. ASSUME NEW k \in 1..c PROVE Nth(S, k) \in S /\ Cardinality(upTo(Nth(S, k))) = k
  <2>1. \E n \in S : Cardinality(upTo(n)) = k
    <3>1. \E n \in S : rank[n] = k
      BY <1>6 DEF Surjection
    <3> QED
      BY <3>1
  <2>2. Nth(S, k) = CHOOSE n \in S : Cardinality(upTo(n)) = k
    BY DEF Nth, upTo
  <2> QED
    BY <2>1, <2>2
<1>8. ASSUME NEW j \in 1..c, NEW k \in 1..c, j < k PROVE Nth(S, j) < Nth(S, k)
  <2>1. Nth(S, j) \in Int /\ Nth(S, k) \in Int
    BY <1>7
  <2>2. CASE Nth(S, j) = Nth(S, k)
    <3>1. j = k
      BY <1>7, <2>2
    <3> QED
      BY <1>8, <3>1
  <2>3. CASE Nth(S, k) < Nth(S, j)
    <3>1. k < j
      BY <1>4, <1>7, <2>3
    <3> QED
      BY <1>8, <3>1
  <2> QED
    BY <2>1, <2>2, <2>3
<1>9. ASSUME NEW n \in S PROVE \E k \in 1..c : n = Nth(S, k)
  <2> DEFINE k == Cardinality(upTo(n))
  <2>1. k \in 1..c
    BY <1>3
  <2>2. rank[Nth(S, k)] = rank[n] /\ Nth(S, k) \in S
    BY <1>7, <2>1
  <2>3. n = Nth(S, k)
    BY <1>5, <2>2 DEF Injection, IsInjective
  <2> QED
    BY <2>1, <2>3
<1> QED
  BY <1>1, <1>7, <1>8, <1>9 DEF upTo

\* The greatest number is the last.
LEMMA NthLast ==
  ASSUME NEW S \in SUBSET Int, IsFiniteSet(S), NEW e \in S, \A m \in S : m <= e
  PROVE  Cardinality(S) \in Nat \ {0} /\ Nth(S, Cardinality(S)) = e
<1> DEFINE c == Cardinality(S)
<1>1. /\ c \in Nat /\ \A k \in 1..c : Nth(S, k) \in S
      /\ \A j, k \in 1..c : j < k => Nth(S, j) < Nth(S, k)
      /\ \E k \in 1..c : e = Nth(S, k)
  BY NthOf
<1> HIDE DEF c
<1>2. PICK k \in 1..c : e = Nth(S, k)
  BY <1>1
<1>3. c \in Nat \ {0} /\ c \in 1..c
  BY <1>1
<1>4. k = c
  <2>1. SUFFICES ASSUME k < c PROVE FALSE
    BY <1>3
  <2>2. Nth(S, c) \in Int /\ e \in Int /\ e < Nth(S, c) /\ Nth(S, c) <= e
    BY <1>1, <1>2, <1>3, <2>1
  <2> QED
    BY <2>2
<1> QED
  BY <1>2, <1>3, <1>4 DEF c

\* A number above all others comes last.
LEMMA NthExtended ==
  ASSUME NEW S \in SUBSET Int, IsFiniteSet(S), NEW e \in Int, \A m \in S : m < e
  PROVE  LET c == Cardinality(S)
             T == S \cup {e}
         IN  /\ c \in Nat /\ Cardinality(T) = c + 1
             /\ \A k \in 1..c : Nth(T, k) = Nth(S, k)
             /\ Nth(T, c + 1) = e
<1> DEFINE c == Cardinality(S)
           T == S \cup {e}
           upTo(n) == {m \in T : m <= n}
<1>1. c \in Nat /\ e \notin S
  <2>1. e \notin S
    OBVIOUS
  <2> QED
    BY <2>1, FS_CardinalityType
<1>2. T \in SUBSET Int /\ IsFiniteSet(T) /\ Cardinality(T) = c + 1
  BY <1>1, FS_AddElement
<1>3. \A k \in 1..c : Nth(S, k) \in S /\ Cardinality({m \in S : m <= Nth(S, k)}) = k
  BY NthOf
<1>4. /\ \A k \in 1..(c + 1) : Cardinality(upTo(Nth(T, k))) = k
      /\ \A n \in T : \E k \in 1..(c + 1) : n = Nth(T, k)
  BY <1>2, NthOf
<1>5. \A n \in T : Nth(T, Cardinality(upTo(n))) = n
  BY <1>4
<1>6. ASSUME NEW k \in 1..c PROVE Nth(T, k) = Nth(S, k)
  <2> DEFINE n == Nth(S, k)
  <2>1. n \in S /\ n \in Int /\ n < e
    BY <1>3
  <2> HIDE DEF n
  <2>2. ~(e <= n)
    BY <2>1
  <2>3. upTo(n) = {m \in S : m <= n}
    BY <2>2
  <2>4. Cardinality(upTo(n)) = k /\ n \in T
    BY <1>3, <2>1, <2>3 DEF n
  <2>5. Nth(T, k) = n
    BY <1>5, <2>4
  <2> QED
    BY <2>5 DEF n
<1>7. Nth(T, c + 1) = e
  <2>1. \A m \in T : m <= e
    OBVIOUS
  <2>2. upTo(e) = T
    BY <2>1
  <2>3. Cardinality(upTo(e)) = c + 1 /\ e \in T
    BY <1>2, <2>2
  <2> QED
    BY <1>5, <2>3
<1> QED
  BY <1>1, <1>2, <1>6, <1>7

\* capOutput leaves a text that fits alone, and cuts another at the last start of a
\* rune that fits.
LEMMA CapOutputCuts ==
  ASSUME NEW T, NEW s \in Seq(T), NEW max \in Int
  PROVE  /\ max < 0 \/ Len(s) <= max => capOutput(s, max) = <<s, FALSE>>
         /\ ~(max < 0 \/ Len(s) <= max) =>
              \E n \in 0..max :
                /\ capOutput(s, max) = <<SubSeq(s, 1, n), TRUE>>
                /\ n = 0 \/ s[n + 1] # Cont
                /\ \A k \in (n + 1)..max : s[k + 1] = Cont
<1>1. CASE max < 0 \/ Len(s) <= max
  BY <1>1 DEF capOutput
<1>2. CASE ~(max < 0 \/ Len(s) <= max)
  <2> DEFINE starts == {k \in 0..max : k = 0 \/ s[k + 1] # Cont}
             n == Max(starts)
  <2>1. max \in Nat
    BY <1>2
  <2>2. starts \in SUBSET Nat /\ 0 \in starts /\ \A k \in starts : k <= max
    BY <2>1
  <2> HIDE DEF starts
  <2>3. n \in starts /\ \A k \in starts : k <= n
    BY <2>1, <2>2, MaxOf
  <2>4. capOutput(s, max) = <<SubSeq(s, 1, n), TRUE>>
    BY <1>2 DEF capOutput, starts
  <2> HIDE DEF n
  <2>5. n \in 0..max /\ (n = 0 \/ s[n + 1] # Cont)
    BY <2>3 DEF starts
  <2>6. ASSUME NEW k \in (n + 1)..max PROVE s[k + 1] = Cont
    <3>1. k \in 0..max /\ k # 0 /\ ~(k <= n)
      BY <2>5
    <3>2. k \notin starts
      BY <2>3, <3>1
    <3> QED
      BY <3>1, <3>2 DEF starts
  <2> QED
    BY <1>2, <2>4, <2>5, <2>6
<1> QED
  BY <1>1, <1>2

-----------------------------------------------------------------------------
(***************************************************************************)
(* Sequences.                                                              *)
(***************************************************************************)

\* The sequences g that the first m elements of s join up to, one after the other.
Joins(g, s, m) == g = [i \in 1..m |-> IF i = 1 THEN s[i] ELSE g[i - 1] \o s[i]]

\* Joining one element after the other has a result.
LEMMA JoinsExist ==
  ASSUME NEW s, NEW n \in Nat
  PROVE  \E g : Joins(g, s, n)
<1> DEFINE bad == {m \in Nat : ~\E g : Joins(g, s, m)}
<1> SUFFICES ASSUME bad # {} PROVE FALSE
  OBVIOUS
<1>1. PICK m \in bad : \A v \in bad : ~(<<v, m>> \in OpToRel(<, Nat))
  BY NatLessThanWellFounded, WFMin
<1>2. m \in Nat /\ \A v \in bad : v \in Nat /\ ~(v < m)
  BY <1>1 DEF OpToRel
<1>3. m # 0
  <2>1. Joins([i \in 1..0 |-> 0], s, 0)
    BY DEF Joins
  <2> QED
    BY <1>1, <2>1
<1>4. PICK g : Joins(g, s, m - 1)
  <2>1. m - 1 \in Nat /\ m - 1 < m
    BY <1>2, <1>3
  <2> QED
    BY <1>2, <2>1
<1> DEFINE h == [i \in 1..m |-> IF i = m THEN (IF i = 1 THEN s[i] ELSE g[i - 1] \o s[i]) ELSE g[i]]
<1>5. ASSUME NEW i \in 1..m PROVE h[i] = IF i = 1 THEN s[i] ELSE h[i - 1] \o s[i]
  <2>1. i # 1 => i - 1 \in 1..m /\ i - 1 # m /\ h[i - 1] = g[i - 1]
    BY <1>2, <1>3
  <2>2. CASE i = m
    BY <2>1, <2>2
  <2>3. CASE i # m
    <3>1. i \in 1..(m - 1)
      BY <1>2, <1>3, <2>3
    <3>2. g[i] = IF i = 1 THEN s[i] ELSE g[i - 1] \o s[i]
      BY <1>4, <3>1 DEF Joins
    <3> QED
      BY <2>1, <2>3, <3>2
  <2> QED
    BY <2>2, <2>3
<1>6. Joins(h, s, m)
  <2>1. h = [i \in 1..m |-> h[i]]
    OBVIOUS
  <2> HIDE DEF h
  <2> QED
    BY <1>5, <2>1 DEF Joins
<1> QED
  BY <1>1, <1>6

\* What FlattenSeq returns.
LEMMA FlattenJoins ==
  ASSUME NEW T, NEW s \in Seq(Seq(T)), Len(s) # 0
  PROVE  \E g : /\ FlattenSeq(s) = g[Len(s)] /\ g[1] = s[1]
                /\ \A i \in 2..Len(s) : g[i] = g[i - 1] \o s[i]
<1> DEFINE g == CHOOSE f : Joins(f, s, Len(s))
<1>1. Len(s) \in Nat \ {0}
  OBVIOUS
<1>2. Joins(g, s, Len(s))
  BY <1>1, JoinsExist
<1>3. FlattenSeq(s) = g[Len(s)]
  BY <1>1 DEF FlattenSeq, Joins
<1> HIDE DEF g
<1>4. \A i \in 1..Len(s) : g[i] = IF i = 1 THEN s[i] ELSE g[i - 1] \o s[i]
  BY <1>2 DEF Joins
<1>5. 1 \in 1..Len(s) /\ \A i \in 2..Len(s) : i \in 1..Len(s) /\ i # 1
  BY <1>1
<1> QED
  BY <1>3, <1>4, <1>5

\* Sequences joined are a sequence.
LEMMA FlattenType ==
  ASSUME NEW T, NEW s \in Seq(Seq(T))
  PROVE  FlattenSeq(s) \in Seq(T)
<1>1. CASE Len(s) = 0
  <2>1. s = <<>>
    BY <1>1
  <2>2. FlattenSeq(s) = s
    BY <1>1 DEF FlattenSeq
  <2>3. <<>> \in Seq(T)
    OBVIOUS
  <2> QED
    BY <2>1, <2>2, <2>3, Zenon
<1>2. CASE Len(s) # 0
  <2>1. PICK g : /\ FlattenSeq(s) = g[Len(s)] /\ g[1] = s[1]
                 /\ \A i \in 2..Len(s) : g[i] = g[i - 1] \o s[i]
    BY <1>2, FlattenJoins
  <2>2. Len(s) \in Nat \ {0} /\ \A i \in 1..Len(s) : s[i] \in Seq(T)
    BY <1>2
  <2> DEFINE S == {i \in 1..Len(s) : g[i] \in Seq(T)}
  <2>3. 1 \in S
    BY <2>1, <2>2
  <2>4. \A i \in 2..Len(s) : i \in 1..Len(s)
    BY <2>2
  <2>5. ASSUME NEW i \in 2..Len(s), i - 1 \in S PROVE i \in S
    <3>1. g[i - 1] \in Seq(T) /\ s[i] \in Seq(T) /\ g[i] = g[i - 1] \o s[i]
      BY <2>1, <2>2, <2>4, <2>5
    <3>2. g[i] \in Seq(T)
      BY <3>1, ConcatProperties
    <3> QED
      BY <2>4, <3>2
  <2>6. 1..Len(s) \subseteq S
    <3> HIDE DEF S
    <3>1. Len(s) \in Int
      OBVIOUS
    <3> QED
      BY <2>3, <2>5, <3>1, UpToN, Zenon
  <2>7. Len(s) \in 1..Len(s)
    BY <2>2
  <2> QED
    BY <2>1, <2>6, <2>7
<1> QED
  BY <1>1, <1>2

\* Nothing joins up to nothing, and another sequence is added at the end.
LEMMA FlattenAppend ==
  ASSUME NEW T, NEW s \in Seq(Seq(T)), NEW e \in Seq(T)
  PROVE  FlattenSeq(<<>>) = <<>> /\ FlattenSeq(Append(s, e)) = FlattenSeq(s) \o e
<1> DEFINE t == Append(s, e)
           n == Len(s)
<1>1. /\ t \in Seq(Seq(T)) /\ Len(t) = n + 1 /\ n \in Nat /\ t[n + 1] = e
      /\ \A i \in 1..n : t[i] = s[i]
  OBVIOUS
<1>2. FlattenSeq(<<>>) = <<>>
  BY DEF FlattenSeq
<1> HIDE DEF t, n
<1>3. PICK h : /\ FlattenSeq(t) = h[n + 1] /\ h[1] = t[1]
               /\ \A i \in 2..(n + 1) : h[i] = h[i - 1] \o t[i]
  <2>1. Len(t) # 0
    BY <1>1
  <2>2. \E h : /\ FlattenSeq(t) = h[Len(t)] /\ h[1] = t[1]
               /\ \A i \in 2..Len(t) : h[i] = h[i - 1] \o t[i]
    BY <1>1, <2>1, FlattenJoins
  <2> QED
    BY <1>1, <2>2
<1>4. CASE n = 0
  <2>1. s = <<>>
    BY <1>4 DEF n
  <2>2. FlattenSeq(t) = e
    BY <1>1, <1>3, <1>4
  <2>3. FlattenSeq(s) = <<>>
    BY <1>2, <2>1
  <2> QED
    BY <1>2, <2>2, <2>3 DEF t
<1>5. CASE n # 0
  <2>1. PICK g : /\ FlattenSeq(s) = g[n] /\ g[1] = s[1]
                 /\ \A i \in 2..n : g[i] = g[i - 1] \o s[i]
    BY <1>5, FlattenJoins DEF n
  <2> DEFINE S == {i \in 1..n : g[i] = h[i]}
  <2>2. 1 \in S
    BY <1>1, <1>3, <1>5, <2>1
  <2>3. ASSUME NEW i \in 2..n, i - 1 \in S PROVE i \in S
    <3>1. i \in 1..n /\ i \in 2..(n + 1)
      BY <1>1
    <3>2. h[i] = h[i - 1] \o t[i] /\ t[i] = s[i]
      BY <1>1, <1>3, <3>1
    <3> QED
      BY <2>1, <2>3, <3>1, <3>2
  <2>4. 1..n \subseteq S
    <3> HIDE DEF S
    <3>1. n \in Int
      BY <1>1
    <3> QED
      BY <2>2, <2>3, <3>1, UpToN, Zenon
  <2>5. n \in 1..n /\ n + 1 \in 2..(n + 1) /\ (n + 1) - 1 = n
    BY <1>1, <1>5
  <2>6. h[n + 1] = h[n] \o e
    BY <1>1, <1>3, <2>5
  <2>7. g[n] = h[n]
    BY <2>4, <2>5
  <2>8. FlattenSeq(t) = FlattenSeq(s) \o e
    BY <1>3, <2>1, <2>6, <2>7
  <2> QED
    BY <1>2, <2>8 DEF t
<1> QED
  BY <1>4, <1>5

\* A part of a sequence.
LEMMA PartOf ==
  ASSUME NEW T, NEW s \in Seq(T), NEW a \in Nat \ {0}, NEW b \in Int, b <= Len(s)
  PROVE  /\ SubSeq(s, a, b) \in Seq(T)
         /\ Len(SubSeq(s, a, b)) = IF a <= b THEN b - a + 1 ELSE 0
         /\ \A i \in 1..(b - a + 1) : SubSeq(s, a, b)[i] = s[a + i - 1]
<1>1. Len(s) \in Nat /\ \A i \in 1..Len(s) : s[i] \in T
  OBVIOUS
<1>2. a \in Int /\ \A i \in a..b : s[i] \in T
  BY <1>1
<1> QED
  BY <1>2, SubSeqProperties

\* Sequences that agree on a part have it in common.
LEMMA SamePart ==
  ASSUME NEW T, NEW s \in Seq(T), NEW t \in Seq(T), NEW a \in Nat \ {0}, NEW b \in Int,
         b <= Len(s), b <= Len(t), \A i \in a..b : s[i] = t[i]
  PROVE  SubSeq(s, a, b) = SubSeq(t, a, b)
<1> DEFINE n == IF a <= b THEN b - a + 1 ELSE 0
           x == SubSeq(s, a, b)
           y == SubSeq(t, a, b)
<1>1. x \in Seq(T) /\ Len(x) = n /\ \A i \in 1..(b - a + 1) : x[i] = s[a + i - 1]
  BY PartOf
<1>2. y \in Seq(T) /\ Len(y) = n /\ \A i \in 1..(b - a + 1) : y[i] = t[a + i - 1]
  BY PartOf
<1> HIDE DEF x, y
<1>3. ASSUME NEW i \in 1..n PROVE x[i] = y[i]
  <2>1. i \in 1..(b - a + 1) /\ a + i - 1 \in a..b
    OBVIOUS
  <2> QED
    BY <1>1, <1>2, <2>1
<1>4. x = y
  BY <1>1, <1>2, <1>3, SeqEqual
<1> QED
  BY <1>4 DEF x, y

\* The beginning of a sequence.
LEMMA Beginning ==
  ASSUME NEW T, NEW s \in Seq(T), NEW m \in 0..Len(s)
  PROVE  /\ SubSeq(s, 1, m) \in Seq(T) /\ Len(SubSeq(s, 1, m)) = m
         /\ \A i \in 1..m : SubSeq(s, 1, m)[i] = s[i]
<1>1. m \in Int /\ m <= Len(s) /\ m >= 0
  OBVIOUS
<1>2. /\ SubSeq(s, 1, m) \in Seq(T)
      /\ Len(SubSeq(s, 1, m)) = IF 1 <= m THEN m - 1 + 1 ELSE 0
      /\ \A i \in 1..(m - 1 + 1) : SubSeq(s, 1, m)[i] = s[1 + i - 1]
  BY <1>1, PartOf
<1>3. (IF 1 <= m THEN m - 1 + 1 ELSE 0) = m /\ m - 1 + 1 = m
  BY <1>1
<1>4. \A i \in 1..m : 1 + i - 1 = i
  BY <1>1
<1> QED
  BY <1>2, <1>3, <1>4

\* What is appended to a sequence leaves its beginning alone.
LEMMA BeginningStays ==
  ASSUME NEW T, NEW s \in Seq(T), NEW t \in Seq(T)
  PROVE  /\ s \o t \in Seq(T) /\ Len(s \o t) = Len(s) + Len(t)
         /\ \A i \in 1..Len(s) : (s \o t)[i] = s[i]
         /\ \A a \in Nat \ {0}, b \in Int : b <= Len(s) => SubSeq(s \o t, a, b) = SubSeq(s, a, b)
<1>1. /\ s \o t \in Seq(T) /\ Len(s \o t) = Len(s) + Len(t)
      /\ \A i \in 1..Len(s) : (s \o t)[i] = s[i]
      /\ Len(s) \in Nat /\ Len(t) \in Nat
  OBVIOUS
<1> DEFINE u == s \o t
<1> HIDE DEF u
<1>2. ASSUME NEW a \in Nat \ {0}, NEW b \in Int, b <= Len(s) PROVE SubSeq(u, a, b) = SubSeq(s, a, b)
  <2>1. u \in Seq(T) /\ b <= Len(u)
    BY <1>1, <1>2 DEF u
  <2>2. \A i \in a..b : i \in 1..Len(s)
    BY <1>1, <1>2
  <2>3. \A i \in a..b : u[i] = s[i]
    BY <1>1, <2>2 DEF u
  <2> QED
    BY <1>2, <2>1, <2>3, SamePart
<1> QED
  BY <1>1, <1>2 DEF u
=============================================================================

--------------------------- MODULE CountingLemmas ---------------------------
(* Facts about the least and the greatest element of a set of numbers, about *)
(* how many arguments of a function have a given value, about functions that *)
(* are defined by recursion, and about sequences that are joined, for the    *)
(* proofs of the other modules.  They say nothing of the program.            *)
EXTENDS Integers, FiniteSets, FiniteSetsExt, SequencesExt, FiniteSetTheorems, WellFoundedInduction,
        TLAPS

\* Every set of natural numbers has a least element.  It is derived from the
\* well-foundedness of strict inclusion on finite sets.
LEMMA LeastElement ==
  ASSUME NEW T \in SUBSET Nat, T # {}
  PROVE  \E x \in T : \A y \in T : x <= y
<1> DEFINE U == {0 .. n : n \in T}
<1>1. U \subseteq FiniteSubsetsOf(Nat)
  <2>1. \A n \in T : IsFiniteSet(0 .. n)
    BY FS_Interval
  <2> QED
    BY <2>1 DEF FiniteSubsetsOf
<1>2. U # {}
  OBVIOUS
<1> HIDE DEF U
<1>3. \E x \in U : \A y \in U : ~ (<<y, x>> \in StrictSubsetOrdering(Nat))
  BY <1>1, <1>2, FS_StrictSubsetOrderingWellFounded, WFMin
<1>4. PICK m \in T : \A n \in T : <<0 .. n, 0 .. m>> \notin StrictSubsetOrdering(Nat)
  BY <1>3 DEF U
<1>5. ASSUME NEW n \in T, n < m
      PROVE  FALSE
  <2>1. /\ 0 .. n \subseteq 0 .. m /\ m \in 0 .. m /\ m \notin 0 .. n
        /\ 0 .. n \in SUBSET Nat /\ 0 .. m \in SUBSET Nat
    BY <1>5
  <2> QED
    BY <1>4, <2>1 DEF StrictSubsetOrdering
<1> QED
  BY <1>5

\* Min is what its name says.
LEMMA MinIsLeast ==
  ASSUME NEW S \in SUBSET Nat, S # {}
  PROVE  Min(S) \in S /\ \A y \in S : Min(S) <= y
BY LeastElement DEF Min

\* So is Max, for a set that is bounded.
LEMMA MaxIsGreatest ==
  ASSUME NEW S \in SUBSET Nat, S # {}, NEW n \in Nat, \A y \in S : y <= n
  PROVE  Max(S) \in S /\ \A y \in S : y <= Max(S)
<1> DEFINE bounds == {m \in Nat : \A y \in S : y <= m}
<1>1. PICK m \in bounds : \A k \in bounds : m <= k
  <2>1. n \in bounds
    OBVIOUS
  <2> QED
    BY <2>1, LeastElement
<1>2. m \in S
  <2>1. SUFFICES ASSUME m \notin S
                 PROVE  FALSE
    OBVIOUS
  <2>2. \A y \in S : y < m
    BY <2>1
  <2>3. m # 0
    <3>1. PICK y \in S : TRUE
      OBVIOUS
    <3>2. y \in Nat /\ y < m
      BY <2>2
    <3> QED
      BY <3>2
  <2>4. m - 1 \in bounds
    BY <2>2, <2>3
  <2> QED
    BY <1>1, <2>4
<1> QED
  BY <1>2 DEF Max

-----------------------------------------------------------------------------
\* The number of arguments of f in S with the value c.
Count(S, f, c) == Cardinality({i \in S : f[i] = c})

LEMMA CountType ==
  ASSUME NEW S, IsFiniteSet(S), NEW f, NEW c
  PROVE  Count(S, f, c) \in Nat
<1>1. {i \in S : f[i] = c} \in SUBSET S
  OBVIOUS
<1>2. IsFiniteSet({i \in S : f[i] = c})
  BY <1>1, FS_Subset
<1> QED
  BY <1>2, FS_CardinalityType DEF Count

\* The arguments in T lose their values.
LEMMA CountRemoved ==
  ASSUME NEW S, IsFiniteSet(S), NEW T \in SUBSET S, NEW f, NEW g, NEW c,
         \A i \in S : IF i \in T THEN g[i] # c ELSE g[i] = f[i]
  PROVE  /\ Count(S, f, c) \in Nat /\ Count(T, f, c) \in Nat
         /\ Count(S, g, c) = Count(S, f, c) - Count(T, f, c)
<1> DEFINE A == {i \in S : f[i] = c}
           B == {i \in T : f[i] = c}
<1>1. IsFiniteSet(A) /\ IsFiniteSet(B) /\ A \cap B = B
  <2>1. A \in SUBSET S /\ B \in SUBSET S /\ A \cap B = B
    OBVIOUS
  <2> QED
    BY <2>1, FS_Subset
<1>2. {i \in S : g[i] = c} = A \ B
  OBVIOUS
<1>3. Cardinality(A \ B) = Cardinality(A) - Cardinality(B)
  <2> HIDE DEF A, B
  <2> QED
    BY <1>1, FS_Difference
<1>4. Cardinality(A) \in Nat /\ Cardinality(B) \in Nat
  <2> HIDE DEF A, B
  <2> QED
    BY <1>1, FS_CardinalityType
<1> QED
  BY <1>2, <1>3, <1>4 DEF Count

\* Only the value of the argument k changes.
LEMMA CountChanged ==
  ASSUME NEW S, IsFiniteSet(S), NEW k \in S, NEW f, NEW g, NEW c,
         \A i \in S : i # k => g[i] = f[i]
  PROVE  Count(S, g, c) = Count(S, f, c) - (IF f[k] = c THEN 1 ELSE 0)
                                         + (IF g[k] = c THEN 1 ELSE 0)
<1> DEFINE A == {i \in S : f[i] = c}
           R == A \ {k}
<1>1. IsFiniteSet(A) /\ IsFiniteSet(R)
  <2>1. A \in SUBSET S /\ R \in SUBSET S
    OBVIOUS
  <2> QED
    BY <2>1, FS_Subset
<1>2. Cardinality(A) \in Nat
  <2> HIDE DEF A
  <2> QED
    BY <1>1, FS_CardinalityType
<1>3. Cardinality(R) = Cardinality(A) - (IF f[k] = c THEN 1 ELSE 0)
  <2>1. k \in A <=> f[k] = c
    OBVIOUS
  <2> HIDE DEF A
  <2> QED
    BY <1>1, <1>2, <2>1, FS_RemoveElement
<1>4. Cardinality(R \cup {k}) = Cardinality(R) + 1
  <2>1. k \notin R
    OBVIOUS
  <2> HIDE DEF R
  <2> QED
    BY <1>1, <2>1, FS_AddElement
<1>5. CASE g[k] = c
  <2>1. {i \in S : g[i] = c} = R \cup {k}
    BY <1>5
  <2>2. Count(S, f, c) = Cardinality(A) /\ Count(S, g, c) = Cardinality(R \cup {k})
    BY <2>1 DEF Count
  <2> HIDE DEF A, R
  <2> QED
    BY <1>2, <1>3, <1>4, <1>5, <2>2
<1>6. CASE g[k] # c
  <2>1. {i \in S : g[i] = c} = R
    BY <1>6
  <2>2. Count(S, f, c) = Cardinality(A) /\ Count(S, g, c) = Cardinality(R)
    BY <2>1 DEF Count
  <2> HIDE DEF A, R
  <2> QED
    BY <1>2, <1>3, <1>6, <2>2
<1> QED
  BY <1>5, <1>6

\* A subset of an interval has no more elements than the interval.
LEMMA CountBounded ==
  ASSUME NEW a \in Int, NEW b \in Int, NEW S \in SUBSET (a .. b)
  PROVE  /\ IsFiniteSet(S) /\ Cardinality(S) \in Nat
         /\ Cardinality(S) <= IF a > b THEN 0 ELSE b - a + 1
<1>1. IsFiniteSet(a .. b) /\ Cardinality(a .. b) = IF a > b THEN 0 ELSE b - a + 1
  BY FS_Interval
<1>2. IsFiniteSet(S) /\ Cardinality(S) <= Cardinality(a .. b)
  BY <1>1, FS_Subset
<1>3. Cardinality(S) \in Nat
  BY <1>2, FS_CardinalityType
<1> QED
  BY <1>1, <1>2, <1>3

-----------------------------------------------------------------------------
\* A function that is defined from its previous value exists, and its values
\* are in the set that the steps stay in.
Recursive(n, base, step, f) ==
    f = [i \in 0 .. n |-> IF i = 0 THEN base ELSE step[<<f[i - 1], i>>]]

LEMMA RecursionExists ==
  ASSUME NEW S, NEW n \in Nat, NEW base \in S, NEW step \in [S \X (1 .. n) -> S]
  PROVE  \E f : Recursive(n, base, step, f) /\ \A i \in 0 .. n : f[i] \in S
<1> DEFINE P(m) == \E f : Recursive(m, base, step, f) /\ \A i \in 0 .. m : f[i] \in S
           T == {m \in 0 .. n : ~P(m)}
<1>1. T \in SUBSET Nat
  OBVIOUS
<1>2. P(0)
  <2> DEFINE f == [i \in 0 .. 0 |-> base]
  <2>1. Recursive(0, base, step, f) /\ \A i \in 0 .. 0 : f[i] \in S
    BY DEF Recursive
  <2> QED
    BY <2>1
<1>3. ASSUME NEW m \in 1 .. n, P(m - 1) PROVE P(m)
  <2>1. PICK f : Recursive(m - 1, base, step, f) /\ \A i \in 0 .. m - 1 : f[i] \in S
    BY <1>3
  <2> DEFINE g == [i \in 0 .. m |-> IF i = m THEN step[<<f[m - 1], m>>] ELSE f[i]]
  <2>2. m \in Nat /\ m > 0 /\ f[m - 1] \in S /\ step[<<f[m - 1], m>>] \in S
    BY <2>1
  <2>3. \A i \in 0 .. m : g[i] = IF i = 0 THEN base ELSE step[<<g[i - 1], i>>]
    <3> SUFFICES ASSUME NEW i \in 0 .. m
                 PROVE  g[i] = IF i = 0 THEN base ELSE step[<<g[i - 1], i>>]
      OBVIOUS
    <3>1. CASE i = m
      BY <2>2, <3>1
    <3>2. CASE i # m
      <4>1. i \in 0 .. m - 1 /\ g[i] = f[i]
        BY <2>2, <3>2
      <4>2. f[i] = IF i = 0 THEN base ELSE step[<<f[i - 1], i>>]
        BY <2>1, <4>1 DEF Recursive
      <4>3. i # 0 => i - 1 \in 0 .. m /\ i - 1 # m /\ g[i - 1] = f[i - 1]
        BY <2>2, <4>1
      <4> QED
        BY <4>1, <4>2, <4>3
    <3> QED
      BY <3>1, <3>2
  <2>4. \A i \in 0 .. m : g[i] \in S
    BY <2>1, <2>2
  <2>5. g = [i \in 0 .. m |-> IF i = 0 THEN base ELSE step[<<g[i - 1], i>>]]
    BY <2>3
  <2> QED
    BY <2>4, <2>5 DEF Recursive
<1> HIDE DEF P
<1>4. ASSUME T # {} PROVE FALSE
  <2>1. PICK x \in T : \A y \in T : x <= y
    BY <1>1, <1>4, LeastElement
  <2>2. x # 0 /\ x \in 1 .. n /\ x - 1 \in 0 .. n /\ x - 1 < x
    BY <1>1, <1>2, <2>1
  <2>3. P(x - 1)
    BY <2>1, <2>2
  <2> QED
    BY <1>3, <2>1, <2>2, <2>3
<1>5. P(n)
  BY <1>4
<1> QED
  BY <1>5 DEF P

-----------------------------------------------------------------------------
\* Sequences that are joined.
LEMMA SequenceJoin ==
  ASSUME NEW S, NEW q \in Seq(S), NEW r \in Seq(S)
  PROVE  /\ q \o r \in Seq(S) /\ Len(q \o r) = Len(q) + Len(r)
         /\ Len(q) \in Nat /\ Len(r) \in Nat
         /\ \A k \in 1 .. Len(q) : (q \o r)[k] = q[k]
         /\ \A k \in 1 .. Len(r) : (q \o r)[Len(q) + k] = r[k]
OBVIOUS

LEMMA JoinEmpty ==
  ASSUME NEW S, NEW q \in Seq(S)
  PROVE  q \o <<>> = q /\ <<>> \o q = q
OBVIOUS

LEMMA AppendIs ==
  ASSUME NEW S, NEW q \in Seq(S), NEW x \in S
  PROVE  /\ Append(q, x) \in Seq(S) /\ Len(Append(q, x)) = Len(q) + 1 /\ Len(q) \in Nat
         /\ Append(q, x)[Len(q) + 1] = x
         /\ \A i \in 1 .. Len(q) : Append(q, x)[i] = q[i]
OBVIOUS

\* FlattenSeq joins its elements from the first to the last.
LEMMA FlattenIs ==
  ASSUME NEW S, NEW ss \in Seq(Seq(S)), NEW g,
         g[0] = <<>>, \A i \in 0 .. Len(ss) : g[i] \in Seq(S),
         \A i \in 1 .. Len(ss) : g[i] = g[i - 1] \o ss[i]
  PROVE  FlattenSeq(ss) = g[Len(ss)]
<1> DEFINE n == Len(ss)
           F(f) == f = [i \in 1 .. n |-> IF i = 1 THEN ss[i] ELSE f[i - 1] \o ss[i]]
<1>1. n \in Nat /\ \A i \in 1 .. n : ss[i] \in Seq(S)
  OBVIOUS
<1>2. CASE n = 0
  <2>1. ss = <<>> /\ FlattenSeq(ss) = ss
    BY <1>2 DEF FlattenSeq
  <2> QED
    BY <1>2, <2>1
<1>3. CASE n # 0
  <2>1. FlattenSeq(ss) = (CHOOSE f : F(f))[n]
    BY <1>3 DEF FlattenSeq
  <2>2. 0 \in 0 .. n /\ g[1] = ss[1]
    <3>1. 1 \in 1 .. n /\ 0 \in 0 .. n /\ 1 - 1 = 0
      BY <1>1, <1>3
    <3>2. g[1] = <<>> \o ss[1] /\ ss[1] \in Seq(S)
      BY <1>1, <3>1
    <3> QED
      BY <3>1, <3>2, JoinEmpty
  <2>3. \E f : F(f)
    <3> DEFINE f == [i \in 1 .. n |-> g[i]]
    <3>1. \A i \in 1 .. n : f[i] = IF i = 1 THEN ss[i] ELSE f[i - 1] \o ss[i]
      <4> SUFFICES ASSUME NEW i \in 1 .. n, i # 1 PROVE f[i] = f[i - 1] \o ss[i]
        BY <2>2
      <4>1. i - 1 \in 1 .. n
        BY <1>1
      <4> QED
        BY <4>1
    <3>2. F(f)
      BY <3>1
    <3> QED
      BY <3>2
  <2>4. PICK f : F(f) /\ f = CHOOSE h : F(h)
    <3>1. F(CHOOSE h : F(h))
      BY <2>3
    <3> QED
      BY <3>1
  <2>5. \A i \in 1 .. n : f[i] = IF i = 1 THEN ss[i] ELSE f[i - 1] \o ss[i]
    BY <2>4
  <2>6. \A i \in 1 .. n : f[i] = g[i]
    <3> DEFINE T == {i \in 1 .. n : f[i] # g[i]}
    <3>1. ASSUME T # {} PROVE FALSE
      <4>1. PICK x \in T : \A y \in T : x <= y
        <5>1. T \in SUBSET Nat
          OBVIOUS
        <5> QED
          BY <3>1, <5>1, LeastElement
      <4>2. x # 1
        BY <2>2, <2>5, <4>1
      <4>3. x \in 1 .. n /\ x - 1 \in 1 .. n /\ x - 1 < x
        BY <1>1, <4>1, <4>2
      <4>4. f[x - 1] = g[x - 1]
        BY <1>1, <4>1, <4>3
      <4>5. f[x] = f[x - 1] \o ss[x]
        BY <2>5, <4>2, <4>3
      <4>6. g[x] = g[x - 1] \o ss[x]
        BY <4>3
      <4> QED
        BY <4>1, <4>4, <4>5, <4>6
    <3> QED
      BY <3>1
  <2>7. n \in 1 .. n
    BY <1>1, <1>3
  <2> QED
    BY <2>1, <2>4, <2>6, <2>7
<1> QED
  BY <1>2, <1>3

\* The values that the joining goes through.
LEMMA FlattenSteps ==
  ASSUME NEW S, NEW ss \in Seq(Seq(S))
  PROVE  \E g : /\ g[0] = <<>> /\ \A i \in 0 .. Len(ss) : g[i] \in Seq(S)
                /\ \A i \in 1 .. Len(ss) : g[i] = g[i - 1] \o ss[i]
                /\ FlattenSeq(ss) = g[Len(ss)]
<1> DEFINE n == Len(ss)
           join == [p \in Seq(S) \X (1 .. n) |-> p[1] \o ss[p[2]]]
<1>1. n \in Nat /\ \A i \in 1 .. n : ss[i] \in Seq(S)
  OBVIOUS
<1>2. join \in [Seq(S) \X (1 .. n) -> Seq(S)]
  <2>1. \A p \in Seq(S) \X (1 .. n) : p[1] \in Seq(S) /\ ss[p[2]] \in Seq(S)
    BY <1>1
  <2>2. \A p \in Seq(S) \X (1 .. n) : p[1] \o ss[p[2]] \in Seq(S)
    BY <2>1, SequenceJoin
  <2> QED
    BY <2>2
<1>3. \A s \in Seq(S), i \in 1 .. n : join[<<s, i>>] = s \o ss[i]
  OBVIOUS
<1>4. PICK base \in Seq(S) : base = <<>>
  <2>1. <<>> \in Seq(S)
    OBVIOUS
  <2> QED
    BY <2>1
<1> HIDE DEF join
<1>5. PICK g : Recursive(n, base, join, g) /\ \A i \in 0 .. n : g[i] \in Seq(S)
  <2> HIDE DEF n
  <2> QED
    BY <1>1, <1>2, RecursionExists
<1>6. g[0] = <<>> /\ \A i \in 1 .. n : g[i] = g[i - 1] \o ss[i]
  <2>1. \A i \in 1 .. n : i # 0 /\ i \in 0 .. n /\ i - 1 \in 0 .. n
    BY <1>1
  <2>2. 0 \in 0 .. n
    BY <1>1
  <2>3. \A i \in 1 .. n : g[i] = join[<<g[i - 1], i>>]
    BY <1>5, <2>1 DEF Recursive
  <2>4. g[0] = base
    BY <1>5, <2>2 DEF Recursive
  <2> QED
    BY <1>3, <1>4, <1>5, <2>1, <2>3, <2>4
<1>7. FlattenSeq(ss) = g[n]
  BY <1>5, <1>6, FlattenIs
<1> QED
  BY <1>5, <1>6, <1>7

LEMMA FlattenAppend ==
  ASSUME NEW S, NEW ss \in Seq(Seq(S)), NEW s \in Seq(S)
  PROVE  /\ FlattenSeq(ss) \in Seq(S) /\ FlattenSeq(<<>>) = <<>>
         /\ FlattenSeq(Append(ss, s)) = FlattenSeq(ss) \o s
<1>1. FlattenSeq(<<>>) = <<>>
  BY DEF FlattenSeq
<1>2. PICK tt \in Seq(Seq(S)) : tt = Append(ss, s) /\ Len(tt) = Len(ss) + 1 /\ tt[Len(ss) + 1] = s
                                /\ \A i \in 1 .. Len(ss) : tt[i] = ss[i]
  <2> DEFINE Q == Seq(S)
  <2>1. ss \in Seq(Q) /\ s \in Q
    OBVIOUS
  <2> HIDE DEF Q
  <2>2. /\ Append(ss, s) \in Seq(Q) /\ Len(Append(ss, s)) = Len(ss) + 1
        /\ Append(ss, s)[Len(ss) + 1] = s
        /\ \A i \in 1 .. Len(ss) : Append(ss, s)[i] = ss[i]
    BY <2>1, AppendIs
  <2>3. Append(ss, s) \in Seq(Seq(S))
    BY <2>2 DEF Q
  <2> QED
    BY ONLY <2>2, <2>3
<1>3. Len(ss) \in Nat
  OBVIOUS
<1>4. PICK g : /\ g[0] = <<>> /\ \A i \in 0 .. Len(tt) : g[i] \in Seq(S)
               /\ \A i \in 1 .. Len(tt) : g[i] = g[i - 1] \o tt[i]
               /\ FlattenSeq(tt) = g[Len(tt)]
  BY FlattenSteps
<1>5. /\ \A i \in 0 .. Len(ss) : g[i] \in Seq(S)
      /\ \A i \in 1 .. Len(ss) : g[i] = g[i - 1] \o ss[i]
  <2>1. \A i \in 0 .. Len(ss) : i \in 0 .. Len(tt)
    BY <1>2, <1>3
  <2>2. \A i \in 1 .. Len(ss) : i \in 1 .. Len(tt) /\ tt[i] = ss[i]
    BY <1>2, <1>3
  <2> QED
    BY <1>4, <2>1, <2>2
<1>6. FlattenSeq(ss) = g[Len(ss)]
  BY <1>4, <1>5, FlattenIs
<1>7. g[Len(ss) + 1] = g[Len(ss)] \o s
  <2>1. Len(ss) + 1 \in 1 .. Len(tt) /\ (Len(ss) + 1) - 1 = Len(ss)
    BY <1>2, <1>3
  <2>2. g[Len(ss) + 1] = g[(Len(ss) + 1) - 1] \o tt[Len(ss) + 1]
    BY <1>4, <2>1
  <2> QED
    BY <1>2, <2>1, <2>2
<1>8. Len(ss) \in 0 .. Len(ss)
  BY <1>3
<1> QED
  BY <1>1, <1>2, <1>4, <1>5, <1>6, <1>7, <1>8
=============================================================================

---------------------------- MODULE ClientIOProofs ----------------------------
(* ClientIO for every number of clients, every sequence of requests and every *)
(* size of the buffers: requests are served whole, in order and untouched,    *)
(* replies come whole and in order, and no whole request is overlooked.       *)
EXTENDS ClientIO, CountingLemmas

-----------------------------------------------------------------------------
(* Where the requests of a client begin.                                     *)

LEMMA Elements ==
  ASSUME NEW S, NEW q \in Seq(S)
  PROVE  Len(q) \in Nat /\ DOMAIN q = 1 .. Len(q) /\ \A i \in 1 .. Len(q) : q[i] \in S
OBVIOUS

LEMMA Lengths ==
  ASSUME NEW c \in Clients
  PROVE  /\ Len(Requests[c]) \in Nat
         /\ \A i \in RequestNumbers(c) : Length(c, i) \in Nat \ {0}
         /\ Length(c, 0) = 1 + Prefix + Auth[c] /\ Prefix \in Nat \ {0} /\ Auth[c] \in Nat
<1> DEFINE R == [len : Nat \ {0}, reply : Seq(Nat)]
<1>1. Requests[c] \in Seq(R)
  BY IOAssumption
<1>2. \A r \in R : r.len \in Nat \ {0}
  OBVIOUS
<1> HIDE DEF R
<1>3. Prefix \in Nat \ {0} /\ Auth[c] \in Nat
  BY IOAssumption
<1>4. Len(Requests[c]) \in Nat /\ \A i \in 1 .. Len(Requests[c]) : Requests[c][i].len \in Nat \ {0}
  BY <1>1, <1>2, Elements
<1>5. \A i \in RequestNumbers(c) : i = 0 \/ i \in 1 .. Len(Requests[c])
  BY <1>4 DEF RequestNumbers
<1> QED
  BY <1>3, <1>4, <1>5 DEF Length

\* Request i begins where request i - 1 ends.
LEMMA StartSteps ==
  ASSUME NEW c \in Clients
  PROVE  /\ \A i \in 0 .. Len(Requests[c]) + 1 : Start(c, i) \in Nat
         /\ Start(c, 0) = 0
         /\ \A i \in RequestNumbers(c) : Start(c, i + 1) = Start(c, i) + Length(c, i)
<1> DEFINE n == Len(Requests[c]) + 1
           add == [p \in Nat \X (1 .. n) |-> p[1] + Length(c, p[2] - 1)]
           F(f) == f = [k \in 0 .. n |-> IF k = 0 THEN 0 ELSE f[k - 1] + Length(c, k - 1)]
<1>1. n \in Nat /\ \A i \in 1 .. n : i - 1 \in RequestNumbers(c) /\ Length(c, i - 1) \in Nat
  <2>1. n \in Nat
    BY Lengths
  <2>2. \A i \in 1 .. n : i - 1 \in RequestNumbers(c)
    BY Lengths DEF RequestNumbers
  <2> QED
    BY <2>1, <2>2, Lengths
<1>2. add \in [Nat \X (1 .. n) -> Nat] /\ \A x \in Nat, i \in 1 .. n : add[<<x, i>>] = x + Length(c, i - 1)
  BY <1>1
<1>3. \A i : Start(c, i) = (CHOOSE f : F(f))[i]
  BY DEF Start
<1> HIDE DEF add, n
<1>4. PICK g : Recursive(n, 0, add, g) /\ \A i \in 0 .. n : g[i] \in Nat
  BY <1>1, <1>2, RecursionExists
<1>5. F(g)
  <2>1. \A i \in 0 .. n : i = 0 \/ (i \in 1 .. n /\ i - 1 \in 0 .. n)
    BY <1>1
  <2>2. \A i \in 1 .. n : i - 1 \in 0 .. n /\ add[<<g[i - 1], i>>] = g[i - 1] + Length(c, i - 1)
    BY <1>1, <1>2, <1>4
  <2> QED
    BY <1>4, <2>1, <2>2 DEF Recursive
<1>6. F(CHOOSE f : F(f))
  BY <1>5
<1>7. PICK f : F(f) /\ f = CHOOSE h : F(h)
  BY <1>6
<1>8. \A i : Start(c, i) = f[i]
  BY <1>3, <1>7
<1>9. \A k \in 0 .. n : f[k] = IF k = 0 THEN 0 ELSE f[k - 1] + Length(c, k - 1)
  BY <1>7
<1>10. \A k \in 0 .. n : f[k] \in Nat
  <2> DEFINE T == {k \in 0 .. n : f[k] \notin Nat}
  <2>1. ASSUME T # {} PROVE FALSE
    <3>1. PICK x \in T : \A y \in T : x <= y
      <4>1. T \in SUBSET Nat
        OBVIOUS
      <4> QED
        BY <2>1, <4>1, LeastElement
    <3>2. x # 0 /\ x \in 1 .. n /\ x - 1 \in 0 .. n /\ x - 1 < x
      BY <1>1, <1>9, <3>1
    <3>3. f[x - 1] \in Nat
      BY <3>1, <3>2
    <3> QED
      BY <1>1, <1>9, <3>1, <3>2, <3>3
  <2> QED
    BY <2>1
<1>11. \A i \in RequestNumbers(c) : f[i + 1] = f[i] + Length(c, i)
  <2> SUFFICES ASSUME NEW i \in RequestNumbers(c) PROVE f[i + 1] = f[i] + Length(c, i)
    OBVIOUS
  <2>1. i + 1 \in 0 .. n /\ i + 1 # 0 /\ (i + 1) - 1 = i
    BY <1>1, Lengths DEF RequestNumbers, n
  <2> QED
    BY <1>9, <2>1
<1>12. 0 \in 0 .. n /\ n = Len(Requests[c]) + 1
  BY <1>1 DEF n
<1> QED
  BY <1>8, <1>9, <1>10, <1>11, <1>12

\* So the requests begin at different places, in their order.
LEMMA StartsIncrease ==
  ASSUME NEW c \in Clients, NEW i \in 0 .. Len(Requests[c]) + 1,
         NEW j \in 0 .. Len(Requests[c]) + 1, i < j
  PROVE  Start(c, i) < Start(c, j)
<1> DEFINE n == Len(Requests[c]) + 1
           T == {k \in i + 1 .. n : ~(Start(c, i) < Start(c, k))}
<1>1. n \in Nat /\ i \in Nat /\ j \in i + 1 .. n /\ i + 1 \in Nat
  BY Lengths
<1>2. ASSUME NEW k \in i .. Len(Requests[c])
      PROVE  /\ Start(c, k) \in Nat /\ Start(c, k + 1) \in Nat /\ Start(c, i) \in Nat
             /\ Start(c, k) < Start(c, k + 1)
  <2>1. k \in RequestNumbers(c) /\ k \in 0 .. n /\ k + 1 \in 0 .. n
    BY <1>1, Lengths DEF RequestNumbers
  <2>2. Start(c, k + 1) = Start(c, k) + Length(c, k) /\ Length(c, k) \in Nat \ {0}
    BY <2>1, StartSteps, Lengths
  <2>3. Start(c, k) \in Nat /\ Start(c, k + 1) \in Nat /\ Start(c, i) \in Nat
    BY <2>1, StartSteps
  <2> QED
    BY <2>2, <2>3
<1>3. ASSUME T # {} PROVE FALSE
  <2>1. PICK x \in T : \A y \in T : x <= y
    <3>1. T \in SUBSET Nat
      BY <1>1
    <3> QED
      BY <1>3, <3>1, LeastElement
  <2>2. PICK k \in i .. Len(Requests[c]) : k = x - 1 /\ x = k + 1
    BY <1>1, <2>1, Lengths
  <2>3. Start(c, k) < Start(c, k + 1) /\ Start(c, k) \in Nat /\ Start(c, k + 1) \in Nat /\ Start(c, i) \in Nat
    BY <1>2
  <2>4. k = i \/ Start(c, i) < Start(c, k)
    <3>1. k \notin T
      BY <1>1, <2>1, <2>2
    <3>2. k # i => k \in i + 1 .. n
      BY <1>1, <2>2, Lengths
    <3> QED
      BY <3>1, <3>2
  <2>5. Start(c, i) < Start(c, k + 1)
    BY <2>3, <2>4
  <2> QED
    BY <2>1, <2>2, <2>5
<1> QED
  BY <1>1, <1>3

-----------------------------------------------------------------------------
(* Pieces of what a client sends.                                            *)

InUnits == Clients \X Nat

LEMMA UnitsTyped ==
  ASSUME NEW c \in Clients, NEW a \in Nat, NEW b \in Int, a <= b + 1
  PROVE  /\ Units(c, a, b) \in Seq(InUnits) /\ Len(Units(c, a, b)) = b + 1 - a
         /\ \A k \in 1 .. b + 1 - a : Units(c, a, b)[k] = <<c, a + k - 1>>
<1>1. b - a + 1 \in Nat /\ b - a + 1 = b + 1 - a
  OBVIOUS
<1>2. \A k \in 1 .. b - a + 1 : <<c, a + k - 1>> \in InUnits
  BY DEF InUnits
<1> QED
  BY <1>1, <1>2 DEF Units

LEMMA SameSequence ==
  ASSUME NEW S, NEW q \in Seq(S), NEW r \in Seq(S), Len(q) = Len(r),
         \A k \in 1 .. Len(q) : q[k] = r[k]
  PROVE  q = r
OBVIOUS

LEMMA UnitsEmpty ==
  ASSUME NEW c \in Clients, NEW a \in Nat
  PROVE  Units(c, a, a - 1) = <<>>
BY DEF Units

LEMMA SequenceDrop ==
  ASSUME NEW S, NEW q \in Seq(S), NEW n \in 0 .. Len(q)
  PROVE  /\ Drop(q, n) \in Seq(S) /\ Len(Drop(q, n)) = Len(q) - n
         /\ \A k \in 1 .. Len(q) - n : Drop(q, n)[k] = q[n + k]
         /\ SubSeq(q, 1, n) \in Seq(S) /\ Len(SubSeq(q, 1, n)) = n
         /\ \A k \in 1 .. n : SubSeq(q, 1, n)[k] = q[k]
BY DEF Drop

\* What is left behind n units, and what these are.
LEMMA UnitsDrop ==
  ASSUME NEW c \in Clients, NEW a \in Nat, NEW b \in Int, a <= b + 1, NEW n \in 0 .. b + 1 - a
  PROVE  /\ Drop(Units(c, a, b), n) = Units(c, a + n, b)
         /\ SubSeq(Units(c, a, b), 1, n) = Units(c, a, a + n - 1)
<1>1. PICK u \in Seq(InUnits) : /\ u = Units(c, a, b) /\ Len(u) = b + 1 - a
                                /\ \A k \in 1 .. b + 1 - a : u[k] = <<c, a + k - 1>>
  BY UnitsTyped
<1>2. /\ Drop(u, n) \in Seq(InUnits) /\ Len(Drop(u, n)) = b + 1 - a - n
      /\ \A k \in 1 .. b + 1 - a - n : Drop(u, n)[k] = u[n + k]
      /\ SubSeq(u, 1, n) \in Seq(InUnits) /\ Len(SubSeq(u, 1, n)) = n
      /\ \A k \in 1 .. n : SubSeq(u, 1, n)[k] = u[k]
  <2>1. u \in Seq(InUnits) /\ n \in 0 .. Len(u)
    BY <1>1
  <2>2. /\ Drop(u, n) \in Seq(InUnits) /\ Len(Drop(u, n)) = Len(u) - n
        /\ \A k \in 1 .. Len(u) - n : Drop(u, n)[k] = u[n + k]
        /\ SubSeq(u, 1, n) \in Seq(InUnits) /\ Len(SubSeq(u, 1, n)) = n
        /\ \A k \in 1 .. n : SubSeq(u, 1, n)[k] = u[k]
    BY ONLY <2>1, SequenceDrop
  <2> QED
    BY <1>1, <2>2
<1>3. a + n \in Nat /\ a + n <= b + 1 /\ a + n - 1 \in Int /\ a <= (a + n - 1) + 1
  OBVIOUS
<1>4. PICK v \in Seq(InUnits) : /\ v = Units(c, a + n, b) /\ Len(v) = b + 1 - (a + n)
                                /\ \A k \in 1 .. b + 1 - (a + n) : v[k] = <<c, (a + n) + k - 1>>
  BY <1>3, UnitsTyped
<1>5. PICK w \in Seq(InUnits) : /\ w = Units(c, a, a + n - 1) /\ Len(w) = (a + n - 1) + 1 - a
                                /\ \A k \in 1 .. (a + n - 1) + 1 - a : w[k] = <<c, a + k - 1>>
  BY <1>3, UnitsTyped
<1>6. Drop(u, n) = v
  <2>1. Len(Drop(u, n)) = Len(v)
    BY <1>2, <1>4
  <2>2. \A k \in 1 .. Len(v) : Drop(u, n)[k] = v[k]
    <3> SUFFICES ASSUME NEW k \in 1 .. Len(v) PROVE Drop(u, n)[k] = v[k]
      OBVIOUS
    <3>1. k \in 1 .. b + 1 - a - n /\ n + k \in 1 .. b + 1 - a /\ k \in 1 .. b + 1 - (a + n)
      BY <1>4
    <3>2. Drop(u, n)[k] = <<c, a + (n + k) - 1>> /\ v[k] = <<c, (a + n) + k - 1>>
      BY <1>1, <1>2, <1>4, <3>1
    <3>3. a + (n + k) - 1 = (a + n) + k - 1
      BY <3>1
    <3> QED
      BY <3>2, <3>3
  <2> QED
    BY <1>2, <1>4, <2>1, <2>2, SameSequence
<1>7. SubSeq(u, 1, n) = w
  <2>1. Len(SubSeq(u, 1, n)) = Len(w) /\ Len(w) = n
    BY <1>2, <1>5
  <2>2. \A k \in 1 .. Len(w) : SubSeq(u, 1, n)[k] = w[k]
    <3> SUFFICES ASSUME NEW k \in 1 .. Len(w) PROVE SubSeq(u, 1, n)[k] = w[k]
      OBVIOUS
    <3>1. k \in 1 .. n /\ k \in 1 .. b + 1 - a /\ k \in 1 .. (a + n - 1) + 1 - a
      BY <2>1
    <3> QED
      BY <1>1, <1>2, <1>5, <3>1
  <2> QED
    BY <1>2, <1>5, <2>1, <2>2, SameSequence
<1> QED
  BY <1>1, <1>4, <1>5, <1>6, <1>7

\* What is read is what follows.
LEMMA UnitsJoin ==
  ASSUME NEW c \in Clients, NEW a \in Nat, NEW b \in Nat, a <= b + 1, NEW n \in Nat
  PROVE  Units(c, a, b) \o Units(c, b + 1, b + n) = Units(c, a, b + n)
<1>1. b \in Int
  OBVIOUS
<1>2. PICK u \in Seq(InUnits) : /\ u = Units(c, a, b) /\ Len(u) = b + 1 - a
                                /\ \A k \in 1 .. b + 1 - a : u[k] = <<c, a + k - 1>>
  BY <1>1, UnitsTyped
<1>3. b + 1 \in Nat /\ b + n \in Int /\ b + 1 <= (b + n) + 1 /\ a <= (b + n) + 1
  OBVIOUS
<1>4. PICK v \in Seq(InUnits) : /\ v = Units(c, b + 1, b + n) /\ Len(v) = (b + n) + 1 - (b + 1)
                                /\ \A k \in 1 .. (b + n) + 1 - (b + 1) : v[k] = <<c, (b + 1) + k - 1>>
  BY <1>3, UnitsTyped
<1>5. PICK w \in Seq(InUnits) : /\ w = Units(c, a, b + n) /\ Len(w) = (b + n) + 1 - a
                                /\ \A k \in 1 .. (b + n) + 1 - a : w[k] = <<c, a + k - 1>>
  BY <1>3, UnitsTyped
<1>6. /\ u \o v \in Seq(InUnits) /\ Len(u \o v) = Len(u) + Len(v)
      /\ \A k \in 1 .. Len(u) : (u \o v)[k] = u[k]
      /\ \A k \in 1 .. Len(v) : (u \o v)[Len(u) + k] = v[k]
  BY SequenceJoin
<1>7. Len(v) = n /\ Len(u \o v) = Len(w)
  <2>1. Len(v) = n
    BY <1>4
  <2>2. (b + 1 - a) + n = (b + n) + 1 - a
    OBVIOUS
  <2> QED
    BY <1>2, <1>5, <1>6, <2>1, <2>2
<1>8. \A k \in 1 .. Len(w) : (u \o v)[k] = w[k]
  <2> SUFFICES ASSUME NEW k \in 1 .. Len(w) PROVE (u \o v)[k] = w[k]
    OBVIOUS
  <2>1. w[k] = <<c, a + k - 1>>
    BY <1>5
  <2>2. CASE k <= Len(u)
    <3>1. k \in 1 .. Len(u) /\ k \in 1 .. b + 1 - a
      BY <1>2, <1>5, <2>2
    <3> QED
      BY <1>2, <1>6, <2>1, <3>1
  <2>3. CASE ~(k <= Len(u))
    <3>1. k - Len(u) \in 1 .. n /\ Len(u) + (k - Len(u)) = k
      BY <1>2, <1>5, <2>3
    <3>2. PICK j \in 1 .. n : j = k - Len(u) /\ Len(u) + j = k
      BY <3>1
    <3>3. (u \o v)[k] = v[j] /\ v[j] = <<c, (b + 1) + j - 1>>
      BY <1>4, <1>6, <1>7, <3>2
    <3>4. (b + 1) + j - 1 = a + k - 1
      BY <1>2, <3>2
    <3> QED
      BY <2>1, <3>3, <3>4
  <2> QED
    BY <2>2, <2>3
<1>9. u \o v = w
  BY <1>5, <1>6, <1>7, <1>8, SameSequence
<1> QED
  BY <1>2, <1>4, <1>5, <1>9

-----------------------------------------------------------------------------
(* The lengths that get_req_len finds, when the connections are in phases ph. *)

LengthIn(ph, u) ==
    IF u[2] = 0 /\ ph[u[1]] \in {"none", "initial"} THEN 1 + Prefix
    ELSE IF HeaderOf(u) = {} THEN 0
    ELSE LET i == CHOOSE i \in HeaderOf(u) : TRUE IN Start(u[1], i + 1) - Start(u[1], i)

WholeIn(ph, s) == s # <<>> /\ Len(s) >= LengthIn(ph, s[1])

LEMMA PhasesCount ==
  /\ \A u : RequestLength(u) = LengthIn(phase, u)
  /\ \A s : WholeRequest(s) <=> WholeIn(phase, s)
BY DEF RequestLength, LengthIn, WholeRequest, WholeIn

LEMMA HeaderIs ==
  ASSUME NEW c \in Clients, NEW h \in RequestNumbers(c)
  PROVE  /\ HeaderOf(<<c, Start(c, h)>>) = {h}
         /\ Start(c, h) \in Nat /\ (Start(c, h) = 0 <=> h = 0)
<1>1. /\ RequestNumbers(c) \subseteq 0 .. Len(Requests[c]) + 1
      /\ 0 \in 0 .. Len(Requests[c]) + 1
  BY Lengths DEF RequestNumbers
<1>2. \A i \in 0 .. Len(Requests[c]) + 1 : Start(c, i) \in Nat
  BY StartSteps
<1>3. ASSUME NEW i \in 0 .. Len(Requests[c]) + 1, Start(c, i) = Start(c, h) PROVE i = h
  <2>1. h \in 0 .. Len(Requests[c]) + 1 /\ Start(c, h) \in Nat /\ Start(c, i) \in Nat
    BY <1>1, <1>2
  <2>2. ~(i < h)
    <3>1. ASSUME i < h PROVE FALSE
      <4>1. Start(c, i) < Start(c, h)
        BY <2>1, <3>1, StartsIncrease
      <4> QED
        BY <1>3, <2>1, <4>1
    <3> QED
      BY <3>1
  <2>3. ~(h < i)
    <3>1. ASSUME h < i PROVE FALSE
      <4>1. Start(c, h) < Start(c, i)
        BY <2>1, <3>1, StartsIncrease
      <4> QED
        BY <1>3, <2>1, <4>1
    <3> QED
      BY <3>1
  <2> QED
    BY <2>1, <2>2, <2>3, Lengths
<1>4. Start(c, h) = 0 <=> h = 0
  BY <1>1, <1>3, StartSteps
<1>5. HeaderOf(<<c, Start(c, h)>>) = {h}
  <2>1. HeaderOf(<<c, Start(c, h)>>) = {i \in RequestNumbers(c) : Start(c, i) = Start(c, h)}
    BY DEF HeaderOf
  <2>2. \A i \in RequestNumbers(c) : Start(c, i) = Start(c, h) <=> i = h
    BY <1>1, <1>3
  <2> QED
    BY <2>1, <2>2
<1> QED
  BY <1>1, <1>2, <1>4, <1>5

LEMMA LengthOf ==
  ASSUME NEW ph, NEW c \in Clients, NEW h \in RequestNumbers(c)
  PROVE  LengthIn(ph, <<c, Start(c, h)>>) =
            IF h = 0 /\ ph[c] \in {"none", "initial"} THEN 1 + Prefix ELSE Length(c, h)
<1>1. /\ HeaderOf(<<c, Start(c, h)>>) = {h}
      /\ Start(c, h) \in Nat /\ (Start(c, h) = 0 <=> h = 0)
  BY HeaderIs
<1>2. (CHOOSE i \in HeaderOf(<<c, Start(c, h)>>) : TRUE) = h
  BY <1>1
<1>3. Start(c, h + 1) - Start(c, h) = Length(c, h)
  <2>1. Start(c, h + 1) = Start(c, h) + Length(c, h) /\ Length(c, h) \in Nat
    BY StartSteps, Lengths
  <2> QED
    BY <1>1, <2>1
<1>4. <<c, Start(c, h)>>[1] = c /\ <<c, Start(c, h)>>[2] = Start(c, h)
  OBVIOUS
<1>5. HeaderOf(<<c, Start(c, h)>>) # {}
  BY <1>1
<1> QED
  BY <1>1, <1>2, <1>3, <1>4, <1>5 DEF LengthIn

\* What a whole request takes is positive and at most what the stream has left.
LEMMA RequestFits ==
  ASSUME NEW ph, NEW c \in Clients, NEW h \in 0 .. Len(Requests[c]) + 1, NEW b \in Nat,
         Start(c, h) <= b, b <= Total(c)
  PROVE  /\ h \in RequestNumbers(c)
         /\ LengthIn(ph, <<c, Start(c, h)>>) \in Nat \ {0}
         /\ LengthIn(ph, <<c, Start(c, h)>>) <= Length(c, h)
<1> DEFINE n == Len(Requests[c]) + 1
<1>1. n \in Nat /\ n \in 0 .. n /\ h \in 0 .. n /\ Total(c) = Start(c, n) - 1
  BY Lengths DEF Total
<1>2. Start(c, n) \in Nat /\ Start(c, h) \in Nat
  BY <1>1, StartSteps
<1>3. h # n
  BY <1>1, <1>2
<1>4. h \in RequestNumbers(c)
  BY <1>1, <1>3, Lengths DEF RequestNumbers
<1>5. /\ Length(c, h) \in Nat \ {0} /\ Prefix \in Nat \ {0} /\ Auth[c] \in Nat
      /\ h = 0 => 1 + Prefix <= Length(c, h)
  BY <1>4, Lengths
<1>6. LengthIn(ph, <<c, Start(c, h)>>) \in {1 + Prefix, Length(c, h)} /\
      (h # 0 => LengthIn(ph, <<c, Start(c, h)>>) = Length(c, h))
  BY <1>4, LengthOf
<1> QED
  BY <1>4, <1>5, <1>6

-----------------------------------------------------------------------------
(* The inductive invariant.                                                  *)

OutUnits == Clients \X Nat \X Nat \X Nat

Buffers == {b \in [before : Nat, rest : Seq(InUnits), last : Nat, size : Nat] :
              b.before + Len(b.rest) <= b.size /\ b.last <= Len(b.rest)}

Typed == /\ phase \in [Clients -> {"none", "initial", "establish", "open", "closed"}]
         /\ sent \in [Clients -> Nat] /\ arrived \in [Clients -> Nat]
         /\ hungUp \in SUBSET Clients
         /\ input \in [Clients -> Buffers] /\ freeInputs \in Seq(Buffers)
         /\ available \in Clients \cup {NoClient}
         /\ withInput \in SUBSET Clients /\ times \in 0 .. MaxTimes - 1
         /\ output \in [Clients -> [data : Seq(OutUnits), size : Nat]]
         /\ socket \in [Clients -> Seq(OutUnits)] /\ received \in [Clients -> Seq(OutUnits)]
         /\ pending \in SUBSET Clients /\ newPending \in BOOLEAN
         /\ blocked \in SUBSET Clients /\ broken \in SUBSET Clients
         /\ pc \in {"wait", "select", "round", "read", "handle", "flush"}
         /\ work \in SUBSET Clients /\ ready \in SUBSET Clients
         /\ current \in Clients \cup {NoClient} /\ yield \in BOOLEAN
         /\ handled \in [Clients -> Seq(Seq(InUnits))]

Bounded == \A c \in Clients : /\ arrived[c] <= sent[c] /\ sent[c] <= Total(c)
                              /\ Len(output[c].data) <= output[c].size
                              /\ Len(socket[c]) <= Room

\* The request at the beginning of the buffer is read and not yet served.
Reading(c) == pc = "handle" /\ current = c

\* The first unit in the buffer, and the number of requests that were served.
From(c) == arrived[c] + 1 - Len(input[c].rest)
Served(c) == Len(handled[c])

\* The buffer of a connection holds what has arrived behind the requests that
\* were served.
StreamOK(c) == /\ input[c].rest = Units(c, From(c), arrived[c]) /\ From(c) >= 0
               /\ Served(c) <= Len(Requests[c]) + 1
               /\ Start(c, Served(c)) = From(c) + IF Reading(c) THEN 0 ELSE input[c].last
               /\ phase[c] = "open" <=> Served(c) > 0

Unused(c) == /\ input[c] = NoBuffer /\ output[c] = NoOutput
             /\ phase[c] = "none" => /\ arrived[c] = 0 /\ handled[c] = <<>>
                                     /\ socket[c] = <<>> /\ received[c] = <<>>

Positions == \A c \in Clients : IF Open(c) THEN StreamOK(c) ELSE Unused(c)

Rounds == /\ pc \in {"wait", "select"} => ready = {}
          /\ \A c \in ready \cup withInput \cup broken : Open(c)
          /\ \A c \in work : phase[c] = "none"
          /\ pc \in {"read", "handle"} => current \in Clients /\ Open(current)
          /\ pc \in {"read", "handle", "flush"} => current \notin ready
          /\ pc = "handle" =>
                input[current].rest # <<>> /\ input[current].last = Needed(input[current])

\* A buffer that another client may be given has nothing left in it.
Lent == /\ \A i \in DOMAIN freeInputs : Len(freeInputs[i].rest) = freeInputs[i].last
        /\ available # NoClient =>
              /\ Open(available) /\ input[available].size > 0
              /\ Len(input[available].rest) = input[available].last

Intact == \A c \in Clients : \A i \in DOMAIN handled[c] : handled[c][i] = RequestUnits(c, i - 1)

Noticed == \A c \in Clients : Open(c) =>
              (c \in withInput <=> WholeRequest(Drop(input[c].rest, input[c].last)))

IOInv == Typed /\ Bounded /\ Positions /\ Rounds /\ Lent /\ Intact /\ Noticed

-----------------------------------------------------------------------------
(* Input buffers as they change hands.                                       *)

LEMMA Smaller == ASSUME NEW x \in Nat, NEW y \in Nat
                 PROVE  Min({x, y}) = IF x <= y THEN x ELSE y
<1>1. {x, y} \in SUBSET Nat /\ {x, y} # {}
  OBVIOUS
<1>2. Min({x, y}) \in {x, y} /\ \A z \in {x, y} : Min({x, y}) <= z
  BY <1>1, MinIsLeast
<1> QED
  BY <1>2

LEMMA Larger == ASSUME NEW x \in Int, NEW y \in Int
                PROVE  Max({x, y}) = IF x <= y THEN y ELSE x
<1> DEFINE z == IF x <= y THEN y ELSE x
<1>1. z \in {x, y} /\ \A w \in {x, y} : z >= w
  OBVIOUS
<1>2. \A v \in {x, y} : (\A w \in {x, y} : v >= w) => v = z
  OBVIOUS
<1> QED
  BY <1>1, <1>2 DEF Max

LEMMA BufferTyped ==
  ASSUME NEW b \in Buffers
  PROVE  /\ b \in [before : Nat, rest : Seq(InUnits), last : Nat, size : Nat]
         /\ b.before \in Nat /\ b.rest \in Seq(InUnits) /\ b.last \in Nat /\ b.size \in Nat
         /\ Len(b.rest) \in Nat /\ b.before + Len(b.rest) <= b.size /\ b.last <= Len(b.rest)
BY DEF Buffers

LEMMA Fresh ==
  /\ NoBuffer \in Buffers /\ NewBuffer \in Buffers
  /\ NoBuffer.rest = <<>> /\ NoBuffer.last = 0 /\ NoBuffer.size = 0
  /\ NewBuffer.rest = <<>> /\ NewBuffer.last = 0 /\ NewBuffer.size = InSize
<1>1. InSize \in Nat
  BY IOAssumption
<1>2. PICK q \in Seq(InUnits) : q = <<>> /\ Len(q) = 0
  <2>1. <<>> \in Seq(InUnits) /\ Len(<<>>) = 0
    OBVIOUS
  <2> QED
    BY <2>1
<1>3. NoBuffer = [before |-> 0, rest |-> q, last |-> 0, size |-> 0]
  BY <1>2 DEF NoBuffer
<1>4. NewBuffer = [before |-> 0, rest |-> q, last |-> 0, size |-> InSize]
  BY <1>3 DEF NewBuffer
<1>5. ASSUME NEW n \in Nat, NEW b, b = [before |-> 0, rest |-> q, last |-> 0, size |-> n]
      PROVE  b \in Buffers /\ b.rest = q /\ b.last = 0 /\ b.size = n
  <2>1. /\ b \in [before : Nat, rest : Seq(InUnits), last : Nat, size : Nat]
        /\ b.before = 0 /\ b.rest = q /\ b.last = 0 /\ b.size = n
    BY <1>5
  <2>2. b.before + Len(b.rest) <= b.size /\ b.last <= Len(b.rest)
    BY <1>2, <2>1
  <2> QED
    BY <2>1, <2>2 DEF Buffers
<1>6. NoBuffer \in Buffers /\ NoBuffer.rest = q /\ NoBuffer.last = 0 /\ NoBuffer.size = 0
  BY <1>3, <1>5
<1>7. NewBuffer \in Buffers /\ NewBuffer.rest = q /\ NewBuffer.last = 0 /\ NewBuffer.size = InSize
  BY <1>1, <1>4, <1>5
<1> QED
  BY <1>2, <1>6, <1>7

LEMMA AdvancedIs ==
  ASSUME NEW b \in Buffers
  PROVE  /\ Advanced(b) \in Buffers /\ Advanced(b).last = 0
         /\ Advanced(b).rest = Drop(b.rest, b.last)
         /\ Len(Advanced(b).rest) = Len(b.rest) - b.last
<1>1. /\ b.before \in Nat /\ b.rest \in Seq(InUnits) /\ b.last \in Nat /\ b.size \in Nat
      /\ Len(b.rest) \in Nat /\ b.before + Len(b.rest) <= b.size /\ b.last <= Len(b.rest)
      /\ b \in [before : Nat, rest : Seq(InUnits), last : Nat, size : Nat]
  BY BufferTyped
<1>2. b.last \in 0 .. Len(b.rest)
  BY <1>1
<1>3. Drop(b.rest, b.last) \in Seq(InUnits) /\ Len(Drop(b.rest, b.last)) = Len(b.rest) - b.last
  BY <1>1, <1>2, SequenceDrop
<1>4. /\ Advanced(b) \in [before : Nat, rest : Seq(InUnits), last : Nat, size : Nat]
      /\ Advanced(b).before = b.before + b.last /\ Advanced(b).size = b.size
      /\ Advanced(b).rest = Drop(b.rest, b.last) /\ Advanced(b).last = 0
  <2>1. PICK q \in Seq(InUnits), n \in Nat : q = Drop(b.rest, b.last) /\ n = b.before + b.last
    BY <1>1, <1>3
  <2>2. PICK a : a = [b EXCEPT !.before = n, !.rest = q, !.last = 0]
    OBVIOUS
  <2>3. Advanced(b) = a
    BY <2>1, <2>2 DEF Advanced
  <2>4. /\ a \in [before : Nat, rest : Seq(InUnits), last : Nat, size : Nat]
        /\ a.before = n /\ a.rest = q /\ a.last = 0 /\ a.size = b.size
    BY <1>1, <2>2
  <2> QED
    BY <2>1, <2>3, <2>4
<1>5. Advanced(b).before + Len(Advanced(b).rest) <= Advanced(b).size
  BY <1>1, <1>3, <1>4
<1> QED
  BY <1>1, <1>3, <1>4, <1>5 DEF Buffers

LEMMA SequencePushed ==
  ASSUME NEW S, NEW q \in Seq(S), NEW x \in S
  PROVE  /\ <<x>> \o q \in Seq(S) /\ <<x>> \o q # <<>> /\ Head(<<x>> \o q) = x
         /\ Tail(<<x>> \o q) = q
OBVIOUS

Clean(q) == \A i \in DOMAIN q : Len(q[i].rest) = q[i].last

LEMMA ReleasedClean ==
  ASSUME IOInv, NEW c \in Clients
  PROVE  Released(c) \in Seq(Buffers) /\ Clean(Released(c))
<1>1. freeInputs \in Seq(Buffers) /\ Clean(freeInputs) /\ input \in [Clients -> Buffers]
  BY DEF IOInv, Typed, Lent, Clean
<1>2. CASE Released(c) = freeInputs
  BY <1>1, <1>2
<1>3. CASE Released(c) # freeInputs
  <2>1. available \in Clients /\ Released(c) = <<input[available]>> \o freeInputs
    BY <1>3 DEF Released, IOInv, Typed
  <2>2. PICK b \in Buffers : b = input[available] /\ Len(b.rest) = b.last
    BY <1>1, <2>1, IOAssumption DEF IOInv, Lent
  <2>3. Released(c) = <<b>> \o freeInputs
    BY <2>1, <2>2
  <2>4. <<b>> \in Seq(Buffers) /\ Len(<<b>>) = 1 /\ <<b>>[1] = b
    OBVIOUS
  <2>5. PICK q \in Seq(Buffers) : q = <<b>>
    BY <2>4
  <2>6. /\ q \o freeInputs \in Seq(Buffers) /\ Len(q \o freeInputs) = 1 + Len(freeInputs)
        /\ \A k \in 1 .. 1 : (q \o freeInputs)[k] = b
        /\ \A k \in 1 .. Len(freeInputs) : (q \o freeInputs)[1 + k] = freeInputs[k]
        /\ Len(freeInputs) \in Nat
    BY <1>1, <2>4, <2>5, SequenceJoin
  <2>7. PICK r \in Seq(Buffers) : r = q \o freeInputs
    BY <2>6
  <2>8. Clean(r)
    <3> SUFFICES ASSUME NEW i \in DOMAIN r PROVE Len(r[i].rest) = r[i].last
      BY DEF Clean
    <3>1. i \in 1 .. Len(r)
      OBVIOUS
    <3>2. CASE i = 1
      BY <2>2, <2>6, <2>7, <3>2
    <3>3. CASE i # 1
      <4>1. i - 1 \in 1 .. Len(freeInputs) /\ 1 + (i - 1) = i
        BY <2>6, <2>7, <3>1, <3>3
      <4>2. r[i] = freeInputs[i - 1] /\ i - 1 \in DOMAIN freeInputs
        BY <1>1, <2>6, <2>7, <4>1
      <4> QED
        BY <1>1, <4>2 DEF Clean
    <3> QED
      BY <3>2, <3>3
  <2> QED
    BY <2>3, <2>5, <2>7, <2>8
<1> QED
  BY <1>2, <1>3

LEMMA CleanTail ==
  ASSUME NEW q \in Seq(Buffers), q # <<>>, Clean(q)
  PROVE  /\ Head(q) \in Buffers /\ Len(Head(q).rest) = Head(q).last
         /\ Tail(q) \in Seq(Buffers) /\ Clean(Tail(q))
<1>1. /\ Tail(q) \in Seq(Buffers) /\ Len(Tail(q)) = Len(q) - 1 /\ Len(q) \in Nat \ {0}
      /\ \A i \in 1 .. Len(q) - 1 : Tail(q)[i] = q[i + 1]
      /\ Head(q) = q[1] /\ q[1] \in Buffers
  OBVIOUS
<1>2. DOMAIN q = 1 .. Len(q) /\ DOMAIN Tail(q) = 1 .. Len(q) - 1
  BY <1>1
<1>3. \A i \in 1 .. Len(q) - 1 : i + 1 \in 1 .. Len(q)
  BY <1>1
<1>4. 1 \in DOMAIN q
  BY <1>1, <1>2
<1>5. Clean(Tail(q))
  BY <1>1, <1>2, <1>3 DEF Clean
<1> QED
  BY <1>1, <1>4, <1>5 DEF Clean

LEMMA DropAll ==
  ASSUME NEW q \in Seq(InUnits)
  PROVE  Drop(q, Len(q)) = <<>>
BY DEF Drop

\* The buffer that a client goes on with has what was left of its own, and the
\* other clients keep theirs or had nothing left in them.
LEMMA BufferTaken ==
  ASSUME IOInv, NEW c \in Clients
  PROVE  /\ BufferFor(c) \in Buffers /\ BufferFor(c).last = 0
         /\ BufferFor(c).rest = Drop(input[c].rest, input[c].last)
         /\ Len(BufferFor(c).rest) = Len(input[c].rest) - input[c].last
         /\ StillFree(c) \in Seq(Buffers) /\ Clean(StillFree(c))
         /\ input[c] \in Buffers
<1>1. input[c] \in Buffers
  BY DEF IOInv, Typed
<1>2. Released(c) \in Seq(Buffers) /\ Clean(Released(c))
  BY ReleasedClean
<1>3. CASE input[c].size > 0
  <2>1. BufferFor(c) = Advanced(input[c])
    BY <1>3 DEF BufferFor
  <2>2. StillFree(c) = Released(c)
    BY <1>1, <1>3, BufferTyped DEF StillFree
  <2> QED
    BY <1>1, <1>2, <2>1, <2>2, AdvancedIs
<1>4. CASE ~(input[c].size > 0)
  <2>1. /\ input[c].size = 0 /\ Len(input[c].rest) = 0 /\ input[c].last = 0
        /\ input[c].rest \in Seq(InUnits)
    BY <1>1, <1>4, BufferTyped
  <2>2. Drop(input[c].rest, input[c].last) = <<>>
    BY <2>1, DropAll
  <2>3. PICK b \in Buffers : BufferFor(c) = Advanced(b) /\ Len(b.rest) = b.last
    <3>1. CASE Released(c) # <<>>
      <4>1. BufferFor(c) = Advanced(Head(Released(c)))
        BY <1>4, <3>1 DEF BufferFor
      <4> QED
        BY <1>2, <3>1, <4>1, CleanTail
    <3>2. CASE Released(c) = <<>>
      <4>1. BufferFor(c) = Advanced(NewBuffer)
        BY <1>4, <3>2 DEF BufferFor
      <4>2. Len(NewBuffer.rest) = NewBuffer.last
        BY Fresh
      <4> QED
        BY <4>1, <4>2, Fresh
    <3> QED
      BY <3>1, <3>2
  <2>4. BufferFor(c).rest = <<>>
    <3>1. Drop(b.rest, Len(b.rest)) = <<>>
      BY BufferTyped, DropAll
    <3> QED
      BY <2>3, <3>1, AdvancedIs
  <2>5. StillFree(c) \in Seq(Buffers) /\ Clean(StillFree(c))
    <3>1. CASE Released(c) # <<>>
      BY <1>2, <2>1, <3>1, CleanTail DEF StillFree
    <3>2. CASE Released(c) = <<>>
      BY <1>2, <3>2 DEF StillFree
    <3> QED
      BY <3>1, <3>2
  <2> QED
    BY <1>1, <2>1, <2>2, <2>3, <2>4, <2>5, AdvancedIs
<1> QED
  BY <1>3, <1>4

LEMMA RoomMade ==
  ASSUME NEW b \in Buffers, NEW needed \in Nat, b.last = 0
  PROVE  /\ MakeRoom(b, needed) \in Buffers /\ MakeRoom(b, needed).last = 0
         /\ MakeRoom(b, needed).rest = b.rest
<1>1. /\ b.before \in Nat /\ b.rest \in Seq(InUnits) /\ b.size \in Nat
      /\ Len(b.rest) \in Nat /\ b.before + Len(b.rest) <= b.size
      /\ b \in [before : Nat, rest : Seq(InUnits), last : Nat, size : Nat]
  BY BufferTyped
<1>2. PICK z \in Nat : z = Max({b.size, needed}) /\ b.size <= z
  BY <1>1, Larger
<1>3. \/ MakeRoom(b, needed) = b
      \/ MakeRoom(b, needed) = [b EXCEPT !.before = 0, !.size = z]
  BY <1>2 DEF MakeRoom
<1>4. CASE MakeRoom(b, needed) = b
  BY <1>4
<1>5. CASE MakeRoom(b, needed) = [b EXCEPT !.before = 0, !.size = z]
  <2>1. PICK r : r = [b EXCEPT !.before = 0, !.size = z]
    OBVIOUS
  <2>2. /\ r \in [before : Nat, rest : Seq(InUnits), last : Nat, size : Nat]
        /\ r.before = 0 /\ r.size = z /\ r.rest = b.rest /\ r.last = 0
    BY <1>1, <2>1
  <2>3. r.before + Len(r.rest) <= r.size /\ r.last <= Len(r.rest)
    BY <1>1, <1>2, <2>2
  <2> QED
    BY <1>5, <2>1, <2>2, <2>3 DEF Buffers
<1> QED
  BY <1>3, <1>4, <1>5

LEMMA BufferFilled ==
  ASSUME NEW b \in Buffers, NEW c \in Clients, NEW needed \in Nat, b.last = 0,
         sent[c] \in Nat, arrived[c] \in Nat, arrived[c] <= sent[c]
  PROVE  /\ Filled(c, b, needed) \in Buffers /\ Filled(c, b, needed).last = 0
         /\ \E n \in Nat : /\ n <= sent[c] - arrived[c]
                           /\ Filled(c, b, needed).rest = b.rest \o Units(c, arrived[c] + 1, arrived[c] + n)
                           /\ Len(Filled(c, b, needed).rest) = Len(b.rest) + n
<1>1. /\ b.before \in Nat /\ b.rest \in Seq(InUnits) /\ b.size \in Nat
      /\ Len(b.rest) \in Nat /\ b.before + Len(b.rest) <= b.size
      /\ b \in [before : Nat, rest : Seq(InUnits), last : Nat, size : Nat]
  BY BufferTyped
<1>2. PICK x \in Nat, y \in Nat : x = b.size - b.before - Len(b.rest) /\ y = sent[c] - arrived[c]
  BY <1>1
<1>3. PICK n \in Nat : n = Min({x, y}) /\ n <= x /\ n <= y
  BY Smaller
<1>4. PICK u \in Seq(InUnits) : u = Units(c, arrived[c] + 1, arrived[c] + n) /\ Len(u) = n
  <2>1. /\ arrived[c] + 1 \in Nat /\ arrived[c] + n \in Int
        /\ arrived[c] + 1 <= (arrived[c] + n) + 1
        /\ (arrived[c] + n) + 1 - (arrived[c] + 1) = n
    OBVIOUS
  <2>2. /\ Units(c, arrived[c] + 1, arrived[c] + n) \in Seq(InUnits)
        /\ Len(Units(c, arrived[c] + 1, arrived[c] + n)) = (arrived[c] + n) + 1 - (arrived[c] + 1)
    BY <2>1, UnitsTyped
  <2> QED
    BY <2>1, <2>2
<1>5. PICK q \in Seq(InUnits) : q = b.rest \o u /\ Len(q) = Len(b.rest) + n
  <2>1. b.rest \in Seq(InUnits)
    BY <1>1
  <2>2. b.rest \o u \in Seq(InUnits) /\ Len(b.rest \o u) = Len(b.rest) + Len(u)
    BY <2>1, SequenceJoin
  <2> QED
    BY <1>4, <2>2
<1>6. PICK f : f = [b EXCEPT !.rest = q]
  OBVIOUS
<1>7. /\ f \in [before : Nat, rest : Seq(InUnits), last : Nat, size : Nat]
      /\ f.before = b.before /\ f.size = b.size /\ f.rest = q /\ f.last = 0
  BY <1>1, <1>6
<1>8. f = [b EXCEPT !.rest = b.rest \o Units(c, arrived[c] + 1, arrived[c] + Min({x, y}))]
  BY <1>3, <1>4, <1>5, <1>6
<1>9. f.before + Len(f.rest) <= f.size /\ Len(f.rest) \in Nat
  BY <1>1, <1>2, <1>3, <1>5, <1>7
<1>10. \/ Filled(c, b, needed) = f
       \/ Filled(c, b, needed) = [f EXCEPT !.size = InSize] /\ f.before + Len(f.rest) < InSize
  BY <1>2, <1>8 DEF Filled
<1>11. PICK g : g = [f EXCEPT !.size = InSize]
  OBVIOUS
<1>12. InSize \in Nat
  BY IOAssumption
<1>13. /\ g \in [before : Nat, rest : Seq(InUnits), last : Nat, size : Nat]
       /\ g.before = f.before /\ g.size = InSize /\ g.rest = q /\ g.last = 0
  BY <1>7, <1>11, <1>12
<1>14. f \in Buffers
  BY <1>7, <1>9 DEF Buffers
<1>15. f.before + Len(f.rest) < InSize => g \in Buffers
  BY <1>7, <1>9, <1>12, <1>13 DEF Buffers
<1>16. Filled(c, b, needed) \in Buffers /\ Filled(c, b, needed).last = 0 /\ Filled(c, b, needed).rest = q
  BY <1>7, <1>10, <1>11, <1>13, <1>14, <1>15
<1> QED
  BY <1>2, <1>3, <1>4, <1>5, <1>16

-----------------------------------------------------------------------------
(* Replies: what is written is what was to be written, in order.             *)

Outs == {o \in [client : Clients, data : Seq(OutUnits), size : Nat, socket : Seq(OutUnits),
                pending : BOOLEAN, new : BOOLEAN, blocked : BOOLEAN, broken : BOOLEAN] :
           Len(o.data) <= o.size /\ Len(o.socket) <= Room}

LEMMA OutTyped ==
  ASSUME NEW o \in Outs
  PROVE  /\ o \in [client : Clients, data : Seq(OutUnits), size : Nat, socket : Seq(OutUnits),
                   pending : BOOLEAN, new : BOOLEAN, blocked : BOOLEAN, broken : BOOLEAN]
         /\ o.client \in Clients /\ o.data \in Seq(OutUnits) /\ o.socket \in Seq(OutUnits)
         /\ o.size \in Nat /\ Len(o.data) \in Nat /\ Len(o.socket) \in Nat
         /\ Len(o.data) <= o.size /\ Len(o.socket) <= Room /\ Room \in Nat /\ OutSize \in Nat \ {0}
BY IOAssumption DEF Outs

LEMMA SplitJoin ==
  ASSUME NEW S, NEW q \in Seq(S), NEW n \in 0 .. Len(q)
  PROVE  SubSeq(q, 1, n) \o Drop(q, n) = q
<1>1. /\ Drop(q, n) \in Seq(S) /\ Len(Drop(q, n)) = Len(q) - n
      /\ \A k \in 1 .. Len(q) - n : Drop(q, n)[k] = q[n + k]
      /\ SubSeq(q, 1, n) \in Seq(S) /\ Len(SubSeq(q, 1, n)) = n
      /\ \A k \in 1 .. n : SubSeq(q, 1, n)[k] = q[k]
  BY SequenceDrop
<1>2. PICK u \in Seq(S), v \in Seq(S) : u = SubSeq(q, 1, n) /\ v = Drop(q, n)
  BY <1>1
<1>3. /\ u \o v \in Seq(S) /\ Len(u \o v) = Len(u) + Len(v)
      /\ Len(u) = n /\ Len(v) = Len(q) - n /\ Len(q) \in Nat
      /\ \A k \in 1 .. Len(u) : (u \o v)[k] = u[k]
      /\ \A k \in 1 .. Len(v) : (u \o v)[Len(u) + k] = v[k]
  BY <1>1, <1>2, SequenceJoin
<1>4. PICK w \in Seq(S) : w = u \o v
  BY <1>3
<1>5. Len(w) = Len(q)
  BY <1>3, <1>4
<1>6. \A k \in 1 .. Len(w) : w[k] = q[k]
  <2> SUFFICES ASSUME NEW k \in 1 .. Len(w) PROVE w[k] = q[k]
    OBVIOUS
  <2>1. CASE k \in 1 .. n
    BY <1>1, <1>2, <1>3, <1>4, <2>1
  <2>2. CASE k \notin 1 .. n
    <3>1. PICK j \in 1 .. Len(q) - n : k = n + j
      <4>1. k - n \in 1 .. Len(q) - n /\ k = n + (k - n)
        BY <1>3, <1>5, <2>2
      <4> QED
        BY <4>1
    <3> QED
      BY <1>1, <1>2, <1>3, <1>4, <3>1
  <2> QED
    BY <2>1, <2>2
<1>7. w = q
  BY <1>5, <1>6, SameSequence
<1> QED
  BY <1>2, <1>4, <1>7

LEMMA JoinTwice ==
  ASSUME NEW S, NEW q \in Seq(S), NEW r \in Seq(S), NEW s \in Seq(S)
  PROVE  (q \o r) \o s = q \o (r \o s)
OBVIOUS

LEMMA SplitJoinBehind ==
  ASSUME NEW S, NEW p \in Seq(S), NEW q \in Seq(S), NEW n \in 0 .. Len(q)
  PROVE  (p \o SubSeq(q, 1, n)) \o Drop(q, n) = p \o q
<1>1. /\ SubSeq(q, 1, n) \in Seq(S) /\ Drop(q, n) \in Seq(S)
      /\ SubSeq(q, 1, n) \o Drop(q, n) = q
  BY SequenceDrop, SplitJoin
<1>2. PICK u \in Seq(S), v \in Seq(S) : u = SubSeq(q, 1, n) /\ v = Drop(q, n)
  BY <1>1
<1>3. (p \o u) \o v = p \o (u \o v)
  BY JoinTwice
<1> QED
  BY <1>1, <1>2, <1>3

\* All that was written to o and that the client has not read.
Written(o) == o.socket \o o.data

\* A flush writes what it can, or breaks the connection.
LEMMA FlushKeeps ==
  ASSUME NEW o \in Outs, NEW extra \in Seq(OutUnits), o.size = 0 => extra = <<>>
  PROVE  /\ FlushClient(o, extra) \in Outs
         /\ FlushClient(o, extra).client = o.client
         /\ o.broken => FlushClient(o, extra).broken
         /\ ~FlushClient(o, extra).broken =>
               Written(FlushClient(o, extra)) = Written(o) \o extra
<1>1. /\ o \in [client : Clients, data : Seq(OutUnits), size : Nat, socket : Seq(OutUnits),
                pending : BOOLEAN, new : BOOLEAN, blocked : BOOLEAN, broken : BOOLEAN]
      /\ o.data \in Seq(OutUnits) /\ o.socket \in Seq(OutUnits)
      /\ o.size \in Nat /\ Len(o.data) \in Nat /\ Len(o.socket) \in Nat
      /\ Len(o.data) <= o.size /\ Len(o.socket) <= Room /\ Room \in Nat /\ OutSize \in Nat \ {0}
  BY OutTyped
<1>2. PICK all \in Seq(OutUnits) : all = o.data \o extra
  BY <1>1, SequenceJoin
<1>3. PICK len \in Nat, free \in Nat : len = Len(all) /\ free = Room - Len(o.socket)
  <2>1. Len(all) \in Nat /\ Room - Len(o.socket) \in Nat
    BY <1>1
  <2> QED
    BY <2>1
<1>4. PICK n \in 0 .. len : n = Min({len, free}) /\ n <= free
  <2>1. Min({len, free}) = IF len <= free THEN len ELSE free
    BY Smaller
  <2> QED
    BY <2>1
<1>5. PICK taken \in Seq(OutUnits), left \in Seq(OutUnits) :
           /\ taken = SubSeq(all, 1, n) /\ left = Drop(all, n)
           /\ Len(taken) = n /\ Len(left) = len - n
           /\ (o.socket \o taken) \o left = o.socket \o all
  <2>1. o.socket \in Seq(OutUnits) /\ all \in Seq(OutUnits) /\ n \in 0 .. Len(all)
    BY <1>1, <1>3
  <2>2. /\ Drop(all, n) \in Seq(OutUnits) /\ Len(Drop(all, n)) = Len(all) - n
        /\ SubSeq(all, 1, n) \in Seq(OutUnits) /\ Len(SubSeq(all, 1, n)) = n
    BY ONLY <2>1, SequenceDrop
  <2>3. (o.socket \o SubSeq(all, 1, n)) \o Drop(all, n) = o.socket \o all
    BY ONLY <2>1, SplitJoinBehind
  <2> QED
    BY <1>3, <2>2, <2>3
<1>6. FlushClient(o, extra) =
         IF o.size = 0 THEN o
         ELSE IF all # <<>> /\ (o.broken \/ o.client \in hungUp)
         THEN [o EXCEPT !.data = <<>>, !.broken = TRUE]
         ELSE IF len - n = 0
         THEN [o EXCEPT !.data = <<>>, !.size = 0, !.socket = @ \o all, !.blocked = FALSE]
         ELSE [o EXCEPT !.data = left, !.socket = @ \o taken, !.blocked = TRUE,
                        !.size = IF len - n > @ THEN (len - n) + OutSize ELSE @]
  BY <1>2, <1>3, <1>4, <1>5 DEF FlushClient
<1>7. Written(o) \o extra = o.socket \o all
  <2>1. PICK s \in Seq(OutUnits), d \in Seq(OutUnits) : s = o.socket /\ d = o.data
    BY <1>1
  <2>2. (s \o d) \o extra = s \o (d \o extra)
    <3>1. s \in Seq(OutUnits) /\ d \in Seq(OutUnits) /\ extra \in Seq(OutUnits)
      OBVIOUS
    <3> QED
      BY ONLY <3>1
  <2> QED
    BY <1>2, <2>1, <2>2 DEF Written
<1>8. CASE o.size = 0
  <2>1. extra = <<>> /\ Written(o) \in Seq(OutUnits)
    BY <1>1, <1>8, SequenceJoin DEF Written
  <2> QED
    BY <1>6, <1>8, <2>1, JoinEmpty
<1>9. PICK empty \in Seq(OutUnits) : empty = <<>> /\ Len(empty) = 0
  <2>1. <<>> \in Seq(OutUnits) /\ Len(<<>>) = 0
    OBVIOUS
  <2> QED
    BY <2>1
<1>10. CASE o.size # 0 /\ all # <<>> /\ (o.broken \/ o.client \in hungUp)
  <2>1. PICK f : f = [o EXCEPT !.data = empty, !.broken = TRUE]
    OBVIOUS
  <2>2. /\ f \in [client : Clients, data : Seq(OutUnits), size : Nat, socket : Seq(OutUnits),
                  pending : BOOLEAN, new : BOOLEAN, blocked : BOOLEAN, broken : BOOLEAN]
        /\ f.client = o.client /\ f.data = empty /\ f.size = o.size /\ f.socket = o.socket
        /\ f.broken = TRUE
    BY <1>1, <2>1
  <2>3. f \in Outs
    BY <1>1, <1>9, <2>2 DEF Outs
  <2> QED
    BY <1>6, <1>9, <1>10, <2>1, <2>2, <2>3
<1>11. CASE o.size # 0 /\ ~(all # <<>> /\ (o.broken \/ o.client \in hungUp)) /\ len - n = 0
  <2>1. PICK sock \in Seq(OutUnits) : sock = o.socket \o all /\ Len(sock) = Len(o.socket) + len
    <3>1. o.socket \in Seq(OutUnits) /\ all \in Seq(OutUnits)
      BY <1>1
    <3>2. o.socket \o all \in Seq(OutUnits) /\ Len(o.socket \o all) = Len(o.socket) + Len(all)
      BY ONLY <3>1, SequenceJoin
    <3> QED
      BY <1>3, <3>2
  <2>2. PICK f : f = [o EXCEPT !.data = empty, !.size = 0, !.socket = sock, !.blocked = FALSE]
    OBVIOUS
  <2>3. /\ f \in [client : Clients, data : Seq(OutUnits), size : Nat, socket : Seq(OutUnits),
                  pending : BOOLEAN, new : BOOLEAN, blocked : BOOLEAN, broken : BOOLEAN]
        /\ f.client = o.client /\ f.data = empty /\ f.size = 0 /\ f.socket = sock
        /\ f.broken = o.broken
    BY <1>1, <2>2
  <2>4. Len(f.socket) <= Room /\ Len(f.data) <= f.size
    BY <1>1, <1>3, <1>4, <1>9, <1>11, <2>1, <2>3
  <2>5. f \in Outs
    BY <2>3, <2>4 DEF Outs
  <2>6. Written(f) = o.socket \o all
    BY <1>9, <2>1, <2>3, JoinEmpty DEF Written
  <2>7. FlushClient(o, extra) = f
    BY <1>6, <1>9, <1>11, <2>1, <2>2
  <2> QED
    BY <1>7, <2>3, <2>5, <2>6, <2>7
<1>12. CASE o.size # 0 /\ ~(all # <<>> /\ (o.broken \/ o.client \in hungUp)) /\ len - n # 0
  <2>1. PICK sock \in Seq(OutUnits) : sock = o.socket \o taken /\ Len(sock) = Len(o.socket) + n
    <3>1. o.socket \in Seq(OutUnits) /\ taken \in Seq(OutUnits)
      BY <1>1
    <3>2. o.socket \o taken \in Seq(OutUnits) /\ Len(o.socket \o taken) = Len(o.socket) + Len(taken)
      BY ONLY <3>1, SequenceJoin
    <3> QED
      BY <1>5, <3>2
  <2>2. PICK z \in Nat : z = (IF len - n > o.size THEN (len - n) + OutSize ELSE o.size) /\ len - n <= z
    <3>1. o.size \in Nat /\ OutSize \in Nat
      BY <1>1
    <3>2. PICK m \in Nat : m = len - n
      BY <1>4
    <3>3. PICK z \in Nat : z = (IF m > o.size THEN m + OutSize ELSE o.size) /\ m <= z
      <4>1. CASE m > o.size
        <5>1. m + OutSize \in Nat /\ m <= m + OutSize
          BY <3>1
        <5> QED
          BY <4>1, <5>1
      <4>2. CASE ~(m > o.size)
        <5>1. m <= o.size
          BY <3>1, <4>2
        <5> QED
          BY <3>1, <4>2, <5>1
      <4> QED
        BY <4>1, <4>2
    <3> QED
      BY <3>2, <3>3
  <2>3. PICK f : f = [o EXCEPT !.data = left, !.socket = sock, !.blocked = TRUE, !.size = z]
    OBVIOUS
  <2>4. /\ f \in [client : Clients, data : Seq(OutUnits), size : Nat, socket : Seq(OutUnits),
                  pending : BOOLEAN, new : BOOLEAN, blocked : BOOLEAN, broken : BOOLEAN]
        /\ f.client = o.client /\ f.data = left /\ f.size = z /\ f.socket = sock
        /\ f.broken = o.broken
    BY <1>1, <2>3
  <2>5. Len(f.socket) <= Room /\ Len(f.data) <= f.size
    <3>1. Len(sock) = Len(o.socket) + n /\ Len(left) = len - n /\ len - n <= z
      BY <1>5, <2>1, <2>2
    <3>2. n <= Room - Len(o.socket) /\ n \in Nat /\ Room \in Nat /\ Len(o.socket) \in Nat
      BY <1>1, <1>3, <1>4
    <3>3. Len(o.socket) + n <= Room
      BY <3>2
    <3> QED
      BY <2>4, <3>1, <3>3
  <2>6. f \in Outs
    BY <2>4, <2>5 DEF Outs
  <2>7. Written(f) = o.socket \o all
    BY <1>5, <2>1, <2>4 DEF Written
  <2>8. FlushClient(o, extra) = f
    BY <1>6, <1>12, <2>1, <2>2, <2>3
  <2> QED
    BY <1>7, <2>4, <2>6, <2>7, <2>8
<1> QED
  BY <1>8, <1>10, <1>11, <1>12

\* So does a write, through the buffer or past it.
LEMMA WriteKeeps ==
  ASSUME NEW o \in Outs, NEW piece \in Seq(OutUnits)
  PROVE  /\ WriteToClient(o, piece) \in Outs
         /\ WriteToClient(o, piece).client = o.client
         /\ o.broken => WriteToClient(o, piece).broken
         /\ ~WriteToClient(o, piece).broken =>
               Written(WriteToClient(o, piece)) = Written(o) \o piece
<1>1. /\ o \in [client : Clients, data : Seq(OutUnits), size : Nat, socket : Seq(OutUnits),
                pending : BOOLEAN, new : BOOLEAN, blocked : BOOLEAN, broken : BOOLEAN]
      /\ o.data \in Seq(OutUnits) /\ o.socket \in Seq(OutUnits)
      /\ o.size \in Nat /\ Len(o.data) \in Nat /\ Len(o.socket) \in Nat
      /\ Len(o.data) <= o.size /\ Len(o.socket) <= Room /\ Room \in Nat /\ OutSize \in Nat \ {0}
  BY OutTyped
<1>2. CASE piece = <<>>
  <2>1. WriteToClient(o, piece) = o
    BY <1>2 DEF WriteToClient
  <2>2. Written(o) \in Seq(OutUnits)
    BY <1>1, SequenceJoin DEF Written
  <2> QED
    BY <1>2, <2>1, <2>2, JoinEmpty
<1>3. CASE piece # <<>>
  <2>1. PICK z \in Nat \ {0} : z = (IF o.size = 0 THEN OutSize ELSE o.size) /\ Len(o.data) <= z
    BY <1>1
  <2>2. PICK b : b = [o EXCEPT !.size = z]
    OBVIOUS
  <2>3. /\ b \in [client : Clients, data : Seq(OutUnits), size : Nat, socket : Seq(OutUnits),
                  pending : BOOLEAN, new : BOOLEAN, blocked : BOOLEAN, broken : BOOLEAN]
        /\ b.client = o.client /\ b.data = o.data /\ b.size = z /\ b.socket = o.socket
        /\ b.broken = o.broken
    BY <1>1, <2>1, <2>2
  <2>4. b = IF o.size = 0 THEN [o EXCEPT !.size = OutSize] ELSE o
    BY <1>1, <2>1, <2>2
  <2>5. WriteToClient(o, piece) =
           IF Len(b.data) + Len(piece) > b.size
           THEN FlushClient([b EXCEPT !.pending = FALSE, !.new = FALSE], piece)
           ELSE [b EXCEPT !.pending = TRUE, !.new = TRUE, !.data = @ \o piece]
    BY <1>3, <2>4 DEF WriteToClient
  <2>6. Written(b) = Written(o)
    BY <2>3 DEF Written
  <2>7. CASE Len(b.data) + Len(piece) > b.size
    <3>1. PICK f : f = [b EXCEPT !.pending = FALSE, !.new = FALSE]
      OBVIOUS
    <3>2. /\ f \in [client : Clients, data : Seq(OutUnits), size : Nat, socket : Seq(OutUnits),
                    pending : BOOLEAN, new : BOOLEAN, blocked : BOOLEAN, broken : BOOLEAN]
          /\ f.client = o.client /\ f.data = o.data /\ f.size = z /\ f.socket = o.socket
          /\ f.broken = o.broken
      BY <2>3, <3>1
    <3>3. f \in Outs /\ f.size # 0
      BY <1>1, <2>1, <3>2 DEF Outs
    <3>4. WriteToClient(o, piece) = FlushClient(f, piece)
      BY <2>5, <2>7, <3>1
    <3>5. Written(f) = Written(o)
      BY <3>2 DEF Written
    <3> QED
      BY <3>2, <3>3, <3>4, <3>5, FlushKeeps
  <2>8. CASE ~(Len(b.data) + Len(piece) > b.size)
    <3>1. PICK q \in Seq(OutUnits) : q = o.data \o piece /\ Len(q) = Len(o.data) + Len(piece)
                                     /\ Len(piece) \in Nat
      BY <1>1, SequenceJoin
    <3>2. PICK f : f = [b EXCEPT !.pending = TRUE, !.new = TRUE, !.data = q]
      OBVIOUS
    <3>3. /\ f \in [client : Clients, data : Seq(OutUnits), size : Nat, socket : Seq(OutUnits),
                    pending : BOOLEAN, new : BOOLEAN, blocked : BOOLEAN, broken : BOOLEAN]
          /\ f.client = o.client /\ f.data = q /\ f.size = z /\ f.socket = o.socket
          /\ f.broken = o.broken
      BY <2>3, <3>2
    <3>4. Len(f.data) <= f.size /\ Len(f.socket) <= Room
      BY <1>1, <2>1, <2>3, <2>8, <3>1, <3>3
    <3>5. f \in Outs
      BY <3>3, <3>4 DEF Outs
    <3>6. WriteToClient(o, piece) = f
      BY <2>3, <2>5, <2>8, <3>1, <3>2
    <3>7. Written(f) = Written(o) \o piece
      <4>1. PICK s \in Seq(OutUnits), d \in Seq(OutUnits) : s = o.socket /\ d = o.data
        BY <1>1
      <4>2. (s \o d) \o piece = s \o (d \o piece)
        BY JoinTwice
      <4> QED
        BY <3>1, <3>3, <4>1, <4>2 DEF Written
    <3> QED
      BY <3>3, <3>5, <3>6, <3>7
  <2> QED
    BY <2>7, <2>8
<1> QED
  BY <1>2, <1>3

\* A reply is written whole, or the connection breaks.
LEMMA ReplyWritten ==
  ASSUME NEW c \in Clients, OutputOf(c) \in Outs, NEW pieces \in Seq(Seq(OutUnits))
  PROVE  /\ WriteReply(c, pieces) \in Outs
         /\ WriteReply(c, pieces).client = OutputOf(c).client
         /\ OutputOf(c).broken => WriteReply(c, pieces).broken
         /\ ~WriteReply(c, pieces).broken =>
               Written(WriteReply(c, pieces)) = Written(OutputOf(c)) \o FlattenSeq(pieces)
<1>1. PICK o \in Outs : o = OutputOf(c)
  OBVIOUS
<1> DEFINE n == Len(pieces)
           write == [p \in Outs \X (1 .. n) |-> WriteToClient(p[1], pieces[p[2]])]
           F(f) == f = [j \in 0 .. n |-> IF j = 0 THEN OutputOf(c)
                                          ELSE WriteToClient(f[j - 1], pieces[j])]
<1>2. n \in Nat /\ \A j \in 1 .. n : pieces[j] \in Seq(OutUnits)
  OBVIOUS
<1>3. /\ write \in [Outs \X (1 .. n) -> Outs]
      /\ \A x \in Outs, j \in 1 .. n : write[<<x, j>>] = WriteToClient(x, pieces[j])
  <2>1. \A p \in Outs \X (1 .. n) : p[1] \in Outs /\ pieces[p[2]] \in Seq(OutUnits)
    BY <1>2
  <2>2. \A p \in Outs \X (1 .. n) : WriteToClient(p[1], pieces[p[2]]) \in Outs
    BY <2>1, WriteKeeps
  <2> QED
    BY <2>2
<1>4. WriteReply(c, pieces) = (CHOOSE f : F(f))[n]
  BY DEF WriteReply
<1> HIDE DEF write, n
<1>5. PICK f : Recursive(n, o, write, f) /\ \A j \in 0 .. n : f[j] \in Outs
  BY <1>2, <1>3, RecursionExists
<1>6. f[0] = o /\ \A j \in 1 .. n : f[j] = WriteToClient(f[j - 1], pieces[j])
  <2>1. 0 \in 0 .. n /\ \A j \in 1 .. n : j # 0 /\ j \in 0 .. n /\ j - 1 \in 0 .. n
    BY <1>2
  <2>2. f[0] = o /\ \A j \in 1 .. n : f[j] = write[<<f[j - 1], j>>]
    BY <1>5, <2>1 DEF Recursive
  <2> QED
    BY <1>3, <1>5, <2>1, <2>2
<1>7. F(f)
  <2>1. \A j \in 0 .. n : f[j] = IF j = 0 THEN OutputOf(c) ELSE WriteToClient(f[j - 1], pieces[j])
    <3>1. \A j \in 0 .. n : j = 0 \/ j \in 1 .. n
      BY <1>2
    <3> QED
      BY <1>1, <1>6, <3>1
  <2>2. f = [j \in 0 .. n |-> f[j]]
    BY <1>5 DEF Recursive
  <2> QED
    BY <2>1, <2>2
<1>8. PICK w : F(w) /\ w = CHOOSE h : F(h)
  <2>1. F(CHOOSE h : F(h))
    BY <1>7
  <2> QED
    BY <2>1
<1>9. w[0] = o /\ \A j \in 1 .. n : w[j] = WriteToClient(w[j - 1], pieces[j])
  <2>1. \A j \in 0 .. n : w[j] = IF j = 0 THEN OutputOf(c) ELSE WriteToClient(w[j - 1], pieces[j])
    BY <1>8
  <2>2. 0 \in 0 .. n /\ \A j \in 1 .. n : j # 0 /\ j \in 0 .. n
    BY <1>2
  <2> QED
    BY <1>1, <2>1, <2>2
<1> HIDE DEF F
<1>10. PICK g : /\ g[0] = <<>> /\ \A j \in 0 .. n : g[j] \in Seq(OutUnits)
                /\ \A j \in 1 .. n : g[j] = g[j - 1] \o pieces[j]
                /\ FlattenSeq(pieces) = g[n]
  BY FlattenSteps DEF n
<1> DEFINE Good(j) == /\ w[j] \in Outs /\ w[j].client = o.client
                      /\ o.broken => w[j].broken
                      /\ ~w[j].broken => Written(w[j]) = Written(o) \o g[j]
           T == {j \in 0 .. n : ~Good(j)}
<1>11. Written(o) \in Seq(OutUnits)
  <2>1. o.socket \in Seq(OutUnits) /\ o.data \in Seq(OutUnits)
    BY OutTyped
  <2>2. o.socket \o o.data \in Seq(OutUnits)
    BY ONLY <2>1, SequenceJoin
  <2> QED
    BY <2>2 DEF Written
<1>12. Good(0)
  <2>1. Written(o) \o <<>> = Written(o)
    BY <1>11, JoinEmpty
  <2> QED
    BY <1>9, <1>10, <2>1
<1>13. ASSUME NEW j \in 1 .. n, Good(j - 1) PROVE Good(j)
  <2>1. PICK x \in Outs : x = w[j - 1]
    BY <1>13
  <2>2. PICK piece \in Seq(OutUnits) : piece = pieces[j]
    BY <1>2
  <2>3. w[j] = WriteToClient(x, piece)
    BY <1>9, <2>1, <2>2
  <2>4. /\ WriteToClient(x, piece) \in Outs
        /\ WriteToClient(x, piece).client = x.client
        /\ x.broken => WriteToClient(x, piece).broken
        /\ ~WriteToClient(x, piece).broken =>
              Written(WriteToClient(x, piece)) = Written(x) \o piece
    BY WriteKeeps
  <2>5. x.client = o.client /\ (o.broken => x.broken) /\ (~x.broken => Written(x) = Written(o) \o g[j - 1])
    BY <1>13, <2>1
  <2>6. Written(o) \o g[j] = (Written(o) \o g[j - 1]) \o piece
    <3>1. j \in 0 .. n /\ j - 1 \in 0 .. n
      BY <1>2
    <3>2. PICK q \in Seq(OutUnits), s \in Seq(OutUnits) : q = g[j - 1] /\ s = Written(o)
      BY <1>10, <1>11, <3>1
    <3>3. g[j] = q \o piece
      BY <1>10, <2>2, <3>2
    <3>4. (s \o q) \o piece = s \o (q \o piece)
      BY JoinTwice
    <3> QED
      BY <3>2, <3>3, <3>4
  <2> QED
    BY <2>3, <2>4, <2>5, <2>6
<1> HIDE DEF Good
<1>14. T = {}
  <2>1. ASSUME T # {} PROVE FALSE
    <3>1. PICK x \in T : \A y \in T : x <= y
      <4>1. T \in SUBSET Nat
        OBVIOUS
      <4> QED
        BY <2>1, <4>1, LeastElement
    <3>2. x # 0 /\ x \in 1 .. n /\ x - 1 \in 0 .. n /\ x - 1 < x
      BY <1>2, <1>12, <3>1
    <3>3. Good(x - 1)
      BY <3>1, <3>2
    <3> QED
      BY <1>13, <3>1, <3>2, <3>3
  <2> QED
    BY <2>1
<1>15. Good(n)
  <2>1. n \in 0 .. n
    BY <1>2
  <2> QED
    BY <1>14, <2>1
<1>16. WriteReply(c, pieces) = w[n]
  BY <1>4, <1>8
<1> QED
  BY <1>1, <1>10, <1>15, <1>16 DEF Good

\* A connection's output is such a record.
LEMMA OutputTyped ==
  ASSUME IOInv, NEW c \in Clients
  PROVE  /\ OutputOf(c) \in Outs /\ OutputOf(c).client = c
         /\ OutputOf(c).data = output[c].data /\ OutputOf(c).size = output[c].size
         /\ OutputOf(c).socket = socket[c]
         /\ OutputOf(c).new = newPending
         /\ OutputOf(c).broken <=> c \in broken
         /\ Written(OutputOf(c)) = socket[c] \o output[c].data
<1>1. /\ output[c].data \in Seq(OutUnits) /\ output[c].size \in Nat /\ socket[c] \in Seq(OutUnits)
      /\ newPending \in BOOLEAN /\ Len(output[c].data) <= output[c].size /\ Len(socket[c]) <= Room
  BY DEF IOInv, Typed, Bounded
<1>2. PICK p \in BOOLEAN, b \in BOOLEAN, k \in BOOLEAN :
           (p <=> c \in pending) /\ (b <=> c \in blocked) /\ (k <=> c \in broken)
  <2>1. (c \in pending) \in BOOLEAN /\ (c \in blocked) \in BOOLEAN /\ (c \in broken) \in BOOLEAN
    OBVIOUS
  <2> QED
    BY <2>1
<1>3. PICK o : o = OutputOf(c)
  OBVIOUS
<1>4. /\ o.client = c /\ o.data = output[c].data /\ o.size = output[c].size /\ o.socket = socket[c]
      /\ o.new = newPending /\ o.broken = (c \in broken)
  BY <1>3 DEF OutputOf
<1>5. o \in [client : Clients, data : Seq(OutUnits), size : Nat, socket : Seq(OutUnits),
             pending : BOOLEAN, new : BOOLEAN, blocked : BOOLEAN, broken : BOOLEAN]
  BY <1>1, <1>3 DEF OutputOf
<1>6. o \in Outs
  BY <1>1, <1>4, <1>5 DEF Outs
<1> QED
  BY <1>3, <1>4, <1>6 DEF Written

-----------------------------------------------------------------------------
(* A connection's buffer against what has arrived and was served: phase ph,  *)
(* buffer b, arr units arrived, n requests served.                           *)
StreamIn(c, ph, b, arr, n, reading) ==
    /\ b.rest = Units(c, arr + 1 - Len(b.rest), arr) /\ arr + 1 - Len(b.rest) >= 0
    /\ n <= Len(Requests[c]) + 1
    /\ Start(c, n) = arr + 1 - Len(b.rest) + IF reading THEN 0 ELSE b.last
    /\ ph = "open" <=> n > 0

LEMMA Streams ==
  ASSUME NEW c
  PROVE  StreamOK(c) <=> StreamIn(c, phase[c], input[c], arrived[c], Len(handled[c]), Reading(c))
BY DEF StreamOK, StreamIn, From, Served

LEMMA StreamsNext ==
  ASSUME NEW c
  PROVE  StreamOK(c)' <=> StreamIn(c, phase'[c], input'[c], arrived'[c], Len(handled'[c]), Reading(c)')
BY DEF StreamOK, StreamIn, From, Served

LEMMA NoticedNext ==
  Noticed' <=> \A c \in Clients : phase'[c] \notin {"none", "closed"} =>
                  (c \in withInput' <=> WholeIn(phase', Drop(input'[c].rest, input'[c].last)))
BY DEF Noticed, Open, WholeRequest, RequestLength, WholeIn, LengthIn, Drop

LEMMA NoticedNow ==
  Noticed <=> \A c \in Clients : Open(c) =>
                 (c \in withInput <=> WholeIn(phase, Drop(input[c].rest, input[c].last)))
BY DEF Noticed, WholeRequest, RequestLength, WholeIn, LengthIn

\* What is behind the request of a buffer.
LEMMA Behind ==
  ASSUME NEW c \in Clients, NEW ph, NEW b \in Buffers, NEW arr \in Nat, NEW n, NEW reading,
         StreamIn(c, ph, b, arr, n, reading)
  PROVE  /\ Drop(b.rest, b.last) \in Seq(InUnits)
         /\ Drop(b.rest, b.last) = Units(c, arr + 1 - Len(b.rest) + b.last, arr)
         /\ Len(Drop(b.rest, b.last)) = Len(b.rest) - b.last
         /\ Len(b.rest) # b.last => Drop(b.rest, b.last)[1] = <<c, arr + 1 - Len(b.rest) + b.last>>
<1>1. /\ b.rest \in Seq(InUnits) /\ b.last \in Nat /\ Len(b.rest) \in Nat /\ b.last <= Len(b.rest)
  BY BufferTyped
<1> DEFINE len == Len(b.rest)
           at == arr + 1 - len
<1>2. b.rest = Units(c, at, arr) /\ at >= 0
  BY DEF StreamIn
<1> HIDE DEF len
<1>3. len \in Nat /\ b.last \in Nat /\ b.last <= len
  BY <1>1 DEF len
<1>4. PICK a \in Nat : a = at
  <2>1. at \in Nat
    BY <1>2, <1>3
  <2> QED
    BY <2>1
<1>5. /\ a <= arr + 1 /\ b.last \in 0 .. arr + 1 - a /\ arr \in Int /\ arr + 1 - a = len
      /\ a + b.last \in Nat /\ a + b.last <= arr + 1
  <2>1. arr + 1 - a = len
    BY <1>4, <1>3
  <2> QED
    BY <1>4, <1>3, <2>1
<1>6. b.rest = Units(c, a, arr)
  BY <1>4, <1>2
<1>7. Drop(Units(c, a, arr), b.last) = Units(c, a + b.last, arr)
  BY <1>5, UnitsDrop
<1>8. /\ Units(c, a + b.last, arr) \in Seq(InUnits) /\ Len(Units(c, a + b.last, arr)) = arr + 1 - (a + b.last)
      /\ \A k \in 1 .. arr + 1 - (a + b.last) : Units(c, a + b.last, arr)[k] = <<c, (a + b.last) + k - 1>>
  BY <1>5, UnitsTyped
<1>9. len # b.last =>
         1 \in 1 .. arr + 1 - (a + b.last) /\ (a + b.last) + 1 - 1 = a + b.last
  BY <1>5, <1>3
<1>10. arr + 1 - (a + b.last) = len - b.last
  BY <1>5, <1>3
<1> QED
  BY <1>4, <1>6, <1>7, <1>8, <1>9, <1>10 DEF len

\* A phase matters to a length only before the connection is established.
LEMMA WholeSame ==
  ASSUME NEW ph, NEW qh, NEW c \in Clients, NEW s, s # <<>> => s[1][1] = c,
         ph[c] \in {"none", "initial"} <=> qh[c] \in {"none", "initial"}
  PROVE  WholeIn(ph, s) <=> WholeIn(qh, s)
<1>1. CASE s = <<>>
  BY <1>1 DEF WholeIn
<1>2. CASE s # <<>>
  <2>1. LengthIn(ph, s[1]) = LengthIn(qh, s[1])
    BY <1>2 DEF LengthIn
  <2> QED
    BY <2>1 DEF WholeIn
<1> QED
  BY <1>1, <1>2

-----------------------------------------------------------------------------
(* The initial state.                                                        *)

LEMMA InitInv == Init => IOInv
<1> SUFFICES ASSUME Init PROVE IOInv
  OBVIOUS
<1>1. Typed
  <2>1. MaxTimes \in Nat \ {0}
    BY IOAssumption
  <2>2. 0 \in 0 .. MaxTimes - 1
    BY <2>1
  <2>3. NoOutput \in [data : Seq(OutUnits), size : Nat]
    BY DEF NoOutput
  <2>4. <<>> \in Seq(Buffers) /\ <<>> \in Seq(OutUnits) /\ <<>> \in Seq(Seq(InUnits))
    OBVIOUS
  <2>5. /\ phase \in [Clients -> {"none", "initial", "establish", "open", "closed"}]
        /\ sent \in [Clients -> Nat] /\ arrived \in [Clients -> Nat]
        /\ input \in [Clients -> Buffers] /\ freeInputs \in Seq(Buffers)
        /\ output \in [Clients -> [data : Seq(OutUnits), size : Nat]]
        /\ socket \in [Clients -> Seq(OutUnits)] /\ received \in [Clients -> Seq(OutUnits)]
        /\ handled \in [Clients -> Seq(Seq(InUnits))]
    BY <2>3, <2>4, Fresh DEF Init
  <2>6. /\ hungUp \in SUBSET Clients /\ available \in Clients \cup {NoClient}
        /\ withInput \in SUBSET Clients /\ times \in 0 .. MaxTimes - 1
        /\ pending \in SUBSET Clients /\ newPending \in BOOLEAN
        /\ blocked \in SUBSET Clients /\ broken \in SUBSET Clients
        /\ pc \in {"wait", "select", "round", "read", "handle", "flush"}
        /\ work \in SUBSET Clients /\ ready \in SUBSET Clients
        /\ current \in Clients \cup {NoClient} /\ yield \in BOOLEAN
    BY <2>2 DEF Init
  <2> QED
    BY <2>5, <2>6 DEF Typed
<1>2. Bounded
  <2> SUFFICES ASSUME NEW c \in Clients
               PROVE  /\ arrived[c] <= sent[c] /\ sent[c] <= Total(c)
                      /\ Len(output[c].data) <= output[c].size /\ Len(socket[c]) <= Room
    BY DEF Bounded
  <2>1. arrived[c] = 0 /\ sent[c] = 0 /\ output[c] = NoOutput /\ socket[c] = <<>>
    BY DEF Init
  <2>2. 0 <= Total(c)
    <3>1. 0 \in 0 .. Len(Requests[c]) + 1 /\ Len(Requests[c]) + 1 \in 0 .. Len(Requests[c]) + 1
          /\ 0 < Len(Requests[c]) + 1
      BY Lengths
    <3>2. Start(c, 0) < Start(c, Len(Requests[c]) + 1)
      BY <3>1, StartsIncrease
    <3>3. Start(c, 0) = 0 /\ Start(c, Len(Requests[c]) + 1) \in Nat
      BY <3>1, StartSteps
    <3> QED
      BY <3>2, <3>3 DEF Total
  <2>3. Len(NoOutput.data) = 0 /\ NoOutput.size = 0
    BY DEF NoOutput
  <2>4. Len(socket[c]) = 0 /\ Room \in Nat
    BY <2>1, IOAssumption
  <2> QED
    BY <2>1, <2>2, <2>3, <2>4
<1>3. Positions
  BY DEF Init, Positions, Open, Unused
<1>4. Rounds
  BY DEF Init, Rounds
<1>5. Lent
  BY DEF Init, Lent
<1>6. Intact
  BY DEF Init, Intact
<1>7. Noticed
  BY DEF Init, Noticed, Open
<1> QED
  BY <1>1, <1>2, <1>3, <1>4, <1>5, <1>6, <1>7 DEF IOInv

-----------------------------------------------------------------------------
(* Steps that leave the buffers alone.                                       *)

streamVars == <<phase, arrived, input, freeInputs, available, withInput, handled>>

LEMMA StreamsKept ==
  ASSUME IOInv, UNCHANGED streamVars, \A c \in Clients : Reading(c)' = Reading(c),
         \A c \in Clients : ~Open(c) => output'[c] = output[c],
         \A c \in Clients : phase[c] = "none" => socket'[c] = socket[c] /\ received'[c] = received[c]
  PROVE  Positions' /\ Lent' /\ Intact' /\ Noticed'
<1>1. Positions'
  <2> SUFFICES ASSUME NEW c \in Clients
               PROVE  IF phase'[c] \notin {"none", "closed"} THEN StreamOK(c)' ELSE Unused(c)'
    BY DEF Positions, Open
  <2>1. Open(c) <=> phase'[c] \notin {"none", "closed"}
    BY DEF Open, streamVars
  <2>2. CASE Open(c)
    <3>1. StreamOK(c)
      BY <2>2 DEF IOInv, Positions
    <3>2. StreamIn(c, phase[c], input[c], arrived[c], Len(handled[c]), Reading(c))
      BY <3>1, Streams
    <3>3. StreamOK(c)'
      BY <3>2, StreamsNext DEF streamVars
    <3> QED
      BY <2>1, <2>2, <3>3
  <2>3. CASE ~Open(c)
    <3>1. Unused(c)
      BY <2>3 DEF IOInv, Positions
    <3>2. Unused(c)'
      BY <2>3, <3>1 DEF Unused, streamVars
    <3> QED
      BY <2>1, <2>3, <3>2
  <2> QED
    BY <2>2, <2>3
<1>2. Lent'
  BY DEF IOInv, Lent, Open, streamVars
<1>3. Intact'
  BY DEF IOInv, Intact, streamVars
<1>4. Noticed'
  <2>1. Noticed
    BY DEF IOInv
  <2> QED
    BY <2>1, NoticedNow, NoticedNext DEF Open, streamVars
<1> QED
  BY <1>1, <1>2, <1>3, <1>4

\* FlushAllOutput writes what it can of every open connection's output.
LEMMA AllFlushed ==
  ASSUME IOInv, FlushAllOutput
  PROVE  /\ output' \in [Clients -> [data : Seq(OutUnits), size : Nat]]
         /\ socket' \in [Clients -> Seq(OutUnits)]
         /\ pending' \in SUBSET Clients /\ newPending' \in BOOLEAN
         /\ blocked' \in SUBSET Clients /\ broken' \in SUBSET Clients
         /\ \A c \in Clients : /\ Len(output'[c].data) <= output'[c].size
                               /\ Len(socket'[c]) <= Room
                               /\ ~Open(c) => output'[c] = output[c] /\ socket'[c] = socket[c]
                               /\ c \in broken' => Open(c)
                               /\ c \notin broken' =>
                                     /\ c \notin broken
                                     /\ socket'[c] \o output'[c].data = socket[c] \o output[c].data
<1>1. /\ output \in [Clients -> [data : Seq(OutUnits), size : Nat]]
      /\ socket \in [Clients -> Seq(OutUnits)]
      /\ pending \in SUBSET Clients /\ newPending \in BOOLEAN
      /\ blocked \in SUBSET Clients /\ broken \in SUBSET Clients
  BY DEF IOInv, Typed
<1>2. \A c \in Clients : /\ Len(output[c].data) <= output[c].size /\ Len(socket[c]) <= Room
                         /\ c \in broken => Open(c)
  BY DEF IOInv, Bounded, Rounds
<1>3. CASE ~newPending
  <2>1. /\ output' = output /\ socket' = socket /\ pending' = pending /\ newPending' = newPending
        /\ blocked' = blocked /\ broken' = broken
    BY <1>3 DEF FlushAllOutput, outVars
  <2> QED
    BY <1>1, <1>2, <2>1
<1>4. CASE newPending
  <2> DEFINE flushed == {c \in pending \ withInput : Open(c)}
             after(c) == IF c \in flushed THEN FlushClient(OutputOf(c), <<>>) ELSE OutputOf(c)
  <2>1. /\ output' = [c \in Clients |-> [data |-> after(c).data, size |-> after(c).size]]
        /\ socket' = [c \in Clients |-> after(c).socket]
        /\ blocked' = {c \in Clients : after(c).blocked}
        /\ broken' = {c \in Clients : after(c).broken}
        /\ pending' = StillPending
        /\ newPending' = (StillPending # {})
    BY <1>4 DEF FlushAllOutput
  <2>2. ASSUME NEW c \in Clients
        PROVE  /\ after(c) \in Outs
               /\ OutputOf(c).broken => after(c).broken
               /\ ~after(c).broken => Written(after(c)) = Written(OutputOf(c))
               /\ ~Open(c) => after(c) = OutputOf(c)
    <3>1. PICK o \in Outs : o = OutputOf(c)
      BY OutputTyped
    <3>2. Written(o) \in Seq(OutUnits)
      <4>1. o.socket \in Seq(OutUnits) /\ o.data \in Seq(OutUnits)
        BY OutTyped
      <4>2. o.socket \o o.data \in Seq(OutUnits)
        BY ONLY <4>1, SequenceJoin
      <4> QED
        BY <4>2 DEF Written
    <3>3. PICK empty \in Seq(OutUnits) : empty = <<>>
      <4>1. <<>> \in Seq(OutUnits)
        OBVIOUS
      <4> QED
        BY <4>1
    <3>4. /\ FlushClient(o, empty) \in Outs
          /\ o.broken => FlushClient(o, empty).broken
          /\ ~FlushClient(o, empty).broken => Written(FlushClient(o, empty)) = Written(o) \o empty
      BY <3>3, FlushKeeps
    <3>5. Written(o) \o empty = Written(o)
      BY <3>2, <3>3, JoinEmpty
    <3>6. CASE c \in flushed
      <4>1. after(c) = FlushClient(o, empty) /\ Open(c)
        BY <3>1, <3>3, <3>6
      <4> QED
        BY <3>1, <3>4, <3>5, <4>1
    <3>7. CASE c \notin flushed
      BY <3>1, <3>7
    <3> QED
      BY <3>6, <3>7
  <2> HIDE DEF after
  <2>3. ASSUME NEW c \in Clients
        PROVE  /\ after(c).data \in Seq(OutUnits) /\ after(c).size \in Nat
               /\ after(c).socket \in Seq(OutUnits)
               /\ Len(after(c).data) <= after(c).size /\ Len(after(c).socket) <= Room
    <3>1. PICK o \in Outs : o = after(c)
      BY <2>2
    <3> QED
      BY <3>1, OutTyped
  <2>4. /\ output' \in [Clients -> [data : Seq(OutUnits), size : Nat]]
        /\ socket' \in [Clients -> Seq(OutUnits)]
    BY <2>1, <2>3
  <2>5. /\ pending' \in SUBSET Clients /\ newPending' \in BOOLEAN
        /\ blocked' \in SUBSET Clients /\ broken' \in SUBSET Clients
    BY <1>1, <2>1 DEF StillPending
  <2>6. ASSUME NEW c \in Clients
        PROVE  /\ Len(output'[c].data) <= output'[c].size
               /\ Len(socket'[c]) <= Room
               /\ ~Open(c) => output'[c] = output[c] /\ socket'[c] = socket[c]
               /\ c \in broken' => Open(c)
               /\ c \notin broken' =>
                     /\ c \notin broken
                     /\ socket'[c] \o output'[c].data = socket[c] \o output[c].data
    <3>1. /\ output'[c] = [data |-> after(c).data, size |-> after(c).size]
          /\ socket'[c] = after(c).socket /\ (c \in broken' <=> after(c).broken)
      BY <2>1
    <3>2. output'[c].data = after(c).data /\ output'[c].size = after(c).size
      BY <3>1
    <3>3. /\ OutputOf(c).data = output[c].data /\ OutputOf(c).size = output[c].size
          /\ OutputOf(c).socket = socket[c] /\ (OutputOf(c).broken <=> c \in broken)
          /\ Written(OutputOf(c)) = socket[c] \o output[c].data
      BY OutputTyped
    <3>4. Len(output'[c].data) <= output'[c].size /\ Len(socket'[c]) <= Room
      BY <2>3, <3>1, <3>2
    <3>5. ASSUME ~Open(c) PROVE output'[c] = output[c] /\ socket'[c] = socket[c] /\ c \notin broken'
      <4>1. after(c) = OutputOf(c) /\ c \notin broken
        BY <1>2, <2>2, <3>5
      <4>2. output[c] \in [data : Seq(OutUnits), size : Nat]
        BY <1>1
      <4>3. output[c] = [data |-> output[c].data, size |-> output[c].size]
        BY <4>2
      <4> QED
        BY <3>1, <3>3, <4>1, <4>3
    <3>6. ASSUME c \notin broken'
          PROVE  c \notin broken /\ socket'[c] \o output'[c].data = socket[c] \o output[c].data
      <4>1. ~after(c).broken /\ c \notin broken
        BY <2>2, <3>1, <3>3, <3>6
      <4>2. Written(after(c)) = Written(OutputOf(c))
        BY <2>2, <4>1
      <4>3. Written(after(c)) = socket'[c] \o output'[c].data
        BY <3>1, <3>2 DEF Written
      <4> QED
        BY <3>3, <4>1, <4>2, <4>3
    <3> QED
      BY <3>4, <3>5, <3>6
  <2> QED
    BY <2>4, <2>5, <2>6
<1> QED
  BY <1>1, <1>3, <1>4

LEMMA SendKeeps ==
  ASSUME IOInv, NEW c \in Clients, ClientSends(c)
  PROVE  IOInv'
<1>1. /\ sent[c] < Total(c) /\ sent' = [sent EXCEPT ![c] = @ + 1]
      /\ UNCHANGED <<streamVars, times, outVars, roundVars, hungUp, received>>
  BY DEF ClientSends, inVars, streamVars
<1>2. Positions' /\ Lent' /\ Intact' /\ Noticed'
  BY <1>1, StreamsKept DEF Reading, roundVars, outVars
<1>3. sent \in [Clients -> Nat] /\ arrived \in [Clients -> Nat] /\ Bounded
  BY DEF IOInv, Typed
<1>4. sent' \in [Clients -> Nat]
  BY <1>1, <1>3
<1>5. Typed'
  BY <1>1, <1>4 DEF IOInv, Typed, streamVars, outVars, roundVars
<1>6. Bounded'
  <2> SUFFICES ASSUME NEW d \in Clients
               PROVE  /\ arrived'[d] <= sent'[d] /\ sent'[d] <= Total(d)
                      /\ Len(output'[d].data) <= output'[d].size /\ Len(socket'[d]) <= Room
    BY DEF Bounded
  <2>1. arrived[d] <= sent[d] /\ sent[d] <= Total(d)
        /\ Len(output[d].data) <= output[d].size /\ Len(socket[d]) <= Room
    BY <1>3 DEF Bounded
  <2>2. arrived[d] \in Nat /\ sent[d] \in Nat /\ Total(d) \in Int
    <3>1. Start(d, Len(Requests[d]) + 1) \in Nat
      BY StartSteps, Lengths
    <3> QED
      BY <1>3, <3>1 DEF Total
  <2>3. sent'[d] = (IF d = c THEN sent[d] + 1 ELSE sent[d]) /\ arrived'[d] = arrived[d]
    BY <1>1, <1>3 DEF streamVars
  <2>4. d = c => sent[d] < Total(d)
    BY <1>1
  <2>5. arrived'[d] <= sent'[d] /\ sent'[d] <= Total(d)
    BY <2>1, <2>2, <2>3, <2>4
  <2> QED
    BY <1>1, <2>1, <2>5 DEF outVars
<1>7. Rounds'
  BY <1>1 DEF IOInv, Rounds, Open, Needed, RequestLength, streamVars, outVars, roundVars
<1> QED
  BY <1>2, <1>5, <1>6, <1>7 DEF IOInv

LEMMA ReadKeeps ==
  ASSUME IOInv, NEW c \in Clients, ClientReads(c)
  PROVE  IOInv'
<1>1. /\ socket[c] # <<>>
      /\ received' = [received EXCEPT ![c] = @ \o socket[c]]
      /\ socket' = [socket EXCEPT ![c] = <<>>]
      /\ UNCHANGED <<streamVars, times, output, pending, newPending, blocked, broken,
                     roundVars, sent, hungUp>>
  BY DEF ClientReads, inVars, streamVars
<1>2. socket \in [Clients -> Seq(OutUnits)] /\ received \in [Clients -> Seq(OutUnits)]
  BY DEF IOInv, Typed
<1>3. phase[c] # "none"
  BY <1>1 DEF IOInv, Positions, Open, Unused
<1>4. Positions' /\ Lent' /\ Intact' /\ Noticed'
  <2>1. \A d \in Clients : phase[d] = "none" => socket'[d] = socket[d] /\ received'[d] = received[d]
    BY <1>1, <1>2, <1>3
  <2> QED
    BY <1>1, <2>1, StreamsKept DEF Reading, roundVars
<1>5. socket' \in [Clients -> Seq(OutUnits)] /\ received' \in [Clients -> Seq(OutUnits)]
  <2>1. received[c] \in Seq(OutUnits) /\ socket[c] \in Seq(OutUnits)
    BY <1>2
  <2>2. received[c] \o socket[c] \in Seq(OutUnits)
    BY ONLY <2>1, SequenceJoin
  <2>3. <<>> \in Seq(OutUnits)
    OBVIOUS
  <2> QED
    BY <1>1, <1>2, <2>2, <2>3
<1>6. Typed'
  BY <1>1, <1>5 DEF IOInv, Typed, streamVars, roundVars
<1>7. Bounded'
  <2> SUFFICES ASSUME NEW d \in Clients
               PROVE  /\ arrived'[d] <= sent'[d] /\ sent'[d] <= Total(d)
                      /\ Len(output'[d].data) <= output'[d].size /\ Len(socket'[d]) <= Room
    BY DEF Bounded
  <2>1. arrived[d] <= sent[d] /\ sent[d] <= Total(d)
        /\ Len(output[d].data) <= output[d].size /\ Len(socket[d]) <= Room
    BY DEF IOInv, Bounded
  <2>2. Len(<<>>) <= Room
    BY IOAssumption
  <2>3. socket'[d] = IF d = c THEN <<>> ELSE socket[d]
    BY <1>1, <1>2
  <2> QED
    BY <1>1, <2>1, <2>2, <2>3 DEF streamVars
<1>8. Rounds'
  BY <1>1 DEF IOInv, Rounds, Open, Needed, RequestLength, streamVars, roundVars
<1> QED
  BY <1>4, <1>6, <1>7, <1>8 DEF IOInv

LEMMA HangUpKeeps ==
  ASSUME IOInv, NEW c \in Clients, ClientHangsUp(c)
  PROVE  IOInv'
<1>1. /\ hungUp' = hungUp \cup {c}
      /\ UNCHANGED <<streamVars, times, outVars, roundVars, sent, received>>
  BY DEF ClientHangsUp, inVars, streamVars
<1>2. Positions' /\ Lent' /\ Intact' /\ Noticed'
  BY <1>1, StreamsKept DEF Reading, outVars, roundVars
<1>3. Typed'
  BY <1>1 DEF IOInv, Typed, streamVars, outVars, roundVars
<1>4. Bounded'
  BY <1>1 DEF IOInv, Bounded, streamVars, outVars
<1>5. Rounds'
  BY <1>1 DEF IOInv, Rounds, Open, Needed, RequestLength, streamVars, outVars, roundVars
<1> QED
  BY <1>2, <1>3, <1>4, <1>5 DEF IOInv

-----------------------------------------------------------------------------
(* The rounds of Dispatch.                                                   *)

LEMMA ServeBufferedKeeps ==
  ASSUME IOInv, ServeBuffered
  PROVE  IOInv'
<1>1. /\ pc = "wait" /\ ready' = withInput /\ pc' = "round"
      /\ UNCHANGED <<streamVars, times, outVars, work, current, yield, clientVars>>
  BY DEF ServeBuffered, inVars, streamVars
<1>2. Positions' /\ Lent' /\ Intact' /\ Noticed'
  BY <1>1, StreamsKept DEF Reading, outVars, clientVars
<1>3. Typed'
  BY <1>1 DEF IOInv, Typed, streamVars, outVars, clientVars
<1>4. Bounded'
  BY <1>1 DEF IOInv, Bounded, streamVars, outVars, clientVars
<1>5. Rounds'
  BY <1>1 DEF IOInv, Rounds, Open, streamVars, outVars
<1> QED
  BY <1>2, <1>3, <1>4, <1>5 DEF IOInv

\* FlushAllOutput on the way to pc q.
LEMMA FlushingKeeps ==
  ASSUME IOInv, FlushAllOutput, pc' \in {"select", "round"}, pc \in {"wait", "flush"},
         pc' = "select" => pc = "wait",
         UNCHANGED <<streamVars, times, work, ready, current, yield, clientVars>>
  PROVE  IOInv'
<1>1. Positions' /\ Lent' /\ Intact' /\ Noticed'
  <2>1. /\ \A c \in Clients : ~Open(c) => output'[c] = output[c]
        /\ \A c \in Clients : phase[c] = "none" => socket'[c] = socket[c] /\ received'[c] = received[c]
    BY AllFlushed DEF Open, clientVars
  <2>2. \A c \in Clients : Reading(c)' = Reading(c)
    BY DEF Reading
  <2> QED
    BY <2>1, <2>2, StreamsKept
<1>2. Typed'
  BY AllFlushed DEF IOInv, Typed, streamVars, clientVars
<1>3. Bounded'
  BY AllFlushed DEF IOInv, Bounded, streamVars, clientVars
<1>4. Rounds'
  <2>1. \A c \in broken' : Open(c)
    BY AllFlushed
  <2>2. \A c \in Clients : Open(c)' <=> Open(c)
    BY DEF Open, streamVars
  <2>3. broken' \subseteq Clients
    BY AllFlushed
  <2> QED
    BY <2>1, <2>2, <2>3 DEF IOInv, Typed, Rounds, streamVars
<1> QED
  BY <1>1, <1>2, <1>3, <1>4 DEF IOInv

LEMMA SelectKeeps ==
  ASSUME IOInv, Select
  PROVE  IOInv'
<1>1. /\ pc = "select" /\ broken = {} /\ work' \in SUBSET Waiting
      /\ ready' = Readable
      /\ newPending' = (newPending \/ Writable # {})
      /\ pending' = pending \cup Writable
      /\ blocked' = blocked \ Writable
      /\ pc' = IF Readable = {} THEN "wait" ELSE "round"
      /\ UNCHANGED <<streamVars, times, output, socket, broken, current, yield, clientVars>>
  BY DEF Select, inVars, streamVars
<1>2. Positions' /\ Lent' /\ Intact' /\ Noticed'
  BY <1>1, StreamsKept DEF Reading, clientVars
<1>3. Readable \subseteq Clients /\ Writable \subseteq Clients /\ Waiting \subseteq Clients
  BY DEF Readable, Writable, Waiting, IOInv, Typed
<1>4. Typed'
  BY <1>1, <1>3 DEF IOInv, Typed, streamVars, clientVars
<1>5. Bounded'
  BY <1>1 DEF IOInv, Bounded, streamVars, clientVars
<1>6. Rounds'
  <2>1. \A c \in ready' \cup withInput' \cup broken' : Open(c)'
    BY <1>1 DEF IOInv, Rounds, Open, Readable, streamVars
  <2>2. \A c \in work' : phase'[c] = "none"
    BY <1>1 DEF Waiting, streamVars
  <2>3. pc' \in {"wait", "select"} => ready' = {}
    BY <1>1
  <2> QED
    BY <1>1, <2>1, <2>2, <2>3 DEF Rounds
<1> QED
  BY <1>2, <1>4, <1>5, <1>6 DEF IOInv

LEMMA NextClientKeeps ==
  ASSUME IOInv, NextClient
  PROVE  IOInv'
<1>1. /\ pc = "round"
      /\ \/ pc' = "wait" /\ ready = {} /\ UNCHANGED <<ready, current, yield>>
         \/ /\ pc' = "read" /\ yield' = FALSE /\ current' \in ready /\ ready' = ready \ {current'}
      /\ UNCHANGED <<streamVars, times, outVars, work, clientVars>>
  BY DEF NextClient, inVars, streamVars
<1>2. Positions' /\ Lent' /\ Intact' /\ Noticed'
  BY <1>1, StreamsKept DEF Reading, outVars, clientVars
<1>3. Typed'
  BY <1>1 DEF IOInv, Typed, streamVars, outVars, clientVars
<1>4. Bounded'
  BY <1>1 DEF IOInv, Bounded, streamVars, outVars, clientVars
<1>5. Rounds'
  <2>1. \A c \in ready' \cup withInput' \cup broken' : Open(c)'
    BY <1>1 DEF IOInv, Rounds, Open, streamVars, outVars
  <2>2. \A c \in work' : phase'[c] = "none"
    BY <1>1 DEF IOInv, Rounds, streamVars
  <2>3. pc' = "read" => current' \in Clients /\ Open(current)' /\ current' \notin ready'
    BY <1>1 DEF IOInv, Typed, Rounds, Open, streamVars
  <2> QED
    BY <1>1, <2>1, <2>2, <2>3 DEF Rounds
<1> QED
  BY <1>2, <1>3, <1>4, <1>5 DEF IOInv

-----------------------------------------------------------------------------
(* Buffers that are taken, advanced, filled and given back.                  *)

\* A client for which nothing changes.
LEMMA SameKept ==
  ASSUME IOInv, NEW d \in Clients,
         input'[d] = input[d], phase'[d] = phase[d], arrived'[d] = arrived[d],
         handled'[d] = handled[d], Reading(d)' = Reading(d), output'[d] = output[d],
         socket'[d] = socket[d], received'[d] = received[d],
         d \in withInput' <=> d \in withInput
  PROVE  /\ IF phase'[d] \notin {"none", "closed"} THEN StreamOK(d)' ELSE Unused(d)'
         /\ phase'[d] \notin {"none", "closed"} =>
               (d \in withInput' <=> WholeIn(phase', Drop(input'[d].rest, input'[d].last)))
         /\ input'[d] \in Buffers
<1>1. input[d] \in Buffers /\ arrived[d] \in Nat
  BY DEF IOInv, Typed
<1>2. Open(d) <=> phase'[d] \notin {"none", "closed"}
  BY DEF Open
<1>3. CASE ~Open(d)
  <2>1. Unused(d)
    BY <1>3 DEF IOInv, Positions
  <2>2. Unused(d)'
    BY <2>1 DEF Unused
  <2> QED
    BY <1>1, <1>2, <1>3, <2>2
<1>4. CASE Open(d)
  <2>1. StreamOK(d)
    BY <1>4 DEF IOInv, Positions
  <2>2. StreamIn(d, phase[d], input[d], arrived[d], Len(handled[d]), Reading(d))
    BY <2>1, Streams
  <2>3. StreamOK(d)'
    BY <2>2, StreamsNext
  <2>4. d \in withInput <=> WholeIn(phase, Drop(input[d].rest, input[d].last))
    <3>1. Noticed
      BY DEF IOInv
    <3> QED
      BY <1>4, <3>1, NoticedNow
  <2> DEFINE s == Drop(input[d].rest, input[d].last)
  <2>5. s # <<>> => s[1][1] = d
    <3>1. /\ Len(s) = Len(input[d].rest) - input[d].last /\ s \in Seq(InUnits)
          /\ Len(input[d].rest) # input[d].last =>
                s[1] = <<d, arrived[d] + 1 - Len(input[d].rest) + input[d].last>>
      BY <1>1, <2>2, Behind
    <3>2. s # <<>> => Len(input[d].rest) # input[d].last
      <4>1. Len(input[d].rest) \in Nat /\ input[d].last \in Nat
        BY <1>1, BufferTyped
      <4>2. s # <<>> => Len(s) # 0
        BY <3>1
      <4> QED
        BY <3>1, <4>1, <4>2
    <3> QED
      BY <3>1, <3>2
  <2>6. WholeIn(phase, s) <=> WholeIn(phase', s)
    <3>1. phase[d] \in {"none", "initial"} <=> phase'[d] \in {"none", "initial"}
      OBVIOUS
    <3> HIDE DEF s
    <3> QED
      BY <2>5, <3>1, WholeSame
  <2> QED
    BY <1>1, <1>2, <1>4, <2>3, <2>4, <2>6
<1> QED
  BY <1>3, <1>4

\* A client d whose buffer is not the one being read keeps what it has, or
\* loses a buffer in which nothing is left.
LEMMA OthersKept ==
  ASSUME IOInv, pc # "handle", NEW c \in Clients, NEW b, NEW d \in Clients, d # c,
         input'[d] = Taken(c, b)[d], phase'[d] = phase[d], arrived'[d] = arrived[d],
         handled'[d] = handled[d], ~Reading(d)', output'[d] = output[d],
         socket'[d] = socket[d], received'[d] = received[d],
         d \in withInput' <=> d \in withInput
  PROVE  /\ IF phase'[d] \notin {"none", "closed"} THEN StreamOK(d)' ELSE Unused(d)'
         /\ phase'[d] \notin {"none", "closed"} =>
               (d \in withInput' <=> WholeIn(phase', Drop(input'[d].rest, input'[d].last)))
         /\ input'[d] \in Buffers
<1>1. input[d] \in Buffers /\ arrived[d] \in Nat
  BY DEF IOInv, Typed
<1>2. Taken(c, b)[d] = IF d = available THEN NoBuffer ELSE input[d]
  BY DEF Taken
<1>3. Open(d) <=> phase'[d] \notin {"none", "closed"}
  BY DEF Open
<1>4. ~Reading(d)
  BY DEF Reading
<1>5. CASE d # available
  <2>1. input'[d] = input[d]
    BY <1>2, <1>5
  <2>2. Reading(d)' = Reading(d)
    BY DEF Reading
  <2> QED
    BY <2>1, <2>2, SameKept
<1>6. CASE d = available
  <2>1. Open(d)
    BY <1>6, IOAssumption DEF IOInv, Lent
  <2>2. StreamIn(d, phase[d], input[d], arrived[d], Len(handled[d]), FALSE)
    <3>1. StreamOK(d)
      BY <2>1 DEF IOInv, Positions
    <3>2. StreamIn(d, phase[d], input[d], arrived[d], Len(handled[d]), Reading(d))
      BY <3>1, Streams
    <3> QED
      BY <1>4, <3>2 DEF StreamIn
  <2>3. d \in withInput <=> WholeIn(phase, Drop(input[d].rest, input[d].last))
    <3>1. Noticed
      BY DEF IOInv
    <3> QED
      BY <2>1, <3>1, NoticedNow
  <2>4. input'[d] = NoBuffer
    BY <1>2, <1>6
  <2>5. Len(input[d].rest) = input[d].last
    BY <1>6, IOAssumption DEF IOInv, Lent
  <2>6. /\ input[d].rest \in Seq(InUnits) /\ Len(input[d].rest) \in Nat
        /\ NoBuffer.rest = <<>> /\ NoBuffer.last = 0 /\ Len(<<>>) = 0
    BY <1>1, BufferTyped, Fresh
  <2>7. Units(d, arrived[d] + 1, arrived[d]) = <<>>
    <3>1. Units(d, arrived[d] + 1, (arrived[d] + 1) - 1) = <<>>
      BY <1>1, UnitsEmpty
    <3>2. (arrived[d] + 1) - 1 = arrived[d]
      BY <1>1
    <3> QED
      BY <3>1, <3>2
  <2>8. StreamIn(d, phase'[d], NoBuffer, arrived'[d], Len(handled'[d]), FALSE)
    <3>1. arrived[d] + 1 - 0 = arrived[d] + 1 /\ arrived[d] + 1 >= 0 /\ arrived[d] + 1 + 0 = arrived[d] + 1
      BY <1>1
    <3>2. Start(d, Len(handled[d])) = arrived[d] + 1
      <4>1. Start(d, Len(handled[d])) = arrived[d] + 1 - Len(input[d].rest) + input[d].last
        BY <2>2 DEF StreamIn
      <4> QED
        BY <1>1, <2>5, <2>6, <4>1
    <3> QED
      BY <2>2, <2>6, <2>7, <3>1, <3>2 DEF StreamIn
  <2>9. StreamOK(d)'
    <3>1. StreamIn(d, phase'[d], input'[d], arrived'[d], Len(handled'[d]), Reading(d)')
      BY <2>4, <2>8 DEF StreamIn
    <3> QED
      BY <3>1, StreamsNext
  <2>10. d \notin withInput' /\ ~WholeIn(phase', Drop(input'[d].rest, input'[d].last))
    <3>1. Drop(input[d].rest, input[d].last) = <<>>
      BY <2>5, <2>6, DropAll
    <3>2. Drop(input'[d].rest, input'[d].last) = <<>>
      <4>1. <<>> \in Seq(InUnits)
        OBVIOUS
      <4>2. Drop(<<>>, Len(<<>>)) = <<>>
        BY <4>1, DropAll
      <4> QED
        BY <2>4, <2>6, <4>2
    <3> QED
      BY <2>3, <3>1, <3>2 DEF WholeIn
  <2> QED
    BY <1>3, <2>1, <2>4, <2>9, <2>10, Fresh
<1> QED
  BY <1>5, <1>6

\* A connection is accepted: its buffer gets the header of its first request.
LEMMA AcceptKeeps ==
  ASSUME IOInv, NEW c \in Clients, Accept(c)
  PROVE  IOInv'
<1>1. PICK b \in Buffers : b = BufferFor(c) /\ b.last = 0 /\ b.rest = Drop(input[c].rest, input[c].last)
  BY BufferTaken
<1>2. PICK header : header = [b EXCEPT !.before = Max({0, @ - 1}), !.rest = <<<<c, 0>>>> \o @,
                                       !.size = Max({@, Len(b.rest) + 1})]
  OBVIOUS
<1>3. /\ pc = "wait" /\ c \in work /\ work' = work \ {c}
      /\ phase' = [phase EXCEPT ![c] = "initial"]
      /\ input' = Taken(c, header) /\ freeInputs' = StillFree(c)
      /\ available' = NoClient /\ yield' = TRUE /\ times' = 0 /\ withInput' = withInput \ {c}
      /\ UNCHANGED <<arrived, outVars, pc, ready, current, clientVars, handled>>
  BY <1>1, <1>2 DEF Accept, TakeBuffer, YieldControlNoInput, YieldControl
<1>4. phase \in [Clients -> {"none", "initial", "establish", "open", "closed"}]
  BY DEF IOInv, Typed
<1>5. phase[c] = "none" /\ ~Open(c) /\ phase'[c] = "initial" /\ ready = {}
  BY <1>3, <1>4 DEF IOInv, Rounds, Open
<1>6. input[c] = NoBuffer /\ arrived[c] = 0 /\ handled[c] = <<>>
  BY <1>5 DEF IOInv, Positions, Unused
<1>7. b.rest = <<>>
  <2>1. NoBuffer.rest = <<>> /\ NoBuffer.last = Len(<<>>) /\ <<>> \in Seq(InUnits)
    BY Fresh
  <2>2. Drop(<<>>, Len(<<>>)) = <<>>
    BY <2>1, DropAll
  <2> QED
    BY <1>1, <1>6, <2>1, <2>2
<1>8. /\ header \in Buffers /\ header.rest = Units(c, 0, 0) /\ header.last = 0
      /\ Len(header.rest) = 1 /\ header.rest[1] = <<c, 0>>
  <2>1. /\ b \in [before : Nat, rest : Seq(InUnits), last : Nat, size : Nat]
        /\ b.before \in Nat /\ b.size \in Nat /\ b.before + Len(b.rest) <= b.size
    BY BufferTyped
  <2>2. PICK u \in Seq(InUnits) : u = Units(c, 0, 0) /\ Len(u) = 1 /\ u[1] = <<c, 0>>
    <3>1. PICK a \in Nat : a = 0 /\ a \in Int /\ a <= a + 1 /\ a + 1 - a = 1
      OBVIOUS
    <3>2. /\ Units(c, a, a) \in Seq(InUnits) /\ Len(Units(c, a, a)) = a + 1 - a
          /\ \A k \in 1 .. a + 1 - a : Units(c, a, a)[k] = <<c, a + k - 1>>
      BY <3>1, UnitsTyped
    <3>3. 1 \in 1 .. a + 1 - a /\ a + 1 - 1 = 0
      BY <3>1
    <3>4. Units(c, a, a)[1] = <<c, 0>>
      BY <3>2, <3>3
    <3>5. Units(c, a, a) \in Seq(InUnits) /\ Len(Units(c, a, a)) = 1
      BY <3>1, <3>2
    <3> QED
      BY <3>1, <3>4, <3>5
  <2>3. <<<<c, 0>>>> \o b.rest = u
    <3>1. <<c, 0>> \in InUnits
      BY DEF InUnits
    <3>2. PICK q \in Seq(InUnits) : q = <<<<c, 0>>>> /\ Len(q) = 1 /\ q[1] = <<c, 0>>
      <4>1. <<<<c, 0>>>> \in Seq(InUnits) /\ Len(<<<<c, 0>>>>) = 1
        BY <3>1
      <4> QED
        BY <4>1
    <3>3. q = u
      <4>1. \A k \in 1 .. Len(q) : q[k] = u[k]
        BY <2>2, <3>2
      <4> QED
        BY <2>2, <3>2, <4>1, SameSequence
    <3> QED
      BY <1>7, <3>2, <3>3, JoinEmpty
  <2>4. PICK x \in Nat, z \in Nat : x = Max({0, b.before - 1}) /\ z = Max({b.size, Len(b.rest) + 1}) /\ x + 1 <= z
    <3>1. Len(b.rest) = 0 /\ b.before <= b.size
      BY <1>7, <2>1
    <3>2. Max({0, b.before - 1}) = IF 0 <= b.before - 1 THEN b.before - 1 ELSE 0
      BY <2>1, Larger
    <3>3. Max({b.size, Len(b.rest) + 1}) = IF b.size <= Len(b.rest) + 1 THEN Len(b.rest) + 1 ELSE b.size
      BY <2>1, <3>1, Larger
    <3>4. Max({0, b.before - 1}) \in Nat /\ Max({b.size, Len(b.rest) + 1}) \in Nat
      BY <2>1, <3>1, <3>2, <3>3
    <3>5. Max({0, b.before - 1}) + 1 <= Max({b.size, Len(b.rest) + 1})
      BY <2>1, <3>1, <3>2, <3>3
    <3> QED
      BY <3>4, <3>5
  <2>5. header = [b EXCEPT !.before = x, !.rest = u, !.size = z]
    BY <1>2, <2>3, <2>4
  <2>6. /\ header \in [before : Nat, rest : Seq(InUnits), last : Nat, size : Nat]
        /\ header.before = x /\ header.rest = u /\ header.size = z /\ header.last = 0
    BY <1>1, <2>1, <2>5
  <2>7. header.before + Len(header.rest) <= header.size /\ header.last <= Len(header.rest)
    <3>1. Len(header.rest) = 1 /\ header.before + 1 <= header.size
      BY <2>2, <2>4, <2>6
    <3> QED
      BY <2>6, <3>1
  <2> QED
    BY <2>2, <2>6, <2>7 DEF Buffers
<1>9. input'[c] = header
  BY <1>3 DEF Taken
<1>10. ASSUME NEW d \in Clients, d # c
       PROVE  /\ IF phase'[d] \notin {"none", "closed"} THEN StreamOK(d)' ELSE Unused(d)'
              /\ phase'[d] \notin {"none", "closed"} =>
                    (d \in withInput' <=> WholeIn(phase', Drop(input'[d].rest, input'[d].last)))
              /\ input'[d] \in Buffers
  <2>1. /\ input'[d] = Taken(c, header)[d] /\ phase'[d] = phase[d] /\ arrived'[d] = arrived[d]
        /\ handled'[d] = handled[d] /\ output'[d] = output[d] /\ socket'[d] = socket[d]
        /\ received'[d] = received[d] /\ (d \in withInput' <=> d \in withInput) /\ pc # "handle"
    BY <1>3, <1>4, <1>10 DEF outVars, clientVars
  <2>2. ~Reading(d)'
    BY <1>3 DEF Reading
  <2> QED
    BY <1>10, <2>1, <2>2, OthersKept
<1>11. Positions'
  <2>1. StreamIn(c, phase'[c], input'[c], arrived'[c], Len(handled'[c]), Reading(c)')
    <3>1. phase'[c] = "initial" /\ arrived'[c] = 0 /\ Len(handled'[c]) = 0 /\ ~Reading(c)'
      BY <1>3, <1>5, <1>6 DEF Reading
    <3>2. Start(c, 0) = 0 /\ 0 <= Len(Requests[c]) + 1
      BY StartSteps, Lengths
    <3>3. 0 + 1 - 1 = 0 /\ 0 + 0 = 0 /\ 0 >= 0 /\ ~(0 > 0)
      OBVIOUS
    <3>4. StreamIn(c, "initial", header, 0, 0, FALSE)
      BY <1>8, <3>2, <3>3 DEF StreamIn
    <3> QED
      BY <1>9, <3>1, <3>4 DEF StreamIn
  <2>2. StreamOK(c)'
    BY <2>1, StreamsNext
  <2> QED
    BY <1>5, <1>10, <2>2 DEF Positions, Open
<1>12. Noticed'
  <2>1. c \notin withInput' /\ ~WholeIn(phase', Drop(input'[c].rest, input'[c].last))
    <3>1. Prefix \in Nat \ {0}
      BY IOAssumption
    <3>2. Drop(header.rest, 0) = header.rest
      <4>1. header.rest \in Seq(InUnits)
        BY <1>8, BufferTyped
      <4>2. SubSeq(header.rest, 1, Len(header.rest)) = header.rest
        BY <4>1
      <4> QED
        BY <4>2 DEF Drop
    <3>3. LengthIn(phase', header.rest[1]) = 1 + Prefix
      BY <1>5, <1>8 DEF LengthIn
    <3>4. ~(1 >= 1 + Prefix)
      BY <3>1
    <3>5. ~WholeIn(phase', header.rest)
      BY <1>8, <3>3, <3>4 DEF WholeIn
    <3>6. c \notin withInput'
      BY <1>3
    <3> QED
      BY <1>8, <1>9, <3>2, <3>5, <3>6
  <2> QED
    BY <1>10, <2>1, NoticedNext
<1>13. Typed'
  <2>1. input' \in [Clients -> Buffers]
    BY <1>3, <1>8, <1>9, <1>10 DEF Taken
  <2>2. freeInputs' \in Seq(Buffers)
    BY <1>3, BufferTaken
  <2>3. phase' \in [Clients -> {"none", "initial", "establish", "open", "closed"}]
    BY <1>3, <1>4
  <2>4. 0 \in 0 .. MaxTimes - 1
    BY IOAssumption
  <2> QED
    BY <1>3, <2>1, <2>2, <2>3, <2>4 DEF IOInv, Typed, outVars, clientVars
<1>14. Bounded'
  BY <1>3 DEF IOInv, Bounded, outVars, clientVars
<1>15. Rounds'
  <2>1. \A d \in ready' \cup withInput' \cup broken' : Open(d)'
    BY <1>3, <1>4, <1>5 DEF IOInv, Rounds, Open, outVars, Typed
  <2>2. \A d \in work' : phase'[d] = "none"
    BY <1>3, <1>4 DEF IOInv, Typed, Rounds
  <2> QED
    BY <1>3, <1>5, <2>1, <2>2 DEF Rounds
<1>16. Lent'
  <2>1. Clean(freeInputs')
    BY <1>3, BufferTaken
  <2> QED
    BY <1>3, <2>1 DEF Lent, Clean
<1>17. Intact'
  BY <1>3 DEF IOInv, Intact
<1> QED
  BY <1>11, <1>12, <1>13, <1>14, <1>15, <1>16, <1>17 DEF IOInv

\* The current client goes on with buffer b when m units have arrived.
LEMMA TakingKeeps ==
  ASSUME IOInv, pc = "read", NEW c \in Clients, c = current, NEW b \in Buffers, NEW m \in Nat,
         TakeBuffer(c, b), arrived' = [arrived EXCEPT ![c] = m],
         arrived[c] <= m, m <= sent[c],
         UNCHANGED <<phase, outVars, work, ready, current, clientVars, handled>>,
         withInput' = Put(withInput, c, WholeIn(phase, Drop(b.rest, b.last))),
         pc' \in {"handle", "flush"}, times' \in 0 .. MaxTimes - 1, yield' \in BOOLEAN,
         StreamIn(c, phase[c], b, m, Len(handled[c]), pc' = "handle"),
         pc' = "handle" => b.rest # <<>> /\ b.last = Needed(b),
         available' \in {c, NoClient},
         available' = c => b.size > 0 /\ Len(b.rest) = b.last
  PROVE  IOInv'
<1>1. Open(c) /\ c \notin ready
  BY DEF IOInv, Rounds
<1>2. arrived \in [Clients -> Nat] /\ arrived'[c] = m
  BY DEF IOInv, Typed
<1>3. input' = Taken(c, b) /\ freeInputs' = StillFree(c) /\ input'[c] = b
  BY DEF TakeBuffer, Taken
<1>4. /\ withInput' \in SUBSET Clients
      /\ \A d \in Clients : d # c => (d \in withInput' <=> d \in withInput)
      /\ c \in withInput' <=> WholeIn(phase, Drop(b.rest, b.last))
  BY DEF Put, IOInv, Typed
<1>5. ASSUME NEW d \in Clients, d # c
      PROVE  /\ IF phase'[d] \notin {"none", "closed"} THEN StreamOK(d)' ELSE Unused(d)'
             /\ phase'[d] \notin {"none", "closed"} =>
                   (d \in withInput' <=> WholeIn(phase', Drop(input'[d].rest, input'[d].last)))
             /\ input'[d] \in Buffers
  <2>1. /\ input'[d] = Taken(c, b)[d] /\ phase'[d] = phase[d] /\ arrived'[d] = arrived[d]
        /\ handled'[d] = handled[d] /\ output'[d] = output[d] /\ socket'[d] = socket[d]
        /\ received'[d] = received[d] /\ (d \in withInput' <=> d \in withInput) /\ pc # "handle"
    BY <1>2, <1>3, <1>4, <1>5 DEF outVars, clientVars
  <2>2. ~Reading(d)'
    BY <1>5 DEF Reading
  <2> QED
    BY <1>5, <2>1, <2>2, OthersKept
<1>6. Positions'
  <2>1. Reading(c)' <=> pc' = "handle"
    BY DEF Reading
  <2>2. StreamIn(c, phase'[c], input'[c], arrived'[c], Len(handled'[c]), Reading(c)')
    BY <1>2, <1>3, <2>1 DEF StreamIn
  <2>3. StreamOK(c)'
    BY <2>2, StreamsNext
  <2> QED
    BY <1>1, <1>5, <2>3 DEF Positions, Open
<1>7. Noticed'
  <2>1. c \in withInput' <=> WholeIn(phase', Drop(input'[c].rest, input'[c].last))
    BY <1>3, <1>4
  <2> QED
    BY <1>5, <2>1, NoticedNext
<1>8. Typed'
  <2>1. input' \in [Clients -> Buffers]
    BY <1>3, <1>5 DEF Taken
  <2>2. freeInputs' \in Seq(Buffers)
    BY <1>3, BufferTaken
  <2>3. arrived' \in [Clients -> Nat]
    BY <1>2
  <2> QED
    BY <1>4, <2>1, <2>2, <2>3 DEF IOInv, Typed, outVars, clientVars
<1>9. Bounded'
  <2> SUFFICES ASSUME NEW d \in Clients
               PROVE  /\ arrived'[d] <= sent'[d] /\ sent'[d] <= Total(d)
                      /\ Len(output'[d].data) <= output'[d].size /\ Len(socket'[d]) <= Room
    BY DEF Bounded
  <2>1. arrived[d] <= sent[d] /\ sent[d] <= Total(d)
        /\ Len(output[d].data) <= output[d].size /\ Len(socket[d]) <= Room
    BY DEF IOInv, Bounded
  <2>2. arrived'[d] = IF d = c THEN m ELSE arrived[d]
    BY <1>2
  <2> QED
    BY <2>1, <2>2 DEF outVars, clientVars
<1>10. Rounds'
  <2>1. \A d \in ready' \cup withInput' \cup broken' : Open(d)'
    BY <1>1, <1>4 DEF IOInv, Rounds, Open, outVars
  <2>2. \A d \in work' : phase'[d] = "none"
    BY DEF IOInv, Rounds
  <2>3. pc' = "handle" => input'[current'].rest # <<>> /\ input'[current'].last = Needed(input[current])'
    <3>1. Needed(input[current])' = Needed(b)
      BY <1>3 DEF Needed, RequestLength
    <3> QED
      BY <1>3, <3>1
  <2>4. current' \in Clients /\ Open(current)' /\ current' \notin ready'
    BY <1>1 DEF Open
  <2> QED
    BY <2>1, <2>2, <2>3, <2>4 DEF Rounds
<1>11. Lent'
  <2>1. Clean(freeInputs')
    BY <1>3, BufferTaken
  <2>2. available' # NoClient => Open(available)' /\ input'[available'].size > 0
                                 /\ Len(input'[available'].rest) = input'[available'].last
    BY <1>1, <1>3 DEF Open
  <2> QED
    BY <2>1, <2>2 DEF Lent, Clean
<1>12. Intact'
  BY DEF IOInv, Intact
<1> QED
  BY <1>6, <1>7, <1>8, <1>9, <1>10, <1>11, <1>12 DEF IOInv

\* What is at the beginning of a buffer is the next request to be served.
LEMMA FirstUnit ==
  ASSUME IOInv, NEW c \in Clients, NEW ph, NEW b \in Buffers, NEW m \in Nat, m <= sent[c],
         NEW reading, reading \/ b.last = 0, b.rest # <<>>,
         StreamIn(c, ph, b, m, Len(handled[c]), reading)
  PROVE  /\ Len(handled[c]) \in RequestNumbers(c)
         /\ b.rest[1] = <<c, Start(c, Len(handled[c]))>>
         /\ Needed(b) = LengthIn(phase, <<c, Start(c, Len(handled[c]))>>)
         /\ Needed(b) \in Nat \ {0}
         /\ Start(c, Len(handled[c])) = m + 1 - Len(b.rest)
<1> DEFINE h == Len(handled[c])
           len == Len(b.rest)
<1>1. b.rest \in Seq(InUnits) /\ Len(b.rest) \in Nat /\ Len(b.rest) > 0 /\ b.last \in Nat
  BY BufferTyped
<1>2. h \in 0 .. Len(Requests[c]) + 1 /\ Start(c, h) = m + 1 - Len(b.rest)
  <2>1. h \in Nat
    BY DEF IOInv, Typed
  <2>2. h <= Len(Requests[c]) + 1
    BY DEF StreamIn
  <2>3. Start(c, h) = m + 1 - Len(b.rest) + 0
    BY DEF StreamIn
  <2>4. m + 1 - Len(b.rest) + 0 = m + 1 - Len(b.rest)
    BY <1>1
  <2>5. Len(Requests[c]) \in Nat
    BY Lengths
  <2> QED
    BY <2>1, <2>2, <2>3, <2>4, <2>5
<1>3. b.rest[1] = <<c, Start(c, h)>>
  <2>1. PICK a \in Nat : a = m + 1 - len /\ a <= m + 1 /\ m \in Int /\ m + 1 - a = len
    <3>1. m + 1 - len >= 0
      BY DEF StreamIn
    <3> HIDE DEF len
    <3>2. len \in Nat
      BY <1>1 DEF len
    <3>3. m + 1 - len \in Nat /\ m + 1 - len <= m + 1 /\ m + 1 - (m + 1 - len) = len
      BY <3>1, <3>2
    <3> QED
      BY <3>3
  <2>2. b.rest = Units(c, a, m)
    BY <2>1 DEF StreamIn
  <2>3. \A k \in 1 .. m + 1 - a : Units(c, a, m)[k] = <<c, a + k - 1>>
    BY <2>1, UnitsTyped
  <2>4. 1 \in 1 .. m + 1 - a /\ a + 1 - 1 = a
    BY <1>1, <2>1
  <2> QED
    BY <1>2, <2>1, <2>2, <2>3, <2>4
<1>4. Needed(b) = LengthIn(phase, <<c, Start(c, h)>>)
  BY <1>3, PhasesCount DEF Needed
<1>5. Start(c, h) <= m /\ m <= Total(c)
  <2>1. m <= sent[c] /\ sent[c] <= Total(c) /\ sent[c] \in Nat
    BY DEF IOInv, Typed, Bounded
  <2>2. Total(c) \in Int
    <3>1. Start(c, Len(Requests[c]) + 1) \in Nat
      BY StartSteps, Lengths
    <3> QED
      BY <3>1 DEF Total
  <2>3. Start(c, h) <= m
    BY <1>1, <1>2
  <2> QED
    BY <2>1, <2>2, <2>3
<1>6. h \in RequestNumbers(c) /\ LengthIn(phase, <<c, Start(c, h)>>) \in Nat \ {0}
  BY <1>2, <1>5, RequestFits
<1> QED
  BY <1>2, <1>3, <1>4, <1>6

\* A whole request is given to Dispatch.
LEMMA ReturnKeeps ==
  ASSUME IOInv, pc = "read", NEW c \in Clients, c = current, NEW b \in Buffers, NEW m \in Nat,
         ReturnRequest(c, b), arrived' = [arrived EXCEPT ![c] = m],
         arrived[c] <= m, m <= sent[c], b.last = 0,
         UNCHANGED <<phase, outVars, work, ready, current, clientVars, handled>>,
         StreamIn(c, phase[c], b, m, Len(handled[c]), FALSE),
         b.rest # <<>>, Len(b.rest) >= Needed(b)
  PROVE  IOInv'
<1> DEFINE needed == Max({1, Needed(b)})
           behind == Drop(b.rest, needed)
<1>1. /\ b \in [before : Nat, rest : Seq(InUnits), last : Nat, size : Nat]
      /\ b.rest \in Seq(InUnits) /\ b.size \in Nat /\ b.before \in Nat
      /\ Len(b.rest) \in Nat /\ b.before + Len(b.rest) <= b.size
  BY BufferTyped
<1>2. Len(b.rest) > 0
  BY <1>1
<1>3. Needed(b) \in Nat \ {0}
  BY FirstUnit
<1>4. needed = Needed(b) /\ needed \in 1 .. Len(b.rest)
  <2>1. PICK r \in Nat \ {0} : r = Needed(b)
    BY <1>3
  <2>2. Max({1, r}) = IF 1 <= r THEN r ELSE 1
    BY Larger
  <2>3. Max({1, r}) = r /\ r \in 1 .. Len(b.rest)
    BY <1>1, <2>1, <2>2
  <2> QED
    BY <2>1, <2>3
<1> HIDE DEF needed
<1>5. PICK nb : nb = [b EXCEPT !.last = needed]
  OBVIOUS
<1>6. /\ nb \in Buffers /\ nb.rest = b.rest /\ nb.last = needed /\ nb.size = b.size
      /\ Len(nb.rest) = Len(b.rest)
  <2>1. /\ nb \in [before : Nat, rest : Seq(InUnits), last : Nat, size : Nat]
        /\ nb.rest = b.rest /\ nb.last = needed /\ nb.size = b.size /\ nb.before = b.before
    BY <1>1, <1>4, <1>5
  <2>2. nb.before + Len(nb.rest) <= nb.size /\ nb.last <= Len(nb.rest)
    BY <1>1, <1>4, <2>1
  <2> QED
    BY <2>1, <2>2 DEF Buffers
<1>7. /\ TakeBuffer(c, nb)
      /\ available' = IF behind = <<>> THEN c ELSE NoClient
      /\ withInput' = Put(withInput, c, WholeRequest(behind))
      /\ times' \in 0 .. MaxTimes - 1
      /\ yield' \in BOOLEAN
      /\ pc' = "handle"
  <2> DEFINE t == 1 + IF WholeRequest(behind) THEN times ELSE 0
  <2>1. /\ TakeBuffer(c, nb)
        /\ available' = IF behind = <<>> THEN c ELSE NoClient
        /\ withInput' = Put(withInput, c, WholeRequest(behind))
        /\ times' = IF t >= MaxTimes THEN 0 ELSE t
        /\ yield' = (yield \/ ~WholeRequest(behind) \/ t >= MaxTimes)
        /\ pc' = "handle"
    BY <1>5 DEF ReturnRequest, WholeBehind, needed
  <2>2. times \in 0 .. MaxTimes - 1 /\ MaxTimes \in Nat \ {0}
    BY IOAssumption DEF IOInv, Typed
  <2>3. t \in Nat /\ t >= 1
    <3> DEFINE w == WholeRequest(behind)
    <3> HIDE DEF w
    <3>1. w \/ ~w
      OBVIOUS
    <3>2. CASE w
      BY <2>2, <3>2 DEF w
    <3>3. CASE ~w
      BY <2>2, <3>3 DEF w
    <3> QED
      BY <3>2, <3>3
  <2> HIDE DEF t
  <2>4. (IF t >= MaxTimes THEN 0 ELSE t) \in 0 .. MaxTimes - 1
    BY <2>2, <2>3
  <2> QED
    BY <2>1, <2>4
<1>8. WholeRequest(behind) <=> WholeIn(phase, Drop(nb.rest, nb.last))
  BY <1>6, PhasesCount
<1>9. withInput' = Put(withInput, c, WholeIn(phase, Drop(nb.rest, nb.last)))
  BY <1>7, <1>8 DEF Put
<1>10. StreamIn(c, phase[c], nb, m, Len(handled[c]), pc' = "handle")
  BY <1>6, <1>7 DEF StreamIn
<1>11. nb.rest # <<>> /\ nb.last = Needed(nb)
  BY <1>4, <1>6 DEF Needed
<1>12. available' \in {c, NoClient}
  BY <1>7
<1>13. available' = c => nb.size > 0 /\ Len(nb.rest) = nb.last
  <2>1. c # NoClient
    BY IOAssumption
  <2>2. Len(behind) = Len(b.rest) - needed
    <3>1. b.rest \in Seq(InUnits) /\ needed \in 0 .. Len(b.rest)
      BY <1>1, <1>4
    <3> QED
      BY <3>1, SequenceDrop
  <2>3. behind = <<>> => Len(behind) = 0
    OBVIOUS
  <2> HIDE DEF behind
  <2>4. behind = <<>> => Len(b.rest) = needed
    BY <1>1, <1>4, <2>2, <2>3
  <2>5. b.size > 0
    BY <1>1, <1>2
  <2> QED
    BY <1>6, <1>7, <2>1, <2>4, <2>5
<1> QED
  BY <1>6, <1>7, <1>9, <1>10, <1>11, <1>12, <1>13, TakingKeeps

\* What is in the buffer that a client goes on with.
LEMMA StreamAdvanced ==
  ASSUME IOInv, NEW c \in Clients, Open(c), ~Reading(c)
  PROVE  StreamIn(c, phase[c], BufferFor(c), arrived[c], Len(handled[c]), FALSE)
<1>1. /\ BufferFor(c) \in Buffers /\ BufferFor(c).last = 0
      /\ BufferFor(c).rest = Drop(input[c].rest, input[c].last)
      /\ Len(BufferFor(c).rest) = Len(input[c].rest) - input[c].last
      /\ input[c] \in Buffers
  BY BufferTaken
<1>2. PICK b \in Buffers : b = BufferFor(c)
  BY <1>1
<1>3. StreamIn(c, phase[c], input[c], arrived[c], Len(handled[c]), FALSE)
  <2>1. StreamOK(c)
    BY DEF IOInv, Positions
  <2>2. StreamIn(c, phase[c], input[c], arrived[c], Len(handled[c]), Reading(c))
    BY <2>1, Streams
  <2> QED
    BY <2>2 DEF StreamIn
<1>4. arrived[c] \in Nat
  BY DEF IOInv, Typed
<1>5. Drop(input[c].rest, input[c].last)
         = Units(c, arrived[c] + 1 - Len(input[c].rest) + input[c].last, arrived[c])
  <2>1. /\ c \in Clients /\ input[c] \in Buffers /\ arrived[c] \in Nat
        /\ StreamIn(c, phase[c], input[c], arrived[c], Len(handled[c]), FALSE)
    BY <1>1, <1>3, <1>4
  <2> QED
    BY ONLY <2>1, Behind
<1>6. Len(input[c].rest) \in Nat /\ input[c].last \in Nat /\ input[c].last <= Len(input[c].rest)
  BY <1>1, BufferTyped
<1> DEFINE len == Len(input[c].rest)
           last == input[c].last
           new == Len(b.rest)
<1>7. len \in Nat /\ last \in Nat /\ last <= len /\ new = len - last /\ arrived[c] + 1 - len >= 0
  BY <1>1, <1>2, <1>3, <1>6 DEF StreamIn
<1>8. Start(c, Len(handled[c])) = arrived[c] + 1 - len + last
  BY <1>3 DEF StreamIn
<1>9. b.rest = Units(c, arrived[c] + 1 - len + last, arrived[c]) /\ b.last = 0
  BY <1>1, <1>2, <1>5
<1> HIDE DEF len, last, new
<1>10. /\ arrived[c] + 1 - new = arrived[c] + 1 - len + last
       /\ arrived[c] + 1 - new >= 0 /\ arrived[c] + 1 - new + 0 = arrived[c] + 1 - len + last
  BY <1>4, <1>7
<1>11. b.rest = Units(c, arrived[c] + 1 - new, arrived[c])
  BY <1>9, <1>10
<1>12. Start(c, Len(handled[c])) = arrived[c] + 1 - new + 0
  BY <1>8, <1>10
<1>13. Len(handled[c]) <= Len(Requests[c]) + 1 /\ (phase[c] = "open" <=> Len(handled[c]) > 0)
  BY <1>3 DEF StreamIn
<1> QED
  BY <1>2, <1>9, <1>10, <1>11, <1>12, <1>13 DEF StreamIn, new

\* What is read follows.
LEMMA StreamFilled ==
  ASSUME NEW c \in Clients, NEW ph, NEW b \in Buffers, NEW arr \in Nat, NEW n, b.last = 0,
         StreamIn(c, ph, b, arr, n, FALSE), NEW k \in Nat, NEW f \in Buffers, f.last = 0,
         f.rest = b.rest \o Units(c, arr + 1, arr + k)
  PROVE  StreamIn(c, ph, f, arr + k, n, FALSE)
<1> DEFINE old == Len(b.rest)
           new == Len(f.rest)
<1>1. old \in Nat /\ b.rest \in Seq(InUnits)
  BY BufferTyped
<1>2. /\ b.rest = Units(c, arr + 1 - old, arr) /\ arr + 1 - old >= 0
      /\ Start(c, n) = arr + 1 - old + 0
      /\ n <= Len(Requests[c]) + 1 /\ (ph = "open" <=> n > 0)
  BY DEF StreamIn
<1>3. new = old + k
  <2>1. /\ arr + 1 \in Nat /\ arr + k \in Int /\ arr + 1 <= (arr + k) + 1
        /\ (arr + k) + 1 - (arr + 1) = k
    OBVIOUS
  <2>2. PICK u \in Seq(InUnits) : u = Units(c, arr + 1, arr + k) /\ Len(u) = k
    <3>1. /\ Units(c, arr + 1, arr + k) \in Seq(InUnits)
          /\ Len(Units(c, arr + 1, arr + k)) = (arr + k) + 1 - (arr + 1)
      BY <2>1, UnitsTyped
    <3> QED
      BY <2>1, <3>1
  <2>3. Len(b.rest \o u) = Len(b.rest) + Len(u)
    <3>1. b.rest \in Seq(InUnits) /\ u \in Seq(InUnits)
      BY <1>1
    <3> QED
      BY ONLY <3>1, SequenceJoin
  <2> QED
    BY <2>2, <2>3
<1> HIDE DEF old, new
<1>4. PICK a \in Nat : a = arr + 1 - old /\ a <= arr + 1
  <2>1. arr + 1 - old \in Nat /\ arr + 1 - old <= arr + 1
    BY <1>1, <1>2
  <2> QED
    BY <2>1
<1>5. (arr + k) + 1 - new = a /\ (arr + k) + 1 - new + 0 = a /\ arr + 1 - old + 0 = a /\ a >= 0
  BY <1>1, <1>3, <1>4
<1>6. Units(c, a, arr) \o Units(c, arr + 1, arr + k) = Units(c, a, arr + k)
  BY <1>4, UnitsJoin
<1>7. f.rest = Units(c, (arr + k) + 1 - new, arr + k)
  BY <1>2, <1>4, <1>5, <1>6
<1>8. Start(c, n) = (arr + k) + 1 - new + 0
  BY <1>2, <1>5
<1>9. (arr + k) + 1 - new >= 0
  BY <1>5
<1> QED
  BY <1>2, <1>7, <1>8, <1>9 DEF StreamIn, new

-----------------------------------------------------------------------------
(* The end of connections.                                                   *)

Closing(C, in, free, out) ==
    /\ CloseDown(C, in, free, out)
    /\ C \in SUBSET Clients /\ free \in Seq(Buffers) /\ Clean(free)
    /\ \A d \in Clients : in[d] \in Buffers
    /\ \A d \in Clients : out[d] \in Outs /\ (d \notin C => out[d] = OutputOf(d))
    /\ \A d \in C : Open(d) /\ d \notin ready

\* What CloseDownConnection leaves of the clients of C, and of the others.
LEMMA ClosedDown ==
  ASSUME IOInv, NEW C, NEW in, NEW free, NEW out, Closing(C, in, free, out)
  PROVE  /\ phase' \in [Clients -> {"none", "initial", "establish", "open", "closed"}]
         /\ input' \in [Clients -> Buffers] /\ freeInputs' \in Seq(Buffers) /\ Clean(freeInputs')
         /\ withInput' = withInput \ C /\ broken' = broken \ C
         /\ output' \in [Clients -> [data : Seq(OutUnits), size : Nat]]
         /\ socket' \in [Clients -> Seq(OutUnits)]
         /\ pending' \in SUBSET Clients /\ blocked' \in SUBSET Clients
         /\ \A d \in Clients : IF d \in C
                THEN phase'[d] = "closed" /\ input'[d] = NoBuffer /\ output'[d] = NoOutput
                     /\ Len(socket'[d]) <= Room
                ELSE phase'[d] = phase[d] /\ input'[d] = in[d] /\ output'[d] = output[d]
                     /\ socket'[d] = socket[d]
<1>1. /\ CloseDown(C, in, free, out)
      /\ C \in SUBSET Clients /\ free \in Seq(Buffers) /\ Clean(free)
      /\ \A d \in Clients : in[d] \in Buffers
      /\ \A d \in Clients : out[d] \in Outs /\ (d \notin C => out[d] = OutputOf(d))
  BY DEF Closing
<1> DEFINE last(c) == IF c \in C /\ out[c].data # <<>> THEN FlushClient(out[c], <<>>) ELSE out[c]
           owners == {c \in C : in[c].size > 0}
<1>2. /\ phase' = [c \in Clients |-> IF c \in C THEN "closed" ELSE phase[c]]
      /\ input' = [c \in Clients |-> IF c \in C THEN NoBuffer ELSE in[c]]
      /\ \/ freeInputs' = free
         \/ \E c \in owners : freeInputs' = <<[NoBuffer EXCEPT !.size = in[c].size]>>
      /\ withInput' = withInput \ C
      /\ output' = [c \in Clients |-> IF c \in C THEN NoOutput
                                      ELSE [data |-> last(c).data, size |-> last(c).size]]
      /\ socket' = [c \in Clients |-> last(c).socket]
      /\ pending' = {c \in Clients \ C : last(c).pending}
      /\ blocked' = {c \in Clients \ C : last(c).blocked}
      /\ broken' = broken \ C
  BY <1>1 DEF CloseDown
<1>3. ASSUME NEW c \in Clients
      PROVE  last(c) \in Outs
  <2>1. PICK o \in Outs : o = out[c]
    BY <1>1
  <2>2. PICK empty \in Seq(OutUnits) : empty = <<>>
    <3>1. <<>> \in Seq(OutUnits)
      OBVIOUS
    <3> QED
      BY <3>1
  <2>3. FlushClient(o, empty) \in Outs
    BY <2>2, FlushKeeps
  <2> QED
    BY <2>1, <2>2, <2>3
<1>4. \A c \in Clients : c \notin C => last(c) = OutputOf(c)
  BY <1>1
<1> HIDE DEF last
<1>5. ASSUME NEW c \in Clients
      PROVE  /\ last(c).data \in Seq(OutUnits) /\ last(c).size \in Nat
             /\ last(c).socket \in Seq(OutUnits) /\ Len(last(c).socket) <= Room
  <2>1. PICK o \in Outs : o = last(c)
    BY <1>3
  <2> QED
    BY <2>1, OutTyped
<1>6. freeInputs' \in Seq(Buffers) /\ Clean(freeInputs')
  <2>1. CASE freeInputs' = free
    BY <1>1, <2>1
  <2>2. ASSUME NEW c \in owners, freeInputs' = <<[NoBuffer EXCEPT !.size = in[c].size]>>
        PROVE  freeInputs' \in Seq(Buffers) /\ Clean(freeInputs')
    <3>1. PICK z \in Nat : z = in[c].size
      <4>1. in[c] \in Buffers
        BY <1>1
      <4> QED
        BY <4>1, BufferTyped
    <3>2. PICK b : b = [NoBuffer EXCEPT !.size = z]
      OBVIOUS
    <3>3. /\ NoBuffer \in [before : Nat, rest : Seq(InUnits), last : Nat, size : Nat]
          /\ NoBuffer.before = 0 /\ NoBuffer.rest = <<>> /\ NoBuffer.last = 0
      <4>1. <<>> \in Seq(InUnits)
        OBVIOUS
      <4> QED
        BY <4>1 DEF NoBuffer
    <3>4. /\ b \in [before : Nat, rest : Seq(InUnits), last : Nat, size : Nat]
          /\ b.before = 0 /\ b.rest = <<>> /\ b.last = 0 /\ b.size = z
      BY <3>2, <3>3
    <3>5. b \in Buffers /\ Len(b.rest) = b.last
      <4>1. Len(b.rest) = 0
        BY <3>4
      <4>2. b.before + Len(b.rest) <= b.size /\ b.last <= Len(b.rest)
        BY <3>4, <4>1
      <4> QED
        BY <3>4, <4>1, <4>2 DEF Buffers
    <3>6. freeInputs' = <<b>>
      BY <2>2, <3>1, <3>2
    <3>7. <<b>> \in Seq(Buffers) /\ DOMAIN <<b>> = {1} /\ <<b>>[1] = b
      BY <3>5
    <3> QED
      BY <3>5, <3>6, <3>7 DEF Clean
  <2> QED
    BY <1>2, <2>1, <2>2
<1>7. phase' \in [Clients -> {"none", "initial", "establish", "open", "closed"}]
  <2>1. phase \in [Clients -> {"none", "initial", "establish", "open", "closed"}]
    BY DEF IOInv, Typed
  <2> QED
    BY <1>2, <2>1
<1>8. input' \in [Clients -> Buffers]
  BY <1>2, <1>1, Fresh
<1>9. output' \in [Clients -> [data : Seq(OutUnits), size : Nat]]
  <2>1. NoOutput \in [data : Seq(OutUnits), size : Nat]
    <3>1. <<>> \in Seq(OutUnits)
      OBVIOUS
    <3> QED
      BY <3>1 DEF NoOutput
  <2> QED
    BY <1>2, <1>5, <2>1
<1>10. socket' \in [Clients -> Seq(OutUnits)]
  BY <1>2, <1>5
<1>11. pending' \in SUBSET Clients /\ blocked' \in SUBSET Clients
  BY <1>2
<1>12. ASSUME NEW d \in Clients
       PROVE  IF d \in C
              THEN phase'[d] = "closed" /\ input'[d] = NoBuffer /\ output'[d] = NoOutput
                   /\ Len(socket'[d]) <= Room
              ELSE phase'[d] = phase[d] /\ input'[d] = in[d] /\ output'[d] = output[d]
                   /\ socket'[d] = socket[d]
  <2>1. CASE d \in C
    BY <1>2, <1>5, <2>1
  <2>2. CASE d \notin C
    <3>1. /\ OutputOf(d).data = output[d].data /\ OutputOf(d).size = output[d].size
          /\ OutputOf(d).socket = socket[d]
      BY OutputTyped
    <3>2. output[d] \in [data : Seq(OutUnits), size : Nat]
      BY DEF IOInv, Typed
    <3>3. output[d] = [data |-> output[d].data, size |-> output[d].size]
      BY <3>2
    <3> QED
      BY <1>2, <1>4, <2>2, <3>1, <3>3
  <2> QED
    BY <2>1, <2>2
<1> QED
  BY <1>2, <1>6, <1>7, <1>8, <1>9, <1>10, <1>11, <1>12

LEMMA ClosingKeeps ==
  ASSUME IOInv, NEW C, NEW in, NEW free, NEW out, Closing(C, in, free, out),
         UNCHANGED <<arrived, work, ready, current, clientVars>>,
         times' \in 0 .. MaxTimes - 1, newPending' \in BOOLEAN, yield' \in BOOLEAN,
         (pc' = "wait" /\ ready = {}) \/ (pc' = "flush" /\ current \notin ready),
         handled' \in [Clients -> Seq(Seq(InUnits))], Intact',
         available' \in Clients \cup {NoClient},
         available' # NoClient =>
            available' = available /\ available \notin C /\ in[available] = input[available],
         \A d \in Clients : d \notin C =>
            /\ IF phase'[d] \notin {"none", "closed"} THEN StreamOK(d)' ELSE Unused(d)'
            /\ phase'[d] \notin {"none", "closed"} =>
                  (d \in withInput' <=> WholeIn(phase', Drop(input'[d].rest, input'[d].last)))
  PROVE  IOInv'
<1>1. /\ phase' \in [Clients -> {"none", "initial", "establish", "open", "closed"}]
      /\ input' \in [Clients -> Buffers] /\ freeInputs' \in Seq(Buffers) /\ Clean(freeInputs')
      /\ withInput' = withInput \ C /\ broken' = broken \ C
      /\ output' \in [Clients -> [data : Seq(OutUnits), size : Nat]]
      /\ socket' \in [Clients -> Seq(OutUnits)]
      /\ pending' \in SUBSET Clients /\ blocked' \in SUBSET Clients
      /\ \A d \in Clients : IF d \in C
             THEN phase'[d] = "closed" /\ input'[d] = NoBuffer /\ output'[d] = NoOutput
                  /\ Len(socket'[d]) <= Room
             ELSE phase'[d] = phase[d] /\ input'[d] = in[d] /\ output'[d] = output[d]
                  /\ socket'[d] = socket[d]
  BY ClosedDown
<1>2. C \in SUBSET Clients /\ \A d \in C : Open(d) /\ d \notin ready
  BY DEF Closing
<1>3. Typed'
  <2>1. /\ sent' \in [Clients -> Nat] /\ arrived' \in [Clients -> Nat] /\ hungUp' \in SUBSET Clients
        /\ received' \in [Clients -> Seq(OutUnits)]
        /\ work' \in SUBSET Clients /\ ready' \in SUBSET Clients /\ current' \in Clients \cup {NoClient}
    BY DEF IOInv, Typed, clientVars
  <2>2. /\ withInput' \in SUBSET Clients /\ broken' \in SUBSET Clients
        /\ pc' \in {"wait", "select", "round", "read", "handle", "flush"}
    BY <1>1 DEF IOInv, Typed
  <2> QED
    BY <1>1, <2>1, <2>2 DEF Typed
<1>4. Bounded'
  <2> SUFFICES ASSUME NEW d \in Clients
               PROVE  /\ arrived'[d] <= sent'[d] /\ sent'[d] <= Total(d)
                      /\ Len(output'[d].data) <= output'[d].size /\ Len(socket'[d]) <= Room
    BY DEF Bounded
  <2>1. arrived[d] <= sent[d] /\ sent[d] <= Total(d)
        /\ Len(output[d].data) <= output[d].size /\ Len(socket[d]) <= Room
    BY DEF IOInv, Bounded
  <2>2. Len(NoOutput.data) <= NoOutput.size
    BY DEF NoOutput
  <2>3. CASE d \in C
    BY <1>1, <2>1, <2>2, <2>3 DEF clientVars
  <2>4. CASE d \notin C
    BY <1>1, <2>1, <2>4 DEF clientVars
  <2> QED
    BY <2>3, <2>4
<1>5. Positions'
  <2>1. \A d \in C : Unused(d)'
    BY <1>1, <1>2 DEF Unused
  <2> QED
    BY <1>1, <1>2, <2>1 DEF Positions, Open
<1>6. Noticed'
  BY <1>1, <1>2, NoticedNext
<1>7. Rounds'
  <2>1. \A d \in ready' \cup withInput' \cup broken' : d \notin C /\ Open(d)
    BY <1>1, <1>2 DEF IOInv, Rounds
  <2>2. ready' \cup withInput' \cup broken' \subseteq Clients
    BY <1>1 DEF IOInv, Typed
  <2>3. \A d \in ready' \cup withInput' \cup broken' : Open(d)'
    BY <1>1, <2>1, <2>2 DEF Open
  <2>4. \A d \in work' : phase'[d] = "none"
    <3>1. \A d \in work : d \in Clients /\ phase[d] = "none"
      BY DEF IOInv, Typed, Rounds
    <3>2. \A d \in work : d \notin C
      BY <1>2, <3>1 DEF Open
    <3> QED
      BY <1>1, <3>1, <3>2
  <2> QED
    BY <2>3, <2>4 DEF Rounds
<1>8. Lent'
  <2>1. ASSUME available' # NoClient
        PROVE  Open(available)' /\ input'[available'].size > 0
               /\ Len(input'[available'].rest) = input'[available'].last
    <3>1. available' = available /\ available \notin C /\ available \in Clients /\ in[available] = input[available]
      BY <2>1
    <3>2. /\ Open(available) /\ input[available].size > 0
          /\ Len(input[available].rest) = input[available].last
      BY <2>1, <3>1 DEF IOInv, Lent
    <3>3. phase'[available] = phase[available] /\ input'[available] = input[available]
      BY <1>1, <3>1
    <3> QED
      BY <3>1, <3>2, <3>3 DEF Open
  <2> QED
    BY <1>1, <2>1 DEF Lent, Clean
<1> QED
  BY <1>3, <1>4, <1>5, <1>6, <1>7, <1>8 DEF IOInv

\* EBADF: the connections that broke are closed.
LEMMA CheckKeeps ==
  ASSUME IOInv, CheckConnections
  PROVE  IOInv'
<1>1. /\ pc = "select" /\ CloseDown(broken, input, freeInputs, Outputs)
      /\ available' = IF available \in broken THEN NoClient ELSE available
      /\ pc' = "wait"
      /\ UNCHANGED <<arrived, times, newPending, work, ready, current, yield, clientVars, handled>>
  BY DEF CheckConnections
<1>2. /\ broken \in SUBSET Clients /\ freeInputs \in Seq(Buffers) /\ Clean(freeInputs)
      /\ \A d \in Clients : input[d] \in Buffers
      /\ ready = {} /\ \A d \in broken : Open(d)
      /\ times \in 0 .. MaxTimes - 1 /\ newPending \in BOOLEAN /\ yield \in BOOLEAN
      /\ handled \in [Clients -> Seq(Seq(InUnits))] /\ available \in Clients \cup {NoClient}
  BY <1>1 DEF IOInv, Typed, Rounds, Lent, Clean
<1>3. \A d \in Clients : Outputs[d] \in Outs /\ Outputs[d] = OutputOf(d)
  BY OutputTyped DEF Outputs
<1>4. Closing(broken, input, freeInputs, Outputs)
  BY <1>1, <1>2, <1>3 DEF Closing
<1>5. Intact'
  BY <1>1 DEF IOInv, Intact
<1>6. ASSUME NEW d \in Clients, d \notin broken
      PROVE  /\ IF phase'[d] \notin {"none", "closed"} THEN StreamOK(d)' ELSE Unused(d)'
             /\ phase'[d] \notin {"none", "closed"} =>
                   (d \in withInput' <=> WholeIn(phase', Drop(input'[d].rest, input'[d].last)))
  <2>1. /\ withInput' = withInput \ broken
        /\ \A x \in Clients : x \notin broken =>
              phase'[x] = phase[x] /\ input'[x] = input[x] /\ output'[x] = output[x]
              /\ socket'[x] = socket[x]
    BY <1>4, ClosedDown
  <2>2. /\ phase'[d] = phase[d] /\ input'[d] = input[d] /\ output'[d] = output[d]
        /\ socket'[d] = socket[d] /\ arrived'[d] = arrived[d] /\ handled'[d] = handled[d]
        /\ received'[d] = received[d] /\ (d \in withInput' <=> d \in withInput)
    BY <1>1, <1>6, <2>1 DEF clientVars
  <2>3. Reading(d)' = Reading(d)
    BY <1>1 DEF Reading
  <2> QED
    BY <2>2, <2>3, SameKept
<1>7. /\ times' \in 0 .. MaxTimes - 1 /\ newPending' \in BOOLEAN /\ yield' \in BOOLEAN
      /\ handled' \in [Clients -> Seq(Seq(InUnits))] /\ available' \in Clients \cup {NoClient}
      /\ available' # NoClient => available' = available /\ available \notin broken
      /\ pc' = "wait" /\ ready = {}
      /\ \A d \in broken : Open(d) /\ d \notin ready
      /\ UNCHANGED <<arrived, work, ready, current, clientVars>>
  BY <1>1, <1>2
<1> QED
  BY <1>5, <1>6, <1>7, <1>4, ClosingKeeps

\* A request, a part of one, or the end of the connection is read.
LEMMA ReadRequestKeeps ==
  ASSUME IOInv, ReadRequest
  PROVE  IOInv'
<1>1. PICK c \in Clients : c = current /\ Open(c) /\ c \notin ready /\ pc = "read"
  BY DEF ReadRequest, IOInv, Rounds
<1>2. PICK b \in Buffers : b = BufferFor(c) /\ b.last = 0
  BY BufferTaken
<1>3. PICK room, full : room = MakeRoom(b, Needed(b)) /\ full = Filled(c, room, Needed(b))
  OBVIOUS
<1> DEFINE n == Len(full.rest) - Len(b.rest)
<1>4. /\ \/ /\ Len(b.rest) >= Needed(b)
            /\ ReturnRequest(c, b)
            /\ UNCHANGED <<phase, arrived, outVars>>
         \/ /\ Len(b.rest) < Needed(b) /\ c \notin broken /\ n > 0
            /\ arrived' = [arrived EXCEPT ![c] = @ + n]
            /\ IF WholeRequest(full.rest) THEN ReturnRequest(c, full) ELSE NotAllHere(c, full)
            /\ UNCHANGED <<phase, outVars>>
         \/ /\ CloseDown({c}, Taken(c, room), StillFree(c), Outputs)
            /\ available' = NoClient /\ times' = 0 /\ pc' = "flush"
            /\ UNCHANGED <<arrived, newPending, yield>>
      /\ UNCHANGED <<work, ready, current, clientVars, handled>>
  BY <1>1, <1>2, <1>3 DEF ReadRequest
<1>5. /\ arrived \in [Clients -> Nat] /\ arrived[c] \in Nat /\ sent[c] \in Nat /\ arrived[c] <= sent[c]
      /\ b.rest \in Seq(InUnits) /\ Len(b.rest) \in Nat
  BY BufferTyped DEF IOInv, Typed, Bounded
<1>6. StreamIn(c, phase[c], b, arrived[c], Len(handled[c]), FALSE)
  <2>1. ~Reading(c)
    BY <1>1 DEF Reading
  <2> QED
    BY <1>1, <1>2, <2>1, StreamAdvanced
<1>7. Needed(b) \in Nat \ {0} /\ (b.rest = <<>> => Needed(b) = 1)
  <2>1. CASE b.rest = <<>>
    BY <2>1 DEF Needed
  <2>2. CASE b.rest # <<>>
    BY <1>2, <1>5, <1>6, <2>2, FirstUnit
  <2> QED
    BY <2>1, <2>2
<1>8. room \in Buffers /\ room.last = 0 /\ room.rest = b.rest
  BY <1>2, <1>3, <1>7, RoomMade
<1>9. PICK k \in Nat : /\ full \in Buffers /\ full.last = 0 /\ k <= sent[c] - arrived[c]
                       /\ full.rest = b.rest \o Units(c, arrived[c] + 1, arrived[c] + k)
                       /\ Len(full.rest) = Len(b.rest) + k
  <2>1. PICK needed \in Nat : needed = Needed(b) /\ full = Filled(c, room, needed)
    BY <1>3, <1>7
  <2>2. /\ room \in Buffers /\ c \in Clients /\ needed \in Nat /\ room.last = 0
        /\ sent[c] \in Nat /\ arrived[c] \in Nat /\ arrived[c] <= sent[c]
    BY <1>5, <1>8
  <2>3. /\ Filled(c, room, needed) \in Buffers /\ Filled(c, room, needed).last = 0
        /\ \E k \in Nat :
              /\ k <= sent[c] - arrived[c]
              /\ Filled(c, room, needed).rest = room.rest \o Units(c, arrived[c] + 1, arrived[c] + k)
              /\ Len(Filled(c, room, needed).rest) = Len(room.rest) + k
    BY ONLY <2>2, BufferFilled
  <2> QED
    BY ONLY <1>8, <2>1, <2>3
<1>10. k = n
  <2>1. PICK x \in Nat : x = Len(b.rest)
    BY <1>5
  <2>2. PICK y : y = Len(full.rest)
    OBVIOUS
  <2>3. y = x + k /\ n = y - x
    BY <1>9, <2>1, <2>2
  <2>4. y - x = k
    BY <2>1, <2>3
  <2> QED
    BY <2>3, <2>4
<1> HIDE DEF n
<1>11. CASE Len(b.rest) >= Needed(b) /\ ReturnRequest(c, b) /\ UNCHANGED <<phase, arrived, outVars>>
  <2>1. b.rest # <<>>
    <3>1. Len(<<>>) = 0
      OBVIOUS
    <3> QED
      BY <1>7, <1>11, <3>1
  <2>2. PICK m \in Nat : m = arrived[c] /\ m <= sent[c] /\ arrived' = [arrived EXCEPT ![c] = m]
    BY <1>5, <1>11
  <2>3. StreamIn(c, phase[c], b, m, Len(handled[c]), FALSE)
    BY <1>6, <2>2
  <2>4. /\ pc = "read" /\ c = current /\ arrived[c] <= m /\ m <= sent[c] /\ b.last = 0
        /\ UNCHANGED <<phase, outVars, work, ready, current, clientVars, handled>>
        /\ ReturnRequest(c, b) /\ Len(b.rest) >= Needed(b)
    BY <1>1, <1>2, <1>4, <1>5, <1>11, <2>2
  <2> QED
    BY <2>1, <2>2, <2>3, <2>4, ReturnKeeps
<1>12. CASE /\ arrived' = [arrived EXCEPT ![c] = @ + n] /\ n > 0
            /\ IF WholeRequest(full.rest) THEN ReturnRequest(c, full) ELSE NotAllHere(c, full)
            /\ UNCHANGED <<phase, outVars>>
  <2>1. PICK m \in Nat : /\ m = arrived[c] + k /\ arrived[c] <= m /\ m <= sent[c]
                         /\ arrived' = [arrived EXCEPT ![c] = m]
    <3>1. arrived[c] + k \in Nat /\ arrived[c] <= arrived[c] + k /\ arrived[c] + k <= sent[c]
      BY <1>5, <1>9
    <3> QED
      BY <1>10, <1>12, <3>1
  <2>2. StreamIn(c, phase[c], full, m, Len(handled[c]), FALSE)
    <3>1. PICK a \in Nat : a = arrived[c]
      BY <1>5
    <3>2. full.rest = b.rest \o Units(c, a + 1, a + k) /\ StreamIn(c, phase[c], b, a, Len(handled[c]), FALSE)
      BY <1>6, <1>9, <3>1
    <3>3. full \in Buffers /\ full.last = 0 /\ b.last = 0
      BY <1>2, <1>9
    <3>4. StreamIn(c, phase[c], full, a + k, Len(handled[c]), FALSE)
      BY <3>2, <3>3, StreamFilled
    <3> QED
      BY <2>1, <3>1, <3>4
  <2>3. UNCHANGED <<phase, outVars, work, ready, current, clientVars, handled>>
    BY <1>4, <1>12
  <2>4. CASE WholeRequest(full.rest)
    <3>1. full.rest # <<>> /\ Len(full.rest) >= Needed(full)
      BY <2>4 DEF WholeRequest, Needed
    <3>2. ReturnRequest(c, full) /\ full.last = 0 /\ full \in Buffers /\ c = current /\ pc = "read"
      BY <1>1, <1>9, <1>12, <2>4
    <3> QED
      BY <2>1, <2>2, <2>3, <3>1, <3>2, ReturnKeeps
  <2>5. CASE ~WholeRequest(full.rest)
    <3>1. /\ TakeBuffer(c, full) /\ available' = NoClient /\ yield' = TRUE /\ times' = 0
          /\ withInput' = withInput \ {c} /\ pc' = "flush"
      BY <1>12, <2>5 DEF NotAllHere, YieldControlNoInput, YieldControl
    <3>2. Drop(full.rest, full.last) = full.rest
      <4>1. full.rest \in Seq(InUnits)
        BY <1>9, BufferTyped
      <4>2. SubSeq(full.rest, 1, Len(full.rest)) = full.rest
        BY <4>1
      <4>3. Drop(full.rest, 0) = full.rest
        BY <4>2 DEF Drop
      <4> QED
        BY <1>9, <4>3
    <3>3. ~WholeIn(phase, Drop(full.rest, full.last))
      BY <2>5, <3>2, PhasesCount
    <3>4. withInput' = Put(withInput, c, WholeIn(phase, Drop(full.rest, full.last)))
      BY <3>1, <3>3 DEF Put
    <3>5. StreamIn(c, phase[c], full, m, Len(handled[c]), pc' = "handle")
      BY <2>2, <3>1 DEF StreamIn
    <3>6. times' \in 0 .. MaxTimes - 1
      <4>1. MaxTimes \in Nat \ {0}
        BY IOAssumption
      <4> QED
        BY <3>1, <4>1
    <3>7. /\ pc' \in {"handle", "flush"} /\ yield' \in BOOLEAN /\ available' \in {c, NoClient}
          /\ pc' # "handle" /\ available' # c /\ pc = "read" /\ c = current /\ full \in Buffers
      BY <1>1, <1>9, <3>1, IOAssumption
    <3>8. TakeBuffer(c, full)
      BY <3>1
    <3> QED
      BY <2>1, <2>3, <3>4, <3>5, <3>6, <3>7, <3>8, TakingKeeps
  <2> QED
    BY <2>4, <2>5
<1>13. CASE /\ CloseDown({c}, Taken(c, room), StillFree(c), Outputs)
            /\ available' = NoClient /\ times' = 0 /\ pc' = "flush"
            /\ UNCHANGED <<arrived, newPending, yield>>
  <2>1. Closing({c}, Taken(c, room), StillFree(c), Outputs)
    <3>1. \A d \in Clients : Taken(c, room)[d] \in Buffers
      BY <1>8, Fresh DEF Taken, IOInv, Typed
    <3>2. \A d \in Clients : Outputs[d] \in Outs /\ Outputs[d] = OutputOf(d)
      BY OutputTyped DEF Outputs
    <3>3. StillFree(c) \in Seq(Buffers) /\ Clean(StillFree(c))
      BY BufferTaken
    <3> QED
      BY <1>1, <1>13, <3>1, <3>2, <3>3 DEF Closing
  <2>2. ASSUME NEW d \in Clients, d \notin {c}
        PROVE  /\ IF phase'[d] \notin {"none", "closed"} THEN StreamOK(d)' ELSE Unused(d)'
               /\ phase'[d] \notin {"none", "closed"} =>
                     (d \in withInput' <=> WholeIn(phase', Drop(input'[d].rest, input'[d].last)))
    <3>1. /\ withInput' = withInput \ {c}
          /\ phase'[d] = phase[d] /\ input'[d] = Taken(c, room)[d] /\ output'[d] = output[d]
          /\ socket'[d] = socket[d]
      BY <2>1, <2>2, ClosedDown
    <3>2. /\ arrived'[d] = arrived[d] /\ handled'[d] = handled[d] /\ received'[d] = received[d]
          /\ (d \in withInput' <=> d \in withInput) /\ d # c /\ pc # "handle"
      BY <1>1, <1>4, <1>13, <2>2, <3>1 DEF clientVars
    <3>3. ~Reading(d)'
      BY <1>13 DEF Reading
    <3> QED
      BY <3>1, <3>2, <3>3, OthersKept
  <2>3. Intact'
    BY <1>4 DEF IOInv, Intact
  <2>4. /\ UNCHANGED <<arrived, work, ready, current, clientVars>>
        /\ times' \in 0 .. MaxTimes - 1 /\ newPending' \in BOOLEAN /\ yield' \in BOOLEAN
        /\ pc' = "flush" /\ current \notin ready
        /\ handled' \in [Clients -> Seq(Seq(InUnits))]
        /\ available' = NoClient
    <3>1. MaxTimes \in Nat \ {0}
      BY IOAssumption
    <3>2. 0 \in 0 .. MaxTimes - 1
      BY <3>1
    <3> QED
      BY <1>1, <1>4, <1>13, <3>2 DEF IOInv, Typed
  <2> QED
    BY <2>1, <2>2, <2>3, <2>4, ClosingKeeps
<1> QED
  BY <1>4, <1>11, <1>12, <1>13 DEF n

-----------------------------------------------------------------------------
(* Serving requests.                                                         *)

LEMMA PiecesTyped ==
  ASSUME NEW c \in Clients, NEW i \in RequestNumbers(c)
  PROVE  Pieces(c, i) \in Seq(Seq(OutUnits))
<1> DEFINE R == [len : Nat \ {0}, reply : Seq(Nat)]
<1>1. Requests[c] \in Seq(R) /\ SetupReply \in Seq(Nat)
  BY IOAssumption
<1>2. \A r \in R : r.reply \in Seq(Nat)
  OBVIOUS
<1> HIDE DEF R
<1>3. i \in Nat /\ (i # 0 => i \in 1 .. Len(Requests[c]))
  BY Lengths DEF RequestNumbers
<1>4. PICK sizes \in Seq(Nat) : sizes = IF i = 0 THEN SetupReply ELSE Requests[c][i].reply
  <2>1. i # 0 => Requests[c][i] \in R
    BY <1>1, <1>3, Elements
  <2> QED
    BY <1>1, <1>2, <2>1
<1>5. Pieces(c, i) = [j \in DOMAIN sizes |-> [k \in 1 .. sizes[j] |-> <<c, i, j, k>>]]
  BY <1>4 DEF Pieces
<1>6. Len(sizes) \in Nat /\ DOMAIN sizes = 1 .. Len(sizes) /\ \A j \in 1 .. Len(sizes) : sizes[j] \in Nat
  BY Elements
<1>7. ASSUME NEW j \in 1 .. Len(sizes)
      PROVE  [k \in 1 .. sizes[j] |-> <<c, i, j, k>>] \in Seq(OutUnits)
  <2>1. PICK z \in Nat : z = sizes[j]
    BY <1>6
  <2>2. j \in Nat
    BY <1>6
  <2>3. \A k \in 1 .. z : <<c, i, j, k>> \in OutUnits
    BY <1>3, <2>2 DEF OutUnits
  <2>4. [k \in 1 .. z |-> <<c, i, j, k>>] \in Seq(OutUnits)
    <3> HIDE DEF OutUnits
    <3> QED
      BY <2>3
  <2> QED
    BY <2>1, <2>4
<1> DEFINE Q == Seq(OutUnits)
           piece(j) == [k \in 1 .. sizes[j] |-> <<c, i, j, k>>]
<1>8. \A j \in 1 .. Len(sizes) : piece(j) \in Q
  BY <1>7
<1>9. Pieces(c, i) = [j \in 1 .. Len(sizes) |-> piece(j)]
  BY <1>5, <1>6
<1> HIDE DEF Q, piece
<1>10. Pieces(c, i) \in Seq(Q)
  <2>1. PICK n \in Nat : n = Len(sizes)
    BY <1>6
  <2>2. \A j \in 1 .. n : piece(j) \in Q
    BY <1>8, <2>1
  <2>3. [j \in 1 .. n |-> piece(j)] \in Seq(Q)
    BY <2>2
  <2> QED
    BY <1>9, <2>1, <2>3
<1> QED
  BY <1>10 DEF Q

\* What Dispatch serves is the next request, whole, and it gets its own reply.
LEMMA RequestServed ==
  ASSUME IOInv, pc = "handle", NEW c \in Clients, c = current, phase[c] # "initial"
  PROVE  /\ Len(handled[c]) \in RequestNumbers(c)
         /\ Request(c) \in Seq(InUnits) /\ Request(c) = RequestUnits(c, Len(handled[c]))
         /\ UNION {{Pieces(c, i)} : i \in HeaderOf(Request(c)[1])} = {Pieces(c, Len(handled[c]))}
         /\ input[c].last = Length(c, Len(handled[c]))
<1> DEFINE h == Len(handled[c])
<1>1. PICK b \in Buffers : b = input[c] /\ b.rest # <<>> /\ b.last = Needed(b)
  BY DEF IOInv, Typed, Rounds
<1>2. Open(c) /\ phase[c] \notin {"none", "initial"}
  BY DEF IOInv, Rounds, Open
<1>3. PICK m \in Nat : m = arrived[c] /\ m <= sent[c]
  BY DEF IOInv, Typed, Bounded
<1>4. StreamIn(c, phase[c], b, m, h, TRUE)
  <2>1. StreamOK(c) /\ Reading(c)
    BY <1>2 DEF IOInv, Positions, Reading
  <2>2. StreamIn(c, phase[c], input[c], arrived[c], h, Reading(c))
    BY <2>1, Streams
  <2> QED
    BY <1>1, <1>3, <2>1, <2>2 DEF StreamIn
<1>5. /\ h \in RequestNumbers(c) /\ b.rest[1] = <<c, Start(c, h)>>
      /\ Needed(b) = LengthIn(phase, <<c, Start(c, h)>>) /\ Needed(b) \in Nat \ {0}
      /\ Start(c, h) = m + 1 - Len(b.rest)
  <2>1. /\ IOInv /\ c \in Clients /\ b \in Buffers /\ m \in Nat /\ m <= sent[c]
        /\ b.rest # <<>> /\ StreamIn(c, phase[c], b, m, Len(handled[c]), TRUE)
    BY <1>1, <1>3, <1>4
  <2>2. /\ Len(handled[c]) \in RequestNumbers(c)
        /\ b.rest[1] = <<c, Start(c, Len(handled[c]))>>
        /\ Needed(b) = LengthIn(phase, <<c, Start(c, Len(handled[c]))>>)
        /\ Needed(b) \in Nat \ {0}
        /\ Start(c, Len(handled[c])) = m + 1 - Len(b.rest)
    BY ONLY <2>1, FirstUnit
  <2> QED
    BY <2>2
<1>6. b.last = Length(c, h)
  BY <1>1, <1>2, <1>5, LengthOf
<1>7. /\ b.rest \in Seq(InUnits) /\ Len(b.rest) \in Nat /\ b.last \in Nat /\ b.last <= Len(b.rest)
      /\ b.last \in 0 .. Len(b.rest) /\ b.last \in 1 .. Len(b.rest)
  BY <1>1, <1>5, BufferTyped
<1>8. PICK a \in Nat : a = Start(c, h) /\ a <= m + 1 /\ m \in Int /\ m + 1 - a = Len(b.rest)
  <2>1. PICK a \in Nat : a = Start(c, h)
    BY <1>5, HeaderIs
  <2>2. PICK len \in Nat : len = Len(b.rest)
    BY <1>7
  <2>3. a = m + 1 - len
    BY <1>5, <2>1, <2>2
  <2>4. a <= m + 1 /\ m \in Int /\ m + 1 - a = len
    BY <2>3
  <2> QED
    BY <2>1, <2>2, <2>4
<1>9. b.rest = Units(c, a, m)
  <2>1. b.rest = Units(c, m + 1 - Len(b.rest), m)
    BY <1>4 DEF StreamIn
  <2> QED
    BY <1>5, <1>8, <2>1
<1>10. PICK n \in Nat : n = b.last /\ SubSeq(Units(c, a, m), 1, n) = Units(c, a, a + n - 1)
  <2>1. PICK n \in Nat : n = b.last /\ n \in 0 .. m + 1 - a
    BY <1>7, <1>8
  <2>2. c \in Clients /\ a \in Nat /\ m \in Int /\ a <= m + 1 /\ n \in 0 .. m + 1 - a
    BY <1>8, <2>1
  <2>3. SubSeq(Units(c, a, m), 1, n) = Units(c, a, a + n - 1)
    BY ONLY <2>2, UnitsDrop
  <2> QED
    BY <1>8, <2>1, <2>3
<1>11. Start(c, h + 1) = Start(c, h) + Length(c, h)
  BY <1>5, StartSteps
<1>12. Request(c) = RequestUnits(c, h)
  <2>1. Request(c) = Units(c, a, a + n - 1)
    BY <1>1, <1>9, <1>10 DEF Request
  <2>2. Start(c, h + 1) = a + n
    BY <1>6, <1>8, <1>10, <1>11
  <2> QED
    BY <1>8, <2>1, <2>2 DEF RequestUnits
<1>13. /\ SubSeq(b.rest, 1, b.last) \in Seq(InUnits)
       /\ \A k \in 1 .. b.last : SubSeq(b.rest, 1, b.last)[k] = b.rest[k]
  <2>1. b.rest \in Seq(InUnits) /\ b.last \in 0 .. Len(b.rest)
    BY <1>7
  <2> QED
    BY ONLY <2>1, SequenceDrop
<1>14. Request(c) \in Seq(InUnits) /\ Request(c)[1] = <<c, Start(c, h)>>
  <2>1. 1 \in 1 .. b.last
    BY <1>7
  <2> QED
    BY <1>1, <1>5, <1>13, <2>1 DEF Request
<1>15. HeaderOf(Request(c)[1]) = {h}
  <2>1. HeaderOf(<<c, Start(c, h)>>) = {h}
    BY <1>5, HeaderIs
  <2> QED
    BY <1>14, <2>1
<1> QED
  BY <1>1, <1>5, <1>6, <1>12, <1>14, <1>15

LEMMA InitialKeeps ==
  ASSUME IOInv, InitialConnection
  PROVE  IOInv'
<1>1. PICK c \in Clients : c = current /\ Open(c) /\ c \notin ready /\ pc = "handle"
  BY DEF InitialConnection, IOInv, Rounds
<1>2. /\ phase[c] = "initial" /\ phase' = [phase EXCEPT ![c] = "establish"]
      /\ available' = NotAvailable(c)
      /\ input' = [input EXCEPT ![c].last = 0]
      /\ yield' = TRUE /\ times' = 0
      /\ withInput' = Put(withInput, c, Len(input[c].rest) >= 1 + Prefix + Auth[c])
      /\ pc' = "flush"
      /\ UNCHANGED <<arrived, freeInputs, outVars, work, ready, current, clientVars, handled>>
  BY <1>1 DEF InitialConnection, YieldControl
<1>3. /\ phase \in [Clients -> {"none", "initial", "establish", "open", "closed"}]
      /\ input \in [Clients -> Buffers]
  BY DEF IOInv, Typed
<1>4. PICK b \in Buffers : b = input[c] /\ b.rest # <<>>
  BY <1>1, <1>3 DEF IOInv, Rounds
<1>5. PICK nb : nb = [b EXCEPT !.last = 0]
  OBVIOUS
<1>6. /\ nb \in Buffers /\ nb.rest = b.rest /\ nb.last = 0
      /\ b.rest \in Seq(InUnits) /\ Len(b.rest) \in Nat /\ Len(b.rest) > 0
  <2>1. /\ b \in [before : Nat, rest : Seq(InUnits), last : Nat, size : Nat]
        /\ b.before + Len(b.rest) <= b.size /\ b.rest \in Seq(InUnits) /\ Len(b.rest) \in Nat
    BY BufferTyped
  <2>2. /\ nb \in [before : Nat, rest : Seq(InUnits), last : Nat, size : Nat]
        /\ nb.before = b.before /\ nb.rest = b.rest /\ nb.last = 0 /\ nb.size = b.size
    BY <1>5, <2>1
  <2>3. nb.before + Len(nb.rest) <= nb.size /\ nb.last <= Len(nb.rest)
    BY <2>1, <2>2
  <2> QED
    BY <1>4, <2>1, <2>2, <2>3 DEF Buffers
<1>7. input' = [input EXCEPT ![c] = nb] /\ input'[c] = nb
  BY <1>2, <1>3, <1>4, <1>5
<1>8. StreamIn(c, "initial", b, arrived[c], Len(handled[c]), TRUE)
  <2>1. StreamOK(c) /\ Reading(c)
    BY <1>1 DEF IOInv, Positions, Reading
  <2>2. StreamIn(c, phase[c], input[c], arrived[c], Len(handled[c]), Reading(c))
    BY <2>1, Streams
  <2> QED
    BY <1>2, <1>4, <2>1, <2>2 DEF StreamIn
<1>9. ASSUME NEW d \in Clients, d # c
      PROVE  /\ IF phase'[d] \notin {"none", "closed"} THEN StreamOK(d)' ELSE Unused(d)'
             /\ phase'[d] \notin {"none", "closed"} =>
                   (d \in withInput' <=> WholeIn(phase', Drop(input'[d].rest, input'[d].last)))
  <2>1. /\ phase'[d] = phase[d] /\ input'[d] = input[d] /\ output'[d] = output[d]
        /\ socket'[d] = socket[d] /\ arrived'[d] = arrived[d] /\ handled'[d] = handled[d]
        /\ received'[d] = received[d] /\ (d \in withInput' <=> d \in withInput)
    BY <1>2, <1>3, <1>7, <1>9 DEF outVars, clientVars, Put
  <2>2. Reading(d)' = Reading(d)
    BY <1>1, <1>2, <1>9 DEF Reading
  <2> QED
    BY <2>1, <2>2, SameKept
<1>10. phase'[c] = "establish"
  BY <1>2, <1>3
<1>11. Positions'
  <2>1. ~Reading(c)'
    BY <1>2 DEF Reading
  <2>2. StreamIn(c, phase'[c], input'[c], arrived'[c], Len(handled'[c]), Reading(c)')
    BY <1>2, <1>6, <1>7, <1>8, <1>10, <2>1 DEF StreamIn
  <2>3. StreamOK(c)'
    BY <2>2, StreamsNext
  <2> QED
    BY <1>9, <1>10, <2>3 DEF Positions, Open
<1>12. Noticed'
  <2>1. Len(handled[c]) = 0
    <3>1. ~(Len(handled[c]) > 0)
      BY <1>8 DEF StreamIn
    <3>2. Len(handled[c]) \in Nat
      BY DEF IOInv, Typed
    <3> QED
      BY <3>1, <3>2
  <2>2. b.rest[1] = <<c, Start(c, 0)>> /\ 0 \in RequestNumbers(c)
    <3>1. arrived[c] \in Nat /\ arrived[c] <= sent[c]
      BY DEF IOInv, Typed, Bounded
    <3> QED
      BY <1>4, <1>8, <2>1, <3>1, FirstUnit
  <2>3. LengthIn(phase', <<c, Start(c, 0)>>) = 1 + Prefix + Auth[c]
    <3>1. LengthIn(phase', <<c, Start(c, 0)>>) =
             IF 0 = 0 /\ phase'[c] \in {"none", "initial"} THEN 1 + Prefix ELSE Length(c, 0)
      BY <2>2, LengthOf
    <3>2. Length(c, 0) = 1 + Prefix + Auth[c]
      BY Lengths
    <3> QED
      BY <1>10, <3>1, <3>2
  <2>4. Drop(nb.rest, nb.last) = b.rest
    <3>1. SubSeq(b.rest, 1, Len(b.rest)) = b.rest
      BY <1>6
    <3>2. Drop(b.rest, 0) = b.rest
      BY <3>1 DEF Drop
    <3> QED
      BY <1>6, <3>2
  <2>5. c \in withInput' <=> Len(b.rest) >= 1 + Prefix + Auth[c]
    BY <1>2, <1>4 DEF Put
  <2>6. c \in withInput' <=> WholeIn(phase', Drop(input'[c].rest, input'[c].last))
    BY <1>4, <1>7, <2>2, <2>3, <2>4, <2>5 DEF WholeIn
  <2> QED
    BY <1>9, <2>6, NoticedNext
<1>13. Typed'
  <2>1. /\ input' \in [Clients -> Buffers]
        /\ phase' \in [Clients -> {"none", "initial", "establish", "open", "closed"}]
    BY <1>2, <1>3, <1>6, <1>7
  <2>2. withInput' \in SUBSET Clients /\ available' \in Clients \cup {NoClient}
    BY <1>2 DEF IOInv, Typed, Put, NotAvailable
  <2>3. 0 \in 0 .. MaxTimes - 1
    BY IOAssumption
  <2> QED
    BY <1>2, <2>1, <2>2, <2>3 DEF IOInv, Typed, outVars, clientVars
<1>14. Bounded'
  BY <1>2 DEF IOInv, Bounded, outVars, clientVars
<1>15. \A d \in Clients : Open(d)' <=> Open(d)
  BY <1>1, <1>2, <1>3 DEF Open
<1>16. Rounds'
  <2>1. \A d \in ready' \cup withInput' \cup broken' : Open(d)'
    BY <1>1, <1>2, <1>15 DEF IOInv, Rounds, Typed, outVars, Put
  <2>2. \A d \in work' : phase'[d] = "none"
    BY <1>2, <1>3 DEF IOInv, Typed, Rounds
  <2> QED
    BY <1>1, <1>2, <2>1, <2>2 DEF Rounds
<1>17. Lent'
  <2>1. ASSUME available' # NoClient
        PROVE  Open(available)' /\ input'[available'].size > 0
               /\ Len(input'[available'].rest) = input'[available'].last
    <3>1. available' = available /\ available # c
      BY <1>2, <2>1 DEF NotAvailable
    <3>2. /\ Open(available) /\ input[available].size > 0 /\ available \in Clients
          /\ Len(input[available].rest) = input[available].last
      BY <2>1, <3>1 DEF IOInv, Lent, Typed
    <3>3. phase'[available] = phase[available] /\ input'[available] = input[available]
      BY <1>2, <1>3, <1>7, <3>1, <3>2
    <3> QED
      BY <3>1, <3>2, <3>3 DEF Open
  <2> QED
    BY <1>2, <2>1 DEF IOInv, Lent
<1>18. Intact'
  BY <1>2 DEF IOInv, Intact
<1> QED
  BY <1>11, <1>12, <1>13, <1>14, <1>16, <1>17, <1>18 DEF IOInv

\* What the reply leaves of the connection's output.
LEMMA ReplyTyped ==
  ASSUME IOInv, pc = "handle", NEW c \in Clients, c = current, phase[c] # "initial"
  PROVE  LET o == WriteReply(c, Pieces(c, Len(handled[c])))
         IN  /\ o \in Outs /\ o.client = c
             /\ c \in broken => o.broken
             /\ ~o.broken => Written(o) = (socket[c] \o output[c].data) \o Reply(c, Len(handled[c]))
<1>1. PICK pieces \in Seq(Seq(OutUnits)) : pieces = Pieces(c, Len(handled[c]))
  BY RequestServed, PiecesTyped
<1>2. /\ OutputOf(c) \in Outs /\ OutputOf(c).client = c /\ (OutputOf(c).broken <=> c \in broken)
      /\ Written(OutputOf(c)) = socket[c] \o output[c].data
  BY OutputTyped
<1>3. /\ WriteReply(c, pieces) \in Outs
      /\ WriteReply(c, pieces).client = OutputOf(c).client
      /\ OutputOf(c).broken => WriteReply(c, pieces).broken
      /\ ~WriteReply(c, pieces).broken =>
            Written(WriteReply(c, pieces)) = Written(OutputOf(c)) \o FlattenSeq(pieces)
  BY <1>2, ReplyWritten
<1> QED
  BY <1>1, <1>2, <1>3 DEF Reply

LEMMA HandleKeeps ==
  ASSUME IOInv, HandleRequest
  PROVE  IOInv'
<1>1. PICK c \in Clients : c = current /\ Open(c) /\ c \notin ready /\ pc = "handle" /\ phase[c] # "initial"
  BY DEF HandleRequest, IOInv, Rounds
<1> DEFINE h == Len(handled[c])
<1>2. PICK o \in Outs : o = WriteReply(c, Pieces(c, h))
  BY <1>1, ReplyTyped
<1>3. /\ handled' = [handled EXCEPT ![c] = Append(@, Request(c))]
      /\ newPending' = o.new
      /\ \/ /\ CloseDown({c}, input, freeInputs, [Outputs EXCEPT ![c] = o])
            /\ available' = NotAvailable(c)
            /\ pc' = "flush"
         \/ /\ phase' = [phase EXCEPT ![c] = "open"]
            /\ output' = [output EXCEPT ![c] = [data |-> o.data, size |-> o.size]]
            /\ socket' = [socket EXCEPT ![c] = o.socket]
            /\ pending' = Put(pending, c, o.pending)
            /\ blocked' = Put(blocked, c, o.blocked)
            /\ broken' = Put(broken, c, o.broken)
            /\ pc' = IF yield THEN "flush" ELSE "read"
            /\ UNCHANGED <<input, freeInputs, available, withInput>>
      /\ UNCHANGED <<arrived, times, work, ready, current, yield, clientVars>>
  <2> DEFINE pieces == UNION {{Pieces(current, i)} : i \in HeaderOf(Request(current)[1])}
             q == IF pieces = {} THEN OutputOf(current) ELSE WriteReply(current, CHOOSE p \in pieces : TRUE)
  <2>1. pieces = {Pieces(c, h)}
    BY <1>1, RequestServed
  <2>2. q = o
    BY <1>1, <1>2, <2>1
  <2>3. /\ handled' = [handled EXCEPT ![current] = Append(@, Request(current))]
        /\ newPending' = q.new
        /\ \/ /\ CloseDown({current}, input, freeInputs, [Outputs EXCEPT ![current] = q])
              /\ available' = NotAvailable(current)
              /\ pc' = "flush"
           \/ /\ phase' = [phase EXCEPT ![current] = "open"]
              /\ output' = [output EXCEPT ![current] = [data |-> q.data, size |-> q.size]]
              /\ socket' = [socket EXCEPT ![current] = q.socket]
              /\ pending' = Put(pending, current, q.pending)
              /\ blocked' = Put(blocked, current, q.blocked)
              /\ broken' = Put(broken, current, q.broken)
              /\ pc' = IF yield THEN "flush" ELSE "read"
              /\ UNCHANGED <<input, freeInputs, available, withInput>>
        /\ UNCHANGED <<arrived, times, work, ready, current, yield, clientVars>>
    BY DEF HandleRequest
  <2> HIDE DEF pieces, q
  <2> QED
    BY <1>1, <2>2, <2>3
<1>4. /\ h \in RequestNumbers(c) /\ h \in Nat
      /\ Request(c) \in Seq(InUnits) /\ Request(c) = RequestUnits(c, h)
      /\ input[c].last = Length(c, h)
  <2>1. h \in Nat
    BY DEF IOInv, Typed
  <2> QED
    BY <1>1, <2>1, RequestServed
<1>5. /\ handled' \in [Clients -> Seq(Seq(InUnits))] /\ Len(handled'[c]) = h + 1
      /\ handled'[c] = Append(handled[c], Request(c))
      /\ \A d \in Clients : d # c => handled'[d] = handled[d]
  <2>1. handled \in [Clients -> Seq(Seq(InUnits))]
    BY DEF IOInv, Typed
  <2> DEFINE Q == Seq(InUnits)
  <2>2. handled[c] \in Seq(Q) /\ Request(c) \in Q
    BY <1>4, <2>1
  <2> HIDE DEF Q
  <2>3. Append(handled[c], Request(c)) \in Seq(Q) /\ Len(Append(handled[c], Request(c))) = h + 1
    BY <2>2, AppendIs
  <2>4. Append(handled[c], Request(c)) \in Seq(Seq(InUnits))
    BY <2>3 DEF Q
  <2> QED
    BY <1>3, <2>1, <2>3, <2>4
<1>6. Intact'
  <2> SUFFICES ASSUME NEW d \in Clients, NEW i \in DOMAIN handled'[d]
               PROVE  handled'[d][i] = RequestUnits(d, i - 1)
    BY DEF Intact
  <2>1. \A j \in DOMAIN handled[d] : handled[d][j] = RequestUnits(d, j - 1)
    BY DEF IOInv, Intact
  <2>2. CASE d # c
    BY <1>5, <2>1, <2>2
  <2>3. CASE d = c
    <3> DEFINE Q == Seq(InUnits)
    <3>1. handled[c] \in Seq(Q) /\ Request(c) \in Q
      BY <1>4 DEF IOInv, Typed
    <3> HIDE DEF Q
    <3>2. /\ Append(handled[c], Request(c)) \in Seq(Q)
          /\ Len(Append(handled[c], Request(c))) = h + 1
          /\ Append(handled[c], Request(c))[h + 1] = Request(c)
          /\ \A k \in 1 .. h : Append(handled[c], Request(c))[k] = handled[c][k]
      BY <3>1, AppendIs
    <3>3. i \in 1 .. h + 1 /\ DOMAIN handled[c] = 1 .. h
      <4>1. DOMAIN handled'[c] = 1 .. h + 1
        BY <1>5, <3>2, Elements
      <4> QED
        BY <2>3, <3>1, <4>1, Elements
    <3>4. CASE i = h + 1
      <4>1. i - 1 = h
        BY <1>4, <3>4
      <4> QED
        BY <1>4, <1>5, <2>3, <3>2, <3>4, <4>1
    <3>5. CASE i # h + 1
      <4>1. i \in 1 .. h
        BY <1>4, <3>3, <3>5
      <4> QED
        BY <1>5, <2>1, <2>3, <3>2, <3>3, <4>1
    <3> QED
      BY <3>4, <3>5
  <2> QED
    BY <2>2, <2>3
<1>7. CASE /\ CloseDown({c}, input, freeInputs, [Outputs EXCEPT ![c] = o])
           /\ available' = NotAvailable(c) /\ pc' = "flush"
  <2> DEFINE out == [Outputs EXCEPT ![c] = o]
  <2>1. Closing({c}, input, freeInputs, out)
    <3>1. \A d \in Clients : out[d] \in Outs /\ (d \notin {c} => out[d] = OutputOf(d))
      BY OutputTyped DEF Outputs
    <3>2. /\ \A d \in Clients : input[d] \in Buffers
          /\ freeInputs \in Seq(Buffers) /\ Clean(freeInputs)
      BY DEF IOInv, Typed, Lent, Clean
    <3>3. CloseDown({c}, input, freeInputs, out)
      BY <1>7
    <3> HIDE DEF out
    <3> QED
      BY <1>1, <3>1, <3>2, <3>3 DEF Closing
  <2> HIDE DEF out
  <2>2. ASSUME NEW d \in Clients, d \notin {c}
        PROVE  /\ IF phase'[d] \notin {"none", "closed"} THEN StreamOK(d)' ELSE Unused(d)'
               /\ phase'[d] \notin {"none", "closed"} =>
                     (d \in withInput' <=> WholeIn(phase', Drop(input'[d].rest, input'[d].last)))
    <3>1. /\ withInput' = withInput \ {c}
          /\ phase'[d] = phase[d] /\ input'[d] = input[d] /\ output'[d] = output[d]
          /\ socket'[d] = socket[d]
      BY <2>1, <2>2, ClosedDown
    <3>2. /\ arrived'[d] = arrived[d] /\ handled'[d] = handled[d] /\ received'[d] = received[d]
          /\ (d \in withInput' <=> d \in withInput)
      BY <1>3, <1>5, <2>2, <3>1 DEF clientVars
    <3>3. Reading(d)' = Reading(d)
      BY <1>1, <1>7, <2>2 DEF Reading
    <3> QED
      BY <3>1, <3>2, <3>3, SameKept
  <2>3. /\ UNCHANGED <<arrived, work, ready, current, clientVars>>
        /\ times' \in 0 .. MaxTimes - 1 /\ yield' \in BOOLEAN
        /\ pc' = "flush" /\ current \notin ready
    BY <1>1, <1>3, <1>7 DEF IOInv, Typed
  <2>4. newPending' \in BOOLEAN
    BY <1>3, OutTyped
  <2>5. /\ available' \in Clients \cup {NoClient}
        /\ available' # NoClient =>
              available' = available /\ available \notin {c} /\ input[available] = input[available]
    BY <1>7 DEF IOInv, Typed, NotAvailable
  <2> QED
    BY <1>5, <1>6, <2>1, <2>2, <2>3, <2>4, <2>5, ClosingKeeps
<1>8. CASE /\ phase' = [phase EXCEPT ![c] = "open"]
           /\ output' = [output EXCEPT ![c] = [data |-> o.data, size |-> o.size]]
           /\ socket' = [socket EXCEPT ![c] = o.socket]
           /\ pending' = Put(pending, c, o.pending)
           /\ blocked' = Put(blocked, c, o.blocked)
           /\ broken' = Put(broken, c, o.broken)
           /\ pc' = IF yield THEN "flush" ELSE "read"
           /\ UNCHANGED <<input, freeInputs, available, withInput>>
  <2>1. /\ phase \in [Clients -> {"none", "initial", "establish", "open", "closed"}]
        /\ output \in [Clients -> [data : Seq(OutUnits), size : Nat]]
        /\ socket \in [Clients -> Seq(OutUnits)] /\ input \in [Clients -> Buffers]
        /\ arrived \in [Clients -> Nat]
    BY DEF IOInv, Typed
  <2>2. /\ o.data \in Seq(OutUnits) /\ o.size \in Nat /\ o.socket \in Seq(OutUnits)
        /\ Len(o.data) <= o.size /\ Len(o.socket) <= Room /\ o.new \in BOOLEAN
    BY OutTyped
  <2>3. phase'[c] = "open" /\ pc' \in {"flush", "read"} /\ pc' # "handle"
    BY <1>8, <2>1
  <2>4. ASSUME NEW d \in Clients, d # c
        PROVE  /\ IF phase'[d] \notin {"none", "closed"} THEN StreamOK(d)' ELSE Unused(d)'
               /\ phase'[d] \notin {"none", "closed"} =>
                     (d \in withInput' <=> WholeIn(phase', Drop(input'[d].rest, input'[d].last)))
    <3>1. /\ phase'[d] = phase[d] /\ input'[d] = input[d] /\ output'[d] = output[d]
          /\ socket'[d] = socket[d] /\ arrived'[d] = arrived[d] /\ handled'[d] = handled[d]
          /\ received'[d] = received[d] /\ (d \in withInput' <=> d \in withInput)
      BY <1>3, <1>5, <1>8, <2>1, <2>4 DEF clientVars
    <3>2. Reading(d)' = Reading(d)
      BY <1>1, <2>3, <2>4 DEF Reading
    <3> QED
      BY <3>1, <3>2, SameKept
  <2>5. StreamIn(c, phase[c], input[c], arrived[c], h, TRUE)
    <3>1. StreamOK(c) /\ Reading(c)
      BY <1>1 DEF IOInv, Positions, Reading
    <3>2. StreamIn(c, phase[c], input[c], arrived[c], h, Reading(c))
      BY <3>1, Streams
    <3> QED
      BY <3>1, <3>2 DEF StreamIn
  <2>6. Positions'
    <3>1. h + 1 <= Len(Requests[c]) + 1 /\ h + 1 > 0
      BY <1>4, Lengths DEF RequestNumbers
    <3>2. Start(c, h + 1) = Start(c, h) + input[c].last
      BY <1>4, StartSteps
    <3>3. PICK a : a = arrived[c] + 1 - Len(input[c].rest) /\ a \in Nat
      <4>1. Len(input[c].rest) \in Nat /\ arrived[c] \in Nat
        BY <2>1, BufferTyped
      <4>2. arrived[c] + 1 - Len(input[c].rest) >= 0
        BY <2>5 DEF StreamIn
      <4> QED
        BY <4>1, <4>2
    <3>4. Start(c, h) = a
      <4>1. Start(c, h) = a + 0
        BY <2>5, <3>3 DEF StreamIn
      <4> QED
        BY <3>3, <4>1
    <3>5. StreamIn(c, "open", input[c], arrived[c], h + 1, FALSE)
      BY <2>5, <3>1, <3>2, <3>3, <3>4 DEF StreamIn
    <3>6. ~Reading(c)'
      BY <2>3 DEF Reading
    <3>7. StreamIn(c, phase'[c], input'[c], arrived'[c], Len(handled'[c]), Reading(c)')
      BY <1>3, <1>5, <1>8, <2>3, <3>5, <3>6 DEF StreamIn
    <3>8. StreamOK(c)'
      BY <3>7, StreamsNext
    <3> QED
      BY <2>3, <2>4, <3>8 DEF Positions, Open
  <2>7. Noticed'
    <3> DEFINE s == Drop(input[c].rest, input[c].last)
    <3>1. c \in withInput <=> WholeIn(phase, s)
      <4>1. Noticed
        BY DEF IOInv
      <4> QED
        BY <1>1, <4>1, NoticedNow
    <3>2. s # <<>> => s[1][1] = c
      <4>1. /\ Len(s) = Len(input[c].rest) - input[c].last /\ s \in Seq(InUnits)
            /\ Len(input[c].rest) # input[c].last =>
                  s[1] = <<c, arrived[c] + 1 - Len(input[c].rest) + input[c].last>>
        <5>1. /\ c \in Clients /\ input[c] \in Buffers /\ arrived[c] \in Nat
              /\ StreamIn(c, phase[c], input[c], arrived[c], h, TRUE)
          BY <2>1, <2>5
        <5> QED
          BY ONLY <5>1, Behind
      <4>2. s # <<>> => Len(input[c].rest) # input[c].last
        <5>1. Len(input[c].rest) \in Nat /\ input[c].last \in Nat
          BY <2>1, BufferTyped
        <5>2. s # <<>> => Len(s) # 0
          BY <4>1
        <5> QED
          BY <4>1, <5>1, <5>2
      <4> QED
        BY <4>1, <4>2
    <3>3. WholeIn(phase, s) <=> WholeIn(phase', s)
      <4>1. phase[c] \in {"none", "initial"} <=> phase'[c] \in {"none", "initial"}
        BY <1>1, <2>3 DEF Open
      <4> HIDE DEF s
      <4> QED
        BY <3>2, <4>1, WholeSame
    <3>4. c \in withInput' <=> WholeIn(phase', Drop(input'[c].rest, input'[c].last))
      BY <1>8, <3>1, <3>3
    <3> QED
      BY <2>4, <3>4, NoticedNext
  <2>8. Typed'
    <3>1. [data |-> o.data, size |-> o.size] \in [data : Seq(OutUnits), size : Nat]
      BY <2>2
    <3>2. /\ output' \in [Clients -> [data : Seq(OutUnits), size : Nat]]
          /\ socket' \in [Clients -> Seq(OutUnits)]
          /\ phase' \in [Clients -> {"none", "initial", "establish", "open", "closed"}]
      BY <1>8, <2>1, <2>2, <3>1
    <3>3. /\ pending' \in SUBSET Clients /\ blocked' \in SUBSET Clients /\ broken' \in SUBSET Clients
      BY <1>8 DEF IOInv, Typed, Put
    <3>4. newPending' \in BOOLEAN
      BY <1>3, <2>2
    <3> QED
      BY <1>3, <1>5, <1>8, <2>3, <3>2, <3>3, <3>4 DEF IOInv, Typed, clientVars
  <2>9. Bounded'
    <3> SUFFICES ASSUME NEW d \in Clients
                 PROVE  /\ arrived'[d] <= sent'[d] /\ sent'[d] <= Total(d)
                        /\ Len(output'[d].data) <= output'[d].size /\ Len(socket'[d]) <= Room
      BY DEF Bounded
    <3>1. arrived[d] <= sent[d] /\ sent[d] <= Total(d)
          /\ Len(output[d].data) <= output[d].size /\ Len(socket[d]) <= Room
      BY DEF IOInv, Bounded
    <3>2. CASE d = c
      <4>1. output'[c].data = o.data /\ output'[c].size = o.size /\ socket'[c] = o.socket
        BY <1>8, <2>1
      <4> QED
        BY <1>3, <2>2, <3>1, <3>2, <4>1 DEF clientVars
    <3>3. CASE d # c
      <4>1. output'[d] = output[d] /\ socket'[d] = socket[d]
        BY <1>8, <2>1, <3>3
      <4> QED
        BY <1>3, <3>1, <4>1 DEF clientVars
    <3> QED
      BY <3>2, <3>3
  <2>10. \A d \in Clients : Open(d)' <=> Open(d)
    BY <1>1, <1>8, <2>1 DEF Open
  <2>11. Rounds'
    <3>1. \A d \in ready' \cup withInput' \cup broken' : Open(d)'
      BY <1>1, <1>3, <1>8, <2>10 DEF IOInv, Rounds, Typed, Put
    <3>2. \A d \in work' : phase'[d] = "none"
      BY <1>1, <1>3, <1>8, <2>1 DEF IOInv, Typed, Rounds, Open
    <3>3. current' \in Clients /\ Open(current)' /\ current' \notin ready'
      <4>1. Open(c)'
        BY <1>1, <2>10
      <4> QED
        BY <1>1, <1>3, <4>1 DEF Open
    <3> QED
      BY <2>3, <3>1, <3>2, <3>3 DEF Rounds
  <2>12. Lent'
    <3>1. available # NoClient => available \in Clients /\ Open(available)
      BY DEF IOInv, Typed, Lent
    <3>2. available # NoClient => phase'[available] \notin {"none", "closed"}
      BY <2>10, <3>1 DEF Open
    <3> QED
      BY <1>8, <3>2 DEF IOInv, Lent, Open
  <2> QED
    BY <1>6, <2>6, <2>7, <2>8, <2>9, <2>11, <2>12 DEF IOInv
<1> QED
  BY <1>3, <1>7, <1>8

-----------------------------------------------------------------------------
(* The theorems.                                                             *)

LEMMA StepKeeps == IOInv /\ [Next]_vars => IOInv'
<1> SUFFICES ASSUME IOInv, [Next]_vars PROVE IOInv'
  OBVIOUS
<1>1. CASE UNCHANGED vars
  <2>1. UNCHANGED streamVars /\ UNCHANGED <<times, outVars, roundVars, clientVars>>
    BY <1>1 DEF vars, streamVars, inVars
  <2>2. Positions' /\ Lent' /\ Intact' /\ Noticed'
    BY <2>1, StreamsKept DEF Reading, outVars, roundVars, clientVars
  <2>3. Typed' /\ Bounded'
    BY <2>1 DEF IOInv, Typed, Bounded, streamVars, outVars, roundVars, clientVars
  <2>4. Rounds'
    BY <2>1 DEF IOInv, Rounds, Open, Needed, RequestLength, streamVars, outVars, roundVars
  <2> QED
    BY <2>2, <2>3, <2>4 DEF IOInv
<1>2. CASE FlushAndSelect
  <2>1. /\ FlushAllOutput /\ pc = "wait" /\ pc' = "select"
        /\ UNCHANGED <<streamVars, times, work, ready, current, yield, clientVars>>
    BY <1>2 DEF FlushAndSelect, inVars, streamVars
  <2> QED
    BY <2>1, FlushingKeeps
<1>3. CASE FlushRound
  <2>1. /\ FlushAllOutput /\ pc = "flush" /\ pc' = "round"
        /\ UNCHANGED <<streamVars, times, work, ready, current, yield, clientVars>>
    BY <1>3 DEF FlushRound, inVars, streamVars
  <2> QED
    BY <2>1, FlushingKeeps
<1> QED
  BY <1>1, <1>2, <1>3, ServeBufferedKeeps, SelectKeeps, CheckKeeps, AcceptKeeps, NextClientKeeps,
     ReadRequestKeeps, InitialKeeps, HandleKeeps, SendKeeps, ReadKeeps, HangUpKeeps DEF Next, Server

LEMMA Invariance == Spec => []IOInv
<1>1. Init => IOInv
  BY InitInv
<1>2. IOInv /\ [Next]_vars => IOInv'
  BY StepKeeps
<1> QED
  BY <1>1, <1>2, PTL DEF Spec

(* Whatever arrives in pieces, in whichever buffer: Dispatch is given the     *)
(* requests of each client whole, in order and untouched, and a buffer that   *)
(* is lent holds nothing of them.                                             *)
THEOREM RequestsServedIntact == Spec => []RequestsIntact
<1>1. IOInv => RequestsIntact
  <2> SUFFICES ASSUME IOInv PROVE RequestsIntact
    OBVIOUS
  <2>1. \A c \in Clients : input[c].before + Len(input[c].rest) <= input[c].size
                           /\ input[c].last <= Len(input[c].rest)
    BY BufferTyped DEF IOInv, Typed
  <2>2. {hungUp, withInput, pending, blocked, broken, work, ready} \subseteq SUBSET Clients
    BY DEF IOInv, Typed
  <2>3. TypeOK
    BY <2>1, <2>2 DEF TypeOK, IOInv, Typed, Bounded
  <2> QED
    BY <2>3 DEF RequestsIntact, IOInv, Lent, Intact
<1> QED
  BY <1>1, Invariance, PTL

(* When the server decides whether to sleep, ClientsWithInput has exactly the *)
(* clients with a whole request left in their buffer.                         *)
THEOREM InputIsNoticed == Spec => []InputNoticed
<1>1. IOInv => InputNoticed
  BY DEF IOInv, Noticed, InputNoticed
<1> QED
  BY <1>1, Invariance, PTL

-----------------------------------------------------------------------------
(* Replies.                                                                  *)

\* The replies to the first n requests of c.
Answers(c, n) == FlattenSeq([i \in 1 .. n |-> Reply(c, i - 1)])

\* What was written to c: read by c, taken by its socket, or still buffered.
WrittenTo(c) == received[c] \o (socket[c] \o output[c].data)

Answered(c) == Open(c) /\ c \notin hungUp /\ c \notin broken =>
                  WrittenTo(c) = Answers(c, Len(handled[c]))

LEMMA ReplyIs ==
  ASSUME NEW c \in Clients, NEW i \in RequestNumbers(c)
  PROVE  Reply(c, i) \in Seq(OutUnits)
<1>1. Pieces(c, i) \in Seq(Seq(OutUnits))
  BY PiecesTyped
<1> QED
  BY <1>1, FlattenAppend DEF Reply

\* One more request, one more reply.
LEMMA AnswersStep ==
  ASSUME NEW c \in Clients, NEW n \in RequestNumbers(c)
  PROVE  /\ Answers(c, 0) = <<>>
         /\ Answers(c, n) \in Seq(OutUnits)
         /\ Answers(c, n + 1) = Answers(c, n) \o Reply(c, n)
<1> DEFINE Q == Seq(OutUnits)
           ss == [i \in 1 .. n |-> Reply(c, i - 1)]
<1>1. n \in Nat /\ \A i \in 1 .. n + 1 : i - 1 \in RequestNumbers(c)
  BY Lengths DEF RequestNumbers
<1>2. \A i \in 1 .. n + 1 : Reply(c, i - 1) \in Q
  BY <1>1, ReplyIs
<1>3. Reply(c, n) \in Q
  BY ReplyIs
<1> HIDE DEF Q
<1>4. ss \in Seq(Q) /\ Len(ss) = n
  BY <1>1, <1>2
<1>5. [i \in 1 .. n + 1 |-> Reply(c, i - 1)] = Append(ss, Reply(c, n))
  <2>1. [i \in 1 .. n + 1 |-> Reply(c, i - 1)] \in Seq(Q)
        /\ Len([i \in 1 .. n + 1 |-> Reply(c, i - 1)]) = n + 1
    BY <1>1, <1>2
  <2>2. /\ Append(ss, Reply(c, n)) \in Seq(Q) /\ Len(Append(ss, Reply(c, n))) = n + 1
        /\ Append(ss, Reply(c, n))[n + 1] = Reply(c, n)
        /\ \A i \in 1 .. n : Append(ss, Reply(c, n))[i] = ss[i]
    <3>1. PICK q \in Seq(Q), r \in Q : q = ss /\ r = Reply(c, n) /\ Len(q) = n
      BY <1>3, <1>4
    <3> HIDE DEF ss
    <3>2. /\ Append(q, r) \in Seq(Q) /\ Len(Append(q, r)) = Len(q) + 1
          /\ Append(q, r)[Len(q) + 1] = r /\ \A i \in 1 .. Len(q) : Append(q, r)[i] = q[i]
      <4>1. q \in Seq(Q) /\ r \in Q
        BY <3>1
      <4> QED
        BY ONLY <4>1, AppendIs
    <3> QED
      BY <3>1, <3>2
  <2>3. \A i \in 1 .. n + 1 : [k \in 1 .. n + 1 |-> Reply(c, k - 1)][i] = Append(ss, Reply(c, n))[i]
    <3> SUFFICES ASSUME NEW i \in 1 .. n + 1
                 PROVE  Reply(c, i - 1) = Append(ss, Reply(c, n))[i]
      OBVIOUS
    <3>1. CASE i = n + 1
      <4>1. i - 1 = n
        BY <1>1, <3>1
      <4> QED
        BY <2>2, <3>1, <4>1
    <3>2. CASE i # n + 1
      <4>1. i \in 1 .. n
        BY <1>1, <3>2
      <4> QED
        BY <2>2, <4>1
    <3> QED
      BY <3>1, <3>2
  <2> HIDE DEF ss
  <2> QED
    BY <2>1, <2>2, <2>3, SameSequence
<1>6. FlattenSeq(ss) \in Seq(OutUnits) /\ FlattenSeq(<<>>) = <<>>
      /\ FlattenSeq(Append(ss, Reply(c, n))) = FlattenSeq(ss) \o Reply(c, n)
  <2>1. ss \in Seq(Seq(OutUnits)) /\ Reply(c, n) \in Seq(OutUnits)
    BY <1>3, <1>4 DEF Q
  <2> HIDE DEF ss
  <2> QED
    BY ONLY <2>1, FlattenAppend
<1>7. [i \in 1 .. 0 |-> Reply(c, i - 1)] = <<>>
  OBVIOUS
<1> QED
  BY <1>5, <1>6, <1>7 DEF Answers

\* A client to which nothing new was written has got the same.
LEMMA AnsweredKept ==
  ASSUME NEW c \in Clients, Answered(c), WrittenTo(c)' = WrittenTo(c), handled'[c] = handled[c],
         Open(c)' => Open(c), hungUp \subseteq hungUp', c \in broken => c \in broken'
  PROVE  Answered(c)'
BY DEF Answered, Answers

\* The same, where the connections of C are closed.
LEMMA ClosingAnswers ==
  ASSUME NEW C, NEW in, NEW free, NEW out, CloseDown(C, in, free, out),
         NEW c \in Clients, Answered(c), c \notin C => out[c] = OutputOf(c) /\ handled'[c] = handled[c],
         UNCHANGED clientVars
  PROVE  Answered(c)'
<1>1. CASE c \in C
  <2>1. phase'[c] = "closed"
    BY <1>1 DEF CloseDown
  <2> QED
    BY <2>1 DEF Answered, Open
<1>2. CASE c \notin C
  <2>1. OutputOf(c).data = output[c].data /\ OutputOf(c).socket = socket[c]
    BY DEF OutputOf
  <2>2. phase'[c] = phase[c] /\ socket'[c] = OutputOf(c).socket
        /\ output'[c].data = OutputOf(c).data
    BY <1>2 DEF CloseDown
  <2>3. WrittenTo(c)' = WrittenTo(c)
    BY <2>1, <2>2 DEF WrittenTo, clientVars
  <2>4. (c \in broken => c \in broken') /\ (Open(c)' => Open(c))
    BY <1>2, <2>2 DEF CloseDown, Open
  <2>5. handled'[c] = handled[c] /\ hungUp \subseteq hungUp'
    BY <1>2 DEF clientVars
  <2> QED
    BY <2>3, <2>4, <2>5, AnsweredKept
<1> QED
  BY <1>1, <1>2

\* What a client reads it has been written before.
LEMMA ReadAnswers ==
  ASSUME IOInv, NEW d \in Clients, ClientReads(d), NEW c \in Clients, Answered(c)
  PROVE  Answered(c)'
<1>1. /\ received' = [received EXCEPT ![d] = @ \o socket[d]] /\ socket' = [socket EXCEPT ![d] = <<>>]
      /\ UNCHANGED <<phase, output, broken, hungUp, handled>>
  BY DEF ClientReads
<1>2. /\ received \in [Clients -> Seq(OutUnits)] /\ socket \in [Clients -> Seq(OutUnits)]
      /\ received[c] \in Seq(OutUnits) /\ socket[c] \in Seq(OutUnits)
      /\ output[c].data \in Seq(OutUnits)
  BY DEF IOInv, Typed
<1>3. WrittenTo(c)' = WrittenTo(c)
  <2>1. PICK r \in Seq(OutUnits), s \in Seq(OutUnits), q \in Seq(OutUnits) :
          r = received[c] /\ s = socket[c] /\ q = output[c].data
    BY <1>2
  <2>2. (r \o s) \o (<<>> \o q) = r \o (s \o q)
    BY JoinTwice, JoinEmpty
  <2>3. CASE c = d
    <3>1. received'[c] = r \o s /\ socket'[c] = <<>> /\ output'[c].data = q
      BY <1>1, <1>2, <2>1, <2>3
    <3> QED
      BY <2>1, <2>2, <3>1 DEF WrittenTo
  <2>4. CASE c # d
    BY <1>1, <1>2, <2>4 DEF WrittenTo
  <2> QED
    BY <2>3, <2>4
<1>4. (Open(c)' => Open(c)) /\ (c \in broken => c \in broken') /\ hungUp \subseteq hungUp'
      /\ handled'[c] = handled[c]
  BY <1>1 DEF Open
<1> QED
  BY <1>3, <1>4, AnsweredKept

\* FlushAllOutput moves output from buffers to sockets.
LEMMA FlushingAnswers ==
  ASSUME IOInv, FlushAllOutput, UNCHANGED <<phase, clientVars, handled>>,
         NEW c \in Clients, Answered(c)
  PROVE  Answered(c)'
<1>1. c \notin broken' => c \notin broken /\ socket'[c] \o output'[c].data = socket[c] \o output[c].data
  BY AllFlushed
<1>2. CASE c \in broken'
  BY <1>2 DEF Answered
<1>3. CASE c \notin broken'
  <2>1. WrittenTo(c)' = WrittenTo(c) /\ (c \in broken => c \in broken')
    BY <1>1, <1>3 DEF WrittenTo, clientVars
  <2>2. (Open(c)' => Open(c)) /\ hungUp \subseteq hungUp' /\ handled'[c] = handled[c]
    BY DEF Open, clientVars
  <2> QED
    BY <2>1, <2>2, AnsweredKept
<1> QED
  BY <1>2, <1>3

\* A new connection has got nothing, and has been served nothing.
LEMMA AcceptAnswers ==
  ASSUME IOInv, NEW d \in Clients, Accept(d), NEW c \in Clients, Answered(c)
  PROVE  Answered(c)'
<1>1. /\ phase' = [phase EXCEPT ![d] = "initial"] /\ d \in work
      /\ UNCHANGED <<output, socket, broken, clientVars, handled>>
  BY DEF Accept, outVars
<1>2. WrittenTo(c)' = WrittenTo(c) /\ hungUp \subseteq hungUp' /\ handled'[c] = handled[c]
      /\ (c \in broken => c \in broken')
  BY <1>1 DEF WrittenTo, clientVars
<1>3. CASE c = d
  <2>1. phase[c] = "none"
    BY <1>1, <1>3 DEF IOInv, Rounds
  <2>2. Unused(c)
    BY <2>1 DEF IOInv, Positions, Open
  <2>3. received[c] = <<>> /\ socket[c] = <<>> /\ output[c].data = <<>> /\ handled[c] = <<>>
    BY <2>1, <2>2 DEF Unused, NoOutput
  <2>4. <<>> \o (<<>> \o <<>>) = <<>>
    <3>1. <<>> \in Seq(OutUnits)
      OBVIOUS
    <3> QED
      BY <3>1, JoinEmpty
  <2>5. Answers(c, 0) = <<>> /\ Len(<<>>) = 0
    <3>1. 0 \in RequestNumbers(c)
      BY Lengths DEF RequestNumbers
    <3> QED
      BY <3>1, AnswersStep
  <2>6. WrittenTo(c) = Answers(c, Len(handled[c]))
    BY <2>3, <2>4, <2>5 DEF WrittenTo
  <2> QED
    BY <1>2, <2>6 DEF Answered, Answers
<1>4. CASE c # d
  <2>1. Open(c)' => Open(c)
    BY <1>1, <1>4 DEF Open, IOInv, Typed
  <2> QED
    BY <1>2, <2>1, AnsweredKept
<1> QED
  BY <1>3, <1>4

\* A connection that fails or ends loses its input, and is told nothing more.
LEMMA ReadingAnswers ==
  ASSUME IOInv, ReadRequest, NEW c \in Clients, Answered(c)
  PROVE  Answered(c)'
<1> DEFINE b == BufferFor(current)
           room == MakeRoom(b, Needed(b))
<1>1. CASE UNCHANGED <<phase, outVars, clientVars, handled>>
  <2>1. WrittenTo(c)' = WrittenTo(c)
    BY <1>1 DEF WrittenTo, outVars, clientVars
  <2>2. (Open(c)' => Open(c)) /\ hungUp \subseteq hungUp' /\ handled'[c] = handled[c]
        /\ (c \in broken => c \in broken')
    BY <1>1 DEF Open, outVars, clientVars
  <2> QED
    BY <2>1, <2>2, AnsweredKept
<1>2. CASE CloseDown({current}, Taken(current, room), StillFree(current), Outputs)
           /\ UNCHANGED <<clientVars, handled>>
  <2>1. Outputs[c] = OutputOf(c)
    BY DEF Outputs
  <2> HIDE DEF room
  <2> QED
    BY <1>2, <2>1, ClosingAnswers
<1>3. \/ UNCHANGED <<phase, outVars, clientVars, handled>>
      \/ /\ CloseDown({current}, Taken(current, room), StillFree(current), Outputs)
         /\ UNCHANGED <<clientVars, handled>>
  BY DEF ReadRequest
<1> QED
  BY <1>1, <1>2, <1>3

\* The reply to a request follows what was written before.
LEMMA HandlingAnswers ==
  ASSUME IOInv, HandleRequest, NEW d \in Clients, Answered(d)
  PROVE  Answered(d)'
<1>1. PICK c \in Clients : c = current /\ pc = "handle" /\ phase[c] # "initial" /\ Open(c)
  BY DEF HandleRequest, IOInv, Rounds
<1>2. PICK h : h = Len(handled[c])
  OBVIOUS
<1> DEFINE o == WriteReply(c, Pieces(c, h))
<1>3. /\ h \in RequestNumbers(c)
      /\ UNION {{Pieces(c, i)} : i \in HeaderOf(Request(c)[1])} = {Pieces(c, h)}
      /\ o \in Outs /\ o.client = c /\ (c \in broken => o.broken)
      /\ ~o.broken => Written(o) = (socket[c] \o output[c].data) \o Reply(c, h)
  BY <1>1, <1>2, RequestServed, ReplyTyped
<1>4. /\ handled' = [handled EXCEPT ![c] = Append(@, Request(c))]
      /\ \/ CloseDown({c}, input, freeInputs, [Outputs EXCEPT ![c] = o])
         \/ /\ phase' = [phase EXCEPT ![c] = "open"]
            /\ output' = [output EXCEPT ![c] = [data |-> o.data, size |-> o.size]]
            /\ socket' = [socket EXCEPT ![c] = o.socket]
            /\ broken' = Put(broken, c, o.broken)
      /\ UNCHANGED clientVars
  <2> DEFINE pieces == UNION {{Pieces(current, i)} : i \in HeaderOf(Request(current)[1])}
             q == IF pieces = {} THEN OutputOf(current)
                  ELSE WriteReply(current, CHOOSE p \in pieces : TRUE)
  <2>1. q = o
    BY <1>1, <1>3
  <2>2. /\ handled' = [handled EXCEPT ![current] = Append(@, Request(current))]
        /\ \/ CloseDown({current}, input, freeInputs, [Outputs EXCEPT ![current] = q])
           \/ /\ phase' = [phase EXCEPT ![current] = "open"]
              /\ output' = [output EXCEPT ![current] = [data |-> q.data, size |-> q.size]]
              /\ socket' = [socket EXCEPT ![current] = q.socket]
              /\ broken' = Put(broken, current, q.broken)
        /\ UNCHANGED clientVars
    BY DEF HandleRequest
  <2> HIDE DEF q
  <2> QED
    BY <1>1, <2>1, <2>2
<1> HIDE DEF o
<1>5. CASE CloseDown({c}, input, freeInputs, [Outputs EXCEPT ![c] = o])
  <2>1. d \notin {c} => [Outputs EXCEPT ![c] = o][d] = OutputOf(d) /\ handled'[d] = handled[d]
    BY <1>4 DEF Outputs
  <2> QED
    BY <1>4, <1>5, <2>1, ClosingAnswers
<1>6. CASE /\ phase' = [phase EXCEPT ![c] = "open"]
           /\ output' = [output EXCEPT ![c] = [data |-> o.data, size |-> o.size]]
           /\ socket' = [socket EXCEPT ![c] = o.socket]
           /\ broken' = Put(broken, c, o.broken)
  <2>1. hungUp' = hungUp /\ received' = received
    BY <1>4 DEF clientVars
  <2>2. CASE d # c
    <3>1. WrittenTo(d)' = WrittenTo(d)
      <4>1. output'[d] = output[d] /\ socket'[d] = socket[d]
        BY <1>6, <2>2
      <4> QED
        BY <2>1, <4>1 DEF WrittenTo
    <3>2. (Open(d)' => Open(d)) /\ hungUp \subseteq hungUp' /\ handled'[d] = handled[d]
      BY <1>4, <1>6, <2>1, <2>2 DEF Open
    <3>3. d \in broken => d \in broken'
      BY <1>6, <2>2 DEF Put
    <3> QED
      BY <3>1, <3>2, <3>3, AnsweredKept
  <2>3. CASE d = c
    <3> SUFFICES ASSUME c \notin hungUp, c \notin broken'
                 PROVE  WrittenTo(c)' = Answers(c, Len(handled'[c]))
      BY <2>1, <2>3 DEF Answered, Answers
    <3>1. c \notin broken /\ ~o.broken
      BY <1>3, <1>6 DEF Put
    <3>2. WrittenTo(c) = Answers(c, h)
      BY <1>1, <1>2, <2>3, <3>1 DEF Answered
    <3>3. PICK r \in Seq(OutUnits), s \in Seq(OutUnits), q \in Seq(OutUnits) :
            r = received[c] /\ s = socket[c] \o output[c].data /\ q = Reply(c, h)
      <4>1. /\ received[c] \in Seq(OutUnits) /\ socket[c] \in Seq(OutUnits)
            /\ output[c].data \in Seq(OutUnits)
        BY <1>1 DEF IOInv, Typed
      <4>2. socket[c] \o output[c].data \in Seq(OutUnits)
        BY <4>1, SequenceJoin
      <4>3. Reply(c, h) \in Seq(OutUnits)
        BY <1>1, <1>3, ReplyIs
      <4> QED
        BY <4>1, <4>2, <4>3
    <3>4. /\ received'[c] = received[c] /\ socket'[c] = o.socket /\ output'[c].data = o.data
      BY <1>1, <1>6, <2>1 DEF IOInv, Typed
    <3>5. WrittenTo(c)' = r \o (s \o q)
      <4>1. WrittenTo(c)' = received[c] \o Written(o)
        BY <3>4 DEF WrittenTo, Written
      <4> QED
        BY <1>3, <3>1, <3>3, <4>1
    <3>6. (r \o s) \o q = r \o (s \o q)
      BY JoinTwice
    <3>7. r \o s = Answers(c, h)
      BY <3>2, <3>3 DEF WrittenTo
    <3>8. Answers(c, h + 1) = Answers(c, h) \o Reply(c, h)
      BY <1>1, <1>3, AnswersStep
    <3>9. Len(handled'[c]) = h + 1
      <4> DEFINE Q == Seq(InUnits)
      <4>1. handled[c] \in Seq(Q) /\ Request(c) \in Q /\ handled'[c] = Append(handled[c], Request(c))
        BY <1>1, <1>4, RequestServed DEF IOInv, Typed
      <4> HIDE DEF Q
      <4> QED
        BY <4>1, <1>2, AppendIs
    <3> QED
      BY <3>3, <3>5, <3>6, <3>7, <3>8, <3>9
  <2> QED
    BY <2>2, <2>3
<1> QED
  BY <1>4, <1>5, <1>6

LEMMA StepAnswers ==
  ASSUME IOInv, [Next]_vars, NEW c \in Clients, Answered(c)
  PROVE  Answered(c)'
<1>1. CASE UNCHANGED <<phase, outVars, clientVars, handled>>
  <2>1. WrittenTo(c)' = WrittenTo(c)
    BY <1>1 DEF WrittenTo, outVars, clientVars
  <2>2. (Open(c)' => Open(c)) /\ hungUp \subseteq hungUp' /\ handled'[c] = handled[c]
        /\ (c \in broken => c \in broken')
    BY <1>1 DEF Open, outVars, clientVars
  <2> QED
    BY <2>1, <2>2, AnsweredKept
<1>2. CASE ServeBuffered \/ NextClient \/ UNCHANGED vars
  BY <1>1, <1>2 DEF ServeBuffered, NextClient, vars
<1>3. CASE FlushAndSelect \/ FlushRound
  BY <1>3, FlushingAnswers DEF FlushAndSelect, FlushRound
<1>4. CASE \E d \in Clients : ClientSends(d) \/ ClientHangsUp(d)
  <2>1. WrittenTo(c)' = WrittenTo(c)
    BY <1>4 DEF ClientSends, ClientHangsUp, WrittenTo, outVars, clientVars
  <2>2. (Open(c)' => Open(c)) /\ hungUp \subseteq hungUp' /\ handled'[c] = handled[c]
        /\ (c \in broken => c \in broken')
    BY <1>4 DEF ClientSends, ClientHangsUp, Open, outVars, clientVars
  <2> QED
    BY <2>1, <2>2, AnsweredKept
<1>5. CASE Select
  <2>1. UNCHANGED <<phase, output, socket, broken, clientVars, handled>>
    BY <1>5 DEF Select
  <2>2. WrittenTo(c)' = WrittenTo(c)
    BY <2>1 DEF WrittenTo, clientVars
  <2>3. (Open(c)' => Open(c)) /\ hungUp \subseteq hungUp' /\ handled'[c] = handled[c]
        /\ (c \in broken => c \in broken')
    BY <2>1 DEF Open, clientVars
  <2> QED
    BY <2>2, <2>3, AnsweredKept
<1>6. CASE CheckConnections
  <2>1. /\ CloseDown(broken, input, freeInputs, Outputs)
        /\ UNCHANGED <<clientVars, handled>> /\ Outputs[c] = OutputOf(c)
    BY <1>6 DEF CheckConnections, Outputs
  <2> QED
    BY <2>1, ClosingAnswers
<1>7. CASE InitialConnection
  <2>1. UNCHANGED <<outVars, clientVars, handled>> /\ phase' = [phase EXCEPT ![current] = "establish"]
        /\ phase[current] = "initial"
    BY <1>7 DEF InitialConnection
  <2>2. WrittenTo(c)' = WrittenTo(c)
    BY <2>1 DEF WrittenTo, outVars, clientVars
  <2>3. (Open(c)' => Open(c)) /\ hungUp \subseteq hungUp' /\ handled'[c] = handled[c]
        /\ (c \in broken => c \in broken')
    BY <2>1 DEF Open, outVars, clientVars
  <2> QED
    BY <2>2, <2>3, AnsweredKept
<1> QED
  BY <1>2, <1>3, <1>4, <1>5, <1>6, <1>7, ReadAnswers, AcceptAnswers, ReadingAnswers, HandlingAnswers
     DEF Next, Server

(* Through partial writes, growing buffers and failing connections: a client  *)
(* that is still connected reads the replies to its requests, whole and in    *)
(* the order of the requests.                                                 *)
THEOREM RepliesWholeInOrder == Spec => []RepliesInOrder
<1> DEFINE Inv == IOInv /\ \A c \in Clients : Answered(c)
<1>1. Init => Inv
  <2> SUFFICES ASSUME Init PROVE Inv
    OBVIOUS
  <2>1. \A c \in Clients : ~Open(c)
    BY DEF Init, Open
  <2> QED
    BY <2>1, InitInv DEF Answered
<1>2. Inv /\ [Next]_vars => Inv'
  BY StepKeeps, StepAnswers
<1>3. Inv => RepliesInOrder
  <2> SUFFICES ASSUME Inv, NEW c \in Clients, Open(c), c \notin hungUp \cup broken
               PROVE  received[c] \o socket[c] \o output[c].data
                         = FlattenSeq([i \in DOMAIN handled[c] |-> Reply(c, i - 1)])
    BY DEF RepliesInOrder
  <2>1. received[c] \o (socket[c] \o output[c].data) = Answers(c, Len(handled[c]))
    BY DEF Answered, WrittenTo
  <2>2. /\ received[c] \in Seq(OutUnits) /\ socket[c] \in Seq(OutUnits)
        /\ output[c].data \in Seq(OutUnits) /\ handled[c] \in Seq(Seq(InUnits))
    BY DEF IOInv, Typed
  <2>3. received[c] \o socket[c] \o output[c].data = received[c] \o (socket[c] \o output[c].data)
    <3>1. PICK r \in Seq(OutUnits), s \in Seq(OutUnits), q \in Seq(OutUnits) :
            r = received[c] /\ s = socket[c] /\ q = output[c].data
      BY <2>2
    <3>2. (r \o s) \o q = r \o (s \o q)
      BY JoinTwice
    <3> QED
      BY <3>1, <3>2
  <2>4. DOMAIN handled[c] = 1 .. Len(handled[c])
    BY <2>2, Elements
  <2> QED
    BY <2>1, <2>3, <2>4 DEF Answers
<1> HIDE DEF Inv
<1> QED
  BY <1>1, <1>2, <1>3, PTL DEF Spec
=============================================================================

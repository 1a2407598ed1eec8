----------------------- MODULE EventsAndBucketsProofs -----------------------
(* The linked list of AudioEvents implements AudioEventFifo, for any number  *)
(* of records, flows and events, as long as the elements of one flow post.   *)
(* Sounds that are kept in buckets stay what they are: SoundsKept of Buckets *)
(* for any number of clients, scratch flows and buckets, and any sizes of    *)
(* buckets and requests.                                                     *)
EXTENDS AudioEvents, Buckets, SequenceTheorems, CountingLemmas

\* With two flows that post, a tail that is removed from a list that is not
\* empty dangles (see the README).
OnePoster == \A f, g \in Posting : f = g

-----------------------------------------------------------------------------
(* Lists of records, with links in both directions.                          *)
Linked(links, q) ==
    /\ q \in Seq(Cells)
    /\ \A i, j \in 1 .. Len(q) : q[i] = q[j] => i = j
    /\ \A i \in 1 .. Len(q) : links[q[i]] = IF i = Len(q) THEN NULL ELSE q[i + 1]

First(q) == IF q = <<>> THEN NULL ELSE q[1]

Chain(links, back, first, last, q) ==
    /\ Linked(links, q)
    /\ \A i \in 1 .. Len(q) : back[q[i]] = IF i = 1 THEN NULL ELSE q[i - 1]
    /\ first = First(q)
    /\ last = IF q = <<>> THEN NULL ELSE q[Len(q)]

-----------------------------------------------------------------------------
(* The inductive invariant.                                                  *)
ListOK == /\ next \in [Cells -> Cells \cup {NULL}] /\ prev \in [Cells -> Cells \cup {NULL}]
          /\ event \in [Cells -> 0 .. MaxPosts]
          /\ Chain(next, prev, head, tail, Queue)
          /\ log \in Seq(Posting) /\ Len(log) <= MaxPosts
          /\ \A c \in ToSet(Queue) : event[c] \in 1 .. Len(log)

\* The record that one of the walks has taken from the list and not freed.
InHand == IF pc \in {"free", "freerecord"} THEN {p} ELSE {}

Accounted == /\ allocated = ToSet(Queue) \cup InHand
             /\ \A c \in ToSet(Queue) : log[event[c]] \notin gone
             /\ running \cap gone = {}

\* Where the two walks are.  Records are only taken from the head: all events
\* are those of the only flow that posts, so that either every record is the
\* victim's or none is.
Walks == /\ pc \in {"write", "remove"} => (Queue # <<>> /\ p = Queue[1])
         /\ pc = "free" => (p \notin ToSet(Queue) /\ nx \in {NULL, head})
         /\ pc \in {"dequeue", "peek", "match", "freerecord", "freed"}
               => (victim \in Destroyable /\ victim \notin running)
         /\ pc \in {"peek", "match"} => (p \in ToSet(Queue) /\ (victim \in Posting => p = head))
         /\ pc = "match" => (/\ nx \in ToSet(Queue) \cup {NULL}
                            /\ (victim \in Posting => nx = next[p]))
         /\ pc = "freerecord" => (victim \in Posting /\ p \notin ToSet(Queue) /\ nx = head)
         /\ pc = "freed" => (victim \in Posting => Queue = <<>>)

Typed == /\ allocated \subseteq Cells /\ written \in Seq(1 .. MaxPosts)
         /\ running \subseteq Flows /\ gone \subseteq Flows
         /\ doomed \subseteq Destroyable /\ victim \in Destroyable \cup {NULL}
         /\ pc \in Pc /\ after \in {"wait", "request"}
         /\ p \in Cells \cup {NULL} /\ nx \in Cells \cup {NULL}
         /\ eintr \in BOOLEAN
         /\ pc \in {"write", "remove", "free", "peek", "match", "freerecord"} => p # NULL

IInv == Typed /\ ListOK /\ Accounted /\ Walks

-----------------------------------------------------------------------------
LEMMA Memory == /\ IsFiniteSet(Cells) /\ Cardinality(Cells) \in Nat /\ NULL \notin Cells
                /\ Posting \subseteq Flows /\ Destroyable \subseteq Flows /\ MaxPosts \in Nat
<1>1. IsFiniteSet(Cells)
  BY EventsAssumption
<1> QED
  BY <1>1, FS_CardinalityType, EventsAssumption

\* A list of different records is not longer than the memory.
LEMMA NotLonger ==
  ASSUME NEW q \in Seq(Cells), \A i, j \in 1 .. Len(q) : q[i] = q[j] => i = j
  PROVE  Len(q) <= Cardinality(Cells)
<1>1. q \in [1 .. Len(q) -> Cells] /\ Len(q) \in Nat
  OBVIOUS
<1>2. q \in Injection(1 .. Len(q), Cells)
  BY <1>1 DEF Injection, IsInjective
<1>3. Cardinality(1 .. Len(q)) <= Cardinality(Cells)
  BY <1>2, Memory, FS_Injection
<1>4. Cardinality(1 .. Len(q)) = Len(q)
  <2>1. Len(q) \in Int /\ 1 \in Int
    BY <1>1
  <2>2. Cardinality(1 .. Len(q)) = IF 1 > Len(q) THEN 0 ELSE Len(q) - 1 + 1
    BY <2>1, FS_Interval
  <2> QED
    BY <1>1, <2>2
<1> QED
  BY <1>3, <1>4

\* How ListFrom visits the records of a list, one in each round.
Visit(links, c, walk) ==
    [k \in 0 .. Cardinality(Cells) |->
        IF k = 0 THEN IF c = NULL THEN <<>> ELSE <<c>>
        ELSE LET w == walk[k - 1]
             IN IF w = <<>> \/ links[Last(w)] = NULL THEN w ELSE Append(w, links[Last(w)])]

Visited(q, k) == IF k + 1 <= Len(q) THEN SubSeq(q, 1, k + 1) ELSE q

LEMMA NextVisited ==
  ASSUME NEW links, NEW q, Linked(links, q), NEW k \in Nat \ {0}, NEW w,
         w = Visited(q, k - 1)
  PROVE  Visited(q, k) = IF w = <<>> \/ links[Last(w)] = NULL THEN w
                         ELSE Append(w, links[Last(w)])
<1> DEFINE m == Len(q)
<1>1. q \in Seq(Cells) /\ m \in Nat
  BY DEF Linked
<1>2. CASE k + 1 <= m
  <2>1. w = SubSeq(q, 1, k) /\ Visited(q, k) = SubSeq(q, 1, k + 1)
    BY <1>1, <1>2 DEF Visited
  <2>2. Len(w) = k /\ Last(w) = q[k] /\ w # <<>>
    BY <1>1, <1>2, <2>1 DEF Last
  <2>3. links[q[k]] = q[k + 1] /\ q[k + 1] # NULL
    BY <1>1, <1>2, Memory DEF Linked
  <2>4. SubSeq(q, 1, k + 1) = Append(SubSeq(q, 1, k), q[k + 1])
    BY <1>1, <1>2, SubSeqRecursiveSecond
  <2> QED
    BY <2>1, <2>2, <2>3, <2>4
<1>3. CASE k + 1 > m /\ m # 0
  <2>1. w = q /\ Visited(q, k) = q
    <3>1. CASE (k - 1) + 1 <= m
      <4>1. k = m
        BY <1>1, <1>3, <3>1
      <4> QED
        BY <1>1, <1>3, <4>1, SubSeqFull DEF Visited
    <3>2. CASE ~((k - 1) + 1 <= m)
      BY <1>1, <1>3, <3>2 DEF Visited
    <3> QED
      BY <3>1, <3>2
  <2>2. links[Last(w)] = NULL
    BY <1>1, <1>3, <2>1 DEF Last, Linked
  <2> QED
    BY <2>1, <2>2
<1>4. CASE m = 0
  <2>1. q = <<>> /\ w = q /\ Visited(q, k) = q
    BY <1>1, <1>4 DEF Visited
  <2> QED
    BY <2>1
<1> QED
  BY <1>1, <1>2, <1>3, <1>4

\* ListFrom finds the list that the links form.
LEMMA ListFound ==
  ASSUME NEW links, NEW q, Linked(links, q)
  PROVE  ListFrom(links, First(q)) = q
<1> DEFINE size == Cardinality(Cells)
           c == First(q)
           walk == CHOOSE walk : walk = Visit(links, c, walk)
           all == [k \in 0 .. size |-> Visited(q, k)]
<1>1. size \in Nat /\ q \in Seq(Cells) /\ Len(q) <= size
  BY Memory, NotLonger DEF Linked
<1>2. Visited(q, 0) = IF c = NULL THEN <<>> ELSE <<c>>
  <2>1. CASE q = <<>>
    BY <2>1 DEF Visited, First
  <2>2. CASE q # <<>>
    <3>1. Len(q) >= 1 /\ q[1] \in Cells /\ c = q[1]
      BY <1>1, <2>2 DEF First
    <3>2. SubSeq(q, 1, 1) = <<q[1]>>
      <4>1. 1 \in 1 .. Len(q) /\ 1 \in 1 .. Len(q) /\ 1 - 1 = 0
        BY <1>1, <3>1
      <4>2. SubSeq(q, 1, 1) = SubSeq(q, 1, 1 - 1) \o <<q[1]>>
        BY <1>1, <4>1, SubSeqRecursiveSecond
      <4>3. SubSeq(q, 1, 0) = <<>>
        BY SubSeqEmpty
      <4>4. <<>> \o <<q[1]>> = <<q[1]>>
        OBVIOUS
      <4> QED
        BY <4>1, <4>2, <4>3, <4>4
    <3> QED
      BY <3>1, <3>2, <1>1, Memory DEF Visited
  <2> QED
    BY <2>1, <2>2
<1> HIDE DEF size, c
<1>3. all = Visit(links, c, all)
  <2>1. ASSUME NEW k \in 0 .. size
        PROVE  all[k] = Visit(links, c, all)[k]
    <3>1. CASE k = 0
      BY <1>2, <2>1, <3>1 DEF Visit, size
    <3>2. CASE k # 0
      <4>1. k \in Nat \ {0} /\ k - 1 \in 0 .. size /\ all[k - 1] = Visited(q, k - 1)
        BY <1>1, <2>1, <3>2
      <4>2. Visited(q, k) = IF all[k - 1] = <<>> \/ links[Last(all[k - 1])] = NULL
                              THEN all[k - 1]
                            ELSE Append(all[k - 1], links[Last(all[k - 1])])
        BY <4>1, NextVisited
      <4> QED
        BY <2>1, <3>2, <4>2 DEF Visit, size
    <3> QED
      BY <3>1, <3>2
  <2> QED
    BY <2>1 DEF Visit, size
<1>4. walk = Visit(links, c, walk)
  BY <1>3
<1>5. ListFrom(links, c) = walk[size]
  BY DEF ListFrom, Visit, size
<1> HIDE DEF walk
<1>6. walk[0] = Visited(q, 0)
  <2>1. 0 \in 0 .. size
    BY <1>1
  <2>2. Visit(links, c, walk)[0] = IF c = NULL THEN <<>> ELSE <<c>>
    BY <2>1 DEF Visit, size
  <2> QED
    BY <1>2, <1>4, <2>2
<1>7. ASSUME NEW k \in 1 .. size, walk[k - 1] = Visited(q, k - 1)
      PROVE  walk[k] = Visited(q, k)
  <2>1. Visit(links, c, walk)[k] = IF walk[k - 1] = <<>> \/ links[Last(walk[k - 1])] = NULL
                                     THEN walk[k - 1]
                                   ELSE Append(walk[k - 1], links[Last(walk[k - 1])])
    BY <1>1, <1>7 DEF Visit, size
  <2>2. k \in Nat \ {0}
    BY <1>1
  <2>3. Visited(q, k) = IF walk[k - 1] = <<>> \/ links[Last(walk[k - 1])] = NULL
                          THEN walk[k - 1]
                        ELSE Append(walk[k - 1], links[Last(walk[k - 1])])
    BY <1>7, <2>2, NextVisited
  <2>4. walk[k] = Visit(links, c, walk)[k]
    BY <1>4, Zenon
  <2> QED
    BY <2>1, <2>3, <2>4
<1> DEFINE wrong == {k \in 0 .. size : walk[k] # Visited(q, k)}
<1>8. wrong = {}
  <2>1. SUFFICES ASSUME wrong # {}
                 PROVE  FALSE
    OBVIOUS
  <2>2. PICK k \in wrong : \A j \in wrong : k <= j
    <3>1. wrong \in SUBSET Nat
      BY <1>1
    <3> HIDE DEF wrong
    <3> QED
      BY <2>1, <3>1, LeastElement
  <2>3. k \in 1 .. size /\ k - 1 \in 0 .. size /\ ~(k <= k - 1)
    BY <1>1, <1>6, <2>2
  <2>4. k - 1 \notin wrong
    BY <2>2, <2>3
  <2> QED
    BY <1>7, <2>2, <2>3, <2>4
<1>9. walk[size] = Visited(q, size) /\ Visited(q, size) = q
  BY <1>1, <1>8 DEF Visited
<1> QED
  BY <1>5, <1>9 DEF c

-----------------------------------------------------------------------------
(* What the two operations do to a list.                                     *)
LEMMA SetOfAppend ==
  ASSUME NEW q \in Seq(Cells), NEW e \in Cells
  PROVE  /\ Append(q, e) \in Seq(Cells) /\ Len(Append(q, e)) = Len(q) + 1
         /\ \A i \in 1 .. Len(q) : Append(q, e)[i] = q[i]
         /\ Append(q, e)[Len(q) + 1] = e /\ Append(q, e) # <<>>
         /\ ToSet(Append(q, e)) = ToSet(q) \cup {e}
<1>1. /\ Append(q, e) \in Seq(Cells) /\ Len(Append(q, e)) = Len(q) + 1
      /\ \A i \in 1 .. Len(q) : Append(q, e)[i] = q[i]
      /\ Append(q, e)[Len(q) + 1] = e /\ Append(q, e) # <<>>
  BY AppendProperties
<1>2. /\ DOMAIN q = 1 .. Len(q) /\ Len(q) \in Nat
      /\ DOMAIN Append(q, e) = 1 .. Len(q) + 1
  BY <1>1
<1>3. \A i \in 1 .. Len(q) + 1 : i \in 1 .. Len(q) \/ i = Len(q) + 1
  BY <1>2
<1>4. \A i \in 1 .. Len(q) : i \in 1 .. Len(q) + 1
  BY <1>2
<1>5. Len(q) + 1 \in 1 .. Len(q) + 1
  BY <1>2
<1> DEFINE more == Append(q, e)
           m == Len(q)
<1>6. ToSet(more) = {more[i] : i \in 1 .. m + 1} /\ ToSet(q) = {q[i] : i \in 1 .. m}
  BY <1>2 DEF ToSet
<1>7. (\A i \in 1 .. m : more[i] = q[i]) /\ more[m + 1] = e
  BY <1>1
<1> HIDE DEF more, m
<1>8. ToSet(more) = ToSet(q) \cup {e}
  BY <1>3, <1>4, <1>5, <1>6, <1>7 DEF m
<1> QED
  BY <1>1, <1>8 DEF more

LEMMA SetOfTail ==
  ASSUME NEW q \in Seq(Cells), q # <<>>, \A i, j \in 1 .. Len(q) : q[i] = q[j] => i = j
  PROVE  /\ Tail(q) \in Seq(Cells) /\ Len(Tail(q)) = Len(q) - 1 /\ Len(q) >= 1
         /\ \A i \in 1 .. Len(q) - 1 : Tail(q)[i] = q[i + 1]
         /\ q[1] \in Cells /\ q[1] \in ToSet(q)
         /\ ToSet(Tail(q)) = ToSet(q) \ {q[1]}
<1>1. /\ Tail(q) \in Seq(Cells) /\ Len(Tail(q)) = Len(q) - 1 /\ Len(q) >= 1
      /\ \A i \in 1 .. Len(q) - 1 : Tail(q)[i] = q[i + 1]
      /\ Len(q) \in Nat
  BY HeadTailProperties
<1>2. DOMAIN q = 1 .. Len(q) /\ DOMAIN Tail(q) = 1 .. Len(q) - 1
  BY <1>1
<1>3. q[1] \in Cells /\ q[1] \in ToSet(q)
  <2>1. 1 \in 1 .. Len(q)
    BY <1>1
  <2> QED
    BY <1>2, <2>1 DEF ToSet
<1> DEFINE rest == Tail(q)
           m == Len(q)
<1>4. /\ ToSet(rest) = {rest[i] : i \in 1 .. m - 1} /\ ToSet(q) = {q[i] : i \in 1 .. m}
      /\ m \in Nat /\ m >= 1
      /\ \A i \in 1 .. m - 1 : rest[i] = q[i + 1]
      /\ \A i, j \in 1 .. m : q[i] = q[j] => i = j
  BY <1>1, <1>2 DEF ToSet
<1> HIDE DEF rest, m
<1>5. ASSUME NEW c \in ToSet(rest) PROVE c \in ToSet(q) \ {q[1]}
  <2>1. PICK i \in 1 .. m - 1 : c = rest[i]
    BY <1>4, <1>5
  <2>2. i + 1 \in 1 .. m /\ 1 \in 1 .. m /\ i + 1 # 1 /\ c = q[i + 1]
    BY <1>4, <2>1
  <2> QED
    BY <1>4, <2>2
<1>6. ASSUME NEW c \in ToSet(q) \ {q[1]} PROVE c \in ToSet(rest)
  <2>1. PICK i \in 1 .. m : c = q[i]
    BY <1>4, <1>6
  <2>2. i # 1
    BY <1>6, <2>1
  <2>3. i - 1 \in 1 .. m - 1 /\ (i - 1) + 1 = i
    BY <1>4, <2>2
  <2>4. rest[i - 1] = c
    BY <1>4, <2>1, <2>3
  <2>5. rest[i - 1] \in {rest[k] : k \in 1 .. m - 1}
    BY <2>3
  <2> QED
    BY <1>4, <2>4, <2>5
<1>7. ToSet(rest) = ToSet(q) \ {q[1]}
  BY <1>5, <1>6
<1> QED
  BY <1>1, <1>3, <1>7 DEF rest

LEMMA Appended ==
  ASSUME NEW q, next \in [Cells -> Cells \cup {NULL}], prev \in [Cells -> Cells \cup {NULL}],
         Chain(next, prev, head, tail, q),
         NEW e \in Cells, e \notin ToSet(q), AddToEventQueue(e)
  PROVE  /\ next' \in [Cells -> Cells \cup {NULL}] /\ prev' \in [Cells -> Cells \cup {NULL}]
         /\ Chain(next', prev', head', tail', Append(q, e))
<1> DEFINE m == Len(q)
           more == Append(q, e)
<1>1. q \in Seq(Cells) /\ m \in Nat /\ \A i \in 1 .. m : q[i] \in Cells
  BY DEF Chain, Linked
<1>2. /\ more \in Seq(Cells) /\ Len(more) = m + 1 /\ more # <<>>
      /\ (\A i \in 1 .. m : more[i] = q[i]) /\ more[m + 1] = e
  BY <1>1, SetOfAppend
<1>3. \A i \in 1 .. m : q[i] # e
  <2>1. DOMAIN q = 1 .. m
    BY <1>1
  <2> QED
    BY <2>1 DEF ToSet
<1>4. \A i \in 1 .. m + 1 : i \in 1 .. m \/ i = m + 1
  BY <1>1
<1>5. q = <<>> <=> m = 0
  BY <1>1
<1>6. NULL \notin Cells
  BY Memory
<1> HIDE DEF m, more
<1>7. CASE q = <<>>
  <2>1. tail = NULL /\ m = 0 /\ more[1] = e
    BY <1>2, <1>5, <1>7 DEF Chain
  <2>2. /\ next' = [next EXCEPT ![e] = NULL] /\ prev' = [prev EXCEPT ![e] = NULL]
        /\ head' = e /\ tail' = e
    BY <2>1 DEF AddToEventQueue
  <2>3. \A i \in 1 .. Len(more) : i = 1 /\ more[i] = e
    BY <1>2, <2>1
  <2>4. next'[e] = NULL /\ prev'[e] = NULL
    BY <2>2
  <2>5. Linked(next', more)
    BY <1>2, <2>1, <2>3, <2>4 DEF Linked
  <2>6. Chain(next', prev', head', tail', more)
    BY <1>2, <2>1, <2>2, <2>3, <2>4, <2>5 DEF Chain, First
  <2> QED
    BY <2>2, <2>6 DEF more
<1>8. CASE q # <<>>
  <2>1. m \in 1 .. m /\ 1 \in 1 .. m /\ m # 0
    BY <1>1, <1>5, <1>8
  <2>2. tail = q[m] /\ head = q[1] /\ q[m] \in Cells /\ q[m] # e /\ q[m] # NULL
    BY <1>1, <1>3, <1>6, <1>8, <2>1 DEF Chain, First, m
  <2>3. /\ next' = [next EXCEPT ![q[m]] = e, ![e] = NULL]
        /\ prev' = [prev EXCEPT ![e] = q[m]]
        /\ head' = head /\ tail' = e
    BY <2>2 DEF AddToEventQueue
  <2>4. /\ next'[e] = NULL /\ next'[q[m]] = e /\ prev'[e] = q[m]
        /\ \A c \in Cells : c # e => prev'[c] = prev[c]
        /\ \A c \in Cells : c # e /\ c # q[m] => next'[c] = next[c]
    BY <2>2, <2>3
  <2>5. ASSUME NEW i \in 1 .. m + 1
        PROVE  /\ next'[more[i]] = IF i = m + 1 THEN NULL ELSE more[i + 1]
               /\ prev'[more[i]] = IF i = 1 THEN NULL ELSE more[i - 1]
    <3>1. CASE i = m + 1
      <4>1. i - 1 = m /\ i # 1
        BY <1>1, <2>1, <3>1
      <4> QED
        BY <1>2, <2>1, <2>4, <3>1, <4>1
    <3>2. CASE i = m
      <4>1. i + 1 = m + 1 /\ i # m + 1 /\ i \in 1 .. m
        BY <1>1, <2>1, <3>2
      <4>2. prev[q[m]] = IF m = 1 THEN NULL ELSE q[m - 1]
        BY <2>1 DEF Chain, m
      <4>3. m # 1 => (m - 1 \in 1 .. m)
        BY <1>1, <2>1
      <4> QED
        BY <1>2, <2>1, <2>2, <2>4, <3>2, <4>1, <4>2, <4>3
    <3>3. CASE i # m /\ i # m + 1
      <4>1. i \in 1 .. m /\ i + 1 \in 1 .. m /\ (i # 1 => i - 1 \in 1 .. m)
        BY <1>1, <1>4, <3>3
      <4>2. q[i] # q[m]
        BY <2>1, <3>3, <4>1 DEF Chain, Linked, m
      <4>3. next[q[i]] = q[i + 1] /\ prev[q[i]] = IF i = 1 THEN NULL ELSE q[i - 1]
        BY <3>3, <4>1 DEF Chain, Linked, m
      <4>4. next'[q[i]] = next[q[i]] /\ prev'[q[i]] = prev[q[i]]
        BY <1>1, <1>3, <2>4, <4>1, <4>2
      <4> QED
        BY <1>2, <3>3, <4>1, <4>3, <4>4
    <3> QED
      BY <3>1, <3>2, <3>3
  <2>6. ASSUME NEW i \in 1 .. m + 1, NEW j \in 1 .. m + 1, more[i] = more[j]
        PROVE  i = j
    <3>1. CASE i \in 1 .. m /\ j \in 1 .. m
      BY <1>2, <2>6, <3>1 DEF Chain, Linked, m
    <3>2. CASE i = m + 1 \/ j = m + 1
      BY <1>2, <1>3, <1>4, <2>6, <3>2
    <3> QED
      BY <1>4, <3>1, <3>2
  <2>7. Linked(next', more)
    BY <1>2, <2>5, <2>6 DEF Linked
  <2>8. head' = First(more) /\ tail' = more[Len(more)]
    BY <1>2, <2>1, <2>2, <2>3 DEF First
  <2>9. Chain(next', prev', head', tail', more)
    BY <1>2, <2>5, <2>7, <2>8 DEF Chain
  <2> QED
    BY <2>2, <2>3, <2>9 DEF more
<1> QED
  BY <1>7, <1>8

LEMMA HeadRemoved ==
  ASSUME NEW q, next \in [Cells -> Cells \cup {NULL}], prev \in [Cells -> Cells \cup {NULL}],
         Chain(next, prev, head, tail, q), q # <<>>, RemoveFromQueue(q[1])
  PROVE  /\ next' \in [Cells -> Cells \cup {NULL}] /\ prev' \in [Cells -> Cells \cup {NULL}]
         /\ Chain(next', prev', head', tail', Tail(q))
         /\ next[q[1]] = First(Tail(q)) /\ UNCHANGED <<next, event>>
<1> DEFINE m == Len(q)
           rest == Tail(q)
<1>1. /\ q \in Seq(Cells) /\ m \in Nat /\ m >= 1 /\ \A i \in 1 .. m : q[i] \in Cells
      /\ \A i, j \in 1 .. m : q[i] = q[j] => i = j
  BY DEF Chain, Linked
<1>2. /\ rest \in Seq(Cells) /\ Len(rest) = m - 1
      /\ \A i \in 1 .. m - 1 : rest[i] = q[i + 1]
  BY <1>1, SetOfTail
<1>3. 1 \in 1 .. m /\ m \in 1 .. m
  BY <1>1
<1>4. NULL \notin Cells
  BY Memory
<1> HIDE DEF m, rest
<1>5. rest = <<>> <=> m = 1
  <2>1. rest = <<>> <=> Len(rest) = 0
    BY <1>2, EmptySeq
  <2> QED
    BY <1>1, <1>2, <2>1
<1>6. /\ prev[q[1]] = NULL /\ next[q[1]] = IF m = 1 THEN NULL ELSE q[2]
      /\ tail = q[m]
  <2>1. 1 + 1 = 2
    OBVIOUS
  <2> QED
    BY <1>3, <2>1 DEF Chain, Linked, m
<1>7. next[q[1]] = First(rest)
  <2>1. m # 1 => 1 \in 1 .. m - 1 /\ 1 + 1 = 2
    BY <1>1
  <2> QED
    BY <1>2, <1>5, <1>6, <2>1 DEF First
<1>8. /\ next' = next /\ head' = First(rest) /\ event' = event
      /\ prev' = IF m # 1 THEN [prev EXCEPT ![q[2]] = NULL] ELSE prev
      /\ tail' = IF m = 1 THEN NULL ELSE tail
  <2>1. m # 1 => 2 \in 1 .. m
    BY <1>1
  <2>2. m # 1 => q[2] \in Cells /\ q[2] # NULL
    BY <1>1, <1>4, <2>1
  <2> QED
    BY <1>6, <1>7, <2>2 DEF RemoveFromQueue
<1>9. ASSUME NEW i \in 1 .. m - 1
      PROVE  /\ next[rest[i]] = IF i = m - 1 THEN NULL ELSE rest[i + 1]
             /\ prev'[rest[i]] = IF i = 1 THEN NULL ELSE rest[i - 1]
  <2>1. i + 1 \in 1 .. m /\ m # 1 /\ 2 \in 1 .. m /\ i + 1 # 1
    BY <1>1
  <2>2. rest[i] = q[i + 1] /\ q[i + 1] \in Cells
    BY <1>1, <1>2, <2>1
  <2>3. next[q[i + 1]] = IF i + 1 = m THEN NULL ELSE q[(i + 1) + 1]
    BY <2>1 DEF Chain, Linked, m
  <2>4. next[rest[i]] = IF i = m - 1 THEN NULL ELSE rest[i + 1]
    <3>1. CASE i = m - 1
      <4>1. i + 1 = m
        BY <1>1, <3>1
      <4> QED
        BY <2>2, <2>3, <3>1, <4>1
    <3>2. CASE i # m - 1
      <4>1. i + 1 # m /\ i + 1 \in 1 .. m - 1
        BY <1>1, <3>2
      <4> QED
        BY <1>2, <2>2, <2>3, <3>2, <4>1
    <3> QED
      BY <3>1, <3>2
  <2>5. CASE i = 1
    <3>1. prev'[q[2]] = NULL
      BY <1>1, <1>8, <2>1
    <3>2. i + 1 = 2
      BY <2>5
    <3> QED
      BY <2>2, <2>4, <2>5, <3>1, <3>2
  <2>6. CASE i # 1
    <3>1. i + 1 # 2 /\ i - 1 \in 1 .. m - 1 /\ (i + 1) - 1 = (i - 1) + 1
      BY <1>1, <2>6
    <3>2. q[i + 1] # q[2]
      BY <1>1, <2>1, <3>1
    <3>3. prev[q[i + 1]] = q[(i + 1) - 1]
      BY <2>1 DEF Chain, m
    <3>4. prev'[q[i + 1]] = prev[q[i + 1]]
      BY <1>8, <2>2, <3>2
    <3> QED
      BY <1>2, <2>2, <2>4, <2>6, <3>1, <3>3, <3>4
  <2> QED
    BY <2>5, <2>6
<1>10. ASSUME NEW i \in 1 .. m - 1, NEW j \in 1 .. m - 1, rest[i] = rest[j]
       PROVE  i = j
  <2>1. i + 1 \in 1 .. m /\ j + 1 \in 1 .. m
    BY <1>1
  <2>2. i + 1 = j + 1
    BY <1>1, <1>2, <1>10, <2>1
  <2> QED
    BY <2>2
<1>11. Linked(next', rest)
  BY <1>2, <1>8, <1>9, <1>10 DEF Linked
<1>12. tail' = IF rest = <<>> THEN NULL ELSE rest[Len(rest)]
  <2>1. m # 1 => m - 1 \in 1 .. m - 1 /\ (m - 1) + 1 = m
    BY <1>1
  <2> QED
    BY <1>2, <1>5, <1>6, <1>8, <2>1
<1>13. Chain(next', prev', head', tail', rest)
  BY <1>2, <1>8, <1>9, <1>11, <1>12 DEF Chain
<1>14. prev' \in [Cells -> Cells \cup {NULL}]
  BY <1>8
<1> QED
  BY <1>7, <1>8, <1>13, <1>14 DEF rest

-----------------------------------------------------------------------------
(* What the three kinds of step do to the queue.                             *)
LEMMA QueueIs ==
  ASSUME NEW q, Chain(next', prev', head', tail', q)
  PROVE  Queue' = q
<1>1. Linked(next', q) /\ head' = First(q)
  BY DEF Chain
<1>2. ListFrom(next', First(q)) = q
  BY <1>1, ListFound
<1> QED
  BY <1>1, <1>2 DEF Queue

LEMMA QueueTyped ==
  ASSUME ListOK
  PROVE  /\ Queue \in Seq(Cells) /\ Len(Queue) \in Nat /\ DOMAIN Queue = 1 .. Len(Queue)
         /\ \A i, j \in 1 .. Len(Queue) : Queue[i] = Queue[j] => i = j
         /\ ToSet(Queue) \subseteq Cells
         /\ Queue = <<>> => head = NULL
         /\ Queue # <<>> => (/\ head = Queue[1] /\ head \in ToSet(Queue) /\ head \in Cells
                             /\ head # NULL)
         /\ head = NULL <=> Queue = <<>>
         /\ head \in Cells \cup {NULL} /\ tail \in Cells \cup {NULL}
<1>1. /\ Queue \in Seq(Cells) /\ \A i, j \in 1 .. Len(Queue) : Queue[i] = Queue[j] => i = j
      /\ head = First(Queue) /\ tail = IF Queue = <<>> THEN NULL ELSE Queue[Len(Queue)]
  BY DEF ListOK, Chain, Linked
<1>2. Len(Queue) \in Nat /\ DOMAIN Queue = 1 .. Len(Queue)
  BY <1>1
<1>3. \A i \in 1 .. Len(Queue) : Queue[i] \in Cells
  BY <1>1, ElementOfSeq
<1>4. ToSet(Queue) \subseteq Cells
  BY <1>2, <1>3 DEF ToSet
<1>5. ASSUME Queue # <<>>
      PROVE  /\ head = Queue[1] /\ head \in ToSet(Queue) /\ head \in Cells /\ head # NULL
             /\ tail \in Cells
  <2>1. Len(Queue) # 0
    BY <1>1, <1>5, EmptySeq
  <2>2. 1 \in 1 .. Len(Queue) /\ Len(Queue) \in 1 .. Len(Queue)
    BY <1>2, <2>1
  <2> QED
    BY <1>1, <1>2, <1>3, <1>5, <2>2, Memory DEF ToSet, First
<1>6. Queue = <<>> => head = NULL /\ tail = NULL
  BY <1>1 DEF First
<1> QED
  BY <1>1, <1>2, <1>4, <1>5, <1>6

LEMMA Kept ==
  ASSUME ListOK, UNCHANGED <<next, prev, event, head, tail, log>>
  PROVE  ListOK' /\ Queue' = Queue
<1>1. Queue' = Queue
  BY DEF Queue
<1>2. next' = next /\ prev' = prev /\ event' = event /\ head' = head /\ tail' = tail /\ log' = log
  OBVIOUS
<1> QED
  BY <1>1, <1>2 DEF ListOK

LEMMA Posted ==
  ASSUME ListOK, ToSet(Queue) \subseteq allocated,
         NEW f \in Posting, AuRequestElementNotifyEvent(f)
  PROVE  /\ ListOK' /\ log' = Append(log, f)
         /\ \E e \in Cells \ allocated :
              /\ Queue' = Append(Queue, e) /\ allocated' = allocated \cup {e}
              /\ ToSet(Queue') = ToSet(Queue) \cup {e}
              /\ event'[e] = Len(log) + 1 /\ log'[event'[e]] = f
              /\ next' \in [Cells -> Cells \cup {NULL}]
         /\ \A c \in ToSet(Queue) : event'[c] = event[c] /\ log'[event'[c]] = log[event[c]]
         /\ Queue # <<>> => (Queue'[1] = Queue[1] /\ head' = head)
<1>1. PICK e \in Cells \ allocated :
        /\ allocated' = allocated \cup {e} /\ event' = [event EXCEPT ![e] = Len(log) + 1]
        /\ AddToEventQueue(e) /\ log' = Append(log, f) /\ Len(log) < MaxPosts
  BY DEF AuRequestElementNotifyEvent
<1>2. /\ next \in [Cells -> Cells \cup {NULL}] /\ prev \in [Cells -> Cells \cup {NULL}]
      /\ event \in [Cells -> 0 .. MaxPosts] /\ Chain(next, prev, head, tail, Queue)
      /\ log \in Seq(Posting) /\ \A c \in ToSet(Queue) : event[c] \in 1 .. Len(log)
  BY DEF ListOK
<1>3. /\ next' \in [Cells -> Cells \cup {NULL}] /\ prev' \in [Cells -> Cells \cup {NULL}]
      /\ Chain(next', prev', head', tail', Append(Queue, e))
  <2>1. e \in Cells /\ e \notin ToSet(Queue)
    BY <1>1
  <2> QED
    BY <1>1, <1>2, <2>1, Appended
<1>4. Queue' = Append(Queue, e)
  BY <1>3, QueueIs
<1>5. Queue \in Seq(Cells) /\ ToSet(Queue) \subseteq Cells
  BY QueueTyped
<1>6. /\ ToSet(Queue') = ToSet(Queue) \cup {e} /\ Queue' # <<>>
      /\ \A i \in 1 .. Len(Queue) : Queue'[i] = Queue[i]
  BY <1>4, <1>5, SetOfAppend
<1>7. /\ log' \in Seq(Posting) /\ Len(log') = Len(log) + 1 /\ log'[Len(log) + 1] = f
      /\ \A i \in 1 .. Len(log) : log'[i] = log[i]
      /\ Len(log) \in Nat
  BY <1>1, <1>2, AppendProperties
<1>8. event'[e] = Len(log) + 1 /\ \A c \in ToSet(Queue) : event'[c] = event[c]
  BY <1>1, <1>2, <1>5
<1>9. event' \in [Cells -> 0 .. MaxPosts] /\ Len(log') <= MaxPosts
  <2>1. Len(log) + 1 \in 0 .. MaxPosts
    BY <1>1, <1>7, Memory
  <2> QED
    BY <1>1, <1>2, <1>7, <2>1
<1>10. \A c \in ToSet(Queue') : event'[c] \in 1 .. Len(log')
  <2>1. Len(log) + 1 \in 1 .. Len(log') /\ \A k \in 1 .. Len(log) : k \in 1 .. Len(log')
    BY <1>7
  <2> QED
    BY <1>2, <1>6, <1>8, <2>1
<1>11. ListOK'
  BY <1>3, <1>4, <1>7, <1>9, <1>10 DEF ListOK
<1>12. Queue # <<>> => (Queue'[1] = Queue[1] /\ head' = head)
  <2>1. ASSUME Queue # <<>> PROVE Queue'[1] = Queue[1] /\ head' = head
    <3>1. Len(Queue) # 0 /\ Len(Queue) \in Nat /\ head = Queue[1]
      BY <1>5, <2>1, EmptySeq, QueueTyped
    <3>2. 1 \in 1 .. Len(Queue)
      BY <3>1
    <3>3. head' = First(Queue')
      BY <1>11 DEF ListOK, Chain
    <3> QED
      BY <1>6, <3>1, <3>2, <3>3 DEF First
  <2> QED
    BY <2>1
<1> QED
  BY <1>1, <1>2, <1>3, <1>4, <1>6, <1>7, <1>8, <1>11, <1>12

LEMMA Removed ==
  ASSUME ListOK, Queue # <<>>, NEW c, c = Queue[1], RemoveFromQueue(c), UNCHANGED log
  PROVE  /\ ListOK' /\ Queue' = Tail(Queue)
         /\ ToSet(Queue') = ToSet(Queue) \ {c} /\ c \in ToSet(Queue)
         /\ next[c] = head' /\ event' = event
<1>1. /\ next \in [Cells -> Cells \cup {NULL}] /\ prev \in [Cells -> Cells \cup {NULL}]
      /\ event \in [Cells -> 0 .. MaxPosts] /\ Chain(next, prev, head, tail, Queue)
  BY DEF ListOK
<1>2. /\ next' \in [Cells -> Cells \cup {NULL}] /\ prev' \in [Cells -> Cells \cup {NULL}]
      /\ Chain(next', prev', head', tail', Tail(Queue))
      /\ next[c] = First(Tail(Queue)) /\ next' = next /\ event' = event
  BY <1>1, HeadRemoved
<1>3. Queue' = Tail(Queue)
  BY <1>2, QueueIs
<1>4. ToSet(Queue') = ToSet(Queue) \ {c} /\ c \in ToSet(Queue)
  BY <1>3, QueueTyped, SetOfTail
<1>5. head' = First(Tail(Queue))
  BY <1>2 DEF Chain
<1>6. ListOK'
  BY <1>2, <1>3, <1>4 DEF ListOK
<1> QED
  BY <1>2, <1>3, <1>4, <1>5, <1>6

-----------------------------------------------------------------------------
(* Every action keeps the invariant.                                         *)
LEMMA InterruptKeeps ==
  ASSUME OnePoster, IInv, Interrupt
  PROVE  IInv'
<1>1. /\ eintr' = (pc = "select" \/ eintr)
      /\ UNCHANGED <<written, gone, doomed, victim, pc, after, p, nx>>
  BY DEF Interrupt, mainVars, walkVars
<1>2. eintr' \in BOOLEAN
  BY <1>1 DEF IInv, Typed
<1>3. CASE UNCHANGED <<queueVars, log, running>>
  <2>1. UNCHANGED <<next, prev, event, allocated, head, tail, log, running>>
    BY <1>3 DEF queueVars
  <2>2. ListOK' /\ Queue' = Queue
    BY <2>1, Kept DEF IInv
  <2> QED
    BY <1>1, <1>2, <2>1, <2>2 DEF IInv, Typed, Accounted, Walks, InHand
<1>4. CASE \E f \in running \cap Posting : /\ AuRequestElementNotifyEvent(f)
                                           /\ running' \in {running, running \ {f}}
  <2>1. PICK f \in running \cap Posting :
          AuRequestElementNotifyEvent(f) /\ running' \in {running, running \ {f}}
    BY <1>4
  <2>2. /\ ListOK' /\ log' = Append(log, f)
        /\ \E e \in Cells \ allocated :
             /\ Queue' = Append(Queue, e) /\ allocated' = allocated \cup {e}
             /\ ToSet(Queue') = ToSet(Queue) \cup {e}
             /\ event'[e] = Len(log) + 1 /\ log'[event'[e]] = f
        /\ \A c \in ToSet(Queue) : event'[c] = event[c] /\ log'[event'[c]] = log[event[c]]
        /\ Queue # <<>> => (Queue'[1] = Queue[1] /\ head' = head)
    <3>1. ListOK /\ ToSet(Queue) \subseteq allocated /\ f \in Posting
      BY <2>1 DEF IInv, Accounted
    <3> QED
      BY <2>1, <3>1, Posted
  <2>3. PICK e \in Cells \ allocated :
             /\ Queue' = Append(Queue, e) /\ allocated' = allocated \cup {e}
             /\ ToSet(Queue') = ToSet(Queue) \cup {e} /\ log'[event'[e]] = f
    BY <2>2
  <2>4. Typed'
    <3>1. allocated' \subseteq Cells /\ running' \subseteq Flows
      BY <2>1, <2>3 DEF IInv, Typed
    <3> QED
      BY <1>1, <1>2, <3>1 DEF IInv, Typed
  <2>5. f \notin gone
    BY <2>1 DEF IInv, Accounted
  <2>6. Accounted'
    <3>1. allocated' = ToSet(Queue') \cup InHand'
      BY <1>1, <2>3 DEF IInv, Accounted, InHand
    <3>2. \A c \in ToSet(Queue') : log'[event'[c]] \notin gone'
      <4> SUFFICES ASSUME NEW c \in ToSet(Queue') PROVE log'[event'[c]] \notin gone
        BY <1>1
      <4>1. c \in ToSet(Queue) => log'[event'[c]] = log[event[c]] /\ log[event[c]] \notin gone
        BY <2>2 DEF IInv, Accounted
      <4>2. c \in ToSet(Queue) \/ c = e
        BY <2>3
      <4> QED
        BY <2>3, <2>5, <4>1, <4>2
    <3>3. running' \cap gone' = {}
      BY <1>1, <2>1 DEF IInv, Accounted
    <3> QED
      BY <3>1, <3>2, <3>3 DEF Accounted
  <2>7. pc \in {"dequeue", "peek", "match", "freerecord", "freed"} => victim \notin Posting
    BY <2>1 DEF IInv, Walks, OnePoster
  <2>8. p \in allocated /\ pc \in {"free", "freerecord"} => p \notin ToSet(Queue')
    <3>1. pc \in {"free", "freerecord"} => p \notin ToSet(Queue)
      BY DEF IInv, Walks
    <3> QED
      BY <2>3, <3>1
  <2>9. pc \in {"free", "freerecord"} => p \in allocated
    BY DEF IInv, Accounted, InHand
  <2>10. pc = "free" => nx \in {NULL, head'}
    <3>1. ListOK
      BY DEF IInv
    <3> QED
      BY <2>2, <3>1, QueueTyped DEF IInv, Walks
  <2>11. Queue # <<>> => Queue' # <<>>
    <3>1. Queue' # <<>>
      BY <2>3, QueueTyped, SetOfAppend DEF IInv
    <3> QED
      BY <3>1
  <2>12. Walks'
    <3>1. pc \in {"write", "remove"} => (Queue' # <<>> /\ p = Queue'[1])
      BY <2>2, <2>11 DEF IInv, Walks
    <3>2. pc = "free" => (p \notin ToSet(Queue') /\ nx \in {NULL, head'})
      BY <2>8, <2>9, <2>10
    <3>3. pc \in {"dequeue", "peek", "match", "freerecord", "freed"}
            => (victim \in Destroyable /\ victim \notin running')
      BY <2>1 DEF IInv, Walks
    <3>4. pc \in {"peek", "match"} => p \in ToSet(Queue')
      BY <2>3 DEF IInv, Walks
    <3>5. pc = "match" => nx \in ToSet(Queue') \cup {NULL}
      BY <2>3 DEF IInv, Walks
    <3>6. pc # "freerecord"
      BY <2>7 DEF IInv, Walks
    <3> QED
      BY <1>1, <2>7, <3>1, <3>2, <3>3, <3>4, <3>5, <3>6 DEF Walks
  <2> QED
    BY <2>2, <2>4, <2>6, <2>12 DEF IInv
<1> QED
  BY <1>3, <1>4 DEF Interrupt

\* The steps that leave the list alone.
Quiet == \/ ProcessAudioEvents \/ WriteAuEventsToClient \/ FreeWritten
         \/ WaitForSomething \/ SelectInterrupted \/ SelectReady
         \/ OtherRequest \/ DestroyRequest
         \/ AuDequeueEvents \/ PeekNext \/ SkipOther \/ FreeDequeued \/ FlowFreed

LEMMA QuietKeepsList ==
  ASSUME IInv, Quiet
  PROVE  /\ ListOK' /\ Queue' = Queue
         /\ UNCHANGED <<next, prev, event, head, tail, log>>
<1>1. UNCHANGED <<next, prev, event, head, tail, log>>
  BY DEF Quiet, ProcessAudioEvents, WriteAuEventsToClient, FreeWritten,
         WaitForSomething, SelectInterrupted, SelectReady, OtherRequest, DestroyRequest,
         AuDequeueEvents, PeekNext, SkipOther, FreeDequeued, FlowFreed, queueVars
<1> QED
  BY <1>1, Kept DEF IInv

LEMMA RoundKeeps ==
  ASSUME IInv, ProcessAudioEvents \/ WriteAuEventsToClient \/ FreeWritten
  PROVE  IInv'
<1>1. /\ ListOK' /\ Queue' = Queue /\ ListOK
      /\ UNCHANGED <<next, prev, event, head, tail, log>>
  BY QuietKeepsList DEF Quiet, IInv
<1>2. /\ Queue \in Seq(Cells) /\ ToSet(Queue) \subseteq Cells /\ (head = NULL <=> Queue = <<>>)
      /\ Queue # <<>> => (/\ head = Queue[1] /\ head \in ToSet(Queue) /\ head \in Cells
                          /\ head # NULL)
      /\ head \in Cells \cup {NULL}
  BY <1>1, QueueTyped
<1>3. CASE ProcessAudioEvents
  <2>1. /\ pc = "process" /\ p' = head /\ pc' = IF head = NULL THEN after ELSE "write"
        /\ UNCHANGED <<allocated, written, running, gone, doomed, victim, after, nx, eintr>>
    BY <1>3 DEF ProcessAudioEvents, queueVars, flowVars
  <2>2. after \in {"wait", "request"}
    BY DEF IInv, Typed
  <2>3. Typed'
    BY <1>2, <2>1, <2>2 DEF IInv, Typed, Pc
  <2>4. Accounted'
    BY <1>1, <2>1, <2>2 DEF IInv, Accounted, InHand
  <2>5. Walks'
    BY <1>1, <1>2, <2>1, <2>2 DEF Walks
  <2> QED
    BY <1>1, <2>3, <2>4, <2>5 DEF IInv
<1>4. CASE WriteAuEventsToClient
  <2>1. /\ pc = "write" /\ pc' = "remove" /\ written' = Append(written, event[p])
        /\ UNCHANGED <<allocated, running, gone, doomed, victim, after, p, nx, eintr>>
    BY <1>4 DEF WriteAuEventsToClient, queueVars, flowVars, walkVars
  <2>2. p = Queue[1] /\ Queue # <<>>
    BY <2>1 DEF IInv, Walks
  <2>3. event[p] \in 1 .. MaxPosts
    <3>1. p \in ToSet(Queue)
      BY <1>2, <2>2
    <3>2. event[p] \in 1 .. Len(log) /\ Len(log) <= MaxPosts /\ log \in Seq(Posting)
      BY <1>1, <3>1 DEF ListOK
    <3>3. Len(log) \in Nat
      BY <3>2
    <3> QED
      BY <3>2, <3>3, Memory
  <2>4. written' \in Seq(1 .. MaxPosts)
    BY <2>1, <2>3, AppendProperties DEF IInv, Typed
  <2>5. Typed'
    BY <2>1, <2>4 DEF IInv, Typed, Pc
  <2>6. Accounted' /\ Walks'
    BY <1>1, <2>1, <2>2 DEF IInv, Accounted, InHand, Walks
  <2> QED
    BY <1>1, <2>5, <2>6 DEF IInv
<1>5. CASE FreeWritten
  <2>1. /\ pc = "free" /\ allocated' = allocated \ {p} /\ p' = nx
        /\ pc' = IF nx = NULL THEN after ELSE "write"
        /\ UNCHANGED <<written, running, gone, doomed, victim, after, nx, eintr>>
    BY <1>5 DEF FreeWritten, flowVars
  <2>2. after \in {"wait", "request"} /\ p \notin ToSet(Queue) /\ nx \in {NULL, head}
    BY <2>1 DEF IInv, Typed, Walks
  <2>3. Typed'
    BY <2>1, <2>2 DEF IInv, Typed, Pc
  <2>4. Accounted'
    <3>1. allocated' = ToSet(Queue)
      BY <2>1, <2>2 DEF IInv, Accounted, InHand
    <3> QED
      BY <1>1, <2>1, <2>2, <3>1 DEF IInv, Accounted, InHand
  <2>5. nx # NULL => (Queue # <<>> /\ nx = Queue[1])
    BY <1>2, <2>2
  <2>6. Walks'
    BY <1>1, <2>1, <2>2, <2>5 DEF Walks
  <2> QED
    BY <1>1, <2>3, <2>4, <2>6 DEF IInv
<1> QED
  BY <1>3, <1>4, <1>5

LEMMA RemoveWrittenKeeps ==
  ASSUME IInv, RemoveWritten
  PROVE  IInv' /\ Queue' = Tail(Queue) /\ event' = event
<1>1. /\ pc = "remove" /\ RemoveFromQueue(p) /\ nx' = next[p] /\ pc' = "free"
      /\ UNCHANGED <<allocated, log, written, running, gone, doomed, victim, after, p, eintr>>
  BY DEF RemoveWritten, flowVars
<1>2. Queue # <<>> /\ p = Queue[1] /\ ListOK
  BY <1>1 DEF IInv, Walks
<1>3. /\ ListOK' /\ Queue' = Tail(Queue)
      /\ ToSet(Queue') = ToSet(Queue) \ {p} /\ p \in ToSet(Queue)
      /\ next[p] = head' /\ event' = event
  BY <1>1, <1>2, Removed
<1>4. nx' \in Cells \cup {NULL} /\ p # NULL
  <2>1. p \in Cells /\ next \in [Cells -> Cells \cup {NULL}]
    BY <1>2, <1>3, QueueTyped DEF ListOK
  <2> QED
    BY <1>1, <2>1, Memory
<1>5. Typed'
  BY <1>1, <1>4 DEF IInv, Typed, Pc
<1>6. Accounted'
  <2>1. allocated' = ToSet(Queue') \cup InHand'
    BY <1>1, <1>3 DEF IInv, Accounted, InHand
  <2> QED
    BY <1>1, <1>3, <2>1 DEF IInv, Accounted
<1>7. Walks'
  BY <1>1, <1>3 DEF Walks
<1> QED
  BY <1>3, <1>5, <1>6, <1>7 DEF IInv

LEMMA DispatchKeeps ==
  ASSUME IInv, \/ WaitForSomething \/ SelectInterrupted \/ SelectReady
               \/ OtherRequest \/ DestroyRequest
  PROVE  IInv'
<1>1. /\ ListOK' /\ Queue' = Queue
      /\ UNCHANGED <<next, prev, event, head, tail, log>>
  BY QuietKeepsList DEF Quiet
<1>2. /\ pc \in {"wait", "select", "request"}
      /\ pc' \in {"select", "process", "wait", "freeflow"}
      /\ after' \in {after, "request", "wait"}
      /\ UNCHANGED <<allocated, written, gone, victim, p, nx>>
  BY DEF WaitForSomething, SelectInterrupted, SelectReady, OtherRequest, DestroyRequest,
         queueVars, flowVars, walkVars
<1>3. doomed' \subseteq Destroyable
  BY DEF IInv, Typed, WaitForSomething, SelectInterrupted, SelectReady, OtherRequest,
         DestroyRequest, flowVars
<1>4. running' \subseteq Flows /\ running' \cap gone = {}
  <2>1. UNCHANGED running \/ running' \in {running} \cup {running \cup {f} : f \in Flows \ gone}
    BY DEF WaitForSomething, SelectInterrupted, SelectReady, OtherRequest, DestroyRequest,
           flowVars
  <2> QED
    BY <2>1 DEF IInv, Typed, Accounted
<1>5. eintr' \in BOOLEAN
  BY DEF IInv, Typed, WaitForSomething, SelectInterrupted, SelectReady, OtherRequest,
         DestroyRequest
<1>6. Typed'
  BY <1>2, <1>3, <1>4, <1>5 DEF IInv, Typed, Pc
<1>7. Accounted'
  BY <1>1, <1>2, <1>4 DEF IInv, Accounted, InHand
<1>8. Walks'
  BY <1>2 DEF Walks
<1> QED
  BY <1>1, <1>6, <1>7, <1>8 DEF IInv

LEMMA StopVictimKeeps ==
  ASSUME IInv, StopVictim
  PROVE  IInv'
<1>1. PICK f \in doomed :
        /\ victim' = f /\ doomed' = doomed \ {f} /\ running' = running \ {f}
        /\ \/ f \in running \cap Posting /\ AuRequestElementNotifyEvent(f)
           \/ UNCHANGED <<queueVars, log>>
  BY DEF StopVictim
<1>2. /\ pc = "freeflow" /\ pc' = "dequeue"
      /\ UNCHANGED <<written, gone, after, p, nx, eintr>>
  BY DEF StopVictim, walkVars
<1>3. f \in Destroyable
  BY <1>1 DEF IInv, Typed
<1>4. Walks'
  BY <1>1, <1>2, <1>3 DEF Walks
<1>5. /\ ListOK' /\ allocated' = ToSet(Queue') /\ allocated' \subseteq Cells
      /\ \A c \in ToSet(Queue') : log'[event'[c]] \notin gone
  <2>1. CASE f \in running \cap Posting /\ AuRequestElementNotifyEvent(f)
    <3>1. ListOK /\ ToSet(Queue) \subseteq allocated /\ f \in Posting /\ f \notin gone
      BY <2>1 DEF IInv, Accounted
    <3>2. /\ ListOK'
          /\ \E e \in Cells \ allocated :
               /\ allocated' = allocated \cup {e}
               /\ ToSet(Queue') = ToSet(Queue) \cup {e} /\ log'[event'[e]] = f
          /\ \A c \in ToSet(Queue) : log'[event'[c]] = log[event[c]]
      BY <2>1, <3>1, Posted
    <3>3. allocated = ToSet(Queue) /\ allocated \subseteq Cells
      BY <1>2 DEF IInv, Accounted, InHand, Typed
    <3> QED
      BY <3>1, <3>2, <3>3 DEF IInv, Accounted
  <2>2. CASE UNCHANGED <<queueVars, log>>
    <3>1. UNCHANGED <<next, prev, event, allocated, head, tail, log>>
      BY <2>2 DEF queueVars
    <3>2. ListOK' /\ Queue' = Queue
      BY <3>1, Kept DEF IInv
    <3> QED
      BY <1>2, <3>1, <3>2 DEF IInv, Accounted, InHand, Typed
  <2> QED
    BY <1>1, <2>1, <2>2
<1>6. Typed'
  BY <1>1, <1>2, <1>3, <1>5 DEF IInv, Typed, Pc
<1>7. Accounted'
  BY <1>1, <1>2, <1>5 DEF IInv, Accounted, InHand
<1> QED
  BY <1>4, <1>5, <1>6, <1>7 DEF IInv

\* Every event was posted by the one flow that posts.
LEMMA Posters ==
  ASSUME OnePoster, ListOK, NEW c \in ToSet(Queue)
  PROVE  log[event[c]] \in Posting /\ (victim \in Posting <=> log[event[c]] = victim)
<1>1. log[event[c]] \in Posting
  BY ElementOfSeq DEF ListOK
<1> QED
  BY <1>1 DEF OnePoster

LEMMA WalkKeeps ==
  ASSUME OnePoster, IInv, AuDequeueEvents \/ PeekNext \/ SkipOther \/ FreeDequeued
  PROVE  IInv'
<1>1. /\ ListOK' /\ Queue' = Queue /\ ListOK
      /\ UNCHANGED <<next, prev, event, head, tail, log>>
  BY QuietKeepsList DEF Quiet, IInv
<1>2. /\ Queue \in Seq(Cells) /\ ToSet(Queue) \subseteq Cells /\ (head = NULL <=> Queue = <<>>)
      /\ Queue # <<>> => (/\ head = Queue[1] /\ head \in ToSet(Queue) /\ head \in Cells
                          /\ head # NULL)
      /\ head \in Cells \cup {NULL}
  BY <1>1, QueueTyped
<1>3. pc \in {"dequeue", "peek", "match", "freerecord"}
      /\ victim \in Destroyable /\ victim \notin running
  BY DEF IInv, Walks, AuDequeueEvents, PeekNext, SkipOther, FreeDequeued
<1>4. UNCHANGED <<written, running, gone, doomed, victim, after, eintr>>
  BY DEF AuDequeueEvents, PeekNext, SkipOther, FreeDequeued, flowVars
<1>5. CASE AuDequeueEvents
  <2>1. /\ pc = "dequeue" /\ p' = head /\ pc' = IF head = NULL THEN "freed" ELSE "peek"
        /\ UNCHANGED <<allocated, nx>>
    BY <1>5 DEF AuDequeueEvents, queueVars
  <2>2. Typed' /\ Accounted'
    BY <1>1, <1>2, <1>4, <2>1 DEF IInv, Typed, Pc, Accounted, InHand
  <2>3. Walks'
    BY <1>1, <1>2, <1>3, <1>4, <2>1 DEF Walks
  <2> QED
    BY <1>1, <2>2, <2>3 DEF IInv
<1>6. CASE PeekNext
  <2>1. /\ pc = "peek" /\ nx' = next[p] /\ pc' = "match" /\ UNCHANGED <<allocated, p>>
    BY <1>6 DEF PeekNext, queueVars
  <2>2. p \in ToSet(Queue) /\ (victim \in Posting => p = head)
    BY <2>1 DEF IInv, Walks
  <2>3. nx' \in ToSet(Queue) \cup {NULL}
    <3>1. PICK i \in 1 .. Len(Queue) : p = Queue[i]
      BY <1>1, <2>2, QueueTyped DEF ToSet
    <3>2. next[Queue[i]] = IF i = Len(Queue) THEN NULL ELSE Queue[i + 1]
      BY <1>1 DEF ListOK, Chain, Linked
    <3>3. i # Len(Queue) => i + 1 \in 1 .. Len(Queue)
      BY <1>2
    <3> QED
      BY <1>1, <2>1, <3>1, <3>2, <3>3, QueueTyped DEF ToSet
  <2>4. Typed' /\ Accounted'
    BY <1>1, <1>2, <1>4, <2>1, <2>3 DEF IInv, Typed, Pc, Accounted, InHand
  <2>5. Walks'
    BY <1>1, <1>3, <1>4, <2>1, <2>2, <2>3 DEF Walks
  <2> QED
    BY <1>1, <2>4, <2>5 DEF IInv
<1>7. CASE SkipOther
  <2>1. /\ pc = "match" /\ log[event[p]] # victim /\ p' = nx
        /\ pc' = IF nx = NULL THEN "freed" ELSE "peek"
        /\ UNCHANGED <<allocated, nx>>
    BY <1>7 DEF SkipOther, queueVars
  <2>2. p \in ToSet(Queue) /\ nx \in ToSet(Queue) \cup {NULL}
    BY <2>1 DEF IInv, Walks
  <2>3. victim \notin Posting
    BY <1>1, <2>1, <2>2, Posters
  <2>4. Typed' /\ Accounted'
    BY <1>1, <1>4, <2>1 DEF IInv, Typed, Pc, Accounted, InHand
  <2>5. Walks'
    BY <1>1, <1>3, <1>4, <2>1, <2>2, <2>3 DEF Walks
  <2> QED
    BY <1>1, <2>4, <2>5 DEF IInv
<1>8. CASE FreeDequeued
  <2>1. /\ pc = "freerecord" /\ allocated' = allocated \ {p} /\ p' = nx
        /\ pc' = IF nx = NULL THEN "freed" ELSE "peek"
        /\ UNCHANGED nx
    BY <1>8 DEF FreeDequeued
  <2>2. victim \in Posting /\ p \notin ToSet(Queue) /\ nx = head
    BY <2>1 DEF IInv, Walks
  <2>3. allocated' = ToSet(Queue)
    BY <2>1, <2>2 DEF IInv, Accounted, InHand
  <2>4. Typed' /\ Accounted'
    BY <1>1, <1>4, <2>1, <2>3 DEF IInv, Typed, Pc, Accounted, InHand
  <2>5. Walks'
    BY <1>1, <1>2, <1>3, <1>4, <2>1, <2>2 DEF Walks
  <2> QED
    BY <1>1, <2>4, <2>5 DEF IInv
<1> QED
  BY <1>5, <1>6, <1>7, <1>8

LEMMA DequeueMatchingKeeps ==
  ASSUME OnePoster, IInv, DequeueMatching
  PROVE  IInv' /\ Queue' = Tail(Queue) /\ event' = event /\ Queue # <<>> /\ p = Queue[1]
<1>1. /\ pc = "match" /\ log[event[p]] = victim /\ RemoveFromQueue(p) /\ pc' = "freerecord"
      /\ UNCHANGED <<allocated, log, written, running, gone, doomed, victim, after, p, nx, eintr>>
  BY DEF DequeueMatching, flowVars, walkVars
<1>2. ListOK /\ p \in ToSet(Queue) /\ victim \in Destroyable /\ victim \notin running
  BY <1>1 DEF IInv, Walks
<1>3. victim \in Posting
  BY <1>1, <1>2, Posters
<1>4. p = head /\ nx = next[p]
  BY <1>1, <1>3 DEF IInv, Walks
<1>5. Queue # <<>> /\ p = Queue[1]
  <2>1. Queue # <<>>
    BY <1>2 DEF ToSet
  <2> QED
    BY <1>2, <1>4, <2>1, QueueTyped
<1>6. /\ ListOK' /\ Queue' = Tail(Queue)
      /\ ToSet(Queue') = ToSet(Queue) \ {p} /\ p \in ToSet(Queue)
      /\ next[p] = head' /\ event' = event
  BY <1>1, <1>2, <1>5, Removed
<1>7. p # NULL
  BY <1>2, QueueTyped, Memory
<1>8. Typed'
  BY <1>1, <1>7 DEF IInv, Typed, Pc
<1>9. Accounted'
  <2>1. allocated' = ToSet(Queue') \cup InHand'
    BY <1>1, <1>6 DEF IInv, Accounted, InHand
  <2> QED
    BY <1>1, <1>6, <2>1 DEF IInv, Accounted
<1>10. Walks'
  BY <1>1, <1>2, <1>3, <1>4, <1>6 DEF Walks
<1> QED
  BY <1>5, <1>6, <1>8, <1>9, <1>10 DEF IInv

LEMMA FlowFreedKeeps ==
  ASSUME OnePoster, IInv, FlowFreed
  PROVE  IInv' /\ \A c \in ToSet(Queue) : log[event[c]] # victim
<1>1. /\ ListOK' /\ Queue' = Queue /\ ListOK
      /\ UNCHANGED <<next, prev, event, head, tail, log>>
  BY QuietKeepsList DEF Quiet, IInv
<1>2. /\ pc = "freed" /\ gone' = gone \cup {victim} /\ victim' = NULL
      /\ pc' = IF doomed = {} THEN "process" ELSE "freeflow"
      /\ UNCHANGED <<allocated, written, running, doomed, after, p, nx, eintr>>
  BY DEF FlowFreed, queueVars, walkVars
<1>3. victim \in Destroyable /\ victim \notin running /\ (victim \in Posting => Queue = <<>>)
  BY <1>2 DEF IInv, Walks
<1>4. \A c \in ToSet(Queue) : log[event[c]] # victim
  <2>1. CASE victim \in Posting
    <3>1. ToSet(Queue) = {}
      BY <1>3, <2>1 DEF ToSet
    <3> QED
      BY <3>1
  <2>2. CASE victim \notin Posting
    BY <1>1, <2>2, Posters
  <2> QED
    BY <2>1, <2>2
<1>5. Typed'
  BY <1>2, <1>3, Memory DEF IInv, Typed, Pc
<1>6. Accounted'
  BY <1>1, <1>2, <1>3, <1>4 DEF IInv, Accounted, InHand
<1>7. Walks'
  BY <1>2 DEF Walks
<1> QED
  BY <1>1, <1>4, <1>5, <1>6, <1>7 DEF IInv

LEMMA InitHolds == Init => IInv
<1> SUFFICES ASSUME Init PROVE IInv
  OBVIOUS
<1>1. /\ next \in [Cells -> Cells \cup {NULL}] /\ prev \in [Cells -> Cells \cup {NULL}]
      /\ event \in [Cells -> 0 .. MaxPosts]
  <2>1. 0 \in 0 .. MaxPosts
    BY Memory
  <2> QED
    BY <2>1 DEF Init
<1>2. <<>> \in Seq(Cells) /\ Len(<<>>) = 0 /\ \A i : i \notin 1 .. 0
  OBVIOUS
<1>3. Linked(next, <<>>)
  BY <1>2 DEF Linked
<1>4. Chain(next, prev, head, tail, <<>>)
  BY <1>2, <1>3 DEF Chain, First, Init
<1>5. Queue = <<>>
  <2>1. ListFrom(next, First(<<>>)) = <<>>
    BY <1>3, ListFound
  <2> QED
    BY <2>1 DEF Queue, First, Init
<1>6. ToSet(Queue) = {}
  BY <1>5 DEF ToSet
<1>7. ListOK
  <2>1. log \in Seq(Posting) /\ Len(log) <= MaxPosts
    BY <1>2, Memory DEF Init
  <2> QED
    BY <1>1, <1>4, <1>5, <1>6, <2>1 DEF ListOK
<1>8. Typed
  <2>1. written \in Seq(1 .. MaxPosts)
    BY DEF Init
  <2> QED
    BY <2>1 DEF Typed, Init, Pc
<1>9. Accounted /\ Walks
  BY <1>6 DEF Accounted, Walks, InHand, Init
<1> QED
  BY <1>7, <1>8, <1>9 DEF IInv

LEMMA NextKeeps ==
  ASSUME OnePoster, IInv, [Next]_vars
  PROVE  IInv'
<1>1. CASE UNCHANGED vars
  <2>1. UNCHANGED <<next, prev, event, allocated, head, tail, log, written,
                    running, gone, doomed, victim, pc, after, p, nx, eintr>>
    BY <1>1 DEF vars, queueVars, flowVars, mainVars, walkVars
  <2>2. ListOK' /\ Queue' = Queue
    BY <2>1, Kept DEF IInv
  <2> QED
    BY <2>1, <2>2 DEF IInv, Typed, Accounted, Walks, InHand
<1>2. CASE Next
  BY <1>2, InterruptKeeps, RoundKeeps, RemoveWrittenKeeps, DispatchKeeps, StopVictimKeeps,
     WalkKeeps, DequeueMatchingKeeps, FlowFreedKeeps DEF Next, Main
<1> QED
  BY <1>1, <1>2

LEMMA Inductive == OnePoster => (Spec => []IInv)
<1> SUFFICES ASSUME OnePoster PROVE Spec => []IInv
  OBVIOUS
<1>1. IInv /\ [Next]_vars => IInv'
  BY NextKeeps
<1> QED
  BY <1>1, InitHolds, PTL DEF Spec

LEMMA WellFormed ==
  ASSUME IInv
  PROVE  QueueWellFormed
<1>1. TypeOK
  <2>1. head \in Cells \cup {NULL} /\ tail \in Cells \cup {NULL}
    BY QueueTyped DEF IInv
  <2>2. log \in Seq(Flows)
    BY Memory, SeqMonotonic DEF IInv, ListOK
  <2> QED
    BY <2>1, <2>2 DEF IInv, ListOK, Typed, TypeOK
<1>2. ListOK /\ Accounted
  BY DEF IInv
<1>3. DOMAIN Queue = 1 .. Len(Queue) /\ IsInjective(Queue)
  BY <1>2, QueueTyped DEF IsInjective
<1>4. /\ \A i \in DOMAIN Queue : prev[Queue[i]] = IF i = 1 THEN NULL ELSE Queue[i - 1]
      /\ tail = IF Queue = <<>> THEN NULL ELSE Last(Queue)
  BY <1>2, <1>3 DEF ListOK, Chain, Last
<1> QED
  BY <1>1, <1>2, <1>3, <1>4 DEF QueueWellFormed, Accounted, InHand

-----------------------------------------------------------------------------
(* The numbers of the events in the list, as AudioEventFifo has them.        *)
Numbers(q, ev) == [i \in DOMAIN q |-> ev[q[i]]]

LEMMA NumbersAre ==
  ASSUME NEW q \in Seq(Cells), NEW ev \in [Cells -> Nat]
  PROVE  /\ Numbers(q, ev) \in Seq(Nat) /\ Len(Numbers(q, ev)) = Len(q)
         /\ \A i \in 1 .. Len(q) : Numbers(q, ev)[i] = ev[q[i]]
         /\ Numbers(q, ev) = <<>> <=> q = <<>>
<1>1. DOMAIN q = 1 .. Len(q) /\ Len(q) \in Nat /\ \A i \in 1 .. Len(q) : q[i] \in Cells
  BY ElementOfSeq
<1>2. Numbers(q, ev) \in [1 .. Len(q) -> Nat] /\ \A i \in 1 .. Len(q) : Numbers(q, ev)[i] = ev[q[i]]
  BY <1>1 DEF Numbers
<1>3. Numbers(q, ev) \in Seq(Nat) /\ Len(Numbers(q, ev)) = Len(q)
  BY <1>1, <1>2
<1>4. Numbers(q, ev) = <<>> <=> q = <<>>
  BY <1>3, EmptySeq
<1> QED
  BY <1>2, <1>3, <1>4

LEMMA NumbersAppend ==
  ASSUME NEW q \in Seq(Cells), NEW e \in Cells, NEW n \in Nat,
         NEW ev \in [Cells -> Nat], NEW ev2 \in [Cells -> Nat],
         \A c \in ToSet(q) : ev2[c] = ev[c], ev2[e] = n
  PROVE  Numbers(Append(q, e), ev2) = Append(Numbers(q, ev), n)
<1> DEFINE more == Append(q, e)
           left == Numbers(more, ev2)
           old == Numbers(q, ev)
           right == Append(old, n)
           m == Len(q)
<1>1. /\ more \in Seq(Cells) /\ Len(more) = m + 1 /\ m \in Nat
      /\ (\A i \in 1 .. m : more[i] = q[i]) /\ more[m + 1] = e
  BY SetOfAppend
<1>2. /\ left \in Seq(Nat) /\ Len(left) = m + 1
      /\ \A i \in 1 .. m + 1 : left[i] = ev2[more[i]]
  <2>1. Numbers(more, ev2) \in Seq(Nat) /\ Len(Numbers(more, ev2)) = Len(more)
        /\ \A i \in 1 .. Len(more) : Numbers(more, ev2)[i] = ev2[more[i]]
    BY <1>1, NumbersAre
  <2> QED
    BY <1>1, <2>1
<1>3. old \in Seq(Nat) /\ Len(old) = m /\ \A i \in 1 .. m : old[i] = ev[q[i]]
  BY NumbersAre
<1> HIDE DEF left, old
<1>4. /\ right \in Seq(Nat) /\ Len(right) = m + 1
      /\ (\A i \in 1 .. m : right[i] = old[i]) /\ right[m + 1] = n
  BY <1>3, AppendProperties
<1>5. \A i \in 1 .. m : q[i] \in ToSet(q)
  BY DEF ToSet
<1> HIDE DEF more, right
<1>6. ASSUME NEW i \in 1 .. m + 1 PROVE left[i] = right[i]
  <2>1. i \in 1 .. m \/ i = m + 1
    BY <1>1
  <2>2. CASE i \in 1 .. m
    BY <1>1, <1>2, <1>3, <1>4, <1>5, <1>6, <2>2
  <2>3. CASE i = m + 1
    BY <1>1, <1>2, <1>4, <1>6, <2>3
  <2> QED
    BY <2>1, <2>2, <2>3
<1>7. left = right
  BY <1>2, <1>4, <1>6, SeqEqual
<1> QED
  BY <1>7 DEF left, right, old, more

LEMMA NumbersTail ==
  ASSUME NEW q \in Seq(Cells), q # <<>>, NEW ev \in [Cells -> Nat]
  PROVE  /\ Numbers(Tail(q), ev) = Tail(Numbers(q, ev))
         /\ Numbers(q, ev) # <<>> /\ Head(Numbers(q, ev)) = ev[q[1]]
<1> DEFINE rest == Tail(q)
           left == Numbers(rest, ev)
           all == Numbers(q, ev)
           right == Tail(all)
           m == Len(q)
<1>1. /\ rest \in Seq(Cells) /\ Len(rest) = m - 1 /\ m \in Nat /\ m >= 1
      /\ \A i \in 1 .. m - 1 : rest[i] = q[i + 1]
  BY HeadTailProperties
<1>2. left \in Seq(Nat) /\ Len(left) = m - 1 /\ \A i \in 1 .. m - 1 : left[i] = ev[rest[i]]
  <2>1. PICK s \in Seq(Cells) : s = rest
    BY <1>1
  <2>2. /\ Numbers(s, ev) \in Seq(Nat) /\ Len(Numbers(s, ev)) = Len(s)
        /\ \A i \in 1 .. Len(s) : Numbers(s, ev)[i] = ev[s[i]]
    BY ONLY <2>1, ev \in [Cells -> Nat], NumbersAre
  <2> QED
    BY <1>1, <2>1, <2>2
<1>3. all \in Seq(Nat) /\ Len(all) = m /\ all # <<>> /\ \A i \in 1 .. m : all[i] = ev[q[i]]
  BY NumbersAre
<1> HIDE DEF left, all, rest
<1>4. /\ right \in Seq(Nat) /\ Len(right) = m - 1
      /\ \A i \in 1 .. m - 1 : right[i] = all[i + 1]
  BY <1>3, HeadTailProperties
<1>5. Head(all) = ev[q[1]]
  <2>1. 1 \in 1 .. m /\ Head(all) = all[1]
    BY <1>1, <1>3
  <2> QED
    BY <1>3, <2>1
<1> HIDE DEF right
<1>6. ASSUME NEW i \in 1 .. m - 1 PROVE left[i] = right[i]
  <2>1. i + 1 \in 1 .. m
    BY <1>1
  <2>2. left[i] = ev[q[i + 1]]
    BY <1>1, <1>2
  <2>3. right[i] = ev[q[i + 1]]
    BY <1>3, <1>4, <2>1
  <2> QED
    BY <2>2, <2>3
<1>7. left = right
  BY <1>2, <1>4, <1>6, SeqEqual
<1> QED
  BY <1>3, <1>5, <1>7 DEF left, right, all, rest

LEMMA TailOfAppend ==
  ASSUME NEW s \in Seq(Nat), s # <<>>, NEW n \in Nat
  PROVE  Tail(Append(s, n)) = Append(Tail(s), n)
BY HeadTailAppend, AppendProperties, HeadTailProperties

LEMMA FirstRemoved ==
  ASSUME NEW s \in Seq(Nat), s # <<>>
  PROVE  RemoveAt(s, 1) = Tail(s)
<1>1. SubSeq(s, 1, 1 - 1) = <<>> /\ 1 + 1 = 2
  BY SubSeqEmpty
<1>2. Tail(s) = SubSeq(s, 2, Len(s)) /\ Tail(s) \in Seq(Nat)
  BY TailIsSubSeq, HeadTailProperties
<1>3. <<>> \o SubSeq(s, 2, Len(s)) = SubSeq(s, 2, Len(s))
  BY <1>2, ConcatEmptySeq
<1>4. RemoveAt(s, 1) = SubSeq(s, 1, 1 - 1) \o SubSeq(s, 1 + 1, Len(s))
  BY Zenon DEF RemoveAt
<1>5. RemoveAt(s, 1) = <<>> \o SubSeq(s, 2, Len(s))
  BY <1>1, <1>4
<1>6. RemoveAt(s, 1) = Tail(s)
  BY <1>2, <1>3, <1>5
<1> QED
  BY <1>6

-----------------------------------------------------------------------------
(* The linked list implements the queue.                                     *)
LEMMA WaitingIs ==
  /\ Waiting = IF pc = "remove" THEN Tail(Numbers(Queue, event)) ELSE Numbers(Queue, event)
  /\ Waiting' = IF pc' = "remove" THEN Tail(Numbers(Queue', event'))
                ELSE Numbers(Queue', event')
BY DEF Waiting, Numbers

LEMMA EventsNumbered ==
  ASSUME ListOK
  PROVE  event \in [Cells -> Nat] /\ Queue \in Seq(Cells) /\ Len(log) + 1 \in Nat
<1>1. \A k \in 0 .. MaxPosts : k \in Nat
  BY Memory
<1>2. event \in [Cells -> Nat]
  BY <1>1 DEF ListOK
<1>3. Len(log) \in Nat
  BY DEF ListOK
<1> QED
  BY <1>2, <1>3, QueueTyped

\* A step that leaves the list alone changes nothing of the queue.
LEMMA Stutters ==
  ASSUME Queue' = Queue, UNCHANGED <<event, log, written, gone>>,
         pc = "remove" <=> pc' = "remove"
  PROVE  UNCHANGED Fifo!vars
<1>1. Waiting' = Waiting
  BY WaitingIs
<1> QED
  BY <1>1 DEF Fifo!vars

LEMMA PostImplements ==
  ASSUME IInv, NEW f \in Posting, f \notin gone, AuRequestElementNotifyEvent(f),
         UNCHANGED <<written, gone>>, pc = "remove" <=> pc' = "remove"
  PROVE  Fifo!Post(f)
<1>1. ListOK /\ ToSet(Queue) \subseteq allocated
  BY DEF IInv, Accounted
<1>2. /\ ListOK' /\ log' = Append(log, f)
      /\ \E e \in Cells \ allocated :
              /\ Queue' = Append(Queue, e) /\ event'[e] = Len(log) + 1
      /\ \A c \in ToSet(Queue) : event'[c] = event[c]
  BY <1>1, Posted
<1>3. PICK e \in Cells : Queue' = Append(Queue, e) /\ event'[e] = Len(log) + 1
  BY <1>2
<1>4. event \in [Cells -> Nat] /\ Queue \in Seq(Cells) /\ Len(log) + 1 \in Nat
  BY <1>1, EventsNumbered
<1>5. event' \in [Cells -> Nat]
  <2>1. \A k \in 0 .. MaxPosts : k \in Nat
    BY Memory
  <2> QED
    BY <1>2, <2>1 DEF ListOK
<1>6. Numbers(Queue', event') = Append(Numbers(Queue, event), Len(log) + 1)
  <2>1. PICK n \in Nat : n = Len(log) + 1
    BY <1>4
  <2>2. PICK q \in Seq(Cells), ev \in [Cells -> Nat], ev2 \in [Cells -> Nat] :
             q = Queue /\ ev = event /\ ev2 = event'
    BY <1>4, <1>5
  <2>3. /\ q \in Seq(Cells) /\ e \in Cells /\ n \in Nat
        /\ ev \in [Cells -> Nat] /\ ev2 \in [Cells -> Nat]
        /\ \A c \in ToSet(q) : ev2[c] = ev[c]
        /\ ev2[e] = n
    BY <1>2, <1>3, <2>1, <2>2
  <2>4. Numbers(Append(q, e), ev2) = Append(Numbers(q, ev), n)
    BY ONLY <2>3, NumbersAppend, SMTT(30)
  <2> QED
    BY <1>3, <2>1, <2>2, <2>4
<1>7. Waiting' = Append(Waiting, Len(log) + 1)
  <2>1. CASE pc # "remove"
    BY <1>6, <2>1, WaitingIs
  <2>2. CASE pc = "remove"
    <3>1. Queue # <<>>
      BY <2>2 DEF IInv, Walks
    <3>2. Numbers(Queue, event) \in Seq(Nat) /\ Numbers(Queue, event) # <<>>
      BY <1>4, <3>1, NumbersAre
    <3>3. Tail(Append(Numbers(Queue, event), Len(log) + 1))
             = Append(Tail(Numbers(Queue, event)), Len(log) + 1)
      BY <1>4, <3>2, TailOfAppend
    <3> QED
      BY <1>6, <2>2, <3>3, WaitingIs
  <2> QED
    BY <2>1, <2>2
<1> QED
  BY <1>2, <1>7 DEF Fifo!Post

\* The event that is written is the first one.
LEMMA WriteImplements ==
  ASSUME IInv, WriteAuEventsToClient
  PROVE  Fifo!Write
<1>1. /\ pc = "write" /\ pc' = "remove" /\ written' = Append(written, event[p])
      /\ UNCHANGED <<log, gone>> /\ event' = event
  BY DEF WriteAuEventsToClient, flowVars, queueVars
<1>2. Queue # <<>> /\ p = Queue[1] /\ ListOK /\ Queue' = Queue
  BY <1>1, QuietKeepsList DEF IInv, Walks, Quiet
<1>3. event \in [Cells -> Nat] /\ Queue \in Seq(Cells)
  BY <1>2, EventsNumbered
<1>4. Numbers(Queue, event) # <<>> /\ Head(Numbers(Queue, event)) = event[p]
  BY <1>2, <1>3, NumbersTail
<1>5. Waiting = Numbers(Queue, event) /\ Waiting' = Tail(Numbers(Queue, event))
  BY <1>1, <1>2, WaitingIs
<1> QED
  BY <1>1, <1>4, <1>5 DEF Fifo!Write

LEMMA RemoveImplements ==
  ASSUME IInv, RemoveWritten
  PROVE  UNCHANGED Fifo!vars
<1>1. pc = "remove" /\ pc' = "free" /\ UNCHANGED <<log, written, gone>>
  BY DEF RemoveWritten, flowVars
<1>2. Queue # <<>> /\ ListOK /\ Queue' = Tail(Queue) /\ event' = event
  BY <1>1, RemoveWrittenKeeps DEF IInv, Walks
<1>3. event \in [Cells -> Nat] /\ Queue \in Seq(Cells)
  BY <1>2, EventsNumbered
<1>4. Numbers(Tail(Queue), event) = Tail(Numbers(Queue, event))
  BY <1>2, <1>3, NumbersTail
<1>5. Waiting' = Waiting
  BY <1>1, <1>2, <1>4, WaitingIs
<1> QED
  BY <1>1, <1>5 DEF Fifo!vars

\* A record that AuDequeueEvents takes from the list is the victim's.
LEMMA DequeueImplements ==
  ASSUME OnePoster, IInv, DequeueMatching
  PROVE  \E f \in Flows : Fifo!Drop(f)
<1>1. /\ pc = "match" /\ pc' = "freerecord" /\ log[event[p]] = victim
      /\ UNCHANGED <<log, written, gone>>
  BY DEF DequeueMatching, flowVars
<1>2. Queue # <<>> /\ p = Queue[1] /\ ListOK /\ Queue' = Tail(Queue) /\ event' = event
  BY DequeueMatchingKeeps DEF IInv
<1>3. event \in [Cells -> Nat] /\ Queue \in Seq(Cells)
  BY <1>2, EventsNumbered
<1>4. /\ Numbers(Tail(Queue), event) = Tail(Numbers(Queue, event))
      /\ Numbers(Queue, event) \in Seq(Nat) /\ Numbers(Queue, event) # <<>>
      /\ Head(Numbers(Queue, event)) = event[p]
  BY <1>2, <1>3, NumbersTail, NumbersAre
<1>5. Waiting = Numbers(Queue, event) /\ Waiting' = Tail(Numbers(Queue, event))
  BY <1>1, <1>2, <1>4, WaitingIs
<1>6. 1 \in DOMAIN Waiting /\ Waiting[1] = event[p] /\ Waiting' = RemoveAt(Waiting, 1)
  <2>1. Waiting' = RemoveAt(Waiting, 1)
    BY <1>4, <1>5, FirstRemoved
  <2>2. Waiting \in Seq(Nat) /\ Waiting # <<>>
    BY <1>4, <1>5
  <2>3. 1 \in DOMAIN Waiting /\ Head(Waiting) = Waiting[1]
    BY <2>2
  <2> QED
    BY <1>4, <1>5, <2>1, <2>3
<1>7. victim \in Flows
  BY <1>1, Memory DEF IInv, Walks
<1>8. Fifo!Drop(victim)
  <2>1. log[Waiting[1]] = victim
    BY <1>1, <1>6
  <2>2. Fifo!RemoveAt(Waiting, 1) = RemoveAt(Waiting, 1)
    BY DEF Fifo!RemoveAt, RemoveAt
  <2>3. \E i \in DOMAIN Waiting :
            log[Waiting[i]] = victim /\ Waiting' = Fifo!RemoveAt(Waiting, i)
    BY <1>6, <2>1, <2>2
  <2> QED
    BY <1>1, <2>3 DEF Fifo!Drop
<1> QED
  BY <1>7, <1>8

LEMMA FreeImplements ==
  ASSUME OnePoster, IInv, FlowFreed
  PROVE  \E f \in Flows : Fifo!Purge(f)
<1>1. /\ pc = "freed" /\ pc' # "remove" /\ gone' = gone \cup {victim}
      /\ UNCHANGED <<log, written>> /\ event' = event
  BY DEF FlowFreed, queueVars
<1>2. ListOK /\ Queue' = Queue /\ \A c \in ToSet(Queue) : log[event[c]] # victim
  BY QuietKeepsList, FlowFreedKeeps DEF IInv, Quiet
<1>3. Waiting = Numbers(Queue, event) /\ Waiting' = Waiting
  BY <1>1, <1>2, WaitingIs
<1>4. \A i \in DOMAIN Waiting : log[Waiting[i]] # victim
  BY <1>2, <1>3 DEF Numbers, ToSet
<1>5. victim \in Flows
  BY <1>1, Memory DEF IInv, Walks
<1>6. Fifo!Purge(victim)
  BY <1>1, <1>3, <1>4 DEF Fifo!Purge
<1> QED
  BY <1>5, <1>6

LEMMA StepImplements ==
  ASSUME OnePoster, IInv, [Next]_vars
  PROVE  [Fifo!Next]_(Fifo!vars)
<1>1. ASSUME NEW f \in running \cap Posting PROVE f \in Posting /\ f \in Flows /\ f \notin gone
  BY Memory DEF IInv, Accounted
<1>2. CASE UNCHANGED vars
  BY <1>2, Stutters DEF vars, queueVars, flowVars, mainVars, walkVars, Queue
<1>3. CASE Interrupt
  <2>1. UNCHANGED <<written, gone, pc>>
    BY <1>3 DEF Interrupt, mainVars
  <2>2. CASE UNCHANGED <<queueVars, log, running>>
    BY <2>1, <2>2, Stutters DEF queueVars, Queue
  <2>3. CASE \E f \in running \cap Posting : AuRequestElementNotifyEvent(f)
    BY <1>1, <2>1, <2>3, PostImplements DEF Fifo!Next
  <2> QED
    BY <1>3, <2>2, <2>3 DEF Interrupt
<1>4. CASE WriteAuEventsToClient
  BY <1>4, WriteImplements DEF Fifo!Next
<1>5. CASE RemoveWritten
  BY <1>5, RemoveImplements
<1>6. CASE StopVictim
  <2>1. PICK f \in doomed : \/ f \in running \cap Posting /\ AuRequestElementNotifyEvent(f)
                            \/ UNCHANGED <<queueVars, log>>
    BY <1>6 DEF StopVictim
  <2>2. UNCHANGED <<written, gone>> /\ pc = "freeflow" /\ pc' = "dequeue"
    BY <1>6 DEF StopVictim
  <2>3. CASE UNCHANGED <<queueVars, log>>
    BY <2>2, <2>3, Stutters DEF queueVars, Queue
  <2>4. CASE f \in running \cap Posting /\ AuRequestElementNotifyEvent(f)
    BY <1>1, <2>2, <2>4, PostImplements DEF Fifo!Next
  <2> QED
    BY <2>1, <2>3, <2>4
<1>7. CASE DequeueMatching
  BY <1>7, DequeueImplements DEF Fifo!Next
<1>8. CASE FlowFreed
  BY <1>8, FreeImplements DEF Fifo!Next
<1>9. CASE \/ ProcessAudioEvents \/ FreeWritten \/ WaitForSomething \/ SelectInterrupted
           \/ SelectReady \/ OtherRequest \/ DestroyRequest
           \/ AuDequeueEvents \/ PeekNext \/ SkipOther \/ FreeDequeued
  <2>1. Queue' = Queue /\ UNCHANGED <<event, log>>
    BY <1>9, QuietKeepsList DEF Quiet
  <2>2. UNCHANGED <<written, gone>> /\ pc # "remove" /\ pc' # "remove"
    BY <1>9 DEF ProcessAudioEvents, FreeWritten, WaitForSomething, SelectInterrupted,
                SelectReady, OtherRequest, DestroyRequest, AuDequeueEvents, PeekNext,
                SkipOther, FreeDequeued, flowVars, IInv, Typed
  <2> QED
    BY <2>1, <2>2, Stutters
<1> QED
  BY <1>2, <1>3, <1>4, <1>5, <1>6, <1>7, <1>8, <1>9 DEF Next, Main

-----------------------------------------------------------------------------
\* The list is acyclic, linked alike in both directions and ends at
\* AuEventQueueTail, and no record is lost or freed too early, however the
\* interrupt comes between the steps of the two walks, for any number of records
\* and events (auevents.c:52-70, 141-146, 244-247).
THEOREM QueueAlwaysWellFormed == OnePoster => (Spec => []QueueWellFormed)
<1> SUFFICES ASSUME OnePoster PROVE Spec => []QueueWellFormed
  OBVIOUS
<1>1. IInv => QueueWellFormed
  BY WellFormed
<1> QED
  BY <1>1, Inductive, PTL

\* Events are written once, in the order of posting, and are dropped only while
\* their own flow is destroyed: every step of the program is one of the queue of
\* AudioEventFifo or leaves it alone (ProcessAudioEvents, AuDequeueEvents).
THEOREM ListImplementsQueue == OnePoster => (Spec => ImplementsFifo)
<1> SUFFICES ASSUME OnePoster PROVE Spec => Fifo!Spec
  BY DEF ImplementsFifo
<1>1. Init => Fifo!Init
  <2> SUFFICES ASSUME Init PROVE Fifo!Init
    OBVIOUS
  <2>1. Linked(next, <<>>) /\ head = First(<<>>)
    BY DEF Linked, Init, First
  <2>2. Queue = <<>>
    BY <2>1, ListFound DEF Queue
  <2>3. Waiting = <<>>
    BY <2>2 DEF Waiting, Init
  <2> QED
    BY <2>3 DEF Fifo!Init, Init
<1>2. IInv /\ [Next]_vars => [Fifo!Next]_(Fifo!vars)
  BY StepImplements
<1> QED
  BY <1>1, <1>2, Inductive, PTL DEF Spec, Fifo!Spec

-----------------------------------------------------------------------------
(* The sounds of Buckets.                                                   *)

Kinds == {"create", "read", "play", "record"}
Known(b) == created[b] # NoOne
Filled(b) == \A i \in 1 .. Size : data[b][i] # 0
Active(c) == call[c].kind \in Kinds

\* The variables have their types.  Nothing is said of what a flow that plays
\* or records has besides its bucket.
FlowOK(fl) ==
    \/ fl = NoElements
    \/ fl \in [kind : {"create", "read"}, bucket : Buckets, count : 0 .. Size,
               loop : BOOLEAN, started : BOOLEAN, played : {0}]
    \/ fl.kind \in {"play", "record"} /\ fl.bucket \in Buckets

CallOK(c) ==
    \/ call[c].kind \in {"idle", "stuck"}
    \/ /\ call[c].kind \in Kinds
       /\ {"kind", "step", "bucket", "left"} \subseteq DOMAIN call[c]
       /\ call[c].bucket \in Buckets /\ call[c].left \in 1 .. Size
       /\ \/ /\ call[c].step \in {"attributes", "elements"}
             /\ call[c].left = Size /\ ScratchFlows \ inuse[c] # {}
          \/ /\ call[c].step = IF call[c].kind \in {"create", "read"} THEN "transfer" ELSE "start"
             /\ call[c].flow \in ScratchFlows

BucketsTyped ==
    /\ DOMAIN created = Buckets /\ resolves \subseteq Buckets /\ made \subseteq Buckets
    /\ data \in [Buckets -> {<<>>} \cup [1 .. Size -> Nat]]
    /\ DOMAIN flow = Clients /\ cache \in [Clients -> SUBSET Buckets]
    /\ inuse \in [Clients -> SUBSET ScratchFlows] /\ DOMAIN call = Clients
    /\ answer \in [Clients -> [whole : BOOLEAN, data : Seq(Nat)]]
    /\ \A c \in Clients : /\ DOMAIN flow[c] = ScratchFlows /\ CallOK(c)
                          /\ \A f \in ScratchFlows : FlowOK(flow[c][f])

\* A bucket that was created resolves until it is destroyed; what refers to a
\* bucket came after its creation.
OnceCreated ==
    /\ \A b \in Buckets : Known(b) <=> b \in resolves \cup destroyed
    /\ \A b \in Buckets : ~Known(b) => b \notin made /\ data[b] = <<>>
    /\ \A c \in Clients : /\ \A b \in cache[c] : Known(b)
                          /\ Active(c) => Known(call[c].bucket)
                          /\ \A f \in ScratchFlows : flow[c][f].kind # "none" => Known(flow[c][f].bucket)

\* What resolves or is referred to has its memory.
MemoryKept ==
    \A b \in Buckets :
        b \in resolves \/ (\E c \in Clients, f \in ScratchFlows : Refers(flow[c][f], b))
            => data[b] # <<>>

InPlace ==
    \A b \in Buckets : data[b] # <<>> =>
        /\ \A i \in 1 .. Size : data[b][i] \in {0, i, Size + i}
        /\ b \in made \cap resolves => Filled(b)

\* The call that fills a bucket is as far as its flow, and what is before that
\* place is filled; if there is no flow, the bucket has been destroyed.
Filling(c) ==
    call[c].kind = "create" /\ call[c].step = "transfer" =>
        LET fl == flow[c][call[c].flow]
        IN  IF fl.kind = "none" THEN call[c].bucket \notin resolves
            ELSE /\ fl.kind = "create" /\ fl.bucket = call[c].bucket
                 /\ fl.count = Size - call[c].left
                 /\ \A i \in 1 .. fl.count : data[fl.bucket][i] # 0

\* The call that reads a bucket has what is before the place of its flow; the
\* bucket stays filled even if it is destroyed meanwhile.
Sound(c, n) == /\ Len(answer[c].data) = n
               /\ \A i \in 1 .. n : answer[c].data[i] \in {i, Size + i}

Reading(c) ==
    IF call[c].kind # "read" THEN answer[c].whole => Sound(c, Size)
    ELSE IF call[c].step # "transfer"
      THEN /\ answer[c].data = <<>> /\ (answer[c].whole => call[c].bucket \in made)
           /\ call[c].step = "attributes" => call[c].bucket \in cache[c]
    ELSE LET fl == flow[c][call[c].flow]
         IN  fl.kind # "none" =>
               /\ fl.kind = "read" /\ fl.bucket = call[c].bucket
               /\ fl.count = Size - call[c].left
               /\ answer[c].whole => Filled(fl.bucket) /\ Sound(c, fl.count)

InCalls == \A c \in Clients : Filling(c) /\ Reading(c)

SoundsInv == BucketsTyped /\ OnceCreated /\ MemoryKept /\ InPlace /\ InCalls

-----------------------------------------------------------------------------
\* The invariant implies what the runs check.
LEMMA InvariantImplies == SoundsInv => SoundsKept
<1> SUFFICES ASSUME SoundsInv PROVE SoundsKept
  OBVIOUS
<1>0. Size \in Nat \ {0}
  BY BucketsAssumption
<1>1. BucketsInPlace
  <2> SUFFICES ASSUME NEW b \in Buckets, NEW i \in DOMAIN data[b]
               PROVE  data[b][i] \in {i, Size + i}
                          \cup (IF b \in made \cap resolves THEN {} ELSE {0})
    BY DEF BucketsInPlace
  <2>1. data[b] \in {<<>>} \cup [1 .. Size -> Nat]
    BY DEF SoundsInv, BucketsTyped
  <2>2. CASE data[b] = <<>>
    BY <2>2
  <2>3. CASE data[b] # <<>>
    <3>1. i \in 1 .. Size
      BY <2>1, <2>3
    <3> QED
      BY <2>3, <3>1 DEF SoundsInv, InPlace, Filled
  <2> QED
    BY <2>2, <2>3
<1>2. ReadsWhole
  BY DEF SoundsInv, InCalls, Reading, Sound, ReadsWhole
<1>3. ListedResolve
  BY DEF SoundsInv, OnceCreated, Listed, ListedResolve
<1> QED
  BY <1>1, <1>2, <1>3 DEF SoundsKept

LEMMA SoundsInitHold == BucketsInit => SoundsInv
<1> SUFFICES ASSUME BucketsInit PROVE SoundsInv
  OBVIOUS
<1>0. Size \in Nat \ {0} /\ NoOne \notin Clients
  BY BucketsAssumption
<1>1. BucketsTyped
  <2>1. \A c \in Clients : DOMAIN flow[c] = ScratchFlows /\ CallOK(c)
                             /\ \A f \in ScratchFlows : FlowOK(flow[c][f])
    BY DEF BucketsInit, CallOK, Idle, FlowOK
  <2>2. answer \in [Clients -> [whole : BOOLEAN, data : Seq(Nat)]]
    BY DEF BucketsInit
  <2> QED
    BY <2>1, <2>2 DEF BucketsInit, BucketsTyped
<1>2. OnceCreated
  BY DEF BucketsInit, OnceCreated, Known, Active, Idle, Kinds, NoElements
<1>3. MemoryKept
  BY DEF BucketsInit, MemoryKept, Refers, NoElements
<1>4. InPlace
  BY DEF BucketsInit, InPlace
<1>5. InCalls
  BY DEF BucketsInit, InCalls, Filling, Reading, Idle
<1> QED
  BY <1>1, <1>2, <1>3, <1>4, <1>5 DEF SoundsInv

-----------------------------------------------------------------------------
\* What the interrupt does to a flow.
LEMMA TickKeepsFlow ==
  ASSUME NEW fl, FlowOK(fl)
  PROVE  /\ FlowOK(Ticked(fl)) /\ Ticked(fl).kind = fl.kind
         /\ fl.kind # "none" => Ticked(fl).bucket = fl.bucket
         /\ fl.kind \notin {"play", "record"} => Ticked(fl) = fl
<1>1. CASE fl.kind \in {"play", "record"}
  <2>1. fl.bucket \in Buckets
    BY <1>1 DEF FlowOK, NoElements
  <2>2. Ticked(fl).kind = fl.kind /\ Ticked(fl).bucket = fl.bucket
    BY DEF Ticked
  <2> QED
    BY <1>1, <2>1, <2>2 DEF FlowOK
<1>2. CASE fl.kind \notin {"play", "record"}
  <2>1. Ticked(fl) = fl
    BY <1>2 DEF Ticked, Started, Ends
  <2> QED
    BY <1>2, <2>1
<1> QED
  BY <1>1, <1>2

\* The numbers that a request moves, and the flow that is free.
LEMMA PortionFits ==
  ASSUME NEW c, call[c].left \in 1 .. Size
  PROVE  Portion(c) \in 1 .. call[c].left
<1>1. MaxRequest \in Nat \ {0} /\ Size \in Nat
  BY BucketsAssumption
<1>2. {MaxRequest, call[c].left} \in SUBSET Nat /\ {MaxRequest, call[c].left} # {}
  BY <1>1
<1>3. Portion(c) \in {MaxRequest, call[c].left}
      /\ \A y \in {MaxRequest, call[c].left} : Portion(c) <= y
  BY <1>2, MinIsLeast DEF Portion
<1> QED
  BY <1>1, <1>3

LEMMA FreeFlowIsFree ==
  ASSUME NEW c, ScratchFlows \ inuse[c] # {}
  PROVE  FreeFlow(c) \in ScratchFlows \ inuse[c]
<1>1. ScratchFlows \ inuse[c] \in SUBSET Nat
  BY BucketsAssumption
<1> QED
  BY <1>1, MinIsLeast DEF FreeFlow

\* A client whose call does not move on: its flow is left alone, and its bucket
\* keeps what is in it.
Grows(b) == \A i \in 1 .. Size : data[b][i] # 0 => data'[b][i] # 0

LEMMA OthersKeep ==
  ASSUME SoundsInv, NEW c \in Clients,
         call'[c] = call[c], answer'[c] = answer[c], inuse'[c] \subseteq inuse[c],
         cache[c] \subseteq cache'[c], made \subseteq made',
         \A b \in Buckets : Known(b) /\ b \in resolves' => b \in resolves,
         \A f \in ScratchFlows : flow[c][f].kind \in {"none", "create", "read"}
                              => flow'[c][f] = flow[c][f],
         \A b \in Buckets, f \in ScratchFlows : Refers(flow[c][f], b) => Grows(b)
  PROVE  CallOK(c)' /\ Filling(c)' /\ Reading(c)'
<1>0. Size \in Nat \ {0}
  BY BucketsAssumption
<1>1. CallOK(c)'
  BY DEF SoundsInv, BucketsTyped, CallOK
<1>2. Filling(c)'
  <2> SUFFICES ASSUME call[c].kind = "create", call[c].step = "transfer"
               PROVE  Filling(c)'
    BY DEF Filling
  <2> DEFINE f == call[c].flow
             fl == flow[c][f]
  <2>1. f \in ScratchFlows /\ Filling(c) /\ call[c].bucket \in Buckets /\ Known(call[c].bucket)
        /\ call[c].left \in 1 .. Size
    BY DEF SoundsInv, BucketsTyped, CallOK, InCalls, OnceCreated, Active, Kinds
  <2>2. fl.kind \in {"none", "create"} /\ flow'[c][f] = fl
    BY <2>1 DEF Filling
  <2>3. CASE fl.kind = "none"
    BY <2>1, <2>2, <2>3 DEF Filling
  <2>4. CASE fl.kind # "none"
    <3>1. Refers(fl, call[c].bucket) /\ fl.count \in 0 .. Size
      BY <1>0, <2>1, <2>4 DEF Filling, Refers
    <3>2. Grows(call[c].bucket)
      BY <2>1, <3>1
    <3> QED
      BY <1>0, <2>1, <2>2, <2>4, <3>1, <3>2 DEF Filling, Grows
  <2> QED
    BY <2>3, <2>4
<1>3. Reading(c)'
  <2>1. Reading(c)
    BY DEF SoundsInv, InCalls
  <2>2. CASE call[c].kind # "read" \/ call[c].step # "transfer"
    BY <2>1, <2>2 DEF Reading, Sound
  <2>3. CASE call[c].kind = "read" /\ call[c].step = "transfer"
    <3> DEFINE f == call[c].flow
               fl == flow[c][f]
    <3>1. f \in ScratchFlows /\ call[c].bucket \in Buckets
      BY <2>3 DEF SoundsInv, BucketsTyped, CallOK, Kinds
    <3>2. fl.kind \in {"none", "read"} /\ flow'[c][f] = fl
      BY <2>1, <2>3, <3>1 DEF Reading
    <3>3. CASE fl.kind = "none"
      BY <2>3, <3>2, <3>3 DEF Reading
    <3>4. CASE fl.kind # "none"
      <4>1. Refers(fl, call[c].bucket)
        BY <2>1, <2>3, <3>4 DEF Reading, Refers
      <4>2. Grows(call[c].bucket)
        BY <3>1, <4>1
      <4>3. Filled(call[c].bucket) => \A i \in 1 .. Size : data'[call[c].bucket][i] # 0
        BY <4>2 DEF Filled, Grows
      <4> QED
        BY <2>1, <2>3, <3>2, <3>4, <4>3 DEF Reading, Sound, Filled
    <3> QED
      BY <3>3, <3>4
  <2> QED
    BY <2>2, <2>3
<1> QED
  BY <1>1, <1>2, <1>3

\* The same for all clients but one.
LEMMA AllButOne ==
  ASSUME SoundsInv, NEW S,
         \A c \in Clients \ S :
             /\ call'[c] = call[c] /\ answer'[c] = answer[c] /\ inuse'[c] \subseteq inuse[c]
             /\ cache[c] \subseteq cache'[c],
         made \subseteq made',
         \A b \in Buckets : Known(b) /\ b \in resolves' => b \in resolves,
         \A c \in Clients \ S, f \in ScratchFlows : flow[c][f].kind \in {"none", "create", "read"}
                              => flow'[c][f] = flow[c][f],
         \A c \in Clients \ S, b \in Buckets, f \in ScratchFlows : Refers(flow[c][f], b) => Grows(b)
  PROVE  \A c \in Clients \ S : CallOK(c)' /\ Filling(c)' /\ Reading(c)'
<1> SUFFICES ASSUME NEW c \in Clients \ S
             PROVE  CallOK(c)' /\ Filling(c)' /\ Reading(c)'
  OBVIOUS
<1> QED
  BY OthersKeep

-----------------------------------------------------------------------------
LEMMA TickKeeps ==
  ASSUME SoundsInv, Tick
  PROVE  SoundsInv'
<1>0. Size \in Nat \ {0}
  BY BucketsAssumption
<1>1. \A c \in Clients, f \in ScratchFlows : FlowOK(flow[c][f]) /\ flow'[c][f] = Ticked(flow[c][f])
  BY DEF SoundsInv, BucketsTyped, Tick
<1>2. \A c \in Clients, f \in ScratchFlows :
        /\ FlowOK(flow'[c][f]) /\ flow'[c][f].kind = flow[c][f].kind
        /\ flow[c][f].kind # "none" => flow'[c][f].bucket = flow[c][f].bucket
        /\ flow[c][f].kind \notin {"play", "record"} => flow'[c][f] = flow[c][f]
  BY <1>1, TickKeepsFlow
<1>3. \A b \in Buckets :
        /\ data[b] = <<>> => data'[b] = <<>>
        /\ data[b] # <<>> => /\ data'[b] \in [1 .. Size -> Nat]
                             /\ \A i \in 1 .. Size : data'[b][i] \in {data[b][i], Size + i}
  <2> SUFFICES ASSUME NEW b \in Buckets
               PROVE  /\ data[b] = <<>> => data'[b] = <<>>
                      /\ data[b] # <<>> =>
                            /\ data'[b] \in [1 .. Size -> Nat]
                            /\ \A i \in 1 .. Size : data'[b][i] \in {data[b][i], Size + i}
    OBVIOUS
  <2> DEFINE recorded(i) == \E c \in Clients, f \in ScratchFlows :
                      /\ Started(flow[c][f]) /\ flow[c][f].kind = "record"
                      /\ flow[c][f].bucket = b /\ flow[c][f].count + 1 = i
  <2>1. data'[b] = [i \in DOMAIN data[b] |-> IF recorded(i) THEN Size + i ELSE data[b][i]]
    BY DEF Tick
  <2> HIDE DEF recorded
  <2>2. data[b] \in {<<>>} \cup [1 .. Size -> Nat]
    BY DEF SoundsInv, BucketsTyped
  <2>3. CASE data[b] = <<>>
    BY <1>0, <2>1, <2>3
  <2>4. CASE data[b] # <<>>
    BY <1>0, <2>1, <2>2, <2>4
  <2> QED
    BY <2>3, <2>4
<1>4. \A b \in Buckets : Grows(b)
  <2> SUFFICES ASSUME NEW b \in Buckets, NEW i \in 1 .. Size, data[b][i] # 0, data[b] # <<>>
               PROVE  data'[b][i] # 0
    BY <1>3 DEF Grows
  <2> QED
    BY <1>0, <1>3
<1>5. UNCHANGED <<created, resolves, destroyed, cache, inuse, call, made, answer>>
  BY DEF Tick, libraryVars, history
<1>6. \A c \in Clients : CallOK(c)' /\ Filling(c)' /\ Reading(c)'
  <2>1. \A c \in Clients \ {} : CallOK(c)' /\ Filling(c)' /\ Reading(c)'
    BY <1>2, <1>4, <1>5, AllButOne
  <2> QED
    BY <2>1
<1>7. BucketsTyped'
  <2>1. data' \in [Buckets -> {<<>>} \cup [1 .. Size -> Nat]]
    BY <1>3 DEF Tick, SoundsInv, BucketsTyped
  <2>2. DOMAIN flow' = Clients /\ \A c \in Clients : DOMAIN flow'[c] = ScratchFlows
    BY DEF Tick
  <2>3. \A c \in Clients, f \in ScratchFlows : FlowOK(flow[c][f])'
    BY <1>2 DEF FlowOK
  <2> QED
    BY <1>5, <1>6, <2>1, <2>2, <2>3 DEF SoundsInv, BucketsTyped
<1>8. OnceCreated'
  BY <1>2, <1>3, <1>5 DEF SoundsInv, OnceCreated, Known, Active
<1>9. MemoryKept'
  <2>1. \A c \in Clients, f \in ScratchFlows, b \in Buckets :
            Refers(flow'[c][f], b) => Refers(flow[c][f], b)
    BY <1>2 DEF Refers
  <2>2. \A b \in Buckets : data[b] # <<>> => data'[b] # <<>>
    <3> SUFFICES ASSUME NEW b \in Buckets, data[b] # <<>>, data'[b] = <<>>
                 PROVE  FALSE
      OBVIOUS
    <3>1. DOMAIN data'[b] = 1 .. Size
      BY <1>3
    <3> QED
      BY <1>0, <3>1
  <2>3. \A b \in Buckets : b \in resolves \/ (\E c \in Clients, f \in ScratchFlows : Refers(flow[c][f], b))
                              => data[b] # <<>>
    BY DEF SoundsInv, MemoryKept
  <2>4. \A b \in Buckets : b \in resolves' \/ (\E c \in Clients, f \in ScratchFlows : Refers(flow'[c][f], b))
                              => data'[b] # <<>>
    BY <1>5, <2>1, <2>2, <2>3
  <2>5. \A b \in Buckets, c \in Clients, f \in ScratchFlows : Refers(flow[c][f], b)' <=> Refers(flow'[c][f], b)
    BY DEF Refers
  <2> QED
    BY <2>4, <2>5 DEF MemoryKept
<1>10. InPlace'
  <2> SUFFICES ASSUME NEW b \in Buckets, data'[b] # <<>>
               PROVE  /\ \A i \in 1 .. Size : data'[b][i] \in {0, i, Size + i}
                      /\ b \in made \cap resolves => \A i \in 1 .. Size : data'[b][i] # 0
    BY <1>5 DEF InPlace, Filled
  <2>1. data[b] # <<>>
    BY <1>3
  <2> QED
    BY <1>0, <1>3, <1>4, <2>1 DEF SoundsInv, InPlace, Filled, Grows
<1> QED
  BY <1>6, <1>7, <1>8, <1>9, <1>10 DEF SoundsInv, InCalls

\* AuCreateBucket: the bucket is new.
LEMMA CreateBucketKeeps ==
  ASSUME SoundsInv, NEW c \in Clients, CreateBucket(c)
  PROVE  SoundsInv'
<1>0. Size \in Nat \ {0} /\ NoOne \notin Clients
  BY BucketsAssumption
<1>1. PICK b \in Buckets :
        /\ created[b] = NoOne
        /\ created' = [created EXCEPT ![b] = c]
        /\ resolves' = resolves \cup {b}
        /\ data' = [data EXCEPT ![b] = [i \in 1 .. Size |-> 0]]
        /\ call' = [call EXCEPT ![c] = [kind |-> "create", step |-> "attributes",
                                        bucket |-> b, left |-> Size]]
  BY DEF CreateBucket
<1>2. UNCHANGED <<destroyed, flow, cache, inuse, made, answer>> /\ ScratchFlows \ inuse[c] # {}
      /\ call[c] = Idle
  BY DEF CreateBucket, history, Begin
<1> DEFINE zeros == [i \in 1 .. Size |-> 0]
<1>3. /\ ~Known(b) /\ b \notin resolves /\ b \notin destroyed /\ b \notin made
      /\ \A x \in Clients, f \in ScratchFlows : ~Refers(flow[x][f], b)
  BY <1>1 DEF SoundsInv, OnceCreated, Known, Refers
<1>4. zeros \in [1 .. Size -> Nat] /\ zeros # <<>> /\ DOMAIN zeros = 1 .. Size
  <2>1. zeros \in [1 .. Size -> Nat] /\ DOMAIN zeros = 1 .. Size
    OBVIOUS
  <2> QED
    BY <1>0, <2>1
<1>5. \A x \in Buckets : IF x = b THEN data'[x] = zeros ELSE data'[x] = data[x]
  BY <1>1 DEF SoundsInv, BucketsTyped
<1>6. \A x \in Buckets : Known(x)' <=> Known(x) \/ x = b
  BY <1>0, <1>1 DEF SoundsInv, BucketsTyped, Known
<1>7. /\ call'[c] = [kind |-> "create", step |-> "attributes", bucket |-> b, left |-> Size]
      /\ \A x \in Clients \ {c} : call'[x] = call[x]
  BY <1>1 DEF SoundsInv, BucketsTyped
<1>8. /\ \A x \in Clients \ {c} : CallOK(x)' /\ Filling(x)' /\ Reading(x)'
  <2>1. \A x \in Clients, y \in Buckets, f \in ScratchFlows : Refers(flow[x][f], y) => Grows(y)
    BY <1>3, <1>5 DEF Grows
  <2>2. \A y \in Buckets : Known(y) /\ y \in resolves' => y \in resolves
    BY <1>1, <1>3
  <2> QED
    BY <1>2, <1>7, <2>1, <2>2, AllButOne
<1>9. CallOK(c)' /\ Filling(c)' /\ Reading(c)'
  <2>1. call'[c].kind = "create" /\ call'[c].step = "attributes" /\ call'[c].bucket = b
        /\ call'[c].left = Size /\ DOMAIN call'[c] = {"kind", "step", "bucket", "left"}
    BY <1>7
  <2>2. CallOK(c)'
    BY <1>0, <1>2, <2>1 DEF CallOK, Kinds
  <2>3. Reading(c)
    BY DEF SoundsInv, InCalls
  <2>4. call[c].kind # "read"
    BY <1>2 DEF Idle
  <2> QED
    BY <1>2, <2>1, <2>2, <2>3, <2>4 DEF Filling, Reading, Sound
<1>10. BucketsTyped'
  <2>1. data' \in [Buckets -> {<<>>} \cup [1 .. Size -> Nat]]
    BY <1>1, <1>4 DEF SoundsInv, BucketsTyped
  <2>2. \A x \in Clients, f \in ScratchFlows : FlowOK(flow[x][f])'
    BY <1>2 DEF SoundsInv, BucketsTyped, FlowOK
  <2>3. DOMAIN created' = Buckets /\ DOMAIN call' = Clients
    BY <1>1 DEF SoundsInv, BucketsTyped
  <2> QED
    BY <1>1, <1>2, <1>8, <1>9, <2>1, <2>2, <2>3 DEF SoundsInv, BucketsTyped
<1>11. OnceCreated'
  <2>1. \A x \in Buckets : Known(x)' <=> x \in resolves' \cup destroyed'
    BY <1>1, <1>2, <1>6 DEF SoundsInv, OnceCreated
  <2>2. \A x \in Buckets : ~Known(x)' => x \notin made' /\ data'[x] = <<>>
    BY <1>2, <1>5, <1>6 DEF SoundsInv, OnceCreated
  <2>3. \A x \in Clients : \A y \in cache'[x] : Known(y)'
    BY <1>2, <1>6 DEF SoundsInv, OnceCreated, BucketsTyped
  <2>4. \A x \in Clients : Active(x)' => Known(call[x].bucket)'
    <3> SUFFICES ASSUME NEW x \in Clients, Active(x)'
                 PROVE  Known(call[x].bucket)'
      OBVIOUS
    <3>1. CASE x = c
      BY <1>6, <1>7, <3>1 DEF Known
    <3>2. CASE x # c
      <4>1. Active(x) /\ call'[x] = call[x]
        BY <1>7, <3>2 DEF Active
      <4>2. Known(call[x].bucket) /\ call[x].bucket \in Buckets
        BY <4>1 DEF SoundsInv, OnceCreated, BucketsTyped, CallOK, Active, Kinds
      <4> QED
        BY <1>6, <4>1, <4>2 DEF Known
    <3> QED
      BY <3>1, <3>2
  <2>5. \A x \in Clients, f \in ScratchFlows : flow'[x][f].kind # "none" => Known(flow[x][f].bucket)'
    <3> SUFFICES ASSUME NEW x \in Clients, NEW f \in ScratchFlows, flow[x][f].kind # "none"
                 PROVE  Known(flow[x][f].bucket)'
      BY <1>2
    <3>1. Known(flow[x][f].bucket) /\ flow[x][f].bucket \in Buckets
      BY DEF SoundsInv, OnceCreated, BucketsTyped, FlowOK, NoElements
    <3> QED
      BY <1>2, <1>6, <3>1 DEF Known
  <2> QED
    BY <2>1, <2>2, <2>3, <2>4, <2>5 DEF OnceCreated
<1>12. MemoryKept'
  BY <1>1, <1>2, <1>4, <1>5 DEF SoundsInv, MemoryKept, Refers
<1>13. InPlace'
  <2> SUFFICES ASSUME NEW x \in Buckets, data'[x] # <<>>
               PROVE  /\ \A i \in 1 .. Size : data'[x][i] \in {0, i, Size + i}
                      /\ x \in made \cap resolves' => \A i \in 1 .. Size : data'[x][i] # 0
    BY <1>2 DEF InPlace, Filled
  <2>1. CASE x = b
    BY <1>3, <1>5, <2>1
  <2>2. CASE x # b
    BY <1>1, <1>5, <2>2 DEF SoundsInv, InPlace, Filled
  <2> QED
    BY <2>1, <2>2
<1> QED
  BY <1>8, <1>9, <1>10, <1>11, <1>12, <1>13 DEF SoundsInv, InCalls

\* Steps that leave the server's memory alone.
LEMMA ServerKeeps ==
  ASSUME SoundsInv, UNCHANGED <<resolves, data, made>>,
         \A b \in Buckets : \A c \in Clients, f \in ScratchFlows :
             Refers(flow'[c][f], b) => b \in resolves \/ Refers(flow[c][f], b)
  PROVE  MemoryKept' /\ InPlace' /\ \A b \in Buckets : Grows(b)
<1>1. MemoryKept'
  <2>1. \A b \in Buckets, c \in Clients, f \in ScratchFlows : Refers(flow[c][f], b)' <=> Refers(flow'[c][f], b)
    BY DEF Refers
  <2> QED
    BY <2>1 DEF SoundsInv, MemoryKept
<1>2. InPlace'
  BY DEF SoundsInv, InPlace, Filled
<1> QED
  BY <1>1, <1>2 DEF Grows

\* Steps of a client c that change its call, its cache and its answer only.
LEMMA CallKeeps ==
  ASSUME SoundsInv, NEW c \in Clients, UNCHANGED <<serverVars, inuse, made>>,
         cache' \in [Clients -> SUBSET Buckets],
         \A x \in Clients : \A b \in cache'[x] : Known(b),
         answer' \in [Clients -> [whole : BOOLEAN, data : Seq(Nat)]], DOMAIN call' = Clients,
         \A x \in Clients \ {c} : /\ call'[x] = call[x] /\ answer'[x] = answer[x]
                                 /\ cache[x] \subseteq cache'[x],
         CallOK(c)', Filling(c)', Reading(c)', Active(c)' => Known(call'[c].bucket)
  PROVE  SoundsInv'
<1>1. UNCHANGED <<created, resolves, destroyed, data, flow>>
  BY DEF serverVars
<1>2. MemoryKept' /\ InPlace' /\ \A b \in Buckets : Grows(b)
  BY <1>1, ServerKeeps
<1>3. \A x \in Clients \ {c} : CallOK(x)' /\ Filling(x)' /\ Reading(x)'
  BY <1>1, <1>2, AllButOne
<1>4. BucketsTyped'
  <2>1. \A x \in Clients, f \in ScratchFlows : FlowOK(flow[x][f])'
    BY <1>1 DEF SoundsInv, BucketsTyped, FlowOK
  <2> QED
    BY <1>1, <1>3, <2>1 DEF SoundsInv, BucketsTyped
<1>5. OnceCreated'
  <2>1. \A x \in Clients : Active(x)' => Known(call[x].bucket)'
    BY <1>1 DEF SoundsInv, OnceCreated, Active, Known
  <2> QED
    BY <1>1, <2>1 DEF SoundsInv, OnceCreated, Known
<1> QED
  BY <1>2, <1>3, <1>4, <1>5 DEF SoundsInv, InCalls

LEMMA UseBucketKeeps ==
  ASSUME SoundsInv, NEW c \in Clients, UseBucket(c)
  PROVE  SoundsInv'
<1>0. Size \in Nat \ {0}
  BY BucketsAssumption
<1>1. PICK b \in cache[c], kind \in {"read", "play", "record"} :
           \E n \in IF kind = "play" THEN Counts ELSE {1} :
               /\ call' = [call EXCEPT ![c] = [kind |-> kind, step |-> "attributes",
                                               bucket |-> b, left |-> Size, count |-> n]]
               /\ answer' = [answer EXCEPT ![c] = [whole |-> kind = "read" /\ b \in made,
                                                   data |-> <<>>]]
  BY DEF UseBucket
<1>2. UNCHANGED <<serverVars, inuse, made, cache>> /\ ScratchFlows \ inuse[c] # {}
  BY DEF UseBucket
<1>3. b \in Buckets /\ Known(b)
  BY DEF SoundsInv, BucketsTyped, OnceCreated
<1>4. /\ call'[c].kind = kind /\ call'[c].step = "attributes" /\ call'[c].bucket = b
      /\ call'[c].left = Size /\ {"kind", "step", "bucket", "left"} \subseteq DOMAIN call'[c]
  BY <1>1 DEF SoundsInv, BucketsTyped
<1>5. answer'[c] = [whole |-> kind = "read" /\ b \in made, data |-> <<>>]
  BY <1>1 DEF SoundsInv, BucketsTyped
<1>6. CallOK(c)'
  BY <1>0, <1>2, <1>3, <1>4 DEF CallOK, Kinds
<1>7. Filling(c)' /\ Reading(c)'
  <2>1. answer'[c].data = <<>> /\ answer'[c].whole = (kind = "read" /\ b \in made)
    BY <1>5
  <2>2. Filling(c)'
    BY <1>4 DEF Filling
  <2>3. b \in cache'[c]
    BY <1>2
  <2>4. CASE kind = "read"
    BY <1>2, <1>4, <2>1, <2>2, <2>3, <2>4 DEF Reading
  <2>5. CASE kind # "read"
    <3>1. ~answer'[c].whole
      BY <2>1, <2>5
    <3> QED
      BY <1>4, <2>2, <2>5, <3>1 DEF Reading
  <2> QED
    BY <2>2, <2>4, <2>5
<1>8. /\ answer' \in [Clients -> [whole : BOOLEAN, data : Seq(Nat)]] /\ DOMAIN call' = Clients
      /\ \A x \in Clients \ {c} : /\ call'[x] = call[x] /\ answer'[x] = answer[x]
                                  /\ cache[x] \subseteq cache'[x]
  BY <1>1, <1>2 DEF SoundsInv, BucketsTyped
<1>9. cache' \in [Clients -> SUBSET Buckets] /\ \A x \in Clients : \A y \in cache'[x] : Known(y)
  BY <1>2 DEF SoundsInv, BucketsTyped, OnceCreated
<1> QED
  BY <1>2, <1>3, <1>4, <1>6, <1>7, <1>8, <1>9, CallKeeps

LEMMA GetAttributesKeeps ==
  ASSUME SoundsInv, NEW c \in Clients, GetAttributes(c)
  PROVE  SoundsInv'
<1>0. Size \in Nat \ {0}
  BY BucketsAssumption
<1> DEFINE b == call[c].bucket
<1>1. /\ call[c].kind \in Kinds /\ call[c].step = "attributes"
      /\ UNCHANGED <<serverVars, inuse, made, answer>>
  BY DEF GetAttributes, Kinds, history
<1>2. CallOK(c) /\ Reading(c) /\ Known(b) /\ b \in Buckets /\ call[c].left = Size
      /\ ScratchFlows \ inuse[c] # {} /\ {"kind", "step", "bucket", "left"} \subseteq DOMAIN call[c]
  BY <1>1 DEF SoundsInv, BucketsTyped, InCalls, OnceCreated, Active, CallOK, Kinds
<1>3. cache' \in [Clients -> SUBSET Buckets] /\ \A x \in Clients : \A y \in cache'[x] : Known(y)
  <2>1. cache' = cache \/ cache' = [cache EXCEPT ![c] = cache[c] \cup {b}]
    BY DEF GetAttributes, AddToCache
  <2>2. cache \in [Clients -> SUBSET Buckets] /\ \A x \in Clients : \A y \in cache[x] : Known(y)
    BY DEF SoundsInv, BucketsTyped, OnceCreated
  <2>3. cache' \in [Clients -> SUBSET Buckets]
    BY <1>2, <2>1, <2>2
  <2>4. \A x \in Clients : cache'[x] \subseteq cache[x] \cup {b}
    BY <1>2, <2>1, <2>2
  <2> HIDE DEF b
  <2> QED
    BY <1>2, <2>2, <2>3, <2>4
<1>4. Goto(c, "elements") \/ Hang(c)
  BY DEF GetAttributes
<1>5. /\ answer' \in [Clients -> [whole : BOOLEAN, data : Seq(Nat)]] /\ DOMAIN call' = Clients
      /\ \A x \in Clients \ {c} : call'[x] = call[x] /\ answer'[x] = answer[x]
  BY <1>1, <1>4 DEF Goto, Hang, SoundsInv, BucketsTyped
<1>8. \A x \in Clients : cache[x] \subseteq cache'[x]
  BY DEF GetAttributes, AddToCache, SoundsInv, BucketsTyped
<1>6. CASE Goto(c, "elements")
  <2>1. /\ call'[c].kind = call[c].kind /\ call'[c].step = "elements" /\ call'[c].bucket = b
        /\ call'[c].left = Size /\ {"kind", "step", "bucket", "left"} \subseteq DOMAIN call'[c]
    BY <1>2, <1>6 DEF SoundsInv, BucketsTyped, Goto
  <2>2. CallOK(c)'
    BY <1>0, <1>1, <1>2, <2>1 DEF CallOK, Kinds
  <2>3. Filling(c)' /\ Reading(c)'
    BY <1>1, <1>2, <2>1 DEF Filling, Reading, Sound
  <2> QED
    BY <1>1, <1>2, <1>3, <1>5, <1>8, <2>1, <2>2, <2>3, CallKeeps
<1>7. CASE Hang(c)
  <2>1. call'[c].kind = "stuck"
    BY <1>7 DEF SoundsInv, BucketsTyped, Hang
  <2>2. CallOK(c)' /\ Filling(c)' /\ ~Active(c)'
    BY <2>1 DEF CallOK, Filling, Active, Kinds
  <2>3. Reading(c)'
    <3>1. call[c].kind # "read"
      BY <1>1, <1>2, <1>7, <2>1 DEF Reading, GetAttributes, InCache, Goto, Hang, SoundsInv, BucketsTyped
    <3> QED
      BY <1>1, <1>2, <2>1, <3>1 DEF Reading, Sound
  <2> QED
    BY <1>1, <1>3, <1>5, <1>8, <2>2, <2>3, CallKeeps
<1> QED
  BY <1>4, <1>6, <1>7

LEMMA SetElementsKeeps ==
  ASSUME SoundsInv, NEW c \in Clients, SetElements(c)
  PROVE  SoundsInv'
<1>0. Size \in Nat \ {0} /\ Counts \subseteq Nat
  BY BucketsAssumption
<1> DEFINE f == FreeFlow(c)
           kind == call[c].kind
           b == call[c].bucket
           loop == kind = "play" /\ call[c].count > 1
           new == Elements(kind, b, loop)
           fls == [flow EXCEPT ![c][f] = new]
           step == IF kind \in {"create", "read"} THEN "transfer" ELSE "start"
<1>1. /\ kind \in Kinds /\ call[c].step = "elements"
      /\ flow' = fls /\ data' = Collect(data, resolves, fls)
      /\ inuse' = [inuse EXCEPT ![c] = @ \cup {f}]
      /\ call' = [call EXCEPT ![c] = [kind |-> kind, bucket |-> b, left |-> call[c].left,
                                      flow |-> f, step |-> step]]
      /\ UNCHANGED <<created, resolves, destroyed, cache, made, answer>>
  BY DEF SetElements, Doing, Kinds, Take, history
<1>2. CallOK(c) /\ Reading(c) /\ Known(b) /\ b \in Buckets /\ call[c].left = Size
      /\ ScratchFlows \ inuse[c] # {} /\ {"kind", "step", "bucket", "left"} \subseteq DOMAIN call[c]
  BY <1>1 DEF SoundsInv, BucketsTyped, InCalls, OnceCreated, Active, CallOK, Kinds
<1>3. f \in ScratchFlows
  BY <1>2, FreeFlowIsFree
<1>4. /\ new = NoElements /\ b \notin resolves
      \/ /\ new.kind = kind /\ new.bucket = b /\ new.count = 0 /\ b \in resolves
         /\ new \in [kind : Kinds, bucket : Buckets, count : {0}, loop : BOOLEAN,
                     started : BOOLEAN, played : {0}]
  <2>1. loop \in BOOLEAN
    OBVIOUS
  <2> HIDE DEF loop
  <2> QED
    BY <1>1, <1>2, <2>1 DEF Elements
<1>5. FlowOK(new)
  BY <1>0, <1>2, <1>4 DEF FlowOK, Kinds
<1>6. \A x \in Clients, g \in ScratchFlows :
          flow'[x][g] = IF x = c /\ g = f THEN new ELSE flow[x][g]
  BY <1>1, <1>3 DEF SoundsInv, BucketsTyped
<1>7. /\ {"kind", "step", "bucket", "left"} \subseteq DOMAIN call'[c]
      /\ call'[c].kind = kind /\ call'[c].step = step /\ call'[c].flow = f
      /\ call'[c].bucket = b /\ call'[c].left = Size
      /\ \A x \in Clients \ {c} : call'[x] = call[x]
  <2> HIDE DEF step, f, kind, b
  <2> QED
    BY <1>1, <1>2 DEF SoundsInv, BucketsTyped
<1> DEFINE refers(y) == \E x \in Clients, g \in ScratchFlows : Refers(flow'[x][g], y)
<1>8. /\ \A y \in Buckets : data'[y] = IF y \in resolves \/ refers(y) THEN data[y] ELSE <<>>
      /\ data' \in [Buckets -> {<<>>} \cup [1 .. Size -> Nat]]
  <2>1. data' = [y \in Buckets |-> IF y \in resolves \/ refers(y) THEN data[y] ELSE <<>>]
    BY <1>1 DEF Collect
  <2>2. data \in [Buckets -> {<<>>} \cup [1 .. Size -> Nat]]
    BY DEF SoundsInv, BucketsTyped
  <2> HIDE DEF refers
  <2> QED
    BY <2>1, <2>2
<1>9. \A y \in Buckets : refers(y) => data'[y] = data[y] /\ data[y] # <<>>
  <2> SUFFICES ASSUME NEW y \in Buckets, refers(y)
               PROVE  data'[y] = data[y] /\ data[y] # <<>>
    OBVIOUS
  <2>1. y \in resolves \/ \E x \in Clients, g \in ScratchFlows : Refers(flow[x][g], y)
    BY <1>4, <1>6 DEF Refers, NoElements
  <2> QED
    BY <1>8, <2>1 DEF SoundsInv, MemoryKept
<1> HIDE DEF f, new, step
<1>10. \A x \in Clients \ {c} : CallOK(x)' /\ Filling(x)' /\ Reading(x)'
  <2>1. \A x \in Clients \ {c}, y \in Buckets, g \in ScratchFlows : Refers(flow[x][g], y) => Grows(y)
    BY <1>6, <1>9 DEF Grows
  <2>2. \A x \in Clients \ {c} : inuse'[x] = inuse[x]
    BY <1>1 DEF SoundsInv, BucketsTyped
  <2>3. \A x \in Clients \ {c}, g \in ScratchFlows : flow'[x][g] = flow[x][g]
    BY <1>6
  <2>4. /\ made' = made /\ resolves' = resolves
        /\ \A x \in Clients \ {c} : /\ call'[x] = call[x] /\ answer'[x] = answer[x]
                                    /\ inuse'[x] \subseteq inuse[x] /\ cache[x] \subseteq cache'[x]
    BY <1>1, <1>7, <2>2
  <2> QED
    BY <2>1, <2>3, <2>4, AllButOne
<1>11. CallOK(c)'
  BY <1>0, <1>1, <1>2, <1>3, <1>7 DEF CallOK, Kinds, step
<1>12. flow'[c][f] = new
  BY <1>3, <1>6
<1>13. Filling(c)'
  <2> SUFFICES ASSUME kind = "create"
               PROVE  Filling(c)'
    BY <1>7 DEF Filling
  <2>1. CASE new = NoElements /\ b \notin resolves
    BY <1>1, <1>7, <1>12, <2>1 DEF Filling, NoElements
  <2>2. CASE new.kind = kind /\ new.bucket = b /\ new.count = 0
    BY <1>0, <1>7, <1>12, <2>2 DEF Filling
  <2> QED
    BY <1>4, <2>1, <2>2
<1>14. Reading(c)'
  <2>1. CASE kind # "read"
    BY <1>1, <1>2, <1>7, <2>1 DEF Reading, Sound
  <2>2. CASE kind = "read"
    <3>1. /\ call'[c].kind = "read" /\ call'[c].step = "transfer" /\ call'[c].flow = f
          /\ call'[c].bucket = b /\ call'[c].left = Size
      BY <1>7, <2>2 DEF step
    <3>2. CASE new = NoElements
      BY <1>12, <3>1, <3>2 DEF Reading, NoElements
    <3>3. CASE new.kind = kind /\ new.bucket = b /\ new.count = 0 /\ b \in resolves
      <4>1. answer[c].data = <<>> /\ (answer[c].whole => b \in made)
        BY <1>1, <1>2, <2>2 DEF Reading
      <4>2. data'[b] = data[b] /\ data[b] # <<>>
        BY <1>2, <1>8, <3>3 DEF SoundsInv, MemoryKept
      <4>3. answer[c].whole => \A i \in 1 .. Size : data'[b][i] # 0
        BY <1>2, <3>3, <4>1, <4>2 DEF SoundsInv, InPlace, Filled
      <4>4. Len(answer[c].data) = 0
        BY <4>1
      <4>5. answer'[c] = answer[c]
        BY <1>1
      <4> HIDE DEF b
      <4> QED
        BY <1>0, <1>12, <2>2, <3>1, <3>3, <4>3, <4>4, <4>5 DEF Reading, Filled, Sound
    <3> QED
      BY <1>4, <3>2, <3>3
  <2> QED
    BY <2>1, <2>2
<1>15. BucketsTyped'
  <2>1. \A x \in Clients, g \in ScratchFlows : FlowOK(flow[x][g])'
    BY <1>5, <1>6 DEF SoundsInv, BucketsTyped, FlowOK
  <2>2. DOMAIN flow' = Clients /\ \A x \in Clients : DOMAIN flow'[x] = ScratchFlows
    BY <1>1 DEF SoundsInv, BucketsTyped
  <2>3. inuse' \in [Clients -> SUBSET ScratchFlows] /\ DOMAIN call' = Clients
    BY <1>1, <1>3 DEF SoundsInv, BucketsTyped
  <2>4. \A x \in Clients : CallOK(x)'
    BY <1>10, <1>11
  <2> QED
    BY <1>1, <1>8, <2>1, <2>2, <2>3, <2>4 DEF SoundsInv, BucketsTyped
<1>16. OnceCreated'
  <2>1. \A y \in Buckets : Known(y)' <=> Known(y)
    BY <1>1 DEF Known
  <2>2. \A x \in Clients : Active(x)' => Known(call'[x].bucket)
    BY <1>2, <1>7 DEF SoundsInv, OnceCreated, Active
  <2>3. \A x \in Clients, g \in ScratchFlows : flow'[x][g].kind # "none" => Known(flow'[x][g].bucket)
    BY <1>2, <1>4, <1>6 DEF SoundsInv, OnceCreated, NoElements
  <2>4. \A y \in Buckets : ~Known(y) => y \notin made /\ data'[y] = <<>>
    <3> HIDE DEF refers
    <3> QED
      BY <1>8 DEF SoundsInv, OnceCreated
  <2> QED
    BY <1>1, <2>1, <2>2, <2>3, <2>4 DEF SoundsInv, OnceCreated, Known, Active
<1>17. MemoryKept'
  <2>1. \A y \in Buckets : y \in resolves => data'[y] # <<>>
    <3> HIDE DEF refers
    <3> QED
      BY <1>8 DEF SoundsInv, MemoryKept
  <2>2. \A y \in Buckets, x \in Clients, g \in ScratchFlows : Refers(flow[x][g], y)' <=> Refers(flow'[x][g], y)
    BY DEF Refers
  <2> QED
    BY <1>1, <1>9, <2>1, <2>2 DEF MemoryKept
<1>18. InPlace'
  <2>1. \A y \in Buckets : data'[y] # <<>> => data'[y] = data[y]
    <3> HIDE DEF refers
    <3> QED
      BY <1>8
  <2> QED
    BY <1>1, <2>1 DEF SoundsInv, InPlace, Filled
<1> QED
  BY <1>10, <1>11, <1>13, <1>14, <1>15, <1>16, <1>17, <1>18 DEF SoundsInv, InCalls

\* Steps of a client c that set up no flow, and neither create nor destroy a bucket.
LEMMA StepKeeps ==
  ASSUME SoundsInv, NEW c \in Clients, UNCHANGED <<created, resolves, destroyed, cache>>,
         made \subseteq made', made' \subseteq {b \in Buckets : Known(b)},
         data' \in [Buckets -> {<<>>} \cup [1 .. Size -> Nat]],
         \A b \in Buckets : (data'[b] = <<>> <=> data[b] = <<>>) /\ Grows(b),
         InPlace',
         DOMAIN flow' = Clients, \A x \in Clients : DOMAIN flow'[x] = ScratchFlows,
         \A x \in Clients, g \in ScratchFlows :
             /\ FlowOK(flow'[x][g]) /\ flow'[x][g].kind = flow[x][g].kind
             /\ flow[x][g].kind # "none" => flow'[x][g].bucket = flow[x][g].bucket
             /\ x # c => flow'[x][g] = flow[x][g],
         inuse' \in [Clients -> SUBSET ScratchFlows], DOMAIN call' = Clients,
         answer' \in [Clients -> [whole : BOOLEAN, data : Seq(Nat)]],
         \A x \in Clients \ {c} : /\ call'[x] = call[x] /\ answer'[x] = answer[x]
                                  /\ inuse'[x] = inuse[x],
         CallOK(c)', Filling(c)', Reading(c)', Active(c)' => Known(call'[c].bucket)
  PROVE  SoundsInv'
<1>1. \A x \in Clients \ {c} : CallOK(x)' /\ Filling(x)' /\ Reading(x)'
  <2>1. \A x \in Clients \ {c} : cache[x] \subseteq cache'[x]
    OBVIOUS
  <2> QED
    BY <2>1, AllButOne
<1>2. BucketsTyped'
  <2>1. \A x \in Clients, g \in ScratchFlows : FlowOK(flow[x][g])'
    BY DEF FlowOK
  <2> QED
    BY <1>1, <2>1 DEF SoundsInv, BucketsTyped
<1>3. OnceCreated'
  <2>1. \A b \in Buckets : Known(b)' <=> Known(b)
    BY DEF Known
  <2>2. \A x \in Clients : Active(x)' => Known(call'[x].bucket)
    BY DEF SoundsInv, OnceCreated, Active
  <2>3. \A x \in Clients, g \in ScratchFlows : flow'[x][g].kind # "none" => Known(flow'[x][g].bucket)
    <3>1. \A x \in Clients, g \in ScratchFlows : flow[x][g].kind # "none" => Known(flow[x][g].bucket)
      BY DEF SoundsInv, OnceCreated
    <3> SUFFICES ASSUME NEW x \in Clients, NEW g \in ScratchFlows, flow'[x][g].kind # "none"
                 PROVE  Known(flow'[x][g].bucket)
      OBVIOUS
    <3>2. flow[x][g].kind # "none" /\ flow'[x][g].bucket = flow[x][g].bucket
      OBVIOUS
    <3> QED
      BY <3>1, <3>2
  <2> QED
    BY <2>1, <2>2, <2>3 DEF SoundsInv, OnceCreated, Known, Active
<1>4. MemoryKept'
  <2>1. \A b \in Buckets, x \in Clients, g \in ScratchFlows : Refers(flow[x][g], b)' <=> Refers(flow[x][g], b)
    BY DEF Refers
  <2> QED
    BY <2>1 DEF SoundsInv, MemoryKept
<1> QED
  BY <1>1, <1>2, <1>3, <1>4 DEF SoundsInv, InCalls

\* The flows stay as they are.
LEMMA FlowsSame ==
  ASSUME SoundsInv, UNCHANGED flow
  PROVE  /\ DOMAIN flow' = Clients /\ \A x \in Clients : DOMAIN flow'[x] = ScratchFlows
         /\ \A x \in Clients, g \in ScratchFlows : FlowOK(flow'[x][g])
BY DEF SoundsInv, BucketsTyped

LEMMA StartFlowKeeps ==
  ASSUME SoundsInv, NEW c \in Clients, StartFlow(c)
  PROVE  SoundsInv'
<1>0. Size \in Nat \ {0}
  BY BucketsAssumption
<1> DEFINE f == call[c].flow
           fl == flow[c][f]
           new == IF fl.kind = "none" THEN fl ELSE [fl EXCEPT !.started = TRUE, !.count = 0]
<1>1. /\ call[c].kind \in {"play", "record"} /\ call[c].step = "start"
      /\ flow' = [flow EXCEPT ![c][f] = new] /\ call' = [call EXCEPT ![c] = Idle]
      /\ UNCHANGED <<created, resolves, destroyed, cache, data, inuse, made, answer>>
  BY DEF StartFlow, Doing, Return, history
<1>2. f \in ScratchFlows /\ FlowOK(fl)
  BY <1>1 DEF SoundsInv, BucketsTyped, CallOK, Kinds
<1>3. FlowOK(new) /\ new.kind = fl.kind /\ (fl.kind # "none" => new.bucket = fl.bucket)
  <2>1. CASE fl.kind = "none"
    BY <1>2, <2>1
  <2>2. CASE fl.kind \in {"create", "read"}
    <3>1. fl \in [kind : {"create", "read"}, bucket : Buckets, count : 0 .. Size,
                  loop : BOOLEAN, started : BOOLEAN, played : {0}]
      BY <1>2, <2>2 DEF FlowOK, NoElements
    <3> HIDE DEF fl
    <3>2. new \in [kind : {"create", "read"}, bucket : Buckets, count : 0 .. Size,
                   loop : BOOLEAN, started : BOOLEAN, played : {0}]
      <4>1. new = [fl EXCEPT !.started = TRUE, !.count = 0]
        BY <2>2
      <4> HIDE DEF new
      <4>2. 0 \in 0 .. Size /\ TRUE \in BOOLEAN
        BY <1>0
      <4> QED
        BY <3>1, <4>1, <4>2
    <3>3. new.kind = fl.kind /\ new.bucket = fl.bucket
      BY <3>1
    <3> HIDE DEF new
    <3> QED
      BY <3>2, <3>3 DEF FlowOK
  <2>3. CASE fl.kind \in {"play", "record"}
    <3>1. fl.bucket \in Buckets
      BY <1>2, <2>3 DEF FlowOK, NoElements
    <3>2. new.kind = fl.kind /\ new.bucket = fl.bucket
      BY <2>3
    <3> HIDE DEF new
    <3> QED
      BY <2>3, <3>1, <3>2 DEF FlowOK
  <2> QED
    BY <1>2, <2>1, <2>2, <2>3 DEF FlowOK, NoElements
<1> HIDE DEF new
<1>4. \A x \in Clients, g \in ScratchFlows :
             /\ FlowOK(flow'[x][g]) /\ flow'[x][g].kind = flow[x][g].kind
             /\ flow[x][g].kind # "none" => flow'[x][g].bucket = flow[x][g].bucket
             /\ x # c => flow'[x][g] = flow[x][g]
  BY <1>1, <1>3 DEF SoundsInv, BucketsTyped
<1>5. call'[c] = Idle /\ (\A x \in Clients \ {c} : call'[x] = call[x]) /\ DOMAIN call' = Clients
      /\ DOMAIN flow' = Clients /\ \A x \in Clients : DOMAIN flow'[x] = ScratchFlows
  BY <1>1 DEF SoundsInv, BucketsTyped
<1>6. CallOK(c)' /\ Filling(c)' /\ ~Active(c)'
  BY <1>5 DEF CallOK, Filling, Active, Idle, Kinds
<1>7. Reading(c)'
  <2>1. Reading(c)
    BY DEF SoundsInv, InCalls
  <2> QED
    BY <1>1, <1>5, <2>1 DEF Reading, Idle, Sound
<1>8. InPlace' /\ \A b \in Buckets : Grows(b)
  BY <1>1 DEF SoundsInv, InPlace, Filled, Grows
<1>9. /\ data' \in [Buckets -> {<<>>} \cup [1 .. Size -> Nat]] /\ inuse' \in [Clients -> SUBSET ScratchFlows]
      /\ answer' \in [Clients -> [whole : BOOLEAN, data : Seq(Nat)]]
      /\ made' = made /\ made \subseteq {b \in Buckets : Known(b)}
  BY <1>1 DEF SoundsInv, BucketsTyped, OnceCreated
<1> QED
  BY <1>1, <1>4, <1>5, <1>6, <1>7, <1>8, <1>9, StepKeeps

\* A flow that copies moves its place.
LEMMA PlaceMoved ==
  ASSUME NEW fl, NEW n \in 0 .. Size, FlowOK(fl), fl.kind \in {"create", "read"}
  PROVE  LET new == [fl EXCEPT !.count = n]
         IN  /\ FlowOK(new) /\ new.kind = fl.kind /\ new.bucket = fl.bucket /\ new.count = n
             /\ fl.count \in 0 .. Size /\ fl.bucket \in Buckets
<1> DEFINE new == [fl EXCEPT !.count = n]
<1>1. fl \in [kind : {"create", "read"}, bucket : Buckets, count : 0 .. Size,
              loop : BOOLEAN, started : BOOLEAN, played : {0}]
  BY DEF FlowOK, NoElements
<1>2. /\ new \in [kind : {"create", "read"}, bucket : Buckets, count : 0 .. Size,
                  loop : BOOLEAN, started : BOOLEAN, played : {0}]
      /\ new.kind = fl.kind /\ new.bucket = fl.bucket /\ new.count = n
  BY <1>1
<1> HIDE DEF new
<1>3. FlowOK(new)
  BY <1>2 DEF FlowOK
<1> QED
  BY <1>1, <1>2, <1>3 DEF new

LEMMA WriteElementKeeps ==
  ASSUME SoundsInv, NEW c \in Clients, WriteElement(c)
  PROVE  SoundsInv'
<1>0. Size \in Nat \ {0}
  BY BucketsAssumption
<1> DEFINE f == call[c].flow
           fl == flow[c][f]
           b == call[c].bucket
           left == call[c].left
           n == Portion(c)
           fits == fl.kind # "none" /\ fl.count + n <= Size
           new == [fl EXCEPT !.count = IF n = left THEN 0 ELSE fl.count + n]
           copied == [i \in 1 .. Size |-> IF i \in fl.count + 1 .. fl.count + n
                                            THEN Size - left + i - fl.count ELSE data[b][i]]
<1>1. /\ call[c].kind = "create" /\ call[c].step = "transfer"
      /\ UNCHANGED <<created, resolves, destroyed, cache, answer>>
  BY DEF WriteElement, Doing
<1>2. /\ f \in ScratchFlows /\ FlowOK(fl) /\ b \in Buckets /\ Known(b) /\ left \in 1 .. Size
      /\ Filling(c) /\ Reading(c) /\ n \in 1 .. left
      /\ {"kind", "step", "bucket", "left"} \subseteq DOMAIN call[c]
  <2>1. CallOK(c)
    BY DEF SoundsInv, BucketsTyped
  <2>2. left \in 1 .. Size /\ f \in ScratchFlows /\ b \in Buckets
        /\ {"kind", "step", "bucket", "left"} \subseteq DOMAIN call[c]
    BY <1>1, <2>1 DEF CallOK, Kinds
  <2>3. FlowOK(fl) /\ Filling(c) /\ Reading(c) /\ Known(b)
    BY <1>1, <2>2 DEF SoundsInv, BucketsTyped, InCalls, OnceCreated, Active, Kinds
  <2> QED
    BY <2>2, <2>3, PortionFits
<1>3. \/ fl.kind = "none" /\ b \notin resolves
      \/ /\ fl.kind = "create" /\ fl.bucket = b /\ fl.count = Size - left
         /\ \A i \in 1 .. fl.count : data[b][i] # 0
  BY <1>1, <1>2 DEF Filling
<1>4. ASSUME call' = [call EXCEPT ![c] = Idle], Release(c, f), made' = made \cup {b}
      PROVE  /\ CallOK(c)' /\ Filling(c)' /\ Reading(c)' /\ ~Active(c)'
             /\ DOMAIN call' = Clients /\ inuse' \in [Clients -> SUBSET ScratchFlows]
             /\ \A x \in Clients \ {c} : call'[x] = call[x] /\ inuse'[x] = inuse[x]
  <2>1. /\ call'[c] = Idle /\ DOMAIN call' = Clients /\ inuse' \in [Clients -> SUBSET ScratchFlows]
        /\ \A x \in Clients \ {c} : call'[x] = call[x] /\ inuse'[x] = inuse[x]
    BY <1>4 DEF SoundsInv, BucketsTyped, Release
  <2>2. CallOK(c)' /\ Filling(c)' /\ ~Active(c)'
    BY <2>1 DEF CallOK, Filling, Active, Idle, Kinds
  <2>3. Reading(c)'
    BY <1>1, <1>2, <2>1 DEF Reading, Idle, Sound
  <2> QED
    BY <2>1, <2>2, <2>3
<1>5. /\ answer' \in [Clients -> [whole : BOOLEAN, data : Seq(Nat)]]
      /\ \A x \in Clients : answer'[x] = answer[x]
      /\ made \subseteq {x \in Buckets : Known(x)}
  BY <1>1 DEF SoundsInv, BucketsTyped, OnceCreated
<1>6. CASE fl.kind = "none"
  <2>1. ~fits
    BY <1>6
  <2>2. /\ UNCHANGED <<data, flow>> /\ call' = [call EXCEPT ![c] = Idle]
        /\ Release(c, f) /\ made' = made \cup {b}
    BY <2>1 DEF WriteElement, Return
  <2>3. InPlace'
    BY <1>1, <1>3, <1>6, <2>2 DEF SoundsInv, InPlace, Filled
  <2>4. /\ data' \in [Buckets -> {<<>>} \cup [1 .. Size -> Nat]]
        /\ \A x \in Buckets : (data'[x] = <<>> <=> data[x] = <<>>) /\ Grows(x)
    BY <2>2 DEF Grows, SoundsInv, BucketsTyped
  <2>5. \A x \in Clients, g \in ScratchFlows : flow'[x][g] = flow[x][g]
    BY <2>2
  <2>6. made \subseteq made' /\ made' \subseteq {x \in Buckets : Known(x)}
    BY <1>2, <1>5, <2>2
  <2> HIDE DEF f, fl, b, left, n, fits, new, copied
  <2> QED
    BY <1>1, <1>4, <1>5, <2>2, <2>3, <2>4, <2>5, <2>6, FlowsSame, StepKeeps
<1>7. CASE fl.kind # "none"
  <2>1. /\ fl.kind = "create" /\ fl.bucket = b /\ fl.count = Size - left
        /\ \A i \in 1 .. fl.count : data[b][i] # 0
    BY <1>3, <1>7
  <2>2. fits /\ fl.count + n \in 1 .. Size
    BY <1>0, <1>2, <1>7, <2>1
  <2>3. /\ data' = [data EXCEPT ![b] = copied] /\ flow' = [flow EXCEPT ![c][f] = new]
    BY <2>1, <2>2 DEF WriteElement
  <2>4. data[b] \in [1 .. Size -> Nat] /\ data[b] # <<>>
    <3>1. Refers(fl, b)
      BY <1>7, <2>1 DEF Refers
    <3> QED
      BY <1>2, <3>1 DEF SoundsInv, MemoryKept, BucketsTyped
  <2>14. fl.count \in Nat /\ n \in Nat /\ left \in Nat /\ n <= left /\ n > 0
    BY <1>0, <1>2, <2>1
  <2> HIDE DEF f, fl, b, left, n, fits
  <2>5. /\ copied \in [1 .. Size -> Nat] /\ copied # <<>>
        /\ \A i \in 1 .. Size : copied[i] = IF i \in fl.count + 1 .. fl.count + n THEN i ELSE data[b][i]
    <3>1. \A i \in 1 .. Size : copied[i] = IF i \in fl.count + 1 .. fl.count + n THEN i ELSE data[b][i]
      BY <1>0, <2>1, <2>2, <2>14
    <3>2. \A i \in 1 .. Size : copied[i] \in Nat
      <4> HIDE DEF copied
      <4> QED
        BY <1>0, <2>4, <3>1
    <3>3. DOMAIN copied = 1 .. Size /\ copied = [i \in 1 .. Size |-> copied[i]]
      OBVIOUS
    <3> HIDE DEF copied
    <3>4. copied \in [1 .. Size -> Nat]
      BY <3>2, <3>3
    <3>5. copied # <<>>
      BY <1>0, <3>3
    <3> QED
      BY <3>1, <3>4, <3>5
  <2> HIDE DEF copied
  <2>6. \A x \in Buckets : data'[x] = IF x = b THEN copied ELSE data[x]
    BY <1>2, <2>3 DEF SoundsInv, BucketsTyped
  <2>7. /\ data' \in [Buckets -> {<<>>} \cup [1 .. Size -> Nat]]
        /\ \A x \in Buckets : (data'[x] = <<>> <=> data[x] = <<>>) /\ Grows(x)
    <3>1. data' \in [Buckets -> {<<>>} \cup [1 .. Size -> Nat]]
      BY <2>3, <2>5 DEF SoundsInv, BucketsTyped
    <3>2. \A i \in 1 .. Size : data[b][i] # 0 => copied[i] # 0
      BY <1>0, <2>5
    <3>3. \A x \in Buckets : (data'[x] = <<>> <=> data[x] = <<>>)
      BY <2>4, <2>5, <2>6
    <3>4. \A x \in Buckets : Grows(x)
      BY <2>6, <3>2 DEF Grows
    <3> QED
      BY <3>1, <3>3, <3>4
  <2>8. (IF n = left THEN 0 ELSE fl.count + n) \in 0 .. Size
    BY <1>0, <2>2
  <2>9. FlowOK(new) /\ new.kind = "create" /\ new.bucket = b
        /\ new.count = IF n = left THEN 0 ELSE fl.count + n
    BY <1>2, <2>1, <2>8, PlaceMoved
  <2> HIDE DEF new
  <2>10. /\ DOMAIN flow' = Clients /\ \A x \in Clients : DOMAIN flow'[x] = ScratchFlows
         /\ \A x \in Clients, g \in ScratchFlows :
               flow'[x][g] = IF x = c /\ g = f THEN new ELSE flow[x][g]
    BY <1>2, <2>3 DEF SoundsInv, BucketsTyped
  <2>11. \A x \in Clients, g \in ScratchFlows :
             /\ FlowOK(flow'[x][g]) /\ flow'[x][g].kind = flow[x][g].kind
             /\ flow[x][g].kind # "none" => flow'[x][g].bucket = flow[x][g].bucket
             /\ x # c => flow'[x][g] = flow[x][g]
    BY <2>1, <2>9, <2>10 DEF SoundsInv, BucketsTyped, fl
  <2>12. CASE n < left
    <3>1. /\ call' = [call EXCEPT ![c].left = left - n] /\ UNCHANGED <<inuse, made>>
      BY <2>1, <2>2, <2>12 DEF WriteElement, f, fl, b, left, n, fits
    <3>2. /\ call'[c].kind = "create" /\ call'[c].step = "transfer" /\ call'[c].bucket = b
          /\ call'[c].flow = f /\ call'[c].left = left - n
          /\ {"kind", "step", "bucket", "left"} \subseteq DOMAIN call'[c]
          /\ DOMAIN call' = Clients /\ \A x \in Clients \ {c} : call'[x] = call[x]
      BY <1>1, <1>2, <3>1 DEF SoundsInv, BucketsTyped, f, b, left
    <3>3. left - n \in 1 .. Size /\ new.count = Size - (left - n)
      BY <1>0, <1>2, <2>1, <2>9, <2>12, <2>14
    <3>4. CallOK(c)' /\ Active(c)'
      BY <1>2, <3>2, <3>3 DEF CallOK, Active, Kinds
    <3>5. \A i \in 1 .. new.count : data'[b][i] # 0
      <4>1. new.count = fl.count + n
        BY <2>9, <2>12, <2>14
      <4> SUFFICES ASSUME NEW i \in 1 .. new.count
                   PROVE  data'[b][i] # 0
        OBVIOUS
      <4>2. i \in 1 .. Size /\ (i \in 1 .. fl.count \/ i \in fl.count + 1 .. fl.count + n)
        BY <1>0, <2>2, <2>14, <4>1
      <4>3. copied[i] # 0
        BY <1>0, <2>1, <2>5, <4>2
      <4> QED
        BY <1>2, <2>6, <4>3
    <3>6. Filling(c)'
      BY <1>2, <2>9, <2>10, <3>2, <3>3, <3>5 DEF Filling
    <3>7. Reading(c)'
      BY <1>1, <1>2, <1>5, <3>2 DEF Reading, Sound
    <3>8. InPlace'
      <4> SUFFICES ASSUME NEW x \in Buckets, data'[x] # <<>>
                   PROVE  /\ \A i \in 1 .. Size : data'[x][i] \in {0, i, Size + i}
                          /\ x \in made \cap resolves => \A i \in 1 .. Size : data'[x][i] # 0
        BY <1>1, <3>1 DEF InPlace, Filled
      <4>1. CASE x = b
        <5>1. \A i \in 1 .. Size : copied[i] \in {data[b][i], i}
          BY <2>5
        <5>2. /\ \A i \in 1 .. Size : data[b][i] \in {0, i, Size + i}
              /\ b \in made \cap resolves => \A i \in 1 .. Size : data[b][i] # 0
          BY <1>2, <2>4 DEF SoundsInv, InPlace, Filled
        <5> QED
          BY <1>0, <2>6, <4>1, <5>1, <5>2
      <4>2. CASE x # b
        BY <2>6, <4>2 DEF SoundsInv, InPlace, Filled
      <4> QED
        BY <4>1, <4>2
    <3>9. /\ made \subseteq made' /\ made' \subseteq {x \in Buckets : Known(x)}
          /\ inuse' \in [Clients -> SUBSET ScratchFlows] /\ inuse' = inuse
      BY <1>5, <3>1 DEF SoundsInv, BucketsTyped
    <3>10. Known(call'[c].bucket)
      BY <1>2, <3>2
    <3> QED
      BY <1>1, <1>5, <2>7, <2>10, <2>11, <3>2, <3>4, <3>6, <3>7, <3>8, <3>9, <3>10, StepKeeps
  <2>13. CASE ~(n < left)
    <3>1. /\ call' = [call EXCEPT ![c] = Idle] /\ Release(c, f) /\ made' = made \cup {b}
      BY <2>13 DEF WriteElement, Return, f, fl, b, left, n, fits
    <3>2. n = left /\ fl.count + n = Size
      BY <1>0, <1>2, <2>1, <2>13
    <3>3. \A i \in 1 .. Size : data'[b][i] # 0
      <4> SUFFICES ASSUME NEW i \in 1 .. Size
                   PROVE  data'[b][i] # 0
        OBVIOUS
      <4>1. i \in 1 .. fl.count \/ i \in fl.count + 1 .. fl.count + n
        BY <1>0, <2>14, <3>2
      <4>2. copied[i] # 0
        BY <1>0, <2>1, <2>5, <4>1
      <4> QED
        BY <1>2, <2>6, <4>2
    <3>4. InPlace'
      <4> SUFFICES ASSUME NEW x \in Buckets, data'[x] # <<>>
                   PROVE  /\ \A i \in 1 .. Size : data'[x][i] \in {0, i, Size + i}
                          /\ x \in made' \cap resolves => \A i \in 1 .. Size : data'[x][i] # 0
        BY <1>1 DEF InPlace, Filled
      <4>1. CASE x = b
        <5>1. \A i \in 1 .. Size : copied[i] \in {data[b][i], i}
          BY <2>5
        <5>2. \A i \in 1 .. Size : data[b][i] \in {0, i, Size + i}
          BY <1>2, <2>4 DEF SoundsInv, InPlace, Filled
        <5> QED
          BY <1>0, <2>6, <3>3, <4>1, <5>1, <5>2
      <4>2. CASE x # b
        BY <2>6, <3>1, <4>2 DEF SoundsInv, InPlace, Filled
      <4> QED
        BY <4>1, <4>2
    <3>5. made \subseteq made' /\ made' \subseteq {x \in Buckets : Known(x)}
      BY <1>2, <1>5, <3>1
    <3> QED
      BY <1>1, <1>4, <1>5, <2>7, <2>10, <2>11, <3>1, <3>4, <3>5, StepKeeps
  <2> QED
    BY <2>12, <2>13
<1> QED
  BY <1>6, <1>7

\* The answer that grows by what a request brings.
LEMMA AnswerGrows ==
  ASSUME NEW have \in Seq(Nat), NEW mem \in [1 .. Size -> Nat], NEW n \in 1 .. Size,
         Len(have) + n <= Size
  PROVE  LET got == have \o SubSeq(mem, Len(have) + 1, Len(have) + n)
         IN  /\ got \in Seq(Nat) /\ Len(got) = Len(have) + n
             /\ \A i \in 1 .. Len(have) + n : got[i] = IF i <= Len(have) THEN have[i] ELSE mem[i]
<1> DEFINE k == Len(have)
           part == SubSeq(mem, k + 1, k + n)
<1>0. Size \in Nat /\ k \in Nat /\ n \in Nat \ {0}
  BY BucketsAssumption, LenProperties
<1>1. \A i \in k + 1 .. k + n : mem[i] \in Nat
  BY <1>0
<1>2. /\ part \in Seq(Nat) /\ Len(part) = n
      /\ \A i \in 1 .. n : part[i] = mem[k + i]
  <2> HIDE DEF k
  <2>1. /\ part \in Seq(Nat)
        /\ Len(part) = IF k + 1 <= k + n THEN k + n - (k + 1) + 1 ELSE 0
        /\ \A i \in 1 .. k + n - (k + 1) + 1 : part[i] = mem[k + 1 + i - 1]
    BY <1>0, <1>1, SubSeqProperties
  <2> HIDE DEF part
  <2> QED
    BY <1>0, <2>1
<1> HIDE DEF part
<1>3. /\ have \o part \in Seq(Nat) /\ Len(have \o part) = k + n
      /\ \A i \in 1 .. k + n : (have \o part)[i] = IF i <= k THEN have[i] ELSE part[i - k]
  BY <1>2, ConcatProperties
<1>4. \A i \in 1 .. k + n : i > k => part[i - k] = mem[i]
  <2> SUFFICES ASSUME NEW i \in 1 .. k + n, i > k
               PROVE  part[i - k] = mem[i]
    OBVIOUS
  <2> HIDE DEF k
  <2>1. i - k \in 1 .. n /\ k + (i - k) = i
    BY <1>0
  <2> QED
    BY <1>2, <2>1
<1>5. \A i \in 1 .. k + n : (have \o part)[i] = IF i <= k THEN have[i] ELSE mem[i]
  BY <1>0, <1>3, <1>4
<1> QED
  BY <1>3, <1>5 DEF part

LEMMA ReadElementKeeps ==
  ASSUME SoundsInv, NEW c \in Clients, ReadElement(c)
  PROVE  SoundsInv'
<1>0. Size \in Nat \ {0}
  BY BucketsAssumption
<1> DEFINE f == call[c].flow
           fl == flow[c][f]
           b == call[c].bucket
           left == call[c].left
           n == Min({Portion(c), Size - fl.count})
           new == [fl EXCEPT !.count = fl.count + n]
           got == answer[c].data \o SubSeq(data[fl.bucket], fl.count + 1, fl.count + n)
<1>1. /\ call[c].kind = "read" /\ call[c].step = "transfer"
      /\ UNCHANGED <<created, resolves, destroyed, cache, data, made>>
  BY DEF ReadElement, Doing
<1>2. /\ f \in ScratchFlows /\ FlowOK(fl) /\ b \in Buckets /\ Known(b) /\ left \in 1 .. Size
      /\ Reading(c) /\ Portion(c) \in 1 .. left
      /\ {"kind", "step", "bucket", "left"} \subseteq DOMAIN call[c]
  <2>1. CallOK(c)
    BY DEF SoundsInv, BucketsTyped
  <2>2. left \in 1 .. Size /\ f \in ScratchFlows /\ b \in Buckets
        /\ {"kind", "step", "bucket", "left"} \subseteq DOMAIN call[c]
    BY <1>1, <2>1 DEF CallOK, Kinds
  <2>3. FlowOK(fl) /\ Reading(c) /\ Known(b)
    BY <1>1, <2>2 DEF SoundsInv, BucketsTyped, InCalls, OnceCreated, Active, Kinds
  <2> QED
    BY <2>2, <2>3, PortionFits
<1>3. /\ InPlace' /\ data' \in [Buckets -> {<<>>} \cup [1 .. Size -> Nat]]
      /\ \A x \in Buckets : (data'[x] = <<>> <=> data[x] = <<>>) /\ Grows(x)
      /\ made \subseteq made' /\ made' \subseteq {x \in Buckets : Known(x)}
  BY <1>1 DEF SoundsInv, BucketsTyped, InPlace, Filled, Grows, OnceCreated
<1>4. ASSUME call' = [call EXCEPT ![c] = Idle] \/ call' = [call EXCEPT ![c] = [kind |-> "stuck"]],
             inuse' = inuse \/ Release(c, f)
      PROVE  /\ CallOK(c)' /\ Filling(c)' /\ ~Active(c)' /\ call'[c].kind # "read"
             /\ DOMAIN call' = Clients /\ inuse' \in [Clients -> SUBSET ScratchFlows]
             /\ \A x \in Clients \ {c} : call'[x] = call[x] /\ inuse'[x] = inuse[x]
  <2>1. /\ call'[c].kind \in {"idle", "stuck"} /\ DOMAIN call' = Clients
        /\ \A x \in Clients \ {c} : call'[x] = call[x]
    BY <1>4 DEF SoundsInv, BucketsTyped, Idle
  <2>2. /\ inuse' \in [Clients -> SUBSET ScratchFlows]
        /\ \A x \in Clients \ {c} : inuse'[x] = inuse[x]
    <3> HIDE DEF f
    <3>1. inuse \in [Clients -> SUBSET ScratchFlows]
      BY DEF SoundsInv, BucketsTyped
    <3>2. CASE inuse' = inuse
      BY <3>1, <3>2
    <3>3. CASE Release(c, f)
      BY <3>1, <3>3 DEF Release
    <3> QED
      BY <1>4, <3>2, <3>3
  <2>3. CallOK(c)' /\ Filling(c)' /\ ~Active(c)'
    BY <2>1 DEF CallOK, Filling, Active, Kinds
  <2> QED
    BY <2>1, <2>2, <2>3
<1>5. CASE fl.kind = "none"
  <2>1. /\ call' = [call EXCEPT ![c] = Idle] \/ call' = [call EXCEPT ![c] = [kind |-> "stuck"]]
        /\ inuse' = inuse \/ Release(c, f)
        /\ answer' = [answer EXCEPT ![c].whole = FALSE] /\ UNCHANGED flow
    BY <1>5 DEF ReadElement, Hang, Return
  <2>2. /\ answer' \in [Clients -> [whole : BOOLEAN, data : Seq(Nat)]] /\ ~answer'[c].whole
        /\ \A x \in Clients \ {c} : answer'[x] = answer[x]
    BY <2>1 DEF SoundsInv, BucketsTyped
  <2>3. Reading(c)'
    BY <1>4, <2>1, <2>2 DEF Reading
  <2>4. \A x \in Clients, g \in ScratchFlows : flow'[x][g] = flow[x][g]
    BY <2>1
  <2> HIDE DEF f, fl, b, left, n, new
  <2> QED
    BY <1>1, <1>3, <1>4, <2>1, <2>2, <2>3, <2>4, FlowsSame, StepKeeps
<1>6. CASE fl.kind # "none"
  <2>1. /\ fl.kind = "read" /\ fl.bucket = b /\ fl.count = Size - left
        /\ answer[c].whole => Filled(b) /\ Sound(c, fl.count)
    BY <1>1, <1>2, <1>6 DEF Reading
  <2>2. /\ answer' = [answer EXCEPT ![c].data = got]
        /\ flow' = [flow EXCEPT ![c][f] = new]
    BY <1>6 DEF ReadElement
  <2>3. n \in 1 .. left /\ fl.count \in Nat /\ left \in Nat /\ fl.count + n \in 0 .. Size
    <3>1. {Portion(c), Size - fl.count} \in SUBSET Nat /\ {Portion(c), Size - fl.count} # {}
      BY <1>0, <1>2, <2>1
    <3>2. n \in {Portion(c), Size - fl.count}
      BY <3>1, MinIsLeast
    <3> HIDE DEF n
    <3> QED
      BY <1>0, <1>2, <2>1, <3>2
  <2>4. data[b] \in [1 .. Size -> Nat] /\ data[b] # <<>>
    <3>1. Refers(fl, b)
      BY <1>6, <2>1 DEF Refers
    <3> QED
      BY <1>2, <3>1 DEF SoundsInv, MemoryKept, BucketsTyped
  <2>14. (n < left => call' = [call EXCEPT ![c].left = left - n] /\ UNCHANGED inuse)
         /\ (~(n < left) => call' = [call EXCEPT ![c] = Idle] /\ Release(c, f))
    <3>1. n > 0
      BY <2>3
    <3> QED
      BY <1>6, <3>1 DEF ReadElement, Return
  <2> HIDE DEF fl, left, n, f, b
  <2>9. FlowOK(new) /\ new.kind = "read" /\ new.bucket = b /\ new.count = fl.count + n
    BY <1>2, <2>1, <2>3, PlaceMoved
  <2> HIDE DEF new
  <2>10. /\ DOMAIN flow' = Clients /\ \A x \in Clients : DOMAIN flow'[x] = ScratchFlows
         /\ \A x \in Clients, g \in ScratchFlows :
               flow'[x][g] = IF x = c /\ g = f THEN new ELSE flow[x][g]
    BY <1>2, <2>2 DEF SoundsInv, BucketsTyped
  <2>11. \A x \in Clients, g \in ScratchFlows :
             /\ FlowOK(flow'[x][g]) /\ flow'[x][g].kind = flow[x][g].kind
             /\ flow[x][g].kind # "none" => flow'[x][g].bucket = flow[x][g].bucket
             /\ x # c => flow'[x][g] = flow[x][g]
    BY <2>1, <2>9, <2>10 DEF SoundsInv, BucketsTyped, fl
  <2>12. answer[c] \in [whole : BOOLEAN, data : Seq(Nat)]
    BY DEF SoundsInv, BucketsTyped
  <2>5. /\ answer[c].whole => /\ got \in Seq(Nat) /\ Len(got) = fl.count + n
                              /\ \A i \in 1 .. fl.count + n : got[i] \in {i, Size + i}
        /\ got \in Seq(Nat)
    <3>1. got \in Seq(Nat)
      <4>1. SubSeq(data[b], fl.count + 1, fl.count + n) \in Seq(Nat)
        <5>1. \A i \in fl.count + 1 .. fl.count + n : data[b][i] \in Nat
          BY <1>0, <2>3, <2>4
        <5>2. fl.count + 1 \in Int /\ fl.count + n \in Int
          BY <2>3
        <5> QED
          BY <5>1, <5>2, SubSeqProperties
      <4> QED
        BY <2>1, <2>12, <4>1, ConcatProperties
    <3>2. ASSUME answer[c].whole
          PROVE  /\ Len(got) = fl.count + n
                 /\ \A i \in 1 .. fl.count + n : got[i] \in {i, Size + i}
      <4> DEFINE have == answer[c].data
      <4>1. have \in Seq(Nat) /\ Len(have) = fl.count /\ Filled(b)
            /\ \A i \in 1 .. fl.count : have[i] \in {i, Size + i}
        BY <2>1, <2>12, <3>2 DEF Sound
      <4>2. got = have \o SubSeq(data[b], Len(have) + 1, Len(have) + n)
        BY <2>1, <4>1
      <4>3. n \in 1 .. Size /\ Len(have) + n <= Size
        BY <1>0, <2>1, <2>3, <4>1
      <4> HIDE DEF have, got
      <4>4. /\ Len(got) = Len(have) + n
            /\ \A i \in 1 .. Len(have) + n : got[i] = IF i <= Len(have) THEN have[i] ELSE data[b][i]
        BY <2>4, <4>1, <4>2, <4>3, AnswerGrows
      <4>5. \A i \in 1 .. Size : data[b][i] \in {i, Size + i}
        BY <1>2, <2>4, <4>1 DEF SoundsInv, InPlace, Filled
      <4>6. \A i \in 1 .. fl.count + n : got[i] \in {i, Size + i}
        <5> SUFFICES ASSUME NEW i \in 1 .. fl.count + n
                     PROVE  got[i] \in {i, Size + i}
          OBVIOUS
        <5>1. i \in 1 .. Size /\ (i <= fl.count => i \in 1 .. fl.count)
          BY <1>0, <2>3
        <5> QED
          BY <4>1, <4>4, <4>5, <5>1
      <4> QED
        BY <4>1, <4>4, <4>6
    <3> QED
      BY <3>1, <3>2
  <2> HIDE DEF got
  <2>6. /\ answer' \in [Clients -> [whole : BOOLEAN, data : Seq(Nat)]]
        /\ answer'[c].whole = answer[c].whole /\ answer'[c].data = got
        /\ \A x \in Clients \ {c} : answer'[x] = answer[x]
    BY <2>2, <2>5 DEF SoundsInv, BucketsTyped
  <2>7. CASE n < left
    <3>1. /\ call' = [call EXCEPT ![c].left = left - n] /\ UNCHANGED inuse
      BY <2>7, <2>14
    <3>2. /\ call'[c].kind = "read" /\ call'[c].step = "transfer" /\ call'[c].bucket = b
          /\ call'[c].flow = f /\ call'[c].left = left - n
          /\ {"kind", "step", "bucket", "left"} \subseteq DOMAIN call'[c]
          /\ DOMAIN call' = Clients /\ \A x \in Clients \ {c} : call'[x] = call[x]
      BY <1>1, <1>2, <3>1 DEF SoundsInv, BucketsTyped, f, b, left
    <3>3. left - n \in 1 .. Size /\ new.count = Size - (left - n)
      BY <1>0, <1>2, <2>1, <2>3, <2>7, <2>9
    <3>4. CallOK(c)' /\ Active(c)' /\ Filling(c)'
      BY <1>2, <3>2, <3>3 DEF CallOK, Active, Kinds, Filling
    <3>5. Reading(c)'
      <4>1. answer'[c].whole =>
               /\ Len(answer'[c].data) = new.count
               /\ \A i \in 1 .. new.count : answer'[c].data[i] \in {i, Size + i}
        BY <2>5, <2>6, <2>9
      <4>2. flow'[c][f] = new
        BY <1>2, <2>10
      <4>3. answer'[c].whole => \A i \in 1 .. Size : data'[b][i] # 0
        BY <1>1, <2>1, <2>6 DEF Filled
      <4> QED
        BY <2>9, <3>2, <3>3, <4>1, <4>2, <4>3 DEF Reading, Filled, Sound
    <3>6. inuse' \in [Clients -> SUBSET ScratchFlows] /\ inuse' = inuse
      BY <3>1 DEF SoundsInv, BucketsTyped
    <3>7. Known(call'[c].bucket)
      BY <1>2, <3>2
    <3> QED
      BY <1>1, <1>3, <2>6, <2>10, <2>11, <3>2, <3>4, <3>5, <3>6, <3>7, StepKeeps
  <2>8. CASE ~(n < left)
    <3>1. /\ call' = [call EXCEPT ![c] = Idle] /\ Release(c, f)
      BY <2>8, <2>14
    <3>2. fl.count + n = Size
      BY <1>0, <2>1, <2>3, <2>8
    <3>3. Reading(c)'
      BY <1>4, <2>5, <2>6, <3>1, <3>2 DEF Reading, Sound
    <3> QED
      BY <1>1, <1>3, <1>4, <2>6, <2>10, <2>11, <3>1, <3>3, StepKeeps
  <2> QED
    BY <2>7, <2>8
<1> QED
  BY <1>5, <1>6

LEMMA ListBucketsKeeps ==
  ASSUME SoundsInv, NEW c \in Clients, ListBuckets(c)
  PROVE  SoundsInv'
<1>1. /\ cache' = [cache EXCEPT ![c] = cache[c] \cup Listed]
      /\ UNCHANGED <<serverVars, inuse, made, answer, call>>
  BY DEF ListBuckets, AddToCache, history
<1>2. Listed \subseteq Buckets /\ \A b \in Listed : Known(b)
  BY DEF Listed, SoundsInv, OnceCreated
<1>3. /\ cache' \in [Clients -> SUBSET Buckets] /\ \A x \in Clients : \A b \in cache'[x] : Known(b)
      /\ \A x \in Clients : cache[x] \subseteq cache'[x]
  <2>1. cache \in [Clients -> SUBSET Buckets] /\ \A x \in Clients : \A b \in cache[x] : Known(b)
    BY DEF SoundsInv, BucketsTyped, OnceCreated
  <2> QED
    BY <1>1, <1>2, <2>1
<1>4. UNCHANGED <<resolves, data, flow>>
  BY <1>1 DEF serverVars
<1>5. CallOK(c)' /\ Filling(c)' /\ Reading(c)'
  BY <1>1, <1>3, <1>4, OthersKeep DEF Grows
<1>6. Active(c)' => Known(call'[c].bucket)
  BY <1>1 DEF SoundsInv, OnceCreated, Active
<1>7. answer' \in [Clients -> [whole : BOOLEAN, data : Seq(Nat)]] /\ DOMAIN call' = Clients
  BY <1>1 DEF SoundsInv, BucketsTyped
<1> QED
  BY <1>1, <1>3, <1>5, <1>6, <1>7, CallKeeps

\* AuDestroyBucket, by a client whose call is over.
LEMMA DestroyBucketKeeps ==
  ASSUME SoundsInv, NEW c \in Clients, DestroyBucket(c)
  PROVE  SoundsInv'
<1>0. Size \in Nat \ {0}
  BY BucketsAssumption
<1>1. PICK b \in cache[c] :
         /\ cache' = [cache EXCEPT ![c] = cache[c] \ {b}]
         /\ IF b \in resolves
              THEN /\ destroyed' = destroyed \cup {b} /\ resolves' = resolves \ {b}
                   /\ data' = Collect(data, resolves \ {b}, flow)
              ELSE UNCHANGED <<destroyed, resolves, data>>
  BY DEF DestroyBucket, RemoveFromCache
<1>2. call[c] = Idle /\ UNCHANGED <<created, flow, inuse, call, made, answer>>
  BY DEF DestroyBucket, Begin, history
<1>3. b \in Buckets /\ Known(b)
  BY DEF SoundsInv, BucketsTyped, OnceCreated
<1> DEFINE refers(y) == \E x \in Clients, g \in ScratchFlows : Refers(flow[x][g], y)
<1>4. /\ \A y \in Buckets : data'[y] = data[y] \/ (data'[y] = <<>> /\ y \notin resolves' /\ ~refers(y))
      /\ data' \in [Buckets -> {<<>>} \cup [1 .. Size -> Nat]]
  <2>1. data \in [Buckets -> {<<>>} \cup [1 .. Size -> Nat]]
    BY DEF SoundsInv, BucketsTyped
  <2>2. CASE b \in resolves
    <3>1. data' = [y \in Buckets |-> IF y \in resolves' \/ refers(y) THEN data[y] ELSE <<>>]
      BY <1>1, <2>2 DEF Collect
    <3> HIDE DEF refers
    <3> QED
      BY <2>1, <3>1
  <2>3. CASE b \notin resolves
    BY <1>1, <2>1, <2>3
  <2> HIDE DEF refers
  <2> QED
    BY <2>2, <2>3
<1>5. \A y \in Buckets : y \in resolves' => y \in resolves
  BY <1>1
<1>6. \A y \in Buckets : refers(y) => Grows(y)
  <2> HIDE DEF refers
  <2> QED
    BY <1>4 DEF Grows
<1>7. \A x \in Clients \ {c} : CallOK(x)' /\ Filling(x)' /\ Reading(x)'
  <2>1. \A x \in Clients \ {c} : cache[x] \subseteq cache'[x]
    BY <1>1 DEF SoundsInv, BucketsTyped
  <2> QED
    BY <1>2, <1>5, <1>6, <2>1, AllButOne
<1>8. CallOK(c)' /\ Filling(c)' /\ Reading(c)'
  <2>1. Reading(c)
    BY DEF SoundsInv, InCalls
  <2> QED
    BY <1>2, <2>1 DEF CallOK, Filling, Reading, Idle, Sound
<1>9. BucketsTyped'
  <2>1. \A x \in Clients, g \in ScratchFlows : FlowOK(flow[x][g])'
    BY <1>2 DEF SoundsInv, BucketsTyped, FlowOK
  <2>2. cache' \in [Clients -> SUBSET Buckets] /\ resolves' \subseteq Buckets
    BY <1>1 DEF SoundsInv, BucketsTyped
  <2> QED
    BY <1>2, <1>4, <1>7, <1>8, <2>1, <2>2 DEF SoundsInv, BucketsTyped
<1>10. OnceCreated'
  <2>1. \A y \in Buckets : Known(y) <=> y \in resolves' \cup destroyed'
    BY <1>1, <1>3 DEF SoundsInv, OnceCreated
  <2>2. \A y \in Buckets : ~Known(y) => data'[y] = <<>>
    <3> HIDE DEF refers
    <3> QED
      BY <1>4 DEF SoundsInv, OnceCreated
  <2>3. \A x \in Clients : cache'[x] \subseteq cache[x]
    BY <1>1 DEF SoundsInv, BucketsTyped
  <2> QED
    BY <1>2, <2>1, <2>2, <2>3 DEF SoundsInv, OnceCreated, Known, Active
<1>11. MemoryKept'
  <2>1. \A y \in Buckets : y \in resolves' \/ refers(y) => data'[y] # <<>>
    BY <1>4, <1>5 DEF SoundsInv, MemoryKept
  <2>2. \A y \in Buckets, x \in Clients, g \in ScratchFlows : Refers(flow[x][g], y)' <=> Refers(flow[x][g], y)
    BY <1>2 DEF Refers
  <2> QED
    BY <2>1, <2>2 DEF MemoryKept
<1>12. InPlace'
  <2>1. \A y \in Buckets : data'[y] # <<>> => data'[y] = data[y]
    <3> HIDE DEF refers
    <3> QED
      BY <1>4
  <2> QED
    BY <1>2, <1>5, <2>1 DEF SoundsInv, InPlace, Filled
<1> QED
  BY <1>7, <1>8, <1>9, <1>10, <1>11, <1>12 DEF SoundsInv, InCalls

\* The application asks for a stop, or an event is handled: no call goes on.
LEMMA IdleKeeps ==
  ASSUME SoundsInv, NEW c \in Clients, AskStop(c) \/ HandleEvent(c)
  PROVE  SoundsInv'
<1>1. call[c] = Idle /\ UNCHANGED <<serverVars, cache, call, made, answer>>
  BY DEF AskStop, HandleEvent, Begin, history
<1>2. UNCHANGED <<created, resolves, destroyed, data, flow>>
  BY <1>1 DEF serverVars
<1>3. inuse' = inuse \/ \E f : Release(c, f)
  BY DEF AskStop, HandleEvent
<1>4. inuse' \in [Clients -> SUBSET ScratchFlows] /\ \A x \in Clients \ {c} : inuse'[x] = inuse[x]
  <2>1. inuse \in [Clients -> SUBSET ScratchFlows]
    BY DEF SoundsInv, BucketsTyped
  <2>2. CASE inuse' = inuse
    BY <2>1, <2>2
  <2>3. ASSUME NEW f, Release(c, f)
        PROVE  inuse' \in [Clients -> SUBSET ScratchFlows] /\ \A x \in Clients \ {c} : inuse'[x] = inuse[x]
    BY <2>1, <2>3 DEF Release
  <2> QED
    BY <1>3, <2>2, <2>3
<1>5. CallOK(c)' /\ Filling(c)' /\ Reading(c)' /\ ~Active(c)'
  <2>1. Reading(c)
    BY DEF SoundsInv, InCalls
  <2> QED
    BY <1>1, <2>1 DEF CallOK, Filling, Reading, Active, Kinds, Idle, Sound
<1>6. InPlace' /\ \A b \in Buckets : Grows(b)
  BY <1>1, <1>2 DEF SoundsInv, InPlace, Filled, Grows
<1>7. /\ data' \in [Buckets -> {<<>>} \cup [1 .. Size -> Nat]] /\ DOMAIN call' = Clients
      /\ answer' \in [Clients -> [whole : BOOLEAN, data : Seq(Nat)]]
      /\ made' = made /\ made \subseteq {b \in Buckets : Known(b)}
  BY <1>1, <1>2 DEF SoundsInv, BucketsTyped, OnceCreated
<1> QED
  BY <1>1, <1>2, <1>4, <1>5, <1>6, <1>7, FlowsSame, StepKeeps

\* ProcAuSetElementStates stops flows that play or record only.
LEMMA ExecuteStopKeeps ==
  ASSUME SoundsInv, NEW c \in Clients, ExecuteStop(c)
  PROVE  SoundsInv'
<1>1. UNCHANGED <<created, resolves, destroyed, data, cache, inuse, call, made, answer>>
  BY DEF ExecuteStop, libraryVars, history
<1> DEFINE f == Head(stops[c])
           fl == flow[c][f]
<1>2. \/ UNCHANGED flow
      \/ Started(fl) /\ flow' = [flow EXCEPT ![c][f].started = FALSE]
  BY DEF ExecuteStop
<1>3. \A x \in Clients, g \in ScratchFlows :
             /\ FlowOK(flow'[x][g]) /\ flow'[x][g].kind = flow[x][g].kind
             /\ flow[x][g].kind # "none" => flow'[x][g].bucket = flow[x][g].bucket
             /\ flow[x][g].kind \in {"none", "create", "read"} => flow'[x][g] = flow[x][g]
             /\ x # c => flow'[x][g] = flow[x][g]
  <2>1. \A x \in Clients, g \in ScratchFlows : FlowOK(flow[x][g])
    BY DEF SoundsInv, BucketsTyped
  <2>2. CASE UNCHANGED flow
    BY <2>1, <2>2
  <2>3. CASE Started(fl) /\ flow' = [flow EXCEPT ![c][f].started = FALSE]
    <3> DEFINE new == [fl EXCEPT !.started = FALSE]
    <3>1. \A x \in Clients, g \in ScratchFlows :
              flow'[x][g] = IF x = c /\ g = f THEN new ELSE flow[x][g]
      BY <2>3 DEF SoundsInv, BucketsTyped
    <3>2. fl.kind \in {"play", "record"}
      BY <2>3 DEF Started
    <3>3. new.kind = fl.kind /\ new.bucket = fl.bucket
      OBVIOUS
    <3>4. f \in ScratchFlows => fl.bucket \in Buckets
      BY <2>1, <3>2 DEF FlowOK, NoElements
    <3>5. f \in ScratchFlows => FlowOK(new)
      <4> HIDE DEF new
      <4> QED
        BY <3>2, <3>3, <3>4 DEF FlowOK
    <3> HIDE DEF new, f
    <3> QED
      BY <2>1, <3>1, <3>2, <3>3, <3>5
  <2> QED
    BY <1>2, <2>2, <2>3
<1>4. DOMAIN flow' = Clients /\ \A x \in Clients : DOMAIN flow'[x] = ScratchFlows
  BY <1>2 DEF SoundsInv, BucketsTyped
<1>5. InPlace' /\ \A b \in Buckets : Grows(b)
  BY <1>1 DEF SoundsInv, InPlace, Filled, Grows
<1>6. CallOK(c)' /\ Filling(c)' /\ Reading(c)'
  BY <1>1, <1>3, <1>5, OthersKeep
<1>7. Active(c)' => Known(call'[c].bucket)
  BY <1>1 DEF SoundsInv, OnceCreated, Active
<1>8. /\ data' \in [Buckets -> {<<>>} \cup [1 .. Size -> Nat]] /\ DOMAIN call' = Clients
      /\ answer' \in [Clients -> [whole : BOOLEAN, data : Seq(Nat)]]
      /\ inuse' \in [Clients -> SUBSET ScratchFlows]
      /\ made' = made /\ made \subseteq {b \in Buckets : Known(b)}
  BY <1>1 DEF SoundsInv, BucketsTyped, OnceCreated
<1> QED
  BY <1>1, <1>3, <1>4, <1>5, <1>6, <1>7, <1>8, StepKeeps

LEMMA BucketsNextKeeps ==
  ASSUME SoundsInv, [BucketsNext]_bucketVars
  PROVE  SoundsInv'
<1>1. CASE Tick
  BY <1>1, TickKeeps
<1>2. ASSUME NEW c \in Clients, Application(c)
      PROVE  SoundsInv'
  BY <1>2, CreateBucketKeeps, UseBucketKeeps, ListBucketsKeeps, DestroyBucketKeeps, IdleKeeps
     DEF Application
<1>3. ASSUME NEW c \in Clients, Step(c)
      PROVE  SoundsInv'
  BY <1>3, GetAttributesKeeps, SetElementsKeeps, StartFlowKeeps, WriteElementKeeps,
     ReadElementKeeps DEF Step
<1>4. ASSUME NEW c \in Clients, HandleEvent(c) \/ ExecuteStop(c)
      PROVE  SoundsInv'
  BY <1>4, IdleKeeps, ExecuteStopKeeps
<1>5. CASE UNCHANGED bucketVars
  <2>1. UNCHANGED <<created, resolves, destroyed, data, flow, cache, inuse, call, made, answer>>
    BY <1>5 DEF bucketVars, serverVars, libraryVars, history
  <2>2. InPlace' /\ MemoryKept' /\ \A b \in Buckets : Grows(b)
    BY <2>1 DEF SoundsInv, InPlace, Filled, Grows, MemoryKept, Refers
  <2>3. \A c \in Clients \ {} : CallOK(c)' /\ Filling(c)' /\ Reading(c)'
    BY <2>1, <2>2, AllButOne
  <2>4. BucketsTyped'
    <3>1. \A x \in Clients, g \in ScratchFlows : FlowOK(flow[x][g])'
      BY <2>1 DEF SoundsInv, BucketsTyped, FlowOK
    <3> QED
      BY <2>1, <2>3, <3>1 DEF SoundsInv, BucketsTyped
  <2>5. OnceCreated'
    BY <2>1 DEF SoundsInv, OnceCreated, Known, Active
  <2> QED
    BY <2>2, <2>3, <2>4, <2>5 DEF SoundsInv, InCalls
<1> QED
  BY <1>1, <1>2, <1>3, <1>4, <1>5 DEF BucketsNext

\* Nothing is stored at another place than its own, a complete bucket is read
\* as a whole, and what ProcAuListBuckets lists can be used (audispatch.c:374,
\* 1243, 1342): for all clients, buckets, scratch flows and sizes.
THEOREM SoundsAlwaysKept == BucketsSpec => []SoundsKept
<1>1. BucketsInit => SoundsInv
  BY SoundsInitHold
<1>2. SoundsInv /\ [BucketsNext]_bucketVars => SoundsInv'
  BY BucketsNextKeeps
<1>3. SoundsInv => SoundsKept
  BY InvariantImplies
<1> QED
  BY <1>1, <1>2, <1>3, PTL DEF BucketsSpec
=============================================================================

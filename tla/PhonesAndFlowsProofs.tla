------------------------ MODULE PhonesAndFlowsProofs ------------------------
(* A phone in a conversation is engaged, for any number of phones, slots and *)
(* calls.                                                                    *)
(* The devices follow the flows: a proof for any flows with any actions, any *)
(* devices and any points at which the interrupt may come, as long as it     *)
(* comes neither between the enabling of the driver and the note of it nor   *)
(* after a reset that was hurried.                                           *)
(* What the interrupt runs has elements: a proof for any flows, if the       *)
(* interrupt does not come into the passes that compile them or between the  *)
(* count of element states and its storage.                                  *)
EXTENDS Phones, ClockedFlows, CountingLemmas

-----------------------------------------------------------------------------
(* The inductive invariant.                                                  *)

Conns == [Phones -> [SlotNums -> Connections \cup {NoConn}]]

Typed ==
    /\ conn \in Conns
    /\ busy \in [Phones -> Seq(SlotNums)] /\ stops \in [Phones -> Seq(SlotNums)]
    /\ remote \in [Phones -> Remotes \cup {NoRemote}]
    /\ caller \in [Phones -> Remotes \cup {NoRemote}]
    /\ callback \in [Phones -> {"none", "answered", "hangup"}]
    /\ volFlow \in [Phones -> 0 .. Slots] /\ hangups \in [Phones -> Nat]
    /\ mode \in [Phones -> {"idle", "busy", "ringing", "talk"}]
    /\ pc \in [Phones -> {"loop", "ring", "connect", "wait"}]
    /\ calls \in [Phones -> 0 .. MaxCalls]

HasBucket(s, x) == x \in ToSet(busy[s])
Sounding(c) == c.flow \in {"ring", "talk"}

\* Nothing of the flow is on its way, and it does not play.
Quiet(c) == c.todo = "none" /\ ~Sounding(c) /\ c.events = 0

\* A request, the flow that it starts and the event when that stops follow one
\* another; the first to start the flow of a connection leaves a bucket.
ConnSound(s, x) ==
    LET c == conn[s][x]
    IN  IF c = NoConn THEN ~HasBucket(s, x)
        ELSE /\ c.events <= 1
             /\ c.todo # "none" => ~Sounding(c) /\ c.events = 0
             /\ Sounding(c) => c.events = 0
             /\ Sounding(c) \/ c.todo = "talk" \/ c.events # 0 => HasBucket(s, x)
             /\ c.todo \in {"ring", "answer"} => ~HasBucket(s, x)

\* No slot has two buckets.
NoneTwice(q) == \A i, j \in 1 .. Len(q) : q[i] = q[j] => i = j

\* A phone that runs has the connection that it knows of; before its flow rings
\* and after it was answered the flow is quiet.
PhoneSound(p) ==
    p \notin exited =>
      /\ remote[p] # NoRemote => Mine(p) # NoConn /\ Mine(p).owner = p /\ ~Mine(p).closed
      /\ pc[p] \in {"ring", "wait"} => remote[p] # NoRemote /\ Quiet(Mine(p))
      /\ pc[p] = "ring" => ~HasBucket(remote[p].server, remote[p].slot)
      /\ pc[p] = "wait" => HasBucket(remote[p].server, remote[p].slot)
      /\ pc[p] = "connect" => caller[p] # NoRemote

PhonesInv ==
    /\ Typed
    /\ \A s \in Phones : NoneTwice(busy[s])
    /\ \A s \in Phones, x \in SlotNums : ConnSound(s, x)
    /\ \A p \in Phones : PhoneSound(p)

-----------------------------------------------------------------------------
(* Buckets come first in the list, and one goes out of it.                   *)

LEMMA InList ==
  ASSUME NEW S, NEW q \in Seq(S), NEW x
  PROVE  x \in ToSet(q) <=> \E i \in 1 .. Len(q) : q[i] = x
BY DEF ToSet

LEMMA Prepended ==
  ASSUME NEW S, NEW q \in Seq(S), NEW x \in S
  PROVE  /\ <<x>> \o q \in Seq(S)
         /\ \A y : y \in ToSet(<<x>> \o q) <=> y = x \/ y \in ToSet(q)
         /\ NoneTwice(q) /\ x \notin ToSet(q) => NoneTwice(<<x>> \o q)
<1>1. PICK u \in Seq(S) : u = <<x>> \o q
  <2>1. <<x>> \in Seq(S)
    OBVIOUS
  <2>2. <<x>> \o q \in Seq(S)
    BY <2>1
  <2> QED
    BY <2>2
<1>2. Len(u) = Len(q) + 1 /\ u[1] = x /\ Len(q) \in Nat
  BY <1>1
<1>3. \A i \in 1 .. Len(q) : u[i + 1] = q[i]
  BY <1>1
<1>4. \A i \in 1 .. Len(u) : i = 1 \/ (i - 1 \in 1 .. Len(q) /\ u[i] = q[i - 1])
  <2> SUFFICES ASSUME NEW i \in 1 .. Len(u), i # 1
               PROVE  i - 1 \in 1 .. Len(q) /\ u[i] = q[i - 1]
    OBVIOUS
  <2>1. i - 1 \in 1 .. Len(q) /\ (i - 1) + 1 = i
    BY <1>2
  <2> QED
    BY <1>3, <2>1
<1>5. \A y : y \in ToSet(u) <=> y = x \/ y \in ToSet(q)
  <2> SUFFICES ASSUME NEW y PROVE y \in ToSet(u) <=> y = x \/ y \in ToSet(q)
    OBVIOUS
  <2>1. ASSUME y = x \/ y \in ToSet(q) PROVE y \in ToSet(u)
    <3>1. CASE y = x
      BY <1>2, <3>1, InList
    <3>2. CASE y \in ToSet(q)
      <4>1. PICK i \in 1 .. Len(q) : q[i] = y
        BY <3>2, InList
      <4>2. i + 1 \in 1 .. Len(u) /\ u[i + 1] = y
        BY <1>2, <1>3, <4>1
      <4> QED
        BY <4>2, InList
    <3> QED
      BY <2>1, <3>1, <3>2
  <2>2. ASSUME y \in ToSet(u) PROVE y = x \/ y \in ToSet(q)
    <3>1. PICK i \in 1 .. Len(u) : u[i] = y
      BY <2>2, InList
    <3> QED
      BY <1>2, <1>4, <3>1, InList
  <2> QED
    BY <2>1, <2>2
<1>6. ASSUME NoneTwice(q), x \notin ToSet(q) PROVE NoneTwice(u)
  <2> SUFFICES ASSUME NEW i \in 1 .. Len(u), NEW j \in 1 .. Len(u), u[i] = u[j] PROVE i = j
    BY DEF NoneTwice
  <2>1. \A k \in 1 .. Len(q) : q[k] # x
    BY <1>6, InList
  <2>2. CASE i = 1 \/ j = 1
    BY <1>2, <1>4, <2>1, <2>2
  <2>3. CASE i # 1 /\ j # 1
    <3>1. i - 1 \in 1 .. Len(q) /\ j - 1 \in 1 .. Len(q) /\ q[i - 1] = q[j - 1]
      BY <1>4, <2>3
    <3>2. i - 1 = j - 1
      BY <1>6, <3>1 DEF NoneTwice
    <3> QED
      BY <3>2
  <2> QED
    BY <2>2, <2>3
<1> QED
  BY <1>1, <1>5, <1>6

LEMMA RemovedAt ==
  ASSUME NEW S, NEW q \in Seq(S), NEW k \in 1 .. Len(q), NoneTwice(q)
  PROVE  /\ RemoveAt(q, k) \in Seq(S)
         /\ \A y : y \in ToSet(RemoveAt(q, k)) <=> y \in ToSet(q) /\ y # q[k]
         /\ NoneTwice(RemoveAt(q, k))
<1>1. PICK n \in Nat : n = Len(q)
  OBVIOUS
<1>2. PICK a \in Seq(S), b \in Seq(S) : a = SubSeq(q, 1, k - 1) /\ b = SubSeq(q, k + 1, n)
  <2>1. SubSeq(q, 1, k - 1) \in Seq(S) /\ SubSeq(q, k + 1, n) \in Seq(S)
    BY <1>1
  <2> QED
    BY <2>1
<1>3. /\ Len(a) = k - 1 /\ Len(b) = n - k
      /\ \A i \in 1 .. k - 1 : a[i] = q[i]
      /\ \A i \in 1 .. n - k : b[i] = q[i + k]
  <2>1. Len(a) = k - 1 /\ Len(b) = n - k
    BY <1>1, <1>2
  <2>2. \A i \in 1 .. k - 1 : a[i] = q[i]
    BY <1>1, <1>2
  <2>3. \A i \in 1 .. n - k : b[i] = q[i + k]
    BY <1>1, <1>2
  <2> QED
    BY <2>1, <2>2, <2>3
<1>4. PICK u \in Seq(S) : u = a \o b
  <2>1. a \o b \in Seq(S)
    OBVIOUS
  <2> QED
    BY <2>1
<1>5. u = RemoveAt(q, k)
  BY <1>1, <1>2, <1>4 DEF RemoveAt
<1>6. Len(u) = n - 1
  BY <1>1, <1>3, <1>4
<1>7. \A i \in 1 .. n - 1 : u[i] = IF i < k THEN q[i] ELSE q[i + 1]
  <2> SUFFICES ASSUME NEW i \in 1 .. n - 1 PROVE u[i] = IF i < k THEN q[i] ELSE q[i + 1]
    OBVIOUS
  <2>1. CASE i < k
    <3>1. i \in 1 .. Len(a)
      BY <1>1, <1>3, <2>1
    <3>2. u[i] = a[i]
      BY <1>4, <3>1
    <3> QED
      BY <1>3, <2>1, <3>1, <3>2
  <2>2. CASE ~(i < k)
    <3>1. i - (k - 1) \in 1 .. Len(b) /\ Len(a) = k - 1 /\ i > Len(a) /\ i <= Len(a) + Len(b)
      BY <1>1, <1>3, <2>2
    <3>2. u[i] = b[i - (k - 1)]
      <4>1. Len(a) + (i - (k - 1)) = i
        BY <1>1, <3>1
      <4>2. u[Len(a) + (i - (k - 1))] = b[i - (k - 1)]
        BY <1>4, <3>1, SequenceJoin
      <4> QED
        BY <4>1, <4>2
    <3>3. i - (k - 1) \in 1 .. n - k /\ (i - (k - 1)) + k = i + 1
      BY <1>1, <1>3, <3>1
    <3>4. b[i - (k - 1)] = q[(i - (k - 1)) + k]
      BY <1>3, <3>3
    <3> QED
      BY <2>2, <3>2, <3>3, <3>4
  <2> QED
    BY <2>1, <2>2
<1>8. \A y : y \in ToSet(u) <=> y \in ToSet(q) /\ y # q[k]
  <2> SUFFICES ASSUME NEW y PROVE y \in ToSet(u) <=> y \in ToSet(q) /\ y # q[k]
    OBVIOUS
  <2>1. ASSUME y \in ToSet(u) PROVE y \in ToSet(q) /\ y # q[k]
    <3>1. PICK i \in 1 .. n - 1 : u[i] = y
      BY <1>6, <2>1, InList
    <3>2. PICK j \in 1 .. n : j = (IF i < k THEN i ELSE i + 1) /\ j # k
      BY <1>1, <3>1
    <3>3. q[j] = y
      BY <1>7, <3>1, <3>2
    <3>4. q[j] # q[k]
      BY <1>1, <3>2 DEF NoneTwice
    <3> QED
      BY <1>1, <3>3, <3>4, InList
  <2>2. ASSUME y \in ToSet(q), y # q[k] PROVE y \in ToSet(u)
    <3>1. PICK j \in 1 .. n : q[j] = y /\ j # k
      BY <1>1, <2>2, InList
    <3>2. PICK i \in 1 .. n - 1 : i = IF j < k THEN j ELSE j - 1
      BY <1>1, <3>1
    <3>3. u[i] = q[j]
      <4>1. CASE j < k
        BY <1>1, <1>7, <3>2, <4>1
      <4>2. CASE ~(j < k)
        <5>1. i = j - 1 /\ ~(i < k) /\ i + 1 = j
          BY <1>1, <3>1, <3>2, <4>2
        <5> QED
          BY <1>7, <5>1
      <4> QED
        BY <4>1, <4>2
    <3> QED
      BY <1>6, <3>1, <3>2, <3>3, InList
  <2> QED
    BY <2>1, <2>2
<1>9. NoneTwice(u)
  <2> SUFFICES ASSUME NEW i \in 1 .. n - 1, NEW j \in 1 .. n - 1, u[i] = u[j] PROVE i = j
    BY <1>6 DEF NoneTwice
  <2>1. PICK v \in 1 .. n, w \in 1 .. n : /\ v = IF i < k THEN i ELSE i + 1
                                          /\ w = IF j < k THEN j ELSE j + 1
    BY <1>1
  <2>2. q[v] = q[w]
    BY <1>7, <2>1
  <2>3. v = w
    BY <1>1, <2>2 DEF NoneTwice
  <2> QED
    BY <1>1, <2>1, <2>3
<1> QED
  BY <1>5, <1>8, <1>9

LEMMA Removed ==
  ASSUME NEW S, NEW q \in Seq(S), NEW x, NoneTwice(q)
  PROVE  /\ RemoveFirst(q, x) \in Seq(S)
         /\ \A y : y \in ToSet(RemoveFirst(q, x)) <=> y \in ToSet(q) /\ y # x
         /\ NoneTwice(RemoveFirst(q, x))
<1> DEFINE T == {i \in 1 .. Len(q) : q[i] = x}
<1>1. CASE T = {}
  <2>1. RemoveFirst(q, x) = q
    BY <1>1 DEF RemoveFirst
  <2>2. x \notin ToSet(q)
    BY <1>1, InList
  <2> QED
    BY <2>1, <2>2
<1>2. CASE T # {}
  <2>1. T \in SUBSET Nat
    OBVIOUS
  <2>2. Min(T) \in T
    BY <1>2, <2>1, MinIsLeast
  <2>3. PICK k \in 1 .. Len(q) : k = Min(T) /\ q[k] = x
    BY <2>2
  <2>4. RemoveFirst(q, x) = RemoveAt(q, k)
    <3>1. SelectInSeq(q, LAMBDA v : v = x) = k
      BY <1>2, <2>3 DEF SelectInSeq
    <3> QED
      BY <2>3, <3>1 DEF RemoveFirst
  <2>5. /\ RemoveAt(q, k) \in Seq(S)
        /\ \A y : y \in ToSet(RemoveAt(q, k)) <=> y \in ToSet(q) /\ y # q[k]
        /\ NoneTwice(RemoveAt(q, k))
    BY RemovedAt
  <2> QED
    BY <2>3, <2>4, <2>5
<1> QED
  BY <1>1, <1>2

-----------------------------------------------------------------------------
(* Steps that change one connection.                                         *)

LEMMA Constants ==
  /\ Slots \in Nat /\ MaxCalls \in Nat /\ SlotNums \in SUBSET Nat
  /\ NoConn \notin Connections /\ NoRemote \notin Remotes
  /\ \A x \in SlotNums : x \in 0 .. Slots /\ x # 0
  /\ \A x \in 0 .. Slots : x # 0 => x \in SlotNums
BY PhonesAssumption DEF SlotNums

LEMMA FreeSlot ==
  ASSUME NEW s \in Phones, FreeSlots(s) # {}
  PROVE  NextSlot(s) \in SlotNums /\ conn[s][NextSlot(s)] = NoConn
<1>1. FreeSlots(s) \in SUBSET Nat
  BY Constants DEF FreeSlots
<1>2. Min(FreeSlots(s)) \in FreeSlots(s)
  BY <1>1, MinIsLeast
<1> QED
  BY <1>2 DEF FreeSlots, NextSlot

\* One connection of the table f made d.
Put(f, s, x, d) == [f EXCEPT ![s][x] = d]

LEMMA FieldSet ==
  ASSUME NEW f \in Conns, NEW s \in Phones, NEW x \in SlotNums, NEW d \in Connections \cup {NoConn}
  PROVE  /\ Put(f, s, x, d) \in Conns /\ Put(f, s, x, d)[s][x] = d
         /\ \A t \in Phones, y \in SlotNums : ~(t = s /\ y = x) => Put(f, s, x, d)[t][y] = f[t][y]
<1> DEFINE All == Connections \cup {NoConn}
<1>1. f \in [Phones -> [SlotNums -> All]] /\ d \in All
  BY DEF Conns
<1> HIDE DEF All
<1>2. PICK g : g = [f EXCEPT ![s][x] = d]
  OBVIOUS
<1>3. /\ g \in [Phones -> [SlotNums -> All]] /\ g[s][x] = d
      /\ \A t \in Phones, y \in SlotNums : ~(t = s /\ y = x) => g[t][y] = f[t][y]
  BY <1>1, <1>2
<1> QED
  BY <1>2, <1>3 DEF All, Conns, Put

LEMMA ConnSet ==
  ASSUME PhonesInv, NEW s \in Phones, NEW x \in SlotNums, NEW d \in Connections \cup {NoConn},
         conn' = Put(conn, s, x, d)
  PROVE  /\ conn' \in Conns /\ conn'[s][x] = d
         /\ \A t \in Phones, y \in SlotNums : ~(t = s /\ y = x) => conn'[t][y] = conn[t][y]
<1>1. conn \in Conns
  BY DEF PhonesInv, Typed
<1> QED
  BY <1>1, FieldSet

LEMMA ConnTyped ==
  ASSUME PhonesInv, NEW s \in Phones, NEW x \in SlotNums
  PROVE  conn \in Conns /\ (conn[s][x] = NoConn \/ conn[s][x] \in Connections)
BY DEF PhonesInv, Typed, Conns

\* Equal but for what is recorded as history.
Same(c, d) == \/ c = NoConn /\ d = NoConn
              \/ /\ c # NoConn /\ d # NoConn
                 /\ d.owner = c.owner /\ d.closed = c.closed /\ d.todo = c.todo
                 /\ d.flow = c.flow /\ d.events = c.events

\* The connection that a running phone knows of.
LEMMA MineIs ==
  ASSUME PhonesInv, NEW p \in Phones, p \notin exited, remote[p] # NoRemote
  PROVE  /\ remote[p].server \in Phones /\ remote[p].slot \in SlotNums
         /\ Mine(p) = conn[remote[p].server][remote[p].slot]
         /\ Mine(p) \in Connections /\ Mine(p) # NoConn /\ Mine(p).owner = p /\ ~Mine(p).closed
         /\ ConnSound(remote[p].server, remote[p].slot)
<1>1. remote[p] \in Remotes
  BY DEF PhonesInv, Typed
<1>2. remote[p].server \in Phones /\ remote[p].slot \in SlotNums
  BY <1>1 DEF Remotes
<1>3. Mine(p) # NoConn /\ Mine(p).owner = p /\ ~Mine(p).closed
  BY DEF PhonesInv, PhoneSound
<1>4. \/ conn[remote[p].server][remote[p].slot] = NoConn
      \/ conn[remote[p].server][remote[p].slot] \in Connections
  BY <1>2, ConnTyped
<1> QED
  BY <1>2, <1>3, <1>4 DEF PhonesInv, Mine

\* The phone r need not have anything to do with the connection.
Apart(r, s, x) ==
    /\ remote'[r] = remote[r] /\ pc'[r] = pc[r] /\ caller'[r] = caller[r]
    /\ r \notin exited' =>
         /\ r \notin exited
         /\ remote[r] # NoRemote => ~(remote[r].server = s /\ remote[r].slot = x)

LEMMA OneConnection ==
  ASSUME PhonesInv, NEW s \in Phones, NEW x \in SlotNums, NEW q \in Seq(SlotNums),
         busy' = [busy EXCEPT ![s] = q], NoneTwice(q),
         \A y \in SlotNums : y # x => (y \in ToSet(q) <=> HasBucket(s, y)),
         \A t \in Phones, y \in SlotNums : ~(t = s /\ y = x) => Same(conn[t][y], conn'[t][y]),
         ConnSound(s, x)'
  PROVE  /\ busy' \in [Phones -> Seq(SlotNums)]
         /\ \A t \in Phones : NoneTwice(busy'[t])
         /\ \A t \in Phones, y \in SlotNums : ConnSound(t, y)'
         /\ \A r \in Phones : Apart(r, s, x) => PhoneSound(r)'
<1>1. busy \in [Phones -> Seq(SlotNums)]
  BY DEF PhonesInv, Typed
<1>2. \A t \in Phones : busy'[t] = IF t = s THEN q ELSE busy[t]
  BY <1>1
<1>3. busy' \in [Phones -> Seq(SlotNums)]
  BY <1>1
<1>4. \A t \in Phones : NoneTwice(busy'[t])
  BY <1>2 DEF PhonesInv
<1>5. \A t \in Phones, y \in SlotNums :
        ~(t = s /\ y = x) => (HasBucket(t, y)' <=> HasBucket(t, y))
  BY <1>2 DEF HasBucket
<1>6. ASSUME NEW t \in Phones, NEW y \in SlotNums PROVE ConnSound(t, y)'
  <2>1. CASE t = s /\ y = x
    BY <2>1
  <2>2. CASE ~(t = s /\ y = x)
    <3>1. ConnSound(t, y) /\ Same(conn[t][y], conn'[t][y])
      BY <2>2 DEF PhonesInv
    <3>2. HasBucket(t, y)' <=> HasBucket(t, y)
      BY <1>5, <2>2
    <3> QED
      BY <3>1, <3>2 DEF ConnSound, Same, Sounding
  <2> QED
    BY <2>1, <2>2
<1>7. ASSUME NEW r \in Phones, Apart(r, s, x) PROVE PhoneSound(r)'
  <2>1. CASE r \in exited'
    BY <2>1 DEF PhoneSound
  <2>2. CASE r \notin exited'
    <3>1. /\ r \notin exited /\ remote'[r] = remote[r] /\ pc'[r] = pc[r] /\ caller'[r] = caller[r]
          /\ PhoneSound(r)
      BY <1>7, <2>2 DEF Apart, PhonesInv
    <3>2. CASE remote[r] = NoRemote
      BY <3>1, <3>2 DEF PhoneSound
    <3>3. CASE remote[r] # NoRemote
      <4>1. PICK t \in Phones, y \in SlotNums : t = remote[r].server /\ y = remote[r].slot
        BY <3>1, <3>3, MineIs
      <4>2. ~(t = s /\ y = x)
        BY <1>7, <2>2, <3>3, <4>1 DEF Apart
      <4>3. Same(conn[t][y], conn'[t][y]) /\ (HasBucket(t, y)' <=> HasBucket(t, y))
        BY <1>5, <4>2
      <4>4. Mine(r) = conn[t][y] /\ Mine(r)' = conn'[t][y]
        BY <3>1, <4>1 DEF Mine
      <4>5. /\ Mine(r)' # NoConn <=> Mine(r) # NoConn
            /\ Mine(r) # NoConn => /\ Mine(r)'.owner = Mine(r).owner
                                   /\ Mine(r)'.closed = Mine(r).closed
                                   /\ Quiet(Mine(r)') <=> Quiet(Mine(r))
        BY <4>3, <4>4 DEF Same, Quiet, Sounding
      <4>6. /\ remote'[r].server = t /\ remote'[r].slot = y
            /\ HasBucket(t, y)' <=> HasBucket(t, y)
        BY <3>1, <4>1, <4>3
      <4>7. Mine(r)' # NoConn /\ Mine(r)'.owner = r /\ ~Mine(r)'.closed
        BY <2>2, <3>1, <3>3, <4>5 DEF PhoneSound
      <4>8. pc[r] \in {"ring", "wait"} => Quiet(Mine(r)')
        BY <2>2, <3>1, <3>3, <4>5 DEF PhoneSound
      <4>9. /\ pc[r] = "ring" => ~HasBucket(t, y)'
            /\ pc[r] = "wait" => HasBucket(t, y)'
            /\ pc[r] = "connect" => caller[r] # NoRemote
        BY <3>1, <4>1, <4>6 DEF PhoneSound
      <4> QED
        BY <3>1, <3>3, <4>1, <4>7, <4>8, <4>9 DEF PhoneSound
    <3> QED
      BY <3>2, <3>3
  <2> QED
    BY <2>1, <2>2
<1> QED
  BY <1>3, <1>4, <1>6, <1>7

\* The same when the buckets stay.
LEMMA OneConnectionOnly ==
  ASSUME PhonesInv, NEW s \in Phones, NEW x \in SlotNums, NEW d \in Connections \cup {NoConn},
         conn' = Put(conn, s, x, d), busy' = busy, ConnSound(s, x)'
  PROVE  /\ conn' \in Conns /\ conn'[s][x] = d
         /\ \A t \in Phones, y \in SlotNums : ~(t = s /\ y = x) => conn'[t][y] = conn[t][y]
         /\ busy' \in [Phones -> Seq(SlotNums)]
         /\ \A t \in Phones : NoneTwice(busy'[t])
         /\ \A t \in Phones, y \in SlotNums : ConnSound(t, y)'
         /\ \A r \in Phones : Apart(r, s, x) => PhoneSound(r)'
<1>1. /\ conn' \in Conns /\ conn'[s][x] = d
      /\ \A t \in Phones, y \in SlotNums : ~(t = s /\ y = x) => conn'[t][y] = conn[t][y]
  BY ConnSet
<1>2. \A t \in Phones, y \in SlotNums : ~(t = s /\ y = x) => Same(conn[t][y], conn'[t][y])
  BY <1>1 DEF Same
<1>3. PICK q \in Seq(SlotNums) : q = busy[s]
  BY DEF PhonesInv, Typed
<1>4. busy' = [busy EXCEPT ![s] = q] /\ NoneTwice(q)
  BY <1>3 DEF PhonesInv, Typed
<1>5. \A y \in SlotNums : y # x => (y \in ToSet(q) <=> HasBucket(s, y))
  BY <1>3 DEF HasBucket
<1>6. /\ busy' \in [Phones -> Seq(SlotNums)]
      /\ \A t \in Phones : NoneTwice(busy'[t])
      /\ \A t \in Phones, y \in SlotNums : ConnSound(t, y)'
      /\ \A r \in Phones : Apart(r, s, x) => PhoneSound(r)'
  BY <1>2, <1>4, <1>5, OneConnection
<1> QED
  BY <1>1, <1>6

-----------------------------------------------------------------------------
(* Every step keeps the invariant.                                           *)

\* The phones that a step of phone p leaves alone have another connection.
LEMMA OthersApart ==
  ASSUME PhonesInv, NEW s \in Phones, NEW x \in SlotNums, NEW r \in Phones,
         conn[s][x] = NoConn \/ conn[s][x].owner # r \/ conn[s][x].closed \/ r \in exited',
         remote'[r] = remote[r], pc'[r] = pc[r], caller'[r] = caller[r],
         exited \subseteq exited'
  PROVE  Apart(r, s, x)
<1> SUFFICES ASSUME r \notin exited', remote[r] # NoRemote, remote[r].server = s, remote[r].slot = x
             PROVE  FALSE
  BY DEF Apart
<1>1. r \notin exited
  OBVIOUS
<1>2. Mine(r) = conn[s][x] /\ Mine(r) # NoConn /\ Mine(r).owner = r /\ ~Mine(r).closed
  BY <1>1, MineIs
<1> QED
  BY <1>2

LEMMA CallKeeps ==
  ASSUME PhonesInv, NEW p \in Phones, NEW k \in Phones, Call(p, k)
  PROVE  PhonesInv'
<1>1. PICK x \in SlotNums : x = NextSlot(k) /\ conn[k][x] = NoConn
  BY FreeSlot DEF Call
<1>2. PICK c \in Connections : /\ c.owner = p /\ c.todo = "none" /\ c.flow = "stop" /\ c.events = 0
                               /\ ~c.closed /\ c = NewConn(p, "none", "stop")
  BY DEF NewConn, Connections
<1>3. PICK d \in Connections :
        /\ conn' = Put(conn, k, x, d)
        /\ d.owner = p /\ d.todo = "none" /\ d.flow = "stop" /\ d.events = 0
        /\ \/ /\ remote' = [remote EXCEPT ![p] = [server |-> k, slot |-> x]]
              /\ pc' = [pc EXCEPT ![p] = "ring"] /\ mode' = mode /\ ~d.closed
           \/ remote' = remote /\ pc' = pc /\ mode' = [mode EXCEPT ![p] = "busy"]
  <2>1. CASE busy[k] = <<>>
    BY <1>1, <1>2, <2>1 DEF Call, Put
  <2>2. CASE busy[k] # <<>>
    <3>1. PICK d \in Connections : d = [c EXCEPT !.closed = TRUE]
      BY DEF Connections
    <3>2. d.owner = p /\ d.todo = "none" /\ d.flow = "stop" /\ d.events = 0
      BY <1>2, <3>1 DEF Connections
    <3> QED
      BY <1>1, <1>2, <2>2, <3>1, <3>2 DEF Call, Put
  <2> QED
    BY <2>1, <2>2
<1>4. /\ busy' = busy /\ stops' = stops /\ callback' = callback /\ volFlow' = volFlow
      /\ caller' = caller /\ hangups' = hangups /\ exited' = exited
      /\ calls' = [calls EXCEPT ![p] = @ - 1] /\ calls[p] > 0 /\ pc[p] = "loop" /\ p \notin exited
  BY DEF Call, InLoop
<1>5. conn'[k][x] = d /\ d # NoConn
  <2>1. conn'[k][x] = d
    BY <1>3, ConnSet
  <2> QED
    BY <2>1, Constants
<1>6. ~HasBucket(k, x) /\ ~HasBucket(k, x)'
  BY <1>1, <1>4 DEF PhonesInv, ConnSound, HasBucket
<1>7. ConnSound(k, x)'
  BY <1>3, <1>5, <1>6 DEF ConnSound, Sounding
<1>8. /\ conn' \in Conns
      /\ busy' \in [Phones -> Seq(SlotNums)]
      /\ \A t \in Phones : NoneTwice(busy'[t])
      /\ \A t \in Phones, y \in SlotNums : ConnSound(t, y)'
      /\ \A r \in Phones : Apart(r, k, x) => PhoneSound(r)'
  BY <1>3, <1>4, <1>7, OneConnectionOnly
<1>9. [server |-> k, slot |-> x] \in Remotes /\ [server |-> k, slot |-> x] # NoRemote
  BY Constants DEF Remotes
<1>10. Typed'
  <2>1. calls' \in [Phones -> 0 .. MaxCalls]
    BY <1>4, Constants DEF PhonesInv, Typed
  <2>2. remote' \in [Phones -> Remotes \cup {NoRemote}]
    BY <1>3, <1>9 DEF PhonesInv, Typed
  <2>3. pc' \in [Phones -> {"loop", "ring", "connect", "wait"}]
    <3>1. pc' = pc \/ pc' = [pc EXCEPT ![p] = "ring"]
      BY <1>3
    <3> QED
      BY <3>1 DEF PhonesInv, Typed
  <2>4. mode' \in [Phones -> {"idle", "busy", "ringing", "talk"}]
    <3>1. mode' = mode \/ mode' = [mode EXCEPT ![p] = "busy"]
      BY <1>3
    <3> QED
      BY <3>1 DEF PhonesInv, Typed
  <2> QED
    BY <1>4, <1>8, <2>1, <2>2, <2>3, <2>4 DEF PhonesInv, Typed
<1>11. ASSUME NEW r \in Phones PROVE PhoneSound(r)'
  <2>1. ASSUME remote'[r] = remote[r], pc'[r] = pc[r] PROVE PhoneSound(r)'
    <3>1. Apart(r, k, x)
      BY <1>1, <1>4, <2>1, OthersApart
    <3> QED
      BY <1>8, <3>1
  <2>2. CASE r # p
    BY <1>3, <2>1, <2>2 DEF PhonesInv, Typed
  <2>3. CASE r = p /\ remote' = [remote EXCEPT ![p] = [server |-> k, slot |-> x]]
    <3>1. remote'[p].server = k /\ remote'[p].slot = x
      BY <2>3 DEF PhonesInv, Typed
    <3>2. CASE ~d.closed /\ pc' = [pc EXCEPT ![p] = "ring"]
      <4>1. Mine(p)' = d /\ pc'[p] = "ring" /\ remote'[p] # NoRemote
        BY <1>5, <1>9, <2>3, <3>1, <3>2 DEF PhonesInv, Typed, Mine
      <4> QED
        BY <1>3, <1>5, <1>6, <2>3, <3>1, <3>2, <4>1 DEF PhoneSound, Quiet, Sounding
    <3> QED
      BY <1>3, <2>1, <2>3, <3>2
  <2> QED
    BY <1>3, <2>1, <2>2, <2>3
<1> QED
  BY <1>8, <1>10, <1>11 DEF PhonesInv

\* A phone that closes its connection or exits.
LEMMA CloseKeeps ==
  ASSUME PhonesInv, NEW p \in Phones, p \notin exited, CloseRemote(p), busy' = busy,
         remote[p] # NoRemote
  PROVE  /\ conn' \in Conns
         /\ busy' \in [Phones -> Seq(SlotNums)]
         /\ remote' \in [Phones -> Remotes \cup {NoRemote}]
         /\ \A t \in Phones : NoneTwice(busy'[t])
         /\ \A t \in Phones, y \in SlotNums : ConnSound(t, y)'
         /\ \A r \in Phones \ {p} :
              /\ pc'[r] = pc[r] /\ caller'[r] = caller[r]
              /\ exited \subseteq exited'
              => PhoneSound(r)'
         /\ pc'[p] = "loop" => PhoneSound(p)'
<1>1. PICK s \in Phones, x \in SlotNums, c \in Connections :
        /\ s = remote[p].server /\ x = remote[p].slot /\ c = conn[s][x] /\ c = Mine(p)
        /\ c # NoConn /\ c.owner = p /\ ConnSound(s, x)
  BY MineIs
<1>2. PICK d \in Connections : d = [c EXCEPT !.closed = TRUE, !.events = 0]
  BY DEF Connections
<1>3. /\ d.todo = c.todo /\ d.flow = c.flow /\ d.events = 0 /\ d # NoConn
      /\ c.todo = "none"
  BY <1>1, <1>2, Constants DEF CloseRemote, Connections
<1>4. conn' = Put(conn, s, x, d) /\ remote' = [remote EXCEPT ![p] = NoRemote]
  BY <1>1, <1>2 DEF CloseRemote, SetMine, Put
<1>5. conn'[s][x] = d
  BY <1>4, ConnSet
<1>6. ConnSound(s, x)'
  BY <1>1, <1>3, <1>5 DEF ConnSound, Sounding, HasBucket
<1>7. /\ conn' \in Conns
      /\ busy' \in [Phones -> Seq(SlotNums)]
      /\ \A t \in Phones : NoneTwice(busy'[t])
      /\ \A t \in Phones, y \in SlotNums : ConnSound(t, y)'
      /\ \A r \in Phones : Apart(r, s, x) => PhoneSound(r)'
  BY <1>4, <1>6, OneConnectionOnly
<1>8. remote' \in [Phones -> Remotes \cup {NoRemote}]
  BY <1>4 DEF PhonesInv, Typed
<1>9. ASSUME NEW r \in Phones \ {p}, pc'[r] = pc[r], caller'[r] = caller[r], exited \subseteq exited'
      PROVE  PhoneSound(r)'
  <2>1. remote'[r] = remote[r]
    BY <1>4 DEF PhonesInv, Typed
  <2>2. Apart(r, s, x)
    BY <1>1, <1>9, <2>1, OthersApart
  <2> QED
    BY <1>7, <2>2
<1>10. ASSUME pc'[p] = "loop" PROVE PhoneSound(p)'
  <2>1. remote'[p] = NoRemote
    BY <1>4 DEF PhonesInv, Typed
  <2> QED
    BY <1>10, <2>1 DEF PhoneSound
<1> QED
  BY <1>7, <1>8, <1>9, <1>10

\* A phone that changes its connection, and goes on with it.
LEMMA MineKeeps ==
  ASSUME PhonesInv, NEW p \in Phones, p \notin exited, remote[p] # NoRemote,
         NEW d \in Connections, SetMine(p, d), d.owner = p, ~d.closed \/ p \in exited',
         busy' = busy, remote' = remote, caller' = caller, exited \subseteq exited',
         \A r \in Phones \ {p} : pc'[r] = pc[r],
         /\ d.events <= 1
         /\ d.todo # "none" => ~Sounding(d) /\ d.events = 0
         /\ Sounding(d) => d.events = 0
         /\ Sounding(d) \/ d.todo = "talk" \/ d.events # 0
              => HasBucket(remote[p].server, remote[p].slot)
         /\ d.todo \in {"ring", "answer"} => ~HasBucket(remote[p].server, remote[p].slot),
         \/ p \in exited'
         \/ pc'[p] = "loop"
         \/ pc'[p] = "wait" /\ Quiet(d) /\ HasBucket(remote[p].server, remote[p].slot)
  PROVE  /\ conn' \in Conns
         /\ busy' \in [Phones -> Seq(SlotNums)]
         /\ \A t \in Phones : NoneTwice(busy'[t])
         /\ \A t \in Phones, y \in SlotNums : ConnSound(t, y)'
         /\ \A r \in Phones : PhoneSound(r)'
<1>1. PICK s \in Phones, x \in SlotNums, c \in Connections :
        /\ s = remote[p].server /\ x = remote[p].slot /\ c = conn[s][x] /\ c = Mine(p)
        /\ c # NoConn /\ c.owner = p /\ ConnSound(s, x)
  BY MineIs
<1>2. conn' = Put(conn, s, x, d)
  BY <1>1 DEF SetMine, Put
<1>3. conn'[s][x] = d
  BY <1>2, ConnSet
<1>4. d # NoConn
  BY Constants
<1>5. ConnSound(s, x)'
  BY <1>1, <1>3, <1>4 DEF ConnSound, HasBucket
<1>6. /\ conn' \in Conns
      /\ busy' \in [Phones -> Seq(SlotNums)]
      /\ \A t \in Phones : NoneTwice(busy'[t])
      /\ \A t \in Phones, y \in SlotNums : ConnSound(t, y)'
      /\ \A r \in Phones : Apart(r, s, x) => PhoneSound(r)'
  BY <1>2, <1>5, OneConnectionOnly
<1>7. ASSUME NEW r \in Phones PROVE PhoneSound(r)'
  <2>1. CASE r # p
    <3>1. Apart(r, s, x)
      BY <1>1, <2>1, OthersApart
    <3> QED
      BY <1>6, <3>1
  <2>2. CASE r = p
    <3>1. Mine(p)' = d /\ remote'[p] = remote[p] /\ (HasBucket(s, x)' <=> HasBucket(s, x))
      BY <1>1, <1>3 DEF Mine, HasBucket
    <3> QED
      BY <1>1, <1>4, <2>2, <3>1 DEF PhoneSound, HasBucket
  <2> QED
    BY <2>1, <2>2
<1> QED
  BY <1>6, <1>7

LEMMA RingKeeps ==
  ASSUME PhonesInv, NEW p \in Phones, Ring(p)
  PROVE  PhonesInv'
<1>1. /\ p \notin exited /\ pc[p] = "ring" /\ pc' = [pc EXCEPT ![p] = "loop"]
      /\ volFlow' = [volFlow EXCEPT ![p] = 0] /\ busy' = busy /\ stops' = stops
      /\ caller' = caller /\ hangups' = hangups /\ exited' = exited /\ calls' = calls
  BY DEF Ring
<1>2. /\ remote[p] # NoRemote /\ Quiet(Mine(p))
      /\ ~HasBucket(remote[p].server, remote[p].slot)
  BY <1>1 DEF PhonesInv, PhoneSound
<1>3. pc'[p] = "loop" /\ \A r \in Phones \ {p} : pc'[r] = pc[r]
  BY <1>1 DEF PhonesInv, Typed
<1>4. /\ volFlow' \in [Phones -> 0 .. Slots]
      /\ pc' \in [Phones -> {"loop", "ring", "connect", "wait"}]
  BY <1>1, Constants DEF PhonesInv, Typed
<1>5. CASE remote[p].server \in exited
  <2>1. CloseRemote(p) /\ callback' = callback /\ mode' = mode
    BY <1>5 DEF Ring
  <2>2. /\ conn' \in Conns
        /\ busy' \in [Phones -> Seq(SlotNums)]
        /\ remote' \in [Phones -> Remotes \cup {NoRemote}]
        /\ \A t \in Phones : NoneTwice(busy'[t])
        /\ \A t \in Phones, y \in SlotNums : ConnSound(t, y)'
        /\ \A r \in Phones \ {p} : PhoneSound(r)'
        /\ PhoneSound(p)'
    BY <1>1, <1>2, <1>3, <2>1, CloseKeeps
  <2>3. Typed'
    BY <1>1, <1>4, <2>1, <2>2 DEF PhonesInv, Typed
  <2> QED
    BY <2>2, <2>3 DEF PhonesInv
<1>6. CASE remote[p].server \notin exited
  <2>1. /\ SetMine(p, [Mine(p) EXCEPT !.todo = "ring"]) /\ remote' = remote
        /\ callback' = [callback EXCEPT ![p] = "answered"]
        /\ mode' = [mode EXCEPT ![p] = "ringing"]
    BY <1>6 DEF Ring
  <2>2. PICK c \in Connections : c = Mine(p) /\ c.owner = p /\ ~c.closed
    BY <1>1, <1>2, MineIs
  <2>3. PICK d \in Connections : d = [c EXCEPT !.todo = "ring"]
    BY DEF Connections
  <2>4. d.todo = "ring" /\ d.owner = p /\ ~d.closed /\ ~Sounding(d) /\ d.events = 0
    BY <1>2, <2>2, <2>3 DEF Connections, Quiet, Sounding
  <2>5. SetMine(p, d)
    BY <2>1, <2>2, <2>3
  <2>6. /\ conn' \in Conns
        /\ busy' \in [Phones -> Seq(SlotNums)]
        /\ \A t \in Phones : NoneTwice(busy'[t])
        /\ \A t \in Phones, y \in SlotNums : ConnSound(t, y)'
        /\ \A r \in Phones : PhoneSound(r)'
    BY <1>1, <1>2, <1>3, <2>1, <2>4, <2>5, MineKeeps
  <2>7. /\ callback' \in [Phones -> {"none", "answered", "hangup"}]
        /\ mode' \in [Phones -> {"idle", "busy", "ringing", "talk"}]
    BY <2>1 DEF PhonesInv, Typed
  <2>8. Typed'
    BY <1>1, <1>4, <2>1, <2>6, <2>7 DEF PhonesInv, Typed
  <2> QED
    BY <2>6, <2>8 DEF PhonesInv
<1> QED
  BY <1>5, <1>6

LEMMA HandleStopKeeps ==
  ASSUME PhonesInv, NEW p \in Phones, HandleStop(p)
  PROVE  PhonesInv'
<1>1. /\ p \notin exited /\ pc[p] = "loop" /\ remote[p] # NoRemote /\ Mine(p).events > 0
      /\ SetMine(p, [Mine(p) EXCEPT !.events = @ - 1])
      /\ callback' = [callback EXCEPT ![p] = "hangup"]
      /\ busy' = busy /\ stops' = stops /\ remote' = remote /\ mode' = mode /\ caller' = caller
      /\ exited' = exited /\ calls' = calls
      /\ \/ pc' = [pc EXCEPT ![p] = "wait"] /\ volFlow' = volFlow /\ hangups' = hangups
         \/ /\ volFlow' = [volFlow EXCEPT ![p] = 0] /\ hangups' = [hangups EXCEPT ![p] = @ + 1]
            /\ pc' = pc
  BY DEF HandleStop, InLoop
<1>2. PICK c \in Connections :
        /\ c = Mine(p) /\ c # NoConn /\ c.owner = p /\ ~c.closed
        /\ c = conn[remote[p].server][remote[p].slot] /\ ConnSound(remote[p].server, remote[p].slot)
  BY <1>1, MineIs
<1>3. /\ c.events = 1 /\ c.todo = "none" /\ ~Sounding(c)
      /\ HasBucket(remote[p].server, remote[p].slot)
  <2>1. c.events \in Nat /\ c.events > 0 /\ c.events <= 1
    BY <1>1, <1>2 DEF Connections, ConnSound
  <2>2. c.events = 1
    BY <2>1
  <2> QED
    BY <1>2, <2>2 DEF ConnSound
<1>4. PICK d \in Connections : d = [c EXCEPT !.events = 0]
  BY DEF Connections
<1>5. d.owner = p /\ ~d.closed /\ d.todo = "none" /\ ~Sounding(d) /\ d.events = 0
  BY <1>2, <1>3, <1>4 DEF Connections, Sounding
<1>6. SetMine(p, d)
  <2>1. c.events - 1 = 0
    BY <1>3
  <2>2. [c EXCEPT !.events = @ - 1] = d
    BY <1>4, <2>1
  <2> QED
    BY <1>1, <1>2, <2>2
<1>7. /\ pc'[p] \in {"loop", "wait"} /\ (\A r \in Phones \ {p} : pc'[r] = pc[r])
      /\ pc' \in [Phones -> {"loop", "ring", "connect", "wait"}]
  <2>1. pc' = [pc EXCEPT ![p] = "wait"] \/ pc' = pc
    BY <1>1
  <2> QED
    BY <1>1, <2>1 DEF PhonesInv, Typed
<1>8. /\ conn' \in Conns
      /\ busy' \in [Phones -> Seq(SlotNums)]
      /\ \A t \in Phones : NoneTwice(busy'[t])
      /\ \A t \in Phones, y \in SlotNums : ConnSound(t, y)'
      /\ \A r \in Phones : PhoneSound(r)'
  <2>1. Quiet(d)
    BY <1>5 DEF Quiet
  <2> QED
    BY <1>1, <1>3, <1>5, <1>6, <1>7, <2>1, MineKeeps
<1>9. volFlow' \in [Phones -> 0 .. Slots] /\ hangups' \in [Phones -> Nat]
  <2>1. CASE volFlow' = volFlow /\ hangups' = hangups
    BY <2>1 DEF PhonesInv, Typed
  <2>2. CASE volFlow' = [volFlow EXCEPT ![p] = 0] /\ hangups' = [hangups EXCEPT ![p] = @ + 1]
    <3>1. volFlow' \in [Phones -> 0 .. Slots]
      BY <2>2, Constants DEF PhonesInv, Typed
    <3>2. hangups' \in [Phones -> Nat]
      BY <2>2 DEF PhonesInv, Typed
    <3> QED
      BY <3>1, <3>2
  <2> QED
    BY <1>1, <2>1, <2>2
<1>10. callback' \in [Phones -> {"none", "answered", "hangup"}]
  BY <1>1 DEF PhonesInv, Typed
<1>11. Typed'
  BY <1>1, <1>7, <1>8, <1>9, <1>10 DEF PhonesInv, Typed
<1> QED
  BY <1>8, <1>11 DEF PhonesInv

LEMMA CallerFoundKeeps ==
  ASSUME PhonesInv, NEW p \in Phones, CallerFound(p)
  PROVE  PhonesInv'
<1>1. /\ p \notin exited /\ pc[p] = "wait" /\ busy[p] # <<>>
      /\ volFlow' = [volFlow EXCEPT ![p] = Head(busy[p])]
      /\ SetMine(p, [Mine(p) EXCEPT !.todo = "talk"])
      /\ mode' = [mode EXCEPT ![p] = "talk"] /\ pc' = [pc EXCEPT ![p] = "loop"]
      /\ busy' = busy /\ stops' = stops /\ remote' = remote /\ callback' = callback
      /\ caller' = caller /\ hangups' = hangups /\ exited' = exited /\ calls' = calls
  BY DEF CallerFound, RoundTrip
<1>2. /\ remote[p] # NoRemote /\ Quiet(Mine(p))
      /\ HasBucket(remote[p].server, remote[p].slot)
  BY <1>1 DEF PhonesInv, PhoneSound
<1>3. PICK c \in Connections : c = Mine(p) /\ c.owner = p /\ ~c.closed
  BY <1>1, <1>2, MineIs
<1>4. PICK d \in Connections : d = [c EXCEPT !.todo = "talk"]
  BY DEF Connections
<1>5. d.todo = "talk" /\ d.owner = p /\ ~d.closed /\ ~Sounding(d) /\ d.events = 0
  BY <1>2, <1>3, <1>4 DEF Connections, Quiet, Sounding
<1>6. SetMine(p, d)
  BY <1>1, <1>3, <1>4
<1>7. /\ pc'[p] = "loop" /\ (\A r \in Phones \ {p} : pc'[r] = pc[r])
      /\ pc' \in [Phones -> {"loop", "ring", "connect", "wait"}]
  BY <1>1 DEF PhonesInv, Typed
<1>8. /\ conn' \in Conns
      /\ busy' \in [Phones -> Seq(SlotNums)]
      /\ \A t \in Phones : NoneTwice(busy'[t])
      /\ \A t \in Phones, y \in SlotNums : ConnSound(t, y)'
      /\ \A r \in Phones : PhoneSound(r)'
  BY <1>1, <1>2, <1>5, <1>6, <1>7, MineKeeps
<1>9. Head(busy[p]) \in SlotNums
  <2>1. busy[p] \in Seq(SlotNums)
    BY DEF PhonesInv, Typed
  <2> QED
    BY <1>1, <2>1
<1>10. volFlow' \in [Phones -> 0 .. Slots]
  BY <1>1, <1>9, Constants DEF PhonesInv, Typed
<1>11. mode' \in [Phones -> {"idle", "busy", "ringing", "talk"}]
  BY <1>1 DEF PhonesInv, Typed
<1>12. Typed'
  BY <1>1, <1>7, <1>8, <1>10, <1>11 DEF PhonesInv, Typed
<1> QED
  BY <1>8, <1>12 DEF PhonesInv

LEMMA AnswerKeeps ==
  ASSUME PhonesInv, NEW p \in Phones, Answer(p)
  PROVE  PhonesInv'
<1>1. /\ p \notin exited /\ pc[p] = "loop" /\ volFlow' = [volFlow EXCEPT ![p] = 0]
      /\ conn' = conn /\ busy' = busy /\ stops' = stops /\ remote' = remote
      /\ callback' = callback /\ mode' = mode /\ hangups' = hangups /\ exited' = exited
      /\ calls' = calls
  BY DEF Answer, InLoop, serverVars
<1>2. PICK a \in Remotes \cup {NoRemote}, l \in {"loop", "connect"} :
        /\ caller' = [caller EXCEPT ![p] = a] /\ pc' = [pc EXCEPT ![p] = l]
        /\ l = "connect" => a # NoRemote
  <2>1. CASE busy[p] = <<>>
    <3>1. caller' = caller /\ pc' = pc
      BY <2>1 DEF Answer
    <3>2. caller' = [caller EXCEPT ![p] = caller[p]] /\ pc' = [pc EXCEPT ![p] = "loop"]
      BY <1>1, <3>1 DEF PhonesInv, Typed
    <3>3. caller[p] \in Remotes \cup {NoRemote}
      BY DEF PhonesInv, Typed
    <3> QED
      BY <3>2, <3>3
  <2>2. CASE busy[p] # <<>>
    <3>1. busy[p] \in Seq(SlotNums)
      BY DEF PhonesInv, Typed
    <3>2. PICK x \in SlotNums : x = Head(busy[p]) /\ HasBucket(p, x)
      <4>1. Head(busy[p]) \in SlotNums /\ 1 \in 1 .. Len(busy[p]) /\ busy[p][1] = Head(busy[p])
        BY <2>2, <3>1
      <4> QED
        BY <3>1, <4>1, InList DEF HasBucket
    <3>3. conn[p][x] \in Connections
      BY <3>2, ConnTyped DEF PhonesInv, ConnSound
    <3>4. PICK a \in Remotes : a = [server |-> conn[p][x].owner, slot |-> x]
      BY <3>3 DEF Connections, Remotes
    <3>5. caller' = [caller EXCEPT ![p] = a] /\ pc' = [pc EXCEPT ![p] = "connect"]
      BY <2>2, <3>2, <3>4 DEF Answer
    <3>6. a # NoRemote
      BY Constants
    <3> QED
      BY <3>5, <3>6
  <2> QED
    BY <2>1, <2>2
<1>3. /\ caller' \in [Phones -> Remotes \cup {NoRemote}]
      /\ caller'[p] = a /\ \A r \in Phones \ {p} : caller'[r] = caller[r]
  BY <1>2 DEF PhonesInv, Typed
<1>4. /\ pc' \in [Phones -> {"loop", "ring", "connect", "wait"}]
      /\ pc'[p] = l /\ \A r \in Phones \ {p} : pc'[r] = pc[r]
  BY <1>2 DEF PhonesInv, Typed
<1>5. volFlow' \in [Phones -> 0 .. Slots]
  BY <1>1, Constants DEF PhonesInv, Typed
<1>6. Typed'
  BY <1>1, <1>3, <1>4, <1>5 DEF PhonesInv, Typed
<1>7. \A s \in Phones, x \in SlotNums : ConnSound(s, x)'
  BY <1>1 DEF PhonesInv, ConnSound, HasBucket, Sounding
<1>8. ASSUME NEW r \in Phones PROVE PhoneSound(r)'
  <2>1. PhoneSound(r)
    BY DEF PhonesInv
  <2>2. r = p => pc[r] = "loop" /\ pc'[r] = l /\ caller'[r] = a
    BY <1>1, <1>3, <1>4
  <2>3. r # p => pc'[r] = pc[r] /\ caller'[r] = caller[r]
    BY <1>3, <1>4
  <2> QED
    BY <1>1, <1>2, <2>1, <2>2, <2>3 DEF PhoneSound, Mine, HasBucket, Quiet, Sounding
<1> QED
  BY <1>1, <1>6, <1>7, <1>8 DEF PhonesInv

LEMMA ConnectKeeps ==
  ASSUME PhonesInv, NEW p \in Phones, Connect(p)
  PROVE  PhonesInv'
<1>1. /\ p \notin exited /\ pc[p] = "connect" /\ busy' = busy /\ hangups' = hangups
      /\ exited' = exited /\ calls' = calls
  BY DEF Connect
<1>2. PICK k \in Phones, z \in SlotNums : k = caller[p].server /\ z = caller[p].slot
  <2>1. caller[p] \in Remotes
    BY <1>1 DEF PhonesInv, Typed, PhoneSound
  <2> QED
    BY <2>1 DEF Remotes
<1>3. PICK x \in SlotNums : x = NextSlot(k) /\ conn[k][x] = NoConn
  BY <1>2, FreeSlot DEF Connect
<1>4. PICK d \in Connections :
        /\ d = NewConn(p, "answer", "absent") /\ d.owner = p /\ ~d.closed
        /\ d.todo = "answer" /\ d.flow = "absent" /\ d.events = 0
  <2>1. PICK d \in Connections : d = NewConn(p, "answer", "absent")
    BY DEF NewConn, Connections
  <2>2. /\ d.owner = p /\ ~d.closed
        /\ d.todo = "answer" /\ d.flow = "absent" /\ d.events = 0
    BY <2>1 DEF NewConn
  <2> QED
    BY <2>1, <2>2
<1>5. PICK told \in Conns :
        /\ told = Answered(k, p, z)
        /\ \A t \in Phones, y \in SlotNums : Same(conn[t][y], told[t][y])
  <2>1. CASE conn[p][z] # NoConn /\ conn[p][z].owner = k
    <3>1. conn[p][z] \in Connections
      BY <2>1, ConnTyped
    <3>2. PICK c \in Connections : c = conn[p][z]
      BY <3>1
    <3>3. PICK e \in Connections : e = [c EXCEPT !.answered = TRUE]
      BY DEF Connections
    <3>4. Same(c, e)
      BY <3>3, Constants DEF Connections, Same
    <3>5. PICK told : told = Put(conn, p, z, e)
      OBVIOUS
    <3>6. told = Answered(k, p, z)
      BY <2>1, <3>2, <3>3, <3>5 DEF Answered, Put
    <3>7. /\ told \in Conns /\ told[p][z] = e
          /\ \A t \in Phones, y \in SlotNums : ~(t = p /\ y = z) => told[t][y] = conn[t][y]
      <4>1. conn \in Conns
        BY DEF PhonesInv, Typed
      <4>2. p \in Phones /\ z \in SlotNums /\ e \in Connections \cup {NoConn}
        OBVIOUS
      <4>3. told = Put(conn, p, z, e)
        BY <3>5
      <4>4. told \in Conns
        BY <4>1, <4>2, <4>3, FieldSet
      <4>5. told[p][z] = e
        BY <4>1, <4>2, <4>3, FieldSet
      <4>6. \A t \in Phones, y \in SlotNums : ~(t = p /\ y = z) => Put(conn, p, z, e)[t][y] = conn[t][y]
        BY ONLY <4>1, <4>2, FieldSet
      <4> QED
        BY <4>3, <4>4, <4>5, <4>6
    <3>8. ASSUME NEW t \in Phones, NEW y \in SlotNums PROVE Same(conn[t][y], told[t][y])
      <4>1. CASE t = p /\ y = z
        BY <3>2, <3>4, <3>7, <4>1
      <4>2. CASE ~(t = p /\ y = z)
        BY <3>7, <4>2 DEF Same
      <4> QED
        BY <4>1, <4>2
    <3> QED
      BY <3>6, <3>7, <3>8
  <2>2. CASE ~(conn[p][z] # NoConn /\ conn[p][z].owner = k)
    <3>1. Answered(k, p, z) = conn
      BY <2>2 DEF Answered
    <3>2. \A t \in Phones, y \in SlotNums : Same(conn[t][y], conn[t][y])
      BY DEF Same
    <3>3. conn \in Conns
      BY DEF PhonesInv, Typed
    <3> QED
      BY <3>1, <3>2, <3>3
  <2> QED
    BY <2>1, <2>2
<1>6. /\ conn' = Put(told, k, x, d)
      /\ remote' = [remote EXCEPT ![p] = [server |-> k, slot |-> x]]
      /\ callback' = [callback EXCEPT ![p] = "hangup"]
      /\ volFlow' = [volFlow EXCEPT ![p] = z]
      /\ stops' = [stops EXCEPT ![p] = Append(@, z)]
      /\ mode' = [mode EXCEPT ![p] = "talk"]
      /\ pc' = [pc EXCEPT ![p] = "loop"]
      /\ caller' = [caller EXCEPT ![p] = NoRemote]
  BY <1>2, <1>3, <1>4, <1>5 DEF Connect, Put
<1>7. /\ conn' \in Conns
      /\ conn'[k][x] = d
      /\ \A t \in Phones, y \in SlotNums : ~(t = k /\ y = x) => conn'[t][y] = told[t][y]
  BY <1>6, FieldSet
<1>8. \A t \in Phones, y \in SlotNums : ~(t = k /\ y = x) => Same(conn[t][y], conn'[t][y])
  BY <1>5, <1>7
<1>9. d # NoConn
  BY Constants
<1>10. ~HasBucket(k, x) /\ ~HasBucket(k, x)'
  BY <1>1, <1>3 DEF PhonesInv, ConnSound, HasBucket
<1>11. ConnSound(k, x)'
  BY <1>4, <1>7, <1>9, <1>10 DEF ConnSound, Sounding
<1>12. PICK q \in Seq(SlotNums) : q = busy[k]
  BY DEF PhonesInv, Typed
<1>13. /\ busy' = [busy EXCEPT ![k] = q] /\ NoneTwice(q)
       /\ \A y \in SlotNums : y # x => (y \in ToSet(q) <=> HasBucket(k, y))
  BY <1>1, <1>12 DEF PhonesInv, Typed, HasBucket
<1>14. /\ busy' \in [Phones -> Seq(SlotNums)]
       /\ \A t \in Phones : NoneTwice(busy'[t])
       /\ \A t \in Phones, y \in SlotNums : ConnSound(t, y)'
       /\ \A r \in Phones : Apart(r, k, x) => PhoneSound(r)'
  BY <1>8, <1>11, <1>13, OneConnection
<1>15. /\ [server |-> k, slot |-> x] \in Remotes /\ [server |-> k, slot |-> x] # NoRemote
       /\ [server |-> k, slot |-> x].server = k /\ [server |-> k, slot |-> x].slot = x
  BY Constants DEF Remotes
<1>16. /\ remote' \in [Phones -> Remotes \cup {NoRemote}]
       /\ remote'[p] = [server |-> k, slot |-> x]
       /\ \A r \in Phones \ {p} : remote'[r] = remote[r]
  BY <1>6, <1>15 DEF PhonesInv, Typed
<1>17. /\ pc' \in [Phones -> {"loop", "ring", "connect", "wait"}]
       /\ pc'[p] = "loop" /\ \A r \in Phones \ {p} : pc'[r] = pc[r]
  BY <1>6 DEF PhonesInv, Typed
<1>18. /\ caller' \in [Phones -> Remotes \cup {NoRemote}]
       /\ \A r \in Phones \ {p} : caller'[r] = caller[r]
  BY <1>6 DEF PhonesInv, Typed
<1>19. Typed'
  <2>1. stops' \in [Phones -> Seq(SlotNums)]
    <3>1. stops \in [Phones -> Seq(SlotNums)] /\ Append(stops[p], z) \in Seq(SlotNums)
      BY DEF PhonesInv, Typed
    <3> QED
      BY <1>6, <3>1
  <2>2. volFlow' \in [Phones -> 0 .. Slots]
    BY <1>6, Constants DEF PhonesInv, Typed
  <2>3. callback' \in [Phones -> {"none", "answered", "hangup"}]
    BY <1>6 DEF PhonesInv, Typed
  <2>4. mode' \in [Phones -> {"idle", "busy", "ringing", "talk"}]
    BY <1>6 DEF PhonesInv, Typed
  <2> QED
    BY <1>1, <1>7, <1>14, <1>16, <1>17, <1>18, <2>1, <2>2, <2>3, <2>4 DEF PhonesInv, Typed
<1>20. ASSUME NEW r \in Phones PROVE PhoneSound(r)'
  <2>1. CASE r # p
    <3>1. Apart(r, k, x)
      BY <1>1, <1>3, <1>16, <1>17, <1>18, <2>1, OthersApart
    <3> QED
      BY <1>14, <3>1
  <2>2. CASE r = p
    <3>1. Mine(p)' = d
      BY <1>7, <1>15, <1>16 DEF Mine
    <3> QED
      BY <1>4, <1>9, <1>17, <2>2, <3>1 DEF PhoneSound
  <2> QED
    BY <2>1, <2>2
<1> QED
  BY <1>14, <1>19, <1>20 DEF PhonesInv

\* doHangup, whoever calls it.
LEMMA DoHangupKeeps ==
  ASSUME PhonesInv, NEW p \in Phones, p \notin exited, pc[p] = "loop", DoHangup(p),
         exited \subseteq exited', hangups' \in [Phones -> Nat]
  PROVE  PhonesInv'
<1>1. /\ mode' = [mode EXCEPT ![p] = "idle"] /\ busy' = busy /\ callback' = callback
      /\ volFlow' = volFlow /\ pc' = pc /\ caller' = caller /\ calls' = calls
  BY DEF DoHangup
<1>2. /\ conn' \in Conns
      /\ busy' \in [Phones -> Seq(SlotNums)]
      /\ remote' \in [Phones -> Remotes \cup {NoRemote}]
      /\ \A t \in Phones : NoneTwice(busy'[t])
      /\ \A t \in Phones, y \in SlotNums : ConnSound(t, y)'
      /\ \A r \in Phones : PhoneSound(r)'
  <2>1. CASE remote[p] # NoRemote
    <3>1. CloseRemote(p)
      BY <2>1 DEF DoHangup
    <3> QED
      BY <1>1, <2>1, <3>1, CloseKeeps
  <2>2. CASE remote[p] = NoRemote
    <3>1. conn' = conn /\ remote' = remote
      BY <2>2 DEF DoHangup
    <3>2. \A t \in Phones, y \in SlotNums : ConnSound(t, y)'
      BY <1>1, <3>1 DEF PhonesInv, ConnSound, HasBucket, Sounding
    <3>3. \A r \in Phones : PhoneSound(r)'
      BY <1>1, <3>1 DEF PhonesInv, PhoneSound, Mine, HasBucket, Quiet, Sounding
    <3> QED
      BY <1>1, <3>1, <3>2, <3>3 DEF PhonesInv, Typed
  <2> QED
    BY <2>1, <2>2
<1>3. stops' \in [Phones -> Seq(SlotNums)]
  <2>1. stops \in [Phones -> Seq(SlotNums)] /\ volFlow[p] \in 0 .. Slots
    BY DEF PhonesInv, Typed
  <2>2. CASE volFlow[p] = 0
    BY <2>1, <2>2 DEF DoHangup
  <2>3. CASE volFlow[p] # 0
    <3>1. Append(stops[p], volFlow[p]) \in Seq(SlotNums)
      BY <2>1, <2>3, Constants
    <3>2. stops' = [stops EXCEPT ![p] = Append(@, volFlow[p])]
      BY <2>3 DEF DoHangup
    <3> QED
      BY <2>1, <3>1, <3>2
  <2> QED
    BY <2>2, <2>3
<1>4. mode' \in [Phones -> {"idle", "busy", "ringing", "talk"}]
  BY <1>1 DEF PhonesInv, Typed
<1>5. Typed'
  BY <1>1, <1>2, <1>3, <1>4 DEF PhonesInv, Typed
<1> QED
  BY <1>2, <1>5 DEF PhonesInv

LEMMA UserHangsUpKeeps ==
  ASSUME PhonesInv, NEW p \in Phones, Hangup(p) \/ HangupWorkProc(p) \/ Quit(p)
  PROVE  PhonesInv'
<1>1. hangups \in [Phones -> Nat]
  BY DEF PhonesInv, Typed
<1>2. CASE Hangup(p)
  <2>1. p \notin exited /\ pc[p] = "loop" /\ DoHangup(p) /\ hangups' = hangups /\ exited' = exited
    BY <1>2 DEF Hangup, InLoop
  <2> QED
    BY <1>1, <2>1, DoHangupKeeps
<1>3. CASE HangupWorkProc(p)
  <2>1. /\ p \notin exited /\ pc[p] = "loop" /\ DoHangup(p) /\ exited' = exited
        /\ hangups' = [hangups EXCEPT ![p] = @ - 1] /\ hangups[p] > 0
    BY <1>3 DEF HangupWorkProc, InLoop
  <2>2. hangups' \in [Phones -> Nat]
    BY <1>1, <2>1
  <2> QED
    BY <2>1, <2>2, DoHangupKeeps
<1>4. CASE Quit(p)
  <2>1. /\ p \notin exited /\ pc[p] = "loop" /\ hangups' = hangups
        /\ exited' = exited \cup {p}
    BY <1>4 DEF Quit, InLoop
  <2>2. CASE remote[p] # NoRemote
    <3>1. DoHangup(p)
      BY <1>4, <2>2 DEF Quit
    <3> QED
      BY <1>1, <2>1, <3>1, DoHangupKeeps
  <2>3. CASE remote[p] = NoRemote
    <3>1. /\ conn' = conn /\ busy' = busy /\ stops' = stops /\ remote' = remote
          /\ callback' = callback /\ volFlow' = volFlow /\ mode' = mode /\ pc' = pc
          /\ caller' = caller /\ calls' = calls
      BY <1>4, <2>3 DEF Quit, serverVars
    <3>2. Typed'
      BY <2>1, <3>1 DEF PhonesInv, Typed
    <3>3. \A s \in Phones, x \in SlotNums : ConnSound(s, x)'
      BY <3>1 DEF PhonesInv, ConnSound, HasBucket, Sounding
    <3>4. \A r \in Phones : PhoneSound(r)'
      BY <2>1, <3>1 DEF PhonesInv, PhoneSound, Mine, HasBucket, Quiet, Sounding
    <3> QED
      BY <3>1, <3>2, <3>3, <3>4 DEF PhonesInv
  <2> QED
    BY <2>2, <2>3
<1> QED
  BY <1>2, <1>3, <1>4

LEMMA ExitKeeps ==
  ASSUME PhonesInv, NEW p \in Phones, ExitOnError(p)
  PROVE  PhonesInv'
<1>1. /\ p \notin exited /\ exited' = exited \cup {p} /\ busy' = busy /\ stops' = stops
      /\ callback' = callback /\ volFlow' = volFlow /\ mode' = mode /\ pc' = pc
      /\ caller' = caller /\ calls' = calls /\ remote' = remote /\ hangups' = hangups
  BY DEF ExitOnError, phoneVars
<1>2. /\ conn' \in Conns
      /\ busy' \in [Phones -> Seq(SlotNums)]
      /\ \A t \in Phones : NoneTwice(busy'[t])
      /\ \A t \in Phones, y \in SlotNums : ConnSound(t, y)'
      /\ \A r \in Phones : PhoneSound(r)'
  <2>1. CASE remote[p] = NoRemote
    <3>1. conn' = conn
      BY <2>1 DEF ExitOnError
    <3>2. \A t \in Phones, y \in SlotNums : ConnSound(t, y)'
      BY <1>1, <3>1 DEF PhonesInv, ConnSound, HasBucket, Sounding
    <3>3. \A r \in Phones : PhoneSound(r)'
      BY <1>1, <3>1 DEF PhonesInv, PhoneSound, Mine, HasBucket, Quiet, Sounding
    <3> QED
      BY <1>1, <3>1, <3>2, <3>3 DEF PhonesInv, Typed
  <2>2. CASE remote[p] # NoRemote
    <3>1. SetMine(p, [Mine(p) EXCEPT !.closed = TRUE, !.events = 0])
      BY <2>2 DEF ExitOnError
    <3>2. PICK c \in Connections :
            c = Mine(p) /\ c.owner = p /\ c # NoConn
            /\ c = conn[remote[p].server][remote[p].slot]
            /\ ConnSound(remote[p].server, remote[p].slot)
      BY <1>1, <2>2, MineIs
    <3>3. PICK d \in Connections : d = [c EXCEPT !.closed = TRUE, !.events = 0]
      BY DEF Connections
    <3>4. d.owner = p /\ d.todo = c.todo /\ d.flow = c.flow /\ d.events = 0
      BY <3>2, <3>3 DEF Connections
    <3>5. SetMine(p, d)
      BY <3>1, <3>2, <3>3
    <3>6. /\ d.events <= 1
          /\ d.todo # "none" => ~Sounding(d) /\ d.events = 0
          /\ Sounding(d) => d.events = 0
          /\ Sounding(d) \/ d.todo = "talk" \/ d.events # 0
               => HasBucket(remote[p].server, remote[p].slot)
          /\ d.todo \in {"ring", "answer"} => ~HasBucket(remote[p].server, remote[p].slot)
      BY <3>2, <3>4, SMTT(30) DEF ConnSound, Sounding
    <3>7. exited \subseteq exited' /\ p \in exited' /\ \A r \in Phones \ {p} : pc'[r] = pc[r]
      BY <1>1
    <3> QED
      BY <1>1, <2>2, <3>4, <3>5, <3>6, <3>7, MineKeeps
  <2> QED
    BY <2>1, <2>2
<1>3. Typed'
  BY <1>1, <1>2 DEF PhonesInv, Typed
<1> QED
  BY <1>2, <1>3 DEF PhonesInv

\* The server does something with a connection that stays, and with its bucket.
LEMMA ServerKeeps ==
  ASSUME PhonesInv, NEW s \in Phones, NEW x \in SlotNums, NEW c \in Connections,
         c = conn[s][x], NEW d \in Connections, conn' = Put(conn, s, x, d),
         NEW q \in Seq(SlotNums), busy' = [busy EXCEPT ![s] = q], NoneTwice(q),
         \A y \in SlotNums : y # x => (y \in ToSet(q) <=> HasBucket(s, y)),
         stops' \in [Phones -> Seq(SlotNums)], remote' = remote, callback' = callback,
         volFlow' = volFlow, mode' = mode, pc' = pc, caller' = caller, hangups' = hangups,
         exited' = exited, calls' = calls,
         d.owner = c.owner, d.closed = c.closed,
         Quiet(c) => Quiet(d) /\ (x \in ToSet(q) <=> HasBucket(s, x)),
         /\ d.events <= 1
         /\ d.todo # "none" => ~Sounding(d) /\ d.events = 0
         /\ Sounding(d) => d.events = 0
         /\ Sounding(d) \/ d.todo = "talk" \/ d.events # 0 => x \in ToSet(q)
         /\ d.todo \in {"ring", "answer"} => x \notin ToSet(q)
  PROVE  PhonesInv'
<1>1. /\ conn' \in Conns
      /\ conn'[s][x] = d
      /\ \A t \in Phones, y \in SlotNums : ~(t = s /\ y = x) => conn'[t][y] = conn[t][y]
  <2>1. /\ s \in Phones /\ x \in SlotNums /\ d \in Connections \cup {NoConn} /\ PhonesInv
        /\ conn' = Put(conn, s, x, d)
    BY DEF PhonesInv
  <2> QED
    BY ONLY <2>1, ConnSet
<1>2. \A t \in Phones, y \in SlotNums : ~(t = s /\ y = x) => Same(conn[t][y], conn'[t][y])
  BY <1>1 DEF Same
<1>3. d # NoConn /\ c # NoConn
  BY Constants
<1>4. HasBucket(s, x)' <=> x \in ToSet(q)
  BY DEF PhonesInv, Typed, HasBucket
<1>5. ConnSound(s, x)'
  BY <1>1, <1>3, <1>4 DEF ConnSound
<1>6. /\ busy' \in [Phones -> Seq(SlotNums)]
      /\ \A t \in Phones : NoneTwice(busy'[t])
      /\ \A t \in Phones, y \in SlotNums : ConnSound(t, y)'
      /\ \A r \in Phones : Apart(r, s, x) => PhoneSound(r)'
  BY <1>2, <1>5, OneConnection
<1>7. Typed'
  BY <1>1, <1>6 DEF PhonesInv, Typed
<1>8. ASSUME NEW r \in Phones PROVE PhoneSound(r)'
  <2>1. CASE r \notin exited /\ remote[r] # NoRemote /\ remote[r].server = s /\ remote[r].slot = x
    <3>1. Mine(r) = c /\ Mine(r)' = d
      BY <1>1, <2>1 DEF Mine
    <3>2. PhoneSound(r)
      BY DEF PhonesInv
    <3> QED
      BY <1>3, <1>4, <2>1, <3>1, <3>2 DEF PhoneSound
  <2>2. CASE ~(r \notin exited /\ remote[r] # NoRemote /\ remote[r].server = s /\ remote[r].slot = x)
    <3>1. Apart(r, s, x)
      BY <2>2 DEF Apart
    <3> QED
      BY <1>6, <3>1
  <2> QED
    BY <2>1, <2>2
<1> QED
  BY <1>6, <1>7, <1>8 DEF PhonesInv

LEMMA ExecuteKeeps ==
  ASSUME PhonesInv, NEW s \in Phones, NEW x \in SlotNums, Execute(s, x)
  PROVE  PhonesInv'
<1>1. /\ stops' = stops /\ remote' = remote /\ callback' = callback /\ volFlow' = volFlow
      /\ mode' = mode /\ pc' = pc /\ caller' = caller /\ hangups' = hangups
      /\ exited' = exited /\ calls' = calls
  BY DEF Execute, phoneVars
<1>2. PICK c \in Connections : c = conn[s][x] /\ c # NoConn /\ c.todo # "none"
  BY ConnTyped DEF Execute
<1>3. PICK d \in Connections :
        d = [c EXCEPT !.todo = "none", !.flow = IF c.todo = "ring" THEN "ring" ELSE "talk"]
  <2>1. PICK f \in {"ring", "talk"} : f = IF c.todo = "ring" THEN "ring" ELSE "talk"
    OBVIOUS
  <2>2. [c EXCEPT !.todo = "none", !.flow = f] \in Connections
    BY DEF Connections
  <2> QED
    BY <2>1, <2>2
<1>4. /\ d.owner = c.owner /\ d.closed = c.closed /\ d.todo = "none" /\ d.events = c.events
      /\ c.todo \in {"ring", "answer", "talk"}
  BY <1>2, <1>3 DEF Connections
<1>5. ConnSound(s, x) /\ c.events = 0
  BY <1>2 DEF PhonesInv, ConnSound
<1>6. conn' = Put(conn, s, x, d)
  BY <1>2, <1>3 DEF Execute, Put
<1>7. PICK b \in Seq(SlotNums) : b = busy[s] /\ NoneTwice(b)
  BY DEF PhonesInv, Typed
<1>8. PICK q \in Seq(SlotNums) :
        /\ busy' = [busy EXCEPT ![s] = q] /\ NoneTwice(q) /\ x \in ToSet(q)
        /\ \A y \in SlotNums : y # x => (y \in ToSet(q) <=> HasBucket(s, y))
  <2>1. CASE c.todo \in {"ring", "answer"}
    <3>1. PICK q \in Seq(SlotNums) : q = <<x>> \o b
      BY Prepended
    <3>2. x \notin ToSet(b)
      BY <1>2, <1>5, <1>7, <2>1 DEF ConnSound, HasBucket
    <3>3. NoneTwice(q) /\ \A y : y \in ToSet(q) <=> y = x \/ y \in ToSet(b)
      BY <1>7, <3>1, <3>2, Prepended
    <3>4. busy' = [busy EXCEPT ![s] = q]
      BY <1>2, <1>7, <2>1, <3>1 DEF Execute
    <3> QED
      BY <1>7, <3>3, <3>4 DEF HasBucket
  <2>2. CASE c.todo = "talk"
    <3>1. busy' = busy /\ x \in ToSet(b)
      BY <1>2, <1>5, <1>7, <2>2 DEF Execute, ConnSound, HasBucket
    <3>2. busy' = [busy EXCEPT ![s] = b]
      BY <1>7, <3>1 DEF PhonesInv, Typed
    <3> QED
      BY <1>7, <3>1, <3>2 DEF HasBucket
  <2> QED
    BY <1>4, <2>1, <2>2
<1>9. ~Quiet(c)
  BY <1>2 DEF Quiet
<1>10. stops' \in [Phones -> Seq(SlotNums)]
  BY <1>1 DEF PhonesInv, Typed
<1>11. /\ d.events <= 1
       /\ d.todo # "none" => ~Sounding(d) /\ d.events = 0
       /\ Sounding(d) => d.events = 0
       /\ Sounding(d) \/ d.todo = "talk" \/ d.events # 0 => x \in ToSet(q)
       /\ d.todo \in {"ring", "answer"} => x \notin ToSet(q)
  BY <1>4, <1>5, <1>8
<1> QED
  BY <1>1, <1>2, <1>4, <1>6, <1>8, <1>9, <1>10, <1>11, ServerKeeps

LEMMA StopFlowKeeps ==
  ASSUME PhonesInv, NEW s \in Phones, StopFlow(s)
  PROVE  PhonesInv'
<1>1. /\ remote' = remote /\ callback' = callback /\ volFlow' = volFlow /\ busy' = busy
      /\ mode' = mode /\ pc' = pc /\ caller' = caller /\ hangups' = hangups
      /\ exited' = exited /\ calls' = calls /\ stops[s] # <<>>
      /\ stops' = [stops EXCEPT ![s] = Tail(@)]
  BY DEF StopFlow, phoneVars
<1>2. stops[s] \in Seq(SlotNums) /\ Tail(stops[s]) \in Seq(SlotNums)
  BY <1>1 DEF PhonesInv, Typed
<1>3. stops' \in [Phones -> Seq(SlotNums)]
  BY <1>1, <1>2 DEF PhonesInv, Typed
<1>4. PICK x \in SlotNums : x = Head(stops[s])
  BY <1>1, <1>2
<1>5. CASE conn[s][x] = NoConn \/ conn[s][x].flow = "absent"
  <2>1. conn' = conn
    BY <1>4, <1>5 DEF StopFlow
  <2>2. Typed'
    BY <1>1, <1>3, <2>1 DEF PhonesInv, Typed
  <2>3. \A t \in Phones, y \in SlotNums : ConnSound(t, y)'
    BY <1>1, <2>1 DEF PhonesInv, ConnSound, HasBucket, Sounding
  <2>4. \A r \in Phones : PhoneSound(r)'
    BY <1>1, <2>1 DEF PhonesInv, PhoneSound, Mine, HasBucket, Quiet, Sounding
  <2> QED
    BY <1>1, <2>2, <2>3, <2>4 DEF PhonesInv
<1>6. CASE ~(conn[s][x] = NoConn \/ conn[s][x].flow = "absent")
  <2>1. PICK c \in Connections : c = conn[s][x] /\ c # NoConn /\ c.flow # "absent"
    BY <1>4, <1>6, ConnTyped
  <2>2. PICK n \in Nat : n = IF c.flow = "stop" \/ c.closed THEN c.events ELSE c.events + 1
    BY DEF Connections
  <2>3. PICK d \in Connections : d = [c EXCEPT !.flow = "stop", !.events = n]
    BY DEF Connections
  <2>4. conn' = Put(conn, s, x, d)
    <3>1. d = [c EXCEPT !.flow = "stop",
                        !.events = IF c.flow = "stop" \/ c.closed THEN @ ELSE @ + 1]
      BY <2>2, <2>3 DEF Connections
    <3> QED
      BY <1>4, <1>6, <2>1, <3>1 DEF StopFlow, Put
  <2>5. /\ d.owner = c.owner /\ d.closed = c.closed /\ d.todo = c.todo /\ d.events = n
        /\ d.flow = "stop"
    BY <2>3 DEF Connections
  <2>6. ConnSound(s, x)
    BY DEF PhonesInv
  <2>7. c.flow # "stop" <=> Sounding(c)
    BY <2>1 DEF Connections, Sounding
  <2>8. PICK q \in Seq(SlotNums) :
          /\ q = busy[s] /\ busy' = [busy EXCEPT ![s] = q] /\ NoneTwice(q)
          /\ \A y \in SlotNums : y \in ToSet(q) <=> HasBucket(s, y)
    BY <1>1 DEF PhonesInv, Typed, HasBucket
  <2>9. n <= 1 /\ (n # 0 => Sounding(c) \/ c.events # 0) /\ (c.todo # "none" => n = 0)
    <3>1. CASE c.flow = "stop" \/ c.closed
      BY <2>1, <2>2, <2>6, <3>1 DEF ConnSound
    <3>2. CASE ~(c.flow = "stop" \/ c.closed)
      <4>1. Sounding(c) /\ c.events = 0 /\ c.todo = "none"
        BY <2>1, <2>6, <2>7, <3>2 DEF ConnSound
      <4> QED
        BY <2>2, <3>2, <4>1
    <3> QED
      BY <3>1, <3>2
  <2>10. Quiet(c) => Quiet(d)
    BY <2>2, <2>5, <2>7 DEF Quiet, Sounding
  <2>11. ~Sounding(d)
    BY <2>5 DEF Sounding
  <2>12. /\ d.todo = "talk" \/ d.events # 0 => x \in ToSet(q)
         /\ d.todo \in {"ring", "answer"} => x \notin ToSet(q)
    BY <2>1, <2>5, <2>6, <2>8, <2>9 DEF ConnSound
  <2> QED
    BY <1>1, <1>3, <2>1, <2>4, <2>5, <2>8, <2>9, <2>10, <2>11, <2>12, ServerKeeps
<1> QED
  BY <1>5, <1>6

LEMMA ReapKeeps ==
  ASSUME PhonesInv, NEW s \in Phones, NEW x \in SlotNums, Reap(s, x)
  PROVE  PhonesInv'
<1>1. /\ stops' = stops /\ remote' = remote /\ callback' = callback /\ volFlow' = volFlow
      /\ mode' = mode /\ pc' = pc /\ caller' = caller /\ hangups' = hangups
      /\ exited' = exited /\ calls' = calls
      /\ conn' = Put(conn, s, x, NoConn)
      /\ busy' = [busy EXCEPT ![s] = RemoveFirst(@, x)]
      /\ conn[s][x].closed
  BY DEF Reap, phoneVars, Put
<1>2. PICK b \in Seq(SlotNums) : b = busy[s] /\ NoneTwice(b)
  BY DEF PhonesInv, Typed
<1>3. PICK q \in Seq(SlotNums) :
        /\ q = RemoveFirst(b, x) /\ NoneTwice(q)
        /\ \A y : y \in ToSet(q) <=> y \in ToSet(b) /\ y # x
  BY <1>2, Removed
<1>4. busy' = [busy EXCEPT ![s] = q]
  BY <1>1, <1>2, <1>3
<1>5. /\ conn' \in Conns
      /\ conn'[s][x] = NoConn
      /\ \A t \in Phones, y \in SlotNums : ~(t = s /\ y = x) => conn'[t][y] = conn[t][y]
  BY <1>1, ConnSet
<1>6. \A t \in Phones, y \in SlotNums : ~(t = s /\ y = x) => Same(conn[t][y], conn'[t][y])
  BY <1>5 DEF Same
<1>7. ConnSound(s, x)'
  BY <1>3, <1>4, <1>5 DEF ConnSound, HasBucket, PhonesInv, Typed
<1>8. \A y \in SlotNums : y # x => (y \in ToSet(q) <=> HasBucket(s, y))
  BY <1>2, <1>3 DEF HasBucket
<1>9. /\ busy' \in [Phones -> Seq(SlotNums)]
      /\ \A t \in Phones : NoneTwice(busy'[t])
      /\ \A t \in Phones, y \in SlotNums : ConnSound(t, y)'
      /\ \A r \in Phones : Apart(r, s, x) => PhoneSound(r)'
  BY <1>3, <1>4, <1>6, <1>7, <1>8, OneConnection
<1>10. Typed'
  BY <1>1, <1>5, <1>9 DEF PhonesInv, Typed
<1>11. \A r \in Phones : Apart(r, s, x)
  BY <1>1, OthersApart
<1> QED
  BY <1>9, <1>10, <1>11 DEF PhonesInv

-----------------------------------------------------------------------------
(* The theorem.                                                              *)

LEMMA InitInv == Init => PhonesInv
<1> SUFFICES ASSUME Init PROVE PhonesInv
  OBVIOUS
<1>1. ToSet(<<>>) = {} /\ NoneTwice(<<>>)
  BY DEF ToSet, NoneTwice
<1>2. Typed
  BY Constants DEF Init, Typed, Conns
<1>3. \A s \in Phones, x \in SlotNums : ConnSound(s, x)
  BY <1>1 DEF Init, ConnSound, HasBucket
<1>4. \A p \in Phones : PhoneSound(p)
  BY DEF Init, PhoneSound
<1>5. \A s \in Phones : NoneTwice(busy[s])
  BY <1>1 DEF Init
<1> QED
  BY <1>2, <1>3, <1>4, <1>5 DEF PhonesInv

LEMMA NextInv == PhonesInv /\ [Next]_vars => PhonesInv'
<1> SUFFICES ASSUME PhonesInv, [Next]_vars PROVE PhonesInv'
  OBVIOUS
<1>1. CASE Next
  <2>1. PICK p \in Phones : User(p) \/ Phone(p) \/ Server(p)
    BY <1>1 DEF Next
  <2>2. CASE User(p)
    BY <2>2, CallKeeps, AnswerKeeps, UserHangsUpKeeps DEF User
  <2>3. CASE Phone(p)
    BY <2>3, RingKeeps, ConnectKeeps, HandleStopKeeps, CallerFoundKeeps, UserHangsUpKeeps, ExitKeeps
       DEF Phone
  <2>4. CASE Server(p)
    BY <2>4, StopFlowKeeps, ExecuteKeeps, ReapKeeps DEF Server
  <2> QED
    BY <2>1, <2>2, <2>3, <2>4
<1>2. CASE UNCHANGED vars
  <2>1. /\ conn' = conn /\ busy' = busy /\ stops' = stops /\ remote' = remote
        /\ callback' = callback /\ volFlow' = volFlow /\ mode' = mode /\ pc' = pc
        /\ caller' = caller /\ calls' = calls /\ hangups' = hangups /\ exited' = exited
    BY <1>2 DEF vars, serverVars, phoneVars
  <2>2. Typed'
    BY <2>1 DEF PhonesInv, Typed
  <2>3. \A t \in Phones, y \in SlotNums : ConnSound(t, y)'
    BY <2>1 DEF PhonesInv, ConnSound, HasBucket, Sounding
  <2>4. \A r \in Phones : PhoneSound(r)'
    BY <2>1 DEF PhonesInv, PhoneSound, Mine, HasBucket, Quiet, Sounding
  <2> QED
    BY <2>1, <2>2, <2>3, <2>4 DEF PhonesInv
<1> QED
  BY <1>1, <1>2

LEMMA InvGivesBusy == PhonesInv => BusyWhileTalking
<1> SUFFICES ASSUME PhonesInv PROVE BusyWhileTalking
  OBVIOUS
<1>1. ASSUME NEW s \in Phones, NEW x \in SlotNums
      PROVE  /\ conn[s][x] = NoConn \/ (conn[s][x] \in Connections /\ conn[s][x].events <= 1)
             /\ HasBucket(s, x) => conn[s][x] # NoConn
  BY ConnTyped DEF PhonesInv, ConnSound
<1>2. ASSUME NEW s \in Phones
      PROVE  ToSet(busy[s]) \subseteq {x \in SlotNums : conn[s][x] # NoConn}
  <2> SUFFICES ASSUME NEW x \in ToSet(busy[s]) PROVE x \in SlotNums /\ conn[s][x] # NoConn
    OBVIOUS
  <2>1. busy[s] \in Seq(SlotNums)
    BY DEF PhonesInv, Typed
  <2>2. x \in SlotNums
    BY <2>1, InList
  <2> QED
    BY <1>1, <2>2 DEF HasBucket
<1>3. \A p \in Phones : ToSet(stops[p]) \subseteq SlotNums
  BY DEF PhonesInv, Typed, ToSet
<1>4. \A p \in Phones : remote[p] # NoRemote => p \in exited \/ Mine(p).owner = p
  BY DEF PhonesInv, PhoneSound
<1>5. TypeOK
  BY <1>1, <1>2, <1>3, <1>4 DEF PhonesInv, Typed, TypeOK
<1>6. ASSUME NEW p \in Phones, NEW q \in Phones, InConversation(p, q)
      PROVE  remote[p].slot \in ToSet(busy[q])
  <2>1. p \notin exited /\ remote[p] # NoRemote /\ remote[p].server = q /\ Mine(p).flow = "talk"
    BY <1>6 DEF InConversation, Talks
  <2>2. /\ remote[p].slot \in SlotNums /\ Mine(p) # NoConn
        /\ Mine(p) = conn[q][remote[p].slot] /\ ConnSound(q, remote[p].slot)
    BY <2>1, MineIs
  <2> QED
    BY <2>1, <2>2 DEF ConnSound, Sounding, HasBucket
<1> QED
  BY <1>5, <1>6 DEF BusyWhileTalking

(* While two phones talk to each other each has its BUSY bucket on the       *)
(* server of the other, however often anybody has called, answered, hung up  *)
(* or exited before (call, answer, remoteAnswered, auphone.c).               *)
THEOREM TalkersAreBusy == Spec => []BusyWhileTalking
  BY InitInv, NextInv, InvGivesBusy, PTL DEF Spec

-----------------------------------------------------------------------------
(* The devices of ClockedFlows.                                              *)

\* "AuStartFlow has enabled the driver and not yet noted it" is no point at
\* which the interrupt comes.
NotedAtOnce == "mark" \notin Preempted

\* A device that is released takes the rates it is asked for.
TakesAnyRate == \A setup \in Setups : setup.release => setup.exact

-----------------------------------------------------------------------------
(* The types.                                                                *)

Compilations == Seq([lead : Flows, groups : Seq(Flows)])

\* What may be on the stacks, for each operation.
FlowOps == {"count", "compare", "note", "free", "unlink", "destroy"}
Changes == [op : {"change"}, flow : Flows, es : SUBSET Ends, new : States,
            process : BOOLEAN, reason : Reasons]
Checks == [op : {"check"}, flow : Flows, e : Ends, process : BOOLEAN, reason : Reasons]
Stores == [op : {"store"}, flow : Flows, new : States]
FlowFrames == [op : FlowOps, flow : Flows]
Plain == [op : {"unblock", "process", "rearm"}]
Searches == [op : {"find", "update"}, flow : Pointers, compiled : Compilations]
Gathers == [op : {"gather"}, flow : Flows, at : Pointers, groups : Seq(Flows),
            compiled : Compilations]
Results == [op : {"setup", "swap"}, compiled : Compilations]
Enablings == [op : {"enable", "mark"}, started : BOOLEAN]
Reads == [op : {"read"}, flow : Flows, new : States, reason : Reasons]
Installs == [op : {"install"}, flow : Flows, outcome : Outcomes]

\* The frames that come to the top by a call, and all.
Calls == Changes \cup Checks \cup Stores \cup FlowFrames \cup Plain \cup Searches \cup Gathers
            \cup Results \cup Reads \cup Installs
Frames == Calls \cup Enablings

Threads == {"server", "tick"}

FlowsTyped == /\ head \in Pointers
              /\ next \in [Flows -> Pointers] /\ prev \in [Flows -> Pointers]
              /\ elems \in SUBSET Flows
              /\ auFlow \in Compilations
              /\ enabled \in BOOLEAN /\ card \in Cards /\ rate \in Nat
              /\ stack \in [Threads -> Seq(Frames)]

-----------------------------------------------------------------------------
(* The inductive invariant.                                                  *)

\* Driver and note of it are behind an enabling that is on top of a stack.
Starting(s) == s # <<>> /\ Head(s).op \in {"enable", "mark"} /\ Head(s).started
Stopping(s) == s # <<>> /\ Head(s).op \in {"enable", "mark"} /\ ~Head(s).started
Marking(s) == s # <<>> /\ Head(s).op = "mark"

\* Enablings are on top only; the interrupt's own frames are on its stack, with
\* the end of intervalProc at the bottom and nowhere else.
Shaped ==
    /\ \A t \in Threads : \A i \in 2 .. Len(stack[t]) : stack[t][i] \in Calls
    /\ \A i \in 1 .. Len(stack["server"]) : stack["server"][i].op \notin {"rearm", "read", "note"}
    /\ \A i \in 1 .. Len(stack["tick"]) :
         stack["tick"][i].op = "rearm" <=> i = Len(stack["tick"])

\* The device, alone.
Sound(c) ==
    /\ c.open <=> c.input # "none"
    /\ c.open => c.input = IF c.setup.shared THEN "out" ELSE "own"
    /\ IF c.setup.release THEN c.open <=> c.enabled ELSE c.open
    /\ c.outRate = c.inRate
CardSound == Sound(card)

\* The driver is enabled when the server believes it is.
NotesAgree ==
    /\ \A t \in Threads :
         Marking(stack[t]) => enabled = ~Head(stack[t]).started /\ card.enabled = ~enabled
    /\ (\A t \in Threads : ~Marking(stack[t])) => enabled = card.enabled
    /\ Marking(stack["server"]) => stack["tick"] = <<>>

\* What runs is enabled, or about to be; the driver is told to stop only when
\* nothing runs.
RunsEnabled ==
    /\ auFlow # <<>> => enabled \/ \E t \in Threads : Starting(stack[t])
    /\ \A t \in Threads : Stopping(stack[t]) => auFlow = <<>>
    /\ Stopping(stack["server"]) => stack["tick"] = <<>>

\* Once flows have been compiled the rate is the card's, and its timer runs but
\* while the interrupt does.
RateKnown ==
    /\ rate # 0 => rate = card.outRate /\ (card.armed \/ stack["tick"] # <<>>)
    /\ rate = 0 => /\ auFlow = <<>> /\ ~enabled
                   /\ \A t \in Threads : /\ ~Starting(stack[t])
                                         /\ \A i \in 1 .. Len(stack[t]) : stack[t][i].op # "swap"

DeviceInv == FlowsTyped /\ Shaped /\ CardSound /\ NotesAgree /\ RunsEnabled /\ RateKnown

-----------------------------------------------------------------------------
(* Frames.                                                                   *)

\* The kind of a frame tells its fields.
LEMMA FrameKinds ==
  ASSUME NEW x \in Frames
  PROVE  /\ x.op = "change" => x \in Changes
         /\ x.op = "check" => x \in Checks
         /\ x.op = "store" => x \in Stores
         /\ x.op \in FlowOps => x \in FlowFrames
         /\ x.op \in {"find", "update"} => x \in Searches
         /\ x.op = "gather" => x \in Gathers
         /\ x.op \in {"setup", "swap"} => x \in Results
         /\ x.op \in {"enable", "mark"} => x \in Enablings
         /\ x.op = "read" => x \in Reads
         /\ x.op = "install" => x \in Installs
         /\ x.op \notin {"enable", "mark"} => x \in Calls
BY DEF Frames, Calls, Changes, Checks, Stores, FlowFrames, FlowOps, Plain, Searches, Gathers,
       Results, Enablings, Reads, Installs

LEMMA CallsAreFrames ==
  /\ Calls \subseteq Frames
  /\ \A x \in Calls : x.op \notin {"enable", "mark"}
BY DEF Frames, Calls, Changes, Checks, Stores, FlowFrames, FlowOps, Plain, Searches, Gathers,
       Results, Enablings, Reads, Installs

\* The calls that requests make, and in which nothing is ready to run.
Simple == {x \in Calls : x.op \notin {"rearm", "read", "note", "swap"}}

LEMMA SimpleFrames ==
  /\ \A f \in Flows, es \in SUBSET Ends, new \in States, p \in BOOLEAN, r \in Reasons :
       Change(f, es, new, p, r) \in Simple
  /\ \A f \in Flows, e \in Ends, p \in BOOLEAN, r \in Reasons : Check(f, e, p, r) \in Simple
  /\ \A f \in Flows, new \in States : Store(f, new) \in Simple
  /\ \A f \in Flows, op \in FlowOps \ {"note"} : OnFlow(op, f) \in Simple
  /\ Unblock \in Simple /\ Process \in Simple
  /\ \A p \in Pointers, c \in Compilations : Find(p, c) \in Simple /\ Update(p, c) \in Simple
  /\ \A f \in Flows, p \in Pointers, gs \in Seq(Flows), c \in Compilations :
       Gather(f, p, gs, c) \in Simple
  /\ \A c \in Compilations : Setup(c) \in Simple
  /\ \A f \in Flows, o \in Outcomes : Install(f, o) \in Simple
<1>1. /\ \A f \in Flows, es \in SUBSET Ends, new \in States, p \in BOOLEAN, r \in Reasons :
           Change(f, es, new, p, r) \in Simple
      /\ \A f \in Flows, e \in Ends, p \in BOOLEAN, r \in Reasons : Check(f, e, p, r) \in Simple
      /\ \A f \in Flows, new \in States : Store(f, new) \in Simple
  BY DEF Simple, Calls, Changes, Checks, Stores, Change, Check, Store
<1>2. /\ \A f \in Flows, op \in FlowOps \ {"note"} : OnFlow(op, f) \in Simple
      /\ Unblock \in Simple /\ Process \in Simple
  BY DEF Simple, Calls, FlowFrames, FlowOps, Plain, OnFlow, Unblock, Process
<1>3. \A p \in Pointers, c \in Compilations : Find(p, c) \in Simple /\ Update(p, c) \in Simple
  BY DEF Simple, Calls, Searches, Find, Update
<1>4. \A f \in Flows, p \in Pointers, gs \in Seq(Flows), c \in Compilations :
        Gather(f, p, gs, c) \in Simple
  BY DEF Simple, Calls, Gathers, Gather
<1>5. \A c \in Compilations : Setup(c) \in Simple
  BY DEF Simple, Calls, Results, Setup
<1>6. \A f \in Flows, o \in Outcomes : Install(f, o) \in Simple
  BY DEF Simple, Calls, Installs, Install
<1> QED
  BY <1>1, <1>2, <1>3, <1>4, <1>5, <1>6

\* A frame that is pushed on a condition.
LEMMA IfFrames ==
  ASSUME NEW S, NEW c, NEW q \in Seq(S)
  PROVE  If(c, q) \in Seq(S)
BY DEF If

LEMMA OneFrame ==
  ASSUME NEW S, NEW x \in S
  PROVE  /\ <<x>> \in Seq(S) /\ <<>> \in Seq(S)
         /\ Len(<<x>>) = 1 /\ <<x>>[1] = x /\ Len(<<>>) = 0
OBVIOUS

LEMMA NoFrames ==
  ASSUME NEW S, NEW q \in Seq(S), Len(q) = 0
  PROVE  q = <<>>
OBVIOUS

LEMMA TwoFrames ==
  ASSUME NEW S, NEW x \in S, NEW y \in S
  PROVE  /\ <<x, y>> \in Seq(S) /\ Len(<<x, y>>) = 2
         /\ <<x, y>>[1] = x /\ <<x, y>>[2] = y
OBVIOUS

LEMMA SeqElements ==
  ASSUME NEW S, NEW q \in Seq(S)
  PROVE  Len(q) \in Nat /\ \A i \in 1 .. Len(q) : q[i] \in S
OBVIOUS

LEMMA FunctionIsSeq ==
  ASSUME NEW S, NEW n \in Nat, NEW q \in [1 .. n -> S]
  PROVE  q \in Seq(S) /\ Len(q) = n
OBVIOUS

\* The head and the rest of a stack.
LEMMA StackParts ==
  ASSUME NEW S, NEW s \in Seq(S), s # <<>>
  PROVE  /\ Head(s) \in S /\ Head(s) = s[1] /\ Len(s) \in Nat \ {0}
         /\ Tail(s) \in Seq(S) /\ Len(Tail(s)) = Len(s) - 1
         /\ \A i \in 1 .. Len(Tail(s)) : Tail(s)[i] = s[i + 1]
OBVIOUS

\* Frames that take the place of the one on top.
LEMMA StackReplaced ==
  ASSUME NEW S, NEW s \in Seq(S), s # <<>>, NEW q \in Seq(S)
  PROVE  LET r == q \o Tail(s)
         IN  /\ r \in Seq(S) /\ Len(r) = Len(q) + Len(s) - 1
             /\ Len(q) \in Nat /\ Len(s) \in Nat \ {0}
             /\ \A i \in 1 .. Len(q) : r[i] = q[i]
             /\ \A i \in 2 .. Len(s) : r[Len(q) + i - 1] = s[i]
             /\ \A i \in Len(q) + 1 .. Len(r) : i - Len(q) + 1 \in 2 .. Len(s)
                                                /\ r[i] = s[i - Len(q) + 1]
<1>1. /\ Tail(s) \in Seq(S) /\ Len(s) \in Nat \ {0} /\ Len(Tail(s)) = Len(s) - 1
      /\ \A i \in 1 .. Len(Tail(s)) : Tail(s)[i] = s[i + 1]
  BY StackParts
<1> DEFINE u == Tail(s)
<1>2. /\ q \o u \in Seq(S) /\ Len(q \o u) = Len(q) + Len(u) /\ Len(q) \in Nat
      /\ \A k \in 1 .. Len(q) : (q \o u)[k] = q[k]
      /\ \A k \in 1 .. Len(u) : (q \o u)[Len(q) + k] = u[k]
  BY <1>1, SequenceJoin
<1> HIDE DEF u
<1>3. u \in Seq(S) /\ Len(u) = Len(s) - 1 /\ \A i \in 1 .. Len(u) : u[i] = s[i + 1]
  BY <1>1 DEF u
<1>4. \A i \in 2 .. Len(s) : (q \o u)[Len(q) + i - 1] = s[i]
  <2> SUFFICES ASSUME NEW i \in 2 .. Len(s) PROVE (q \o u)[Len(q) + i - 1] = s[i]
    OBVIOUS
  <2>1. i - 1 \in 1 .. Len(u) /\ Len(q) + (i - 1) = Len(q) + i - 1 /\ (i - 1) + 1 = i
    BY <1>1, <1>2, <1>3
  <2> QED
    BY <1>2, <1>3, <2>1
<1>5. \A i \in Len(q) + 1 .. Len(q \o u) : i - Len(q) + 1 \in 2 .. Len(s)
                                           /\ (q \o u)[i] = s[i - Len(q) + 1]
  <2> SUFFICES ASSUME NEW i \in Len(q) + 1 .. Len(q \o u)
               PROVE  i - Len(q) + 1 \in 2 .. Len(s) /\ (q \o u)[i] = s[i - Len(q) + 1]
    OBVIOUS
  <2>1. i - Len(q) + 1 \in 2 .. Len(s) /\ Len(q) + (i - Len(q) + 1) - 1 = i
    BY <1>1, <1>2, <1>3
  <2> QED
    BY <1>4, <2>1
<1> QED
  BY <1>1, <1>2, <1>3, <1>4, <1>5 DEF u

-----------------------------------------------------------------------------
(* A frame on top is replaced by calls.                                      *)

LEMMA TheThreads ==
  /\ Running \in Threads /\ Threads = {"server", "tick"}
  /\ Running = "server" => stack["tick"] = <<>>
  /\ stack["tick"] # <<>> => Running = "tick"
BY DEF Running, Threads

\* What DeviceInv reads of the stacks: what is on top, and whether the interrupt
\* runs and a compiled flow is about to be run.
SameView ==
    /\ \A t \in Threads : /\ Starting(stack'[t]) <=> Starting(stack[t])
                          /\ Stopping(stack'[t]) <=> Stopping(stack[t])
                          /\ Marking(stack'[t]) <=> Marking(stack[t])
                          /\ Marking(stack[t]) => Head(stack'[t]) = Head(stack[t])
    /\ stack'["tick"] = <<>> <=> stack["tick"] = <<>>

NoSwap(s) == \A i \in 1 .. Len(s) : s[i].op # "swap"

\* Frames that may take the place of the one on top.
Pushed(q) ==
    /\ q \in Seq(Calls)
    /\ \A i \in 1 .. Len(q) : /\ q[i].op # "rearm"
                              /\ Running = "server" => q[i].op \notin {"read", "note"}

LEMMA CallReplaced ==
  ASSUME stack \in [Threads -> Seq(Frames)], Shaped, stack[Running] # <<>>,
         Top.op \notin {"enable", "mark", "rearm"}, NEW q, Pushed(q), Continue(q)
  PROVE  /\ stack' \in [Threads -> Seq(Frames)] /\ Shaped' /\ SameView
         /\ \A t \in Threads : NoSwap(q) /\ NoSwap(stack[t]) => NoSwap(stack'[t])
<1> DEFINE s == stack[Running]
           r == q \o Tail(s)
<1>1. /\ Running \in Threads /\ s \in Seq(Frames) /\ s # <<>> /\ Head(s) = Top
      /\ q \in Seq(Frames)
  <2>1. q \in Seq(Calls) /\ \A x \in Calls : x \in Frames
    BY CallsAreFrames DEF Pushed
  <2>2. q \in Seq(Frames)
    BY <2>1
  <2> QED
    BY <2>2, TheThreads DEF Top
<1>2. stack' = [stack EXCEPT ![Running] = r]
  BY DEF Continue
<1>3. stack'[Running] = r /\ \A t \in Threads : t # Running => stack'[t] = stack[t]
  BY <1>1, <1>2
<1>4. /\ r \in Seq(Frames) /\ Len(r) = Len(q) + Len(s) - 1
      /\ Len(q) \in Nat /\ Len(s) \in Nat \ {0}
      /\ \A i \in 1 .. Len(q) : r[i] = q[i]
      /\ \A i \in 2 .. Len(s) : r[Len(q) + i - 1] = s[i]
      /\ \A i \in Len(q) + 1 .. Len(r) : i - Len(q) + 1 \in 2 .. Len(s)
                                         /\ r[i] = s[i - Len(q) + 1]
  <2> HIDE DEF s
  <2> QED
    BY <1>1, StackReplaced
<1>5. Head(s) = s[1]
  BY <1>1
<1>6. \A i \in 2 .. Len(s) : s[i] \in Calls
  BY <1>1 DEF Shaped
<1>7. Running = "tick" => \A i \in 1 .. Len(s) : s[i].op = "rearm" <=> i = Len(s)
  BY DEF Shaped
<1>8. Running = "server" => \A i \in 1 .. Len(s) : s[i].op \notin {"rearm", "read", "note"}
  BY DEF Shaped
<1>9. Running = "tick" => Len(s) > 1
  BY <1>1, <1>4, <1>5, <1>7
<1> HIDE DEF s, r
<1>10. stack' \in [Threads -> Seq(Frames)]
  BY <1>1, <1>2, <1>4
<1>11. \A i \in 1 .. Len(r) : r[i] \in Calls
  <2> SUFFICES ASSUME NEW i \in 1 .. Len(r) PROVE r[i] \in Calls
    OBVIOUS
  <2>1. CASE i \in 1 .. Len(q)
    BY <1>4, <2>1 DEF Pushed
  <2>2. CASE i \in Len(q) + 1 .. Len(r)
    BY <1>4, <1>6, <2>2
  <2> QED
    BY <1>4, <2>1, <2>2
<1>12. Running = "server" => \A i \in 1 .. Len(r) : r[i].op \notin {"rearm", "read", "note"}
  <2> SUFFICES ASSUME Running = "server", NEW i \in 1 .. Len(r)
               PROVE  r[i].op \notin {"rearm", "read", "note"}
    OBVIOUS
  <2>1. CASE i \in 1 .. Len(q)
    BY <1>4, <2>1 DEF Pushed
  <2>2. CASE i \in Len(q) + 1 .. Len(r)
    <3>1. i - Len(q) + 1 \in 1 .. Len(s) /\ r[i] = s[i - Len(q) + 1]
      <4>1. i - Len(q) + 1 \in 2 .. Len(s) /\ r[i] = s[i - Len(q) + 1]
        BY <1>4, <2>2
      <4>2. 2 .. Len(s) \subseteq 1 .. Len(s)
        BY <1>4
      <4> QED
        BY <4>1, <4>2
    <3> QED
      BY <1>8, <3>1
  <2> QED
    BY <1>4, <2>1, <2>2
<1>13. Running = "tick" => \A i \in 1 .. Len(r) : r[i].op = "rearm" <=> i = Len(r)
  <2> SUFFICES ASSUME Running = "tick", NEW i \in 1 .. Len(r)
               PROVE  r[i].op = "rearm" <=> i = Len(r)
    OBVIOUS
  <2>1. CASE i \in 1 .. Len(q)
    <3>1. i # Len(r)
      BY <1>4, <1>9, <2>1
    <3>2. r[i].op # "rearm"
      BY <1>4, <2>1 DEF Pushed
    <3> QED
      BY <3>1, <3>2
  <2>2. CASE i \in Len(q) + 1 .. Len(r)
    <3>1. i - Len(q) + 1 \in 1 .. Len(s) /\ r[i] = s[i - Len(q) + 1]
      <4>1. i - Len(q) + 1 \in 2 .. Len(s) /\ r[i] = s[i - Len(q) + 1]
        BY <1>4, <2>2
      <4>2. 2 .. Len(s) \subseteq 1 .. Len(s)
        BY <1>4
      <4> QED
        BY <4>1, <4>2
    <3>2. i - Len(q) + 1 = Len(s) <=> i = Len(r)
      BY <1>4
    <3> QED
      BY <1>7, <3>1, <3>2
  <2> QED
    BY <1>4, <2>1, <2>2
<1>14. Shaped'
  <2>1. \A t \in Threads : \A i \in 2 .. Len(stack'[t]) : stack'[t][i] \in Calls
    <3> SUFFICES ASSUME NEW t \in Threads, NEW i \in 2 .. Len(stack'[t])
                 PROVE  stack'[t][i] \in Calls
      OBVIOUS
    <3>1. CASE t = Running
      <4>1. i \in 1 .. Len(r)
        BY <1>3, <1>4, <3>1
      <4> QED
        BY <1>3, <1>11, <3>1, <4>1
    <3>2. CASE t # Running
      BY <1>3, <3>2 DEF Shaped
    <3> QED
      BY <3>1, <3>2
  <2>2. \A i \in 1 .. Len(stack'["server"]) : stack'["server"][i].op \notin {"rearm", "read", "note"}
    <3>1. CASE Running = "server"
      BY <1>3, <1>12, <3>1
    <3>2. CASE Running # "server"
      BY <1>3, <3>2, TheThreads DEF Shaped
    <3> QED
      BY <3>1, <3>2
  <2>3. \A i \in 1 .. Len(stack'["tick"]) :
          stack'["tick"][i].op = "rearm" <=> i = Len(stack'["tick"])
    <3>1. CASE Running = "tick"
      BY <1>3, <1>13, <3>1
    <3>2. CASE Running # "tick"
      BY <1>3, <3>2, TheThreads DEF Shaped
    <3> QED
      BY <3>1, <3>2
  <2> QED
    BY <2>1, <2>2, <2>3 DEF Shaped
<1>15. \A x \in Calls : x.op \notin {"enable", "mark"}
  BY CallsAreFrames
<1>16. r # <<>> => Head(r) \in Calls
  <2> SUFFICES ASSUME r # <<>> PROVE Head(r) \in Calls
    OBVIOUS
  <2>1. Head(r) = r[1] /\ 1 \in 1 .. Len(r)
    BY <1>4
  <2> QED
    BY <1>11, <2>1
<1>17. SameView
  <2>1. /\ ~Starting(s) /\ ~Stopping(s) /\ ~Marking(s)
        /\ ~Starting(r) /\ ~Stopping(r) /\ ~Marking(r)
    BY <1>1, <1>15, <1>16 DEF Starting, Stopping, Marking
  <2>2. stack'["tick"] = <<>> <=> stack["tick"] = <<>>
    <3>1. CASE Running = "tick"
      <4>1. Len(r) > 0
        BY <1>4, <1>9, <3>1
      <4>2. r # <<>>
        BY <4>1
      <4> QED
        BY <1>1, <1>3, <3>1, <4>2 DEF s
    <3>2. CASE Running # "tick"
      BY <1>3, <3>2, TheThreads
    <3> QED
      BY <3>1, <3>2
  <2>3. \A t \in Threads : /\ Starting(stack'[t]) <=> Starting(stack[t])
                           /\ Stopping(stack'[t]) <=> Stopping(stack[t])
                           /\ Marking(stack'[t]) <=> Marking(stack[t])
                           /\ Marking(stack[t]) => Head(stack'[t]) = Head(stack[t])
    <3> SUFFICES ASSUME NEW t \in Threads
                 PROVE  /\ Starting(stack'[t]) <=> Starting(stack[t])
                        /\ Stopping(stack'[t]) <=> Stopping(stack[t])
                        /\ Marking(stack'[t]) <=> Marking(stack[t])
                        /\ Marking(stack[t]) => Head(stack'[t]) = Head(stack[t])
      OBVIOUS
    <3>1. CASE t = Running
      BY <1>3, <2>1, <3>1 DEF s
    <3>2. CASE t # Running
      <4>1. stack'[t] = stack[t]
        BY <1>3, <3>2
      <4> QED
        BY <4>1
    <3> QED
      BY <3>1, <3>2
  <2> QED
    BY <2>2, <2>3 DEF SameView
<1>18. \A t \in Threads : NoSwap(q) /\ NoSwap(stack[t]) => NoSwap(stack'[t])
  <2> SUFFICES ASSUME NEW t \in Threads, NoSwap(q), NoSwap(stack[t]) PROVE NoSwap(stack'[t])
    OBVIOUS
  <2>1. CASE t = Running
    <3> SUFFICES ASSUME NEW i \in 1 .. Len(r) PROVE r[i].op # "swap"
      BY <1>3, <2>1 DEF NoSwap
    <3>1. CASE i \in 1 .. Len(q)
      BY <1>4, <3>1 DEF NoSwap
    <3>2. CASE i \in Len(q) + 1 .. Len(r)
      <4>1. i - Len(q) + 1 \in 1 .. Len(s) /\ r[i] = s[i - Len(q) + 1]
        BY <1>4, <3>2
      <4> QED
        BY <2>1, <4>1 DEF NoSwap, s
    <3> QED
      BY <1>4, <3>1, <3>2
  <2>2. CASE t # Running
    BY <1>3, <2>2
  <2> QED
    BY <2>1, <2>2
<1> QED
  BY <1>10, <1>14, <1>17, <1>18

\* The invariant depends on the stacks by its view only.
LEMMA ViewKeeps ==
  ASSUME DeviceInv, FlowsTyped', Shaped', SameView, UNCHANGED <<auFlow, device>>,
         rate = 0 => \A t \in Threads : NoSwap(stack'[t])
  PROVE  DeviceInv'
<1>1. UNCHANGED <<auFlow, enabled, card, rate>>
  BY DEF device
<1>2. CardSound'
  BY <1>1 DEF DeviceInv, CardSound, Sound
<1>3. NotesAgree'
  <2>1. "server" \in Threads
    BY DEF Threads
  <2> QED
    BY <1>1, <2>1 DEF DeviceInv, NotesAgree, SameView
<1>4. RunsEnabled'
  <2>1. "server" \in Threads
    BY DEF Threads
  <2> QED
    BY <1>1, <2>1 DEF DeviceInv, RunsEnabled, SameView
<1>5. RateKnown'
  BY <1>1 DEF DeviceInv, RateKnown, SameView, NoSwap
<1> QED
  BY <1>2, <1>3, <1>4, <1>5 DEF DeviceInv

\* The links and the list of elements keep their types.
LinksTyped == /\ head \in Pointers
              /\ next \in [Flows -> Pointers] /\ prev \in [Flows -> Pointers]
              /\ elems \in SUBSET Flows

LEMMA FlowCallKeeps ==
  ASSUME DeviceInv, stack[Running] # <<>>, Top.op \notin {"enable", "mark", "rearm"},
         NEW q, Pushed(q), NoSwap(q), Continue(q), LinksTyped', UNCHANGED <<auFlow, device>>
  PROVE  DeviceInv'
<1>1. /\ stack' \in [Threads -> Seq(Frames)] /\ Shaped' /\ SameView
      /\ \A t \in Threads : NoSwap(q) /\ NoSwap(stack[t]) => NoSwap(stack'[t])
  BY CallReplaced DEF DeviceInv, FlowsTyped
<1>2. FlowsTyped'
  BY <1>1 DEF DeviceInv, FlowsTyped, LinksTyped, device
<1>3. rate = 0 => \A t \in Threads : NoSwap(stack'[t])
  BY <1>1 DEF DeviceInv, RateKnown, NoSwap
<1> QED
  BY <1>1, <1>2, <1>3, ViewKeeps

LEMMA SimpleKeeps ==
  ASSUME DeviceInv, NEW op, op \notin {"enable", "mark", "rearm"}, At(op),
         NEW q \in Seq(Simple), Continue(q), LinksTyped', UNCHANGED <<auFlow, device>>
  PROVE  DeviceInv'
<1>1. \A i \in 1 .. Len(q) : q[i] \in Simple
  OBVIOUS
<1>2. Pushed(q) /\ NoSwap(q)
  <2>1. q \in Seq(Calls)
    BY DEF Simple
  <2> QED
    BY <1>1, <2>1 DEF Pushed, NoSwap, Simple
<1>3. stack[Running] # <<>> /\ Top.op \notin {"enable", "mark", "rearm"}
  BY DEF At
<1> QED
  BY <1>2, <1>3, FlowCallKeeps

LEMMA TopIs ==
  ASSUME DeviceInv, NEW op, At(op)
  PROVE  Top \in Frames /\ Top.op = op /\ stack[Running] # <<>>
<1>1. stack[Running] \in Seq(Frames) /\ stack[Running] # <<>>
  BY TheThreads DEF DeviceInv, FlowsTyped, At
<1> QED
  BY <1>1 DEF At, Top

LEMMA LinksSame ==
  ASSUME DeviceInv, UNCHANGED <<links, elems>>
  PROVE  LinksTyped'
BY DEF DeviceInv, FlowsTyped, LinksTyped, links

-----------------------------------------------------------------------------
(* The steps that change no device.                                          *)

LEMMA ChangeStatesKeeps ==
  ASSUME DeviceInv, ChangeStates
  PROVE  DeviceInv'
<1>1. At("change") /\ Top \in Changes
  BY TopIs, FrameKinds DEF ChangeStates
<1> DEFINE f == Top.flow
           changed == Changed(f, Top.es, Top.new)
           check(e) == If(e \in Top.es, <<Check(f, e, Top.process, Top.reason)>>)
           q == check("in") \o check("out")
                  \o If(changed # {}, <<OnFlow("count", f)>>) \o <<Unblock>>
                  \o If(Top.process, <<OnFlow("compare", f)>>)
<1>2. f \in Flows /\ Top.process \in BOOLEAN /\ Top.reason \in Reasons
  BY <1>1 DEF Changes
<1>3. check("in") \in Seq(Simple) /\ check("out") \in Seq(Simple)
  <2>1. Check(f, "in", Top.process, Top.reason) \in Simple
        /\ Check(f, "out", Top.process, Top.reason) \in Simple
    BY <1>2, SimpleFrames DEF Ends
  <2> QED
    BY <2>1, IfFrames, OneFrame
<1>4. /\ If(changed # {}, <<OnFlow("count", f)>>) \in Seq(Simple)
      /\ If(Top.process, <<OnFlow("compare", f)>>) \in Seq(Simple)
      /\ <<Unblock>> \in Seq(Simple)
  <2>1. OnFlow("count", f) \in Simple /\ OnFlow("compare", f) \in Simple /\ Unblock \in Simple
    BY <1>2, SimpleFrames DEF FlowOps
  <2> QED
    BY <1>2, <2>1, IfFrames, OneFrame
<1>5. q \in Seq(Simple)
  <2> HIDE DEF check, changed, f
  <2> QED
    BY <1>3, <1>4, SequenceJoin
<1>6. Continue(q) /\ UNCHANGED <<links, elems>> /\ UNCHANGED <<auFlow, device>>
  BY DEF ChangeStates
<1>7. LinksTyped' /\ "change" \notin {"enable", "mark", "rearm"}
  BY <1>6, LinksSame
<1> HIDE DEF q
<1> QED
  BY <1>1, <1>5, <1>6, <1>7, SimpleKeeps

\* The actions that fire are actions of the flow.
LEMMA TriggeredActions ==
  ASSUME FlowsAssumption, NEW f \in Flows, NEW s, NEW p, NEW reason
  PROVE  Triggered(f, s, p, reason) \in Seq({Actions[f][i] : i \in 1 .. Len(Actions[f])})
<1> DEFINE as == Actions[f]
           A == {as[i] : i \in 1 .. Len(as)}
           ss == [i \in 1 .. Len(as) |->
                    LET a == as[i]
                    IN  If(/\ a.state \in {s, "Any"} /\ a.prev \in {p, "Any"}
                           /\ a.reason \in {reason, "Any"}, <<a>>)]
<1>1. Len(as) \in Nat
  BY DEF FlowsAssumption
<1>2. \A i \in 1 .. Len(as) : ss[i] \in Seq(A)
  BY OneFrame, IfFrames
<1>3. ss \in Seq(Seq(A))
  <2> DEFINE n == Len(as)
             Q == Seq(A)
  <2>1. n \in Nat /\ ss \in [1 .. n -> Q]
    BY <1>1, <1>2
  <2> HIDE DEF ss, n, Q
  <2>2. ss \in Seq(Q)
    BY <2>1, FunctionIsSeq
  <2> QED
    BY <2>2 DEF Q
<1>4. FlattenSeq(ss) \in Seq(A)
  <2> HIDE DEF ss, A
  <2>1. <<>> \in Seq(A)
    OBVIOUS
  <2> QED
    BY <1>3, <2>1, FlattenAppend
<1> QED
  BY <1>4 DEF Triggered

LEMMA CheckActionsKeeps ==
  ASSUME FlowsAssumption, DeviceInv, CheckActions
  PROVE  DeviceInv'
<1>1. At("check") /\ Top \in Checks
  BY TopIs, FrameKinds DEF CheckActions
<1> DEFINE f == Top.flow
           e == Top.e
           pause == /\ e = "in" /\ f \in Clients
                    /\ was[f][e] = "Stop" /\ el[f][e] = "Start"
           s == IF pause THEN "Pause" ELSE el[f][e]
           p == IF pause THEN "Start" ELSE was[f][e]
           reason == IF pause THEN "Underrun" ELSE Top.reason
           fired == IF e = "in" THEN Triggered(f, s, p, reason) ELSE <<>>
           q == [i \in 1 .. Len(fired) |->
                   Change(fired[i].flow, Ends, fired[i].new, Top.process, reason)]
           as == {Actions[f][i] : i \in 1 .. Len(Actions[f])}
<1>2. f \in Flows /\ Top.process \in BOOLEAN /\ reason \in Reasons
  BY <1>1 DEF Checks, Reasons
<1>3. fired \in Seq(as)
  <2>1. Triggered(f, s, p, reason) \in Seq(as)
    <3> HIDE DEF f, s, p, reason
    <3> QED
      BY <1>2, TriggeredActions
  <2>2. <<>> \in Seq(as)
    OBVIOUS
  <2> HIDE DEF as, f, s, p, reason
  <2> QED
    BY <2>1, <2>2
<1>4. \A a \in as : a.flow \in Flows /\ a.new \in States
  <2>1. Actions[f] \in Seq([state : States \cup {"Any"}, prev : States \cup {"Any"},
                            reason : Reasons \cup {"Any"}, flow : Flows, new : States])
    BY <1>2 DEF FlowsAssumption
  <2> DEFINE us == Actions[f]
  <2>2. \A i \in 1 .. Len(us) : us[i].flow \in Flows /\ us[i].new \in States
    <3> DEFINE R == [state : States \cup {"Any"}, prev : States \cup {"Any"},
                     reason : Reasons \cup {"Any"}, flow : Flows, new : States]
    <3>1. us \in Seq(R)
      BY <2>1
    <3>2. \A x \in R : x.flow \in Flows /\ x.new \in States
      OBVIOUS
    <3> HIDE DEF us, R
    <3> QED
      BY <3>1, <3>2, SeqElements
  <2> QED
    BY <2>2
<1>5. q \in Seq(Simple)
  <2>1. Len(fired) \in Nat /\ \A i \in 1 .. Len(fired) : fired[i] \in as
    <3> HIDE DEF as, fired
    <3> QED
      BY <1>3, SeqElements
  <2>2. \A i \in 1 .. Len(fired) :
          Change(fired[i].flow, Ends, fired[i].new, Top.process, reason) \in Simple
    <3> HIDE DEF as, fired, f, reason
    <3> QED
      BY <1>2, <1>4, <2>1, SimpleFrames
  <2>3. q \in [1 .. Len(fired) -> Simple]
    <3> HIDE DEF fired, reason
    <3> QED
      BY <2>2
  <2> HIDE DEF fired, q
  <2> QED
    BY <2>1, <2>3, FunctionIsSeq
<1>6. <<>> \in Seq(Simple)
  OBVIOUS
<1>7. (Continue(q) \/ Continue(<<>>)) /\ UNCHANGED <<links, elems>> /\ UNCHANGED <<auFlow, device>>
  BY DEF CheckActions
<1>8. LinksTyped' /\ "check" \notin {"enable", "mark", "rearm"}
  BY <1>7, LinksSame
<1> HIDE DEF q
<1> QED
  BY <1>1, <1>5, <1>6, <1>7, <1>8, SimpleKeeps

LEMMA CountingKeeps ==
  ASSUME DeviceInv, CountStates \/ StoreState \/ UnblockAudio \/ CompareState
  PROVE  DeviceInv'
<1>1. UNCHANGED <<links, elems>> /\ UNCHANGED <<auFlow, device>>
  BY DEF CountStates, StoreState, UnblockAudio, CompareState
<1>2. LinksTyped'
  BY <1>1, LinksSame
<1>3. CASE CountStates
  <2> DEFINE new == LET ss == {el[Top.flow][e] : e \in Ends}
                    IN  IF "Start" \in ss THEN "Start"
                        ELSE IF "Pause" \in ss THEN "Pause" ELSE "Stop"
  <2>1. At("count") /\ Continue(<<Store(Top.flow, new)>>)
    BY <1>3 DEF CountStates
  <2>2. Top \in FlowFrames
    BY <2>1, TopIs, FrameKinds DEF FlowOps
  <2>3. Top.flow \in Flows /\ new \in States
    BY <2>2 DEF FlowFrames, States
  <2>4. <<Store(Top.flow, new)>> \in Seq(Simple)
    <3> HIDE DEF new
    <3>1. Store(Top.flow, new) \in Simple
      BY <2>3, SimpleFrames
    <3> QED
      BY <3>1, OneFrame
  <2>5. "count" \notin {"enable", "mark", "rearm"}
    OBVIOUS
  <2> HIDE DEF new
  <2> QED
    BY <1>1, <1>2, <2>1, <2>4, <2>5, SimpleKeeps
<1>4. CASE StoreState \/ UnblockAudio
  <2>1. <<>> \in Seq(Simple)
    OBVIOUS
  <2>2. PICK op \in {"store", "unblock"} : At(op) /\ Continue(<<>>)
    BY <1>4 DEF StoreState, UnblockAudio
  <2>3. op \notin {"enable", "mark", "rearm"}
    OBVIOUS
  <2> QED
    BY <1>1, <1>2, <2>1, <2>2, <2>3, SimpleKeeps
<1>5. CASE CompareState
  <2> DEFINE q == If(state[Top.flow] # pending[Top.flow], <<Process>>)
  <2>1. At("compare") /\ Continue(q)
    BY <1>5 DEF CompareState
  <2>2. q \in Seq(Simple)
    BY SimpleFrames, OneFrame, IfFrames
  <2>3. "compare" \notin {"enable", "mark", "rearm"}
    OBVIOUS
  <2> HIDE DEF q
  <2> QED
    BY <1>1, <1>2, <2>1, <2>2, <2>3, SimpleKeeps
<1> QED
  BY <1>3, <1>4, <1>5

LEMMA PassesKeep ==
  ASSUME DeviceInv, ClearProcessed \/ FindOutput \/ GatherInputs \/ UpdateState
  PROVE  DeviceInv'
<1>1. UNCHANGED <<links, elems>> /\ UNCHANGED <<auFlow, device>>
  BY DEF ClearProcessed, FindOutput, GatherInputs, UpdateState
<1>2. LinksTyped'
  BY <1>1, LinksSame
<1>3. head \in Pointers /\ \A f \in Flows : next[f] \in Pointers
  BY DEF DeviceInv, FlowsTyped
<1>4. <<>> \in Compilations /\ <<>> \in Seq(Flows)
  BY DEF Compilations
<1>5. ASSUME ClearProcessed PROVE \E x \in Simple : At("process") /\ Continue(<<x>>)
  <2>1. Find(head, <<>>) \in Simple
    BY <1>3, <1>4, SimpleFrames
  <2> QED
    BY <1>5, <2>1 DEF ClearProcessed
<1>6. ASSUME FindOutput PROVE \E x \in Simple : At("find") /\ Continue(<<x>>)
  <2>1. At("find") /\ Top \in Searches
    BY <1>6, TopIs, FrameKinds DEF FindOutput
  <2>2. Top.flow \in Pointers /\ Top.compiled \in Compilations
    BY <2>1 DEF Searches
  <2>3. Update(head, Top.compiled) \in Simple
    BY <1>3, <2>2, SimpleFrames
  <2>4. Top.flow # NoFlow => /\ Find(next[Top.flow], Top.compiled) \in Simple
                             /\ Gather(Top.flow, head, <<>>, Top.compiled) \in Simple
    <3> SUFFICES ASSUME Top.flow # NoFlow
                 PROVE  /\ Find(next[Top.flow], Top.compiled) \in Simple
                        /\ Gather(Top.flow, head, <<>>, Top.compiled) \in Simple
      OBVIOUS
    <3>1. Top.flow \in Flows /\ next[Top.flow] \in Pointers
      BY <1>3, <2>2 DEF Pointers
    <3> QED
      BY <1>3, <1>4, <2>2, <3>1, SimpleFrames
  <2> QED
    BY <1>6, <2>1, <2>3, <2>4 DEF FindOutput
<1>7. ASSUME GatherInputs PROVE \E x \in Simple : At("gather") /\ Continue(<<x>>)
  <2>1. At("gather") /\ Top \in Gathers
    BY <1>7, TopIs, FrameKinds DEF GatherInputs
  <2> DEFINE f == Top.flow
             g == Top.at
             whole == Append(Top.compiled, [lead |-> f, groups |-> Top.groups])
  <2>2. f \in Flows /\ g \in Pointers /\ Top.groups \in Seq(Flows) /\ Top.compiled \in Compilations
    BY <2>1 DEF Gathers
  <2>3. Find(next[f], whole) \in Simple
    <3>1. [lead |-> f, groups |-> Top.groups] \in [lead : Flows, groups : Seq(Flows)]
      BY <2>2
    <3>2. whole \in Compilations
      BY <2>2, <3>1 DEF Compilations
    <3> HIDE DEF whole, f
    <3> QED
      BY <1>3, <2>2, <3>2, SimpleFrames
  <2>4. g # NoFlow => /\ Gather(f, next[g], Append(Top.groups, g), Top.compiled) \in Simple
                      /\ Gather(f, next[g], Top.groups, Top.compiled) \in Simple
    <3> SUFFICES ASSUME g # NoFlow
                 PROVE  /\ Gather(f, next[g], Append(Top.groups, g), Top.compiled) \in Simple
                        /\ Gather(f, next[g], Top.groups, Top.compiled) \in Simple
      OBVIOUS
    <3> HIDE DEF f, g
    <3>1. g \in Flows /\ next[g] \in Pointers
      BY <1>3, <2>2 DEF Pointers
    <3>2. Append(Top.groups, g) \in Seq(Flows)
      BY <2>2, <3>1
    <3> QED
      BY <2>2, <3>1, <3>2, SimpleFrames
  <2>5. \/ Continue(<<Find(next[f], whole)>>)
        \/ /\ g # NoFlow
           /\ \/ Continue(<<Gather(f, next[g], Append(Top.groups, g), Top.compiled)>>)
              \/ Continue(<<Gather(f, next[g], Top.groups, Top.compiled)>>)
    BY <1>7 DEF GatherInputs
  <2> HIDE DEF f, g, whole
  <2> QED
    BY <2>1, <2>3, <2>4, <2>5
<1>8. ASSUME UpdateState PROVE \E x \in Simple : At("update") /\ Continue(<<x>>)
  <2>1. At("update") /\ Top \in Searches
    BY <1>8, TopIs, FrameKinds DEF UpdateState
  <2>2. Top.flow \in Pointers /\ Top.compiled \in Compilations
    BY <2>1 DEF Searches
  <2>3. Setup(Top.compiled) \in Simple
    BY <2>2, SimpleFrames
  <2>4. Top.flow # NoFlow => Update(next[Top.flow], Top.compiled) \in Simple
    <3> SUFFICES ASSUME Top.flow # NoFlow PROVE Update(next[Top.flow], Top.compiled) \in Simple
      OBVIOUS
    <3>1. Top.flow \in Flows /\ next[Top.flow] \in Pointers
      BY <1>3, <2>2 DEF Pointers
    <3> QED
      BY <2>2, <3>1, SimpleFrames
  <2> QED
    BY <1>8, <2>1, <2>3, <2>4 DEF UpdateState
<1>9. PICK op \in {"process", "find", "gather", "update"}, x \in Simple :
        At(op) /\ Continue(<<x>>)
  BY <1>5, <1>6, <1>7, <1>8
<1>10. <<x>> \in Seq(Simple) /\ op \notin {"enable", "mark", "rearm"}
  BY OneFrame
<1> QED
  BY <1>1, <1>2, <1>9, <1>10, SimpleKeeps

LEMMA FlowChangesKeep ==
  ASSUME DeviceInv, FlowChange
  PROVE  DeviceInv'
<1>1. UNCHANGED <<auFlow, device>>
  BY DEF FlowChange, FreeElements, Unlink, InstallElements, FreeFlow
<1>2. ASSUME NEW op \in {"free", "unlink", "destroy"}, At(op) PROVE Top.flow \in Flows
  <2>1. Top \in FlowFrames
    BY <1>2, TopIs, FrameKinds DEF FlowOps
  <2> QED
    BY <2>1 DEF FlowFrames
<1>3. CASE FreeElements
  <2> DEFINE f == Top.flow
             q == If(f \in elems /\ state[f] # "Stop", <<Change(f, Ends, "Stop", TRUE, "User")>>)
                    \o If(f \in elems, <<OnFlow("unlink", f)>>)
  <2>1. At("free") /\ Continue(q) /\ UNCHANGED <<links, elems>>
    BY <1>3 DEF FreeElements
  <2>2. f \in Flows
    BY <1>2, <2>1
  <2>3. /\ Change(f, Ends, "Stop", TRUE, "User") \in Simple
        /\ OnFlow("unlink", f) \in Simple
    BY <2>2, SimpleFrames DEF States, Reasons, FlowOps
  <2>4. /\ If(f \in elems /\ state[f] # "Stop", <<Change(f, Ends, "Stop", TRUE, "User")>>)
             \in Seq(Simple)
        /\ If(f \in elems, <<OnFlow("unlink", f)>>) \in Seq(Simple)
    BY <2>3, OneFrame, IfFrames
  <2>5. q \in Seq(Simple)
    <3> HIDE DEF f
    <3> QED
      BY <2>4, SequenceJoin
  <2>6. LinksTyped' /\ "free" \notin {"enable", "mark", "rearm"}
    BY <2>1, LinksSame
  <2> HIDE DEF q
  <2> QED
    BY <1>1, <2>1, <2>5, <2>6, SimpleKeeps
<1>4. CASE Unlink
  <2> DEFINE f == Top.flow
  <2>1. At("unlink") /\ Continue(<<>>)
    BY <1>4 DEF Unlink
  <2>2. f \in Flows
    BY <1>2, <2>1
  <2>3. LinksTyped'
    BY <1>4, <2>2 DEF Unlink, LinksTyped, DeviceInv, FlowsTyped, Pointers
  <2>4. <<>> \in Seq(Simple) /\ "unlink" \notin {"enable", "mark", "rearm"}
    OBVIOUS
  <2> QED
    BY <1>1, <2>1, <2>3, <2>4, SimpleKeeps
<1>5. CASE InstallElements
  <2> DEFINE f == Top.flow
             q == If(Top.outcome # "ok", <<OnFlow("free", f)>>)
  <2>1. At("install") /\ Continue(q)
    BY <1>5 DEF InstallElements
  <2>2. f \in Flows
    BY <2>1, TopIs, FrameKinds DEF Installs
  <2>3. LinksTyped'
    <3>1. next' \in [Flows -> Pointers]
      BY <1>5, <2>2 DEF InstallElements, DeviceInv, FlowsTyped, Pointers
    <3>2. prev' \in [Flows -> Pointers]
      BY <1>5, <2>2 DEF InstallElements, DeviceInv, FlowsTyped, Pointers
    <3>3. head' \in Pointers /\ elems' \in SUBSET Flows
      BY <1>5, <2>2 DEF InstallElements, DeviceInv, FlowsTyped, Pointers
    <3> QED
      BY <3>1, <3>2, <3>3 DEF LinksTyped
  <2>4. q \in Seq(Simple) /\ "install" \notin {"enable", "mark", "rearm"}
    <3>1. OnFlow("free", f) \in Simple
      BY <2>2, SimpleFrames DEF FlowOps
    <3> QED
      BY <3>1, OneFrame, IfFrames
  <2> HIDE DEF q
  <2> QED
    BY <1>1, <2>1, <2>3, <2>4, SimpleKeeps
<1>6. CASE FreeFlow
  <2> DEFINE f == Top.flow
  <2>1. At("destroy") /\ Continue(<<>>)
    BY <1>6 DEF FreeFlow
  <2>2. f \in Flows
    BY <1>2, <2>1
  <2>3. LinksTyped'
    BY <1>6, <2>2 DEF FreeFlow, LinksTyped, DeviceInv, FlowsTyped, Pointers
  <2>4. <<>> \in Seq(Simple) /\ "destroy" \notin {"enable", "mark", "rearm"}
    OBVIOUS
  <2> QED
    BY <1>1, <2>1, <2>3, <2>4, SimpleKeeps
<1> QED
  BY <1>3, <1>4, <1>5, <1>6 DEF FlowChange

\* readInput, on the interrupt's stack.
LEMMA ReadInputKeeps ==
  ASSUME DeviceInv, ReadInput
  PROVE  DeviceInv'
<1> DEFINE q == <<Change(Top.flow, {"in"}, Top.new, FALSE, Top.reason),
                  OnFlow("note", Top.flow)>>
<1>1. At("read") /\ Top \in Reads /\ stack[Running] # <<>> /\ Top.op = "read"
  BY TopIs, FrameKinds DEF ReadInput
<1>2. Running = "tick"
  <2>1. Running = "server" => stack["server"][1].op # "read"
    <3>1. Running = "server" => stack["server"] \in Seq(Frames) /\ stack["server"] # <<>>
      BY <1>1, TheThreads DEF DeviceInv, FlowsTyped
    <3>2. Running = "server" => 1 \in 1 .. Len(stack["server"])
      BY <3>1
    <3> QED
      BY <3>2 DEF DeviceInv, Shaped
  <2>2. Top = stack[Running][1]
    BY <1>1, TheThreads DEF Top, DeviceInv, FlowsTyped
  <2> QED
    BY <1>1, <2>1, <2>2, TheThreads
<1>3. /\ Change(Top.flow, {"in"}, Top.new, FALSE, Top.reason) \in Calls
      /\ OnFlow("note", Top.flow) \in Calls
  <2>1. Top.flow \in Flows /\ Top.new \in States /\ Top.reason \in Reasons
    BY <1>1 DEF Reads
  <2>2. Change(Top.flow, {"in"}, Top.new, FALSE, Top.reason) \in Simple
    BY <2>1, SimpleFrames DEF Ends
  <2>3. OnFlow("note", Top.flow) \in FlowFrames
    BY <2>1 DEF OnFlow, FlowFrames, FlowOps
  <2> QED
    BY <2>2, <2>3 DEF Calls, Simple
<1>4. Pushed(q) /\ NoSwap(q)
  <2>1. q \in Seq(Calls)
    BY <1>3, TwoFrames
  <2>2. Len(q) = 2 /\ q[1].op = "change" /\ q[2].op = "note"
    BY DEF Change, OnFlow
  <2> HIDE DEF q
  <2>3. \A i \in 1 .. Len(q) : i = 1 \/ i = 2
    BY <2>2
  <2> QED
    BY <1>2, <2>1, <2>2, <2>3 DEF Pushed, NoSwap
<1>5. Pushed(<<>>) /\ NoSwap(<<>>)
  BY DEF Pushed, NoSwap
<1>6. (Continue(q) \/ Continue(<<>>)) /\ UNCHANGED <<links, elems>> /\ UNCHANGED <<auFlow, device>>
  BY DEF ReadInput, If
<1>7. LinksTyped' /\ Top.op \notin {"enable", "mark", "rearm"}
  BY <1>1, <1>6, LinksSame
<1> HIDE DEF q
<1> QED
  BY <1>1, <1>4, <1>5, <1>6, <1>7, FlowCallKeeps

\* The end of intervalProc is alone on its stack.
LEMMA RearmTimerKeeps ==
  ASSUME DeviceInv, RearmTimer
  PROVE  DeviceInv'
<1> DEFINE s == stack["tick"]
<1>1. stack[Running] # <<>> /\ Top.op = "rearm"
  BY DEF RearmTimer, At
<1>2. Top = stack[Running][1] /\ 1 \in 1 .. Len(stack[Running])
  BY <1>1, TheThreads DEF Top, DeviceInv, FlowsTyped
<1>3. Running = "tick"
  BY <1>1, <1>2, TheThreads DEF DeviceInv, Shaped
<1>4. Len(s) = 1 /\ s \in Seq(Frames) /\ s # <<>>
  <2>1. s \in Seq(Frames) /\ s # <<>>
    BY <1>1, <1>3 DEF DeviceInv, FlowsTyped, Threads
  <2>2. 1 = Len(s)
    BY <1>1, <1>2, <1>3 DEF DeviceInv, Shaped
  <2> QED
    BY <2>1, <2>2
<1>5. Tail(s) = <<>> /\ <<>> \o Tail(s) = <<>>
  <2> HIDE DEF s
  <2>1. Tail(s) \in Seq(Frames) /\ Len(Tail(s)) = 0
    BY <1>4, StackParts
  <2>2. Tail(s) = <<>>
    BY ONLY <2>1, NoFrames
  <2> QED
    BY <2>2
<1>6. stack' = [stack EXCEPT !["tick"] = <<>>]
  BY <1>3, <1>5 DEF RearmTimer, Continue
<1>7. /\ stack'["tick"] = <<>> /\ stack'["server"] = stack["server"]
      /\ stack' \in [Threads -> Seq(Frames)]
  BY <1>6 DEF DeviceInv, FlowsTyped, Threads
<1>8. /\ card' = [card EXCEPT !.armed = TRUE] /\ card \in Cards
      /\ UNCHANGED <<links, elems, auFlow, enabled, rate>>
  BY DEF RearmTimer, StartTimer, DeviceInv, FlowsTyped
<1>9. /\ card'.armed /\ card' \in Cards /\ card'.setup = card.setup /\ card'.open = card.open
      /\ card'.input = card.input /\ card'.outRate = card.outRate
      /\ card'.inRate = card.inRate /\ card'.enabled = card.enabled
  BY <1>8 DEF Cards
<1>10. FlowsTyped'
  BY <1>7, <1>8, <1>9 DEF DeviceInv, FlowsTyped, links
<1>11. \A i \in 1 .. Len(stack'["tick"]) : FALSE
  BY <1>7
<1>12. Shaped'
  <2>1. \A t \in Threads : \A i \in 2 .. Len(stack'[t]) : stack'[t][i] \in Calls
    BY <1>7 DEF DeviceInv, Shaped, Threads
  <2> QED
    BY <1>7, <1>11, <2>1 DEF DeviceInv, Shaped
<1>13. /\ ~Starting(stack["tick"]) /\ ~Stopping(stack["tick"]) /\ ~Marking(stack["tick"])
       /\ ~Starting(stack'["tick"]) /\ ~Stopping(stack'["tick"]) /\ ~Marking(stack'["tick"])
  <2>1. Head(stack["tick"]) = Top
    BY <1>3 DEF Top
  <2> QED
    BY <1>1, <1>7, <2>1 DEF Starting, Stopping, Marking
<1>14. /\ Starting(stack'["server"]) <=> Starting(stack["server"])
       /\ Stopping(stack'["server"]) <=> Stopping(stack["server"])
       /\ Marking(stack'["server"]) <=> Marking(stack["server"])
  BY <1>7
<1>15. CardSound'
  BY <1>9 DEF DeviceInv, CardSound, Sound
<1>16. NotesAgree'
  BY <1>7, <1>8, <1>9, <1>13, <1>14 DEF DeviceInv, NotesAgree, Threads
<1>17. RunsEnabled'
  BY <1>7, <1>8, <1>13, <1>14 DEF DeviceInv, RunsEnabled, Threads
<1>18. RateKnown'
  BY <1>7, <1>8, <1>9, <1>11, <1>13, <1>14 DEF DeviceInv, RateKnown, Threads
<1> QED
  BY <1>10, <1>12, <1>15, <1>16, <1>17, <1>18 DEF DeviceInv

\* After all inputs, and the end of intervalProc stays at the bottom.
LEMMA NoteChangeKeeps ==
  ASSUME DeviceInv, NoteChange
  PROVE  DeviceInv'
<1> DEFINE s == stack["tick"]
           r == Tail(s)
           u == Front(r) \o <<Process, Rearm>>
<1>1. stack[Running] # <<>> /\ Top.op = "note"
  BY DEF NoteChange, At
<1>2. Top = stack[Running][1] /\ 1 \in 1 .. Len(stack[Running])
  BY <1>1, TheThreads DEF Top, DeviceInv, FlowsTyped
<1>3. Running = "tick"
  BY <1>1, <1>2, TheThreads DEF DeviceInv, Shaped
<1>4. s \in Seq(Frames) /\ s # <<>> /\ Len(s) \in Nat \ {0} /\ s[1].op = "note"
  BY <1>1, <1>2, <1>3 DEF DeviceInv, FlowsTyped, Threads
<1>5. \A i \in 1 .. Len(s) : s[i].op = "rearm" <=> i = Len(s)
  BY DEF DeviceInv, Shaped
<1>6. \A i \in 2 .. Len(s) : s[i] \in Calls
  BY DEF DeviceInv, Shaped, Threads
<1>7. Len(s) > 1
  BY <1>4, <1>5
<1> HIDE DEF s
<1>8. /\ r \in Seq(Frames) /\ Len(r) = Len(s) - 1 /\ Len(r) \in Nat \ {0}
      /\ \A i \in 1 .. Len(r) : r[i] = s[i + 1]
  BY <1>4, <1>7, StackParts
<1>9. \A i \in 1 .. Len(r) : r[i] \in Calls /\ (r[i].op = "rearm" <=> i = Len(r))
  <2> SUFFICES ASSUME NEW i \in 1 .. Len(r)
               PROVE  r[i] \in Calls /\ (r[i].op = "rearm" <=> i = Len(r))
    OBVIOUS
  <2>1. i + 1 \in 2 .. Len(s) /\ (i + 1 = Len(s) <=> i = Len(r))
    BY <1>4, <1>8
  <2>2. i + 1 \in 1 .. Len(s) /\ r[i] = s[i + 1]
    BY <1>4, <1>8
  <2> QED
    BY <1>5, <1>6, <2>1, <2>2
<1> HIDE DEF r
<1>10. /\ Process \in Calls /\ Rearm \in Calls /\ Process.op = "process" /\ Rearm.op = "rearm"
  BY DEF Process, Rearm, Calls, Plain
<1>11. r \in Seq(Calls)
  <2>1. r \in [1 .. Len(r) -> Calls]
    BY <1>8, <1>9
  <2> QED
    BY <1>8, <2>1, FunctionIsSeq
<1>12. /\ Front(r) \in Seq(Calls) /\ Len(Front(r)) = Len(r) - 1
       /\ \A i \in 1 .. Len(Front(r)) : Front(r)[i] = r[i]
  BY <1>8, <1>11 DEF Front
<1>13. /\ u \in Seq(Calls) /\ Len(u) = Len(r) + 1
       /\ \A i \in 1 .. Len(u) : u[i].op = "rearm" <=> i = Len(u)
  <2> DEFINE v == Front(r)
             w == <<Process, Rearm>>
  <2>1. w \in Seq(Calls) /\ Len(w) = 2 /\ w[1] = Process /\ w[2] = Rearm
    BY <1>10, TwoFrames
  <2>2. v \in Seq(Calls) /\ Len(v) = Len(r) - 1 /\ \A i \in 1 .. Len(v) : v[i] = r[i]
    BY <1>12
  <2> HIDE DEF v, w
  <2>3. /\ v \o w \in Seq(Calls) /\ Len(v \o w) = Len(v) + Len(w)
        /\ \A k \in 1 .. Len(v) : (v \o w)[k] = v[k]
        /\ \A k \in 1 .. Len(w) : (v \o w)[Len(v) + k] = w[k]
    <3>1. v \in Seq(Calls) /\ w \in Seq(Calls)
      BY <2>1, <2>2
    <3> QED
      BY ONLY <3>1, SequenceJoin
  <2>4. Len(v) + 1 = Len(r) /\ Len(v) + 2 = Len(r) + 1 /\ Len(v \o w) = Len(r) + 1
    BY <1>8, <2>1, <2>2, <2>3
  <2>5. (v \o w)[Len(r)] = Process /\ (v \o w)[Len(r) + 1] = Rearm
    <3>1. 1 \in 1 .. Len(w) /\ 2 \in 1 .. Len(w)
      BY <2>1
    <3>2. (v \o w)[Len(v) + 1] = w[1] /\ (v \o w)[Len(v) + 2] = w[2]
      BY <2>3, <3>1
    <3> QED
      BY <2>1, <2>4, <3>2
  <2>6. \A i \in 1 .. Len(r) + 1 : (v \o w)[i].op = "rearm" <=> i = Len(r) + 1
    <3> SUFFICES ASSUME NEW i \in 1 .. Len(r) + 1
                 PROVE  (v \o w)[i].op = "rearm" <=> i = Len(r) + 1
      OBVIOUS
    <3>1. CASE i \in 1 .. Len(v)
      <4>1. i \in 1 .. Len(r) /\ i # Len(r) /\ i # Len(r) + 1
        BY <1>8, <2>2, <3>1
      <4>2. (v \o w)[i] = r[i]
        BY <2>2, <2>3, <3>1
      <4> QED
        BY <1>9, <4>1, <4>2
    <3>2. CASE i = Len(r)
      <4>1. i # Len(r) + 1
        BY <1>8, <3>2
      <4> QED
        BY <1>10, <2>5, <3>2, <4>1
    <3>3. CASE i = Len(r) + 1
      BY <1>10, <2>5, <3>3
    <3>4. i \in 1 .. Len(v) \/ i = Len(r) \/ i = Len(r) + 1
      BY <1>8, <2>2
    <3> QED
      BY <3>1, <3>2, <3>3, <3>4
  <2> QED
    BY <2>3, <2>4, <2>6 DEF v, w
<1> HIDE DEF u
<1>14. PICK z \in Seq(Calls) : /\ stack' = [stack EXCEPT !["tick"] = z] /\ Len(z) \in Nat \ {0}
                               /\ \A i \in 1 .. Len(z) : z[i].op = "rearm" <=> i = Len(z)
  <2>1. stack' = [stack EXCEPT !["tick"] = r] \/ stack' = [stack EXCEPT !["tick"] = u]
    BY DEF NoteChange, r, s, u
  <2>2. CASE stack' = [stack EXCEPT !["tick"] = r]
    BY <1>8, <1>9, <1>11, <2>2
  <2>3. CASE stack' = [stack EXCEPT !["tick"] = u]
    <3>1. Len(u) \in Nat \ {0}
      BY <1>8, <1>13
    <3> QED
      BY <1>13, <2>3, <3>1
  <2> QED
    BY <2>1, <2>2, <2>3
<1>15. /\ stack'["tick"] = z /\ stack'["server"] = stack["server"]
       /\ stack' \in [Threads -> Seq(Frames)] /\ z # <<>> /\ \A i \in 1 .. Len(z) : z[i] \in Calls
  <2>1. z \in Seq(Frames)
    BY <1>14, CallsAreFrames
  <2>2. z # <<>>
    BY <1>14
  <2> QED
    BY <1>14, <2>1, <2>2 DEF DeviceInv, FlowsTyped, Threads
<1>16. UNCHANGED <<links, elems, auFlow, device>>
  BY DEF NoteChange
<1>17. FlowsTyped'
  BY <1>15, <1>16 DEF DeviceInv, FlowsTyped, links, device
<1>18. Shaped'
  <2>1. \A t \in Threads : \A i \in 2 .. Len(stack'[t]) : stack'[t][i] \in Calls
    BY <1>14, <1>15 DEF DeviceInv, Shaped, Threads
  <2> QED
    BY <1>14, <1>15, <2>1 DEF DeviceInv, Shaped
<1>19. SameView
  <2>1. Head(s) \notin Enablings /\ Head(s).op = "note" /\ Head(z).op \notin {"enable", "mark"}
    <3>1. Head(s) = s[1] /\ Head(z) = z[1] /\ 1 \in 1 .. Len(z)
      BY <1>4, <1>14, <1>15
    <3>2. s[1] \notin Enablings /\ z[1] \in Calls
      BY <1>4, <1>15, <3>1 DEF Enablings
    <3> QED
      BY <1>4, <3>1, <3>2, CallsAreFrames
  <2>2. /\ ~Starting(s) /\ ~Stopping(s) /\ ~Marking(s)
        /\ ~Starting(z) /\ ~Stopping(z) /\ ~Marking(z)
    BY <2>1 DEF Starting, Stopping, Marking
  <2> QED
    BY <1>4, <1>15, <2>2 DEF SameView, Threads, s
<1>20. rate = 0 => \A t \in Threads : NoSwap(stack'[t])
  <2> SUFFICES ASSUME rate = 0 PROVE \A t \in Threads : NoSwap(stack'[t])
    OBVIOUS
  <2>1. NoSwap(s) /\ NoSwap(stack["server"])
    BY DEF DeviceInv, RateKnown, NoSwap, Threads, s
  <2>2. NoSwap(r)
    <3>1. \A i \in 1 .. Len(r) : i + 1 \in 1 .. Len(s)
      BY <1>4, <1>8
    <3> QED
      BY <1>8, <2>1, <3>1 DEF NoSwap
  <2>3. NoSwap(u)
    <3> DEFINE v == Front(r)
               w == <<Process, Rearm>>
    <3>1. w \in Seq(Calls) /\ Len(w) = 2 /\ w[1] = Process /\ w[2] = Rearm
      BY <1>10, TwoFrames
    <3>2. v \in Seq(Calls) /\ Len(v) = Len(r) - 1 /\ \A i \in 1 .. Len(v) : v[i] = r[i]
      BY <1>12
    <3>3. u = v \o w
      BY DEF u
    <3> HIDE DEF v, w
    <3>4. /\ v \o w \in Seq(Calls) /\ Len(v \o w) = Len(v) + Len(w)
          /\ \A k \in 1 .. Len(v) : (v \o w)[k] = v[k]
          /\ \A k \in 1 .. Len(w) : (v \o w)[Len(v) + k] = w[k]
      <4>1. v \in Seq(Calls) /\ w \in Seq(Calls)
        BY <3>1, <3>2
      <4> QED
        BY ONLY <4>1, SequenceJoin
    <3> SUFFICES ASSUME NEW i \in 1 .. Len(u) PROVE u[i].op # "swap"
      BY DEF NoSwap
    <3>5. CASE i \in 1 .. Len(v)
      <4>1. i \in 1 .. Len(r) /\ u[i] = r[i]
        BY <1>8, <3>2, <3>3, <3>4, <3>5
      <4> QED
        BY <2>2, <4>1 DEF NoSwap
    <3>6. CASE i \notin 1 .. Len(v)
      <4>1. Len(v) \in Nat
        BY <3>2
      <4>2. i - Len(v) \in 1 .. Len(w) /\ Len(v) + (i - Len(v)) = i
        BY <3>1, <3>3, <3>4, <3>6, <4>1
      <4>3. u[i] = w[i - Len(v)] /\ (i - Len(v) = 1 \/ i - Len(v) = 2)
        <5>1. (v \o w)[Len(v) + (i - Len(v))] = w[i - Len(v)]
          BY <3>4, <4>2
        <5> QED
          BY <3>1, <3>3, <4>2, <5>1
      <4> QED
        BY <1>10, <3>1, <4>3
    <3> QED
      BY <3>5, <3>6
  <2>4. stack'["tick"] = r \/ stack'["tick"] = u
    <3>1. stack' = [stack EXCEPT !["tick"] = r] \/ stack' = [stack EXCEPT !["tick"] = u]
      BY DEF NoteChange, r, s, u
    <3> QED
      BY <3>1 DEF DeviceInv, FlowsTyped, Threads
  <2> QED
    BY <1>15, <2>1, <2>2, <2>3, <2>4 DEF Threads
<1> QED
  BY <1>16, <1>17, <1>18, <1>19, <1>20, ViewKeeps

-----------------------------------------------------------------------------
(* The card.                                                                 *)

LEMMA CardFields ==
  ASSUME NEW c \in Cards
  PROVE  /\ c.setup \in Setups /\ c.open \in BOOLEAN /\ c.input \in {"none", "out", "own"}
         /\ c.outRate \in Nat /\ c.inRate \in Nat /\ c.armed \in BOOLEAN /\ c.enabled \in BOOLEAN
BY DEF Cards

LEMMA RateSet ==
  ASSUME RatesAssumption, NEW c \in Cards, Sound(c), NEW r \in MinRate .. MaxRate
  PROVE  LET d == SetSampleRate(c, r)
         IN  /\ d \in Cards /\ Sound(d) /\ d.armed /\ d.outRate # 0
             /\ d.setup = c.setup /\ d.open = c.open /\ d.enabled = c.enabled
<1> DEFINE out == IF c.outRate = r THEN r ELSE Speed(c, c.open, r)
           in == IF c.open /\ c.input = "out" THEN out
                 ELSE IF c.inRate = r THEN r ELSE Speed(c, c.input # "none", r)
           d == SetSampleRate(c, r)
<1>1. r \in Nat \ {0} /\ Nearest[r] \in Nat \ {0}
  BY DEF RatesAssumption
<1>2. out \in Nat \ {0}
  BY <1>1 DEF Speed
<1>3. in = out
  BY CardFields DEF Sound, Speed
<1> HIDE DEF out, in
<1>4. d = [c EXCEPT !.outRate = out, !.inRate = in, !.armed = TRUE]
  BY DEF SetSampleRate, StartTimer, out, in, Cards
<1> HIDE DEF d
<1>5. /\ d \in Cards /\ d.outRate = out /\ d.inRate = out /\ d.armed
      /\ d.setup = c.setup /\ d.open = c.open /\ d.enabled = c.enabled /\ d.input = c.input
  BY <1>2, <1>3, <1>4 DEF Cards
<1>6. Sound(d)
  BY <1>5 DEF Sound
<1> QED
  BY <1>2, <1>5, <1>6 DEF d

\* Enabling opens a device that was released, and it has the rate it had.
LEMMA CardEnabled ==
  ASSUME RatesAssumption, TakesAnyRate, NEW c \in Cards, Sound(c), ~c.enabled
  PROVE  LET d == EnableProcessFlow(c)
         IN  /\ d \in Cards /\ Sound(d) /\ d.enabled /\ d.setup = c.setup
             /\ d.outRate = c.outRate /\ (c.armed => d.armed)
<1> DEFINE d == EnableProcessFlow(c)
<1>1. /\ c.setup \in Setups /\ c.open \in BOOLEAN /\ c.input \in {"none", "out", "own"}
      /\ c.outRate \in Nat /\ c.inRate \in Nat /\ c.armed \in BOOLEAN
  BY CardFields
<1>2. CASE ~c.setup.release
  <2>1. d = [c EXCEPT !.enabled = TRUE]
    BY <1>2 DEF EnableProcessFlow
  <2>2. /\ d \in Cards /\ d.enabled /\ d.setup = c.setup /\ d.open = c.open /\ d.input = c.input
        /\ d.outRate = c.outRate /\ d.inRate = c.inRate /\ d.armed = c.armed
    BY <2>1 DEF Cards
  <2> HIDE DEF d
  <2>3. Sound(d)
    BY <1>2, <2>2 DEF Sound
  <2> QED
    BY <2>2, <2>3 DEF d
<1>3. CASE c.setup.release
  <2> DEFINE o == OpenDevice(c)
             a == [c EXCEPT !.open = TRUE, !.outRate = MaxRate]
             b == IF c.setup.shared THEN [a EXCEPT !.input = "out"]
                  ELSE [a EXCEPT !.input = "own", !.inRate = MaxRate]
  <2>1. ~c.open /\ c.input = "none" /\ c.setup.exact
    BY <1>1, <1>3 DEF Sound, TakesAnyRate
  <2>2. MaxRate \in Nat
    BY DEF RatesAssumption
  <2>3. /\ a \in Cards /\ a.open /\ a.outRate = MaxRate /\ a.setup = c.setup /\ a.armed = c.armed
        /\ a.input = "none" /\ a.inRate = c.inRate
    BY <2>1, <2>2 DEF Cards
  <2>4. SetupSoundcard([c EXCEPT !.open = TRUE], "outRate") = a
    BY DEF SetupSoundcard, Cards
  <2> HIDE DEF a
  <2>5. SetupSoundcard([a EXCEPT !.input = "own"], "inRate")
          = [a EXCEPT !.input = "own", !.inRate = MaxRate]
    BY <2>3 DEF SetupSoundcard, Cards
  <2>6. o = SetSampleRate(b, c.outRate)
    BY <2>1, <2>4, <2>5 DEF OpenDevice
  <2>7. /\ b \in Cards /\ b.open /\ b.outRate = MaxRate /\ b.setup = c.setup
        /\ b.input = IF c.setup.shared THEN "out" ELSE "own"
    BY <2>2, <2>3 DEF Cards
  <2> HIDE DEF b
  <2> DEFINE r == c.outRate
             out == IF b.outRate = r THEN r ELSE Speed(b, b.open, r)
             in == IF b.open /\ b.input = "out" THEN out
                   ELSE IF b.inRate = r THEN r ELSE Speed(b, b.input # "none", r)
  <2>8. out = r /\ in = r /\ r \in Nat
    BY <1>1, <2>1, <2>7 DEF Speed
  <2>9. o = [b EXCEPT !.outRate = out, !.inRate = in, !.armed = TRUE]
    BY <2>6, <2>7 DEF SetSampleRate, StartTimer, Cards
  <2> HIDE DEF o, out, in, r
  <2>10. /\ o \in Cards /\ o.setup = c.setup /\ o.open /\ o.input = b.input /\ o.armed
         /\ o.outRate = r /\ o.inRate = r
    BY <2>7, <2>8, <2>9 DEF Cards
  <2>11. d = [o EXCEPT !.enabled = TRUE]
    BY <1>3 DEF EnableProcessFlow, o
  <2> HIDE DEF d
  <2>12. /\ d \in Cards /\ d.setup = c.setup /\ d.open /\ d.input = b.input /\ d.armed
         /\ d.outRate = r /\ d.inRate = r /\ d.enabled
    BY <2>10, <2>11 DEF Cards
  <2>13. Sound(d)
    BY <1>1, <2>7, <2>12 DEF Sound
  <2> QED
    BY <2>12, <2>13 DEF d, r
<1> QED
  BY <1>2, <1>3

\* Disabling, and the reset, release the device.
LEMMA CardDisabled ==
  ASSUME NEW c \in Cards, Sound(c)
  PROVE  LET d == DisableProcessFlow(c)
         IN  /\ d \in Cards /\ Sound(d) /\ ~d.enabled /\ d.setup = c.setup
             /\ d.outRate = c.outRate /\ d.armed = c.armed
<1> DEFINE d == DisableProcessFlow(c)
           a == [c EXCEPT !.enabled = FALSE]
<1>1. /\ a \in Cards /\ ~a.enabled /\ a.setup = c.setup /\ a.open = c.open /\ a.input = c.input
      /\ a.outRate = c.outRate /\ a.inRate = c.inRate /\ a.armed = c.armed
  BY DEF Cards
<1> HIDE DEF a
<1>2. d = IF a.setup.release THEN [a EXCEPT !.open = FALSE, !.input = "none"] ELSE a
  BY DEF DisableProcessFlow, Released, CloseDevice, a
<1> HIDE DEF d
<1>3. /\ d \in Cards /\ ~d.enabled /\ d.setup = c.setup
      /\ d.outRate = c.outRate /\ d.inRate = c.inRate /\ d.armed = c.armed
      /\ d.open = (~c.setup.release /\ c.open)
      /\ d.input = IF c.setup.release THEN "none" ELSE c.input
  BY <1>1, <1>2 DEF Cards
<1>4. Sound(d)
  BY <1>3 DEF Sound
<1> QED
  BY <1>3, <1>4 DEF d

LEMMA CardReset ==
  ASSUME NEW c \in Cards, Sound(c)
  PROVE  LET d == ResetCard(c)
         IN  d \in Cards /\ Sound(d) /\ ~d.enabled
<1> DEFINE a == StopTimer(c)
<1>1. a \in Cards /\ Sound(a)
  <2>1. /\ a \in Cards /\ a.enabled = c.enabled /\ a.setup = c.setup /\ a.open = c.open
        /\ a.input = c.input /\ a.outRate = c.outRate /\ a.inRate = c.inRate
    BY DEF StopTimer, Cards
  <2> HIDE DEF a
  <2> QED
    BY <2>1 DEF Sound
<1>2. ResetCard(c) = DisableProcessFlow(a)
  BY DEF ResetCard, DisableProcessFlow
<1> HIDE DEF a
<1> QED
  BY <1>1, <1>2, CardDisabled

LEMMA RateWanted ==
  ASSUME RatesAssumption, FlowsAssumption, NEW compiled \in Compilations
  PROVE  Max({MinRate} \cup {RateOf[f] : f \in FlowsOf(compiled)}) \in MinRate .. MaxRate
<1> DEFINE rates == {MinRate} \cup {RateOf[f] : f \in FlowsOf(compiled)}
<1>1. FlowsOf(compiled) \subseteq Flows
  <2> SUFFICES ASSUME NEW f \in FlowsOf(compiled) PROVE f \in Flows
    OBVIOUS
  <2>1. PICK i \in 1 .. Len(compiled) : f \in ToSet(compiled[i].groups)
    BY DEF FlowsOf
  <2>2. compiled[i] \in [lead : Flows, groups : Seq(Flows)]
    BY SeqElements DEF Compilations
  <2>3. compiled[i].groups \in Seq(Flows)
    BY <2>2
  <2> QED
    BY <2>1, <2>3 DEF ToSet
<1>2. rates \subseteq MinRate .. MaxRate
  <2>1. MinRate \in MinRate .. MaxRate
    BY DEF RatesAssumption
  <2> QED
    BY <1>1, <2>1 DEF FlowsAssumption
<1>3. rates \in SUBSET Nat /\ rates # {} /\ MaxRate \in Nat /\ \A y \in rates : y <= MaxRate
  <2>1. MinRate .. MaxRate \subseteq Nat /\ MaxRate \in Nat
    BY DEF RatesAssumption
  <2>2. \A y \in MinRate .. MaxRate : y <= MaxRate
    BY DEF RatesAssumption
  <2> QED
    BY <1>2, <2>1, <2>2
<1>4. Max(rates) \in rates
  <2> HIDE DEF rates
  <2> QED
    BY <1>3, MaxIsGreatest
<1> QED
  BY <1>2, <1>4

LEMMA SetupKeeps ==
  ASSUME RatesAssumption, FlowsAssumption, DeviceInv, SetupCompiledFlow
  PROVE  DeviceInv'
<1>1. At("setup") /\ Top \in Results /\ Top.op = "setup" /\ stack[Running] # <<>>
  BY TopIs, FrameKinds DEF SetupCompiledFlow
<1> DEFINE q == <<Swap(Top.compiled)>>
<1>2. Top.compiled \in Compilations
  BY <1>1 DEF Results
<1>3. Pushed(q)
  <2>1. Swap(Top.compiled) \in Calls /\ Swap(Top.compiled).op = "swap"
    BY <1>2 DEF Swap, Calls, Results
  <2>2. q \in Seq(Calls) /\ Len(q) = 1 /\ q[1].op = "swap"
    BY <2>1, OneFrame
  <2> HIDE DEF q
  <2> QED
    BY <2>2 DEF Pushed
<1>4. Continue(q) /\ UNCHANGED <<links, elems, auFlow, enabled>>
  BY DEF SetupCompiledFlow
<1>5. stack' \in [Threads -> Seq(Frames)] /\ Shaped' /\ SameView
  <2> HIDE DEF q
  <2> QED
    BY <1>1, <1>3, <1>4, CallReplaced DEF DeviceInv, FlowsTyped
<1>6. /\ card' \in Cards /\ Sound(card') /\ rate' = card'.outRate /\ rate' # 0
      /\ card'.enabled = card.enabled
      /\ card'.armed \/ stack["tick"] # <<>>
  <2> DEFINE wanted == Max({MinRate} \cup {RateOf[f] : f \in FlowsOf(Top.compiled)})
  <2>1. wanted \in MinRate .. MaxRate
    BY <1>2, RateWanted
  <2> HIDE DEF wanted
  <2>2. wanted \in Nat \ {0}
    BY <2>1 DEF RatesAssumption
  <2>3. CASE rate = wanted
    <3>1. card' = card /\ rate' = rate
      BY <2>3 DEF SetupCompiledFlow, wanted
    <3> QED
      BY <2>2, <2>3, <3>1 DEF DeviceInv, FlowsTyped, RateKnown, CardSound
  <2>4. CASE rate # wanted
    <3>1. card' = SetSampleRate(card, wanted) /\ rate' = card'.outRate
      BY <2>4 DEF SetupCompiledFlow, wanted
    <3>2. LET d == SetSampleRate(card, wanted)
          IN  /\ d \in Cards /\ Sound(d) /\ d.armed /\ d.outRate # 0
              /\ d.setup = card.setup /\ d.open = card.open /\ d.enabled = card.enabled
      BY <2>1, RateSet DEF DeviceInv, FlowsTyped, CardSound
    <3> QED
      BY <3>1, <3>2
  <2> QED
    BY <2>3, <2>4
<1>7. FlowsTyped'
  <2>1. rate' \in Nat
    BY <1>6, CardFields
  <2> QED
    BY <1>4, <1>5, <1>6, <2>1 DEF DeviceInv, FlowsTyped, links
<1>8. NotesAgree'
  BY <1>4, <1>5, <1>6 DEF DeviceInv, NotesAgree, SameView, Threads
<1>9. RunsEnabled'
  BY <1>4, <1>5 DEF DeviceInv, RunsEnabled, SameView, Threads
<1>10. RateKnown'
  BY <1>5, <1>6 DEF RateKnown, SameView
<1> QED
  BY <1>5, <1>6, <1>7, <1>8, <1>9, <1>10 DEF DeviceInv, CardSound

\* The frame on top is the enabling that follows it, or the note of it.
LEMMA TopReplaced ==
  ASSUME stack \in [Threads -> Seq(Frames)], Shaped, stack[Running] # <<>>,
         Top.op # "rearm", NEW x \in Frames, x.op \notin {"rearm", "read", "note"},
         NEW q, q = <<x>> \/ q = <<>>, Continue(q)
  PROVE  /\ stack' \in [Threads -> Seq(Frames)] /\ Shaped'
         /\ \A t \in Threads : t # Running => stack'[t] = stack[t]
         /\ stack'["tick"] = <<>> <=> stack["tick"] = <<>>
         /\ q = <<x>> => stack'[Running] # <<>> /\ Head(stack'[Running]) = x
         /\ q = <<>> /\ stack'[Running] # <<>> => Head(stack'[Running]) \in Calls
         /\ \A t \in Threads : NoSwap(stack[t]) /\ x.op # "swap" => NoSwap(stack'[t])
<1> DEFINE s == stack[Running]
           r == q \o Tail(s)
<1>1. /\ Running \in Threads /\ s \in Seq(Frames) /\ s # <<>> /\ Head(s) = Top
      /\ q \in Seq(Frames)
  <2>1. q \in Seq(Frames)
    BY OneFrame
  <2> QED
    BY <2>1, TheThreads DEF Top
<1>2. stack' = [stack EXCEPT ![Running] = r]
  BY DEF Continue
<1>3. stack'[Running] = r /\ \A t \in Threads : t # Running => stack'[t] = stack[t]
  BY <1>1, <1>2
<1>4. /\ r \in Seq(Frames) /\ Len(r) = Len(q) + Len(s) - 1
      /\ Len(q) \in Nat /\ Len(s) \in Nat \ {0}
      /\ \A i \in 1 .. Len(q) : r[i] = q[i]
      /\ \A i \in 2 .. Len(s) : r[Len(q) + i - 1] = s[i]
      /\ \A i \in Len(q) + 1 .. Len(r) : i - Len(q) + 1 \in 2 .. Len(s)
                                         /\ r[i] = s[i - Len(q) + 1]
  <2> HIDE DEF s
  <2> QED
    BY <1>1, StackReplaced
<1>5. Head(s) = s[1] /\ Head(s).op # "rearm"
  BY <1>1
<1>6. \A i \in 2 .. Len(s) : s[i] \in Calls
  BY <1>1 DEF Shaped
<1>7. Running = "tick" => \A i \in 1 .. Len(s) : s[i].op = "rearm" <=> i = Len(s)
  BY DEF Shaped
<1>8. Running = "server" => \A i \in 1 .. Len(s) : s[i].op \notin {"rearm", "read", "note"}
  BY DEF Shaped
<1>9. Running = "tick" => Len(s) > 1
  BY <1>4, <1>5, <1>7
<1>10. \/ q = <<>> /\ Len(q) = 0
       \/ q = <<x>> /\ Len(q) = 1 /\ q[1] = x
  BY OneFrame
<1> HIDE DEF s, r
<1>11. stack' \in [Threads -> Seq(Frames)]
  BY <1>1, <1>2, <1>4
<1>12. \A i \in 1 .. Len(r) : \/ i = 1 /\ q = <<x>> /\ r[i] = x
                              \/ \E k \in 2 .. Len(s) : r[i] = s[k] /\ (k = Len(s) <=> i = Len(r))
  <2> SUFFICES ASSUME NEW i \in 1 .. Len(r)
               PROVE  \/ i = 1 /\ q = <<x>> /\ r[i] = x
                      \/ \E k \in 2 .. Len(s) : r[i] = s[k] /\ (k = Len(s) <=> i = Len(r))
    OBVIOUS
  <2>1. CASE i \in 1 .. Len(q)
    BY <1>4, <1>10, <2>1
  <2>2. CASE i \in Len(q) + 1 .. Len(r)
    <3>1. i - Len(q) + 1 \in 2 .. Len(s) /\ r[i] = s[i - Len(q) + 1]
      BY <1>4, <2>2
    <3>2. i - Len(q) + 1 = Len(s) <=> i = Len(r)
      BY <1>4
    <3> QED
      BY <3>1, <3>2
  <2> QED
    BY <1>4, <2>1, <2>2
<1>13. 2 .. Len(s) \subseteq 1 .. Len(s)
  BY <1>4
<1>14. \A i \in 2 .. Len(r) : r[i] \in Calls
  <2> SUFFICES ASSUME NEW i \in 2 .. Len(r) PROVE r[i] \in Calls
    OBVIOUS
  <2>1. i \in 1 .. Len(r) /\ i # 1
    BY <1>4
  <2> QED
    BY <1>6, <1>12, <2>1
<1>15. Running = "server" => \A i \in 1 .. Len(r) : r[i].op \notin {"rearm", "read", "note"}
  BY <1>8, <1>12, <1>13
<1>16. Running = "tick" => \A i \in 1 .. Len(r) : r[i].op = "rearm" <=> i = Len(r)
  <2> SUFFICES ASSUME Running = "tick", NEW i \in 1 .. Len(r)
               PROVE  r[i].op = "rearm" <=> i = Len(r)
    OBVIOUS
  <2>1. CASE i = 1 /\ q = <<x>> /\ r[i] = x
    <3>1. Len(q) = 1
      BY <1>10, <2>1
    <3>2. Len(r) > 1 /\ i # Len(r)
      BY <1>4, <1>9, <2>1, <3>1
    <3> QED
      BY <2>1, <3>2
  <2>2. CASE \E k \in 2 .. Len(s) : r[i] = s[k] /\ (k = Len(s) <=> i = Len(r))
    <3>1. PICK k \in 2 .. Len(s) : r[i] = s[k] /\ (k = Len(s) <=> i = Len(r))
      BY <2>2
    <3> QED
      BY <1>7, <1>13, <3>1
  <2> QED
    BY <1>12, <2>1, <2>2
<1>17. Shaped'
  <2>1. \A t \in Threads : \A i \in 2 .. Len(stack'[t]) : stack'[t][i] \in Calls
    <3> SUFFICES ASSUME NEW t \in Threads, NEW i \in 2 .. Len(stack'[t])
                 PROVE  stack'[t][i] \in Calls
      OBVIOUS
    <3>1. CASE t = Running
      BY <1>3, <1>14, <3>1
    <3>2. CASE t # Running
      BY <1>3, <3>2 DEF Shaped
    <3> QED
      BY <3>1, <3>2
  <2>2. \A i \in 1 .. Len(stack'["server"]) : stack'["server"][i].op \notin {"rearm", "read", "note"}
    <3>1. CASE Running = "server"
      BY <1>3, <1>15, <3>1
    <3>2. CASE Running # "server"
      BY <1>3, <3>2, TheThreads DEF Shaped
    <3> QED
      BY <3>1, <3>2
  <2>3. \A i \in 1 .. Len(stack'["tick"]) :
          stack'["tick"][i].op = "rearm" <=> i = Len(stack'["tick"])
    <3>1. CASE Running = "tick"
      BY <1>3, <1>16, <3>1
    <3>2. CASE Running # "tick"
      BY <1>3, <3>2, TheThreads DEF Shaped
    <3> QED
      BY <3>1, <3>2
  <2> QED
    BY <2>1, <2>2, <2>3 DEF Shaped
<1>18. stack'["tick"] = <<>> <=> stack["tick"] = <<>>
  <2>1. CASE Running = "tick"
    <3>1. Len(r) > 0
      BY <1>4, <1>9, <2>1
    <3>2. r # <<>>
      BY <3>1
    <3> QED
      BY <1>1, <1>3, <2>1, <3>2 DEF s
  <2>2. CASE Running # "tick"
    BY <1>3, <2>2, TheThreads
  <2> QED
    BY <2>1, <2>2
<1>19. q = <<x>> => stack'[Running] # <<>> /\ Head(stack'[Running]) = x
  <2> SUFFICES ASSUME q = <<x>> PROVE r # <<>> /\ Head(r) = x
    BY <1>3
  <2>1. Len(r) > 0 /\ r[1] = x
    BY <1>4, <1>10
  <2> QED
    BY <1>4, <2>1
<1>20. q = <<>> /\ stack'[Running] # <<>> => Head(stack'[Running]) \in Calls
  <2> SUFFICES ASSUME q = <<>>, r # <<>> PROVE Head(r) \in Calls
    BY <1>3
  <2>1. Head(r) = r[1] /\ 1 \in 1 .. Len(r)
    BY <1>4
  <2>2. q # <<x>>
    BY <1>10
  <2> QED
    BY <1>6, <1>12, <2>1, <2>2
<1>21. \A t \in Threads : NoSwap(stack[t]) /\ x.op # "swap" => NoSwap(stack'[t])
  <2> SUFFICES ASSUME NEW t \in Threads, NoSwap(stack[t]), x.op # "swap" PROVE NoSwap(stack'[t])
    OBVIOUS
  <2>1. CASE t = Running
    BY <1>3, <1>12, <1>13, <2>1 DEF NoSwap, s
  <2>2. CASE t # Running
    BY <1>3, <2>2
  <2> QED
    BY <2>1, <2>2
<1> QED
  BY <1>3, <1>11, <1>17, <1>18, <1>19, <1>20, <1>21

LEMMA SwapKeeps ==
  ASSUME DeviceInv, SwapFlow
  PROVE  DeviceInv'
<1>1. At("swap") /\ Top \in Results /\ Top.op = "swap" /\ stack[Running] # <<>>
  BY TopIs, FrameKinds DEF SwapFlow
<1> DEFINE started == Top.compiled # <<>>
           x == Enable(started)
           q == <<x>>
<1>2. Top.compiled \in Compilations
  BY <1>1 DEF Results
<1>3. x \in Frames /\ x.op = "enable" /\ x.started = started
  BY DEF Enable, Frames, Enablings
<1>4. Continue(q) /\ UNCHANGED <<links, elems, device>> /\ auFlow' = Top.compiled
  BY DEF SwapFlow
<1> HIDE DEF x
<1>5. /\ stack' \in [Threads -> Seq(Frames)] /\ Shaped'
      /\ \A t \in Threads : t # Running => stack'[t] = stack[t]
      /\ stack'["tick"] = <<>> <=> stack["tick"] = <<>>
      /\ stack'[Running] # <<>> /\ Head(stack'[Running]) = x
  BY <1>1, <1>3, <1>4, TopReplaced DEF DeviceInv, FlowsTyped
<1>6. rate # 0
  <2>1. Top = stack[Running][1] /\ 1 \in 1 .. Len(stack[Running])
    BY <1>1, TheThreads DEF Top, DeviceInv, FlowsTyped
  <2> QED
    BY <1>1, <2>1, TheThreads DEF DeviceInv, RateKnown
<1>7. /\ Starting(stack'[Running]) <=> started
      /\ Stopping(stack'[Running]) <=> ~started
      /\ ~Marking(stack'[Running])
  BY <1>3, <1>5 DEF Starting, Stopping, Marking
<1>8. ~Starting(stack[Running]) /\ ~Stopping(stack[Running]) /\ ~Marking(stack[Running])
  BY <1>1 DEF Starting, Stopping, Marking, Top
<1>9. UNCHANGED <<enabled, card, rate>>
  BY <1>4 DEF device
<1>10. FlowsTyped'
  BY <1>2, <1>4, <1>5, <1>9 DEF DeviceInv, FlowsTyped, links
<1>11. CardSound'
  BY <1>9 DEF DeviceInv, CardSound
<1>12. \A t \in Threads : /\ Marking(stack'[t]) <=> Marking(stack[t])
                          /\ Marking(stack[t]) => stack'[t] = stack[t]
  BY <1>5, <1>7, <1>8
<1>13. NotesAgree'
  BY <1>5, <1>9, <1>12 DEF DeviceInv, NotesAgree, Threads
<1>14. RunsEnabled'
  <2>1. auFlow' # <<>> => enabled' \/ \E t \in Threads : Starting(stack'[t])
    BY <1>4, <1>7, TheThreads
  <2>2. \A t \in Threads : Stopping(stack'[t]) => auFlow' = <<>>
    <3> SUFFICES ASSUME NEW t \in Threads, Stopping(stack'[t]) PROVE auFlow' = <<>>
      OBVIOUS
    <3>1. CASE t = Running
      BY <1>4, <1>7, <3>1
    <3>2. CASE t # Running
      <4>1. Stopping(stack[t]) /\ (t = "server" => Running = "tick")
        BY <1>5, <3>2, TheThreads
      <4>2. t = "server"
        <5>1. t = "tick" => Running = "server" /\ stack["tick"] = <<>>
          BY <3>2, TheThreads
        <5>2. t = "tick" => FALSE
          BY <4>1, <5>1 DEF Stopping
        <5> QED
          BY <5>2, TheThreads
      <4>3. Running = "tick" /\ stack["tick"] # <<>>
        BY <1>1, <4>1, <4>2
      <4> QED
        BY <4>1, <4>2, <4>3 DEF DeviceInv, RunsEnabled
    <3> QED
      BY <3>1, <3>2
  <2>3. Stopping(stack'["server"]) => stack'["tick"] = <<>>
    <3>1. CASE Running = "server"
      BY <1>5, <3>1, TheThreads
    <3>2. CASE Running # "server"
      BY <1>5, <3>2, TheThreads DEF DeviceInv, RunsEnabled
    <3> QED
      BY <3>1, <3>2
  <2> QED
    BY <2>1, <2>2, <2>3 DEF RunsEnabled
<1>15. RateKnown'
  BY <1>5, <1>6, <1>9 DEF DeviceInv, RateKnown
<1> QED
  BY <1>5, <1>10, <1>11, <1>13, <1>14, <1>15 DEF DeviceInv

LEMMA EnableKeeps ==
  ASSUME RatesAssumption, TakesAnyRate, DeviceInv, EnableInterrupt
  PROVE  DeviceInv'
<1>1. At("enable") /\ Top \in Enablings /\ Top.op = "enable" /\ stack[Running] # <<>>
  BY TopIs, FrameKinds DEF EnableInterrupt
<1> DEFINE started == Top.started
           x == Mark(started)
           q == IF started = enabled THEN <<>> ELSE <<x>>
<1>2. started \in BOOLEAN /\ enabled \in BOOLEAN
  BY <1>1 DEF Enablings, DeviceInv, FlowsTyped
<1>3. x \in Frames /\ x.op = "mark" /\ x.started = started
  BY <1>2 DEF Mark, Frames, Enablings
<1>4. /\ Continue(q) /\ UNCHANGED <<links, elems, auFlow, enabled, rate>>
      /\ IF started = enabled THEN card' = card
         ELSE card' = IF started THEN EnableProcessFlow(card) ELSE DisableProcessFlow(card)
  BY DEF EnableInterrupt
<1> HIDE DEF x
<1>5. /\ stack' \in [Threads -> Seq(Frames)] /\ Shaped'
      /\ \A t \in Threads : t # Running => stack'[t] = stack[t]
      /\ stack'["tick"] = <<>> <=> stack["tick"] = <<>>
      /\ q = <<x>> => stack'[Running] # <<>> /\ Head(stack'[Running]) = x
      /\ q = <<>> /\ stack'[Running] # <<>> => Head(stack'[Running]) \in Calls
      /\ \A t \in Threads : NoSwap(stack[t]) => NoSwap(stack'[t])
  <2>1. q = <<>> \/ q = <<x>>
    OBVIOUS
  <2> HIDE DEF q
  <2> QED
    BY <1>1, <1>3, <1>4, <2>1, TopReplaced DEF DeviceInv, FlowsTyped
<1>6. /\ Starting(stack[Running]) <=> started
      /\ Stopping(stack[Running]) <=> ~started
      /\ ~Marking(stack[Running])
  BY <1>1, <1>2 DEF Starting, Stopping, Marking, Top
<1>7. \A t \in Threads : ~Marking(stack[t])
  <2> SUFFICES ASSUME NEW t \in Threads, t # Running PROVE ~Marking(stack[t])
    BY <1>6
  <2>1. CASE t = "tick"
    <3>1. stack["tick"] = <<>>
      BY <2>1, TheThreads
    <3> QED
      BY <2>1, <3>1 DEF Marking
  <2>2. CASE t = "server"
    <3>1. Running = "tick"
      BY <2>2, TheThreads
    <3>2. stack["tick"] # <<>>
      BY <1>1, <3>1
    <3> QED
      BY <2>2, <3>2 DEF DeviceInv, NotesAgree
  <2> QED
    BY <2>1, <2>2, TheThreads
<1>8. enabled = card.enabled
  BY <1>7 DEF DeviceInv, NotesAgree
<1>9. started => rate # 0
  BY <1>6, TheThreads DEF DeviceInv, RateKnown
<1>10. ~started => auFlow = <<>>
  BY <1>6, TheThreads DEF DeviceInv, RunsEnabled
<1>11. Running = "server" \/ (stack["tick"] # <<>> /\ ~Stopping(stack["server"]))
  <2>1. Running = "tick" => stack["tick"] # <<>>
    BY <1>1
  <2> QED
    BY <2>1, TheThreads DEF DeviceInv, RunsEnabled
<1>12. card \in Cards /\ Sound(card)
  BY DEF DeviceInv, FlowsTyped, CardSound
<1>13. CASE started = enabled
  <2>1. q = <<>> /\ card' = card
    BY <1>4, <1>13
  <2>2. ~Starting(stack'[Running]) /\ ~Stopping(stack'[Running]) /\ ~Marking(stack'[Running])
    <3>1. stack'[Running] # <<>> => Head(stack'[Running]).op \notin {"enable", "mark"}
      BY <1>5, <2>1, CallsAreFrames
    <3> QED
      BY <3>1 DEF Starting, Stopping, Marking
  <2>3. FlowsTyped'
    BY <1>4, <1>5, <2>1 DEF DeviceInv, FlowsTyped, links
  <2>4. CardSound'
    BY <1>12, <2>1 DEF CardSound
  <2>5. \A t \in Threads : ~Marking(stack'[t])
    BY <1>5, <1>7, <2>2
  <2>6. NotesAgree'
    BY <1>4, <1>8, <2>1, <2>5 DEF NotesAgree, Threads
  <2>7. \A t \in Threads : Stopping(stack'[t]) => Stopping(stack[t])
    BY <1>5, <2>2
  <2>8. RunsEnabled'
    <3>1. auFlow' # <<>> => enabled'
      BY <1>4, <1>10, <1>13
    <3>2. Stopping(stack'["server"]) => stack'["tick"] = <<>>
      BY <1>5, <2>7 DEF DeviceInv, RunsEnabled, Threads
    <3> QED
      BY <1>4, <2>7, <3>1, <3>2 DEF DeviceInv, RunsEnabled
  <2>9. RateKnown'
    <3>1. \A t \in Threads : Starting(stack'[t]) => Starting(stack[t])
      BY <1>5, <2>2
    <3> QED
      BY <1>4, <1>5, <2>1, <3>1 DEF DeviceInv, RateKnown, NoSwap
  <2> QED
    BY <1>5, <2>3, <2>4, <2>6, <2>8, <2>9 DEF DeviceInv
<1>14. CASE started # enabled
  <2>1. q = <<x>>
    BY <1>14
  <2>2. /\ Starting(stack'[Running]) <=> started
        /\ Stopping(stack'[Running]) <=> ~started
        /\ Marking(stack'[Running]) /\ Head(stack'[Running]) = x
    BY <1>2, <1>3, <1>5, <2>1 DEF Starting, Stopping, Marking
  <2>3. /\ card' \in Cards /\ Sound(card') /\ card'.enabled = started
        /\ card'.outRate = card.outRate /\ (card.armed => card'.armed)
    <3>1. CASE started
      <4>1. ~card.enabled
        BY <1>8, <1>14, <3>1
      <4>2. card' = EnableProcessFlow(card)
        BY <1>4, <1>14, <3>1
      <4> QED
        BY <1>12, <3>1, <4>1, <4>2, CardEnabled
    <3>2. CASE ~started
      <4>1. card' = DisableProcessFlow(card)
        BY <1>4, <1>14, <3>2
      <4>2. /\ card' \in Cards /\ Sound(card') /\ ~card'.enabled
            /\ card'.outRate = card.outRate /\ card'.armed = card.armed
        BY <1>12, <4>1, CardDisabled
      <4>3. card'.enabled \in BOOLEAN
        BY <4>2, CardFields
      <4> HIDE DEF started
      <4>4. card'.enabled = started
        BY <1>2, <3>2, <4>2, <4>3
      <4> QED
        BY <4>2, <4>4
    <3> QED
      BY <3>1, <3>2
  <2>4. FlowsTyped'
    BY <1>4, <1>5, <2>3 DEF DeviceInv, FlowsTyped, links
  <2>5. CardSound'
    BY <2>3 DEF CardSound
  <2>6. \A t \in Threads : t # Running => /\ ~Marking(stack'[t])
                                          /\ Starting(stack'[t]) <=> Starting(stack[t])
                                          /\ Stopping(stack'[t]) <=> Stopping(stack[t])
    BY <1>5, <1>7
  <2>7. NotesAgree'
    <3>1. \A t \in Threads :
            Marking(stack'[t]) => enabled' = ~Head(stack'[t]).started /\ card'.enabled = ~enabled'
      BY <1>2, <1>3, <1>4, <1>14, <2>2, <2>3, <2>6
    <3>2. ~(\A t \in Threads : ~Marking(stack'[t]))
      BY <2>2, TheThreads
    <3>3. Marking(stack'["server"]) => stack'["tick"] = <<>>
      <4>1. Marking(stack'["server"]) => Running = "server"
        BY <2>6, TheThreads
      <4> QED
        BY <1>5, <4>1, TheThreads
    <3> QED
      BY <3>1, <3>2, <3>3 DEF NotesAgree
  <2>8. RunsEnabled'
    <3>1. auFlow' # <<>> => \E t \in Threads : Starting(stack'[t])
      BY <1>4, <1>10, <2>2, TheThreads
    <3>2. \A t \in Threads : Stopping(stack'[t]) => auFlow' = <<>>
      BY <1>4, <1>10, <2>2, <2>6 DEF DeviceInv, RunsEnabled
    <3>3. Stopping(stack'["server"]) => stack'["tick"] = <<>>
      BY <1>5, <1>11, <2>6, TheThreads
    <3> QED
      BY <3>1, <3>2, <3>3 DEF RunsEnabled
  <2>9. RateKnown'
    <3>1. CASE rate # 0
      BY <1>4, <1>5, <2>3, <3>1 DEF DeviceInv, RateKnown
    <3>2. CASE rate = 0
      BY <1>4, <1>5, <1>9, <2>2, <2>6, <3>2 DEF DeviceInv, RateKnown, NoSwap
    <3> QED
      BY <3>1, <3>2
  <2> QED
    BY <1>5, <2>4, <2>5, <2>7, <2>8, <2>9 DEF DeviceInv
<1> QED
  BY <1>13, <1>14

LEMMA MarkKeeps ==
  ASSUME DeviceInv, MarkEnabled
  PROVE  DeviceInv'
<1>1. At("mark") /\ Top \in Enablings /\ Top.op = "mark" /\ stack[Running] # <<>>
  BY TopIs, FrameKinds DEF MarkEnabled
<1>2. Top.started \in BOOLEAN /\ enabled \in BOOLEAN
  BY <1>1 DEF Enablings, DeviceInv, FlowsTyped
<1>3. /\ Continue(<<>>) /\ UNCHANGED <<links, elems, auFlow, card, rate>>
      /\ enabled' = Top.started
  BY DEF MarkEnabled
<1>4. /\ stack' \in [Threads -> Seq(Frames)] /\ Shaped'
      /\ \A t \in Threads : t # Running => stack'[t] = stack[t]
      /\ stack'["tick"] = <<>> <=> stack["tick"] = <<>>
      /\ stack'[Running] # <<>> => Head(stack'[Running]) \in Calls
      /\ \A t \in Threads : NoSwap(stack[t]) => NoSwap(stack'[t])
  <2>1. Unblock \in Frames /\ Unblock.op = "unblock"
    BY DEF Unblock, Frames, Calls, Plain
  <2> QED
    BY <1>1, <1>3, <2>1, TopReplaced DEF DeviceInv, FlowsTyped
<1>5. Marking(stack[Running]) /\ Head(stack[Running]) = Top
  BY <1>1 DEF Marking, Top
<1>6. /\ Starting(stack[Running]) <=> Top.started
      /\ Stopping(stack[Running]) <=> ~Top.started
  BY <1>1 DEF Starting, Stopping, Top
<1>7. ~Starting(stack'[Running]) /\ ~Stopping(stack'[Running]) /\ ~Marking(stack'[Running])
  <2>1. stack'[Running] # <<>> => Head(stack'[Running]).op \notin {"enable", "mark"}
    BY <1>4, CallsAreFrames
  <2> QED
    BY <2>1 DEF Starting, Stopping, Marking
<1>8. enabled = ~Top.started /\ card.enabled = ~enabled
  BY <1>5, TheThreads DEF DeviceInv, NotesAgree
<1>9. \A t \in Threads : ~Marking(stack'[t])
  <2> SUFFICES ASSUME NEW t \in Threads, t # Running PROVE ~Marking(stack[t])
    BY <1>4, <1>7
  <2>1. CASE t = "tick"
    <3>1. stack["tick"] = <<>>
      BY <2>1, TheThreads
    <3> QED
      BY <2>1, <3>1 DEF Marking
  <2>2. CASE t = "server"
    <3>1. stack["tick"] # <<>>
      BY <1>1, <2>2, TheThreads
    <3> QED
      BY <2>2, <3>1 DEF DeviceInv, NotesAgree
  <2> QED
    BY <2>1, <2>2, TheThreads
<1>10. \A t \in Threads : /\ Starting(stack'[t]) => Starting(stack[t])
                          /\ Stopping(stack'[t]) => Stopping(stack[t])
  BY <1>4, <1>7
<1>11. Top.started => rate # 0
  BY <1>6, TheThreads DEF DeviceInv, RateKnown
<1>12. ~Top.started => auFlow = <<>>
  BY <1>6, TheThreads DEF DeviceInv, RunsEnabled
<1>13. FlowsTyped'
  BY <1>2, <1>3, <1>4 DEF DeviceInv, FlowsTyped, links
<1>14. CardSound'
  BY <1>3 DEF DeviceInv, CardSound
<1>15. NotesAgree'
  <2>1. card.enabled = Top.started
    <3>1. card.enabled \in BOOLEAN
      BY CardFields DEF DeviceInv, FlowsTyped
    <3>2. PICK b \in BOOLEAN : b = Top.started
      BY <1>2
    <3>3. enabled = ~b /\ card.enabled = ~enabled
      BY <1>8, <3>2
    <3>4. card.enabled = b
      BY ONLY <3>1, <3>3, <1>2, <3>2
    <3> QED
      BY <3>2, <3>4
  <2> QED
    BY <1>3, <1>9, <2>1 DEF NotesAgree, Threads
<1>16. RunsEnabled'
  <2>1. Stopping(stack'["server"]) => stack'["tick"] = <<>>
    BY <1>4, <1>10, TheThreads DEF DeviceInv, RunsEnabled
  <2> QED
    BY <1>3, <1>10, <1>12, <2>1 DEF DeviceInv, RunsEnabled
<1>17. RateKnown'
  BY <1>2, <1>3, <1>4, <1>10, <1>11 DEF DeviceInv, RateKnown, NoSwap
<1> QED
  BY <1>4, <1>13, <1>14, <1>15, <1>16, <1>17 DEF DeviceInv

-----------------------------------------------------------------------------
(* The interrupt comes, and requests.                                        *)

\* A stack of joined sequences.
LEMMA JoinedFrames ==
  ASSUME NEW S, NEW n \in Nat, NEW ss \in [1 .. n -> Seq(S)]
  PROVE  FlattenSeq(ss) \in Seq(S)
<1> DEFINE Q == Seq(S)
<1>1. ss \in Seq(Seq(S))
  <2>1. ss \in [1 .. n -> Q]
    OBVIOUS
  <2> HIDE DEF Q
  <2>2. ss \in Seq(Q)
    BY <2>1, FunctionIsSeq
  <2> QED
    BY <2>2 DEF Q
<1>2. <<>> \in Seq(S)
  OBVIOUS
<1> QED
  BY <1>1, <1>2, FlattenAppend

LEMMA InputFlowsExist ==
  ASSUME auFlow \in Compilations
  PROVE  InputFlows \in Seq(Flows)
<1> DEFINE n == Len(auFlow)
           ss == [i \in 1 .. n |-> auFlow[i].groups]
<1>1. n \in Nat /\ \A i \in 1 .. n : auFlow[i] \in [lead : Flows, groups : Seq(Flows)]
  BY SeqElements DEF Compilations
<1>2. ss \in [1 .. n -> Seq(Flows)]
  <2>1. \A i \in 1 .. n : auFlow[i].groups \in Seq(Flows)
    BY <1>1
  <2> QED
    BY <2>1
<1>3. FlattenSeq(ss) \in Seq(Flows)
  <2> HIDE DEF ss, n
  <2> QED
    BY <1>1, <1>2, JoinedFrames
<1> QED
  BY <1>3 DEF InputFlows

\* What intervalProc has to do: it reads inputs, and then it ends.
LEMMA TickFrames ==
  ASSUME auFlow \in Compilations, NEW ends, NEW dry
  PROVE  LET reads == FlattenSeq([i \in 1 .. Len(InputFlows) |->
                           LET f == InputFlows[i]
                           IN If(f \in ends, <<Read(f, "Stop", "EOF")>>)
                              \o If(f \in dry, <<Read(f, "Pause", "Underrun")>>)])
         IN  reads \in Seq(Reads)
<1> DEFINE n == Len(InputFlows)
           ss == [i \in 1 .. n |->
                    LET f == InputFlows[i]
                    IN If(f \in ends, <<Read(f, "Stop", "EOF")>>)
                       \o If(f \in dry, <<Read(f, "Pause", "Underrun")>>)]
<1>1. n \in Nat /\ \A i \in 1 .. n : InputFlows[i] \in Flows
  BY InputFlowsExist, SeqElements
<1>2. \A f \in Flows : If(f \in ends, <<Read(f, "Stop", "EOF")>>)
                         \o If(f \in dry, <<Read(f, "Pause", "Underrun")>>) \in Seq(Reads)
  <2> SUFFICES ASSUME NEW f \in Flows
               PROVE  If(f \in ends, <<Read(f, "Stop", "EOF")>>)
                        \o If(f \in dry, <<Read(f, "Pause", "Underrun")>>) \in Seq(Reads)
    OBVIOUS
  <2>1. Read(f, "Stop", "EOF") \in Reads /\ Read(f, "Pause", "Underrun") \in Reads
    BY DEF Read, Reads, States, Reasons
  <2>2. /\ If(f \in ends, <<Read(f, "Stop", "EOF")>>) \in Seq(Reads)
        /\ If(f \in dry, <<Read(f, "Pause", "Underrun")>>) \in Seq(Reads)
    BY <2>1, OneFrame, IfFrames
  <2> QED
    BY <2>2, SequenceJoin
<1>3. ss \in [1 .. n -> Seq(Reads)]
  BY <1>1, <1>2
<1> HIDE DEF n
<1>4. FlattenSeq(ss) \in Seq(Reads)
  <2> HIDE DEF ss
  <2> QED
    BY <1>1, <1>3, JoinedFrames
<1> QED
  BY <1>4 DEF n

LEMMA TickKeeps ==
  ASSUME NotedAtOnce, DeviceInv, Tick
  PROVE  DeviceInv'
<1>1. stack["tick"] = <<>> /\ card.enabled /\ ~Marking(stack["server"])
  BY DEF Tick, NotedAtOnce, Marking
<1>2. card \in Cards /\ Sound(card) /\ ~Marking(stack["tick"])
  BY <1>1 DEF DeviceInv, FlowsTyped, CardSound, Marking
<1>3. UNCHANGED <<links, elems, auFlow, rate>>
  BY DEF Tick
<1>4. enabled = card.enabled
  BY <1>1, <1>2 DEF DeviceInv, NotesAgree, Threads
<1>5. CASE auFlow = <<>>
  <2>1. /\ card' = DisableProcessFlow(card) /\ enabled' = FALSE
        /\ stack' = stack
    BY <1>5 DEF Tick
  <2>2. /\ card' \in Cards /\ Sound(card') /\ ~card'.enabled
        /\ card'.outRate = card.outRate /\ card'.armed = card.armed
    BY <1>2, <2>1, CardDisabled
  <2>3. card'.enabled \in BOOLEAN
    BY <2>2, CardFields
  <2>4. FlowsTyped'
    BY <1>3, <2>1, <2>2 DEF DeviceInv, FlowsTyped, links
  <2>5. Shaped'
    BY <2>1 DEF DeviceInv, Shaped
  <2>6. CardSound'
    BY <2>2 DEF CardSound
  <2>7. NotesAgree'
    <3>1. \A t \in Threads : ~Marking(stack'[t])
      BY <1>1, <1>2, <2>1 DEF Threads
    <3>2. enabled' = card'.enabled
      BY <2>1, <2>2, <2>3
    <3> QED
      BY <3>1, <3>2 DEF NotesAgree, Threads
  <2>8. RunsEnabled'
    BY <1>3, <1>5, <2>1 DEF DeviceInv, RunsEnabled
  <2>9. RateKnown'
    BY <1>3, <1>5, <2>1, <2>2 DEF DeviceInv, RateKnown
  <2> QED
    BY <2>4, <2>5, <2>6, <2>7, <2>8, <2>9 DEF DeviceInv
<1>6. CASE auFlow # <<>>
  <2>1. PICK q \in Seq(Reads) : stack' = [stack EXCEPT !["tick"] = q \o <<Rearm>>]
    <3>1. PICK ends \in SUBSET ToSet(InputFlows), dry \in SUBSET Clients :
            stack' = [stack EXCEPT !["tick"] =
                        FlattenSeq([i \in 1 .. Len(InputFlows) |->
                           LET f == InputFlows[i]
                           IN If(f \in ends, <<Read(f, "Stop", "EOF")>>)
                              \o If(f \in dry, <<Read(f, "Pause", "Underrun")>>)]) \o <<Rearm>>]
      BY <1>6 DEF Tick
    <3> DEFINE reads == FlattenSeq([i \in 1 .. Len(InputFlows) |->
                           LET f == InputFlows[i]
                           IN If(f \in ends, <<Read(f, "Stop", "EOF")>>)
                              \o If(f \in dry, <<Read(f, "Pause", "Underrun")>>)])
    <3>2. reads \in Seq(Reads)
      BY TickFrames DEF DeviceInv, FlowsTyped
    <3>3. stack' = [stack EXCEPT !["tick"] = reads \o <<Rearm>>]
      BY <3>1
    <3> HIDE DEF reads
    <3> QED
      BY <3>2, <3>3
  <2> DEFINE z == q \o <<Rearm>>
  <2>2. /\ Reads \subseteq Calls /\ Rearm \in Calls /\ Rearm.op = "rearm"
        /\ \A x \in Reads : x.op = "read"
    BY DEF Calls, Reads, Plain, Rearm
  <2>3. /\ z \in Seq(Calls) /\ Len(z) = Len(q) + 1 /\ Len(q) \in Nat
        /\ \A i \in 1 .. Len(q) : z[i] = q[i]
        /\ z[Len(q) + 1] = Rearm
    <3>1. q \in Seq(Calls) /\ <<Rearm>> \in Seq(Calls) /\ Len(<<Rearm>>) = 1 /\ <<Rearm>>[1] = Rearm
      BY <2>2, OneFrame
    <3> DEFINE w == <<Rearm>>
    <3>2. w \in Seq(Calls) /\ Len(w) = 1 /\ w[1] = Rearm
      BY <3>1
    <3> HIDE DEF w
    <3>3. /\ q \o w \in Seq(Calls) /\ Len(q \o w) = Len(q) + Len(w) /\ Len(q) \in Nat
          /\ \A k \in 1 .. Len(q) : (q \o w)[k] = q[k]
          /\ \A k \in 1 .. Len(w) : (q \o w)[Len(q) + k] = w[k]
      <4>1. q \in Seq(Calls) /\ w \in Seq(Calls)
        BY <3>1, <3>2
      <4> QED
        BY ONLY <4>1, SequenceJoin
    <3>4. 1 \in 1 .. Len(w)
      BY <3>2
    <3> QED
      BY <3>2, <3>3, <3>4 DEF w
  <2> HIDE DEF z
  <2>4. stack'["tick"] = z /\ stack'["server"] = stack["server"]
    BY <2>1 DEF DeviceInv, FlowsTyped, Threads, z
  <2>5. /\ \A i \in 1 .. Len(z) : z[i] \in Calls /\ (z[i].op = "rearm" <=> i = Len(z))
        /\ \A i \in 1 .. Len(z) : z[i].op # "swap"
    <3> SUFFICES ASSUME NEW i \in 1 .. Len(z)
                 PROVE  /\ z[i] \in Calls /\ (z[i].op = "rearm" <=> i = Len(z))
                        /\ z[i].op # "swap"
      OBVIOUS
    <3>1. CASE i \in 1 .. Len(q)
      <4>1. z[i] \in Reads /\ i # Len(z)
        BY <2>3, <3>1
      <4> QED
        BY <2>2, <4>1
    <3>2. CASE i = Len(q) + 1
      BY <2>2, <2>3, <3>2
    <3> QED
      BY <2>3, <3>1, <3>2
  <2>6. z # <<>> /\ Head(z) \in Calls
    <3>1. Len(z) > 0
      BY <2>3
    <3>2. z # <<>> /\ Head(z) = z[1] /\ 1 \in 1 .. Len(z)
      BY <2>3, <3>1
    <3> QED
      BY <2>5, <3>2
  <2>7. stack' \in [Threads -> Seq(Frames)]
    <3>1. z \in Seq(Frames)
      BY <2>3, CallsAreFrames
    <3> QED
      BY <2>1, <3>1 DEF DeviceInv, FlowsTyped, z
  <2>8. card' = StopTimer(card) /\ enabled' = enabled
    BY <1>6 DEF Tick
  <2>9. /\ card' \in Cards /\ card'.setup = card.setup /\ card'.open = card.open
        /\ card'.input = card.input /\ card'.outRate = card.outRate
        /\ card'.inRate = card.inRate /\ card'.enabled = card.enabled
    BY <1>2, <2>8 DEF StopTimer, Cards
  <2>10. ~Starting(z) /\ ~Stopping(z) /\ ~Marking(z)
    BY <2>6, CallsAreFrames DEF Starting, Stopping, Marking
  <2>11. ~Starting(stack["tick"]) /\ ~Stopping(stack["tick"])
    BY <1>1 DEF Starting, Stopping
  <2>12. ~Stopping(stack["server"])
    BY <1>6 DEF DeviceInv, RunsEnabled, Threads
  <2>13. FlowsTyped'
    BY <1>3, <2>7, <2>8, <2>9 DEF DeviceInv, FlowsTyped, links
  <2>14. Shaped'
    <3>1. \A t \in Threads : \A i \in 2 .. Len(stack'[t]) : stack'[t][i] \in Calls
      <4>1. \A i \in 2 .. Len(z) : z[i] \in Calls
        BY <2>3, <2>5
      <4> QED
        BY <2>4, <4>1 DEF DeviceInv, Shaped, Threads
    <3> QED
      BY <2>4, <2>5, <3>1 DEF DeviceInv, Shaped
  <2>15. CardSound'
    BY <1>2, <2>9 DEF CardSound, Sound
  <2>16. NotesAgree'
    BY <1>1, <1>4, <2>4, <2>8, <2>9, <2>10 DEF NotesAgree, Threads
  <2>17. RunsEnabled'
    BY <1>3, <2>4, <2>8, <2>10, <2>11, <2>12 DEF DeviceInv, RunsEnabled, Threads
  <2>18. RateKnown'
    BY <1>3, <1>6, <2>4, <2>6, <2>9 DEF DeviceInv, RateKnown
  <2> QED
    BY <2>13, <2>14, <2>15, <2>16, <2>17, <2>18 DEF DeviceInv
<1> QED
  BY <1>5, <1>6

\* A request comes to an idle server.
LEMMA ServeKeeps ==
  ASSUME DeviceInv, NEW q \in Seq(Simple), Serve(q)
  PROVE  DeviceInv'
<1>1. /\ stack["server"] = <<>> /\ stack["tick"] = <<>>
      /\ stack' = [stack EXCEPT !["server"] = q]
      /\ UNCHANGED <<links, elems, auFlow, device>>
  BY DEF Serve, Idle
<1>2. \A i \in 1 .. Len(q) : q[i] \in Simple
  BY SeqElements
<1>3. q \in Seq(Calls) /\ q \in Seq(Frames)
  <2>1. Simple \subseteq Calls /\ Simple \subseteq Frames
    BY CallsAreFrames DEF Simple
  <2> QED
    BY <2>1
<1>4. /\ stack'["server"] = q /\ stack'["tick"] = stack["tick"]
      /\ stack' \in [Threads -> Seq(Frames)]
  BY <1>1, <1>3 DEF DeviceInv, FlowsTyped, Threads
<1>5. FlowsTyped'
  BY <1>1, <1>4 DEF DeviceInv, FlowsTyped, links, device
<1>6. Shaped'
  <2>1. \A t \in Threads : \A i \in 2 .. Len(stack'[t]) : stack'[t][i] \in Calls
    <3>1. \A i \in 2 .. Len(q) : q[i] \in Calls
      <4>1. Len(q) \in Nat /\ \A i \in 1 .. Len(q) : q[i] \in Calls
        BY <1>3, SeqElements
      <4>2. \A i \in 2 .. Len(q) : i \in 1 .. Len(q)
        BY <4>1
      <4> QED
        BY <4>1, <4>2
    <3> QED
      BY <1>4, <3>1 DEF DeviceInv, Shaped, Threads
  <2>2. \A i \in 1 .. Len(q) : q[i].op \notin {"rearm", "read", "note"}
    BY <1>2 DEF Simple
  <2> QED
    BY <1>4, <2>1, <2>2 DEF DeviceInv, Shaped
<1>7. SameView
  <2>1. q # <<>> => Head(q) \in Calls
    <3> SUFFICES ASSUME q # <<>> PROVE Head(q) \in Calls
      OBVIOUS
    <3> QED
      BY <1>3, StackParts
  <2>2. ~Starting(q) /\ ~Stopping(q) /\ ~Marking(q)
    BY <2>1, CallsAreFrames DEF Starting, Stopping, Marking
  <2>3. ~Starting(<<>>) /\ ~Stopping(<<>>) /\ ~Marking(<<>>)
    BY DEF Starting, Stopping, Marking
  <2> QED
    BY <1>1, <1>4, <2>2, <2>3 DEF SameView, Threads
<1>8. rate = 0 => \A t \in Threads : NoSwap(stack'[t])
  <2>1. NoSwap(q)
    BY <1>2 DEF NoSwap, Simple
  <2> QED
    BY <1>4, <2>1 DEF DeviceInv, RateKnown, NoSwap, Threads
<1> QED
  BY <1>1, <1>5, <1>6, <1>7, <1>8, ViewKeeps

LEMMA RequestKeeps ==
  ASSUME RatesAssumption, FlowsAssumption, ~Hurried, DeviceInv, Request
  PROVE  DeviceInv'
<1>1. CASE SetElementStates
  <2>0. PICK k \in 1 .. MaxChanges :
          \E fs \in [1 .. k -> elems], ss \in [1 .. k -> States] :
            Serve([i \in 1 .. k |-> Change(fs[i], Ends, ss[i], FALSE, "User")] \o <<Process>>)
    BY <1>1 DEF SetElementStates
  <2>1. PICK fs \in [1 .. k -> elems], ss \in [1 .. k -> States] :
          Serve([i \in 1 .. k |-> Change(fs[i], Ends, ss[i], FALSE, "User")] \o <<Process>>)
    BY <2>0
  <2> DEFINE p == [i \in 1 .. k |-> Change(fs[i], Ends, ss[i], FALSE, "User")]
             w == <<Process>>
  <2>2. k \in Nat
    BY DEF FlowsAssumption
  <2>3. \A i \in 1 .. k : Change(fs[i], Ends, ss[i], FALSE, "User") \in Simple
    <3> SUFFICES ASSUME NEW i \in 1 .. k
                 PROVE  Change(fs[i], Ends, ss[i], FALSE, "User") \in Simple
      OBVIOUS
    <3>1. fs[i] \in Flows /\ ss[i] \in States /\ "User" \in Reasons /\ FALSE \in BOOLEAN
      BY DEF DeviceInv, FlowsTyped, Reasons
    <3> QED
      BY <3>1, SimpleFrames
  <2>4. p \in Seq(Simple)
    <3>1. p \in [1 .. k -> Simple]
      BY <2>3
    <3> HIDE DEF p
    <3> QED
      BY <2>2, <3>1, FunctionIsSeq
  <2>5. w \in Seq(Simple)
    BY SimpleFrames, OneFrame
  <2>6. Serve(p \o w)
    BY <2>1
  <2> HIDE DEF p, w
  <2>7. p \o w \in Seq(Simple)
    BY ONLY <2>4, <2>5, SequenceJoin
  <2> QED
    BY <2>6, <2>7, ServeKeeps
<1>2. CASE WriteElement
  <2>1. PICK f \in Clients \cap elems : Serve(<<Change(f, {"in"}, "Start", TRUE, "User")>>)
    BY <1>2 DEF WriteElement
  <2>2. Change(f, {"in"}, "Start", TRUE, "User") \in Simple
    <3>1. f \in Flows /\ {"in"} \in SUBSET Ends /\ "Start" \in States /\ "User" \in Reasons
      BY DEF DeviceInv, FlowsTyped, Ends, States, Reasons
    <3> QED
      BY <3>1, SimpleFrames
  <2>3. <<Change(f, {"in"}, "Start", TRUE, "User")>> \in Seq(Simple)
    BY <2>2, OneFrame
  <2> QED
    BY <2>1, <2>3, ServeKeeps
<1>3. CASE SetElements
  <2>1. PICK f \in Flows, outcome \in Outcomes : Serve(<<OnFlow("free", f), Install(f, outcome)>>)
    BY <1>3 DEF SetElements
  <2>2. OnFlow("free", f) \in Simple /\ Install(f, outcome) \in Simple
    BY SimpleFrames DEF FlowOps
  <2>3. <<OnFlow("free", f), Install(f, outcome)>> \in Seq(Simple)
    BY <2>2, TwoFrames
  <2> QED
    BY <2>1, <2>3, ServeKeeps
<1>4. CASE DestroyFlow
  <2>1. PICK f \in Mortal : Serve(<<OnFlow("free", f), OnFlow("destroy", f)>>)
    BY <1>4 DEF DestroyFlow
  <2>2. OnFlow("free", f) \in Simple /\ OnFlow("destroy", f) \in Simple
    BY SimpleFrames DEF FlowOps, FlowsAssumption
  <2>3. <<OnFlow("free", f), OnFlow("destroy", f)>> \in Seq(Simple)
    BY <2>2, TwoFrames
  <2> QED
    BY <2>1, <2>3, ServeKeeps
<1>5. CASE Reset
  <2>1. /\ stack["server"] = <<>> /\ stack["tick"] = <<>> /\ ~enabled
        /\ card' = ResetCard(card) /\ rate' = 0
        /\ UNCHANGED <<links, elems, auFlow, enabled, stack>>
    BY <1>5 DEF Reset, Idle
  <2>2. \A t \in Threads : stack[t] = <<>>
    BY <2>1 DEF Threads
  <2>3. \A t \in Threads : ~Starting(stack[t]) /\ ~Stopping(stack[t]) /\ ~Marking(stack[t])
    BY <2>2 DEF Starting, Stopping, Marking
  <2>4. auFlow = <<>>
    BY <2>1, <2>3 DEF DeviceInv, RunsEnabled
  <2>5. card' \in Cards /\ Sound(card') /\ ~card'.enabled
    BY <2>1, CardReset DEF DeviceInv, FlowsTyped, CardSound
  <2>6. enabled' = card'.enabled
    <3>1. enabled \in BOOLEAN /\ card'.enabled \in BOOLEAN
      BY <2>5, CardFields DEF DeviceInv, FlowsTyped
    <3> QED
      BY <2>1, <2>5, <3>1
  <2>7. FlowsTyped'
    BY <2>1, <2>5 DEF DeviceInv, FlowsTyped, links
  <2>8. Shaped'
    BY <2>1 DEF DeviceInv, Shaped
  <2>9. NotesAgree'
    BY <2>1, <2>3, <2>6 DEF NotesAgree, Threads
  <2>10. RunsEnabled'
    BY <2>1, <2>3, <2>4 DEF RunsEnabled, Threads
  <2>11. RateKnown'
    <3>1. \A t \in Threads : \A i \in 1 .. Len(stack'[t]) : FALSE
      BY <2>1, <2>2
    <3> QED
      BY <2>1, <2>3, <2>4, <3>1 DEF RateKnown
  <2> QED
    BY <2>5, <2>7, <2>8, <2>9, <2>10, <2>11 DEF DeviceInv, CardSound
<1> QED
  BY <1>1, <1>2, <1>3, <1>4, <1>5 DEF Request

-----------------------------------------------------------------------------
LEMMA DeviceInit ==
  ASSUME RatesAssumption, FlowsAssumption, FlowsInit
  PROVE  DeviceInv
<1>1. \A t \in Threads : stack[t] = <<>>
  BY DEF FlowsInit, Threads
<1>2. \A t \in Threads : ~Starting(stack[t]) /\ ~Stopping(stack[t]) /\ ~Marking(stack[t])
  BY <1>1 DEF Starting, Stopping, Marking
<1>3. card \in Cards /\ Sound(card) /\ card.enabled = FALSE
  <2>1. PICK setup \in Setups : card = NewCard(setup)
    BY DEF FlowsInit
  <2> DEFINE a == [setup |-> setup, open |-> TRUE,
                   input |-> IF setup.shared THEN "out" ELSE "own",
                   outRate |-> MaxRate, inRate |-> MaxRate, armed |-> FALSE, enabled |-> FALSE]
  <2>2. MaxRate \in Nat
    BY DEF RatesAssumption
  <2>3. card = IF setup.release THEN [a EXCEPT !.open = FALSE, !.input = "none"] ELSE a
    BY <2>1 DEF NewCard, Released, CloseDevice
  <2>4. /\ card \in Cards /\ card.enabled = FALSE /\ card.setup = setup
        /\ card.open = ~setup.release /\ card.outRate = card.inRate
        /\ card.input = IF setup.release THEN "none" ELSE IF setup.shared THEN "out" ELSE "own"
    <3>1. a \in Cards
      BY <2>2 DEF Cards
    <3>2. setup.release \in BOOLEAN
      BY DEF RatesAssumption
    <3>3. CASE setup.release
      BY <2>3, <3>1, <3>3 DEF Cards
    <3>4. CASE ~setup.release
      BY <2>3, <3>1, <3>4 DEF Cards
    <3> QED
      BY <3>2, <3>3, <3>4
  <2>5. Sound(card)
    BY <2>4 DEF Sound
  <2> QED
    BY <2>4, <2>5
<1>4. FlowsTyped
  <2>1. stack \in [Threads -> Seq(Frames)]
    <3>1. <<>> \in Seq(Frames)
      OBVIOUS
    <3> QED
      BY <3>1 DEF FlowsInit, Threads
  <2>2. auFlow \in Compilations
    BY DEF FlowsInit, Compilations
  <2> QED
    BY <1>3, <2>1, <2>2 DEF FlowsInit, FlowsTyped, Pointers
<1>5. \A t \in Threads : \A i \in 1 .. Len(stack[t]) : FALSE
  BY <1>1
<1>6. Shaped
  <2>1. \A t \in Threads : \A i \in 2 .. Len(stack[t]) : FALSE
    BY <1>1
  <2> QED
    BY <1>5, <2>1 DEF Shaped, Threads
<1>7. NotesAgree /\ RunsEnabled /\ RateKnown
  BY <1>1, <1>2, <1>3, <1>5 DEF FlowsInit, NotesAgree, RunsEnabled, RateKnown, Threads
<1> QED
  BY <1>3, <1>4, <1>6, <1>7 DEF DeviceInv, CardSound

LEMMA DeviceStutters ==
  ASSUME DeviceInv, UNCHANGED flowVars
  PROVE  DeviceInv'
<1>1. /\ UNCHANGED <<head, next, prev, elems, auFlow, enabled, card, rate, stack>>
  BY DEF flowVars, links, device
<1>2. FlowsTyped'
  BY <1>1 DEF DeviceInv, FlowsTyped
<1>3. Shaped'
  BY <1>1 DEF DeviceInv, Shaped
<1>4. CardSound'
  BY <1>1 DEF DeviceInv, CardSound
<1>5. NotesAgree' /\ RunsEnabled' /\ RateKnown'
  BY <1>1 DEF DeviceInv, NotesAgree, RunsEnabled, RateKnown
<1> QED
  BY <1>2, <1>3, <1>4, <1>5 DEF DeviceInv

\* Between two requests nothing is on the stacks.
LEMMA DeviceImplies ==
  ASSUME DeviceInv
  PROVE  DeviceFollowsFlows
<1> SUFFICES ASSUME Idle PROVE DeviceFollowsFlows
  BY DEF DeviceFollowsFlows
<1>1. \A t \in Threads : stack[t] = <<>>
  BY DEF Idle, Threads
<1>2. \A t \in Threads : ~Starting(stack[t]) /\ ~Stopping(stack[t]) /\ ~Marking(stack[t])
  BY <1>1 DEF Starting, Stopping, Marking
<1>3. enabled = card.enabled /\ (auFlow # <<>> => enabled)
  BY <1>2 DEF DeviceInv, NotesAgree, RunsEnabled
<1>4. card \in Cards /\ Sound(card)
  BY DEF DeviceInv, FlowsTyped, CardSound
<1>5. enabled => rate # 0 /\ rate = card.outRate /\ card.armed
  BY <1>1 DEF DeviceInv, RateKnown, Threads
<1>6. card.setup.release \in BOOLEAN /\ enabled \in BOOLEAN
  BY <1>4, CardFields, RatesAssumption DEF DeviceInv, FlowsTyped, RatesAssumption
<1>7. CASE auFlow # <<>>
  BY <1>3, <1>4, <1>5, <1>7 DEF DeviceFollowsFlows, Sound
<1>8. CASE auFlow = <<>>
  BY <1>3, <1>4, <1>5, <1>6, <1>8 DEF DeviceFollowsFlows, Sound
<1> QED
  BY <1>7, <1>8

\* Between two requests the devices are at the disposal of the flows.  The
\* interrupt may come at any other point than the one before the note of an
\* enabling, among them all those in the middle of a pass over the flows; a
\* reset waits for the driver to be disabled (dispatch.c, AuInitDevice), and a
\* device that is released takes any rate (auprocess.c:1155).
THEOREM DeviceAlwaysFollows ==
  ASSUME NotedAtOnce, ~Hurried, TakesAnyRate
  PROVE  FlowsSpec => []DeviceFollowsFlows
<1>1. FlowsInit => DeviceInv
  BY RatesAssumption, FlowsAssumption, DeviceInit
<1>2. DeviceInv /\ [FlowsNext]_flowVars => DeviceInv'
  <2> SUFFICES ASSUME DeviceInv, [FlowsNext]_flowVars PROVE DeviceInv'
    OBVIOUS
  <2>1. CASE ChangeElementState
    <3>1. \/ ChangeStates \/ CheckActions
          \/ CountStates \/ StoreState \/ UnblockAudio \/ CompareState
      BY <2>1 DEF ChangeElementState
    <3> QED
      BY <3>1, FlowsAssumption, ChangeStatesKeeps, CheckActionsKeeps, CountingKeeps
  <2>2. CASE ProcessClockedFlows
    <3>1. \/ ClearProcessed \/ FindOutput \/ GatherInputs \/ UpdateState
          \/ SetupCompiledFlow \/ SwapFlow \/ EnableInterrupt \/ MarkEnabled
      BY <2>2 DEF ProcessClockedFlows
    <3> QED
      BY <3>1, RatesAssumption, FlowsAssumption, PassesKeep, SetupKeeps, SwapKeeps, EnableKeeps,
         MarkKeeps
  <2>3. CASE Interrupt
    <3>1. Tick \/ ReadInput \/ NoteChange \/ RearmTimer
      BY <2>3 DEF Interrupt
    <3> QED
      BY <3>1, TickKeeps, ReadInputKeeps, NoteChangeKeeps, RearmTimerKeeps
  <2>4. CASE Request
    BY <2>4, RatesAssumption, FlowsAssumption, RequestKeeps
  <2>5. CASE FlowChange
    BY <2>5, FlowChangesKeep
  <2>6. CASE UNCHANGED flowVars
    BY <2>6, DeviceStutters
  <2> QED
    BY <2>1, <2>2, <2>3, <2>4, <2>5, <2>6 DEF FlowsNext
<1>3. DeviceInv => DeviceFollowsFlows
  BY DeviceImplies
<1> QED
  BY <1>1, <1>2, <1>3, PTL DEF FlowsSpec

-----------------------------------------------------------------------------
(* What is run exists.                                                       *)

\* The passes of AuProcessFlows over the flows, and what follows until the
\* compiled flow is replaced.
Passes == {"find", "gather", "update", "setup", "swap"}

\* What is left to do, of the interrupt first.
ToDo == stack["tick"] \o stack["server"]
Doing == IF ToDo = <<>> THEN "none" ELSE Head(ToDo).op

\* A sequence has elements of a set, some before others, or others after each.
Has(s, B) == \E i \in 1 .. Len(s) : s[i] \in B
Before(s, A, B) == \E i \in 1 .. Len(s) : \E j \in i + 1 .. Len(s) : s[i] \in A /\ s[j] \in B
Followed(s, A, B) ==
    \A i \in 1 .. Len(s) : s[i] \in A => \E j \in i + 1 .. Len(s) : s[j] \in B

\* The elements of a flow have been stopped, or will be next, and are then freed.
Freed(f) == Has(stack["server"], {OnFlow("unlink", f)})

\* After one of these the pending state of the flow becomes its state.
Settling(f) == {x \in Frames : \/ x.op \in {"compare", "note"} /\ x.flow = f
                               \/ x.op \in {"process", "find", "gather", "update"}}

\* The steps after which the interrupt may run a flow that has no elements, all of
\* which the code allows: the interrupt comes while a compiled flow runs into the
\* passes, or between the count of element states and its storage; ...
Intrusion == /\ Tick /\ auFlow # <<>>
             /\ stack["server"] # <<>> /\ Head(stack["server"]).op \in Passes \cup {"store"}

\* ... a flow is freed for an error that was found before it was listed; ...
Unlisted == InstallElements /\ Top.outcome = "parse"

\* ... an action starts a flow that is about to be freed, be it the flow's own, or
\* changes another flow that may be destroyed, and neither the call nor what is
\* left to do has the flows processed.
Misfire ==
    /\ CheckActions
    /\ \E q \in Seq(Frames) :
         /\ Continue(q)
         /\ \E i \in 1 .. Len(q) :
              LET g == q[i].flow
              IN  /\ g \in Mortal
                  /\ \/ Freed(g) /\ q[i].new = "Start"
                     \/ g # Top.flow /\ ~q[i].process /\ ~Has(Tail(ToDo), Settling(g))

Undisturbed == ~Intrusion /\ ~Unlisted /\ ~Misfire

\* All flows of a compilation are in a set.
Within(compiled, S) ==
    \A i \in 1 .. Len(compiled) : {compiled[i].lead} \cup ToSet(compiled[i].groups) \subseteq S

-----------------------------------------------------------------------------
(* The inductive invariant.                                                  *)
StackTyped ==
    /\ stack \in [Threads -> Seq(Frames)]
    /\ \A i \in 1 .. Len(stack["server"]) : stack["server"][i].op \notin {"rearm", "read", "note"}
    /\ \A i \in 1 .. Len(stack["tick"]) :
         stack["tick"][i].op = "rearm" <=> i = Len(stack["tick"])

StatesTyped == /\ el \in [Flows -> [Ends -> States]] /\ flag \in SUBSET (Flows \X Ends)
               /\ state \in [Flows -> States] /\ pending \in [Flows -> States]

\* A pass is on top, and the interrupt does not come into one of the server.
Light == {x \in Frames : x.op \notin Passes \cup {"store"}}
HeadOnly == ToDo # <<>> => Tail(ToDo) \in Seq(Light)

\* A flow whose elements are going to be freed is stopped, and so it stays.
Harmless(f) == {x \in Frames : x.op = "change" /\ x.flow = f => x.new # "Start"}
Quieted(f) == (\A e \in Ends : el[f][e] = "Stop") /\ ToDo \in Seq(Harmless(f))

\* What a request has left for its end: the elements are freed, after they have
\* been stopped, and then the flow is set up again or destroyed.
Endings == {x \in Frames : x.op \in {"free", "unlink", "install", "destroy"}}
Body == {x \in Frames : x.op \notin {"free", "unlink", "install", "destroy"}}
StopAll(f) == Change(f, Ends, "Stop", TRUE, "User")
Closings(f) == {<<>>, <<OnFlow("destroy", f)>>}
                 \cup {<<Install(f, o)>> : o \in {p \in Outcomes : p # "ok" => f \in Mortal}}
Ended(a, z) ==
    \/ z = <<>>
    \/ \E f \in Flows : \E c \in Closings(f) :
         \/ z = <<OnFlow("free", f)>> \o c /\ (f \in Mortal \/ f \notin elems)
         \/ /\ z = <<OnFlow("unlink", f)>> \o c /\ f \in Mortal \cap elems
            /\ a = <<StopAll(f)>> \/ Quieted(f)
         \/ z = c /\ f \notin elems
RequestShaped ==
    /\ stack["tick"] \in Seq(Body)
    /\ \E a \in Seq(Body), z \in Seq(Endings) : stack["server"] = a \o z /\ Ended(a, z)

\* The list of flows, in the order of a rank, and how far an update is.
Ranks == [Flows -> Int]
Listed(r) ==
    /\ IF head = NoFlow THEN elems = {} ELSE head \in elems /\ \A g \in elems : r[head] <= r[g]
    /\ \A f, g \in elems : r[f] = r[g] => f = g
    /\ \A f \in elems :
         IF next[f] = NoFlow THEN \A g \in elems : r[g] <= r[f]
         ELSE /\ next[f] \in elems /\ r[f] < r[next[f]] /\ prev[next[f]] = f
              /\ \A g \in elems : r[f] < r[g] => r[next[f]] <= r[g]
    /\ \A f \in elems : IF prev[f] = NoFlow THEN f = head
                        ELSE prev[f] \in elems /\ next[prev[f]] = f
Updated(r) ==
    Doing = "update" =>
      LET k == Head(ToDo).flow
      IN  /\ k = NoFlow \/ k \in elems
          /\ \A f \in elems : k = NoFlow \/ r[f] < r[k] => state[f] = pending[f]
ListOrdered == \E r \in Ranks : Listed(r) /\ Updated(r)

\* What is being compiled has elements and is to be started; before the compiled
\* flow is replaced, nothing is pending.
Ready == {f \in elems : pending[f] = "Start"}
Compiled ==
    /\ Doing \in Passes => Within(Head(ToDo).compiled, Ready)
    /\ Doing = "gather" => {Head(ToDo).flow} \cup ToSet(Head(ToDo).groups) \subseteq Ready
    /\ Doing \in {"setup", "swap"} => \A f \in elems : state[f] = pending[f]

\* What runs has elements, and is in the state that AuFreeFlowElements looks at.
RunningStarted ==
    /\ Within(auFlow, elems)
    /\ Doing \notin {"update", "setup", "swap"} => Within(auFlow, {f \in elems : state[f] = "Start"})

\* A change that is not yet checked is before the count of its flow.
ChecksOf(f, e) == {x \in Checks : x.flow = f /\ x.e = e}
CountsOf(f) == {x \in Frames : x.op \in {"count", "store"} /\ x.flow = f}
FlagsChecked ==
    \A f \in Flows, e \in Ends : <<f, e>> \in flag => Before(ToDo, ChecksOf(f, e), CountsOf(f))

\* What setFlowState makes of the states of the elements.
Amount(states) == IF \E e \in Ends : states[e] = "Start" THEN "Start"
                  ELSE IF \E e \in Ends : states[e] = "Pause" THEN "Pause" ELSE "Stop"

\* What is pending is what the elements amount to, or they are yet to be counted.
Countable == {x \in Frames : x.op \in {"count", "store"} => x.flow \in elems}
Counted ==
    /\ \A f \in Flows \ elems : pending[f] = "Stop"
    /\ \A f \in elems : pending[f] = Amount(el[f]) \/ Has(ToDo, CountsOf(f))
    /\ Doing = "store" => Head(ToDo).new = Amount(el[Head(ToDo).flow])
    /\ ToDo \in Seq(Countable)

\* What may change the pending state of a flow is before what makes it its state.
Noisy(f) == {x \in Frames : /\ x.op \in {"change", "check", "count", "store"} /\ x.flow = f
                            /\ ~(x.op = "change" /\ x.process)}
Covered == \A f \in Mortal : Followed(ToDo, Noisy(f), Settling(f))
ToBeSettled == \A f \in Mortal \cap elems : state[f] # pending[f] => Has(ToDo, Settling(f))

RunsTyped == LinksTyped /\ auFlow \in Compilations /\ StatesTyped /\ StackTyped
RunningInv == /\ RunsTyped /\ HeadOnly /\ RequestShaped /\ ListOrdered /\ Compiled /\ RunningStarted
              /\ FlagsChecked /\ Counted /\ Covered /\ ToBeSettled

-----------------------------------------------------------------------------
(* Sequences to which others are joined.                                     *)

LEMMA SequencesEqual ==
  ASSUME NEW S, NEW s \in Seq(S), NEW t \in Seq(S), Len(s) = Len(t),
         \A i \in 1 .. Len(s) : s[i] = t[i]
  PROVE  s = t
OBVIOUS

LEMMA JoinTail ==
  ASSUME NEW S, NEW q \in Seq(S), NEW s \in Seq(S), s # <<>>, NEW r \in Seq(S)
  PROVE  (q \o Tail(s)) \o r = q \o Tail(s \o r)
OBVIOUS

LEMMA JoinAssociates ==
  ASSUME NEW S, NEW q \in Seq(S), NEW s \in Seq(S), NEW r \in Seq(S)
  PROVE  (q \o s) \o r = q \o (s \o r)
OBVIOUS

LEMMA JoinHead ==
  ASSUME NEW S, NEW s \in Seq(S), NEW r \in Seq(S)
  PROVE  /\ s # <<>> => /\ s \o r # <<>> /\ Head(s \o r) = Head(s)
                        /\ Tail(s \o r) = Tail(s) \o r
         /\ s = <<>> => s \o r = r
OBVIOUS

LEMMA JoinHas ==
  ASSUME NEW S, NEW q \in Seq(S), NEW u \in Seq(S), NEW B
  PROVE  Has(q \o u, B) <=> Has(q, B) \/ Has(u, B)
<1>1. /\ q \o u \in Seq(S) /\ Len(q \o u) = Len(q) + Len(u)
      /\ Len(q) \in Nat /\ Len(u) \in Nat
      /\ \A k \in 1 .. Len(q) : (q \o u)[k] = q[k]
      /\ \A k \in 1 .. Len(u) : (q \o u)[Len(q) + k] = u[k]
  BY SequenceJoin
<1> DEFINE w == q \o u
<1>2. ASSUME NEW i \in 1 .. Len(w), w[i] \in B PROVE Has(q, B) \/ Has(u, B)
  <2>1. CASE i \in 1 .. Len(q)
    BY <1>1, <1>2, <2>1 DEF Has
  <2>2. CASE i \notin 1 .. Len(q)
    <3>1. i - Len(q) \in 1 .. Len(u) /\ Len(q) + (i - Len(q)) = i
      BY <1>1, <2>2
    <3>2. u[i - Len(q)] \in B
      BY <1>1, <1>2, <3>1
    <3> QED
      BY <3>1, <3>2 DEF Has
  <2> QED
    BY <2>1, <2>2
<1>3. ASSUME NEW i \in 1 .. Len(q), q[i] \in B PROVE Has(w, B)
  <2>1. i \in 1 .. Len(w) /\ w[i] \in B
    BY <1>1, <1>3
  <2> QED
    BY <2>1 DEF Has
<1>4. ASSUME NEW i \in 1 .. Len(u), u[i] \in B PROVE Has(w, B)
  <2>1. Len(q) + i \in 1 .. Len(w) /\ w[Len(q) + i] \in B
    BY <1>1, <1>4
  <2> QED
    BY <2>1 DEF Has
<1> QED
  BY <1>2, <1>3, <1>4 DEF Has

LEMMA JoinBefore ==
  ASSUME NEW S, NEW q \in Seq(S), NEW u \in Seq(S), NEW A, NEW B
  PROVE  /\ Before(u, A, B) => Before(q \o u, A, B)
         /\ Before(q, A, B) => Before(q \o u, A, B)
         /\ Has(q, A) /\ Has(u, B) => Before(q \o u, A, B)
         /\ Before(q \o u, A, B) => \/ Before(q, A, B) \/ Before(u, A, B)
                                    \/ Has(q, A) /\ Has(u, B)
<1>1. /\ q \o u \in Seq(S) /\ Len(q \o u) = Len(q) + Len(u)
      /\ Len(q) \in Nat /\ Len(u) \in Nat
      /\ \A k \in 1 .. Len(q) : (q \o u)[k] = q[k]
      /\ \A k \in 1 .. Len(u) : (q \o u)[Len(q) + k] = u[k]
  BY SequenceJoin
<1> DEFINE w == q \o u
           n == Len(q)
<1>2. ASSUME NEW i \in 1 .. Len(u), NEW j \in i + 1 .. Len(u), u[i] \in A, u[j] \in B
      PROVE  Before(w, A, B)
  <2>1. n + i \in 1 .. Len(w) /\ n + j \in n + i + 1 .. Len(w) /\ j \in 1 .. Len(u)
    BY <1>1
  <2>2. w[n + i] \in A /\ w[n + j] \in B
    BY <1>1, <1>2, <2>1
  <2> QED
    BY <2>1, <2>2 DEF Before
<1>3. ASSUME NEW i \in 1 .. Len(q), NEW j \in i + 1 .. Len(q), q[i] \in A, q[j] \in B
      PROVE  Before(w, A, B)
  <2>1. i \in 1 .. Len(w) /\ j \in i + 1 .. Len(w) /\ j \in 1 .. Len(q)
    BY <1>1
  <2>2. w[i] \in A /\ w[j] \in B
    BY <1>1, <1>3, <2>1
  <2> QED
    BY <2>1, <2>2 DEF Before
<1>4. ASSUME NEW i \in 1 .. Len(q), NEW j \in 1 .. Len(u), q[i] \in A, u[j] \in B
      PROVE  Before(w, A, B)
  <2>1. i \in 1 .. Len(w) /\ n + j \in i + 1 .. Len(w)
    BY <1>1
  <2>2. w[i] \in A /\ w[n + j] \in B
    BY <1>1, <1>4, <2>1
  <2> QED
    BY <2>1, <2>2 DEF Before
<1>5. ASSUME NEW i \in 1 .. Len(w), NEW j \in i + 1 .. Len(w), w[i] \in A, w[j] \in B
      PROVE  Before(q, A, B) \/ Before(u, A, B) \/ (Has(q, A) /\ Has(u, B))
  <2>1. CASE j \in 1 .. n
    <3>1. i \in 1 .. n /\ j \in i + 1 .. n /\ q[i] \in A /\ q[j] \in B
      BY <1>1, <1>5, <2>1
    <3> QED
      BY <3>1 DEF Before
  <2>2. CASE i \in 1 .. n /\ j \notin 1 .. n
    <3>1. j - n \in 1 .. Len(u) /\ n + (j - n) = j
      BY <1>1, <2>2
    <3>2. q[i] \in A /\ u[j - n] \in B
      BY <1>1, <1>5, <2>2, <3>1
    <3> QED
      BY <2>2, <3>1, <3>2 DEF Has
  <2>3. CASE i \notin 1 .. n
    <3>1. /\ i - n \in 1 .. Len(u) /\ n + (i - n) = i
          /\ j - n \in i - n + 1 .. Len(u) /\ j - n \in 1 .. Len(u) /\ n + (j - n) = j
      BY <1>1, <2>3
    <3>2. u[i - n] \in A /\ u[j - n] \in B
      BY <1>1, <1>5, <3>1
    <3> QED
      BY <3>1, <3>2 DEF Before
  <2> QED
    BY <1>1, <2>1, <2>2, <2>3
<1> QED
  BY <1>2, <1>3, <1>4, <1>5 DEF Before, Has

LEMMA JoinFollowed ==
  ASSUME NEW S, NEW q \in Seq(S), NEW u \in Seq(S), NEW A, NEW B
  PROVE  /\ Followed(u, A, B) /\ (Followed(q, A, B) \/ Has(u, B)) => Followed(q \o u, A, B)
         /\ Followed(q \o u, A, B) => /\ Followed(u, A, B)
                                      /\ Has(q, A) => Has(q, B) \/ Has(u, B)
<1>1. /\ q \o u \in Seq(S) /\ Len(q \o u) = Len(q) + Len(u)
      /\ Len(q) \in Nat /\ Len(u) \in Nat
      /\ \A k \in 1 .. Len(q) : (q \o u)[k] = q[k]
      /\ \A k \in 1 .. Len(u) : (q \o u)[Len(q) + k] = u[k]
  BY SequenceJoin
<1> DEFINE w == q \o u
           n == Len(q)
<1>2. ASSUME Followed(u, A, B), Followed(q, A, B) \/ Has(u, B), NEW i \in 1 .. Len(w), w[i] \in A
      PROVE  \E j \in i + 1 .. Len(w) : w[j] \in B
  <2>1. CASE i \notin 1 .. n
    <3>1. i - n \in 1 .. Len(u) /\ n + (i - n) = i
      BY <1>1, <2>1
    <3>2. u[i - n] \in A
      BY <1>1, <1>2, <3>1
    <3>3. PICK j \in i - n + 1 .. Len(u) : u[j] \in B
      BY <1>2, <3>1, <3>2 DEF Followed
    <3>4. n + j \in i + 1 .. Len(w) /\ j \in 1 .. Len(u)
      BY <1>1, <3>1, <3>3
    <3> QED
      BY <1>1, <3>3, <3>4
  <2>2. CASE i \in 1 .. n /\ Has(u, B)
    <3>1. PICK j \in 1 .. Len(u) : u[j] \in B
      BY <2>2 DEF Has
    <3>2. n + j \in i + 1 .. Len(w)
      BY <1>1, <2>2
    <3> QED
      BY <1>1, <3>1, <3>2
  <2>3. CASE i \in 1 .. n /\ Followed(q, A, B)
    <3>1. q[i] \in A
      BY <1>1, <1>2, <2>3
    <3>2. PICK j \in i + 1 .. n : q[j] \in B
      BY <2>3, <3>1 DEF Followed
    <3>3. j \in i + 1 .. Len(w) /\ j \in 1 .. n
      BY <1>1, <2>3
    <3> QED
      BY <1>1, <3>2, <3>3
  <2> QED
    BY <1>1, <1>2, <2>1, <2>2, <2>3
<1>3. ASSUME Followed(w, A, B), NEW i \in 1 .. Len(u), u[i] \in A
      PROVE  \E j \in i + 1 .. Len(u) : u[j] \in B
  <2>1. n + i \in 1 .. Len(w) /\ w[n + i] \in A
    BY <1>1, <1>3
  <2>2. PICK j \in n + i + 1 .. Len(w) : w[j] \in B
    BY <1>3, <2>1 DEF Followed
  <2>3. j - n \in i + 1 .. Len(u) /\ j - n \in 1 .. Len(u) /\ n + (j - n) = j
    BY <1>1, <2>2
  <2> QED
    BY <1>1, <2>2, <2>3
<1>4. ASSUME Followed(w, A, B), NEW i \in 1 .. n, q[i] \in A PROVE Has(q, B) \/ Has(u, B)
  <2>1. i \in 1 .. Len(w) /\ w[i] \in A
    BY <1>1, <1>4
  <2>2. PICK j \in i + 1 .. Len(w) : w[j] \in B
    BY <1>4, <2>1 DEF Followed
  <2>3. Has(w, B)
    <3>1. j \in 1 .. Len(w)
      BY <1>1, <2>1, <2>2
    <3> QED
      BY <2>2, <3>1 DEF Has
  <2> QED
    BY <2>3, JoinHas
<1> QED
  BY <1>2, <1>3, <1>4 DEF Followed, Has

\* A sequence of one element, and the first element and the rest of a sequence.
LEMMA OnlyOne ==
  ASSUME NEW S, NEW x \in S, NEW A, NEW B
  PROVE  /\ Has(<<x>>, B) <=> x \in B
         /\ ~Before(<<x>>, A, B)
         /\ ~Has(<<>>, B) /\ Followed(<<>>, A, B)
         /\ x \notin A => Followed(<<x>>, A, B)
BY OneFrame DEF Has, Before, Followed

LEMMA PartsOf ==
  ASSUME NEW S, NEW s \in Seq(S), s # <<>>
  PROVE  /\ Head(s) \in S /\ Tail(s) \in Seq(S) /\ <<Head(s)>> \in Seq(S)
         /\ s = <<Head(s)>> \o Tail(s)
OBVIOUS

LEMMA PartsHave ==
  ASSUME NEW S, NEW s \in Seq(S), s # <<>>, NEW A, NEW B
  PROVE  /\ Has(s, B) <=> Head(s) \in B \/ Has(Tail(s), B)
         /\ Before(s, A, B) => (Head(s) \in A /\ Has(Tail(s), B)) \/ Before(Tail(s), A, B)
         /\ Followed(s, A, B) => /\ Followed(Tail(s), A, B)
                                 /\ Head(s) \in A => Has(Tail(s), B)
<1> DEFINE x == Head(s)
           u == Tail(s)
           q == <<x>>
<1>1. x \in S /\ u \in Seq(S) /\ q \in Seq(S) /\ s = q \o u
  BY PartsOf
<1>2. (Has(q, B) <=> x \in B) /\ ~Before(q, A, B) /\ (Has(q, A) <=> x \in A)
  BY <1>1, OnlyOne
<1>3. ~(Has(q, A) /\ ~Has(q, A))
  OBVIOUS
<1> HIDE DEF x, u, q
<1>4. Has(s, B) <=> x \in B \/ Has(u, B)
  BY <1>1, <1>2, JoinHas
<1>5. Before(s, A, B) => (x \in A /\ Has(u, B)) \/ Before(u, A, B)
  BY <1>1, <1>2, JoinBefore
<1>6. Followed(s, A, B) => Followed(u, A, B) /\ (x \in A => Has(u, B))
  <2> SUFFICES ASSUME Followed(s, A, B) PROVE Followed(u, A, B) /\ (x \in A => Has(u, B))
    OBVIOUS
  <2>1. Followed(u, A, B)
    BY <1>1, JoinFollowed
  <2>2. ASSUME x \in A PROVE Has(u, B)
    <3>1. Len(s) \in Nat /\ 1 \in 1 .. Len(s) /\ s[1] = x /\ Len(u) = Len(s) - 1
          /\ \A i \in 1 .. Len(u) : u[i] = s[i + 1]
      BY StackParts DEF x, u
    <3>2. PICK j \in 1 + 1 .. Len(s) : s[j] \in B
      BY <2>2, <3>1 DEF Followed
    <3>3. j - 1 \in 1 .. Len(u) /\ (j - 1) + 1 = j
      BY <3>1, <3>2
    <3> QED
      BY <3>1, <3>2, <3>3 DEF Has
  <2> QED
    BY <2>1, <2>2
<1> QED
  BY <1>4, <1>5, <1>6 DEF x, u

\* The elements of u are in t, in their order.
Grown(u, t) == /\ \A B \in SUBSET Frames : Has(u, B) => Has(t, B)
               /\ \A A, B \in SUBSET Frames : Before(u, A, B) => Before(t, A, B)

LEMMA JoinGrows ==
  ASSUME NEW q \in Seq(Frames), NEW u \in Seq(Frames)
  PROVE  Grown(u, q \o u)
BY JoinHas, JoinBefore DEF Grown

LEMMA InsertGrows ==
  ASSUME NEW w \in Seq(Frames), NEW m \in Seq(Frames), NEW v \in Seq(Frames)
  PROVE  Grown(w \o v, w \o (m \o v))
<1>1. m \o v \in Seq(Frames)
  BY SequenceJoin
<1>2. \A B : Has(v, B) => Has(m \o v, B)
  BY JoinHas
<1>3. \A A, B : Before(v, A, B) => Before(m \o v, A, B)
  BY JoinBefore
<1> DEFINE x == m \o v
<1> HIDE DEF x
<1>4. \A B \in SUBSET Frames : Has(w \o v, B) => Has(w \o x, B)
  BY <1>1, <1>2, JoinHas DEF x
<1>5. \A A, B \in SUBSET Frames : Before(w \o v, A, B) => Before(w \o x, A, B)
  <2> SUFFICES ASSUME NEW A \in SUBSET Frames, NEW B \in SUBSET Frames, Before(w \o v, A, B)
               PROVE  Before(w \o x, A, B)
    OBVIOUS
  <2>1. Before(w, A, B) \/ Before(v, A, B) \/ (Has(w, A) /\ Has(v, B))
    BY JoinBefore
  <2>2. Before(w, A, B) \/ Before(x, A, B) \/ (Has(w, A) /\ Has(x, B))
    BY <1>2, <1>3, <2>1 DEF x
  <2>3. x \in Seq(Frames)
    BY <1>1 DEF x
  <2> QED
    BY <2>2, <2>3, JoinBefore
<1> QED
  BY <1>4, <1>5 DEF Grown, x

-----------------------------------------------------------------------------
(* What is left to do.                                                       *)
LEMMA ToDoParts ==
  ASSUME StackTyped
  PROVE  /\ ToDo \in Seq(Frames)
         /\ stack[Running] # <<>> =>
              /\ ToDo # <<>> /\ Head(ToDo) = Top /\ Top \in Frames /\ Doing = Top.op
              /\ Tail(ToDo) \in Seq(Frames)
              /\ Running = "server" => ToDo = stack["server"]
              /\ Running = "tick" => Tail(ToDo) = Tail(stack["tick"]) \o stack["server"]
         /\ stack[Running] = <<>> => ToDo = <<>> /\ Doing = "none"
<1>1. stack["tick"] \in Seq(Frames) /\ stack["server"] \in Seq(Frames)
  BY DEF StackTyped, Threads
<1>2. ToDo \in Seq(Frames)
  BY <1>1, SequenceJoin DEF ToDo
<1>3. CASE Running = "tick"
  <2>1. stack["tick"] # <<>>
    BY <1>3 DEF Running
  <2>2. /\ ToDo # <<>> /\ Head(ToDo) = Head(stack["tick"])
        /\ Tail(ToDo) = Tail(stack["tick"]) \o stack["server"]
    BY <1>1, <2>1, JoinHead DEF ToDo
  <2>3. Head(ToDo) = Top /\ Top \in Frames /\ Tail(ToDo) \in Seq(Frames)
    BY <1>2, <1>3, <2>2, PartsOf DEF Top
  <2> QED
    BY <1>2, <1>3, <2>1, <2>2, <2>3 DEF Doing
<1>4. CASE Running = "server"
  <2>1. stack["tick"] = <<>>
    BY <1>4, TheThreads
  <2>2. ToDo = stack["server"]
    BY <1>1, <2>1, JoinHead DEF ToDo
  <2>3. ToDo # <<>> => Head(ToDo) = Top /\ Top \in Frames /\ Tail(ToDo) \in Seq(Frames)
    BY <1>2, <1>4, <2>2, PartsOf DEF Top
  <2> QED
    BY <1>2, <1>4, <2>2, <2>3 DEF Doing
<1> QED
  BY <1>3, <1>4, TheThreads

LEMMA ToDoContinues ==
  ASSUME StackTyped, stack[Running] # <<>>, NEW q \in Seq(Frames), Continue(q)
  PROVE  /\ ToDo' = q \o Tail(ToDo)
         /\ Running = "tick" => /\ stack' = [stack EXCEPT !["tick"] = q \o Tail(stack["tick"])]
                                /\ stack'["tick"] = q \o Tail(stack["tick"])
                                /\ stack'["server"] = stack["server"]
         /\ Running = "server" => /\ stack' = [stack EXCEPT !["server"] = q \o Tail(ToDo)]
                                  /\ stack'["server"] = q \o Tail(ToDo)
                                  /\ stack'["tick"] = <<>>
<1>1. stack["tick"] \in Seq(Frames) /\ stack["server"] \in Seq(Frames)
  BY DEF StackTyped, Threads
<1>2. CASE Running = "tick"
  <2>1. /\ stack' = [stack EXCEPT !["tick"] = q \o Tail(stack["tick"])]
        /\ stack'["tick"] = q \o Tail(stack["tick"]) /\ stack'["server"] = stack["server"]
    BY <1>2 DEF Continue, StackTyped, Threads
  <2>2. stack["tick"] # <<>>
    BY <1>2 DEF Running
  <2>3. ToDo' = q \o Tail(ToDo)
    <3> DEFINE s == stack["tick"]
               r == stack["server"]
    <3>1. Tail(ToDo) = Tail(s) \o r
      BY <1>2, <2>2, ToDoParts
    <3>2. ToDo' = (q \o Tail(s)) \o r
      BY <2>1 DEF ToDo
    <3>3. s \in Seq(Frames) /\ r \in Seq(Frames) /\ s # <<>>
      BY <1>1, <2>2
    <3> HIDE DEF s, r
    <3> DEFINE x == Tail(s)
    <3>4. x \in Seq(Frames)
      BY <3>3, PartsOf
    <3>5. Tail(ToDo) = x \o r /\ ToDo' = (q \o x) \o r
      BY <3>1, <3>2
    <3> HIDE DEF x
    <3>6. (q \o x) \o r = q \o (x \o r)
      BY ONLY <3>3, <3>4, q \in Seq(Frames), JoinAssociates
    <3> QED
      BY <3>5, <3>6
  <2> QED
    BY <1>2, <2>1, <2>3
<1>3. CASE Running = "server"
  <2>1. stack["tick"] = <<>> /\ ToDo = stack["server"]
    BY <1>3, TheThreads, ToDoParts
  <2>2. /\ stack' = [stack EXCEPT !["server"] = q \o Tail(ToDo)]
        /\ stack'["server"] = q \o Tail(ToDo) /\ stack'["tick"] = <<>>
    BY <1>3, <2>1 DEF Continue, StackTyped, Threads
  <2>3. q \o Tail(ToDo) \in Seq(Frames)
    BY ToDoParts, SequenceJoin
  <2>4. ToDo' = q \o Tail(ToDo)
    <3> DEFINE t == q \o Tail(ToDo)
    <3>1. ToDo' = <<>> \o t /\ t \in Seq(Frames)
      BY <2>2, <2>3 DEF ToDo
    <3> HIDE DEF t
    <3>2. ToDo' = t
      BY <3>1, JoinEmpty
    <3> QED
      BY <3>2 DEF t
  <2> QED
    BY <1>3, <2>2, <2>4
<1> QED
  BY <1>2, <1>3, TheThreads

\* Frames that may take the place of the one on top.
Fitting(q) ==
    /\ q \in Seq(Frames)
    /\ \A i \in 1 .. Len(q) : /\ q[i].op # "rearm"
                              /\ Running = "server" => q[i].op \notin {"read", "note"}

LEMMA StackKeeps ==
  ASSUME StackTyped, stack[Running] # <<>>, Top.op # "rearm", NEW q, Fitting(q), Continue(q)
  PROVE  StackTyped'
<1> DEFINE s == stack[Running]
           r == q \o Tail(s)
<1>1. s \in Seq(Frames) /\ s # <<>> /\ q \in Seq(Frames) /\ Running \in Threads
  BY TheThreads DEF StackTyped, Fitting
<1>2. /\ r \in Seq(Frames) /\ Len(r) = Len(q) + Len(s) - 1
      /\ Len(q) \in Nat /\ Len(s) \in Nat \ {0}
      /\ \A i \in 1 .. Len(q) : r[i] = q[i]
      /\ \A i \in Len(q) + 1 .. Len(r) : i - Len(q) + 1 \in 2 .. Len(s)
                                         /\ r[i] = s[i - Len(q) + 1]
  <2> HIDE DEF s
  <2> QED
    BY <1>1, StackReplaced
<1>3. stack' = [stack EXCEPT ![Running] = r] /\ stack' \in [Threads -> Seq(Frames)]
  BY <1>1, <1>2 DEF Continue, StackTyped
<1> HIDE DEF r
<1>4. CASE Running = "server"
  <2>1. stack'["server"] = r /\ stack'["tick"] = <<>> /\ s = stack["server"]
    BY <1>3, <1>4, TheThreads DEF StackTyped
  <2>2. \A i \in 1 .. Len(r) : r[i].op \notin {"rearm", "read", "note"}
    <3> SUFFICES ASSUME NEW i \in 1 .. Len(r) PROVE r[i].op \notin {"rearm", "read", "note"}
      OBVIOUS
    <3>1. CASE i \in 1 .. Len(q)
      BY <1>2, <1>4, <3>1 DEF Fitting
    <3>2. CASE i \notin 1 .. Len(q)
      <4>1. i \in Len(q) + 1 .. Len(r)
        BY <1>2, <3>2
      <4>2. i - Len(q) + 1 \in 1 .. Len(s) /\ r[i] = s[i - Len(q) + 1]
        BY <1>2, <4>1
      <4> QED
        BY <2>1, <4>2 DEF StackTyped
    <3> QED
      BY <3>1, <3>2
  <2> QED
    BY <1>3, <2>1, <2>2 DEF StackTyped
<1>5. CASE Running = "tick"
  <2>1. stack'["tick"] = r /\ stack'["server"] = stack["server"] /\ s = stack["tick"]
    BY <1>3, <1>5, TheThreads DEF StackTyped
  <2>2. Len(s) # 1
    <3>1. s[1] = Top
      BY <1>1 DEF Top
    <3> QED
      BY <1>2, <2>1, <3>1, SMTT(30) DEF StackTyped
  <2>3. \A i \in 1 .. Len(r) : r[i].op = "rearm" <=> i = Len(r)
    <3> SUFFICES ASSUME NEW i \in 1 .. Len(r) PROVE r[i].op = "rearm" <=> i = Len(r)
      OBVIOUS
    <3>1. CASE i \in 1 .. Len(q)
      <4>1. i # Len(r)
        <5> HIDE DEF s
        <5>1. /\ Len(r) = Len(q) + Len(s) - 1 /\ Len(q) \in Nat /\ Len(s) \in Nat
              /\ Len(s) # 0 /\ Len(s) # 1
          BY <1>2, <2>2
        <5> DEFINE n == Len(s)
                   m == Len(q)
                   k == Len(r)
        <5>2. k = m + n - 1 /\ m \in Nat /\ n \in Nat /\ n # 0 /\ n # 1 /\ i \in 1 .. m
          BY <3>1, <5>1
        <5> HIDE DEF n, m, k
        <5>3. i # k
          BY <5>2
        <5> QED
          BY <5>3 DEF k
      <4> QED
        BY <1>2, <3>1, <4>1 DEF Fitting
    <3>2. CASE i \notin 1 .. Len(q)
      <4>1. i \in Len(q) + 1 .. Len(r)
        BY <1>2, <3>2
      <4>2. i - Len(q) + 1 \in 1 .. Len(s) /\ r[i] = s[i - Len(q) + 1]
        BY <1>2, <4>1
      <4>3. i - Len(q) + 1 = Len(s) <=> i = Len(r)
        BY <1>2, <4>1
      <4> QED
        BY <2>1, <4>2, <4>3 DEF StackTyped
    <3> QED
      BY <3>1, <3>2
  <2> QED
    BY <1>3, <2>1, <2>3 DEF StackTyped
<1> QED
  BY <1>4, <1>5, TheThreads

-----------------------------------------------------------------------------
(* What a request has left for its end.                                      *)
LEMMA BodyOrEnding ==
  /\ Body \subseteq Frames /\ Endings \subseteq Frames /\ Light \subseteq Frames
  /\ Body \cap Endings = {}
  /\ \A x \in Frames : x \in Body \/ x \in Endings
BY DEF Body, Endings, Light

LEMMA QuietedContinues ==
  ASSUME StackTyped, stack[Running] # <<>>, NEW f, Quieted(f),
         NEW q \in Seq(Harmless(f)), Continue(q), \A e \in Ends : el'[f][e] = "Stop"
  PROVE  Quieted(f)'
<1>1. Harmless(f) \subseteq Frames
  BY DEF Harmless
<1>2. q \in Seq(Frames)
  BY <1>1
<1>3. ToDo' = q \o Tail(ToDo) /\ ToDo # <<>>
  BY <1>2, ToDoContinues, ToDoParts
<1> DEFINE H == Harmless(f)
<1>4. ToDo \in Seq(H) /\ q \in Seq(H)
  BY DEF Quieted
<1> HIDE DEF H
<1>5. Tail(ToDo) \in Seq(H)
  BY <1>3, <1>4, PartsOf
<1>6. ToDo' \in Seq(H)
  BY <1>3, <1>4, <1>5, SequenceJoin
<1> QED
  BY <1>6 DEF H, Quieted, Harmless

LEMMA OneBefore ==
  ASSUME NEW x, NEW c, c = <<>> \/ \E y : c = <<y>>
  PROVE  Len(<<x>> \o c) \in Nat /\ Len(<<x>> \o c) # 0 /\ (<<x>> \o c)[1] = x
<1>1. CASE c = <<>>
  <2>1. <<x>> \o c = <<x>>
    BY <1>1
  <2> QED
    BY <2>1
<1>2. ASSUME NEW y, c = <<y>> PROVE Len(<<x>> \o c) \in Nat /\ Len(<<x>> \o c) # 0 /\ (<<x>> \o c)[1] = x
  <2>1. Len(<<x>> \o <<y>>) = 2
    OBVIOUS
  <2>2. (<<x>> \o <<y>>)[1] = x
    OBVIOUS
  <2> QED
    BY <1>2, <2>1, <2>2
<1> QED
  BY <1>1, <1>2

LEMMA HeadIsThere ==
  ASSUME NEW S, NEW a \in Seq(S), NEW z \in Seq(S), NEW x, Len(z) # 0, z[1] = x
  PROVE  Has(a \o z, {x})
<1>1. Has(z, {x})
  BY DEF Has
<1>2. Has(a \o z, {x}) <=> Has(a, {x}) \/ Has(z, {x})
  BY JoinHas
<1> QED
  BY <1>1, <1>2

LEMMA EndsFreed ==
  ASSUME NEW a \in Seq(Frames), NEW z \in Seq(Frames), stack["server"] = a \o z,
         NEW f, NEW c \in Closings(f), z = <<OnFlow("unlink", f)>> \o c
  PROVE  Freed(f)
<1>1. c = <<>> \/ \E y : c = <<y>>
  BY DEF Closings
<1>2. Len(z) # 0 /\ z[1] = OnFlow("unlink", f)
  BY <1>1, OneBefore
<1>3. Has(a \o z, {OnFlow("unlink", f)})
  BY <1>2, HeadIsThere
<1> QED
  BY <1>3 DEF Freed

LEMMA ShapeOfTick ==
  ASSUME RequestShaped, stack'["server"] = stack["server"], stack'["tick"] \in Seq(Body),
         elems' = elems, \A f \in Mortal \cap elems : Freed(f) /\ Quieted(f) => Quieted(f)'
  PROVE  RequestShaped'
<1>1. PICK a \in Seq(Body) : \E z \in Seq(Endings) : stack["server"] = a \o z /\ Ended(a, z)
  BY DEF RequestShaped
<1>2. PICK z \in Seq(Endings) : stack["server"] = a \o z /\ Ended(a, z)
  BY <1>1
<1>3. \A f \in Flows : \A c \in Closings(f) : z = <<OnFlow("unlink", f)>> \o c => Freed(f)
  <2>1. a \in Seq(Frames) /\ z \in Seq(Frames)
    BY BodyOrEnding
  <2> QED
    BY <1>2, <2>1, EndsFreed
<1>4. Ended(a, z)'
  BY <1>2, <1>3 DEF Ended
<1> QED
  BY <1>2, <1>4 DEF RequestShaped

LEMMA ShapeContinues ==
  ASSUME StackTyped, RequestShaped, stack[Running] # <<>>, Top \in Body,
         NEW q \in Seq(Body), Continue(q), elems' = elems,
         \A f \in Mortal \cap elems : Freed(f) /\ Quieted(f) => Quieted(f)',
         \A f \in Mortal \cap elems :
           Top = StopAll(f) /\ Tail(ToDo) \in Seq(Endings) => Quieted(f)'
  PROVE  RequestShaped'
<1>1. q \in Seq(Frames)
  BY BodyOrEnding
<1>2. CASE Running = "tick"
  <2>1. stack'["tick"] = q \o Tail(stack["tick"]) /\ stack'["server"] = stack["server"]
    BY <1>1, <1>2, ToDoContinues
  <2>2. Tail(stack["tick"]) \in Seq(Body)
    <3>1. stack["tick"] # <<>> /\ stack["tick"] \in Seq(Body)
      BY <1>2 DEF Running, RequestShaped
    <3> QED
      BY <3>1, PartsOf
  <2>3. stack'["tick"] \in Seq(Body)
    BY <2>1, <2>2, SequenceJoin
  <2> QED
    BY <2>1, <2>3, ShapeOfTick
<1>3. CASE Running = "server"
  <2>1. /\ ToDo = stack["server"] /\ ToDo # <<>> /\ Head(ToDo) = Top
        /\ stack'["server"] = q \o Tail(ToDo) /\ stack'["tick"] = <<>>
    BY <1>1, <1>3, ToDoContinues, ToDoParts
  <2>2. PICK a \in Seq(Body) : \E z \in Seq(Endings) : stack["server"] = a \o z /\ Ended(a, z)
    BY DEF RequestShaped
  <2>3. PICK z \in Seq(Endings) : stack["server"] = a \o z /\ Ended(a, z)
    BY <2>2
  <2>4. a \in Seq(Frames) /\ z \in Seq(Frames)
    BY BodyOrEnding
  <2>5. a # <<>>
    <3> SUFFICES ASSUME a = <<>> PROVE FALSE
      OBVIOUS
    <3>1. ToDo = z
      BY <2>1, <2>3, <2>4, JoinHead
    <3>2. Top \in Endings
      BY <2>1, <3>1, PartsOf
    <3> QED
      BY <3>2, BodyOrEnding
  <2>6. Head(ToDo) = Head(a) /\ Tail(ToDo) = Tail(a) \o z
    BY <2>1, <2>3, <2>4, <2>5, JoinHead
  <2>7. Tail(a) \in Seq(Body)
    BY <2>5, PartsOf
  <2> DEFINE b == q \o Tail(a)
  <2>8. b \in Seq(Body) /\ stack'["server"] = b \o z
    <3> DEFINE x == Tail(a)
    <3>1. x \in Seq(Body) /\ Tail(ToDo) = x \o z
      BY <2>6, <2>7
    <3> HIDE DEF x
    <3>4. x \in Seq(Frames)
      BY <3>1, BodyOrEnding
    <3>5. stack'["server"] = q \o (x \o z)
      BY <2>1, <3>1
    <3>2. q \o x \in Seq(Body)
      BY <3>1, SequenceJoin
    <3>3. (q \o x) \o z = q \o (x \o z)
      BY ONLY <1>1, <2>4, <3>4, JoinAssociates
    <3> QED
      BY <3>2, <3>3, <3>5 DEF x
  <2>9. \A f \in Mortal \cap elems : a = <<StopAll(f)>> => Quieted(f)'
    <3> SUFFICES ASSUME NEW f \in Mortal \cap elems, a = <<StopAll(f)>> PROVE Quieted(f)'
      OBVIOUS
    <3>1. Top = StopAll(f) /\ Tail(a) = <<>>
      BY <2>1, <2>6
    <3>2. Tail(ToDo) = z
      BY <2>4, <2>6, <3>1, JoinEmpty
    <3> QED
      BY <3>1, <3>2
  <2>10. Ended(b, z)'
    <3> HIDE DEF b
    <3>1. \A f \in Flows : \A c \in Closings(f) : z = <<OnFlow("unlink", f)>> \o c => Freed(f)
      BY <2>3, <2>4, EndsFreed
    <3> QED
      BY <2>3, <2>9, <3>1 DEF Ended
  <2>11. stack'["tick"] \in Seq(Body)
    BY <2>1
  <2> HIDE DEF b
  <2> QED
    BY <2>8, <2>10, <2>11 DEF RequestShaped
<1> QED
  BY <1>2, <1>3, TheThreads

\* One of the frames for the end of a request is on top.
LEMMA EndingOnTop ==
  ASSUME StackTyped, RequestShaped, stack[Running] # <<>>, Top \in Endings
  PROVE  /\ Running = "server" /\ ToDo \in Seq(Endings)
         /\ \E f \in Flows : \E c \in Closings(f) :
              \/ ToDo = <<OnFlow("free", f)>> \o c /\ (f \in Mortal \/ f \notin elems)
              \/ /\ ToDo = <<OnFlow("unlink", f)>> \o c /\ f \in Mortal \cap elems
                 /\ Quieted(f)
              \/ ToDo = c /\ f \notin elems
<1>1. Running = "server"
  <2> SUFFICES ASSUME Running = "tick" PROVE FALSE
    BY TheThreads
  <2>1. stack["tick"] # <<>> /\ stack["tick"] \in Seq(Body) /\ Top = Head(stack["tick"])
    BY DEF Running, RequestShaped, Top
  <2>2. Top \in Body
    BY <2>1, PartsOf
  <2> QED
    BY <2>2, BodyOrEnding
<1>2. ToDo = stack["server"] /\ ToDo # <<>> /\ Head(ToDo) = Top
  BY <1>1, ToDoParts
<1>3. PICK a \in Seq(Body) : \E z \in Seq(Endings) : stack["server"] = a \o z /\ Ended(a, z)
  BY DEF RequestShaped
<1>4. PICK z \in Seq(Endings) : stack["server"] = a \o z /\ Ended(a, z)
  BY <1>3
<1>5. a \in Seq(Frames) /\ z \in Seq(Frames)
  BY BodyOrEnding
<1>6. a = <<>>
  <2> SUFFICES ASSUME a # <<>> PROVE FALSE
    OBVIOUS
  <2>1. Top = Head(a)
    BY <1>2, <1>4, <1>5, JoinHead
  <2>2. Top \in Body
    BY <2>1, PartsOf
  <2> QED
    BY <2>2, BodyOrEnding
<1>7. ToDo = z
  BY <1>2, <1>4, <1>5, <1>6, JoinHead
<1>8. \A f \in Flows : a # <<StopAll(f)>>
  BY <1>6
<1>9. z # <<>>
  BY <1>2, <1>7
<1>10. \E f \in Flows : \E c \in Closings(f) :
              \/ z = <<OnFlow("free", f)>> \o c /\ (f \in Mortal \/ f \notin elems)
              \/ z = <<OnFlow("unlink", f)>> \o c /\ f \in Mortal \cap elems /\ Quieted(f)
              \/ z = c /\ f \notin elems
  BY <1>4, <1>8, <1>9 DEF Ended
<1> QED
  BY <1>1, <1>7, <1>10

\* What the end of a request has left when it goes on.
LEMMA ShapeEnds ==
  ASSUME NEW a \in Seq(Body), NEW z \in Seq(Endings), stack'["tick"] = <<>>,
         stack'["server"] = a \o z, Ended(a, z)'
  PROVE  RequestShaped'
BY DEF RequestShaped

-----------------------------------------------------------------------------
(* Steps with nothing but light frames.                                      *)

\* What is left to do, with or without the frame on top.
Rest(u) == u \in Seq(Frames) /\ (u = ToDo \/ (ToDo # <<>> /\ u = Tail(ToDo)))

LEMMA FrameSets ==
  /\ \A f : CountsOf(f) \subseteq Frames /\ Settling(f) \subseteq Frames /\ Noisy(f) \subseteq Frames
  /\ \A f, e : ChecksOf(f, e) \subseteq Frames
  /\ \A f, e : \A x \in ChecksOf(f, e) : x.op = "check" /\ x.flow = f /\ x.e = e
  /\ Countable \subseteq Frames
BY DEF CountsOf, Settling, Noisy, ChecksOf, Frames, Calls, Checks, Countable

LEMMA LightToDo ==
  ASSUME ToDo' \in Seq(Light)
  PROVE  HeadOnly' /\ Doing' \notin Passes \cup {"store"}
<1>1. HeadOnly'
  <2>1. ToDo' # <<>> => Tail(ToDo') \in Seq(Light)
    BY PartsOf
  <2> QED
    BY <2>1 DEF HeadOnly, Light
<1>2. Doing' \notin Passes \cup {"store"}
  <2>1. CASE ToDo' = <<>>
    BY <2>1 DEF Doing, Passes
  <2>2. CASE ToDo' # <<>>
    <3>1. Head(ToDo') \in Light
      BY <2>2, PartsOf
    <3> QED
      BY <2>2, <3>1 DEF Doing, Light
  <2> QED
    BY <2>1, <2>2
<1> QED
  BY <1>1, <1>2

LEMMA FlagsStep ==
  ASSUME FlagsChecked, flag \in SUBSET (Flows \X Ends), ToDo \in Seq(Frames),
         NEW u, Rest(u), Grown(u, ToDo'),
         \A f \in Flows, e \in Ends :
           <<f, e>> \in flag' => \/ Before(ToDo', ChecksOf(f, e), CountsOf(f))
                                 \/ /\ <<f, e>> \in flag
                                    /\ u = ToDo \/ Head(ToDo) \notin ChecksOf(f, e)
  PROVE  FlagsChecked'
<1> SUFFICES ASSUME NEW f \in Flows, NEW e \in Ends, <<f, e>> \in flag,
                    u = ToDo \/ Head(ToDo) \notin ChecksOf(f, e)
             PROVE  Before(ToDo', ChecksOf(f, e), CountsOf(f))
  BY DEF FlagsChecked, ChecksOf, CountsOf
<1> DEFINE A == ChecksOf(f, e)
           B == CountsOf(f)
<1>1. A \in SUBSET Frames /\ B \in SUBSET Frames
  BY FrameSets
<1>2. Before(ToDo, A, B) /\ (u = ToDo \/ Head(ToDo) \notin A)
  BY DEF FlagsChecked
<1> HIDE DEF A, B
<1>3. Before(u, A, B)
  <2>1. CASE u = ToDo
    BY <1>2, <2>1
  <2>2. CASE u # ToDo
    <3>1. ToDo # <<>> /\ u = Tail(ToDo) /\ Head(ToDo) \notin A
      BY <1>2, <2>2 DEF Rest
    <3>2. Before(ToDo, A, B)
            => (Head(ToDo) \in A /\ Has(Tail(ToDo), B)) \/ Before(Tail(ToDo), A, B)
      BY <3>1, PartsHave
    <3> QED
      BY <1>2, <3>1, <3>2
  <2> QED
    BY <2>1, <2>2
<1>4. Before(ToDo', A, B)
  BY <1>1, <1>3 DEF Grown
<1> QED
  BY <1>4 DEF A, B

LEMMA CountedStep ==
  ASSUME Counted, ToDo \in Seq(Frames), UNCHANGED <<elems, pending>>,
         \A f \in elems : el'[f] = el[f] \/ Has(ToDo', CountsOf(f)),
         NEW u, Rest(u), Grown(u, ToDo'),
         u = ToDo \/ Doing \notin {"count", "store"}, Doing' # "store", ToDo' \in Seq(Countable)
  PROVE  Counted'
<1>1. ASSUME NEW f \in elems, Has(ToDo, CountsOf(f)) PROVE Has(ToDo', CountsOf(f))
  <2> DEFINE B == CountsOf(f)
  <2>1. B \in SUBSET Frames /\ \A x \in B : x.op \in {"count", "store"}
    BY FrameSets DEF CountsOf
  <2>2. ToDo # <<>> /\ Doing \notin {"count", "store"} => Head(ToDo) \notin B
    BY <2>1 DEF Doing
  <2> HIDE DEF B
  <2>3. Has(u, B)
    <3>1. Has(ToDo, B)
      BY <1>1 DEF B
    <3>2. CASE u # ToDo
      BY <2>2, <3>1, <3>2, PartsHave DEF Rest
    <3> QED
      BY <3>1, <3>2
  <2>4. Has(ToDo', B)
    BY <2>1, <2>3 DEF Grown
  <2> QED
    BY <2>4 DEF B
<1>2. \A f \in elems : pending[f] = Amount(el'[f]) \/ Has(ToDo', CountsOf(f))
  <2> SUFFICES ASSUME NEW f \in elems, el'[f] = el[f]
               PROVE  pending[f] = Amount(el'[f]) \/ Has(ToDo', CountsOf(f))
    OBVIOUS
  <2>1. Amount(el'[f]) = Amount(el[f])
    OBVIOUS
  <2> QED
    BY <1>1, <2>1 DEF Counted
<1>3. /\ \A f \in Flows \ elems' : pending'[f] = "Stop"
      /\ \A f \in elems' : pending'[f] = Amount(el'[f]) \/ Has(ToDo', CountsOf(f))
  BY <1>2 DEF Counted
<1> QED
  BY <1>3 DEF Counted, CountsOf, Countable, Amount

LEMMA SettledStep ==
  ASSUME ToBeSettled, ToDo \in Seq(Frames), UNCHANGED <<elems, state, pending>>,
         NEW u, Rest(u), Grown(u, ToDo'),
         \A f \in Mortal \cap elems :
           \/ u = ToDo \/ Head(ToDo) \notin Settling(f) \/ state[f] = pending[f]
           \/ Has(ToDo', Settling(f))
  PROVE  ToBeSettled'
<1> SUFFICES ASSUME NEW f \in Mortal \cap elems, state[f] # pending[f]
             PROVE  Has(ToDo', Settling(f))
  BY DEF ToBeSettled, Settling
<1> DEFINE B == Settling(f)
<1>1. Has(ToDo, B) /\ B \in SUBSET Frames
  BY FrameSets DEF ToBeSettled
<1>2. u = ToDo \/ Head(ToDo) \notin B \/ Has(ToDo', B)
  OBVIOUS
<1> HIDE DEF B
<1>3. u = ToDo => Has(ToDo', B)
  BY <1>1 DEF Grown
<1>4. u # ToDo /\ Head(ToDo) \notin B => Has(ToDo', B)
  <2>1. u # ToDo /\ Head(ToDo) \notin B => Has(u, B)
    BY <1>1, PartsHave DEF Rest
  <2> QED
    BY <1>1, <2>1 DEF Grown
<1>5. Has(ToDo', B)
  BY <1>2, <1>3, <1>4
<1> QED
  BY <1>5 DEF B

LEMMA ListSame ==
  ASSUME ListOrdered, UNCHANGED <<links, elems>>, Doing' # "update"
  PROVE  ListOrdered'
<1>1. PICK r \in Ranks : Listed(r) /\ Updated(r)
  BY DEF ListOrdered
<1>2. Listed(r)'
  BY <1>1 DEF Listed, links
<1>3. Updated(r)'
  BY DEF Updated
<1> QED
  BY <1>2, <1>3 DEF ListOrdered, Ranks

LEMMA LinksTypedSame ==
  ASSUME RunsTyped, UNCHANGED <<links, elems>>
  PROVE  LinksTyped'
BY DEF RunsTyped, LinksTyped, links

\* A step of the stacks alone.
LEMMA PlainStep ==
  ASSUME RunningInv, UNCHANGED <<links, elems, el, flag, state, pending, auFlow>>,
         StackTyped', RequestShaped', NEW u, Rest(u), Grown(u, ToDo'),
         ToDo' \in Seq(Light), ToDo' \in Seq(Countable),
         u = ToDo \/ Doing \notin {"check", "count", "store"},
         Doing \notin {"update", "setup", "swap"}, Covered',
         \A f \in Mortal \cap elems :
           \/ u = ToDo \/ Head(ToDo) \notin Settling(f) \/ state[f] = pending[f]
           \/ Has(ToDo', Settling(f))
  PROVE  RunningInv'
<1>1. ToDo \in Seq(Frames) /\ RunsTyped
  BY ToDoParts DEF RunningInv, RunsTyped
<1>2. HeadOnly' /\ Doing' \notin Passes \cup {"store"}
  BY LightToDo
<1>3. RunsTyped'
  BY <1>1, LinksTypedSame DEF RunsTyped, StatesTyped
<1>4. ListOrdered'
  BY <1>2, ListSame DEF RunningInv, Passes
<1>5. Compiled'
  BY <1>2 DEF Compiled, Passes
<1>6. RunningStarted'
  BY DEF RunningInv, RunningStarted
<1>7. FlagsChecked'
  <2>1. \A f \in Flows, e \in Ends : u = ToDo \/ Head(ToDo) \notin ChecksOf(f, e)
    BY FrameSets DEF Rest, Doing
  <2> QED
    BY <1>1, <2>1, FlagsStep DEF RunningInv, RunsTyped, StatesTyped
<1>8. Counted'
  BY <1>1, <1>2, CountedStep DEF RunningInv
<1>9. ToBeSettled'
  BY <1>1, SettledStep DEF RunningInv
<1> QED
  BY <1>2, <1>3, <1>4, <1>5, <1>6, <1>7, <1>8, <1>9 DEF RunningInv

LEMMA NoneFollowed ==
  ASSUME NEW S, NEW q \in Seq(S), NEW A, S \cap A = {}, NEW B
  PROVE  Followed(q, A, B) /\ ~Has(q, A)
<1>1. \A i \in 1 .. Len(q) : q[i] \notin A
  BY SeqElements
<1> QED
  BY <1>1 DEF Followed, Has

\* Frames take the place of the one on top.
LEMMA Advances ==
  ASSUME RunningInv, stack[Running] # <<>>, NEW q \in Seq(Frames), Continue(q)
  PROVE  /\ ToDo' = q \o Tail(ToDo) /\ ToDo # <<>> /\ Head(ToDo) = Top /\ Doing = Top.op
         /\ Top \in Frames /\ Tail(ToDo) \in Seq(Frames) /\ ToDo \in Seq(Frames)
         /\ Rest(Tail(ToDo)) /\ Grown(Tail(ToDo), ToDo')
         /\ Tail(ToDo) \in Seq(Light) /\ Tail(ToDo) \in Seq(Countable)
         /\ q \in Seq(Light) => ToDo' \in Seq(Light)
         /\ q \in Seq(Countable) => ToDo' \in Seq(Countable)
<1>1. StackTyped
  BY DEF RunningInv, RunsTyped
<1>2. /\ ToDo' = q \o Tail(ToDo) /\ ToDo # <<>> /\ Head(ToDo) = Top /\ Doing = Top.op
      /\ Top \in Frames /\ Tail(ToDo) \in Seq(Frames) /\ ToDo \in Seq(Frames)
  BY <1>1, ToDoParts, ToDoContinues
<1>3. Rest(Tail(ToDo)) /\ Grown(Tail(ToDo), ToDo')
  BY <1>2, JoinGrows DEF Rest
<1>4. Tail(ToDo) \in Seq(Light)
  BY <1>2 DEF RunningInv, HeadOnly
<1>5. Tail(ToDo) \in Seq(Countable)
  <2>1. ToDo \in Seq(Countable)
    BY DEF RunningInv, Counted
  <2> QED
    BY <1>2, <2>1, PartsOf
<1>6. q \in Seq(Light) => ToDo' \in Seq(Light)
  BY <1>2, <1>4, SequenceJoin
<1>7. q \in Seq(Countable) => ToDo' \in Seq(Countable)
  BY <1>2, <1>5, SequenceJoin
<1> QED
  BY <1>2, <1>3, <1>4, <1>5, <1>6, <1>7

LEMMA CoveredAdvances ==
  ASSUME RunningInv, stack[Running] # <<>>, NEW q \in Seq(Frames), Continue(q),
         \A f \in Mortal : \/ Followed(q, Noisy(f), Settling(f)) \/ Top \in Noisy(f)
                         \/ Has(Tail(ToDo), Settling(f))
  PROVE  Covered'
<1>1. /\ ToDo' = q \o Tail(ToDo) /\ ToDo # <<>> /\ Head(ToDo) = Top
      /\ Tail(ToDo) \in Seq(Frames) /\ ToDo \in Seq(Frames)
  BY Advances
<1>2. ASSUME NEW f \in Mortal PROVE Followed(ToDo', Noisy(f), Settling(f))
  <2> DEFINE A == Noisy(f)
             B == Settling(f)
             u == Tail(ToDo)
  <2>1. Followed(ToDo, A, B) /\ (Followed(q, A, B) \/ Top \in A \/ Has(u, B))
    BY DEF RunningInv, Covered
  <2>2. ToDo' = q \o u /\ u \in Seq(Frames)
    BY <1>1
  <2> HIDE DEF A, B
  <2>3. Followed(u, A, B) /\ (Top \in A => Has(u, B))
    BY <1>1, <2>1, PartsHave
  <2> HIDE DEF u
  <2>4. Followed(q \o u, A, B)
    BY <2>1, <2>2, <2>3, JoinFollowed
  <2> QED
    BY <2>2, <2>4 DEF A, B
<1> QED
  BY <1>2 DEF Covered, Noisy, Settling

\* Frames that change nothing of the flows.
Silent == {x \in Frames : x.op \in {"process", "unblock", "enable", "mark"}}

LEMMA SilentFrames ==
  /\ Silent \subseteq Frames /\ Silent \subseteq Light /\ Silent \subseteq Countable
  /\ Silent \subseteq Body
  /\ \A f : Silent \subseteq Harmless(f) /\ Silent \cap Noisy(f) = {}
BY DEF Silent, Light, Countable, Body, Harmless, Noisy, Passes

LEMMA SilentFit ==
  ASSUME NEW q \in Seq(Silent)
  PROVE  /\ q \in Seq(Frames) /\ q \in Seq(Light) /\ q \in Seq(Countable) /\ q \in Seq(Body)
         /\ Fitting(q) /\ \A f : q \in Seq(Harmless(f)) /\ Followed(q, Noisy(f), Settling(f))
<1>1. \A i \in 1 .. Len(q) : q[i] \in Silent
  BY SeqElements
<1>2. q \in Seq(Frames) /\ q \in Seq(Light) /\ q \in Seq(Countable) /\ q \in Seq(Body)
  BY SilentFrames
<1>3. Fitting(q)
  BY <1>1, <1>2 DEF Fitting, Silent
<1>4. ASSUME NEW f PROVE q \in Seq(Harmless(f)) /\ Followed(q, Noisy(f), Settling(f))
  <2>1. q \in Seq(Harmless(f))
    BY SilentFrames
  <2> DEFINE A == Noisy(f)
  <2>2. Silent \cap A = {}
    BY SilentFrames
  <2> HIDE DEF A
  <2>3. Followed(q, A, Settling(f))
    BY <2>2, NoneFollowed
  <2> QED
    BY <2>1, <2>3 DEF A
<1> QED
  BY <1>2, <1>3, <1>4

\* All that is to be stopped stays so.
LEMMA AllQuieted ==
  ASSUME RunningInv, stack[Running] # <<>>, el' = el, NEW q, Continue(q),
         NEW f, q \in Seq(Harmless(f))
  PROVE  Quieted(f) => Quieted(f)'
<1>1. StackTyped
  BY DEF RunningInv, RunsTyped
<1> QED
  BY <1>1, QuietedContinues DEF Quieted

LEMMA SilentStep ==
  ASSUME RunningInv, UNCHANGED <<links, elems, el, flag, state, pending, auFlow>>,
         stack[Running] # <<>>, NEW q \in Seq(Silent), Continue(q),
         Top.op \in {"unblock", "compare", "enable", "mark"},
         \A f \in Mortal \cap elems :
           Top \in Settling(f) => state[f] = pending[f] \/ q = <<Process>>
  PROVE  RunningInv'
<1>1. /\ q \in Seq(Frames) /\ q \in Seq(Light) /\ q \in Seq(Countable) /\ q \in Seq(Body)
      /\ Fitting(q) /\ \A f : q \in Seq(Harmless(f)) /\ Followed(q, Noisy(f), Settling(f))
  BY SilentFit
<1>2. /\ ToDo' = q \o Tail(ToDo) /\ ToDo # <<>> /\ Head(ToDo) = Top /\ Doing = Top.op
      /\ Top \in Frames /\ Tail(ToDo) \in Seq(Frames)
      /\ Rest(Tail(ToDo)) /\ Grown(Tail(ToDo), ToDo')
      /\ ToDo' \in Seq(Light) /\ ToDo' \in Seq(Countable)
  BY <1>1, Advances
<1>3. StackTyped'
  BY <1>1, StackKeeps DEF RunningInv, RunsTyped
<1>4. RequestShaped'
  <2>1. Top \in Body /\ \A f : Top # StopAll(f)
    BY <1>2 DEF Body, StopAll, Change
  <2>2. \A f \in Mortal \cap elems : Quieted(f) => Quieted(f)'
    BY <1>1, AllQuieted
  <2> QED
    BY <1>1, <2>1, <2>2, ShapeContinues DEF RunningInv, RunsTyped
<1>5. Covered'
  BY <1>1, CoveredAdvances
<1>6. \A f \in Mortal \cap elems :
        Top \notin Settling(f) \/ state[f] = pending[f] \/ Has(ToDo', Settling(f))
  <2> SUFFICES ASSUME NEW f \in Mortal \cap elems, q = <<Process>> PROVE Has(ToDo', Settling(f))
    OBVIOUS
  <2>1. Process \in Silent /\ Process \in Settling(f)
    <3>1. Process \in Silent
      BY SimpleFrames, CallsAreFrames DEF Silent, Simple, Process
    <3> QED
      BY <3>1 DEF Silent, Settling, Process
  <2>2. Has(q, Settling(f))
    BY <2>1, OnlyOne
  <2> QED
    BY <1>1, <1>2, <2>2, JoinHas
<1>7. Doing \notin {"check", "count", "store"} /\ Doing \notin {"update", "setup", "swap"}
  BY <1>2
<1> QED
  BY <1>2, <1>3, <1>4, <1>5, <1>6, <1>7, PlainStep

LEMMA SilentActions ==
  ASSUME RunningInv, UnblockAudio \/ CompareState \/ EnableInterrupt \/ MarkEnabled
  PROVE  RunningInv'
<1>1. UNCHANGED <<links, elems, el, flag, state, pending, auFlow>>
  BY DEF UnblockAudio, CompareState, EnableInterrupt, MarkEnabled, elements
<1>2. stack[Running] # <<>>
  BY DEF UnblockAudio, CompareState, EnableInterrupt, MarkEnabled, At
<1>3. Top \in Frames
  BY <1>2, ToDoParts DEF RunningInv, RunsTyped
<1>4. <<>> \in Seq(Silent)
  OBVIOUS
<1>5. CASE UnblockAudio \/ MarkEnabled
  <2>1. Continue(<<>>) /\ Top.op \in {"unblock", "mark"}
    BY <1>5 DEF UnblockAudio, MarkEnabled, At
  <2>2. \A f : Top \notin Settling(f)
    BY <2>1 DEF Settling
  <2> QED
    BY <1>1, <1>2, <1>4, <2>1, <2>2, SilentStep
<1>6. CASE EnableInterrupt
  <2>1. Top.op = "enable" /\ (Continue(<<>>) \/ Continue(<<Mark(Top.started)>>))
    BY <1>6 DEF EnableInterrupt, At
  <2>2. \A f : Top \notin Settling(f)
    BY <2>1 DEF Settling
  <2>3. Mark(Top.started) \in Silent
    <3>1. Top.started \in BOOLEAN
      BY <1>3, <2>1, FrameKinds DEF Enablings
    <3> QED
      BY <3>1 DEF Mark, Silent, Frames, Enablings
  <2>4. <<Mark(Top.started)>> \in Seq(Silent)
    BY <2>3, OneFrame
  <2> QED
    BY <1>1, <1>2, <1>4, <2>1, <2>2, <2>4, SilentStep
<1>7. CASE CompareState
  <2> DEFINE q == If(state[Top.flow] # pending[Top.flow], <<Process>>)
  <2>1. Top.op = "compare" /\ Continue(q)
    BY <1>7 DEF CompareState, At
  <2>2. \A f \in Mortal \cap elems :
          Top \in Settling(f) => state[f] = pending[f] \/ q = <<Process>>
    BY <2>1 DEF Settling, If
  <2>3. q \in Seq(Silent)
    <3>1. Process \in Silent
      BY SimpleFrames, CallsAreFrames DEF Silent, Simple, Process
    <3> QED
      BY <3>1, OneFrame, IfFrames
  <2> HIDE DEF q
  <2> QED
    BY <1>1, <1>2, <2>1, <2>2, <2>3, SilentStep
<1> QED
  BY <1>5, <1>6, <1>7

-----------------------------------------------------------------------------
(* The interrupt.                                                            *)
LEMMA JoinSplit ==
  ASSUME NEW S, NEW T, NEW q \in Seq(S), NEW u \in Seq(S), q \o u \in Seq(T)
  PROVE  q \in Seq(T) /\ u \in Seq(T)
<1>1. /\ Len(q \o u) = Len(q) + Len(u) /\ Len(q) \in Nat /\ Len(u) \in Nat
      /\ \A k \in 1 .. Len(q) : (q \o u)[k] = q[k]
      /\ \A k \in 1 .. Len(u) : (q \o u)[Len(q) + k] = u[k]
  BY SequenceJoin
<1> DEFINE w == q \o u
<1>2. \A i \in 1 .. Len(w) : w[i] \in T
  BY SeqElements
<1> HIDE DEF w
<1>3. \A k \in 1 .. Len(q) : q[k] \in T
  BY <1>1, <1>2 DEF w
<1>4. \A k \in 1 .. Len(u) : u[k] \in T
  <2> SUFFICES ASSUME NEW k \in 1 .. Len(u) PROVE u[k] \in T
    OBVIOUS
  <2>1. Len(q) + k \in 1 .. Len(w)
    BY <1>1 DEF w
  <2> QED
    BY <1>1, <1>2, <2>1 DEF w
<1> QED
  BY <1>1, <1>3, <1>4

\* The interrupt's frames are on its stack.
LEMMA OnTick ==
  ASSUME StackTyped, stack[Running] # <<>>, Top.op \in {"rearm", "read", "note"}
  PROVE  Running = "tick" /\ stack["tick"] # <<>> /\ stack["tick"] \in Seq(Frames)
         /\ Head(stack["tick"]) = Top /\ stack["tick"][1] = Top
<1>1. Running = "tick"
  <2> SUFFICES ASSUME Running = "server" PROVE FALSE
    BY TheThreads
  <2>1. stack["server"] \in Seq(Frames) /\ stack["server"] # <<>>
    BY DEF StackTyped, Threads
  <2>2. stack["server"][1] = Top /\ 1 \in 1 .. Len(stack["server"])
    BY <2>1 DEF Top
  <2> QED
    BY <2>2 DEF StackTyped
<1>2. stack["tick"] \in Seq(Frames) /\ stack["tick"] # <<>>
  BY <1>1 DEF StackTyped, Threads
<1> QED
  BY <1>1, <1>2 DEF Top

LEMMA ReadInputRuns ==
  ASSUME RunningInv, ReadInput
  PROVE  RunningInv'
<1> DEFINE f == Top.flow
           x == Change(f, {"in"}, Top.new, FALSE, Top.reason)
           y == OnFlow("note", f)
           q == If(el[f]["in"] = "Start", <<x, y>>)
<1>1. /\ stack[Running] # <<>> /\ Top.op = "read" /\ Continue(q)
      /\ UNCHANGED <<links, elems, el, flag, state, pending, auFlow>>
  BY DEF ReadInput, At, elements
<1>2. StackTyped /\ Top \in Frames
  BY <1>1, ToDoParts DEF RunningInv, RunsTyped
<1>3. f \in Flows /\ Top.new \in States /\ Top.reason \in Reasons
  BY <1>1, <1>2, FrameKinds DEF Reads
<1>4. /\ x \in Frames /\ x.op = "change" /\ x.flow = f
      /\ y \in Frames /\ y.op = "note" /\ y.flow = f
  <2>1. x \in Simple
    BY <1>3, SimpleFrames DEF Ends
  <2>2. y \in FlowFrames
    BY <1>3 DEF OnFlow, FlowFrames, FlowOps
  <2> QED
    BY <2>1, <2>2, CallsAreFrames DEF Simple, Calls, Change, OnFlow
<1>5. Running = "tick"
  BY <1>1, <1>2, OnTick
<1> HIDE DEF x, y
<1>6. x \in Light /\ y \in Light /\ x \in Countable /\ y \in Countable /\ x \in Body /\ y \in Body
  BY <1>4 DEF Light, Countable, Body, Passes
<1>7. q \in Seq(Light) /\ q \in Seq(Countable) /\ q \in Seq(Body) /\ q \in Seq(Frames)
  BY <1>4, <1>6, TwoFrames, IfFrames
<1>8. Fitting(q)
  <2>1. \A i \in 1 .. Len(q) : q[i] \in {x, y}
    BY DEF If
  <2> QED
    BY <1>4, <1>5, <1>7, <2>1 DEF Fitting
<1>9. \A g \in Mortal : Followed(q, Noisy(g), Settling(g))
  <2> SUFFICES ASSUME NEW g \in Mortal PROVE Followed(q, Noisy(g), Settling(g))
    OBVIOUS
  <2>1. y \in Settling(g) \/ (x \notin Noisy(g) /\ y \notin Noisy(g))
    BY <1>4 DEF Settling, Noisy
  <2>2. y \notin Noisy(g)
    BY <1>4 DEF Noisy
  <2> DEFINE A == Noisy(g)
             B == Settling(g)
  <2> HIDE DEF A, B
  <2>3. /\ Followed(<<x, y>>, A, B)
        /\ Followed(<<>>, A, B)
    <3>1. Len(<<x, y>>) = 2 /\ <<x, y>>[1] = x /\ <<x, y>>[2] = y
      OBVIOUS
    <3>2. Followed(<<>>, A, B)
      BY DEF Followed
    <3>3. (y \in B \/ (x \notin A /\ y \notin A)) /\ y \notin A
      BY <2>1, <2>2 DEF A, B
    <3> DEFINE p == <<x, y>>
    <3>4. Len(p) = 2 /\ p[1] = x /\ p[2] = y
      BY <3>1
    <3> HIDE DEF p
    <3>5. ASSUME NEW i \in 1 .. Len(p), p[i] \in A PROVE \E j \in i + 1 .. Len(p) : p[j] \in B
      <4>1. i = 1 /\ y \in B /\ 2 \in i + 1 .. Len(p)
        BY <3>3, <3>4, <3>5
      <4> QED
        BY <3>4, <4>1
    <3>6. Followed(p, A, B)
      BY <3>5 DEF Followed
    <3> QED
      BY <3>2, <3>6 DEF p
  <2> QED
    BY <2>3 DEF A, B, If
<1>10. \A g \in Mortal \cap elems : Quieted(g) => Quieted(g)'
  <2> SUFFICES ASSUME NEW g \in Mortal \cap elems, Quieted(g) PROVE Quieted(g)'
    OBVIOUS
  <2>1. el[g]["in"] = "Stop"
    BY DEF Quieted, Ends
  <2>2. q \in Seq(Harmless(g))
    <3>1. CASE f = g
      <4>1. q = <<>>
        BY <2>1, <3>1 DEF If
      <4>2. <<>> \in Seq(Harmless(g))
        OBVIOUS
      <4> HIDE DEF q
      <4> QED
        BY <4>1, <4>2
    <3>2. CASE f # g
      <4>1. x \in Harmless(g) /\ y \in Harmless(g)
        BY <1>4, <3>2 DEF Harmless
      <4> QED
        BY <4>1, TwoFrames, IfFrames
    <3> QED
      BY <3>1, <3>2
  <2>3. el' = el
    BY <1>1
  <2> HIDE DEF q
  <2> QED
    BY <1>1, <2>2, <2>3, AllQuieted
<1> HIDE DEF q
<1>11. /\ ToDo # <<>> /\ Head(ToDo) = Top /\ Doing = Top.op
       /\ Rest(Tail(ToDo)) /\ Grown(Tail(ToDo), ToDo')
       /\ ToDo' \in Seq(Light) /\ ToDo' \in Seq(Countable)
  BY <1>1, <1>7, Advances
<1>12. StackTyped'
  BY <1>1, <1>2, <1>8, StackKeeps
<1>13. RequestShaped'
  <2>1. Top \in Body /\ \A g : Top # StopAll(g)
    BY <1>1, <1>2 DEF Body, StopAll, Change
  <2> QED
    BY <1>1, <1>2, <1>7, <1>10, <2>1, ShapeContinues DEF RunningInv
<1>14. Covered'
  BY <1>1, <1>7, <1>9, CoveredAdvances
<1>15. \A g \in Mortal \cap elems : Head(ToDo) \notin Settling(g)
  BY <1>1, <1>11 DEF Settling
<1>16. Doing \notin {"check", "count", "store"} /\ Doing \notin {"update", "setup", "swap"}
  BY <1>1, <1>11
<1> QED
  BY <1>1, <1>11, <1>12, <1>13, <1>14, <1>15, <1>16, PlainStep

LEMMA RearmTimerRuns ==
  ASSUME RunningInv, RearmTimer
  PROVE  RunningInv'
<1>1. /\ stack[Running] # <<>> /\ Top.op = "rearm" /\ Continue(<<>>)
      /\ UNCHANGED <<links, elems, el, flag, state, pending, auFlow>>
  BY DEF RearmTimer, At, elements
<1>2. StackTyped /\ Top \in Frames
  BY <1>1, ToDoParts DEF RunningInv, RunsTyped
<1>3. <<>> \in Seq(Frames) /\ <<>> \in Seq(Silent) /\ <<>> \in Seq(Body) /\ <<>> \in Seq(Light)
      /\ <<>> \in Seq(Countable) /\ \A f : <<>> \in Seq(Harmless(f))
  OBVIOUS
<1>4. Running = "tick" /\ stack["tick"][1] = Top /\ stack["tick"] \in Seq(Frames)
      /\ stack["tick"] # <<>>
  BY <1>1, <1>2, OnTick
<1>5. stack'["tick"] = <<>> /\ stack'["server"] = stack["server"]
      /\ stack' \in [Threads -> Seq(Frames)]
  <2> DEFINE s == stack["tick"]
  <2>1. 1 \in 1 .. Len(s)
    BY <1>4
  <2>2. 1 = Len(s)
    BY <1>1, <1>2, <1>4, <2>1 DEF StackTyped
  <2>3. s \in Seq(Frames) /\ s # <<>>
    BY <1>4
  <2> HIDE DEF s
  <2>4. Tail(s) \in Seq(Frames) /\ Len(Tail(s)) = 0
    BY <2>2, <2>3, StackParts
  <2>5. Tail(s) = <<>>
    BY ONLY <2>4, NoFrames
  <2>6. <<>> \o Tail(s) = <<>>
    BY <2>5
  <2>7. stack' = [stack EXCEPT !["tick"] = <<>>]
    BY <1>1, <1>4, <2>6 DEF Continue, s
  <2> QED
    BY <1>2, <1>3, <2>7 DEF StackTyped, Threads
<1>6. StackTyped'
  BY <1>2, <1>5 DEF StackTyped
<1>7. RequestShaped'
  <2>1. stack'["tick"] \in Seq(Body)
    BY <1>5
  <2>2. \A f \in Mortal \cap elems : Quieted(f) => Quieted(f)'
    BY <1>1, <1>3, AllQuieted
  <2> QED
    BY <1>1, <1>5, <2>1, <2>2, ShapeOfTick DEF RunningInv
<1>8. /\ ToDo # <<>> /\ Head(ToDo) = Top /\ Doing = Top.op
      /\ Rest(Tail(ToDo)) /\ Grown(Tail(ToDo), ToDo')
      /\ ToDo' \in Seq(Light) /\ ToDo' \in Seq(Countable)
  BY <1>1, <1>3, Advances
<1>9. Covered'
  <2>1. \A f \in Mortal : Followed(<<>>, Noisy(f), Settling(f))
    BY DEF Followed
  <2> QED
    BY <1>1, <1>3, <2>1, CoveredAdvances
<1>10. \A f \in Mortal \cap elems : Head(ToDo) \notin Settling(f)
  BY <1>1, <1>8 DEF Settling
<1>11. Doing \notin {"check", "count", "store"} /\ Doing \notin {"update", "setup", "swap"}
  BY <1>1, <1>8
<1> QED
  BY <1>1, <1>6, <1>7, <1>8, <1>9, <1>10, <1>11, PlainStep

LEMMA FrontIs ==
  ASSUME NEW S, NEW q \in Seq(S), Len(q) # 0
  PROVE  /\ Front(q) \in Seq(S) /\ Len(Front(q)) = Len(q) - 1
         /\ \A i \in 1 .. Len(Front(q)) : Front(q)[i] = q[i]
<1>1. Len(q) \in Nat \ {0} /\ \A i \in 1 .. Len(q) : q[i] \in S
  BY SeqElements
<1>2. Front(q) = [i \in 1 .. Len(q) - 1 |-> q[i]]
  BY <1>1 DEF Front
<1>3. Front(q) \in [1 .. Len(q) - 1 -> S] /\ Len(q) - 1 \in Nat
  BY <1>1, <1>2
<1>4. Front(q) \in Seq(S) /\ Len(Front(q)) = Len(q) - 1
  BY ONLY <1>3, FunctionIsSeq
<1> QED
  BY <1>2, <1>4

\* The passes over the flows are put before the end of intervalProc.
LEMMA NoteChangeRuns ==
  ASSUME RunningInv, NoteChange
  PROVE  RunningInv'
<1> DEFINE f == Top.flow
           t == stack["tick"]
           r == Tail(t)
           changed == state[f] # pending[f]
<1>1. /\ stack[Running] # <<>> /\ Top.op = "note"
      /\ UNCHANGED <<links, elems, el, flag, state, pending, auFlow>>
      /\ stack' = [stack EXCEPT !["tick"] =
                      IF changed /\ Process \notin ToSet(r)
                        THEN Front(r) \o <<Process, Rearm>> ELSE r]
  BY DEF NoteChange, At, elements
<1>2. StackTyped /\ Top \in Frames
  BY <1>1, ToDoParts DEF RunningInv, RunsTyped
<1>3. Running = "tick" /\ t # <<>> /\ t \in Seq(Frames) /\ t[1] = Top
  BY <1>1, <1>2, OnTick
<1>4. Tail(ToDo) = r \o stack["server"] /\ r \in Seq(Frames) /\ stack["server"] \in Seq(Frames)
  BY <1>1, <1>2, <1>3, ToDoParts, PartsOf DEF StackTyped, Threads
<1>5. /\ ToDo # <<>> /\ Head(ToDo) = Top /\ Doing = Top.op /\ ToDo \in Seq(Frames)
      /\ Tail(ToDo) \in Seq(Frames) /\ Tail(ToDo) \in Seq(Light) /\ Tail(ToDo) \in Seq(Countable)
      /\ Rest(Tail(ToDo))
  <2>1. ToDo # <<>> /\ Head(ToDo) = Top /\ Doing = Top.op /\ ToDo \in Seq(Frames)
    BY <1>1, <1>2, ToDoParts
  <2>2. Tail(ToDo) \in Seq(Frames) /\ Rest(Tail(ToDo))
    BY <2>1, PartsOf DEF Rest
  <2>3. Tail(ToDo) \in Seq(Light)
    BY <2>1 DEF RunningInv, HeadOnly
  <2>4. ToDo \in Seq(Countable)
    BY DEF RunningInv, Counted
  <2> QED
    BY <2>1, <2>2, <2>3, <2>4, PartsOf
<1>6. \A g : Followed(Tail(ToDo), Noisy(g), Settling(g)) \/ g \notin Mortal
  <2> SUFFICES ASSUME NEW g \in Mortal PROVE Followed(Tail(ToDo), Noisy(g), Settling(g))
    OBVIOUS
  <2>1. Followed(ToDo, Noisy(g), Settling(g))
    BY DEF RunningInv, Covered
  <2> DEFINE A == Noisy(g)
             B == Settling(g)
  <2>2. Followed(ToDo, A, B)
    BY <2>1
  <2> HIDE DEF A, B
  <2>3. Followed(Tail(ToDo), A, B)
    BY <1>5, <2>2, PartsHave
  <2> QED
    BY <2>3 DEF A, B
<1>7. \A i \in 1 .. Len(t) : t[i].op = "rearm" <=> i = Len(t)
  BY <1>2 DEF StackTyped
<1>8. /\ Doing \notin {"check", "count", "store"} /\ Doing \notin {"update", "setup", "swap"}
  BY <1>1, <1>5
<1>9. r \in Seq(Body) /\ t \in Seq(Body)
  <2>1. t \in Seq(Body)
    BY DEF RunningInv, RequestShaped
  <2> QED
    BY <1>3, <2>1, PartsOf
<1>10. \A g : Quieted(g) => Tail(ToDo) \in Seq(Harmless(g))
  BY <1>5, PartsOf DEF Quieted
<1>11. CASE ~(changed /\ Process \notin ToSet(r))
  <2>1. stack' = [stack EXCEPT !["tick"] = r]
    BY <1>1, <1>11
  <2>2. stack'["tick"] = r /\ stack'["server"] = stack["server"] /\ ToDo' = Tail(ToDo)
        /\ stack' \in [Threads -> Seq(Frames)]
    BY <1>2, <1>4, <2>1 DEF StackTyped, Threads, ToDo
  <2>3. StackTyped'
    <3>1. /\ Len(t) \in Nat \ {0} /\ Len(r) = Len(t) - 1
          /\ \A i \in 1 .. Len(r) : r[i] = t[i + 1]
      <4> HIDE DEF t
      <4> QED
        BY <1>3, StackParts
    <3>2. \A i \in 1 .. Len(r) : r[i].op = "rearm" <=> i = Len(r)
      <4> SUFFICES ASSUME NEW i \in 1 .. Len(r) PROVE r[i].op = "rearm" <=> i = Len(r)
        OBVIOUS
      <4> HIDE DEF r, t
      <4>1. i + 1 \in 1 .. Len(t) /\ (i + 1 = Len(t) <=> i = Len(r)) /\ r[i] = t[i + 1]
        BY <3>1
      <4> QED
        BY <1>7, <4>1
    <3> QED
      BY <1>2, <2>2, <3>2 DEF StackTyped
  <2>4. RequestShaped'
    <3>1. \A g \in Mortal \cap elems : Quieted(g) => Quieted(g)'
      BY <1>1, <1>10, <2>2 DEF Quieted, Harmless
    <3> QED
      BY <1>1, <1>9, <2>2, <3>1, ShapeOfTick DEF RunningInv
  <2>5. Grown(Tail(ToDo), ToDo') /\ ToDo' \in Seq(Light) /\ ToDo' \in Seq(Countable)
    BY <1>5, <2>2 DEF Grown
  <2>6. Covered'
    <3>1. \A g \in Mortal : Followed(ToDo', Noisy(g), Settling(g))
      BY <1>6, <2>2
    <3> QED
      BY <3>1 DEF Covered, Noisy, Settling
  <2>7. \A g \in Mortal \cap elems :
          \/ Head(ToDo) \notin Settling(g) \/ state[g] = pending[g] \/ Has(ToDo', Settling(g))
    <3> SUFFICES ASSUME NEW g \in Mortal \cap elems, Head(ToDo) \in Settling(g),
                        state[g] # pending[g]
                 PROVE  Has(ToDo', Settling(g))
      OBVIOUS
    <3>1. g = f
      BY <1>1, <1>5 DEF Settling
    <3>2. Process \in ToSet(r)
      BY <1>11, <3>1
    <3>3. PICK i \in 1 .. Len(r) : r[i] = Process
      <4> HIDE DEF r
      <4>1. DOMAIN r = 1 .. Len(r)
        BY <1>4
      <4> QED
        BY <3>2, <4>1 DEF ToSet
    <3>4. Process \in Settling(g)
      <4>1. Process \in Frames
        BY SimpleFrames, CallsAreFrames DEF Simple
      <4> QED
        BY <4>1 DEF Settling, Process
    <3> DEFINE B == Settling(g)
    <3>5. Has(r, B)
      BY <3>3, <3>4 DEF Has
    <3> HIDE DEF B, r
    <3>6. Has(r \o stack["server"], B)
      BY <1>4, <3>5, JoinHas
    <3> QED
      BY <1>4, <2>2, <3>6 DEF B
  <2> QED
    BY <1>1, <1>5, <1>8, <2>3, <2>4, <2>5, <2>6, <2>7, PlainStep
<1>12. CASE changed /\ Process \notin ToSet(r)
  <2> DEFINE w == Front(r)
             v == <<Rearm>> \o stack["server"]
             m == <<Process>>
  <2>1. stack' = [stack EXCEPT !["tick"] = w \o <<Process, Rearm>>]
    BY <1>1, <1>12
  <2>2. Process \in Silent /\ Rearm \in Frames /\ Rearm.op = "rearm" /\ Process.op = "process"
        /\ Rearm \in Body
    <3>1. Process \in Frames /\ Rearm \in Frames
      BY SimpleFrames, CallsAreFrames DEF Simple, Calls, Plain, Rearm, Frames
    <3> QED
      BY <3>1 DEF Silent, Process, Rearm, Body
  <2>3. /\ Len(r) \in Nat \ {0} /\ r[Len(r)] = Rearm
        /\ \A i \in 1 .. Len(r) - 1 : r[i].op # "rearm"
    <3>1. /\ Len(t) \in Nat \ {0} /\ Len(r) = Len(t) - 1
          /\ \A i \in 1 .. Len(r) : r[i] = t[i + 1]
      <4> HIDE DEF t
      <4> QED
        BY <1>3, StackParts
    <3>2. Len(t) # 1
      BY <1>1, <1>3, <1>7
    <3> HIDE DEF r, t
    <3>3. Len(r) \in Nat \ {0} /\ Len(r) + 1 = Len(t) /\ Len(r) \in 1 .. Len(r)
      BY <3>1, <3>2
    <3>4. r[Len(r)].op = "rearm" /\ r[Len(r)] \in Frames
      BY <1>4, <1>7, <3>1, <3>3, SMTT(30)
    <3>5. r[Len(r)] = Rearm
      <4>1. \A x \in Frames : x.op = "rearm" => x = Rearm
        BY DEF Frames, Calls, Changes, Checks, Stores, FlowFrames, FlowOps, Plain, Searches,
               Gathers, Results, Enablings, Reads, Installs, Rearm
      <4> QED
        BY <3>4, <4>1
    <3>6. \A i \in 1 .. Len(r) - 1 : r[i].op # "rearm"
      BY <1>7, <3>1, <3>3
    <3> QED
      BY <3>3, <3>5, <3>6
  <2> HIDE DEF r
  <2>4. /\ w \in Seq(Frames) /\ w \in Seq(Body) /\ Len(w) = Len(r) - 1
        /\ \A i \in 1 .. Len(w) : w[i] = r[i]
    BY <1>4, <1>9, <2>3, FrontIs
  <2>5. r = w \o <<Rearm>>
    <3> DEFINE o == <<Rearm>>
    <3>1. o \in Seq(Frames) /\ Len(o) = 1 /\ o[1] = Rearm
      BY <2>2, OneFrame
    <3> HIDE DEF w, o
    <3>2. /\ w \o o \in Seq(Frames) /\ Len(w \o o) = Len(w) + Len(o) /\ Len(w) \in Nat
          /\ \A k \in 1 .. Len(w) : (w \o o)[k] = w[k]
          /\ \A k \in 1 .. Len(o) : (w \o o)[Len(w) + k] = o[k]
      <4>1. w \in Seq(Frames) /\ o \in Seq(Frames)
        BY <2>4, <3>1
      <4> QED
        BY ONLY <4>1, SequenceJoin
    <3>3. (w \o o)[Len(w) + 1] = Rearm
      BY <3>1, <3>2
    <3>4. \A i \in 1 .. Len(r) : r[i] = (w \o o)[i]
      <4> SUFFICES ASSUME NEW i \in 1 .. Len(r) PROVE r[i] = (w \o o)[i]
        OBVIOUS
      <4>1. CASE i \in 1 .. Len(w)
        <5>1. w[i] = r[i] /\ (w \o o)[i] = w[i]
          BY <2>4, <3>2, <4>1
        <5> QED
          BY <5>1
      <4>2. CASE i = Len(r)
        <5>1. Len(w) + 1 = Len(r)
          BY <2>3, <2>4
        <5> QED
          BY <2>3, <3>3, <4>2, <5>1
      <4>3. i \in 1 .. Len(w) \/ i = Len(r)
        <5>1. Len(w) = Len(r) - 1 /\ Len(r) \in Nat
          BY <2>3, <2>4
        <5> HIDE DEF w
        <5> QED
          BY <5>1
      <4> QED
        BY <4>1, <4>2, <4>3
    <3>5. Len(r) = Len(w \o o)
      BY <2>3, <2>4, <3>1, <3>2
    <3>6. r = w \o o
      BY <1>4, <3>2, <3>4, <3>5, SequencesEqual
    <3> QED
      BY <3>6 DEF o
  <2>6. v \in Seq(Frames) /\ m \in Seq(Frames) /\ <<Rearm>> \in Seq(Frames)
        /\ <<Process, Rearm>> \in Seq(Frames) /\ <<Process, Rearm>> \in Seq(Body)
        /\ <<Process, Rearm>> = m \o <<Rearm>>
    <3>1. Process \in Frames /\ Process \in Body
      BY <2>2, SilentFrames
    <3>2. <<Rearm>> \in Seq(Frames) /\ m \in Seq(Frames)
      BY <2>2, <3>1, OneFrame
    <3>3. v \in Seq(Frames)
      BY <1>4, <3>2, SequenceJoin
    <3>4. <<Process, Rearm>> = m \o <<Rearm>>
      OBVIOUS
    <3> QED
      BY <2>2, <3>1, <3>2, <3>3, <3>4, TwoFrames
  <2>7. Tail(ToDo) = w \o v
    <3> DEFINE o == <<Rearm>>
               s == stack["server"]
    <3>1. Tail(ToDo) = (w \o o) \o s /\ o \in Seq(Frames) /\ s \in Seq(Frames) /\ w \in Seq(Frames)
      BY <1>4, <2>4, <2>5, <2>6
    <3> HIDE DEF o, s, w
    <3>2. (w \o o) \o s = w \o (o \o s)
      BY ONLY <3>1, JoinAssociates, SMTT(30)
    <3> QED
      BY <3>1, <3>2 DEF o, s
  <2>8. ToDo' = w \o (m \o v)
    <3> DEFINE o == <<Rearm>>
               s == stack["server"]
    <3>1. stack'["tick"] = w \o (m \o o) /\ stack'["server"] = s
      BY <1>2, <2>1, <2>6 DEF StackTyped, Threads
    <3>2. /\ ToDo' = (w \o (m \o o)) \o s
          /\ o \in Seq(Frames) /\ s \in Seq(Frames) /\ w \in Seq(Frames) /\ m \in Seq(Frames)
      BY <1>4, <2>4, <2>6, <3>1 DEF ToDo
    <3> HIDE DEF o, s, w, m
    <3>3. m \o o \in Seq(Frames) /\ (m \o o) \o s = m \o (o \o s)
      BY ONLY <3>2, SequenceJoin, JoinAssociates, SMTT(30)
    <3>4. (w \o (m \o o)) \o s = w \o ((m \o o) \o s)
      <4> DEFINE y == m \o o
      <4>1. y \in Seq(Frames) /\ w \in Seq(Frames) /\ s \in Seq(Frames)
        BY <3>2, <3>3
      <4> HIDE DEF y
      <4>2. (w \o y) \o s = w \o (y \o s)
        BY ONLY <4>1, JoinAssociates
      <4> QED
        BY <4>2 DEF y
    <3> QED
      BY <3>2, <3>3, <3>4 DEF o, s
  <2>9. /\ stack'["tick"] = w \o <<Process, Rearm>> /\ stack'["server"] = stack["server"]
        /\ stack'["tick"] \in Seq(Body) /\ stack' \in [Threads -> Seq(Frames)]
    <3> DEFINE z == <<Process, Rearm>>
    <3>1. z \in Seq(Frames) /\ z \in Seq(Body) /\ w \in Seq(Frames) /\ w \in Seq(Body)
          /\ stack' = [stack EXCEPT !["tick"] = w \o z]
      BY <2>1, <2>4, <2>6
    <3> HIDE DEF z, w
    <3>2. w \o z \in Seq(Frames) /\ w \o z \in Seq(Body)
      BY <3>1, SequenceJoin
    <3>3. stack'["tick"] = w \o z /\ stack'["server"] = stack["server"]
          /\ stack' \in [Threads -> Seq(Frames)]
      BY <1>2, <3>1, <3>2 DEF StackTyped, Threads
    <3> QED
      BY <3>2, <3>3 DEF z
  <2>10. StackTyped'
    <3> DEFINE z == <<Process, Rearm>>
    <3>1. z \in Seq(Frames) /\ Len(z) = 2 /\ z[1] = Process /\ z[2] = Rearm
          /\ stack'["tick"] = w \o z /\ w \in Seq(Frames)
      BY <2>4, <2>6, <2>9
    <3>2. \A i \in 1 .. Len(w) : w[i].op # "rearm"
      BY <2>3, <2>4
    <3> HIDE DEF z, w
    <3>3. /\ Len(w \o z) = Len(w) + Len(z) /\ Len(w) \in Nat
          /\ \A k \in 1 .. Len(w) : (w \o z)[k] = w[k]
          /\ \A k \in 1 .. Len(z) : (w \o z)[Len(w) + k] = z[k]
      BY <3>1, SequenceJoin, SMTT(30)
    <3>4. (w \o z)[Len(w) + 1] = Process /\ (w \o z)[Len(w) + 2] = Rearm
      BY <3>1, <3>3
    <3>5. \A i \in 1 .. Len(w \o z) : (w \o z)[i].op = "rearm" <=> i = Len(w \o z)
      <4> SUFFICES ASSUME NEW i \in 1 .. Len(w \o z)
                   PROVE  (w \o z)[i].op = "rearm" <=> i = Len(w \o z)
        OBVIOUS
      <4>1. i \in 1 .. Len(w) \/ i = Len(w) + 1 \/ i = Len(w) + 2
        BY <3>1, <3>3
      <4>2. CASE i \in 1 .. Len(w)
        <5>1. i # Len(w \o z) /\ (w \o z)[i].op # "rearm"
          BY <3>1, <3>2, <3>3, <4>2
        <5> QED
          BY <5>1
      <4>3. CASE i = Len(w) + 1
        BY <2>2, <3>1, <3>3, <3>4, <4>3
      <4>4. CASE i = Len(w) + 2
        BY <2>2, <3>1, <3>3, <3>4, <4>4
      <4> QED
        BY <4>1, <4>2, <4>3, <4>4
    <3> QED
      BY <1>2, <2>9, <3>1, <3>5 DEF StackTyped
  <2> HIDE DEF w, v
  <2>11. ASSUME NEW T, Process \in T, Tail(ToDo) \in Seq(T) PROVE ToDo' \in Seq(T)
    <3>1. w \in Seq(T) /\ v \in Seq(T)
      BY <2>4, <2>6, <2>7, <2>11, JoinSplit
    <3>2. m \in Seq(T)
      BY <2>11, OneFrame
    <3> HIDE DEF m
    <3>3. m \o v \in Seq(T)
      BY <3>1, <3>2, SequenceJoin
    <3>4. w \o (m \o v) \in Seq(T)
      BY <3>1, <3>3, SequenceJoin
    <3> QED
      BY <2>8, <3>4
  <2>12. ToDo' \in Seq(Light) /\ ToDo' \in Seq(Countable)
    BY <1>5, <2>2, <2>11, SilentFrames
  <2>13. RequestShaped'
    <3>1. \A g \in Mortal \cap elems : Quieted(g) => Quieted(g)'
      <4> SUFFICES ASSUME NEW g \in Mortal \cap elems, Quieted(g) PROVE Quieted(g)'
        OBVIOUS
      <4>1. ToDo' \in Seq(Harmless(g))
        BY <1>10, <2>2, <2>11, SilentFrames
      <4> QED
        BY <1>1, <4>1 DEF Quieted, Harmless
    <3> QED
      BY <1>1, <2>9, <3>1, ShapeOfTick DEF RunningInv
  <2>14. Grown(Tail(ToDo), ToDo')
    <3> HIDE DEF m
    <3> QED
      BY <2>4, <2>6, <2>7, <2>8, InsertGrows
  <2>15. \A g : Has(m \o v, Settling(g)) /\ Has(ToDo', Settling(g))
    <3> SUFFICES ASSUME NEW g PROVE Has(m \o v, Settling(g)) /\ Has(ToDo', Settling(g))
      OBVIOUS
    <3> DEFINE B == Settling(g)
    <3>1. Process \in B
      BY <2>2 DEF Silent, Settling
    <3> HIDE DEF B
    <3>2. Has(m, B)
      BY <2>2, <3>1, OnlyOne
    <3> HIDE DEF m
    <3>3. Has(m \o v, B) /\ m \o v \in Seq(Frames)
      BY <2>6, <3>2, JoinHas, SequenceJoin
    <3> DEFINE x == m \o v
    <3>4. Has(x, B) /\ x \in Seq(Frames)
      BY <3>3
    <3> HIDE DEF x
    <3>5. Has(w \o x, B)
      BY <2>4, <3>4, JoinHas
    <3> QED
      BY <2>8, <3>3, <3>5 DEF x, B
  <2>16. Covered'
    <3>1. ASSUME NEW g \in Mortal PROVE Followed(ToDo', Noisy(g), Settling(g))
      <4> DEFINE A == Noisy(g)
                 B == Settling(g)
      <4>1. Followed(w \o v, A, B) /\ Has(m \o v, B)
        BY <1>6, <2>7, <2>15, <3>1
      <4>2. Process \notin A /\ Process \in Frames
        BY <2>2 DEF Noisy, Silent
      <4> HIDE DEF A, B
      <4>3. Followed(v, A, B)
        BY <2>4, <2>6, <4>1, JoinFollowed
      <4>4. Followed(m, A, B)
        BY <4>2, OnlyOne
      <4> HIDE DEF m
      <4>5. Followed(m \o v, A, B) /\ m \o v \in Seq(Frames)
        BY <2>6, <4>3, <4>4, JoinFollowed, SequenceJoin
      <4> DEFINE x == m \o v
      <4>6. Followed(x, A, B) /\ Has(x, B) /\ x \in Seq(Frames)
        BY <4>1, <4>5
      <4> HIDE DEF x
      <4>7. Followed(w \o x, A, B)
        BY <2>4, <4>6, JoinFollowed
      <4> QED
        BY <2>8, <4>7 DEF x, A, B
    <3> QED
      BY <3>1 DEF Covered, Noisy, Settling
  <2> QED
    BY <1>1, <1>5, <1>8, <2>10, <2>12, <2>13, <2>14, <2>15, <2>16, PlainStep
<1> QED
  BY <1>11, <1>12

\* The interrupt comes: it reads inputs, and then it ends.
LEMMA TickRuns ==
  ASSUME ~Intrusion, auFlow # <<>>, RunningInv, Tick
  PROVE  RunningInv'
<1>1. /\ stack["tick"] = <<>> /\ UNCHANGED <<links, elems, el, flag, state, pending, auFlow>>
      /\ stack["server"] # <<>> => Head(stack["server"]).op \notin Passes \cup {"store"}
  BY DEF Tick, elements, Intrusion
<1>2. StackTyped /\ auFlow \in Compilations
  BY DEF RunningInv, RunsTyped
<1>3. stack["server"] \in Seq(Frames) /\ ToDo = stack["server"] /\ ToDo \in Seq(Frames)
  <2>1. stack["server"] \in Seq(Frames)
    BY <1>2 DEF StackTyped, Threads
  <2> QED
    BY <1>1, <2>1, JoinHead DEF ToDo
<1>4. ToDo \in Seq(Light)
  <2>1. CASE ToDo = <<>>
    <3>1. <<>> \in Seq(Light)
      OBVIOUS
    <3> QED
      BY <2>1, <3>1
  <2>2. CASE ToDo # <<>>
    <3>1. Head(ToDo) \in Frames /\ Head(ToDo).op \notin Passes \cup {"store"}
      BY <1>1, <1>3, <2>2, PartsOf
    <3>2. Head(ToDo) \in Light
      BY <3>1 DEF Light
    <3>3. Tail(ToDo) \in Seq(Light)
      BY <2>2 DEF RunningInv, HeadOnly
    <3>4. <<Head(ToDo)>> \in Seq(Light) /\ ToDo = <<Head(ToDo)>> \o Tail(ToDo)
      BY <1>3, <2>2, <3>2, OneFrame, PartsOf
    <3> DEFINE x == <<Head(ToDo)>>
               u == Tail(ToDo)
    <3>5. x \in Seq(Light) /\ u \in Seq(Light) /\ ToDo = x \o u
      BY <3>3, <3>4
    <3> HIDE DEF x, u
    <3> QED
      BY <3>5, SequenceJoin
  <2> QED
    BY <2>1, <2>2
<1>5. Doing \notin {"update", "setup", "swap"}
  BY <1>1, <1>3 DEF Doing, Passes
<1>6. ToDo \in Seq(Countable) /\ Covered
  BY DEF RunningInv, Counted
<1>7. \A g : Quieted(g) => ToDo \in Seq(Harmless(g))
  BY DEF Quieted
<1>9. CASE auFlow # <<>>
  <2>1. PICK q \in Seq(Reads) : stack' = [stack EXCEPT !["tick"] = q \o <<Rearm>>]
    <3>1. PICK ends \in SUBSET ToSet(InputFlows), dry \in SUBSET Clients :
            stack' = [stack EXCEPT !["tick"] =
                        FlattenSeq([i \in 1 .. Len(InputFlows) |->
                           LET f == InputFlows[i]
                           IN If(f \in ends, <<Read(f, "Stop", "EOF")>>)
                              \o If(f \in dry, <<Read(f, "Pause", "Underrun")>>)]) \o <<Rearm>>]
      BY <1>9 DEF Tick
    <3> DEFINE reads == FlattenSeq([i \in 1 .. Len(InputFlows) |->
                           LET f == InputFlows[i]
                           IN If(f \in ends, <<Read(f, "Stop", "EOF")>>)
                              \o If(f \in dry, <<Read(f, "Pause", "Underrun")>>)])
    <3>2. reads \in Seq(Reads)
      BY <1>2, TickFrames
    <3>3. stack' = [stack EXCEPT !["tick"] = reads \o <<Rearm>>]
      BY <3>1
    <3> HIDE DEF reads
    <3> QED
      BY <3>2, <3>3
  <2> DEFINE o == <<Rearm>>
             z == q \o o
             N == {x \in Frames : x.op \in {"read", "rearm"}}
  <2>2. /\ Rearm \in N /\ Rearm.op = "rearm" /\ Reads \subseteq N /\ \A x \in Reads : x.op = "read"
    BY DEF Frames, Calls, Reads, Plain, Rearm
  <2>3. /\ N \subseteq Frames /\ N \subseteq Light /\ N \subseteq Countable /\ N \subseteq Body
        /\ \A g : N \subseteq Harmless(g) /\ N \cap Noisy(g) = {}
    BY DEF Light, Countable, Body, Harmless, Noisy, Passes
  <2>4. o \in Seq(N) /\ Len(o) = 1 /\ o[1] = Rearm /\ q \in Seq(N)
    <3>1. Rearm \in N /\ Reads \subseteq N
      BY <2>2
    <3> HIDE DEF N
    <3> QED
      BY <3>1, OneFrame
  <2> HIDE DEF N, o
  <2>5. /\ z \in Seq(N) /\ Len(z) = Len(q) + 1 /\ Len(q) \in Nat
        /\ \A i \in 1 .. Len(q) : z[i] = q[i]
        /\ z[Len(q) + 1] = Rearm
    <3>1. q \in Seq(N) /\ o \in Seq(N)
      BY <2>4
    <3>2. /\ q \o o \in Seq(N) /\ Len(q \o o) = Len(q) + Len(o) /\ Len(q) \in Nat
          /\ \A k \in 1 .. Len(q) : (q \o o)[k] = q[k]
          /\ \A k \in 1 .. Len(o) : (q \o o)[Len(q) + k] = o[k]
      BY ONLY <3>1, SequenceJoin
    <3>3. 1 \in 1 .. Len(o)
      BY <2>4
    <3> QED
      BY <2>4, <3>2, <3>3
  <2> HIDE DEF z
  <2>6. z \in Seq(Frames) /\ z \in Seq(Light) /\ z \in Seq(Countable) /\ z \in Seq(Body)
    BY <2>3, <2>5
  <2>7. \A i \in 1 .. Len(z) : z[i].op = "rearm" <=> i = Len(z)
    <3> SUFFICES ASSUME NEW i \in 1 .. Len(z) PROVE z[i].op = "rearm" <=> i = Len(z)
      OBVIOUS
    <3>1. CASE i \in 1 .. Len(q)
      <4>1. q[i] \in Reads
        BY <3>1, SeqElements
      <4>2. z[i] \in Reads /\ i # Len(z)
        BY <2>5, <3>1, <4>1
      <4> QED
        BY <2>2, <4>2
    <3>2. CASE i = Len(q) + 1
      BY <2>2, <2>5, <3>2
    <3> QED
      BY <2>5, <3>1, <3>2
  <2>8. /\ stack'["tick"] = z /\ stack'["server"] = stack["server"]
        /\ stack' \in [Threads -> Seq(Frames)]
    <3>1. stack' = [stack EXCEPT !["tick"] = z]
      BY <2>1 DEF z, o
    <3> QED
      BY <1>2, <2>6, <3>1 DEF StackTyped, Threads
  <2>9. StackTyped'
    BY <1>2, <2>7, <2>8 DEF StackTyped
  <2>10. ToDo' = z \o ToDo
    BY <1>3, <2>8 DEF ToDo
  <2>11. ToDo' \in Seq(Light) /\ ToDo' \in Seq(Countable)
    BY <1>4, <1>6, <2>6, <2>10, SequenceJoin
  <2>12. RequestShaped'
    <3>1. ASSUME NEW g \in Mortal \cap elems, Quieted(g) PROVE Quieted(g)'
      <4> DEFINE H == Harmless(g)
      <4>1. z \in Seq(H) /\ ToDo \in Seq(H)
        BY <1>7, <2>3, <2>5, <3>1
      <4> HIDE DEF H
      <4>2. ToDo' \in Seq(H)
        BY <2>10, <4>1, SequenceJoin
      <4>3. \A e \in Ends : el'[g][e] = "Stop"
        BY <1>1, <3>1 DEF Quieted
      <4> QED
        BY <4>2, <4>3 DEF H, Quieted, Harmless
    <3> QED
      BY <1>1, <2>6, <2>8, <3>1, ShapeOfTick DEF RunningInv
  <2>13. Covered'
    <3>1. ASSUME NEW g \in Mortal PROVE Followed(ToDo', Noisy(g), Settling(g))
      <4> DEFINE A == Noisy(g)
                 B == Settling(g)
      <4>1. Followed(ToDo, A, B) /\ N \cap A = {}
        BY <1>6, <2>3, <3>1 DEF Covered
      <4> HIDE DEF A, B
      <4>2. Followed(z, A, B)
        BY <2>5, <4>1, NoneFollowed
      <4>3. Followed(z \o ToDo, A, B)
        BY <1>3, <2>6, <4>1, <4>2, JoinFollowed
      <4> QED
        BY <2>10, <4>3 DEF A, B
    <3> QED
      BY <3>1 DEF Covered, Noisy, Settling
  <2>14. Rest(ToDo) /\ Grown(ToDo, ToDo')
    BY <1>3, <2>6, <2>10, JoinGrows DEF Rest
  <2> QED
    BY <1>1, <1>5, <2>9, <2>11, <2>12, <2>13, <2>14, PlainStep
<1> QED
  BY <1>9

-----------------------------------------------------------------------------
(* The passes over the flows, and the replacement of the compiled flow.      *)
Passing == {x \in Frames : x.op \in Passes \cup {"process", "enable"}}

LEMMA PassingFrames ==
  /\ Passing \subseteq Frames /\ Passing \subseteq Countable /\ Passing \subseteq Body
  /\ \A f : Passing \subseteq Harmless(f) /\ Passing \cap Noisy(f) = {}
  /\ \A f, e : Passing \cap ChecksOf(f, e) = {} /\ Passing \cap CountsOf(f) = {}
BY FrameSets DEF Passing, Countable, Body, Harmless, Noisy, Passes, CountsOf

LEMMA PassTop ==
  ASSUME RunningInv, stack[Running] # <<>>, NEW x \in Frames, Continue(<<x>>)
  PROVE  /\ ToDo # <<>> /\ Head(ToDo) = Top /\ Doing = Top.op /\ Top \in Frames
         /\ ToDo' = <<x>> \o Tail(ToDo) /\ ToDo' # <<>> /\ Head(ToDo') = x /\ Doing' = x.op
         /\ Tail(ToDo') = Tail(ToDo) /\ Tail(ToDo) \in Seq(Frames)
<1> DEFINE q == <<x>>
           u == Tail(ToDo)
<1>1. q \in Seq(Frames) /\ q # <<>> /\ Head(q) = x /\ Tail(q) = <<>> /\ Continue(q)
  BY OneFrame
<1> HIDE DEF q
<1>2. /\ ToDo # <<>> /\ Head(ToDo) = Top /\ Doing = Top.op /\ Top \in Frames
      /\ ToDo' = q \o u /\ u \in Seq(Frames)
  BY <1>1, Advances
<1> HIDE DEF u
<1>3. q \o u # <<>> /\ Head(q \o u) = x /\ Tail(q \o u) = u
  <2>1. q \in Seq(Frames) /\ u \in Seq(Frames) /\ q # <<>> /\ Head(q) = x /\ Tail(q) = <<>>
    BY <1>1, <1>2
  <2>2. <<>> \o u = u
    BY <2>1, JoinEmpty
  <2>3. q \o u # <<>> /\ Head(q \o u) = Head(q) /\ Tail(q \o u) = Tail(q) \o u
    BY ONLY <2>1, JoinHead
  <2> QED
    BY <2>1, <2>2, <2>3
<1> QED
  BY <1>2, <1>3 DEF Doing, q, u

LEMMA PassStep ==
  ASSUME RunningInv, UNCHANGED <<links, elems, el, flag, pending>>, stack[Running] # <<>>,
         Top.op \in Passes \cup {"process"}, NEW x \in Passing, Continue(<<x>>),
         x.op # "process", state' \in [Flows -> States], auFlow' \in Compilations,
         ListOrdered', Compiled', RunningStarted',
         x.op \in {"find", "gather", "update"} \/ \A f \in elems : state'[f] = pending[f]
  PROVE  RunningInv'
<1> DEFINE q == <<x>>
           u == Tail(ToDo)
<1>1. x \in Frames /\ x \in Countable /\ x \in Body
  BY PassingFrames
<1>2. /\ ToDo # <<>> /\ Head(ToDo) = Top /\ Doing = Top.op /\ Top \in Frames
      /\ ToDo' = q \o u /\ ToDo' # <<>> /\ Head(ToDo') = x /\ Doing' = x.op
      /\ Tail(ToDo') = u /\ u \in Seq(Frames)
  BY <1>1, PassTop
<1>3. /\ q \in Seq(Frames) /\ q \in Seq(Countable) /\ q \in Seq(Body) /\ Len(q) = 1 /\ q[1] = x
      /\ \A f : q \in Seq(Harmless(f))
  BY <1>1, PassingFrames, OneFrame
<1>4. Fitting(q)
  BY <1>3 DEF Fitting, Passing, Passes
<1>5. \A f \in Mortal : Followed(q, Noisy(f), Settling(f))
  <2> SUFFICES ASSUME NEW f \in Mortal PROVE Followed(q, Noisy(f), Settling(f))
    OBVIOUS
  <2> DEFINE A == Noisy(f)
  <2>1. x \notin A
    BY PassingFrames
  <2> HIDE DEF A
  <2>2. Followed(<<x>>, A, Settling(f))
    BY <1>1, <2>1, OnlyOne
  <2> QED
    BY <2>2 DEF A
<1> HIDE DEF q
<1>6. Continue(q)
  BY DEF q
<1>7. StackTyped /\ ToDo \in Seq(Frames)
  BY ToDoParts DEF RunningInv, RunsTyped
<1>8. Rest(u) /\ Grown(u, ToDo') /\ u \in Seq(Light) /\ ToDo' \in Seq(Countable)
  BY <1>3, <1>6, Advances
<1>9. StackTyped'
  BY <1>4, <1>6, <1>7, StackKeeps DEF Passes
<1>10. RunsTyped'
  <2>1. LinksTyped'
    BY LinksTypedSame DEF RunningInv
  <2> QED
    BY <1>9, <2>1 DEF RunningInv, RunsTyped, StatesTyped
<1>11. HeadOnly'
  BY <1>2, <1>8 DEF HeadOnly, Light
<1>12. RequestShaped'
  <2>1. Top \in Body /\ \A f : Top # StopAll(f)
    BY <1>2 DEF Body, StopAll, Change, Passes
  <2>2. \A f \in Mortal \cap elems : Quieted(f) => Quieted(f)'
    BY <1>3, <1>6, AllQuieted
  <2> QED
    BY <1>3, <1>6, <1>7, <2>1, <2>2, ShapeContinues DEF RunningInv
<1>13. FlagsChecked'
  <2>1. \A f, e : Head(ToDo) \notin ChecksOf(f, e)
    BY <1>2, FrameSets DEF Passes
  <2> QED
    BY <1>7, <1>8, <2>1, FlagsStep DEF RunningInv, RunsTyped, StatesTyped
<1>14. Counted'
  <2>1. Doing \notin {"count", "store"} /\ Doing' # "store"
    BY <1>2 DEF Passes, Passing
  <2> QED
    BY <1>7, <1>8, <2>1, CountedStep DEF RunningInv
<1>15. Covered'
  BY <1>3, <1>5, <1>6, CoveredAdvances
<1>16. ToBeSettled'
  <2>1. CASE x.op \in {"find", "gather", "update"}
    <3> SUFFICES ASSUME NEW f PROVE Has(ToDo', Settling(f))
      BY DEF ToBeSettled, Settling
    <3> DEFINE B == Settling(f)
    <3>1. x \in B
      BY <1>1, <2>1 DEF Settling
    <3> HIDE DEF B, u
    <3>2. Has(q, B)
      BY <1>1, <3>1, OnlyOne DEF q
    <3> QED
      BY <1>2, <1>3, <3>2, JoinHas DEF B
  <2>2. CASE \A f \in elems : state'[f] = pending[f]
    BY <2>2 DEF ToBeSettled
  <2> QED
    BY <2>1, <2>2
<1> QED
  BY <1>10, <1>11, <1>12, <1>13, <1>14, <1>15, <1>16 DEF RunningInv

LEMMA WithinMore ==
  ASSUME NEW c, NEW S, NEW T, Within(c, S), S \subseteq T
  PROVE  Within(c, T)
BY DEF Within

LEMMA WithinNone ==
  ASSUME NEW S
  PROVE  Within(<<>>, S)
BY DEF Within

LEMMA WithinAppend ==
  ASSUME NEW c \in Compilations, NEW x \in [lead : Flows, groups : Seq(Flows)],
         NEW S, Within(c, S), {x.lead} \cup ToSet(x.groups) \subseteq S
  PROVE  Within(Append(c, x), S)
<1> DEFINE E == [lead : Flows, groups : Seq(Flows)]
           w == Append(c, x)
<1>1. c \in Seq(E) /\ x \in E
  BY DEF Compilations
<1> HIDE DEF E
<1>2. /\ Len(w) = Len(c) + 1 /\ Len(c) \in Nat
      /\ \A i \in 1 .. Len(c) : w[i] = c[i]
      /\ w[Len(c) + 1] = x
  BY <1>1
<1> HIDE DEF w
<1>3. ASSUME NEW i \in 1 .. Len(w) PROVE {w[i].lead} \cup ToSet(w[i].groups) \subseteq S
  <2>1. CASE i \in 1 .. Len(c)
    BY <1>2, <2>1 DEF Within
  <2>2. CASE i \notin 1 .. Len(c)
    <3>1. i = Len(c) + 1
      BY <1>2, <2>2
    <3> QED
      BY <1>2, <3>1
  <2> QED
    BY <2>1, <2>2
<1> QED
  BY <1>3 DEF Within, w

LEMMA AppendIn ==
  ASSUME NEW S, NEW s \in Seq(S), NEW x \in S, NEW T, ToSet(s) \subseteq T, x \in T
  PROVE  ToSet(Append(s, x)) \subseteq T /\ Append(s, x) \in Seq(S)
<1> DEFINE w == Append(s, x)
<1>1. /\ w \in Seq(S) /\ Len(w) = Len(s) + 1 /\ Len(s) \in Nat
      /\ \A i \in 1 .. Len(s) : w[i] = s[i]
      /\ w[Len(s) + 1] = x /\ DOMAIN s = 1 .. Len(s) /\ DOMAIN w = 1 .. Len(w)
  OBVIOUS
<1> HIDE DEF w
<1>2. ASSUME NEW i \in 1 .. Len(w) PROVE w[i] \in T
  <2>1. CASE i \in 1 .. Len(s)
    <3>1. s[i] \in ToSet(s)
      BY <1>1, <2>1 DEF ToSet
    <3> QED
      BY <1>1, <2>1, <3>1
  <2>2. CASE i \notin 1 .. Len(s)
    <3>1. i = Len(s) + 1
      BY <1>1, <2>2
    <3> QED
      BY <1>1, <3>1
  <2> QED
    BY <2>1, <2>2
<1> QED
  BY <1>1, <1>2 DEF ToSet, w

\* A pass in which no state changes and nothing is replaced yet.
LEMMA LookStep ==
  ASSUME RunningInv, UNCHANGED <<links, elems, el, flag, state, pending, auFlow>>,
         stack[Running] # <<>>, Top.op \in {"process", "find", "gather"},
         NEW x \in Passing, Continue(<<x>>), x.op \in {"find", "gather"},
         Within(x.compiled, Ready),
         x.op = "gather" => {x.flow} \cup ToSet(x.groups) \subseteq Ready
  PROVE  RunningInv'
<1>1. /\ Head(ToDo) = Top /\ Doing = Top.op /\ Head(ToDo') = x /\ Doing' = x.op
  BY PassTop, PassingFrames
<1>2. Ready' = Ready
  BY DEF Ready
<1>3. Compiled'
  BY <1>1, <1>2 DEF Compiled, Within
<1>4. ListOrdered'
  BY <1>1, ListSame DEF RunningInv
<1>5. RunningStarted'
  BY <1>1 DEF RunningInv, RunningStarted, Within
<1>6. state' \in [Flows -> States] /\ auFlow' \in Compilations
  BY DEF RunningInv, RunsTyped, StatesTyped
<1>7. Top.op \in Passes \cup {"process"} /\ x.op # "process"
  BY DEF Passes
<1> QED
  BY <1>3, <1>4, <1>5, <1>6, <1>7, PassStep

LEMMA ClearProcessedRuns ==
  ASSUME RunningInv, ClearProcessed
  PROVE  RunningInv'
<1> DEFINE x == Find(head, <<>>)
<1>1. /\ stack[Running] # <<>> /\ Top.op = "process" /\ Continue(<<x>>)
      /\ UNCHANGED <<links, elems, el, flag, state, pending, auFlow>>
  BY DEF ClearProcessed, At, elements
<1>2. x \in Passing /\ x.op = "find" /\ x.compiled = <<>>
  <2>1. head \in Pointers /\ <<>> \in Compilations
    BY DEF RunningInv, RunsTyped, LinksTyped, Compilations
  <2>2. x \in Frames
    BY <2>1, SimpleFrames, CallsAreFrames DEF Simple
  <2> QED
    BY <2>2 DEF Passing, Passes, Find
<1>3. Within(x.compiled, Ready)
  BY <1>2, WithinNone
<1> HIDE DEF x
<1> QED
  BY <1>1, <1>2, <1>3, LookStep

LEMMA FindOutputRuns ==
  ASSUME RunningInv, FindOutput
  PROVE  RunningInv'
<1> DEFINE f == Top.flow
           c == Top.compiled
<1>1. /\ stack[Running] # <<>> /\ Top.op = "find"
      /\ UNCHANGED <<links, elems, el, flag, state, pending, auFlow>>
  BY DEF FindOutput, At, elements
<1>2. Top \in Frames /\ Head(ToDo) = Top /\ Doing = "find"
  BY <1>1, ToDoParts DEF RunningInv, RunsTyped
<1>3. f \in Pointers /\ c \in Compilations
  BY <1>1, <1>2, FrameKinds DEF Searches
<1>4. Within(c, Ready)
  BY <1>2 DEF RunningInv, Compiled, Passes
<1>5. head \in Pointers /\ \A p \in Flows : next[p] \in Pointers
  BY DEF RunningInv, RunsTyped, LinksTyped
<1>6. CASE f = NoFlow
  <2> DEFINE x == Update(head, c)
  <2>1. Continue(<<x>>)
    BY <1>6 DEF FindOutput
  <2>2. x \in Passing /\ x.op = "update" /\ x.compiled = c /\ x.flow = head
    <3>1. x \in Frames
      BY <1>3, <1>5, SimpleFrames, CallsAreFrames DEF Simple
    <3> QED
      BY <3>1 DEF Passing, Passes, Update
  <2> HIDE DEF x
  <2>3. Head(ToDo') = x /\ Doing' = "update"
    BY <1>1, <2>1, <2>2, PassTop, PassingFrames
  <2>4. ListOrdered'
    <3>1. PICK r \in Ranks : Listed(r) /\ Updated(r)
      BY DEF RunningInv, ListOrdered
    <3>2. Listed(r)'
      BY <1>1, <3>1 DEF Listed, links
    <3>3. IF head = NoFlow THEN elems = {} ELSE head \in elems /\ \A g \in elems : r[head] <= r[g]
      BY <3>1 DEF Listed
    <3>4. elems \subseteq Flows
      BY DEF RunningInv, RunsTyped, LinksTyped
    <3>5. \A g \in elems : head = NoFlow \/ ~(r[g] < r[head])
      BY <3>3, <3>4 DEF Ranks
    <3>6. Updated(r)'
      <4>1. Head(ToDo').flow = head /\ elems' = elems /\ state' = state /\ pending' = pending
        BY <1>1, <2>2, <2>3
      <4> QED
        BY <3>3, <3>5, <4>1 DEF Updated
    <3> QED
      BY <3>2, <3>6 DEF ListOrdered, Ranks
  <2>5. Compiled'
    <3>1. Ready' = Ready
      BY <1>1 DEF Ready
    <3> QED
      BY <1>4, <2>2, <2>3, <3>1 DEF Compiled, Within
  <2>6. RunningStarted'
    BY <1>1, <2>3 DEF RunningInv, RunningStarted, Within
  <2>7. state' \in [Flows -> States] /\ auFlow' \in Compilations
    BY <1>1 DEF RunningInv, RunsTyped, StatesTyped
  <2>8. Top.op \in Passes \cup {"process"} /\ x.op # "process"
    BY <1>1, <2>2 DEF Passes
  <2> QED
    BY <1>1, <2>1, <2>2, <2>4, <2>5, <2>6, <2>7, <2>8, PassStep
<1>7. CASE f # NoFlow
  <2>1. f \in Flows
    BY <1>3, <1>7 DEF Pointers
  <2> DEFINE x == Find(next[f], c)
             y == Gather(f, head, <<>>, c)
  <2>2. Continue(<<x>>) \/ (Continue(<<y>>) /\ f \in elems /\ pending[f] = "Start")
    BY <1>7 DEF FindOutput
  <2>3. x \in Passing /\ x.op = "find" /\ x.compiled = c
    <3>1. x \in Frames
      BY <1>3, <1>5, <2>1, SimpleFrames, CallsAreFrames DEF Simple
    <3> QED
      BY <3>1 DEF Passing, Passes, Find
  <2>4. /\ y \in Passing /\ y.op = "gather" /\ y.compiled = c /\ y.flow = f /\ y.groups = <<>>
    <3>0. <<>> \in Seq(Flows)
      OBVIOUS
    <3>1. y \in Frames
      BY <1>3, <1>5, <2>1, <3>0, SimpleFrames, CallsAreFrames DEF Simple
    <3> QED
      BY <3>1 DEF Passing, Passes, Gather
  <2>5. ToSet(<<>>) = {}
    BY DEF ToSet
  <2>6. f \in elems /\ pending[f] = "Start" => {f} \cup ToSet(y.groups) \subseteq Ready
    BY <2>4, <2>5 DEF Ready
  <2>7. CASE Continue(<<x>>)
    <3> HIDE DEF x, f
    <3> QED
      BY <1>1, <1>4, <2>3, <2>7, LookStep
  <2>8. CASE Continue(<<y>>) /\ f \in elems /\ pending[f] = "Start"
    <3>1. {y.flow} \cup ToSet(y.groups) \subseteq Ready
      BY <2>4, <2>6, <2>8
    <3>2. Continue(<<y>>)
      BY <2>8
    <3> HIDE DEF y, f
    <3> QED
      BY <1>1, <1>4, <2>4, <3>1, <3>2, LookStep
  <2> QED
    BY <2>2, <2>7, <2>8
<1> QED
  BY <1>6, <1>7

LEMMA GatherInputsRuns ==
  ASSUME RunningInv, GatherInputs
  PROVE  RunningInv'
<1> DEFINE f == Top.flow
           g == Top.at
           gs == Top.groups
           c == Top.compiled
<1>1. /\ stack[Running] # <<>> /\ Top.op = "gather"
      /\ UNCHANGED <<links, elems, el, flag, state, pending, auFlow>>
  BY DEF GatherInputs, At, elements
<1>2. Top \in Frames /\ Head(ToDo) = Top /\ Doing = "gather"
  BY <1>1, ToDoParts DEF RunningInv, RunsTyped
<1>3. f \in Flows /\ g \in Pointers /\ gs \in Seq(Flows) /\ c \in Compilations
  BY <1>1, <1>2, FrameKinds DEF Gathers
<1>4. Within(c, Ready) /\ {f} \cup ToSet(gs) \subseteq Ready
  BY <1>2 DEF RunningInv, Compiled, Passes
<1>5. \A p \in Flows : next[p] \in Pointers
  BY DEF RunningInv, RunsTyped, LinksTyped
<1> DEFINE new == [lead |-> f, groups |-> gs]
           whole == Append(c, new)
           more == Append(gs, g)
<1>6. \/ Continue(<<Find(next[f], whole)>>)
      \/ /\ g # NoFlow /\ g \in elems /\ pending[g] = "Start"
         /\ Continue(<<Gather(f, next[g], more, c)>>)
      \/ g # NoFlow /\ Continue(<<Gather(f, next[g], gs, c)>>)
  BY DEF GatherInputs
<1>7. whole \in Compilations /\ Within(whole, Ready)
  <2>1. new \in [lead : Flows, groups : Seq(Flows)]
    BY <1>3
  <2>2. {new.lead} \cup ToSet(new.groups) \subseteq Ready
    BY <1>4
  <2> HIDE DEF new, f, gs, c
  <2>3. whole \in Compilations
    BY <1>3, <2>1 DEF Compilations
  <2> QED
    BY <1>3, <1>4, <2>1, <2>2, <2>3, WithinAppend
<1>8. g \in elems /\ pending[g] = "Start" =>
        more \in Seq(Flows) /\ {f} \cup ToSet(more) \subseteq Ready
  <2> SUFFICES ASSUME g \in elems, pending[g] = "Start"
               PROVE  more \in Seq(Flows) /\ {f} \cup ToSet(more) \subseteq Ready
    OBVIOUS
  <2>1. g \in Ready /\ g \in Flows
    BY DEF Ready, RunningInv, RunsTyped, LinksTyped
  <2> HIDE DEF f, gs, g
  <2> QED
    BY <1>3, <1>4, <2>1, AppendIn
<1>9. CASE Continue(<<Find(next[f], whole)>>)
  <2> DEFINE x == Find(next[f], whole)
  <2>1. x \in Passing /\ x.op = "find" /\ x.compiled = whole
    <3> HIDE DEF whole, f
    <3>1. x \in Frames
      BY <1>3, <1>5, <1>7, SimpleFrames, CallsAreFrames DEF Simple
    <3> QED
      BY <3>1 DEF Passing, Passes, Find
  <2>2. Continue(<<x>>)
    BY <1>9
  <2> HIDE DEF x, whole, f
  <2> QED
    BY <1>1, <1>7, <2>1, <2>2, LookStep
<1>10. ASSUME NEW hs, hs \in Seq(Flows), {f} \cup ToSet(hs) \subseteq Ready, g # NoFlow,
              Continue(<<Gather(f, next[g], hs, c)>>)
       PROVE  RunningInv'
  <2> DEFINE x == Gather(f, next[g], hs, c)
  <2>1. /\ x \in Passing /\ x.op = "gather" /\ x.compiled = c /\ x.flow = f /\ x.groups = hs
    <3> HIDE DEF c, f, g
    <3>1. x \in Frames
      BY <1>3, <1>5, <1>10, SimpleFrames, CallsAreFrames DEF Simple, Pointers
    <3> QED
      BY <3>1 DEF Passing, Passes, Gather
  <2>2. Continue(<<x>>)
    BY <1>10
  <2> HIDE DEF x, c, f
  <2> QED
    BY <1>1, <1>4, <1>10, <2>1, <2>2, LookStep
<1> HIDE DEF more, whole, f, g, gs, c
<1> QED
  BY <1>3, <1>4, <1>6, <1>8, <1>9, <1>10

LEMMA UpdateStateRuns ==
  ASSUME RunningInv, UpdateState
  PROVE  RunningInv'
<1> DEFINE f == Top.flow
           c == Top.compiled
<1>1. /\ stack[Running] # <<>> /\ Top.op = "update"
      /\ UNCHANGED <<links, elems, el, flag, pending, auFlow>>
  BY DEF UpdateState, At, elements
<1>2. Top \in Frames /\ Head(ToDo) = Top /\ Doing = "update"
  BY <1>1, ToDoParts DEF RunningInv, RunsTyped
<1>3. f \in Pointers /\ c \in Compilations
  BY <1>1, <1>2, FrameKinds DEF Searches
<1>4. Within(c, Ready) /\ Ready' = Ready
  BY <1>1, <1>2 DEF RunningInv, Compiled, Passes, Ready
<1>5. \A p \in Flows : next[p] \in Pointers
  BY DEF RunningInv, RunsTyped, LinksTyped
<1>6. elems \subseteq Flows /\ state \in [Flows -> States] /\ pending \in [Flows -> States]
      /\ auFlow \in Compilations
  BY DEF RunningInv, RunsTyped, LinksTyped, StatesTyped
<1>7. PICK r \in Ranks : Listed(r) /\ Updated(r)
  BY DEF RunningInv, ListOrdered
<1>8. (f = NoFlow \/ f \in elems) /\ \A p \in elems : f = NoFlow \/ r[p] < r[f] => state[p] = pending[p]
  BY <1>2, <1>7 DEF Updated
<1>9. Listed(r)'
  BY <1>1, <1>7 DEF Listed, links
<1>10. Top.op \in Passes \cup {"process"}
  BY <1>1 DEF Passes
<1>11. CASE f = NoFlow
  <2> DEFINE x == Setup(c)
  <2>1. Continue(<<x>>) /\ state' = state
    BY <1>11 DEF UpdateState
  <2>2. x \in Passing /\ x.op = "setup" /\ x.compiled = c
    <3>1. x \in Frames
      BY <1>3, SimpleFrames, CallsAreFrames DEF Simple
    <3> QED
      BY <3>1 DEF Passing, Passes, Setup
  <2> HIDE DEF x
  <2>3. Head(ToDo') = x /\ Doing' = "setup"
    BY <1>1, <2>1, <2>2, PassTop, PassingFrames
  <2>4. \A p \in elems : state'[p] = pending[p]
    BY <1>8, <1>11, <2>1
  <2>5. ListOrdered'
    BY <1>1, <2>3, ListSame DEF RunningInv
  <2>6. Compiled'
    BY <1>1, <1>4, <2>2, <2>3, <2>4 DEF Compiled, Within
  <2>7. RunningStarted'
    BY <1>1, <2>3 DEF RunningInv, RunningStarted, Within
  <2> QED
    BY <1>1, <1>6, <1>10, <2>1, <2>2, <2>4, <2>5, <2>6, <2>7, PassStep
<1>12. CASE f # NoFlow
  <2> DEFINE x == Update(next[f], c)
  <2>1. Continue(<<x>>) /\ state' = [state EXCEPT ![f] = pending[f]]
    BY <1>12 DEF UpdateState
  <2>2. f \in Flows /\ f \in elems
    BY <1>3, <1>8, <1>12 DEF Pointers
  <2>3. x \in Passing /\ x.op = "update" /\ x.compiled = c /\ x.flow = next[f]
    <3>1. x \in Frames
      BY <1>3, <1>5, <2>2, SimpleFrames, CallsAreFrames DEF Simple
    <3> QED
      BY <3>1 DEF Passing, Passes, Update
  <2> HIDE DEF x
  <2>4. Head(ToDo') = x /\ Doing' = "update"
    BY <1>1, <2>1, <2>3, PassTop, PassingFrames
  <2>5. \A p \in elems : r[p] < r[f] \/ p = f => state'[p] = pending[p]
    BY <1>6, <1>8, <1>12, <2>1, <2>2
  <2>6. ListOrdered'
    <3>1. \A p, q \in elems : r[p] = r[q] => p = q
      BY <1>7 DEF Listed
    <3>2. IF next[f] = NoFlow THEN \A p \in elems : r[p] <= r[f]
          ELSE next[f] \in elems /\ \A p \in elems : r[f] < r[p] => r[next[f]] <= r[p]
      BY <1>7, <2>2 DEF Listed
    <3>3. \A p \in elems : r[p] \in Int
      BY <1>6 DEF Ranks
    <3>4. next[f] = NoFlow \/ next[f] \in elems
      BY <3>2
    <3>5. \A p \in elems : next[f] = NoFlow \/ r[p] < r[next[f]] => r[p] < r[f] \/ p = f
      BY <2>2, <3>1, <3>2, <3>3
    <3>6. Head(ToDo').flow = next[f] /\ elems' = elems /\ pending' = pending
      BY <1>1, <2>3, <2>4
    <3>7. Updated(r)'
      BY <2>5, <3>4, <3>5, <3>6 DEF Updated
    <3> QED
      BY <1>9, <3>7 DEF ListOrdered, Ranks
  <2>7. Compiled'
    BY <1>4, <2>3, <2>4 DEF Compiled, Within
  <2>8. RunningStarted'
    BY <1>1, <2>4 DEF RunningInv, RunningStarted, Within
  <2>9. state' \in [Flows -> States] /\ auFlow' \in Compilations
    BY <1>1, <1>6, <2>1, <2>2
  <2>10. x.op # "process"
    BY <2>3
  <2> QED
    BY <1>1, <1>10, <2>1, <2>3, <2>6, <2>7, <2>8, <2>9, <2>10, PassStep
<1> QED
  BY <1>11, <1>12

LEMMA SetupCompiledFlowRuns ==
  ASSUME RunningInv, SetupCompiledFlow
  PROVE  RunningInv'
<1> DEFINE c == Top.compiled
           x == Swap(c)
<1>1. /\ stack[Running] # <<>> /\ Top.op = "setup" /\ Continue(<<x>>)
      /\ UNCHANGED <<links, elems, el, flag, state, pending, auFlow>>
  BY DEF SetupCompiledFlow, At, elements
<1>2. Top \in Frames /\ Head(ToDo) = Top /\ Doing = "setup"
  BY <1>1, ToDoParts DEF RunningInv, RunsTyped
<1>3. c \in Compilations
  BY <1>1, <1>2, FrameKinds DEF Results
<1>4. Within(c, Ready) /\ Ready' = Ready /\ \A f \in elems : state[f] = pending[f]
  BY <1>1, <1>2 DEF RunningInv, Compiled, Passes, Ready
<1>5. x \in Passing /\ x.op = "swap" /\ x.compiled = c
  BY <1>3 DEF Passing, Passes, Swap, Frames, Calls, Results
<1> HIDE DEF x, c
<1>6. Head(ToDo') = x /\ Doing' = "swap"
  BY <1>1, <1>5, PassTop, PassingFrames
<1>7. ListOrdered'
  BY <1>1, <1>6, ListSame DEF RunningInv
<1>8. Compiled'
  BY <1>1, <1>4, <1>5, <1>6 DEF Compiled, Within
<1>9. RunningStarted'
  BY <1>1, <1>6 DEF RunningInv, RunningStarted, Within
<1>10. state' \in [Flows -> States] /\ auFlow' \in Compilations
  BY <1>1 DEF RunningInv, RunsTyped, StatesTyped
<1>11. /\ Top.op \in Passes \cup {"process"} /\ x.op # "process"
       /\ \A f \in elems : state'[f] = pending[f]
  BY <1>1, <1>4, <1>5 DEF Passes
<1> QED
  BY <1>1, <1>5, <1>7, <1>8, <1>9, <1>10, <1>11, PassStep

LEMMA SwapFlowRuns ==
  ASSUME RunningInv, SwapFlow
  PROVE  RunningInv'
<1> DEFINE c == Top.compiled
           x == Enable(c # <<>>)
<1>1. /\ stack[Running] # <<>> /\ Top.op = "swap" /\ Continue(<<x>>) /\ auFlow' = c
      /\ UNCHANGED <<links, elems, el, flag, state, pending>>
  BY DEF SwapFlow, At, elements
<1>2. Top \in Frames /\ Head(ToDo) = Top /\ Doing = "swap"
  BY <1>1, ToDoParts DEF RunningInv, RunsTyped
<1>3. c \in Compilations
  BY <1>1, <1>2, FrameKinds DEF Results
<1>4. Within(c, Ready) /\ \A f \in elems : state[f] = pending[f]
  BY <1>1, <1>2 DEF RunningInv, Compiled, Passes
<1>5. x \in Passing /\ x.op = "enable"
  BY DEF Passing, Passes, Enable, Frames, Enablings
<1> HIDE DEF x, c
<1>6. Head(ToDo') = x /\ Doing' = "enable"
  BY <1>1, <1>5, PassTop, PassingFrames
<1>7. ListOrdered'
  BY <1>1, <1>6, ListSame DEF RunningInv
<1>8. Compiled'
  BY <1>6 DEF Compiled, Passes
<1>9. RunningStarted'
  <2>1. Ready \subseteq elems /\ Ready \subseteq {f \in elems : state[f] = "Start"}
    BY <1>4 DEF Ready
  <2>2. Within(c, elems) /\ Within(c, {f \in elems : state[f] = "Start"})
    BY <1>4, <2>1, WithinMore
  <2> QED
    BY <1>1, <2>2 DEF RunningStarted, Within
<1>10. state' \in [Flows -> States] /\ auFlow' \in Compilations
  BY <1>1, <1>3 DEF RunningInv, RunsTyped, StatesTyped
<1>11. /\ Top.op \in Passes \cup {"process"} /\ x.op # "process"
       /\ \A f \in elems : state'[f] = pending[f]
  BY <1>1, <1>4, <1>5 DEF Passes
<1> QED
  BY <1>1, <1>5, <1>7, <1>8, <1>9, <1>10, <1>11, PassStep

-----------------------------------------------------------------------------
(* Changes of elements, and the actions they trigger.                        *)
LEMMA BeforeHas ==
  ASSUME NEW S, NEW s \in Seq(S), NEW A, NEW B, Before(s, A, B)
  PROVE  Has(s, B) /\ Has(s, A)
<1>1. Len(s) \in Nat
  OBVIOUS
<1> QED
  BY <1>1 DEF Before, Has

\* A change or check is on top, and calls others.
LEMMA CallStep ==
  ASSUME RunningInv, UNCHANGED <<links, elems, state, pending, auFlow>>,
         stack[Running] # <<>>, Top.op \in {"change", "check"},
         NEW q \in Seq(Frames), Continue(q), Fitting(q),
         q \in Seq(Light), q \in Seq(Countable), q \in Seq(Body),
         el' \in [Flows -> [Ends -> States]], flag' \in SUBSET (Flows \X Ends),
         \A f \in Flows, e \in Ends :
           <<f, e>> \in flag' => \/ Before(q, ChecksOf(f, e), CountsOf(f))
                                 \/ <<f, e>> \in flag /\ Top \notin ChecksOf(f, e),
         \A f \in elems : el'[f] = el[f] \/ Has(ToDo', CountsOf(f)),
         \A f \in Mortal : \/ Followed(q, Noisy(f), Settling(f)) \/ Top \in Noisy(f)
                         \/ Has(Tail(ToDo), Settling(f)),
         \A f \in Mortal \cap elems : Freed(f) /\ Quieted(f) => Quieted(f)',
         \A f \in Mortal \cap elems :
           Top = StopAll(f) /\ Tail(ToDo) \in Seq(Endings) => Quieted(f)'
  PROVE  RunningInv'
<1> DEFINE u == Tail(ToDo)
<1>1. /\ ToDo' = q \o u /\ ToDo # <<>> /\ Head(ToDo) = Top /\ Doing = Top.op
      /\ Top \in Frames /\ u \in Seq(Frames) /\ ToDo \in Seq(Frames)
      /\ Rest(u) /\ Grown(u, ToDo')
      /\ ToDo' \in Seq(Light) /\ ToDo' \in Seq(Countable)
  BY Advances
<1>2. HeadOnly' /\ Doing' \notin Passes \cup {"store"}
  BY <1>1, LightToDo
<1>3. StackTyped'
  BY StackKeeps DEF RunningInv, RunsTyped
<1>4. RunsTyped'
  <2>1. LinksTyped'
    BY LinksTypedSame DEF RunningInv
  <2> QED
    BY <1>3, <2>1 DEF RunningInv, RunsTyped, StatesTyped
<1>5. RequestShaped'
  <2>1. Top \in Body
    BY <1>1 DEF Body
  <2> QED
    BY <2>1, ShapeContinues DEF RunningInv, RunsTyped
<1>6. ListOrdered'
  BY <1>2, ListSame DEF RunningInv, Passes
<1>7. Compiled'
  BY <1>2 DEF Compiled, Passes
<1>8. RunningStarted'
  BY <1>1 DEF RunningInv, RunningStarted, Within
<1>9. FlagsChecked'
  <2>1. \A f \in Flows, e \in Ends :
          Before(q, ChecksOf(f, e), CountsOf(f)) => Before(ToDo', ChecksOf(f, e), CountsOf(f))
    <3> SUFFICES ASSUME NEW f \in Flows, NEW e \in Ends, Before(q, ChecksOf(f, e), CountsOf(f))
                 PROVE  Before(ToDo', ChecksOf(f, e), CountsOf(f))
      OBVIOUS
    <3> DEFINE A == ChecksOf(f, e)
               B == CountsOf(f)
    <3>1. Before(q, A, B)
      OBVIOUS
    <3> HIDE DEF A, B, u
    <3>2. Before(q \o u, A, B)
      BY <1>1, <3>1, JoinBefore
    <3> QED
      BY <1>1, <3>2 DEF A, B
  <2> QED
    BY <1>1, <2>1, FlagsStep DEF RunningInv, RunsTyped, StatesTyped
<1>10. Counted'
  <2>1. Doing \notin {"count", "store"} /\ Doing' # "store"
    BY <1>1, <1>2
  <2> QED
    BY <1>1, <2>1, CountedStep DEF RunningInv
<1>11. Covered'
  BY CoveredAdvances
<1>12. ToBeSettled'
  <2>1. \A f \in Mortal \cap elems : Head(ToDo) \notin Settling(f)
    BY <1>1 DEF Settling
  <2> QED
    BY <1>1, <2>1, SettledStep DEF RunningInv
<1> QED
  BY <1>2, <1>4, <1>5, <1>6, <1>7, <1>8, <1>9, <1>10, <1>11, <1>12 DEF RunningInv

\* What AuChangeElementState has left after it has changed the elements.
Called(f, es, process, reason, some) ==
    If("in" \in es, <<Check(f, "in", process, reason)>>)
      \o If("out" \in es, <<Check(f, "out", process, reason)>>)
      \o If(some, <<OnFlow("count", f)>>) \o <<Unblock>>
      \o If(process, <<OnFlow("compare", f)>>)

\* The frames that may be among them.
CalledSet(f, process, reason, some) ==
    {Check(f, e, process, reason) : e \in Ends} \cup {Unblock, OnFlow("compare", f)}
      \cup (IF some THEN {OnFlow("count", f)} ELSE {})

LEMMA CalledFrames ==
  ASSUME NEW f \in Flows, NEW es \in SUBSET Ends, NEW process \in BOOLEAN,
         NEW reason \in Reasons, NEW some \in BOOLEAN
  PROVE  /\ Called(f, es, process, reason, some) \in Seq(CalledSet(f, process, reason, some))
         /\ CalledSet(f, process, reason, some) \subseteq Frames
         /\ \A e \in es :
              some => Before(Called(f, es, process, reason, some), ChecksOf(f, e), CountsOf(f))
         /\ some => Has(Called(f, es, process, reason, some), CountsOf(f))
         /\ process => Followed(Called(f, es, process, reason, some), Noisy(f), Settling(f))
<1> DEFINE xi == Check(f, "in", process, reason)
           xo == Check(f, "out", process, reason)
           xn == OnFlow("count", f)
           xc == OnFlow("compare", f)
           ci == If("in" \in es, <<xi>>)
           co == If("out" \in es, <<xo>>)
           n == If(some, <<xn>>)
           l == <<Unblock>>
           m == If(process, <<xc>>)
           C == CalledSet(f, process, reason, some)
           q == Called(f, es, process, reason, some)
<1>1. /\ xi \in Frames /\ xo \in Frames /\ xn \in Frames /\ xc \in Frames /\ Unblock \in Frames
      /\ xi \in ChecksOf(f, "in") /\ xo \in ChecksOf(f, "out")
  <2>1. \A e \in Ends : Check(f, e, process, reason) \in Frames
    BY SimpleFrames, CallsAreFrames DEF Simple
  <2>2. xn \in Frames /\ xc \in Frames /\ Unblock \in Frames
    BY SimpleFrames, CallsAreFrames DEF Simple, FlowOps
  <2>3. \A e \in Ends : Check(f, e, process, reason) \in ChecksOf(f, e)
    <3>1. \A e \in Ends : Check(f, e, process, reason) \in Checks
      BY DEF Check, Checks
    <3> QED
      BY <3>1 DEF ChecksOf, Check
  <2> QED
    BY <2>1, <2>2, <2>3 DEF Ends
<1>2. xn \in CountsOf(f) /\ xc \in Settling(f) /\ xc \notin Noisy(f)
  BY <1>1 DEF CountsOf, Settling, Noisy, OnFlow
<1>3. C \subseteq Frames
  BY <1>1 DEF Ends, CalledSet
<1>4. xi \in C /\ xo \in C /\ Unblock \in C /\ xc \in C /\ (some => xn \in C)
  BY DEF Ends, CalledSet
<1>5. q = (((ci \o co) \o n) \o l) \o m
  BY DEF Called
<1>6. q \in Seq(C)
  <2> HIDE DEF C, xi, xo, xn, xc
  <2>1. <<xi>> \in Seq(C) /\ <<xo>> \in Seq(C) /\ l \in Seq(C) /\ <<xc>> \in Seq(C)
        /\ <<>> \in Seq(C) /\ (some => <<xn>> \in Seq(C))
    BY <1>4, OneFrame
  <2>2. ci \in Seq(C) /\ co \in Seq(C) /\ n \in Seq(C) /\ m \in Seq(C)
    BY <2>1 DEF If
  <2> HIDE DEF ci, co, n, l, m
  <2>3. ci \o co \in Seq(C)
    BY <2>2, SequenceJoin
  <2>4. (ci \o co) \o n \in Seq(C)
    BY <2>2, <2>3, SequenceJoin
  <2>5. ((ci \o co) \o n) \o l \in Seq(C)
    BY <2>1, <2>4, SequenceJoin
  <2> QED
    BY <1>5, <2>2, <2>5, SequenceJoin
<1>7. /\ ci \in Seq(Frames) /\ co \in Seq(Frames) /\ n \in Seq(Frames) /\ l \in Seq(Frames)
      /\ m \in Seq(Frames)
  <2> HIDE DEF xi, xo, xn, xc
  <2>1. <<xi>> \in Seq(Frames) /\ <<xo>> \in Seq(Frames) /\ l \in Seq(Frames)
        /\ <<xc>> \in Seq(Frames) /\ <<xn>> \in Seq(Frames)
    BY <1>1, OneFrame
  <2> QED
    BY <2>1, IfFrames
<1>8. \A e \in es : Has(ci \o co, ChecksOf(f, e))
  <2>1. ASSUME "in" \in es PROVE Has(ci, ChecksOf(f, "in"))
    <3> DEFINE A == ChecksOf(f, "in")
    <3> HIDE DEF A, xi
    <3>1. Has(<<xi>>, A)
      BY <1>1, OnlyOne DEF A
    <3> QED
      BY <2>1, <3>1 DEF A, If
  <2>2. ASSUME "out" \in es PROVE Has(co, ChecksOf(f, "out"))
    <3> DEFINE A == ChecksOf(f, "out")
    <3> HIDE DEF A, xo
    <3>1. Has(<<xo>>, A)
      BY <1>1, OnlyOne DEF A
    <3> QED
      BY <2>2, <3>1 DEF A, If
  <2> SUFFICES ASSUME NEW e \in es PROVE Has(ci \o co, ChecksOf(f, e))
    OBVIOUS
  <2> DEFINE A == ChecksOf(f, e)
  <2>3. Has(ci, A) \/ Has(co, A)
    BY <2>1, <2>2 DEF Ends
  <2> HIDE DEF A, ci, co
  <2>4. Has(ci \o co, A)
    BY <1>7, <2>3, JoinHas
  <2> QED
    BY <2>4 DEF A
<1>9. some => Has(n, CountsOf(f))
  <2> DEFINE B == CountsOf(f)
  <2> HIDE DEF B, xn
  <2>1. Has(<<xn>>, B)
    BY <1>1, <1>2, OnlyOne DEF B
  <2> QED
    BY <2>1 DEF B, If
<1>10. process => Has(m, Settling(f)) /\ Followed(m, Noisy(f), Settling(f))
  <2> DEFINE A == Noisy(f)
             B == Settling(f)
  <2> HIDE DEF A, B, xc
  <2>1. Has(<<xc>>, B) /\ Followed(<<xc>>, A, B)
    BY <1>1, <1>2, OnlyOne DEF A, B
  <2> QED
    BY <2>1 DEF A, B, If
<1> HIDE DEF ci, co, n, l, m
<1> DEFINE c == ci \o co
           d == c \o n
           k == d \o l
<1>11. c \in Seq(Frames)
  BY <1>7, SequenceJoin
<1>12. d \in Seq(Frames)
  <2> HIDE DEF c
  <2> QED
    BY <1>7, <1>11, SequenceJoin
<1>13. k \in Seq(Frames)
  <2> HIDE DEF d
  <2> QED
    BY <1>7, <1>12, SequenceJoin
<1>14. q = k \o m
  BY <1>5
<1>15. some => \A e \in es : Before(q, ChecksOf(f, e), CountsOf(f))
  <2> SUFFICES ASSUME some, NEW e \in es PROVE Before(q, ChecksOf(f, e), CountsOf(f))
    OBVIOUS
  <2> DEFINE A == ChecksOf(f, e)
             B == CountsOf(f)
  <2>1. Has(c, A) /\ Has(n, B)
    BY <1>8, <1>9
  <2> HIDE DEF A, B, q, c
  <2>2. Before(d, A, B)
    BY <1>7, <1>11, <2>1, JoinBefore
  <2> HIDE DEF d
  <2>3. Before(k, A, B)
    BY <1>7, <1>12, <2>2, JoinBefore
  <2> HIDE DEF k
  <2>4. Before(k \o m, A, B)
    BY <1>7, <1>13, <2>3, JoinBefore
  <2> QED
    BY <1>14, <2>4 DEF A, B
<1>16. some => Has(q, CountsOf(f))
  <2> DEFINE B == CountsOf(f)
  <2> SUFFICES ASSUME some PROVE Has(q, B)
    OBVIOUS
  <2>1. Has(n, B)
    BY <1>9
  <2> HIDE DEF B, q, c
  <2>2. Has(d, B)
    BY <1>7, <1>11, <2>1, JoinHas
  <2> HIDE DEF d
  <2>3. Has(k, B)
    BY <1>7, <1>12, <2>2, JoinHas
  <2> HIDE DEF k
  <2>4. Has(k \o m, B)
    BY <1>7, <1>13, <2>3, JoinHas
  <2> QED
    BY <1>14, <2>4
<1>17. process => Followed(q, Noisy(f), Settling(f))
  <2> DEFINE A == Noisy(f)
             B == Settling(f)
  <2>1. process => Has(m, B) /\ Followed(m, A, B)
    BY <1>10
  <2> HIDE DEF A, B, k, q
  <2>2. process => Followed(k \o m, A, B)
    BY <1>7, <1>13, <2>1, JoinFollowed
  <2> QED
    BY <1>14, <2>2 DEF A, B
<1> HIDE DEF q, C
<1>18. /\ q \in Seq(C) /\ C \subseteq Frames
       /\ \A e \in es : some => Before(q, ChecksOf(f, e), CountsOf(f))
       /\ some => Has(q, CountsOf(f))
       /\ process => Followed(q, Noisy(f), Settling(f))
  BY <1>3, <1>6, <1>15, <1>16, <1>17
<1> QED
  BY <1>18 DEF q, C

LEMMA ChangeStatesRuns ==
  ASSUME RunningInv, ChangeStates
  PROVE  RunningInv'
<1> DEFINE f == Top.flow
           es == Top.es
           new == Top.new
           changed == Changed(f, es, new)
           some == changed # {}
           q == Called(f, es, Top.process, Top.reason, some)
           C == CalledSet(f, Top.process, Top.reason, some)
<1>1. /\ stack[Running] # <<>> /\ Top.op = "change"
      /\ UNCHANGED <<links, elems, state, pending, auFlow>>
      /\ el' = [el EXCEPT ![f] = [e \in Ends |-> IF e \in changed THEN new ELSE @[e]]]
      /\ flag' = flag \cup {<<f, e>> : e \in changed}
  BY DEF ChangeStates, At
<1>2. Continue(q)
  BY DEF ChangeStates, Called
<1>3. Top \in Frames /\ Head(ToDo) = Top /\ ToDo # <<>> /\ ToDo \in Seq(Frames)
      /\ Tail(ToDo) \in Seq(Frames)
  BY <1>1, ToDoParts DEF RunningInv, RunsTyped
<1>4. f \in Flows /\ es \in SUBSET Ends /\ new \in States /\ Top.process \in BOOLEAN
      /\ Top.reason \in Reasons
  BY <1>1, <1>3, FrameKinds DEF Changes
<1>5. /\ changed \subseteq es /\ changed \subseteq Ends /\ some \in BOOLEAN
      /\ changed # {} => f \in elems
  BY <1>4 DEF Changed
<1>6. /\ q \in Seq(C) /\ C \subseteq Frames
      /\ \A e \in es : some => Before(q, ChecksOf(f, e), CountsOf(f))
      /\ some => Has(q, CountsOf(f))
      /\ Top.process => Followed(q, Noisy(f), Settling(f))
  BY <1>4, <1>5, CalledFrames
<1>7. \A x \in C : /\ x.op \in {"check", "count", "unblock", "compare"}
                   /\ x.op # "unblock" => x.flow = f
                   /\ x.op = "check" => x.reason = Top.reason
                   /\ x.op = "count" => f \in elems
  <2>1. \A e \in Ends : LET x == Check(f, e, Top.process, Top.reason)
                        IN  x.op = "check" /\ x.flow = f /\ x.reason = Top.reason
    BY DEF Check
  <2>2. Unblock.op = "unblock" /\ \A op : OnFlow(op, f).op = op /\ OnFlow(op, f).flow = f
    BY DEF Unblock, OnFlow
  <2>3. ASSUME NEW x \in C
        PROVE  /\ x.op \in {"check", "count", "unblock", "compare"}
               /\ x.op # "unblock" => x.flow = f
               /\ x.op = "check" => x.reason = Top.reason
               /\ x.op = "count" => f \in elems
    <3>1. CASE x \in {Check(f, e, Top.process, Top.reason) : e \in Ends}
      BY <2>1, <3>1
    <3>2. CASE x = Unblock \/ x = OnFlow("compare", f)
      BY <2>2, <3>2
    <3>3. CASE x = OnFlow("count", f) /\ some
      BY <1>5, <2>2, <3>3
    <3> QED
      BY <3>1, <3>2, <3>3 DEF CalledSet
  <2> QED
    BY <2>3
<1> HIDE DEF q, C
<1>8. q \in Seq(Frames) /\ q \in Seq(Light) /\ q \in Seq(Countable) /\ q \in Seq(Body)
  <2>1. C \subseteq Light /\ C \subseteq Countable /\ C \subseteq Body
    BY <1>6, <1>7 DEF Light, Countable, Body, Passes
  <2> QED
    BY <1>6, <2>1
<1>9. Fitting(q)
  <2>1. \A i \in 1 .. Len(q) : q[i] \in C
    BY <1>6, SeqElements
  <2> QED
    BY <1>7, <1>8, <2>1 DEF Fitting
<1>10. /\ el' \in [Flows -> [Ends -> States]] /\ flag' \in SUBSET (Flows \X Ends)
       /\ \A g \in Flows : g # f => el'[g] = el[g]
       /\ \A e \in Ends : el'[f][e] = IF e \in changed THEN new ELSE el[f][e]
  <2>1. el \in [Flows -> [Ends -> States]] /\ flag \in SUBSET (Flows \X Ends)
    BY DEF RunningInv, RunsTyped, StatesTyped
  <2> HIDE DEF f, es, new, changed
  <2>2. el' = [el EXCEPT ![f] = [e \in Ends |-> IF e \in changed THEN new ELSE el[f][e]]]
    BY <1>1, <1>4, <2>1
  <2>3. [e \in Ends |-> IF e \in changed THEN new ELSE el[f][e]] \in [Ends -> States]
    BY <1>4, <2>1
  <2>4. flag' \in SUBSET (Flows \X Ends)
    BY <1>1, <1>4, <1>5, <2>1
  <2> QED
    BY <1>4, <2>1, <2>2, <2>3, <2>4
<1>11. \A g \in Flows, e \in Ends :
         <<g, e>> \in flag' => \/ Before(q, ChecksOf(g, e), CountsOf(g))
                               \/ <<g, e>> \in flag /\ Top \notin ChecksOf(g, e)
  <2> SUFFICES ASSUME NEW g \in Flows, NEW e \in Ends, <<g, e>> \in flag'
               PROVE  \/ Before(q, ChecksOf(g, e), CountsOf(g))
                      \/ <<g, e>> \in flag /\ Top \notin ChecksOf(g, e)
    OBVIOUS
  <2>1. CASE <<g, e>> \in flag
    BY <1>1, <2>1, FrameSets
  <2>2. CASE <<g, e>> \notin flag
    <3>1. g = f /\ e \in changed
      BY <1>1, <2>2
    <3> QED
      BY <1>5, <1>6, <3>1
  <2> QED
    BY <2>1, <2>2
<1>12. \A g \in elems : el'[g] = el[g] \/ Has(ToDo', CountsOf(g))
  <2> SUFFICES ASSUME NEW g \in elems, el'[g] # el[g] PROVE Has(ToDo', CountsOf(g))
    OBVIOUS
  <2>1. g \in Flows /\ el \in [Flows -> [Ends -> States]]
    BY DEF RunningInv, RunsTyped, LinksTyped, StatesTyped
  <2>2. g = f
    BY <1>10, <2>1
  <2>3. some
    <3> SUFFICES ASSUME changed = {} PROVE FALSE
      OBVIOUS
    <3>1. \A e \in Ends : el'[f][e] = el[f][e]
      BY <1>10
    <3>2. el'[f] \in [Ends -> States] /\ el[f] \in [Ends -> States]
      BY <1>4, <1>10, <2>1
    <3>3. el'[f] = el[f]
      BY <3>1, <3>2
    <3> QED
      BY <2>2, <3>3
  <2> DEFINE B == CountsOf(f)
             u == Tail(ToDo)
  <2>4. Has(q, B) /\ ToDo' = q \o u /\ u \in Seq(Frames)
    BY <1>1, <1>2, <1>3, <1>6, <1>8, <2>3, Advances
  <2> HIDE DEF B, u
  <2>5. Has(ToDo', B)
    BY <1>8, <2>4, JoinHas
  <2> QED
    BY <2>2, <2>5 DEF B
<1>13. \A g \in Mortal : Followed(q, Noisy(g), Settling(g)) \/ Top \in Noisy(g)
  <2> SUFFICES ASSUME NEW g \in Mortal, Top \notin Noisy(g)
               PROVE  Followed(q, Noisy(g), Settling(g))
    OBVIOUS
  <2>1. CASE g = f
    <3>1. Top.process
      BY <1>1, <1>3, <2>1 DEF Noisy
    <3> QED
      BY <1>6, <2>1, <3>1
  <2>2. CASE g # f
    <3> DEFINE A == Noisy(g)
    <3>1. C \cap A = {}
      BY <1>7, <2>2 DEF Noisy
    <3> HIDE DEF A
    <3>2. Followed(q, A, Settling(g))
      BY <1>6, <3>1, NoneFollowed
    <3> QED
      BY <3>2 DEF A
  <2> QED
    BY <2>1, <2>2
<1>14. \A g : q \in Seq(Harmless(g))
  <2> SUFFICES ASSUME NEW g PROVE q \in Seq(Harmless(g))
    OBVIOUS
  <2>1. C \subseteq Harmless(g)
    BY <1>6, <1>7 DEF Harmless
  <2> QED
    BY <1>6, <2>1
<1>15. StackTyped
  BY DEF RunningInv, RunsTyped
<1>16. \A g \in Mortal \cap elems : Quieted(g) => Quieted(g)'
  <2> SUFFICES ASSUME NEW g \in Mortal \cap elems, Quieted(g) PROVE Quieted(g)'
    OBVIOUS
  <2>1. Top \in Harmless(g) /\ \A e \in Ends : el[g][e] = "Stop"
    BY <1>3, PartsOf DEF Quieted
  <2>2. g = f => new # "Start"
    BY <1>1, <2>1 DEF Harmless
  <2>3. \A e \in Ends : el'[g][e] = "Stop"
    <3>1. CASE g = f
      <4>1. new = "Stop" \/ new = "Pause"
        BY <1>4, <2>2, <3>1 DEF States
      <4>2. changed = {}
        BY <1>4, <2>1, <3>1, <4>1 DEF Changed
      <4> QED
        BY <1>10, <2>1, <3>1, <4>2
    <3>2. CASE g # f
      BY <1>10, <2>1, <3>2 DEF RunningInv, RunsTyped, LinksTyped
    <3> QED
      BY <3>1, <3>2
  <2>4. q \in Seq(Harmless(g))
    BY <1>14
  <2> QED
    BY <1>1, <1>2, <1>15, <2>3, <2>4, QuietedContinues
<1>17. \A g \in Mortal \cap elems :
         Top = StopAll(g) /\ Tail(ToDo) \in Seq(Endings) => Quieted(g)'
  <2> SUFFICES ASSUME NEW g \in Mortal \cap elems, Top = StopAll(g), Tail(ToDo) \in Seq(Endings)
               PROVE  Quieted(g)'
    OBVIOUS
  <2>1. f = g /\ es = Ends /\ new = "Stop" /\ Top.reason = "User"
    BY DEF StopAll, Change
  <2>2. \A e \in Ends : el'[g][e] = "Stop"
    <3>1. \A e \in Ends : e \in changed <=> el[g][e] # "Stop"
      BY <1>4, <2>1 DEF Changed
    <3> QED
      BY <1>10, <2>1, <3>1
  <2> DEFINE H == Harmless(g)
             u == Tail(ToDo)
  <2>3. Endings \subseteq H
    BY DEF Endings, Harmless
  <2>4. u \in Seq(H)
    BY <2>3
  <2>5. q \in Seq(H)
    BY <1>14
  <2>6. ToDo' = q \o u
    BY <1>1, <1>2, <1>8, Advances
  <2> HIDE DEF H, u
  <2>7. ToDo' \in Seq(H)
    BY <2>4, <2>5, <2>6, SequenceJoin
  <2> QED
    BY <2>2, <2>7 DEF H, Quieted, Harmless
<1> HIDE DEF f, es, new, changed
<1> QED
  BY <1>1, <1>2, <1>8, <1>9, <1>10, <1>11, <1>12, <1>13, <1>16, <1>17, CallStep

\* The actions that fire are for the state and the reason.
Matching(f, s, reason) ==
    {a \in {Actions[f][i] : i \in 1 .. Len(Actions[f])} :
       a.state \in {s, "Any"} /\ a.reason \in {reason, "Any"}}

LEMMA TriggeredMatch ==
  ASSUME FlowsAssumption, NEW f \in Flows, NEW s, NEW p, NEW reason
  PROVE  Triggered(f, s, p, reason) \in Seq(Matching(f, s, reason))
<1> DEFINE as == Actions[f]
           A == Matching(f, s, reason)
           ss == [i \in 1 .. Len(as) |->
                    LET a == as[i]
                    IN  If(/\ a.state \in {s, "Any"} /\ a.prev \in {p, "Any"}
                           /\ a.reason \in {reason, "Any"}, <<a>>)]
<1>1. Len(as) \in Nat
  BY DEF FlowsAssumption
<1>2. \A i \in 1 .. Len(as) : ss[i] \in Seq(A)
  <2> SUFFICES ASSUME NEW i \in 1 .. Len(as) PROVE ss[i] \in Seq(A)
    OBVIOUS
  <2> DEFINE a == as[i]
             c == /\ a.state \in {s, "Any"} /\ a.prev \in {p, "Any"}
                  /\ a.reason \in {reason, "Any"}
  <2>1. ss[i] = IF c THEN <<a>> ELSE <<>>
    BY DEF If
  <2>2. c => a \in A
    BY DEF Matching
  <2> HIDE DEF a, c, A, ss
  <2>3. c => <<a>> \in Seq(A)
    BY <2>2, OneFrame
  <2>4. <<>> \in Seq(A)
    OBVIOUS
  <2> QED
    BY <2>1, <2>3, <2>4
<1>3. ss \in Seq(Seq(A))
  <2> DEFINE n == Len(as)
             Q == Seq(A)
  <2>1. n \in Nat /\ ss \in [1 .. n -> Q]
    BY <1>1, <1>2
  <2> HIDE DEF ss, n, Q
  <2>2. ss \in Seq(Q)
    BY <2>1, FunctionIsSeq
  <2> QED
    BY <2>2 DEF Q
<1>4. FlattenSeq(ss) \in Seq(A)
  <2> HIDE DEF ss, A
  <2>1. <<>> \in Seq(A)
    OBVIOUS
  <2> QED
    BY <1>3, <2>1, FlattenAppend
<1> QED
  BY <1>4 DEF Triggered

LEMMA CheckActionsRuns ==
  ASSUME FlowsAssumption, ~Misfire, RunningInv, CheckActions
  PROVE  RunningInv'
<1> DEFINE f == Top.flow
           e == Top.e
           pause == /\ e = "in" /\ f \in Clients
                    /\ was[f][e] = "Stop" /\ el[f][e] = "Start"
           s == IF pause THEN "Pause" ELSE el[f][e]
           p == IF pause THEN "Start" ELSE was[f][e]
           reason == IF pause THEN "Underrun" ELSE Top.reason
           fired == IF e = "in" THEN Triggered(f, s, p, reason) ELSE <<>>
           q == [i \in 1 .. Len(fired) |->
                   Change(fired[i].flow, Ends, fired[i].new, Top.process, reason)]
           M == Matching(f, s, reason)
           C == {Change(a.flow, Ends, a.new, Top.process, reason) : a \in M}
<1>1. /\ stack[Running] # <<>> /\ Top.op = "check"
      /\ UNCHANGED <<links, elems, state, pending, auFlow>>
      /\ IF <<f, e>> \in flag
           THEN /\ flag' = flag \ {<<f, e>>}
                /\ el' = [el EXCEPT ![f][e] = s]
                /\ Continue(q)
           ELSE Continue(<<>>) /\ el' = el /\ flag' = flag
  BY DEF CheckActions, At, elements
<1>2. Top \in Frames /\ Head(ToDo) = Top /\ ToDo # <<>> /\ ToDo \in Seq(Frames)
      /\ Tail(ToDo) \in Seq(Frames)
  BY <1>1, ToDoParts DEF RunningInv, RunsTyped
<1>3. f \in Flows /\ e \in Ends /\ Top.process \in BOOLEAN /\ Top.reason \in Reasons
      /\ reason \in Reasons
  BY <1>1, <1>2, FrameKinds DEF Checks, Reasons
<1>4. /\ el \in [Flows -> [Ends -> States]] /\ flag \in SUBSET (Flows \X Ends)
      /\ elems \subseteq Flows /\ StackTyped
  BY DEF RunningInv, RunsTyped, StatesTyped, LinksTyped
<1>5. fired \in Seq(M)
  <2>1. Triggered(f, s, p, reason) \in Seq(M)
    <3> HIDE DEF f, s, p, reason
    <3> QED
      BY <1>3, TriggeredMatch
  <2>2. <<>> \in Seq(M)
    OBVIOUS
  <2> HIDE DEF M, f, s, p, reason
  <2> QED
    BY <2>1, <2>2
<1>6. \A a \in M : a.flow \in Flows /\ a.new \in States
  <2> SUFFICES ASSUME NEW a \in M
               PROVE  a.flow \in Flows /\ a.new \in States
    OBVIOUS
  <2> HIDE DEF f, s, reason
  <2>1. PICK i \in 1 .. Len(Actions[f]) : a = Actions[f][i]
    BY DEF Matching
  <2>3. Actions[f] \in Seq([state : States \cup {"Any"}, prev : States \cup {"Any"},
                            reason : Reasons \cup {"Any"}, flow : Flows, new : States])
    BY <1>3 DEF FlowsAssumption
  <2>4. a.flow \in Flows /\ a.new \in States
    <3> DEFINE R == [state : States \cup {"Any"}, prev : States \cup {"Any"},
                     reason : Reasons \cup {"Any"}, flow : Flows, new : States]
    <3>1. Actions[f] \in Seq(R)
      BY <2>3
    <3>2. \A x \in R : x.flow \in Flows /\ x.new \in States
      OBVIOUS
    <3> HIDE DEF R
    <3> QED
      BY <2>1, <3>1, <3>2, SeqElements
  <2> QED
    BY <2>4
<1> HIDE DEF M
<1>7. \A x \in C : x \in Frames /\ x.op = "change" /\ x.process = Top.process
  <2> SUFFICES ASSUME NEW a \in M
               PROVE  LET x == Change(a.flow, Ends, a.new, Top.process, reason)
                      IN  x \in Frames /\ x.op = "change" /\ x.process = Top.process
    OBVIOUS
  <2> DEFINE x == Change(a.flow, Ends, a.new, Top.process, reason)
  <2>1. x \in Frames
    <3> HIDE DEF reason
    <3> QED
      BY <1>3, <1>6, SimpleFrames, CallsAreFrames DEF Simple
  <2>2. x.op = "change" /\ x.process = Top.process
    BY DEF Change
  <2> QED
    BY <2>1, <2>2
<1>8. q \in Seq(C) /\ C \subseteq Frames
  <2>1. Len(fired) \in Nat /\ \A i \in 1 .. Len(fired) : fired[i] \in M
    <3> HIDE DEF fired
    <3> QED
      BY <1>5, SeqElements
  <2>2. \A i \in 1 .. Len(fired) :
          Change(fired[i].flow, Ends, fired[i].new, Top.process, reason) \in C
    <3> HIDE DEF fired, f, reason
    <3> QED
      BY <2>1
  <2>3. q \in [1 .. Len(fired) -> C]
    <3> HIDE DEF fired, reason, C
    <3> QED
      BY <2>2
  <2>4. C \subseteq Frames
    BY <1>7
  <2> HIDE DEF fired, q, C
  <2> QED
    BY <2>1, <2>3, <2>4, FunctionIsSeq
<1> DEFINE o == IF <<f, e>> \in flag THEN q ELSE <<>>
<1>9. Continue(o) /\ o \in Seq(C)
  <2>1. <<>> \in Seq(C)
    OBVIOUS
  <2> HIDE DEF q, C
  <2> QED
    BY <1>1, <1>8, <2>1
<1>10. el' \in [Flows -> [Ends -> States]] /\ flag' \in SUBSET (Flows \X Ends)
  <2>1. s \in States
    BY <1>3, <1>4 DEF States
  <2>2. el' = [el EXCEPT ![f][e] = s] \/ el' = el
    BY <1>1
  <2>3. flag' \subseteq flag
    BY <1>1
  <2> HIDE DEF f, e, s
  <2>4. [el EXCEPT ![f][e] = s] \in [Flows -> [Ends -> States]]
    BY <1>3, <1>4, <2>1
  <2>5. el' \in [Flows -> [Ends -> States]]
    BY <1>4, <2>2, <2>4
  <2> QED
    BY <1>4, <2>3, <2>5
<1>11. \A g \in Flows : g # f => el'[g] = el[g]
  <2> HIDE DEF q, f, e, s
  <2> QED
    BY <1>1, <1>3, <1>4
<1> HIDE DEF q, C, o
<1>12. o \in Seq(Frames) /\ o \in Seq(Light) /\ o \in Seq(Countable) /\ o \in Seq(Body)
  <2>1. C \subseteq Frames /\ C \subseteq Light /\ C \subseteq Countable /\ C \subseteq Body
    BY <1>7 DEF Light, Countable, Body, Passes
  <2> QED
    BY <1>9, <2>1
<1>13. Fitting(o)
  <2>1. \A i \in 1 .. Len(o) : o[i] \in C
    BY <1>9, SeqElements
  <2> QED
    BY <1>7, <1>12, <2>1 DEF Fitting
<1>14. \A g \in Flows, d \in Ends :
         <<g, d>> \in flag' => <<g, d>> \in flag /\ Top \notin ChecksOf(g, d)
  <2> SUFFICES ASSUME NEW g \in Flows, NEW d \in Ends, <<g, d>> \in flag'
               PROVE  <<g, d>> \in flag /\ Top \notin ChecksOf(g, d)
    OBVIOUS
  <2>1. <<g, d>> \in flag /\ <<g, d>> # <<f, e>>
    <3>1. flag' = flag \ {<<f, e>>} \/ (flag' = flag /\ <<f, e>> \notin flag)
      BY <1>1
    <3> DEFINE x == <<f, e>>
               y == <<g, d>>
    <3>2. y \in flag' /\ (flag' = flag \ {x} \/ (flag' = flag /\ x \notin flag))
      BY <3>1
    <3> HIDE DEF x, y
    <3>3. y \in flag /\ y # x
      BY <3>2
    <3> QED
      BY <3>3 DEF x, y
  <2>2. Top \in ChecksOf(g, d) => g = f /\ d = e
    BY FrameSets
  <2> QED
    BY <2>1, <2>2
<1>15. \A g \in elems : el'[g] = el[g] \/ Has(ToDo', CountsOf(g))
  <2> SUFFICES ASSUME NEW g \in elems, el'[g] # el[g] PROVE Has(ToDo', CountsOf(g))
    OBVIOUS
  <2>1. g = f /\ <<f, e>> \in flag
    BY <1>1, <1>4, <1>11
  <2> DEFINE A == ChecksOf(f, e)
             B == CountsOf(f)
             u == Tail(ToDo)
  <2>2. Before(ToDo, A, B)
    BY <1>3, <2>1 DEF RunningInv, FlagsChecked
  <2>3. ToDo' = o \o u /\ u \in Seq(Frames)
    BY <1>1, <1>9, <1>12, Advances
  <2> HIDE DEF A, B
  <2>4. (Head(ToDo) \in A /\ Has(u, B)) \/ Before(u, A, B)
    BY <1>2, <2>2, PartsHave
  <2> HIDE DEF u
  <2>5. Has(u, B)
    BY <2>3, <2>4, BeforeHas
  <2>6. Has(ToDo', B)
    BY <1>12, <2>3, <2>5, JoinHas
  <2> QED
    BY <2>1, <2>6 DEF B
<1>a. \A i \in 1 .. Len(o) : \A g \in Mortal :
        o[i].flow = g => /\ Freed(g) => o[i].new # "Start"
                         /\ \/ g = f \/ o[i].process \/ Has(Tail(ToDo), Settling(g))
  BY <1>9, <1>12 DEF Misfire
<1>16. \A g \in Mortal : \/ Followed(o, Noisy(g), Settling(g)) \/ Top \in Noisy(g)
                        \/ Has(Tail(ToDo), Settling(g))
  <2> SUFFICES ASSUME NEW g \in Mortal, Top \notin Noisy(g), ~Has(Tail(ToDo), Settling(g))
               PROVE  Followed(o, Noisy(g), Settling(g))
    OBVIOUS
  <2>1. g # f
    BY <1>1, <1>2 DEF Noisy
  <2> DEFINE A == Noisy(g)
  <2>2. \A i \in 1 .. Len(o) : o[i] \notin A
    <3> SUFFICES ASSUME NEW i \in 1 .. Len(o), o[i] \in Noisy(g) PROVE FALSE
      OBVIOUS
    <3>1. o[i].op = "change"
      BY <1>7, <1>9, SeqElements
    <3>2. o[i].flow = g /\ ~o[i].process
      BY <3>1 DEF Noisy
    <3> QED
      BY <1>a, <2>1, <3>2
  <2> HIDE DEF A
  <2>3. Followed(o, A, Settling(g))
    BY <2>2 DEF Followed
  <2> QED
    BY <2>3 DEF A
<1>17. \A g \in Mortal \cap elems : Freed(g) /\ Quieted(g) => Quieted(g)'
  <2> SUFFICES ASSUME NEW g \in Mortal \cap elems, Freed(g), Quieted(g) PROVE Quieted(g)'
    OBVIOUS
  <2>1. \A d \in Ends : el[g][d] = "Stop"
    BY DEF Quieted
  <2>2. g = f => ~pause /\ s = "Stop"
    BY <1>3, <2>1
  <2>3. \A d \in Ends : el'[g][d] = "Stop"
    <3>1. CASE g = f
      <4>1. s = "Stop"
        BY <2>2, <3>1
      <4> HIDE DEF f, e, s
      <4> QED
        BY <1>1, <1>3, <1>4, <2>1, <3>1, <4>1
    <3>2. CASE g # f
      BY <1>4, <1>11, <2>1, <3>2
    <3> QED
      BY <3>1, <3>2
  <2>4. o \in Seq(Harmless(g))
    <3> DEFINE H == Harmless(g)
    <3>1. \A i \in 1 .. Len(o) : o[i] \in H
      <4> SUFFICES ASSUME NEW i \in 1 .. Len(o), o[i].flow = g PROVE o[i].new # "Start"
        BY <1>12, SeqElements DEF Harmless
      <4> QED
        BY <1>a
    <3> HIDE DEF H
    <3>2. o \in Seq(H)
      BY <1>12, <3>1
    <3> QED
      BY <3>2 DEF H
  <2> QED
    BY <1>1, <1>4, <1>9, <2>3, <2>4, QuietedContinues
<1>18. \A g : Top # StopAll(g)
  BY <1>1 DEF StopAll, Change
<1> HIDE DEF f, e, s, p, reason, fired
<1> QED
  BY <1>1, <1>9, <1>10, <1>12, <1>13, <1>14, <1>15, <1>16, <1>17, <1>18, CallStep

\* What remains after the frame on top still has what it had.
LEMMA TailHas ==
  ASSUME ToDo \in Seq(Frames), ToDo # <<>>, NEW B, Has(ToDo, B), Head(ToDo) \notin B
  PROVE  Has(Tail(ToDo), B)
BY PartsHave

LEMMA CountStatesRuns ==
  ASSUME RunningInv, CountStates
  PROVE  RunningInv'
<1> DEFINE f == Top.flow
           x == Store(f, Amount(el[f]))
           q == <<x>>
           u == Tail(ToDo)
<1>1. /\ stack[Running] # <<>> /\ Top.op = "count"
      /\ UNCHANGED <<links, elems, el, flag, state, pending, auFlow>>
  BY DEF CountStates, At, elements
<1>2. Continue(q)
  <2>1. LET ss == {el[f][e] : e \in Ends}
        IN  (IF "Start" \in ss THEN "Start" ELSE IF "Pause" \in ss THEN "Pause" ELSE "Stop")
              = Amount(el[f])
    BY DEF Amount
  <2> QED
    BY <2>1 DEF CountStates
<1>3. /\ ToDo # <<>> /\ Head(ToDo) = Top /\ Top \in Frames /\ ToDo \in Seq(Frames)
      /\ u \in Seq(Frames) /\ StackTyped /\ Doing = "count"
  BY <1>1, ToDoParts DEF RunningInv, RunsTyped
<1>4. f \in elems /\ f \in Flows
  <2>1. Top \in Countable
    BY <1>3, PartsOf DEF RunningInv, Counted
  <2> QED
    BY <1>1, <2>1 DEF Countable, RunningInv, RunsTyped, LinksTyped
<1>5. x \in Frames /\ x.op = "store" /\ x.flow = f /\ x.new = Amount(el[f])
  <2>1. Amount(el[f]) \in States
    BY DEF Amount, States
  <2>2. x \in Frames
    BY <1>4, <2>1, SimpleFrames, CallsAreFrames DEF Simple
  <2> QED
    BY <2>2 DEF Store
<1> HIDE DEF x, f
<1>6. /\ ToDo' = q \o u /\ ToDo' # <<>> /\ Head(ToDo') = x /\ Doing' = x.op /\ Tail(ToDo') = u
  BY <1>1, <1>2, <1>5, PassTop
<1>7. /\ q \in Seq(Frames) /\ q \in Seq(Countable) /\ q \in Seq(Body) /\ Len(q) = 1 /\ q[1] = x
      /\ \A g : q \in Seq(Harmless(g))
  <2>1. x \in Countable /\ x \in Body /\ \A g : x \in Harmless(g)
    BY <1>4, <1>5 DEF Countable, Body, Harmless
  <2> QED
    BY <1>5, <2>1, OneFrame
<1>8. Fitting(q)
  BY <1>5, <1>7 DEF Fitting
<1> HIDE DEF q
<1>9. Rest(u) /\ Grown(u, ToDo') /\ u \in Seq(Light) /\ ToDo' \in Seq(Countable)
  BY <1>1, <1>2, <1>7, Advances
<1>10. RunsTyped'
  <2>1. StackTyped'
    BY <1>1, <1>2, <1>3, <1>8, StackKeeps
  <2>2. LinksTyped'
    BY <1>1, LinksTypedSame DEF RunningInv
  <2> QED
    BY <1>1, <2>1, <2>2 DEF RunningInv, RunsTyped, StatesTyped
<1>11. HeadOnly'
  BY <1>6, <1>9 DEF HeadOnly, Light
<1>12. RequestShaped'
  <2>1. Top \in Body /\ \A g : Top # StopAll(g)
    BY <1>1, <1>3 DEF Body, StopAll, Change
  <2>2. \A g \in Mortal \cap elems : Quieted(g) => Quieted(g)'
    BY <1>1, <1>2, <1>7, AllQuieted
  <2> QED
    BY <1>1, <1>2, <1>3, <1>7, <2>1, <2>2, ShapeContinues DEF RunningInv
<1>13. ListOrdered'
  BY <1>1, <1>5, <1>6, ListSame DEF RunningInv
<1>14. Compiled'
  BY <1>5, <1>6 DEF Compiled, Passes
<1>15. RunningStarted'
  BY <1>1, <1>3 DEF RunningInv, RunningStarted, Within
<1>16. FlagsChecked'
  <2>1. \A g, e : Head(ToDo) \notin ChecksOf(g, e)
    BY <1>1, <1>3, FrameSets
  <2> QED
    BY <1>1, <1>3, <1>9, <2>1, FlagsStep DEF RunningInv, RunsTyped, StatesTyped
<1>17. Counted'
  <2>1. ASSUME NEW g \in elems PROVE pending[g] = Amount(el[g]) \/ Has(ToDo', CountsOf(g))
    <3> DEFINE B == CountsOf(g)
    <3>1. B \in SUBSET Frames
      BY FrameSets
    <3>2. CASE g = f
      <4>1. x \in B
        BY <1>5, <3>2 DEF CountsOf
      <4> HIDE DEF B, u
      <4>2. Has(q, B)
        BY <1>5, <4>1, OnlyOne DEF q
      <4> QED
        BY <1>3, <1>6, <1>7, <4>2, JoinHas DEF B
    <3>3. CASE g # f
      <4>1. Head(ToDo) \notin B
        BY <1>3, <3>3 DEF CountsOf, f
      <4>2. pending[g] = Amount(el[g]) \/ Has(ToDo, B)
        BY DEF RunningInv, Counted
      <4> HIDE DEF B, u
      <4>3. Has(ToDo, B) => Has(u, B)
        BY <1>3, <4>1, TailHas DEF u
      <4> QED
        BY <1>9, <3>1, <4>2, <4>3 DEF Grown, B
    <3> QED
      BY <3>2, <3>3
  <2>2. Head(ToDo').new = Amount(el'[Head(ToDo').flow])
    BY <1>1, <1>5, <1>6
  <2>3. ToDo' \in Seq(Countable')
    BY <1>1, <1>9 DEF Countable
  <2>4. \A g \in elems' : pending'[g] = Amount(el'[g]) \/ Has(ToDo', CountsOf(g))
    BY <1>1, <2>1
  <2>5. \A g \in Flows \ elems' : pending'[g] = "Stop"
    BY <1>1 DEF RunningInv, Counted
  <2> QED
    BY <2>2, <2>3, <2>4, <2>5 DEF Counted, CountsOf, Amount
<1>18. Covered'
  <2>1. \A g \in Mortal : Followed(q, Noisy(g), Settling(g)) \/ Top \in Noisy(g)
    <3> SUFFICES ASSUME NEW g \in Mortal, Top \notin Noisy(g)
                 PROVE  Followed(q, Noisy(g), Settling(g))
      OBVIOUS
    <3> DEFINE A == Noisy(g)
    <3>1. g # f
      BY <1>1, <1>3 DEF Noisy, f
    <3>2. x \notin A
      BY <1>5, <3>1 DEF Noisy
    <3> HIDE DEF A
    <3>3. Followed(q, A, Settling(g))
      BY <1>5, <3>2, OnlyOne DEF q
    <3> QED
      BY <3>3 DEF A
  <2> QED
    BY <1>1, <1>2, <1>7, <2>1, CoveredAdvances
<1>19. ToBeSettled'
  <2>1. \A g \in Mortal \cap elems : Head(ToDo) \notin Settling(g)
    BY <1>1, <1>3 DEF Settling
  <2> QED
    BY <1>1, <1>3, <1>9, <2>1, SettledStep DEF RunningInv
<1> QED
  BY <1>10, <1>11, <1>12, <1>13, <1>14, <1>15, <1>16, <1>17, <1>18, <1>19 DEF RunningInv

LEMMA StoreStateRuns ==
  ASSUME RunningInv, StoreState
  PROVE  RunningInv'
<1> DEFINE f == Top.flow
           q == <<>>
           u == Tail(ToDo)
<1>1. /\ stack[Running] # <<>> /\ Top.op = "store" /\ Continue(q)
      /\ UNCHANGED <<links, elems, el, flag, state, auFlow>>
      /\ pending' = [pending EXCEPT ![f] = Top.new]
  BY DEF StoreState, At, elements
<1>2. /\ ToDo # <<>> /\ Head(ToDo) = Top /\ Top \in Frames /\ ToDo \in Seq(Frames)
      /\ u \in Seq(Frames) /\ StackTyped /\ Doing = "store"
  BY <1>1, ToDoParts DEF RunningInv, RunsTyped
<1>3. f \in elems /\ f \in Flows /\ Top.new = Amount(el[f]) /\ Top.new \in States
  <2>1. Top \in Countable
    BY <1>2, PartsOf DEF RunningInv, Counted
  <2>2. Top.new = Amount(el[f])
    BY <1>2 DEF RunningInv, Counted
  <2>3. Amount(el[f]) \in States
    BY DEF Amount, States
  <2> QED
    BY <1>1, <2>1, <2>2, <2>3 DEF Countable, RunningInv, RunsTyped, LinksTyped
<1>4. pending \in [Flows -> States] /\ elems \subseteq Flows
  BY DEF RunningInv, RunsTyped, StatesTyped, LinksTyped
<1>5. /\ pending' \in [Flows -> States] /\ pending'[f] = Amount(el[f])
      /\ \A g \in Flows : g # f => pending'[g] = pending[g]
  <2> HIDE DEF f
  <2> QED
    BY <1>1, <1>3, <1>4
<1>6. q \in Seq(Silent)
  OBVIOUS
<1>7. /\ q \in Seq(Frames) /\ q \in Seq(Light) /\ q \in Seq(Countable) /\ q \in Seq(Body)
      /\ Fitting(q) /\ \A g : q \in Seq(Harmless(g)) /\ Followed(q, Noisy(g), Settling(g))
  BY <1>6, SilentFit
<1> HIDE DEF q
<1>8. /\ Rest(u) /\ Grown(u, ToDo') /\ ToDo' \in Seq(Light) /\ ToDo' \in Seq(Countable)
  BY <1>1, <1>7, Advances
<1>9. HeadOnly' /\ Doing' \notin Passes \cup {"store"}
  BY <1>8, LightToDo
<1>10. RunsTyped'
  <2>1. StackTyped'
    BY <1>1, <1>2, <1>7, StackKeeps
  <2>2. LinksTyped'
    BY <1>1, LinksTypedSame DEF RunningInv
  <2> QED
    BY <1>1, <1>5, <2>1, <2>2 DEF RunningInv, RunsTyped, StatesTyped
<1>11. RequestShaped'
  <2>1. Top \in Body /\ \A g : Top # StopAll(g)
    BY <1>1, <1>2 DEF Body, StopAll, Change
  <2>2. \A g \in Mortal \cap elems : Quieted(g) => Quieted(g)'
    BY <1>1, <1>7, AllQuieted
  <2> QED
    BY <1>1, <1>2, <1>7, <2>1, <2>2, ShapeContinues DEF RunningInv
<1>12. ListOrdered'
  BY <1>1, <1>9, ListSame DEF RunningInv, Passes
<1>13. Compiled'
  BY <1>9 DEF Compiled, Passes
<1>14. RunningStarted'
  BY <1>1, <1>2 DEF RunningInv, RunningStarted, Within
<1>15. FlagsChecked'
  <2>1. \A g, e : Head(ToDo) \notin ChecksOf(g, e)
    BY <1>1, <1>2, FrameSets
  <2> QED
    BY <1>1, <1>2, <1>8, <2>1, FlagsStep DEF RunningInv, RunsTyped, StatesTyped
<1>16. Counted'
  <2>1. ASSUME NEW g \in elems PROVE pending'[g] = Amount(el[g]) \/ Has(ToDo', CountsOf(g))
    <3> DEFINE B == CountsOf(g)
    <3>1. B \in SUBSET Frames
      BY FrameSets
    <3>2. CASE g = f
      BY <1>5, <3>2
    <3>3. CASE g # f
      <4>1. Head(ToDo) \notin B
        BY <1>2, <3>3 DEF CountsOf
      <4>2. pending'[g] = Amount(el[g]) \/ Has(ToDo, B)
        BY <1>4, <1>5, <3>3 DEF RunningInv, Counted
      <4> HIDE DEF B, u
      <4>3. Has(ToDo, B) => Has(u, B)
        BY <1>2, <4>1, TailHas DEF u
      <4> QED
        BY <1>8, <3>1, <4>2, <4>3 DEF Grown, B
    <3> QED
      BY <3>2, <3>3
  <2>2. ToDo' \in Seq(Countable')
    BY <1>1, <1>8 DEF Countable
  <2>3. \A g \in elems' : pending'[g] = Amount(el'[g]) \/ Has(ToDo', CountsOf(g))
    BY <1>1, <2>1
  <2>4. \A g \in Flows \ elems' : pending'[g] = "Stop"
    BY <1>1, <1>3, <1>5 DEF RunningInv, Counted
  <2> QED
    BY <1>9, <2>2, <2>3, <2>4 DEF Counted, CountsOf, Amount
<1>17. Covered'
  BY <1>1, <1>7, CoveredAdvances
<1>18. ToBeSettled'
  <2>1. ASSUME NEW g \in Mortal \cap elems, state[g] # pending'[g]
        PROVE  Has(ToDo', Settling(g))
    <3> DEFINE A == Noisy(g)
               B == Settling(g)
    <3>1. B \in SUBSET Frames /\ Head(ToDo) \notin B
      BY <1>1, <1>2, FrameSets DEF Settling
    <3>2. Has(u, B)
      <4>1. CASE g = f
        <5>1. Head(ToDo) \in A /\ Followed(ToDo, A, B)
          BY <1>1, <1>2, <4>1 DEF Noisy, RunningInv, Covered
        <5> HIDE DEF A, B
        <5> QED
          BY <1>2, <5>1, PartsHave
      <4>2. CASE g # f
        <5>1. Has(ToDo, B)
          BY <1>4, <1>5, <2>1, <4>2 DEF RunningInv, ToBeSettled
        <5> HIDE DEF B
        <5> QED
          BY <1>2, <3>1, <5>1, TailHas
      <4> QED
        BY <4>1, <4>2
    <3> QED
      BY <1>8, <3>1, <3>2 DEF Grown
  <2> QED
    BY <1>1, <2>1 DEF ToBeSettled, Settling
<1> QED
  BY <1>9, <1>10, <1>11, <1>12, <1>13, <1>14, <1>15, <1>16, <1>17, <1>18 DEF RunningInv

-----------------------------------------------------------------------------
(* The end of a request.                                                     *)

\* With only the end of a request left, all is counted and settled.
LEMMA Quiescent ==
  ASSUME RunningInv, ToDo \in Seq(Endings)
  PROVE  /\ flag = {}
         /\ \A f \in elems : pending[f] = Amount(el[f])
         /\ \A f \in Mortal \cap elems : state[f] = pending[f]
<1>1. ToDo \in Seq(Frames) /\ \A i \in 1 .. Len(ToDo) : ToDo[i] \in Endings
  BY ToDoParts, SeqElements DEF RunningInv, RunsTyped
<1>2. \A f, e : \A x \in Endings : x \notin ChecksOf(f, e) /\ x \notin CountsOf(f)
                                   /\ x \notin Settling(f)
  BY FrameSets DEF Endings, CountsOf, Settling
<1>3. ASSUME NEW f, NEW e PROVE ~Before(ToDo, ChecksOf(f, e), CountsOf(f))
  BY <1>1, <1>2 DEF Before
<1>4. \A f : ~Has(ToDo, CountsOf(f)) /\ ~Has(ToDo, Settling(f))
  BY <1>1, <1>2 DEF Has
<1>5. flag = {}
  BY <1>3 DEF RunningInv, RunsTyped, StatesTyped, FlagsChecked
<1> QED
  BY <1>4, <1>5 DEF RunningInv, Counted, ToBeSettled

\* A step that leaves nothing but the end of a request.
LEMMA EndStep ==
  ASSUME ToDo' \in Seq(Endings), RunsTyped', RequestShaped', flag' = {},
         \E r \in Ranks : Listed(r)',
         Within(auFlow', {f \in elems' : state'[f] = "Start"}),
         \A f \in Flows \ elems' : pending'[f] = "Stop",
         \A f \in elems' : pending'[f] = Amount(el'[f]),
         \A f \in Mortal \cap elems' : state'[f] = pending'[f]
  PROVE  RunningInv'
<1>1. Endings \subseteq Light /\ Endings \subseteq Frames
  BY DEF Endings, Light, Passes
<1>2. ToDo' \in Seq(Light) /\ ToDo' \in Seq(Frames)
  BY <1>1
<1>3. HeadOnly' /\ Doing' \notin Passes \cup {"store"}
  BY <1>2, LightToDo
<1>4. ListOrdered'
  <2>1. PICK r \in Ranks : Listed(r)'
    OBVIOUS
  <2>2. Updated(r)'
    BY <1>3 DEF Updated, Passes
  <2> QED
    BY <2>1, <2>2 DEF ListOrdered, Ranks
<1>5. Compiled'
  BY <1>3 DEF Compiled, Passes
<1>6. RunningStarted'
  <2>1. {f \in elems' : state'[f] = "Start"} \subseteq elems'
    OBVIOUS
  <2>2. Within(auFlow', elems')
    BY <2>1, WithinMore
  <2> QED
    BY <2>2 DEF RunningStarted, Within
<1>7. FlagsChecked'
  BY DEF FlagsChecked
<1>8. Counted'
  <2>1. ToDo' \in Seq(Countable')
    <3>1. Endings \subseteq Countable'
      BY <1>1 DEF Countable, Endings
    <3> QED
      BY <3>1
  <2> QED
    BY <1>3, <2>1 DEF Counted, Amount
<1>9. Covered'
  <2>1. ASSUME NEW f \in Mortal PROVE Followed(ToDo', Noisy(f), Settling(f))
    <3> DEFINE A == Noisy(f)
    <3>1. Endings \cap A = {}
      BY DEF Endings, Noisy
    <3> HIDE DEF A
    <3>2. Followed(ToDo', A, Settling(f))
      BY <3>1, NoneFollowed
    <3> QED
      BY <3>2 DEF A
  <2> QED
    BY <2>1 DEF Covered, Noisy, Settling
<1>10. ToBeSettled'
  BY DEF ToBeSettled
<1> QED
  BY <1>3, <1>4, <1>5, <1>6, <1>7, <1>8, <1>9, <1>10 DEF RunningInv

\* What is on top, with what the rest of the request is.
LEMMA EndingParts ==
  ASSUME RunningInv, stack[Running] # <<>>, Top.op \in {"free", "unlink", "install", "destroy"}
  PROVE  LET f == Top.flow
         IN  /\ Running = "server" /\ ToDo \in Seq(Endings) /\ f \in Flows
             /\ Top.op \in {"free", "unlink"} => Tail(ToDo) \in Closings(f)
             /\ Top.op = "free" => f \in Mortal \/ f \notin elems
             /\ Top.op = "unlink" => f \in Mortal \cap elems /\ Quieted(f)
             /\ Top.op \in {"install", "destroy"} => f \notin elems /\ Tail(ToDo) = <<>>
             /\ Top.op = "install" =>
                  Top.outcome \in Outcomes /\ (Top.outcome # "ok" => f \in Mortal)
<1> DEFINE h == Top.flow
<1>1. StackTyped /\ RequestShaped
  BY DEF RunningInv, RunsTyped
<1>2. /\ ToDo # <<>> /\ Head(ToDo) = Top /\ Top \in Frames /\ ToDo \in Seq(Frames)
  BY <1>1, ToDoParts
<1>3. Top \in Endings
  BY <1>2 DEF Endings
<1>4. PICK f \in Flows : \E c \in Closings(f) :
              \/ ToDo = <<OnFlow("free", f)>> \o c /\ (f \in Mortal \/ f \notin elems)
              \/ /\ ToDo = <<OnFlow("unlink", f)>> \o c /\ f \in Mortal \cap elems
                 /\ Quieted(f)
              \/ ToDo = c /\ f \notin elems
  BY <1>1, <1>3, EndingOnTop
<1>5. PICK c \in Closings(f) :
              \/ ToDo = <<OnFlow("free", f)>> \o c /\ (f \in Mortal \/ f \notin elems)
              \/ /\ ToDo = <<OnFlow("unlink", f)>> \o c /\ f \in Mortal \cap elems
                 /\ Quieted(f)
              \/ ToDo = c /\ f \notin elems
  BY <1>4
<1>6. Running = "server" /\ ToDo \in Seq(Endings)
  BY <1>1, <1>3, EndingOnTop
<1>7. c \in Seq(Frames)
  <2>1. \A o \in Outcomes : Install(f, o) \in Frames
    BY SimpleFrames, CallsAreFrames DEF Simple
  <2>2. OnFlow("destroy", f) \in Frames
    BY SimpleFrames, CallsAreFrames DEF Simple, FlowOps
  <2>3. <<>> \in Seq(Frames)
    OBVIOUS
  <2>4. <<OnFlow("destroy", f)>> \in Seq(Frames)
    BY <2>2, OneFrame
  <2>5. \A o \in Outcomes : <<Install(f, o)>> \in Seq(Frames)
    BY <2>1, OneFrame
  <2> QED
    BY <2>3, <2>4, <2>5 DEF Closings
<1>8. ASSUME NEW op \in {"free", "unlink"}, ToDo = <<OnFlow(op, f)>> \o c
      PROVE  Top.op = op /\ h = f /\ Tail(ToDo) = c
  <2> DEFINE x == OnFlow(op, f)
             o == <<x>>
  <2>1. x \in Frames /\ x.op = op /\ x.flow = f
    <3>1. x \in Frames
      BY SimpleFrames, CallsAreFrames DEF Simple, FlowOps
    <3> QED
      BY <3>1 DEF OnFlow
  <2>2. o \in Seq(Frames) /\ o # <<>> /\ Head(o) = x /\ Tail(o) = <<>> /\ ToDo = o \o c
    BY <1>8, <2>1, OneFrame
  <2> HIDE DEF o, x
  <2>3. <<>> \o c = c
    BY <1>7, JoinEmpty
  <2>4. Head(o \o c) = Head(o) /\ Tail(o \o c) = Tail(o) \o c
    BY ONLY <1>7, <2>2, JoinHead
  <2> QED
    BY <1>2, <2>1, <2>2, <2>3, <2>4
<1>9. ASSUME ToDo = c
      PROVE  /\ Top.op \in {"install", "destroy"} /\ h = f /\ Tail(ToDo) = <<>>
             /\ Top.op = "install" =>
                  Top.outcome \in Outcomes /\ (Top.outcome # "ok" => f \in Mortal)
  <2>1. CASE c = <<OnFlow("destroy", f)>>
    BY <1>2, <1>9, <2>1 DEF OnFlow
  <2>2. CASE \E o \in Outcomes : c = <<Install(f, o)>> /\ (o # "ok" => f \in Mortal)
    BY <1>2, <1>9, <2>2 DEF Install
  <2> QED
    BY <1>2, <1>9, <2>1, <2>2 DEF Closings
<1>10. CASE ToDo = <<OnFlow("free", f)>> \o c /\ (f \in Mortal \/ f \notin elems)
  <2>1. Top.op = "free" /\ h = f /\ Tail(ToDo) = c
    BY <1>8, <1>10
  <2> HIDE DEF h
  <2> QED
    BY <1>6, <1>10, <2>1 DEF h
<1>11. CASE ToDo = <<OnFlow("unlink", f)>> \o c /\ f \in Mortal \cap elems /\ Quieted(f)
  <2>1. Top.op = "unlink" /\ h = f /\ Tail(ToDo) = c
    BY <1>8, <1>11
  <2> QED
    BY <1>6, <1>11, <2>1
<1>12. CASE ToDo = c /\ f \notin elems
  <2>1. /\ Top.op \in {"install", "destroy"} /\ h = f /\ Tail(ToDo) = <<>>
        /\ Top.op = "install" =>
             Top.outcome \in Outcomes /\ (Top.outcome # "ok" => f \in Mortal)
    BY <1>9, <1>12
  <2> QED
    BY <1>6, <1>12, <2>1
<1> QED
  BY <1>5, <1>10, <1>11, <1>12

LEMMA ClosingFrames ==
  ASSUME NEW f \in Flows, NEW c \in Closings(f)
  PROVE  c \in Seq(Endings)
<1>1. \A o \in Outcomes : Install(f, o) \in Endings
  BY SimpleFrames, CallsAreFrames DEF Simple, Install, Endings
<1>2. OnFlow("destroy", f) \in Endings
  BY SimpleFrames, CallsAreFrames DEF Simple, FlowOps, Endings, OnFlow
<1>3. <<>> \in Seq(Endings)
  OBVIOUS
<1>4. <<OnFlow("destroy", f)>> \in Seq(Endings)
  BY <1>2, OneFrame
<1>5. \A o \in Outcomes : <<Install(f, o)>> \in Seq(Endings)
  BY <1>1, OneFrame
<1> QED
  BY <1>3, <1>4, <1>5 DEF Closings

\* The elements are freed when they are stopped, or after they have been.
LEMMA FreeElementsRuns ==
  ASSUME RunningInv, FreeElements
  PROVE  RunningInv'
<1>0. stack[Running] # <<>> /\ Top.op = "free"
  BY DEF FreeElements, At
<1>a. PICK f \in Flows : f = Top.flow
  BY <1>0, EndingParts
<1> DEFINE c == Tail(ToDo)
           x == StopAll(f)
           y == OnFlow("unlink", f)
           stop == f \in elems /\ state[f] # "Stop"
           a == If(stop, <<x>>)
           b == If(f \in elems, <<y>>)
           q == a \o b
<1>1. /\ stack[Running] # <<>> /\ Top.op = "free" /\ Continue(q)
      /\ UNCHANGED <<links, elems, el, flag, state, pending, auFlow>>
  BY <1>a DEF FreeElements, At, elements, StopAll
<1>2. /\ Running = "server" /\ ToDo \in Seq(Endings) /\ f \in Flows
      /\ c \in Closings(f) /\ (f \in Mortal \/ f \notin elems)
  BY <1>0, <1>a, EndingParts
<1>3. /\ flag = {} /\ \A g \in elems : pending[g] = Amount(el[g])
      /\ \A g \in Mortal \cap elems : state[g] = pending[g]
  BY <1>2, Quiescent
<1>4. x \in Frames /\ y \in Frames /\ x.op = "change" /\ x.process = TRUE /\ y.op = "unlink"
  <2>1. x \in Simple
    BY <1>2, SimpleFrames DEF StopAll, States, Reasons
  <2>2. y \in Simple
    BY <1>2, SimpleFrames DEF FlowOps
  <2> QED
    BY <2>1, <2>2, CallsAreFrames DEF Simple, StopAll, Change, OnFlow
<1>5. /\ x \in Body /\ x \in Light /\ x \in Countable
      /\ y \in Endings /\ y \in Light /\ y \in Countable
      /\ \A g : x \notin Noisy(g) /\ y \notin Noisy(g)
  BY <1>4 DEF Body, Light, Countable, Endings, Noisy, Passes
<1> DEFINE N == {x, y}
<1>6. N \subseteq Frames /\ N \subseteq Light /\ N \subseteq Countable
      /\ \A g : N \cap Noisy(g) = {}
  BY <1>4, <1>5
<1>7. a \in Seq(Body) /\ b \in Seq(Endings) /\ a \in Seq(N) /\ b \in Seq(N)
  <2>1. x \in N /\ y \in N
    OBVIOUS
  <2> HIDE DEF x, y, N, stop
  <2> QED
    BY <1>5, <2>1, OneFrame, IfFrames
<1>8. (stop => a = <<x>>) /\ (~stop => a = <<>>)
      /\ (f \in elems => b = <<y>>) /\ (f \notin elems => b = <<>>)
  BY DEF If
<1> HIDE DEF N, a, b, x, y
<1>9. q \in Seq(N)
  BY <1>7, SequenceJoin
<1>10. q \in Seq(Frames) /\ q \in Seq(Light) /\ q \in Seq(Countable)
  BY <1>6, <1>9
<1>11. \A i \in 1 .. Len(q) : q[i].op \in {"change", "unlink"}
  <2>1. \A i \in 1 .. Len(q) : q[i] \in N
    BY <1>9, SeqElements
  <2> QED
    BY <1>4, <2>1 DEF N
<1> HIDE DEF q
<1>12. Fitting(q)
  BY <1>10, <1>11 DEF Fitting
<1>13. StackTyped /\ c \in Seq(Endings)
  BY <1>2, ClosingFrames DEF RunningInv, RunsTyped
<1>14. StackTyped'
  BY <1>1, <1>12, <1>13, StackKeeps
<1>15. /\ ToDo' = q \o c /\ ToDo # <<>> /\ Head(ToDo) = Top /\ Doing = Top.op
       /\ Rest(c) /\ Grown(c, ToDo') /\ ToDo' \in Seq(Light) /\ ToDo' \in Seq(Countable)
  BY <1>1, <1>10, Advances
<1>16. RequestShaped'
  <2> DEFINE w == b \o c
  <2>0. w \in Seq(Endings)
    BY <1>7, <1>13, SequenceJoin
  <2>1. PICK z \in Seq(Endings) : z = b \o c
    BY <2>0
  <2>a. PICK k \in Seq(Body) : k = a
    BY <1>7
  <2>b. PICK d \in Closings(f) : d = c
    BY <1>2
  <2>2. stack'["server"] = k \o z /\ stack'["tick"] = <<>>
    <3>1. a \in Seq(Frames) /\ b \in Seq(Frames) /\ c \in Seq(Frames)
      BY <1>7, <1>13, BodyOrEnding
    <3> HIDE DEF c
    <3>2. (a \o b) \o c = a \o (b \o c)
      BY ONLY <3>1, JoinAssociates, SMTT(30)
    <3>3. stack'["server"] = q \o c /\ stack'["tick"] = <<>>
      BY <1>1, <1>2, <1>10, <1>13, ToDoContinues DEF c
    <3> QED
      BY <2>1, <2>a, <3>2, <3>3 DEF q
  <2>3. Ended(k, z)'
    <3>1. CASE f \notin elems
      <4>1. z = d
        <5> HIDE DEF c
        <5>1. <<>> \o c = c
          BY <1>13, JoinEmpty
        <5> QED
          BY <1>8, <2>1, <2>b, <3>1, <5>1
      <4>2. f \notin elems'
        BY <1>1, <3>1
      <4> HIDE DEF c
      <4> QED
        BY <4>1, <4>2 DEF Ended, Closings
    <3>2. CASE stop
      <4>1. f \in Mortal \cap elems' /\ k = <<StopAll(f)>> /\ z = <<OnFlow("unlink", f)>> \o d
        BY <1>1, <1>2, <1>8, <2>1, <2>a, <2>b, <3>2 DEF x, y
      <4> HIDE DEF c
      <4> QED
        BY <4>1 DEF Ended, Closings
    <3>3. CASE f \in elems /\ ~stop
      <4>1. f \in Mortal \cap elems' /\ k = <<>> /\ z = <<OnFlow("unlink", f)>> \o d
        BY <1>1, <1>2, <1>8, <2>1, <2>a, <2>b, <3>3 DEF y
      <4>2. Quieted(f)'
        <5>1. \A e \in Ends : el'[f][e] = "Stop"
          <6>1. Amount(el[f]) = "Stop"
            BY <1>2, <1>3, <3>3
          <6>2. el[f] \in [Ends -> States]
            BY <1>2 DEF RunningInv, RunsTyped, StatesTyped
          <6>3. \A e \in Ends : el[f][e] = "Stop"
            BY <6>1, <6>2 DEF Amount, States
          <6> QED
            BY <1>1, <6>3
        <5>2. ToDo' = z
          <6>1. z \in Seq(Frames)
            BY BodyOrEnding
          <6>2. <<>> \o z = z
            BY <6>1, JoinEmpty
          <6>3. ToDo' = <<>> \o z
            BY <2>2, <4>1, <6>2 DEF ToDo
          <6> QED
            BY <6>2, <6>3
        <5>3. Endings \subseteq Harmless(f)
          BY DEF Endings, Harmless
        <5>4. ToDo' \in Seq(Harmless(f))
          BY <5>2, <5>3
        <5> QED
          BY <5>1, <5>4 DEF Quieted, Harmless
      <4> HIDE DEF c
      <4> QED
        BY <4>1, <4>2 DEF Ended, Closings
    <3> QED
      BY <3>1, <3>2, <3>3
  <2> QED
    BY <2>2, <2>3, ShapeEnds
<1>17. Covered'
  <2>1. ASSUME NEW g \in Mortal PROVE Followed(q, Noisy(g), Settling(g))
    <3> DEFINE A == Noisy(g)
    <3>1. N \cap A = {} /\ q \in Seq(N)
      BY <1>6, <1>9 DEF q
    <3> HIDE DEF A
    <3>2. Followed(q, A, Settling(g))
      BY <3>1, NoneFollowed
    <3> QED
      BY <3>2 DEF A
  <2> QED
    BY <1>1, <1>10, <2>1, CoveredAdvances
<1>18. \A g \in Mortal \cap elems : Head(ToDo) \notin Settling(g)
  BY <1>1, <1>15 DEF Settling
<1>19. Doing \notin {"check", "count", "store"} /\ Doing \notin {"update", "setup", "swap"}
  BY <1>1, <1>15
<1> QED
  BY <1>1, <1>14, <1>15, <1>16, <1>17, <1>18, <1>19, PlainStep

\* An element is taken out of the list.
LEMMA UnlinkLists ==
  ASSUME FlowsAssumption, LinksTyped, NEW r \in Ranks, Listed(r), NEW f \in elems,
         prev' = IF next[f] = NoFlow THEN prev ELSE [prev EXCEPT ![next[f]] = prev[f]],
         next' = IF prev[f] = NoFlow THEN next ELSE [next EXCEPT ![prev[f]] = next[f]],
         head' = IF prev[f] = NoFlow THEN next[f] ELSE head,
         elems' = elems \ {f}
  PROVE  Listed(r)'
<1> DEFINE n == next[f]
           p == prev[f]
<1>1. /\ elems \subseteq Flows /\ NoFlow \notin Flows
      /\ next \in [Flows -> Flows \cup {NoFlow}] /\ prev \in [Flows -> Flows \cup {NoFlow}]
      /\ \A g \in elems : r[g] \in Int
  BY DEF LinksTyped, FlowsAssumption, Ranks, Pointers
<1>2. /\ head \in elems /\ \A g \in elems : r[head] <= r[g]
      /\ \A g, h \in elems : r[g] = r[h] => g = h
  BY DEF Listed
<1>3. \A g \in elems :
         /\ next[g] = NoFlow => \A h \in elems : r[h] <= r[g]
         /\ next[g] # NoFlow =>
              /\ next[g] \in elems /\ r[g] < r[next[g]] /\ prev[next[g]] = g
              /\ \A h \in elems : r[g] < r[h] => r[next[g]] <= r[h]
  BY DEF Listed
<1>4. \A g \in elems : /\ prev[g] = NoFlow => g = head
                       /\ prev[g] # NoFlow => prev[g] \in elems /\ next[prev[g]] = g
  BY DEF Listed
<1>5. n # f /\ p # f
  <2>1. n # f
    <3>1. f # NoFlow /\ r[f] \in Int
      BY <1>1
    <3>2. next[f] # NoFlow => r[f] < r[next[f]]
      BY <1>3
    <3>3. next[f] # f
      BY <3>1, <3>2
    <3> QED
      BY <3>3
  <2>2. p # NoFlow => r[p] < r[f]
    BY <1>1, <1>3, <1>4
  <2> QED
    BY <1>1, <2>1, <2>2
<1>6. \A g \in elems' : g \in elems /\ g # f /\ g # NoFlow
                        /\ next'[g] = (IF g = p THEN n ELSE next[g])
                        /\ prev'[g] = (IF g = n THEN p ELSE prev[g])
  BY <1>1
<1>7. /\ p = NoFlow => head' = n /\ f = head
      /\ p # NoFlow => head' = head /\ p \in elems' /\ next[p] = f /\ r[p] < r[f]
      /\ n # NoFlow => n \in elems' /\ prev[n] = f /\ r[f] < r[n]
  BY <1>1, <1>3, <1>4, <1>5
<1> HIDE DEF n, p
<1>8. \A g, h \in elems : r[g] \in Int /\ r[h] \in Int
                          /\ (g # h /\ r[g] <= r[h] => r[g] < r[h])
  BY <1>1, <1>2
<1>9. n = NoFlow => \A g \in elems' : r[g] < r[f]
  BY <1>3, <1>6, <1>8 DEF n
<1>10. n # NoFlow => \A g \in elems' : r[f] < r[g] => r[n] <= r[g]
  BY <1>3, <1>6 DEF n
<1>11. p # NoFlow => \A g \in elems' : r[p] < r[g] => r[f] < r[g]
  <2> SUFFICES ASSUME p # NoFlow, NEW g \in elems', r[p] < r[g] PROVE r[f] < r[g]
    OBVIOUS
  <2>1. p \in elems /\ next[p] = f /\ f # NoFlow
    BY <1>1, <1>6, <1>7
  <2>2. r[f] <= r[g]
    BY <1>3, <1>6, <2>1
  <2> QED
    BY <1>6, <1>8, <2>2
<1>12. IF head' = NoFlow THEN elems' = {}
       ELSE head' \in elems' /\ \A g \in elems' : r[head'] <= r[g]
  <2>1. CASE p = NoFlow
    <3>1. \A g \in elems' : r[f] < r[g]
      BY <1>2, <1>6, <1>7, <1>8, <2>1
    <3>2. CASE n = NoFlow
      <4>1. elems' = {}
        BY <1>6, <1>8, <1>9, <3>1, <3>2
      <4> QED
        BY <1>7, <2>1, <3>2, <4>1
    <3>3. CASE n # NoFlow
      BY <1>7, <1>10, <2>1, <3>1, <3>3
    <3> QED
      BY <3>2, <3>3
  <2>2. CASE p # NoFlow
    <3>1. head # f
      BY <1>2, <1>6, <1>7, <1>8, <2>2
    <3> QED
      BY <1>1, <1>2, <1>6, <1>7, <2>2, <3>1
  <2> QED
    BY <2>1, <2>2
<1>13. ASSUME NEW g \in elems'
       PROVE  IF next'[g] = NoFlow THEN \A h \in elems' : r[h] <= r[g]
              ELSE /\ next'[g] \in elems' /\ r[g] < r[next'[g]] /\ prev'[next'[g]] = g
                   /\ \A h \in elems' : r[g] < r[h] => r[next'[g]] <= r[h]
  <2>1. CASE g = p /\ n = NoFlow
    <3>1. next'[g] = NoFlow /\ p # NoFlow
      BY <1>6, <2>1
    <3>2. \A h \in elems' : r[h] <= r[g]
      BY <1>6, <1>8, <1>9, <1>11, <2>1, <3>1
    <3> QED
      BY <3>1, <3>2
  <2>2. CASE g = p /\ n # NoFlow
    <3>1. next'[g] = n /\ p # NoFlow /\ n \in elems' /\ prev'[n] = p
      BY <1>6, <1>7, <2>2
    <3>2. r[g] < r[n]
      BY <1>6, <1>7, <1>8, <2>2, <3>1
    <3>3. \A h \in elems' : r[g] < r[h] => r[n] <= r[h]
      BY <1>10, <1>11, <2>2, <3>1
    <3> QED
      BY <2>2, <3>1, <3>2, <3>3
  <2>3. CASE g # p
    <3>1. next'[g] = next[g] /\ g \in elems /\ g # f
      BY <1>6, <2>3
    <3>2. CASE next[g] = NoFlow
      BY <1>3, <1>6, <3>1, <3>2
    <3>3. CASE next[g] # NoFlow
      <4>1. next[g] \in elems /\ prev[next[g]] = g
        BY <1>3, <3>1, <3>3
      <4>2. next[g] # f
        BY <2>3, <4>1 DEF p
      <4>3. next[g] # n
        BY <1>7, <3>1, <3>3, <4>1
      <4>4. next[g] \in elems' /\ prev'[next[g]] = g
        BY <1>6, <4>1, <4>2, <4>3
      <4> QED
        BY <1>3, <1>6, <3>1, <3>3, <4>4
    <3> QED
      BY <3>2, <3>3
  <2> QED
    BY <2>1, <2>2, <2>3
<1>14. ASSUME NEW g \in elems'
       PROVE  IF prev'[g] = NoFlow THEN g = head' ELSE prev'[g] \in elems' /\ next'[prev'[g]] = g
  <2>1. CASE g = n
    BY <1>6, <1>7, <2>1
  <2>2. CASE g # n /\ prev[g] = NoFlow
    BY <1>4, <1>6, <1>7, <2>2
  <2>3. CASE g # n /\ prev[g] # NoFlow
    <3>1. prev'[g] = prev[g] /\ prev[g] \in elems /\ next[prev[g]] = g /\ g # f
      BY <1>4, <1>6, <2>3
    <3>2. prev[g] # f
      BY <2>3, <3>1 DEF n
    <3>3. prev[g] # p
      BY <1>7, <3>1, <2>3
    <3> QED
      BY <1>6, <2>3, <3>1, <3>2, <3>3
  <2> QED
    BY <2>1, <2>2, <2>3
<1>15. \A g, h \in elems' : r[g] = r[h] => g = h
  BY <1>2, <1>6
<1> QED
  BY <1>12, <1>13, <1>14, <1>15 DEF Listed

\* A flow becomes the first of the list.
LEMMA InstallLists ==
  ASSUME FlowsAssumption, LinksTyped, NEW r \in Ranks, Listed(r), NEW f \in Flows, f \notin elems,
         next' = [next EXCEPT ![f] = head],
         prev' = [g \in Flows |-> IF g = f THEN NoFlow ELSE IF g = head THEN f ELSE prev[g]],
         head' = f, elems' = elems \cup {f}
  PROVE  \E s \in Ranks : Listed(s)'
<1> DEFINE s == [r EXCEPT ![f] = IF head = NoFlow THEN 0 ELSE r[head] - 1]
<1>1. /\ elems \subseteq Flows /\ NoFlow \notin Flows
      /\ next \in [Flows -> Flows \cup {NoFlow}] /\ prev \in [Flows -> Flows \cup {NoFlow}]
      /\ \A g \in elems : r[g] \in Int
  BY DEF LinksTyped, FlowsAssumption, Ranks, Pointers
<1>2. /\ IF head = NoFlow THEN elems = {} ELSE head \in elems /\ \A g \in elems : r[head] <= r[g]
      /\ \A g, h \in elems : r[g] = r[h] => g = h
  BY DEF Listed
<1>3. \A g \in elems :
         /\ next[g] = NoFlow => \A h \in elems : r[h] <= r[g]
         /\ next[g] # NoFlow =>
              /\ next[g] \in elems /\ r[g] < r[next[g]] /\ prev[next[g]] = g
              /\ \A h \in elems : r[g] < r[h] => r[next[g]] <= r[h]
  BY DEF Listed
<1>4. \A g \in elems : /\ prev[g] = NoFlow => g = head
                       /\ prev[g] # NoFlow => prev[g] \in elems /\ next[prev[g]] = g
  BY DEF Listed
<1>5. s \in Ranks /\ (\A g \in elems : s[g] = r[g]) /\ s[f] \in Int
      /\ \A g \in elems : s[f] < s[g]
  BY <1>1, <1>2 DEF Ranks
<1>a. PICK t \in Ranks : t = s
  BY <1>5
<1> HIDE DEF s
<1>6. \A g \in elems : t[g] = r[g] /\ t[g] \in Int /\ t[f] < t[g]
  BY <1>1, <1>5, <1>a
<1>7. t[f] \in Int /\ \A g \in elems' : g = f \/ (g \in elems /\ g # f)
  BY <1>5, <1>a
<1>8. /\ next'[f] = head /\ prev'[f] = NoFlow /\ head' = f /\ f \in elems'
      /\ \A g \in elems : /\ g \in elems' /\ next'[g] = next[g]
                          /\ prev'[g] = IF g = head THEN f ELSE prev[g]
  BY <1>1
<1>9. head' \in elems' /\ head' # NoFlow /\ \A g \in elems' : t[head'] <= t[g]
  BY <1>1, <1>6, <1>7, <1>8
<1>10. \A g, h \in elems' : t[g] = t[h] => g = h
  BY <1>2, <1>6, <1>7
<1>11. ASSUME NEW g \in elems'
       PROVE  IF next'[g] = NoFlow THEN \A h \in elems' : t[h] <= t[g]
              ELSE /\ next'[g] \in elems' /\ t[g] < t[next'[g]] /\ prev'[next'[g]] = g
                   /\ \A h \in elems' : t[g] < t[h] => t[next'[g]] <= t[h]
  <2>1. CASE g = f /\ head = NoFlow
    BY <1>2, <1>7, <1>8, <2>1
  <2>2. CASE g = f /\ head # NoFlow
    <3>1. head \in elems /\ \A h \in elems : r[head] <= r[h]
      BY <1>2, <2>2
    <3>2. next'[g] = head /\ head \in elems' /\ t[g] < t[head] /\ prev'[head] = g
      BY <1>6, <1>8, <2>2, <3>1
    <3>3. \A h \in elems' : t[g] < t[h] => t[head] <= t[h]
      BY <1>6, <1>7, <2>2, <3>1
    <3> QED
      BY <2>2, <3>2, <3>3
  <2>3. CASE g \in elems /\ next[g] = NoFlow
    BY <1>3, <1>6, <1>7, <1>8, <2>3
  <2>4. CASE g \in elems /\ next[g] # NoFlow
    <3>1. /\ next[g] \in elems /\ r[g] < r[next[g]] /\ prev[next[g]] = g
          /\ \A h \in elems : r[g] < r[h] => r[next[g]] <= r[h]
      BY <1>3, <2>4
    <3>2. next[g] # head
      BY <1>1, <1>2, <2>4, <3>1
    <3>3. next'[g] = next[g] /\ prev'[next[g]] = g /\ next[g] \in elems'
      BY <1>8, <2>4, <3>1, <3>2
    <3>4. \A h \in elems' : t[g] < t[h] => t[next[g]] <= t[h]
      BY <1>6, <1>7, <2>4, <3>1
    <3> QED
      BY <1>6, <2>4, <3>1, <3>3, <3>4
  <2>5. g = f \/ g \in elems
    BY <1>7
  <2> QED
    BY ONLY <2>1, <2>2, <2>3, <2>4, <2>5
<1>12. ASSUME NEW g \in elems'
       PROVE  IF prev'[g] = NoFlow THEN g = head' ELSE prev'[g] \in elems' /\ next'[prev'[g]] = g
  <2>1. CASE g = f
    BY <1>8, <2>1
  <2>2. CASE g \in elems /\ g = head
    BY <1>1, <1>8, <2>2
  <2>3. CASE g \in elems /\ g # head
    <3>1. prev'[g] = prev[g] /\ prev[g] # NoFlow /\ prev[g] \in elems /\ next[prev[g]] = g
      BY <1>4, <1>8, <2>3
    <3>2. prev[g] \in elems' /\ next'[prev[g]] = g
      BY <1>8, <3>1
    <3> QED
      BY <3>1, <3>2
  <2>4. g = f \/ g \in elems
    BY <1>7
  <2> QED
    BY ONLY <2>1, <2>2, <2>3, <2>4
<1>13. Listed(t)'
  BY <1>9, <1>10, <1>11, <1>12 DEF Listed
<1> QED
  BY <1>13

\* The frame on top is done, and the rest of the request follows.
LEMMA EndingDone ==
  ASSUME RunningInv, stack[Running] # <<>>, Running = "server", ToDo \in Seq(Endings),
         Top.op # "rearm", NEW x, x = <<>> \/ (x \in Seq(Endings) /\ Fitting(x)), Continue(x)
  PROVE  /\ StackTyped' /\ stack'["tick"] = <<>> /\ Tail(ToDo) \in Seq(Endings)
         /\ stack'["server"] = x \o Tail(ToDo) /\ ToDo' = x \o Tail(ToDo)
         /\ ToDo' \in Seq(Endings)
<1>1. StackTyped
  BY DEF RunningInv, RunsTyped
<1>2. x \in Seq(Endings) /\ Fitting(x)
  <2>1. <<>> \in Seq(Endings) /\ <<>> \in Seq(Frames)
    OBVIOUS
  <2>2. Fitting(<<>>)
    BY <2>1 DEF Fitting
  <2> QED
    BY <2>1, <2>2
<1>3. ToDo = stack["server"] /\ ToDo # <<>> /\ x \in Seq(Frames)
  BY <1>1, <1>2, ToDoParts DEF Fitting
<1>4. stack'["server"] = x \o Tail(ToDo) /\ stack'["tick"] = <<>> /\ ToDo' = x \o Tail(ToDo)
  BY <1>1, <1>3, ToDoContinues
<1>5. Tail(ToDo) \in Seq(Endings)
  BY <1>3, PartsOf
<1>6. ToDo' \in Seq(Endings)
  BY <1>2, <1>4, <1>5, SequenceJoin
<1> QED
  BY <1>1, <1>2, <1>4, <1>5, <1>6, StackKeeps

LEMMA UnlinkRuns ==
  ASSUME FlowsAssumption, RunningInv, Unlink
  PROVE  RunningInv'
<1>0. stack[Running] # <<>> /\ Top.op = "unlink" /\ Continue(<<>>)
  BY DEF Unlink, At
<1>a. PICK f \in Flows : f = Top.flow
  BY <1>0, EndingParts
<1>1. /\ prev' = IF next[f] = NoFlow THEN prev ELSE [prev EXCEPT ![next[f]] = prev[f]]
      /\ next' = IF prev[f] = NoFlow THEN next ELSE [next EXCEPT ![prev[f]] = next[f]]
      /\ head' = IF prev[f] = NoFlow THEN next[f] ELSE head
      /\ elems' = elems \ {f} /\ flag' = flag \ {<<f, e>> : e \in Ends}
      /\ UNCHANGED <<el, state, pending, auFlow>>
  BY <1>a DEF Unlink
<1>b. PICK c \in Closings(f) : c = Tail(ToDo)
  BY <1>0, <1>a, EndingParts
<1>2. /\ Running = "server" /\ ToDo \in Seq(Endings) /\ f \in Mortal \cap elems /\ Quieted(f)
  BY <1>0, <1>a, EndingParts
<1>3. /\ flag = {} /\ \A g \in elems : pending[g] = Amount(el[g])
      /\ \A g \in Mortal \cap elems : state[g] = pending[g]
  BY <1>2, Quiescent
<1>4. /\ StackTyped' /\ stack'["tick"] = <<>> /\ c \in Seq(Endings)
      /\ stack'["server"] = <<>> \o c /\ ToDo' \in Seq(Endings)
  BY <1>0, <1>2, <1>b, EndingDone
<1>5. state[f] = "Stop" /\ pending[f] = "Stop"
  <2>1. Amount(el[f]) = "Stop"
    BY <1>2 DEF Quieted, Amount
  <2> QED
    BY <1>2, <1>3, <2>1
<1>6. RequestShaped'
  <2>1. f \notin elems' /\ <<>> \in Seq(Body)
    BY <1>1
  <2>2. PICK a \in Seq(Body) : a = <<>>
    BY <2>1
  <2>3. Ended(a, c)'
    BY <2>1 DEF Ended, Closings
  <2> QED
    BY <1>4, <2>2, <2>3, ShapeEnds
<1>7. /\ LinksTyped /\ StatesTyped /\ auFlow \in Compilations
  BY DEF RunningInv, RunsTyped
<1>8. RunsTyped'
  <2>1. LinksTyped'
    <3>1. next[f] \in Flows \cup {NoFlow} /\ prev[f] \in Flows \cup {NoFlow}
      BY <1>7 DEF LinksTyped, Pointers
    <3>2. /\ head \in Flows \cup {NoFlow}
          /\ next \in [Flows -> Flows \cup {NoFlow}] /\ prev \in [Flows -> Flows \cup {NoFlow}]
      BY <1>7 DEF LinksTyped, Pointers
    <3>3. prev' \in [Flows -> Flows \cup {NoFlow}]
      BY <1>1, <3>1, <3>2
    <3>4. next' \in [Flows -> Flows \cup {NoFlow}] /\ head' \in Flows \cup {NoFlow}
      BY <1>1, <3>1, <3>2
    <3>5. elems' \in SUBSET Flows
      BY <1>1, <1>7 DEF LinksTyped
    <3> QED
      BY <3>3, <3>4, <3>5 DEF LinksTyped, Pointers
  <2>2. StatesTyped'
    BY <1>1, <1>3, <1>7 DEF StatesTyped
  <2> QED
    BY <1>1, <1>4, <1>7, <2>1, <2>2 DEF RunsTyped
<1>9. \E r \in Ranks : Listed(r)'
  <2>1. PICK r \in Ranks : Listed(r)
    BY DEF RunningInv, ListOrdered
  <2>2. Listed(r)'
    BY <1>1, <1>2, <1>7, <2>1, UnlinkLists
  <2> QED
    BY <2>2
<1>10. Within(auFlow', {g \in elems' : state'[g] = "Start"})
  <2>1. Doing = "unlink"
    BY <1>0, ToDoParts DEF RunningInv, RunsTyped
  <2>2. Within(auFlow, {g \in elems : state[g] = "Start"})
    BY <2>1 DEF RunningInv, RunningStarted
  <2>3. {g \in elems : state[g] = "Start"} \subseteq {g \in elems' : state'[g] = "Start"}
    BY <1>1, <1>5
  <2> QED
    BY <1>1, <2>2, <2>3, WithinMore
<1>11. \A g \in Flows \ elems' : pending'[g] = "Stop"
  BY <1>1, <1>5 DEF RunningInv, Counted
<1>12. /\ \A g \in elems' : pending'[g] = Amount(el'[g])
       /\ \A g \in Mortal \cap elems' : state'[g] = pending'[g]
  BY <1>1, <1>3
<1>13. flag' = {}
  BY <1>1, <1>3
<1> QED
  BY <1>4, <1>6, <1>8, <1>9, <1>10, <1>11, <1>12, <1>13, EndStep

LEMMA InstallElementsRuns ==
  ASSUME FlowsAssumption, ~Unlisted, RunningInv, InstallElements
  PROVE  RunningInv'
<1>0. stack[Running] # <<>> /\ Top.op = "install"
  BY DEF InstallElements, At
<1>a. PICK f \in Flows : f = Top.flow
  BY <1>0, EndingParts
<1>2. /\ Running = "server" /\ ToDo \in Seq(Endings) /\ f \notin elems /\ Tail(ToDo) = <<>>
      /\ Top.outcome \in Outcomes /\ (Top.outcome # "ok" => f \in Mortal)
  BY <1>0, <1>a, EndingParts
<1>b. PICK x : x = If(Top.outcome # "ok", <<OnFlow("free", f)>>)
  OBVIOUS
<1>1. /\ el' = [el EXCEPT ![f] = [e \in Ends |-> "Stop"]]
      /\ flag' = flag \ {<<f, e>> : e \in Ends}
      /\ state' = [state EXCEPT ![f] = "Stop"] /\ elems' = elems \cup {f}
      /\ next' = [next EXCEPT ![f] = head]
      /\ prev' = [g \in Flows |-> IF g = f THEN NoFlow ELSE IF g = head THEN f ELSE prev[g]]
      /\ head' = f /\ Continue(x) /\ UNCHANGED <<pending, auFlow>>
  BY <1>2, <1>a, <1>b DEF InstallElements, Unlisted
<1>3. /\ flag = {} /\ \A g \in elems : pending[g] = Amount(el[g])
      /\ \A g \in Mortal \cap elems : state[g] = pending[g]
  BY <1>2, Quiescent
<1>4. OnFlow("free", f) \in Endings /\ OnFlow("free", f).op = "free" /\ Endings \subseteq Frames
  BY SimpleFrames, CallsAreFrames DEF Simple, FlowOps, Endings, OnFlow
<1>5. \/ x = <<>> /\ Top.outcome = "ok"
      \/ x = <<OnFlow("free", f)>> /\ Top.outcome # "ok"
  BY <1>b DEF If
<1>6. x = <<>> \/ (x \in Seq(Endings) /\ Fitting(x))
  <2> DEFINE y == OnFlow("free", f)
             o == <<y>>
  <2> HIDE DEF y
  <2>1. y \in Endings /\ y \in Frames /\ y.op = "free"
    BY <1>4 DEF y
  <2>2. o \in Seq(Endings) /\ o \in Seq(Frames) /\ \A i \in 1 .. Len(o) : o[i] = y
    BY <2>1
  <2>3. Fitting(o)
    BY <2>1, <2>2 DEF Fitting
  <2> QED
    BY <1>5, <2>2, <2>3 DEF y
<1>7. /\ StackTyped' /\ stack'["tick"] = <<>> /\ ToDo' \in Seq(Endings)
      /\ stack'["server"] = x \o <<>>
  BY <1>0, <1>1, <1>2, <1>6, EndingDone
<1>8. RequestShaped'
  <2>1. <<>> \in Seq(Body) /\ <<>> \in Seq(Endings)
    OBVIOUS
  <2>2. PICK a \in Seq(Body) : a = <<>>
    BY <2>1
  <2>3. x \in Seq(Endings)
    BY <1>6, <2>1
  <2>4. x \o <<>> = x /\ <<>> \o x = x
    BY <2>3, JoinEmpty
  <2>5. Ended(a, x)'
    <3>1. CASE x = <<>>
      BY <3>1 DEF Ended
    <3>2. CASE x = <<OnFlow("free", f)>> /\ Top.outcome # "ok"
      <4>1. PICK c \in Closings(f) : c = <<>>
        BY DEF Closings
      <4>2. x = <<OnFlow("free", f)>> \o c /\ f \in Mortal
        BY <1>2, <2>4, <3>2, <4>1
      <4> QED
        BY <4>2 DEF Ended, Closings
    <3> QED
      BY <1>5, <3>1, <3>2
  <2> QED
    BY <1>7, <2>2, <2>3, <2>4, <2>5, ShapeEnds
<1>9. /\ LinksTyped /\ StatesTyped /\ auFlow \in Compilations
  BY DEF RunningInv, RunsTyped
<1>10. RunsTyped'
  <2>1. LinksTyped'
    BY <1>1, <1>9 DEF LinksTyped, Pointers
  <2>2. [e \in Ends |-> "Stop"] \in [Ends -> States] /\ "Stop" \in States
    BY DEF States
  <2>3. el' \in [Flows -> [Ends -> States]] /\ state' \in [Flows -> States]
    BY <1>1, <1>9, <2>2 DEF StatesTyped
  <2>4. StatesTyped'
    BY <1>1, <1>3, <1>9, <2>3 DEF StatesTyped
  <2> QED
    BY <1>1, <1>7, <1>9, <2>1, <2>4 DEF RunsTyped
<1>11. \E r \in Ranks : Listed(r)'
  <2>1. PICK r \in Ranks : Listed(r)
    BY DEF RunningInv, ListOrdered
  <2> QED
    BY <1>1, <1>2, <1>9, <2>1, InstallLists
<1>12. /\ el'[f] = [e \in Ends |-> "Stop"] /\ state'[f] = "Stop" /\ pending'[f] = "Stop"
       /\ \A g \in elems : g # f /\ g \in Flows /\ el'[g] = el[g] /\ state'[g] = state[g]
                           /\ pending'[g] = pending[g]
  BY <1>1, <1>2, <1>9 DEF StatesTyped, LinksTyped, RunningInv, Counted
<1>13. Within(auFlow', {g \in elems' : state'[g] = "Start"})
  <2>1. Doing = "install"
    BY <1>0, ToDoParts DEF RunningInv, RunsTyped
  <2>2. Within(auFlow, {g \in elems : state[g] = "Start"})
    BY <2>1 DEF RunningInv, RunningStarted
  <2>3. {g \in elems : state[g] = "Start"} \subseteq {g \in elems' : state'[g] = "Start"}
    BY <1>1, <1>12
  <2> QED
    BY <1>1, <2>2, <2>3, WithinMore
<1>14. \A g \in Flows \ elems' : pending'[g] = "Stop"
  BY <1>1 DEF RunningInv, Counted
<1>15. /\ \A g \in elems' : pending'[g] = Amount(el'[g])
       /\ \A g \in Mortal \cap elems' : state'[g] = pending'[g]
  <2>1. Amount([e \in Ends |-> "Stop"]) = "Stop"
    BY DEF Amount
  <2>2. \A g \in elems : Amount(el'[g]) = Amount(el[g])
    BY <1>12
  <2> QED
    BY <1>1, <1>3, <1>12, <2>1, <2>2
<1>16. flag' = {}
  BY <1>1, <1>3
<1> QED
  BY <1>7, <1>8, <1>10, <1>11, <1>13, <1>14, <1>15, <1>16, EndStep

LEMMA FreeFlowRuns ==
  ASSUME FlowsAssumption, RunningInv, FreeFlow
  PROVE  RunningInv'
<1>0. stack[Running] # <<>> /\ Top.op = "destroy" /\ Continue(<<>>)
  BY DEF FreeFlow, At
<1>a. PICK f \in Flows : f = Top.flow
  BY <1>0, EndingParts
<1>2. Running = "server" /\ ToDo \in Seq(Endings) /\ f \notin elems /\ Tail(ToDo) = <<>>
  BY <1>0, <1>a, EndingParts
<1>1. /\ next' = [next EXCEPT ![f] = NoFlow] /\ prev' = [prev EXCEPT ![f] = NoFlow]
      /\ state' = [state EXCEPT ![f] = "Stop"] /\ pending' = [pending EXCEPT ![f] = "Stop"]
      /\ UNCHANGED <<head, elems, el, flag, auFlow>>
  BY <1>a DEF FreeFlow, elements
<1>3. /\ flag = {} /\ \A g \in elems : pending[g] = Amount(el[g])
      /\ \A g \in Mortal \cap elems : state[g] = pending[g]
  BY <1>2, Quiescent
<1>7. /\ StackTyped' /\ stack'["tick"] = <<>> /\ ToDo' \in Seq(Endings)
      /\ stack'["server"] = <<>> \o <<>>
  BY <1>0, <1>2, EndingDone
<1>8. RequestShaped'
  <2>1. <<>> \in Seq(Body) /\ <<>> \in Seq(Endings)
    OBVIOUS
  <2>2. PICK a \in Seq(Body), z \in Seq(Endings) : a = <<>> /\ z = <<>>
    BY <2>1
  <2>3. Ended(a, z)'
    BY <2>2 DEF Ended
  <2> QED
    BY <1>7, <2>2, <2>3, ShapeEnds
<1>9. /\ LinksTyped /\ StatesTyped /\ auFlow \in Compilations
  BY DEF RunningInv, RunsTyped
<1>10. RunsTyped'
  <2>1. LinksTyped'
    BY <1>1, <1>9 DEF LinksTyped, Pointers
  <2>2. "Stop" \in States
    BY DEF States
  <2>4. StatesTyped'
    BY <1>1, <1>3, <1>9, <2>2 DEF StatesTyped
  <2> QED
    BY <1>1, <1>7, <1>9, <2>1, <2>4 DEF RunsTyped
<1>12. \A g \in elems : /\ g # f /\ state'[g] = state[g] /\ pending'[g] = pending[g]
                        /\ next'[g] = next[g] /\ prev'[g] = prev[g]
  BY <1>1, <1>2, <1>9 DEF StatesTyped, LinksTyped
<1>11. \E r \in Ranks : Listed(r)'
  <2>1. PICK r \in Ranks : Listed(r)
    BY DEF RunningInv, ListOrdered
  <2>2. Listed(r)'
    BY <1>1, <1>12, <2>1 DEF Listed
  <2> QED
    BY <2>2
<1>13. Within(auFlow', {g \in elems' : state'[g] = "Start"})
  <2>1. Doing = "destroy"
    BY <1>0, ToDoParts DEF RunningInv, RunsTyped
  <2>2. Within(auFlow, {g \in elems : state[g] = "Start"})
    BY <2>1 DEF RunningInv, RunningStarted
  <2>3. {g \in elems : state[g] = "Start"} \subseteq {g \in elems' : state'[g] = "Start"}
    BY <1>1, <1>12
  <2> QED
    BY <1>1, <2>2, <2>3, WithinMore
<1>14. \A g \in Flows \ elems' : pending'[g] = "Stop"
  BY <1>1, <1>9 DEF RunningInv, Counted, StatesTyped
<1>15. /\ \A g \in elems' : pending'[g] = Amount(el'[g])
       /\ \A g \in Mortal \cap elems' : state'[g] = pending'[g]
  BY <1>1, <1>3, <1>12
<1>16. flag' = {}
  BY <1>1, <1>3
<1> QED
  BY <1>7, <1>8, <1>10, <1>11, <1>13, <1>14, <1>15, <1>16, EndStep

-----------------------------------------------------------------------------
(* The requests.                                                             *)

\* The frames with which a request begins.
Asked == {x \in Simple : x.op \in {"change", "process", "free", "install", "destroy"}}

\* What a request leaves for its end.
Begun(z) == \/ z = <<>>
            \/ \E f \in Flows : \E c \in Closings(f) :
                 z = <<OnFlow("free", f)>> \o c /\ (f \in Mortal \/ f \notin elems)

LEMMA ServeRuns ==
  ASSUME RunningInv, NEW q \in Seq(Asked), Serve(q),
         \A f \in Mortal : Followed(q, Noisy(f), Settling(f)),
         NEW a \in Seq(Body), NEW z \in Seq(Endings), q = a \o z, Begun(z)
  PROVE  RunningInv'
<1>1. /\ stack["server"] = <<>> /\ stack["tick"] = <<>>
      /\ stack' = [stack EXCEPT !["server"] = q]
      /\ UNCHANGED <<links, elems, el, flag, state, pending, auFlow>>
  BY DEF Serve, Idle, elements
<1>2. Asked \subseteq Frames /\ Asked \subseteq Light /\ Asked \subseteq Countable
  BY CallsAreFrames DEF Asked, Simple, Light, Countable, Passes
<1>3. /\ q \in Seq(Frames) /\ q \in Seq(Light) /\ q \in Seq(Countable)
      /\ \A i \in 1 .. Len(q) : q[i] \in Asked
  BY <1>2, SeqElements
<1>4. stack \in [Threads -> Seq(Frames)]
  BY DEF RunningInv, RunsTyped, StackTyped
<1>5. stack'["server"] = q /\ stack'["tick"] = <<>> /\ stack' \in [Threads -> Seq(Frames)]
  BY <1>1, <1>3, <1>4 DEF Threads
<1>6. StackTyped'
  <2>1. \A i \in 1 .. Len(stack'["server"]) :
          stack'["server"][i].op \notin {"rearm", "read", "note"}
    BY <1>3, <1>5 DEF Asked
  <2>2. \A i \in 1 .. Len(stack'["tick"]) : FALSE
    BY <1>5
  <2> QED
    BY <1>5, <2>1, <2>2 DEF StackTyped
<1>7. ToDo = <<>> /\ Doing = "none" /\ ToDo' = q
  <2>1. <<>> \o <<>> = <<>> /\ <<>> \o q = q
    BY <1>3, JoinEmpty
  <2> QED
    BY <1>1, <1>5, <2>1 DEF ToDo, Doing
<1>8. RequestShaped'
  <2>1. Ended(a, z)'
    BY <1>1 DEF Begun, Ended, Closings
  <2>2. stack'["server"] = a \o z
    BY <1>5
  <2> QED
    BY <1>5, <2>1, <2>2, ShapeEnds
<1>9. Covered'
  BY <1>7 DEF Covered, Noisy, Settling
<1>10. Rest(ToDo) /\ Grown(ToDo, ToDo')
  <2>1. \A A, B : ~Has(<<>>, B) /\ ~Before(<<>>, A, B)
    BY DEF Has, Before
  <2>2. Rest(ToDo)
    BY <1>7 DEF Rest
  <2> QED
    BY <1>7, <2>1, <2>2 DEF Grown
<1> QED
  BY <1>1, <1>3, <1>6, <1>7, <1>8, <1>9, <1>10, PlainStep

LEMMA TwoJoined ==
  ASSUME NEW S, NEW x \in S, NEW y \in S
  PROVE  <<x, y>> \in Seq(S) /\ <<x>> \o <<y>> = <<x, y>>
<1> DEFINE p == <<x>>
           q == <<y>>
           t == <<x, y>>
           w == p \o q
<1>1. /\ p \in Seq(S) /\ q \in Seq(S) /\ t \in Seq(S)
      /\ Len(p) = 1 /\ Len(q) = 1 /\ Len(t) = 2
      /\ p[1] = x /\ q[1] = y /\ t[1] = x /\ t[2] = y
  BY OneFrame, TwoFrames
<1> HIDE DEF p, q, t
<1>2. /\ w \in Seq(S) /\ Len(w) = Len(p) + Len(q)
      /\ \A k \in 1 .. Len(p) : w[k] = p[k]
      /\ \A k \in 1 .. Len(q) : w[Len(p) + k] = q[k]
  <2>1. p \in Seq(S) /\ q \in Seq(S)
    BY <1>1
  <2>2. /\ p \o q \in Seq(S) /\ Len(p \o q) = Len(p) + Len(q)
        /\ \A k \in 1 .. Len(p) : (p \o q)[k] = p[k]
        /\ \A k \in 1 .. Len(q) : (p \o q)[Len(p) + k] = q[k]
    BY ONLY <2>1, SequenceJoin
  <2> QED
    BY <2>2
<1> HIDE DEF w
<1>3. Len(w) = 2 /\ w[1] = x /\ w[2] = y
  BY <1>1, <1>2
<1>4. \A i \in 1 .. Len(w) : w[i] = t[i]
  BY <1>1, <1>3
<1>5. w = t
  BY ONLY <1>1, <1>2, <1>3, <1>4, SequencesEqual
<1> QED
  BY <1>1, <1>5 DEF w, p, q, t

\* A request that frees the elements of a flow.
LEMMA FreesFirst ==
  ASSUME RunningInv, NEW f \in Flows, f \in Mortal \/ f \notin elems,
         NEW y \in Asked \cap Endings, <<y>> \in Closings(f), Serve(<<OnFlow("free", f), y>>)
  PROVE  RunningInv'
<1> DEFINE x == OnFlow("free", f)
<1>1. x \in Asked \cap Endings
  BY SimpleFrames, CallsAreFrames DEF FlowOps, Asked, Simple, Endings, OnFlow
<1> HIDE DEF x
<1>2. PICK q \in Seq(Asked) : q = <<x, y>>
  BY <1>1, TwoJoined
<1>3. PICK z \in Seq(Endings) : z = <<x, y>> /\ z = <<x>> \o <<y>>
  BY <1>1, TwoJoined
<1>4. PICK a \in Seq(Body) : a = <<>>
  <2>1. <<>> \in Seq(Body)
    OBVIOUS
  <2> QED
    BY <2>1
<1>5. q = a \o z
  BY <1>2, <1>3, <1>4, JoinEmpty
<1>6. Begun(z)
  BY <1>3 DEF Begun, x
<1>7. \A g \in Mortal : Followed(q, Noisy(g), Settling(g))
  <2> SUFFICES ASSUME NEW g \in Mortal PROVE Followed(q, Noisy(g), Settling(g))
    OBVIOUS
  <2> DEFINE A == Noisy(g)
  <2>1. Endings \cap A = {}
    BY DEF Endings, Noisy
  <2> HIDE DEF A
  <2>2. q \in Seq(Endings)
    BY <1>2, <1>3
  <2>3. Followed(q, A, Settling(g))
    BY <2>1, <2>2, NoneFollowed
  <2> QED
    BY <2>3 DEF A
<1>8. Serve(q)
  BY <1>2 DEF x
<1> QED
  BY <1>5, <1>6, <1>7, <1>8, ServeRuns

\* A request without an end of this kind.
LEMMA ChangesOnly ==
  ASSUME RunningInv, NEW q \in Seq(Asked \cap Body), Serve(q),
         \A f \in Mortal : Followed(q, Noisy(f), Settling(f))
  PROVE  RunningInv'
<1>1. q \in Seq(Asked) /\ q \in Seq(Body)
  OBVIOUS
<1>2. PICK a \in Seq(Body) : a = q
  BY <1>1
<1>3. PICK z \in Seq(Endings) : z = <<>>
  <2>1. <<>> \in Seq(Endings)
    OBVIOUS
  <2> QED
    BY <2>1
<1>4. q = a \o z /\ Begun(z)
  BY <1>2, <1>3, JoinEmpty DEF Begun
<1> QED
  BY <1>1, <1>4, ServeRuns

\* What the invariant reads stays as it is.
LEMMA RunsSame ==
  ASSUME RunningInv, UNCHANGED <<links, elems, el, flag, state, pending, auFlow, stack>>
  PROVE  RunningInv'
<1>1. ToDo' = ToDo /\ Doing' = Doing /\ StackTyped
  BY DEF ToDo, Doing, RunningInv, RunsTyped
<1>2. RunsTyped'
  BY DEF RunningInv, RunsTyped, StatesTyped, StackTyped, LinksTyped, links
<1>3. HeadOnly'
  BY <1>1 DEF RunningInv, HeadOnly, Light
<1>4. RequestShaped'
  <2>1. PICK a \in Seq(Body) : \E z \in Seq(Endings) : stack["server"] = a \o z /\ Ended(a, z)
    BY DEF RunningInv, RequestShaped
  <2>2. PICK z \in Seq(Endings) : stack["server"] = a \o z /\ Ended(a, z)
    BY <2>1
  <2>3. \A f \in Flows : Quieted(f) => Quieted(f)'
    BY <1>1 DEF Quieted, Harmless
  <2>4. Ended(a, z)'
    BY <2>2, <2>3 DEF Ended
  <2> QED
    BY <2>2, <2>4 DEF RunningInv, RequestShaped
<1>5. ListOrdered'
  <2>1. PICK r \in Ranks : Listed(r) /\ Updated(r)
    BY DEF RunningInv, ListOrdered
  <2>2. Listed(r)'
    BY <2>1 DEF Listed, links
  <2>3. Updated(r)'
    BY <1>1, <2>1 DEF Updated
  <2> QED
    BY <2>2, <2>3 DEF ListOrdered, Ranks
<1>6. Compiled' /\ RunningStarted'
  BY <1>1 DEF RunningInv, Compiled, RunningStarted, Ready, Within
<1>7. FlagsChecked'
  BY <1>1 DEF RunningInv, FlagsChecked, ChecksOf, CountsOf
<1>8. Counted'
  BY <1>1 DEF RunningInv, Counted, Countable, CountsOf, Amount
<1>9. Covered' /\ ToBeSettled'
  BY <1>1 DEF RunningInv, Covered, ToBeSettled, Noisy, Settling
<1> QED
  BY <1>2, <1>3, <1>4, <1>5, <1>6, <1>7, <1>8, <1>9 DEF RunningInv

LEMMA RequestRuns ==
  ASSUME FlowsAssumption, RunningInv, Request
  PROVE  RunningInv'
<1>0. elems \subseteq Flows
  BY DEF RunningInv, RunsTyped, LinksTyped
<1>1. CASE SetElementStates
  <2>0. PICK k \in 1 .. MaxChanges :
          \E fs \in [1 .. k -> elems], ss \in [1 .. k -> States] :
            Serve([i \in 1 .. k |-> Change(fs[i], Ends, ss[i], FALSE, "User")] \o <<Process>>)
    BY <1>1 DEF SetElementStates
  <2>1. PICK fs \in [1 .. k -> elems], ss \in [1 .. k -> States] :
          Serve([i \in 1 .. k |-> Change(fs[i], Ends, ss[i], FALSE, "User")] \o <<Process>>)
    BY <2>0
  <2> DEFINE p == [i \in 1 .. k |-> Change(fs[i], Ends, ss[i], FALSE, "User")]
             w == <<Process>>
             S == Asked \cap Body
  <2>2. k \in Nat
    BY DEF FlowsAssumption
  <2>3. \A i \in 1 .. k : Change(fs[i], Ends, ss[i], FALSE, "User") \in S
    <3> SUFFICES ASSUME NEW i \in 1 .. k
                 PROVE  Change(fs[i], Ends, ss[i], FALSE, "User") \in S
      OBVIOUS
    <3>1. fs[i] \in Flows /\ ss[i] \in States /\ "User" \in Reasons /\ FALSE \in BOOLEAN
      BY <1>0 DEF Reasons
    <3>2. Change(fs[i], Ends, ss[i], FALSE, "User") \in Simple
      BY <3>1, SimpleFrames
    <3>3. Change(fs[i], Ends, ss[i], FALSE, "User").op = "change"
      BY DEF Change
    <3> HIDE DEF p
    <3> QED
      BY <3>2, <3>3, CallsAreFrames DEF Asked, Body, Simple
  <2>4. p \in Seq(S)
    <3>1. p \in [1 .. k -> S]
      BY <2>3
    <3> HIDE DEF p, S
    <3> QED
      BY <2>2, <3>1, FunctionIsSeq
  <2>5. Process \in S /\ Process.op = "process"
    BY SimpleFrames, CallsAreFrames DEF Asked, Body, Simple, Process
  <2>6. w \in Seq(S)
    BY <2>5, OneFrame
  <2>7. ASSUME NEW f \in Mortal PROVE Followed(p \o w, Noisy(f), Settling(f))
    <3> DEFINE A == Noisy(f)
               B == Settling(f)
    <3>1. Process \notin A /\ Process \in B
      BY <2>5, CallsAreFrames DEF Noisy, Settling, Asked, Body
    <3> HIDE DEF A, B
    <3>2. Followed(w, A, B) /\ Has(w, B)
      BY <2>5, <3>1, OnlyOne
    <3> HIDE DEF p, w, S
    <3>3. Followed(p \o w, A, B)
      BY <2>4, <2>6, <3>2, JoinFollowed
    <3> QED
      BY <3>3 DEF A, B
  <2>8. Serve(p \o w)
    BY <2>1
  <2> HIDE DEF p, w, S
  <2>9. p \o w \in Seq(S)
    BY ONLY <2>4, <2>6, SequenceJoin
  <2>10. PICK q \in Seq(S) : q = p \o w
    BY <2>9
  <2> QED
    BY <2>7, <2>8, <2>10, ChangesOnly DEF S
<1>2. CASE WriteElement
  <2>1. PICK f \in Clients \cap elems : Serve(<<Change(f, {"in"}, "Start", TRUE, "User")>>)
    BY <1>2 DEF WriteElement
  <2> DEFINE x == Change(f, {"in"}, "Start", TRUE, "User")
  <2>2. x \in Simple /\ x.op = "change" /\ x.process = TRUE
    <3>1. f \in Flows /\ {"in"} \in SUBSET Ends /\ "Start" \in States /\ "User" \in Reasons
      BY <1>0 DEF Ends, States, Reasons
    <3>2. x \in Simple
      BY <3>1, SimpleFrames
    <3> QED
      BY <3>2 DEF Change
  <2> HIDE DEF x
  <2>3. x \in Asked \cap Body
    BY <2>2, CallsAreFrames DEF Asked, Body, Simple
  <2>4. PICK q \in Seq(Asked \cap Body) : q = <<x>>
    BY <2>3, OneFrame
  <2>5. ASSUME NEW g \in Mortal PROVE Followed(q, Noisy(g), Settling(g))
    <3> DEFINE A == Noisy(g)
    <3>1. x \notin A
      BY <2>2 DEF Noisy
    <3> HIDE DEF A
    <3>2. Followed(<<x>>, A, Settling(g))
      BY <2>3, <3>1, OnlyOne
    <3> QED
      BY <2>4, <3>2 DEF A
  <2>6. Serve(q)
    BY <2>1, <2>4 DEF x
  <2> QED
    BY <2>5, <2>6, ChangesOnly
<1>3. CASE SetElements
  <2>1. PICK f \in Flows, outcome \in Outcomes :
          /\ f \in Mortal \/ (f \notin elems /\ outcome = "ok")
          /\ Serve(<<OnFlow("free", f), Install(f, outcome)>>)
    BY <1>3 DEF SetElements
  <2>2. PICK y : y = Install(f, outcome)
    OBVIOUS
  <2>3. y \in Asked \cap Endings /\ <<y>> \in Closings(f)
    <3>1. y \in Asked \cap Endings
      BY <2>2, SimpleFrames, CallsAreFrames DEF Asked, Endings, Simple, Install
    <3> QED
      BY <2>1, <2>2, <3>1 DEF Closings
  <2> QED
    BY <2>1, <2>2, <2>3, FreesFirst
<1>4. CASE DestroyFlow
  <2>1. PICK f \in Mortal : Serve(<<OnFlow("free", f), OnFlow("destroy", f)>>)
    BY <1>4 DEF DestroyFlow
  <2>2. PICK y : y = OnFlow("destroy", f)
    OBVIOUS
  <2>3. f \in Flows
    BY DEF FlowsAssumption
  <2>4. y \in Asked \cap Endings /\ <<y>> \in Closings(f)
    <3>1. y \in Asked \cap Endings
      BY <2>2, <2>3, SimpleFrames, CallsAreFrames DEF Asked, Endings, Simple, OnFlow, FlowOps
    <3> QED
      BY <2>2, <3>1 DEF Closings
  <2> QED
    BY <2>1, <2>2, <2>3, <2>4, FreesFirst
<1>5. CASE Reset
  BY <1>5, RunsSame DEF Reset, elements
<1> QED
  BY <1>1, <1>2, <1>3, <1>4, <1>5 DEF Request
-----------------------------------------------------------------------------
(* The theorem.                                                              *)

LEMMA RunsInit ==
  ASSUME FlowsAssumption, FlowsInit
  PROVE  RunningInv
<1>1. /\ stack["server"] = <<>> /\ stack["tick"] = <<>> /\ elems = {} /\ head = NoFlow
      /\ auFlow = <<>> /\ flag = {} /\ pending = [f \in Flows |-> "Stop"] /\ state = pending
      /\ next \in [Flows -> Pointers] /\ prev \in [Flows -> Pointers]
  BY DEF FlowsInit, Pointers
<1>2. ToDo = <<>> /\ Doing = "none"
  <2>1. <<>> \o <<>> = <<>>
    BY JoinEmpty
  <2> QED
    BY <1>1, <2>1 DEF ToDo, Doing
<1>3. StackTyped
  <2>1. <<>> \in Seq(Frames)
    OBVIOUS
  <2>2. stack \in [Threads -> Seq(Frames)]
    BY <2>1 DEF FlowsInit, Threads
  <2> QED
    BY <1>1, <2>2 DEF StackTyped
<1>4. StatesTyped
  BY DEF FlowsInit, StatesTyped, States
<1>5. RunsTyped
  <2>1. auFlow \in Compilations
    BY <1>1 DEF Compilations
  <2>2. LinksTyped
    BY <1>1 DEF LinksTyped, Pointers
  <2> QED
    BY <1>3, <1>4, <2>1, <2>2 DEF RunsTyped
<1>6. RequestShaped
  <2>1. <<>> \in Seq(Body) /\ <<>> \in Seq(Endings)
    OBVIOUS
  <2>2. PICK a \in Seq(Body), z \in Seq(Endings) : a = <<>> /\ z = <<>>
    BY <2>1
  <2>3. stack["server"] = a \o z
    BY <1>1, <2>2, JoinEmpty
  <2>4. Ended(a, z)
    BY <2>2 DEF Ended
  <2> QED
    BY <1>1, <2>1, <2>3, <2>4 DEF RequestShaped
<1>7. ListOrdered
  <2>0. [f \in Flows |-> 0] \in Ranks
    BY DEF Ranks
  <2>1. PICK r \in Ranks : TRUE
    BY <2>0
  <2>2. Listed(r)
    BY <1>1 DEF Listed
  <2>3. Updated(r)
    BY <1>2 DEF Updated
  <2> QED
    BY <2>2, <2>3 DEF ListOrdered
<1>8. HeadOnly /\ Compiled
  BY <1>2 DEF HeadOnly, Compiled, Passes
<1>9. RunningStarted
  BY <1>1, WithinNone DEF RunningStarted
<1>10. FlagsChecked
  BY <1>1 DEF FlagsChecked
<1>11. Counted
  <2>1. <<>> \in Seq(Countable)
    OBVIOUS
  <2> QED
    BY <1>1, <1>2, <2>1 DEF Counted
<1>12. Covered
  <2>1. \A A, B : Followed(<<>>, A, B)
    BY DEF Followed
  <2> QED
    BY <1>2, <2>1 DEF Covered
<1>13. ToBeSettled
  BY <1>1 DEF ToBeSettled
<1> QED
  BY <1>5, <1>6, <1>7, <1>8, <1>9, <1>10, <1>11, <1>12, <1>13 DEF RunningInv

LEMMA RunsImply ==
  ASSUME RunningInv
  PROVE  RunningFlowsExist
BY DEF RunningInv, RunningStarted, Within, RunningFlowsExist

LEMMA RunsNext ==
  ASSUME FlowsAssumption, Undisturbed, RunningInv, FlowsNext
  PROVE  RunningInv'
<1>1. CASE ChangeElementState
  BY <1>1, ChangeStatesRuns, CheckActionsRuns, CountStatesRuns, StoreStateRuns, SilentActions
     DEF ChangeElementState, Undisturbed
<1>2. CASE ProcessClockedFlows
  BY <1>2, ClearProcessedRuns, FindOutputRuns, GatherInputsRuns, UpdateStateRuns,
     SetupCompiledFlowRuns, SwapFlowRuns, SilentActions DEF ProcessClockedFlows
<1>3. CASE Interrupt
  <2>1. CASE Tick /\ auFlow = <<>>
    <3>1. UNCHANGED <<links, elems, el, flag, state, pending, auFlow, stack>>
      BY <2>1 DEF Tick, elements
    <3> QED
      BY <3>1, RunsSame
  <2>2. CASE Tick /\ auFlow # <<>>
    BY <2>2, TickRuns DEF Undisturbed
  <2> QED
    BY <1>3, <2>1, <2>2, ReadInputRuns, NoteChangeRuns, RearmTimerRuns DEF Interrupt
<1>4. CASE Request
  BY <1>4, RequestRuns
<1>5. CASE FlowChange
  BY <1>5, FreeElementsRuns, UnlinkRuns, InstallElementsRuns, FreeFlowRuns
     DEF FlowChange, Undisturbed
<1> QED
  BY <1>1, <1>2, <1>3, <1>4, <1>5 DEF FlowsNext

\* The interrupt runs a flow whose elements are freed only after one of the steps
\* that Undisturbed excludes (auutil.c:123-141): whatever the flows, their actions
\* and the clients, a flow is otherwise stopped, and the others are compiled anew,
\* before the elements go.  The interrupt may come between any two steps besides,
\* actions may change any flow, and elements may be in error.
THEOREM RunningAlwaysExist == FlowsSpec /\ [][Undisturbed]_flowVars => []RunningFlowsExist
<1>1. FlowsInit => RunningInv
  BY RunsInit, FlowsAssumption
<1>2. RunningInv /\ [FlowsNext]_flowVars /\ [Undisturbed]_flowVars => RunningInv'
  <2>1. ASSUME RunningInv, FlowsNext, Undisturbed PROVE RunningInv'
    BY <2>1, RunsNext, FlowsAssumption
  <2>2. ASSUME RunningInv, UNCHANGED flowVars PROVE RunningInv'
    BY <2>2, RunsSame DEF flowVars, elements
  <2> QED
    BY <2>1, <2>2
<1>3. RunningInv => RunningFlowsExist
  BY RunsImply
<1> QED
  BY <1>1, <1>2, <1>3, PTL DEF FlowsSpec
=============================================================================

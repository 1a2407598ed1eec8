-------------------------- MODULE ClientLibraryProofs --------------------------
(* First what widening gives for every modulus (WideningExact).  Then the    *)
(* events of ClientLibrary, for any programs, threads, buffer and socket: as *)
(* long as the library hears from the server in time, events are neither     *)
(* lost nor reordered, and know their request (EventsStayInOrder).           *)
EXTENDS ClientLibrary, CountingLemmas

-----------------------------------------------------------------------------
(* Widening.                                                                 *)

\* The bits that a packet carries of the number of a request.
LowBits(n) == n % Wrap

LEMMA DivMod ==
    ASSUME NEW n \in Nat
    PROVE  /\ n \div Wrap \in Nat
           /\ LowBits(n) \in 0 .. Wrap - 1
           /\ n = (n \div Wrap) * Wrap + LowBits(n)
  BY WrapAssumption, Z3 DEF LowBits

\* Multiples of a positive number that differ, differ by it.
LEMMA MultiplesApart ==
    ASSUME NEW p \in Nat, NEW q \in Nat, p < q
    PROVE  p * Wrap + Wrap <= q * Wrap
<1>1. PICK d \in Nat : q = p + 1 + d
  <2>1. q - p - 1 \in Nat /\ q = p + 1 + (q - p - 1)
    OBVIOUS
  <2>2. QED BY <2>1
<1>2. Wrap \in Nat
  BY WrapAssumption
<1>3. q * Wrap = p * Wrap + Wrap + d * Wrap
  BY <1>1, <1>2, Z3
<1>4. d * Wrap \in Nat /\ p * Wrap \in Nat
  BY <1>1, <1>2, Z3
<1>5. QED BY <1>2, <1>3, <1>4

(* As long as a packet comes before Wrap more requests have been executed    *)
(* than the library has heard of, its number is found exactly                *)
(* (_AuSetLastRequestRead).                                                  *)
THEOREM WideningExact ==
    ASSUME NEW last \in Nat, NEW id \in Nat, NEW request \in Nat,
           last <= id, id <= request, id - last < Wrap
    PROVE  Widened(last, request, LowBits(id)) = id
<1> DEFINE p == last \div Wrap
           q == id \div Wrap
           a == LowBits(last)
           b == LowBits(id)
<1>1. /\ p \in Nat /\ a \in 0 .. Wrap - 1 /\ last = p * Wrap + a
      /\ q \in Nat /\ b \in 0 .. Wrap - 1 /\ id = q * Wrap + b
  BY DivMod
<1>2. Wrap \in Nat \ {0}
  BY WrapAssumption
<1>3. p * Wrap \in Nat /\ q * Wrap \in Nat
  BY <1>1, <1>2, Z3
<1>4. Widened(last, request, b) =
        IF p * Wrap + b >= last \/ p * Wrap + b + Wrap > request THEN p * Wrap + b
        ELSE p * Wrap + b + Wrap
  BY DEF Widened
<1> HIDE DEF p, q, a, b
<1>5. p <= q
  <2>1. SUFFICES ASSUME q < p PROVE FALSE
    BY <1>1
  <2>2. q * Wrap + Wrap <= p * Wrap
    BY <1>1, <2>1, MultiplesApart
  <2>3. QED BY <1>1, <1>2, <1>3, <2>2
<1>6. q <= p + 1
  <2>1. SUFFICES ASSUME p + 1 < q PROVE FALSE
    BY <1>1
  <2>2. (p + 1) * Wrap + Wrap <= q * Wrap
    BY <1>1, <2>1, MultiplesApart
  <2>3. (p + 1) * Wrap = p * Wrap + Wrap
    BY <1>1, <1>2, Z3
  <2>4. QED BY <1>1, <1>2, <1>3, <2>2, <2>3
<1>7. CASE q = p
  <2>1. p * Wrap + b >= last
    BY <1>1, <1>7
  <2>2. QED BY <1>1, <1>4, <1>7, <2>1 DEF b
<1>8. CASE q = p + 1
  <2>1. q * Wrap = p * Wrap + Wrap
    BY <1>1, <1>2, <1>8, Z3
  <2>2. ~(p * Wrap + b >= last) /\ ~(p * Wrap + b + Wrap > request)
    BY <1>1, <1>2, <1>3, <2>1
  <2>3. p * Wrap + b + Wrap = id
    BY <1>1, <1>2, <1>3, <2>1
  <2>4. QED BY <1>4, <2>2, <2>3 DEF b
<1>9. QED BY <1>1, <1>5, <1>6, <1>7, <1>8

-----------------------------------------------------------------------------
(* The inductive invariant.                                                  *)

Ops == {"lock", "unlock", "revlock", "put", "flush", "wait", "roundtrip", "dequeue", "reply", "await",
        "discard", "next", "take", "read", "flushed", "block", "more", "scan", "gather", "poll",
        "handle", "dispatch", "callback", "synchandle", "workdone", "readon", "crash"}
Words == Calls \cup {"", "event", "already", "reading", "flush", "first", "look", "last", "enq"}
Steps == [op : Ops, n : Nat, what : Words]
Packets == [type : {"reply", "error", "event"}, seq : Nat, id : Nat, kind : Words, n : Nat]
Made == [id : Nat, kind : Words]
Events == [serial : Nat, id : Nat, n : Nat]
Handlers == [seq : Int, failed : Nat]
Errors == [serial : Nat, id : Nat, kind : Words]
Connections == [buffer : Seq(Made), request : Nat, last_request_read : Nat, queue : Seq(Events),
                async_handlers : SUBSET Handlers, errors : SUBSET Errors, dropped : SUBSET Nat]

Typed ==
    /\ prog \in Programs /\ aud \in Connections /\ todo \in [Threads -> Seq(Steps)]
    /\ toServer \in Seq(Made) /\ fromServer \in Seq(Packets)
    /\ executed \in Nat /\ posted \in Nat /\ taken \in Seq(Nat)

\* Which steps give up the lock, need it, and must not have it.
Release == {"unlock", "next"}
Inside == {"put", "roundtrip", "dequeue", "reply", "await", "discard", "scan", "take"}
Outside == {"handle", "dispatch", "callback"}

\* A thread whose next steps are those of s from i on holds the lock.
HeldAt(s, i) ==
    \E j \in i .. Len(s) : s[j].op \in Release /\ \A k \in i .. j - 1 : s[k].op # "lock"

Fits(s) == \A i \in 1 .. Len(s) : /\ s[i].op \in Inside => HeldAt(s, i)
                                  /\ s[i].op \in Outside \cup Release => ~HeldAt(s, i + 1)

\* Nothing that takes events comes before the rest of a scan.
Calm == {"gather", "flush", "wait"}
Alone(s) ==
    \A i \in 1 .. Len(s) : s[i].op = "scan" =>
      \A j \in 1 .. i - 1 : s[j].op \in Calm \/ (s[j].op = "lock" /\ s[i].n = 0)

\* Who holds the lock, and in a library without mutexes, who may call.
StackInv ==
    /\ prog.locks => \A t \in Threads : Fits(todo[t]) /\ (HeldAt(todo[t], 1) => lock = t)
    /\ \A t \in Threads : Alone(todo[t]) /\ (todo[t] # <<>> => prog.calls[t] # {})

\* A reply is awaited for a request that was made, and what a scan does not look
\* at again does not match.
StepInv(x, a) == /\ x.op = "await" => x.n <= a.request
                 /\ x.op = "scan" => /\ x.what \in {"already", "reading", "flush"} /\ x.n <= Len(a.queue)
                                     /\ \A k \in 1 .. x.n : a.queue[k].n % 2 # 1

StepsInv == \A t \in Threads : \A i \in 1 .. Len(todo[t]) : StepInv(todo[t][i], aud)

\* Requests are sent and executed in the order of their numbers.
SentInv == /\ aud.request = executed + Len(toServer) + Len(aud.buffer)
           /\ Len(toServer) <= prog.room
           /\ \A i \in 1 .. Len(toServer) : toServer[i].id = executed + i
           /\ \A i \in 1 .. Len(aud.buffer) : aud.buffer[i].id = executed + Len(toServer) + i

\* The packets q that a connection a has still to read.
Numbered(a, q) ==
    /\ a.last_request_read <= executed
    /\ \A i \in 1 .. Len(q) : /\ q[i].seq = q[i].id % Wrap
                              /\ a.last_request_read <= q[i].id /\ q[i].id <= executed
                              /\ q[i].type = "event" <=> q[i].n # 0
                              /\ q[i].n <= posted
    /\ \A i, j \in 1 .. Len(q) : i <= j => q[i].id <= q[j].id

SameKind(m, n) == m % 2 = n % 2

\* Events that were taken, that are in the queue and that are to be read.
InOrder(a, q) ==
    /\ \A i \in 1 .. Len(a.queue) : a.queue[i].serial = a.queue[i].id /\ a.queue[i].n \in 1 .. posted
    /\ \A i \in 1 .. Len(taken) : taken[i] \in 1 .. posted
    /\ \A i, j \in 1 .. Len(taken) : i < j /\ SameKind(taken[i], taken[j]) => taken[i] < taken[j]
    /\ \A i, j \in 1 .. Len(a.queue) : i < j => a.queue[i].n < a.queue[j].n
    /\ \A i, j \in 1 .. Len(q) : i < j /\ q[j].n # 0 => q[i].n < q[j].n
    /\ \A i \in 1 .. Len(taken), j \in 1 .. Len(a.queue) :
         SameKind(taken[i], a.queue[j].n) => taken[i] < a.queue[j].n
    /\ \A i \in 1 .. Len(taken), j \in 1 .. Len(q) : q[j].n # 0 => taken[i] < q[j].n
    /\ \A i \in 1 .. Len(a.queue), j \in 1 .. Len(q) : q[j].n # 0 => a.queue[i].n < q[j].n

NoneLost(a, q) ==
    /\ discarded \subseteq 1 .. posted
    /\ \A m \in 1 .. posted : \/ m \in discarded
                              \/ \E i \in 1 .. Len(taken) : taken[i] = m
                              \/ \E i \in 1 .. Len(a.queue) : a.queue[i].n = m
                              \/ \E i \in 1 .. Len(q) : q[i].n = m

\* What has been read of the packets, and what is still to be read.
Reading(a, q) == Numbered(a, q) /\ InOrder(a, q) /\ NoneLost(a, q)

LibInv == Typed /\ StackInv /\ StepsInv /\ SentInv /\ Reading(aud, fromServer)

-----------------------------------------------------------------------------
(* Stacks of steps.                                                          *)

LEMMA JoinedSteps ==
  ASSUME NEW S, NEW b \in Seq(S), NEW s \in Seq(S)
  PROVE  /\ b \o s \in Seq(S) /\ Len(b \o s) = Len(b) + Len(s)
         /\ Len(b) \in Nat /\ Len(s) \in Nat
         /\ \A i \in 1 .. Len(b) : (b \o s)[i] = b[i]
         /\ \A i \in 1 .. Len(s) : (b \o s)[Len(b) + i] = s[i]
OBVIOUS

\* What follows a step decides what it may be.
State(s) == IF HeldAt(s, 1) THEN "held" ELSE "free"
Before(op, h) == IF op \in Release THEN "held" ELSE IF op = "lock" THEN "free" ELSE h
May(op, h) == (op \in Inside => h = "held") /\ (op \in Outside \cup Release => h = "free")

LEMMA HeldBehind ==
  ASSUME NEW x \in Steps, NEW s \in Seq(Steps), NEW c \in Seq(Steps), c = <<x>> \o s,
         NEW i \in Nat, i >= 1, NEW n \in Nat, n = i + 1
  PROVE  HeldAt(c, n) <=> HeldAt(s, i)
<1>1. /\ Len(c) = Len(s) + 1 /\ Len(s) \in Nat
      /\ \A k \in 1 .. Len(s) : c[k + 1] = s[k]
  OBVIOUS
<1>2. ASSUME HeldAt(s, i) PROVE HeldAt(c, n)
  <2>1. PICK j \in i .. Len(s) : s[j].op \in Release /\ \A k \in i .. j - 1 : s[k].op # "lock"
    BY <1>2 DEF HeldAt
  <2>2. j + 1 \in i + 1 .. Len(c) /\ c[j + 1].op \in Release
    BY <1>1, <2>1
  <2>3. ASSUME NEW k \in i + 1 .. (j + 1) - 1 PROVE c[k].op # "lock"
    <3>1. k - 1 \in i .. j - 1 /\ k - 1 \in 1 .. Len(s) /\ c[(k - 1) + 1] = s[k - 1] /\ (k - 1) + 1 = k
      BY <1>1, <2>1
    <3> QED
      BY <2>1, <3>1
  <2> QED
    BY <2>2, <2>3 DEF HeldAt
<1>3. ASSUME HeldAt(c, n) PROVE HeldAt(s, i)
  <2>1. PICK j \in i + 1 .. Len(c) : c[j].op \in Release /\ \A k \in i + 1 .. j - 1 : c[k].op # "lock"
    BY <1>3 DEF HeldAt
  <2>2. PICK m \in i .. Len(s) : m = j - 1 /\ m + 1 = j
    BY <1>1, <2>1
  <2>3. s[m].op \in Release
    BY <1>1, <2>1, <2>2
  <2>4. ASSUME NEW k \in i .. m - 1 PROVE s[k].op # "lock"
    <3>1. k + 1 \in i + 1 .. j - 1 /\ k \in 1 .. Len(s)
      BY <1>1, <2>2
    <3> QED
      BY <1>1, <2>1, <3>1
  <2> QED
    BY <2>3, <2>4 DEF HeldAt
<1> QED
  BY <1>2, <1>3

LEMMA HeldFirst ==
  ASSUME NEW s \in Seq(Steps), s # <<>>
  PROVE  HeldAt(s, 1) <=> s[1].op \in Release \/ (s[1].op # "lock" /\ HeldAt(s, 2))
<1>1. Len(s) \in Nat /\ Len(s) > 0
  OBVIOUS
<1>2. ASSUME s[1].op \in Release PROVE HeldAt(s, 1)
  BY <1>1, <1>2 DEF HeldAt
<1>3. ASSUME s[1].op # "lock", HeldAt(s, 2) PROVE HeldAt(s, 1)
  <2>1. PICK j \in 2 .. Len(s) : s[j].op \in Release /\ \A k \in 2 .. j - 1 : s[k].op # "lock"
    BY <1>3 DEF HeldAt
  <2>2. \A k \in 1 .. j - 1 : s[k].op # "lock"
    <3> SUFFICES ASSUME NEW k \in 1 .. j - 1 PROVE s[k].op # "lock"
      OBVIOUS
    <3>1. k = 1 \/ k \in 2 .. j - 1
      OBVIOUS
    <3> QED
      BY <1>3, <2>1, <3>1
  <2>3. j \in 1 .. Len(s)
    OBVIOUS
  <2> QED
    BY <2>1, <2>2, <2>3 DEF HeldAt
<1>4. ASSUME HeldAt(s, 1), s[1].op \notin Release PROVE s[1].op # "lock" /\ HeldAt(s, 2)
  <2>1. PICK j \in 1 .. Len(s) : s[j].op \in Release /\ \A k \in 1 .. j - 1 : s[k].op # "lock"
    BY <1>4 DEF HeldAt
  <2>2. j # 1
    BY <1>4, <2>1
  <2>3. j \in 2 .. Len(s) /\ 1 \in 1 .. j - 1 /\ \A k \in 2 .. j - 1 : k \in 1 .. j - 1
    BY <1>1, <2>2
  <2> QED
    BY <2>1, <2>3 DEF HeldAt
<1> QED
  BY <1>2, <1>3, <1>4

\* One step more, in front of others.
LEMMA OneMore ==
  ASSUME NEW x \in Steps, NEW s \in Seq(Steps), NEW c \in Seq(Steps), c = <<x>> \o s
  PROVE  /\ State(c) = Before(x.op, State(s))
         /\ Fits(s) /\ May(x.op, State(s)) <=> Fits(c)
<1>1. /\ Len(c) = Len(s) + 1 /\ Len(s) \in Nat /\ c # <<>> /\ c[1] = x
      /\ \A k \in 1 .. Len(s) : c[k + 1] = s[k]
  OBVIOUS
<1>2. HeldAt(c, 2) <=> HeldAt(s, 1)
  <2>1. 1 \in Nat /\ 1 >= 1 /\ 2 \in Nat /\ 2 = 1 + 1
    OBVIOUS
  <2> QED
    BY <2>1, HeldBehind
<1>3. HeldAt(c, 1) <=> x.op \in Release \/ (x.op # "lock" /\ HeldAt(s, 1))
  BY <1>1, <1>2, HeldFirst
<1>4. State(c) = Before(x.op, State(s))
  BY <1>3 DEF State, Before, Release
<1>5. \A k \in 1 .. Len(s) : /\ HeldAt(c, k + 1) <=> HeldAt(s, k)
                             /\ HeldAt(c, (k + 1) + 1) <=> HeldAt(s, k + 1)
  <2> SUFFICES ASSUME NEW k \in 1 .. Len(s)
               PROVE  /\ HeldAt(c, k + 1) <=> HeldAt(s, k)
                      /\ HeldAt(c, (k + 1) + 1) <=> HeldAt(s, k + 1)
    OBVIOUS
  <2>1. PICK n \in Nat, m \in Nat : n = k + 1 /\ m = n + 1 /\ k \in Nat /\ k >= 1 /\ n >= 1
    OBVIOUS
  <2>2. (HeldAt(c, n) <=> HeldAt(s, k)) /\ (HeldAt(c, m) <=> HeldAt(s, n))
    BY <2>1, HeldBehind
  <2> QED
    BY <2>1, <2>2
<1>6. ASSUME Fits(s), May(x.op, State(s)) PROVE Fits(c)
  <2> SUFFICES ASSUME NEW i \in 1 .. Len(c)
               PROVE  /\ c[i].op \in Inside => HeldAt(c, i)
                      /\ c[i].op \in Outside \cup Release => ~HeldAt(c, i + 1)
    BY DEF Fits
  <2>1. CASE i = 1
    <3>1. x.op \in Inside => HeldAt(c, 1)
      BY <1>3, <1>6 DEF May, State, Inside
    <3>2. x.op \in Outside \cup Release => ~HeldAt(c, 2)
      BY <1>2, <1>6 DEF May, State
    <3> QED
      BY <1>1, <2>1, <3>1, <3>2
  <2>2. CASE i # 1
    <3>1. PICK k \in 1 .. Len(s) : i = k + 1
      <4>1. i - 1 \in 1 .. Len(s) /\ i = (i - 1) + 1
        BY <1>1, <2>2
      <4> QED
        BY <4>1
    <3>2. /\ s[k].op \in Inside => HeldAt(s, k)
          /\ s[k].op \in Outside \cup Release => ~HeldAt(s, k + 1)
      BY <1>6 DEF Fits
    <3> QED
      BY <1>1, <1>5, <3>1, <3>2
  <2> QED
    BY <2>1, <2>2
<1>7. ASSUME Fits(c) PROVE Fits(s) /\ May(x.op, State(s))
  <2>1. ASSUME NEW k \in 1 .. Len(s)
        PROVE  /\ s[k].op \in Inside => HeldAt(s, k)
               /\ s[k].op \in Outside \cup Release => ~HeldAt(s, k + 1)
    <3>1. k + 1 \in 1 .. Len(c)
      BY <1>1
    <3>2. /\ c[k + 1].op \in Inside => HeldAt(c, k + 1)
          /\ c[k + 1].op \in Outside \cup Release => ~HeldAt(c, (k + 1) + 1)
      BY <1>7, <3>1 DEF Fits
    <3> QED
      BY <1>1, <1>5, <3>2
  <2>2. 1 \in 1 .. Len(c) /\ 1 + 1 = 2
    BY <1>1
  <2>3. /\ x.op \in Inside => HeldAt(c, 1)
        /\ x.op \in Outside \cup Release => ~HeldAt(c, 2)
    BY <1>1, <1>7, <2>2 DEF Fits
  <2>4. May(x.op, State(s))
    BY <1>2, <1>3, <2>3 DEF May, State, Inside, Release
  <2> QED
    BY <2>1, <2>4 DEF Fits
<1> QED
  BY <1>4, <1>6, <1>7

\* A block of steps that takes the place of one: what comes before it can rely
\* on g, if what comes behind it on h.
Turns(b, h, g) ==
    \A s \in Seq(Steps) : Fits(s) /\ State(s) = h => Fits(b \o s) /\ State(b \o s) = g

LEMMA TurnsNone == ASSUME NEW h PROVE Turns(<<>>, h, h)
<1>1. \A s \in Seq(Steps) : <<>> \o s = s
  OBVIOUS
<1> QED
  BY <1>1 DEF Turns

LEMMA TurnsOne ==
  ASSUME NEW x \in Steps, NEW h, May(x.op, h)
  PROVE  Turns(<<x>>, h, Before(x.op, h))
<1> SUFFICES ASSUME NEW s \in Seq(Steps), Fits(s), State(s) = h
             PROVE  Fits(<<x>> \o s) /\ State(<<x>> \o s) = Before(x.op, h)
  BY DEF Turns
<1>1. <<x>> \in Seq(Steps)
  OBVIOUS
<1>2. PICK c \in Seq(Steps) : c = <<x>> \o s
  BY <1>1, JoinedSteps
<1> QED
  BY <1>2, OneMore

LEMMA TurnsJoin ==
  ASSUME NEW a \in Seq(Steps), NEW b \in Seq(Steps), NEW h, NEW g, NEW f,
         Turns(b, h, g), Turns(a, g, f)
  PROVE  Turns(a \o b, h, f) /\ a \o b \in Seq(Steps)
<1> SUFFICES ASSUME NEW s \in Seq(Steps), Fits(s), State(s) = h
             PROVE  Fits((a \o b) \o s) /\ State((a \o b) \o s) = f
  BY DEF Turns
<1>1. (a \o b) \o s = a \o (b \o s) /\ b \o s \in Seq(Steps)
  OBVIOUS
<1>2. Fits(b \o s) /\ State(b \o s) = g
  BY DEF Turns
<1> QED
  BY <1>1, <1>2 DEF Turns

LEMMA SameSequence ==
  ASSUME NEW S, NEW a \in Seq(S), NEW b \in Seq(S), Len(a) = Len(b), \A k \in 1 .. Len(a) : a[k] = b[k]
  PROVE  a = b
OBVIOUS

LEMMA TwoSteps ==
  ASSUME NEW x \in Steps, NEW y \in Steps
  PROVE  /\ <<x>> \in Seq(Steps) /\ <<y>> \in Seq(Steps) /\ <<x, y>> \in Seq(Steps)
         /\ <<x, y>> = <<x>> \o <<y>>
<1>1. <<x>> \in Seq(Steps) /\ <<y>> \in Seq(Steps) /\ <<x, y>> \in Seq(Steps)
  OBVIOUS
<1>2. <<x>> \o <<y>> \in Seq(Steps) /\ Len(<<x>> \o <<y>>) = 2
  BY <1>1
<1>3. (<<x>> \o <<y>>)[1] = x /\ (<<x>> \o <<y>>)[2] = y
  BY <1>1
<1>4. Len(<<x, y>>) = 2 /\ \A k \in 1 .. 2 : <<x, y>>[k] = (<<x>> \o <<y>>)[k]
  BY <1>3
<1> QED
  BY <1>1, <1>2, <1>4, SameSequence

LEMMA ThreeSteps ==
  ASSUME NEW x \in Steps, NEW y \in Steps, NEW z \in Steps
  PROVE  /\ <<x>> \in Seq(Steps) /\ <<y, z>> \in Seq(Steps) /\ <<x, y, z>> \in Seq(Steps)
         /\ <<x, y, z>> = <<x>> \o <<y, z>>
<1>1. <<x>> \in Seq(Steps) /\ <<y, z>> \in Seq(Steps) /\ <<x, y, z>> \in Seq(Steps)
  OBVIOUS
<1>2. <<x, y, z>> = <<x>> \o <<y, z>>
  OBVIOUS
<1> QED
  BY <1>1, <1>2

LEMMA TurnsTwo ==
  ASSUME NEW x \in Steps, NEW y \in Steps, NEW h, May(y.op, h), May(x.op, Before(y.op, h))
  PROVE  Turns(<<x, y>>, h, Before(x.op, Before(y.op, h))) /\ <<x, y>> \in Seq(Steps)
<1>1. <<x>> \in Seq(Steps) /\ <<y>> \in Seq(Steps) /\ <<x, y>> = <<x>> \o <<y>>
  BY TwoSteps
<1>2. Turns(<<y>>, h, Before(y.op, h)) /\ Turns(<<x>>, Before(y.op, h), Before(x.op, Before(y.op, h)))
  BY TurnsOne
<1>3. /\ Turns(<<x>> \o <<y>>, h, Before(x.op, Before(y.op, h)))
      /\ <<x>> \o <<y>> \in Seq(Steps)
  BY <1>1, <1>2, TurnsJoin
<1> QED
  BY <1>1, <1>3

LEMMA TurnsThree ==
  ASSUME NEW x \in Steps, NEW y \in Steps, NEW z \in Steps, NEW h,
         May(z.op, h), May(y.op, Before(z.op, h)), May(x.op, Before(y.op, Before(z.op, h)))
  PROVE  /\ Turns(<<x, y, z>>, h, Before(x.op, Before(y.op, Before(z.op, h))))
         /\ <<x, y, z>> \in Seq(Steps)
<1> DEFINE g == Before(y.op, Before(z.op, h))
<1>1. <<x>> \in Seq(Steps) /\ <<y, z>> \in Seq(Steps) /\ <<x, y, z>> = <<x>> \o <<y, z>>
  BY ThreeSteps
<1>2. Turns(<<y, z>>, h, g)
  BY TurnsTwo
<1>3. Turns(<<x>>, g, Before(x.op, g))
  BY TurnsOne
<1> HIDE DEF g
<1>4. Turns(<<x>> \o <<y, z>>, h, Before(x.op, g)) /\ <<x>> \o <<y, z>> \in Seq(Steps)
  BY <1>1, <1>2, <1>3, TurnsJoin
<1> QED
  BY <1>1, <1>4 DEF g

\* What is left of a stack.
LEMMA StackTail ==
  ASSUME NEW s \in Seq(Steps), s # <<>>
  PROVE  /\ Head(s) \in Steps /\ Tail(s) \in Seq(Steps) /\ Head(s) = s[1]
         /\ Len(Tail(s)) = Len(s) - 1 /\ Len(s) \in Nat \ {0}
         /\ \A i \in 1 .. Len(Tail(s)) : Tail(s)[i] = s[i + 1]
         /\ Fits(s) => Fits(Tail(s)) /\ May(Head(s).op, State(Tail(s)))
         /\ State(s) = Before(Head(s).op, State(Tail(s)))
<1>1. /\ Head(s) \in Steps /\ Tail(s) \in Seq(Steps) /\ s = <<Head(s)>> \o Tail(s)
      /\ Head(s) = s[1] /\ Len(Tail(s)) = Len(s) - 1 /\ Len(s) \in Nat \ {0}
      /\ \A i \in 1 .. Len(Tail(s)) : Tail(s)[i] = s[i + 1]
  OBVIOUS
<1> QED
  BY <1>1, OneMore

-----------------------------------------------------------------------------
AllIn(b, O) == \A i \in 1 .. Len(b) : b[i].op \in O
NoScan(b) == \A i \in 1 .. Len(b) : b[i].op # "scan"

LEMMA AloneBehind ==
  ASSUME NEW b \in Seq(Steps), NEW s \in Seq(Steps), Alone(s), AllIn(b, Calm)
  PROVE  Alone(b \o s)
<1> DEFINE c == b \o s
<1>1. /\ Len(c) = Len(b) + Len(s) /\ Len(b) \in Nat /\ Len(s) \in Nat
      /\ \A i \in 1 .. Len(b) : c[i] = b[i]
      /\ \A i \in 1 .. Len(s) : c[Len(b) + i] = s[i]
  BY JoinedSteps
<1> HIDE DEF c
<1>2. ASSUME NEW i \in 1 .. Len(c), c[i].op = "scan", NEW j \in 1 .. i - 1
      PROVE  c[j].op \in Calm \/ (c[j].op = "lock" /\ c[i].n = 0)
  <2>1. i \notin 1 .. Len(b)
    BY <1>1, <1>2 DEF AllIn, Calm
  <2>2. PICK k \in 1 .. Len(s) : i = Len(b) + k
    <3>1. i - Len(b) \in 1 .. Len(s) /\ i = Len(b) + (i - Len(b))
      BY <1>1, <2>1
    <3> QED
      BY <3>1
  <2>3. CASE j \in 1 .. Len(b)
    BY <1>1, <2>3 DEF AllIn
  <2>4. CASE j \notin 1 .. Len(b)
    <3>1. PICK m \in 1 .. k - 1 : j = Len(b) + m
      <4>1. j - Len(b) \in 1 .. k - 1 /\ j = Len(b) + (j - Len(b))
        BY <1>1, <2>2, <2>4
      <4> QED
        BY <4>1
    <3>2. m \in 1 .. Len(s) /\ c[i] = s[k] /\ c[j] = s[m]
      BY <1>1, <2>2, <3>1
    <3> QED
      BY <1>2, <3>2 DEF Alone
  <2> QED
    BY <2>3, <2>4
<1>3. Alone(c)
  BY <1>2 DEF Alone
<1> QED
  BY <1>3 DEF c

LEMMA AloneBefore ==
  ASSUME NEW b \in Seq(Steps), NEW s \in Seq(Steps), Alone(b), NoScan(s)
  PROVE  Alone(b \o s)
<1> DEFINE c == b \o s
<1>1. /\ Len(c) = Len(b) + Len(s) /\ Len(b) \in Nat /\ Len(s) \in Nat
      /\ \A i \in 1 .. Len(b) : c[i] = b[i]
      /\ \A i \in 1 .. Len(s) : c[Len(b) + i] = s[i]
  BY JoinedSteps
<1> HIDE DEF c
<1>2. ASSUME NEW i \in 1 .. Len(c), c[i].op = "scan", NEW j \in 1 .. i - 1
      PROVE  c[j].op \in Calm \/ (c[j].op = "lock" /\ c[i].n = 0)
  <2>1. i \in 1 .. Len(b)
    <3>1. CASE i \notin 1 .. Len(b)
      <4>1. i - Len(b) \in 1 .. Len(s) /\ i = Len(b) + (i - Len(b))
        BY <1>1, <3>1
      <4>2. c[i] = s[i - Len(b)]
        BY <1>1, <4>1
      <4> QED
        BY <1>2, <4>1, <4>2 DEF NoScan
    <3> QED
      BY <3>1
  <2>2. j \in 1 .. Len(b) /\ c[i] = b[i] /\ c[j] = b[j]
    BY <1>1, <2>1
  <2> QED
    BY <1>2, <2>1, <2>2 DEF Alone
<1>3. Alone(c)
  BY <1>2 DEF Alone
<1> QED
  BY <1>3 DEF c

LEMMA AloneTail ==
  ASSUME NEW s \in Seq(Steps), s # <<>>, Alone(s)
  PROVE  /\ Alone(Tail(s))
         /\ Head(s).op \notin Calm \cup {"lock"} => NoScan(Tail(s))
         /\ Head(s).op \notin Calm => \A i \in 1 .. Len(Tail(s)) : Tail(s)[i].op = "scan" => Tail(s)[i].n = 0
<1>1. /\ Tail(s) \in Seq(Steps) /\ Len(Tail(s)) = Len(s) - 1 /\ Len(s) \in Nat /\ Head(s) = s[1]
      /\ \A i \in 1 .. Len(Tail(s)) : Tail(s)[i] = s[i + 1]
  BY StackTail
<1>2. ASSUME NEW i \in 1 .. Len(Tail(s)), Tail(s)[i].op = "scan", NEW j \in 1 .. i - 1
      PROVE  Tail(s)[j].op \in Calm \/ (Tail(s)[j].op = "lock" /\ Tail(s)[i].n = 0)
  <2>1. i + 1 \in 1 .. Len(s) /\ j + 1 \in 1 .. (i + 1) - 1 /\ j \in 1 .. Len(Tail(s))
    BY <1>1
  <2>2. s[i + 1] = Tail(s)[i] /\ s[j + 1] = Tail(s)[j]
    BY <1>1, <2>1
  <2> QED
    BY <1>2, <2>1, <2>2 DEF Alone
<1>3. ASSUME NEW i \in 1 .. Len(Tail(s)), Tail(s)[i].op = "scan"
      PROVE  Head(s).op \in Calm \/ (Head(s).op = "lock" /\ Tail(s)[i].n = 0)
  <2>1. i + 1 \in 1 .. Len(s) /\ 1 \in 1 .. (i + 1) - 1 /\ s[i + 1] = Tail(s)[i]
    BY <1>1
  <2> QED
    BY <1>1, <1>3, <2>1 DEF Alone
<1> QED
  BY <1>2, <1>3 DEF Alone, NoScan

\* The rest of a thread's stack after its first step.
Rest(t) == Tail(todo[t])

LEMMA StackReplaced ==
  ASSUME Typed, StackInv, NEW t \in Threads, todo[t] # <<>>, NEW b \in Seq(Steps), Continue(t, b),
         prog' = prog, NEW g,
         prog.locks => /\ Turns(b, State(Rest(t)), g) /\ (g = "held" => lock' = t)
                       /\ \A u \in Threads \ {t} : lock = u => lock' = u,
         Alone(b \o Rest(t))
  PROVE  /\ StackInv' /\ todo' \in [Threads -> Seq(Steps)]
         /\ todo'[t] = b \o Rest(t) /\ \A u \in Threads \ {t} : todo'[u] = todo[u]
<1>1. /\ todo \in [Threads -> Seq(Steps)] /\ todo[t] \in Seq(Steps)
  BY DEF Typed
<1>2. Rest(t) \in Seq(Steps) /\ (Fits(todo[t]) => Fits(Rest(t)))
  BY <1>1, StackTail DEF Rest
<1>3. PICK c \in Seq(Steps) : c = b \o Rest(t)
  <2>1. b \o Rest(t) \in Seq(Steps)
    BY <1>2, JoinedSteps
  <2> QED
    BY <2>1
<1>4. todo' = [todo EXCEPT ![t] = c]
  BY <1>1, <1>3 DEF Continue, Rest
<1>5. /\ todo' \in [Threads -> Seq(Steps)] /\ todo'[t] = c
      /\ \A u \in Threads \ {t} : todo'[u] = todo[u]
  BY <1>1, <1>3, <1>4
<1>6. ASSUME prog.locks PROVE Fits(c) /\ (HeldAt(c, 1) => lock' = t)
  <2>1. Fits(todo[t])
    BY <1>6 DEF StackInv
  <2>2. Fits(Rest(t))
    BY <1>2, <2>1
  <2>3. Fits(c) /\ State(c) = g
    BY <1>2, <1>3, <1>6, <2>2 DEF Turns
  <2> QED
    BY <1>6, <2>3 DEF State
<1>7. ASSUME NEW u \in Threads
      PROVE  /\ prog.locks => Fits(todo'[u]) /\ (HeldAt(todo'[u], 1) => lock' = u)
             /\ Alone(todo'[u]) /\ (todo'[u] # <<>> => prog.calls[u] # {})
  <2>1. CASE u = t
    BY <1>3, <1>5, <1>6, <2>1 DEF StackInv
  <2>2. CASE u # t
    BY <1>5, <2>2 DEF StackInv
  <2> QED
    BY <2>1, <2>2
<1>8. StackInv'
  BY <1>7 DEF StackInv
<1> QED
  BY <1>3, <1>5, <1>8

LEMMA StackStarted ==
  ASSUME Typed, StackInv, NEW t \in Threads, todo[t] = <<>>, NEW b \in Seq(Steps),
         todo' = [todo EXCEPT ![t] = b], prog' = prog, lock' = lock,
         prog.locks => Turns(b, "free", "free"), Alone(b), prog.calls[t] # {}
  PROVE  /\ StackInv' /\ todo' \in [Threads -> Seq(Steps)]
         /\ todo'[t] = b /\ \A u \in Threads \ {t} : todo'[u] = todo[u]
<1>1. todo \in [Threads -> Seq(Steps)]
  BY DEF Typed
<1>2. /\ todo' \in [Threads -> Seq(Steps)] /\ todo'[t] = b
      /\ \A u \in Threads \ {t} : todo'[u] = todo[u]
  BY <1>1
<1>3. ASSUME prog.locks PROVE Fits(b) /\ ~HeldAt(b, 1)
  <2>1. <<>> \in Seq(Steps) /\ Len(<<>>) = 0 /\ b \o <<>> = b
    OBVIOUS
  <2>2. Fits(<<>>) /\ ~HeldAt(<<>>, 1)
    BY <2>1 DEF Fits, HeldAt
  <2>3. State(<<>>) = "free"
    BY <2>2 DEF State
  <2>4. Fits(b \o <<>>) /\ State(b \o <<>>) = "free"
    BY <1>3, <2>1, <2>2, <2>3 DEF Turns
  <2> QED
    BY <2>1, <2>4 DEF State
<1>4. ASSUME NEW u \in Threads
      PROVE  /\ prog.locks => Fits(todo'[u]) /\ (HeldAt(todo'[u], 1) => lock' = u)
             /\ Alone(todo'[u]) /\ (todo'[u] # <<>> => prog.calls[u] # {})
  <2>1. CASE u = t
    BY <1>2, <1>3, <2>1
  <2>2. CASE u # t
    BY <1>2, <2>2 DEF StackInv
  <2> QED
    BY <2>1, <2>2
<1>5. StackInv'
  BY <1>4 DEF StackInv
<1> QED
  BY <1>2, <1>5

\* Whoever takes events is the only one in the middle of a scan.
LEMMA OnlyScan ==
  ASSUME Typed, StackInv, NEW t \in Threads, todo[t] # <<>>, Head(todo[t]).op \in {"take", "discard", "scan"}
  PROVE  \A u \in Threads : \A i \in 1 .. Len(todo[u]) :
           todo[u][i].op = "scan" /\ ~(u = t /\ i = 1) => todo[u][i].n = 0
<1> SUFFICES ASSUME NEW u \in Threads, NEW i \in 1 .. Len(todo[u]), todo[u][i].op = "scan", ~(u = t /\ i = 1)
             PROVE  todo[u][i].n = 0
  OBVIOUS
<1>1. todo[t] \in Seq(Steps) /\ todo[u] \in Seq(Steps)
  BY DEF Typed
<1>2. CASE u = t
  <2>1. Alone(todo[t])
    BY DEF StackInv
  <2>2. Head(todo[t]) = todo[t][1] /\ 1 \in 1 .. i - 1 /\ i \in 1 .. Len(todo[t])
    BY <1>1, <1>2
  <2>3. todo[t][1].op \in Calm \/ (todo[t][1].op = "lock" /\ todo[t][i].n = 0)
    BY <1>2, <2>1, <2>2 DEF Alone
  <2> QED
    BY <1>2, <2>2, <2>3 DEF Calm
<1>3. CASE u # t
  <2>1. prog.calls[t] # {} /\ prog.calls[u] # {}
    <3>1. todo[u] # <<>>
      BY <1>1
    <3> QED
      BY <3>1 DEF StackInv
  <2>2. prog.locks
    BY <1>3, <2>1, LibraryAssumption DEF Typed
  <2>3. lock = t
    <3>1. Fits(todo[t]) /\ (HeldAt(todo[t], 1) => lock = t)
      BY <2>2 DEF StackInv
    <3>2. 1 \in 1 .. Len(todo[t]) /\ todo[t][1].op \in Inside
      BY <1>1 DEF Inside
    <3> QED
      BY <3>1, <3>2 DEF Fits
  <2>4. ~HeldAt(todo[u], 1)
    BY <1>3, <2>2, <2>3 DEF StackInv
  <2>5. HeldAt(todo[u], i)
    <3>1. Fits(todo[u])
      BY <2>2 DEF StackInv
    <3> QED
      BY <3>1 DEF Fits, Inside
  <2>6. PICK j \in i .. Len(todo[u]) : todo[u][j].op \in Release /\ \A k \in i .. j - 1 : todo[u][k].op # "lock"
    BY <2>5 DEF HeldAt
  <2>7. j \in 1 .. Len(todo[u])
    BY <1>1
  <2>8. PICK m \in 1 .. j - 1 : todo[u][m].op = "lock"
    BY <2>4, <2>6, <2>7 DEF HeldAt
  <2>9. m \in 1 .. i - 1
    <3>1. m \notin i .. j - 1
      BY <2>6, <2>8
    <3> QED
      BY <1>1, <3>1
  <2>10. Alone(todo[u])
    BY DEF StackInv
  <2> QED
    BY <2>8, <2>9, <2>10 DEF Alone, Calm
<1> QED
  BY <1>2, <1>3

\* A connection that has made requests and put events at the end of its queue.
Grown(a, b) == /\ a.request <= b.request /\ Len(a.queue) <= Len(b.queue)
               /\ \A k \in 1 .. Len(a.queue) : b.queue[k].n = a.queue[k].n

LEMMA StepKept ==
  ASSUME NEW x \in Steps, NEW a \in Connections, NEW b \in Connections, StepInv(x, a),
         a.request <= b.request, Grown(a, b) \/ (x.op = "scan" => x.n = 0)
  PROVE  StepInv(x, b)
<1>1. /\ a.request \in Nat /\ b.request \in Nat /\ a.queue \in Seq(Events) /\ b.queue \in Seq(Events)
      /\ x.n \in Nat
  BY DEF Connections, Steps
<1>2. x.op = "await" => x.n <= b.request
  BY <1>1 DEF StepInv
<1>3. ASSUME x.op = "scan"
      PROVE  /\ x.what \in {"already", "reading", "flush"} /\ x.n <= Len(b.queue)
             /\ \A k \in 1 .. x.n : b.queue[k].n % 2 # 1
  <2>0. x.what \in {"already", "reading", "flush"}
    BY <1>3 DEF StepInv
  <2>1. CASE x.n = 0
    BY <1>1, <2>0, <2>1
  <2>2. CASE x.n # 0
    <3>1. Grown(a, b)
      BY <1>3, <2>2
    <3>2. x.n <= Len(a.queue) /\ \A k \in 1 .. x.n : a.queue[k].n % 2 # 1
      BY <1>3 DEF StepInv
    <3>3. Len(a.queue) <= Len(b.queue) /\ \A k \in 1 .. Len(a.queue) : b.queue[k].n = a.queue[k].n
      BY <3>1 DEF Grown
    <3>4. ASSUME NEW k \in 1 .. x.n PROVE b.queue[k].n % 2 # 1
      <4>1. k \in 1 .. Len(a.queue)
        BY <1>1, <3>2
      <4>2. b.queue[k].n = a.queue[k].n
        BY <3>3, <4>1
      <4> QED
        BY <3>2, <4>2
    <3> QED
      BY <1>1, <2>0, <3>2, <3>3, <3>4
  <2> QED
    BY <2>1, <2>2
<1> QED
  BY <1>2, <1>3 DEF StepInv

LEMMA StepsReplaced ==
  ASSUME Typed, StepsInv, NEW t \in Threads, todo[t] # <<>>, NEW b \in Seq(Steps), Continue(t, b),
         aud' \in Connections, aud.request <= aud'.request, \A i \in 1 .. Len(b) : StepInv(b[i], aud'),
         \/ Grown(aud, aud')
         \/ \A u \in Threads : \A i \in 1 .. Len(todo[u]) :
              todo[u][i].op = "scan" /\ ~(u = t /\ i = 1) => todo[u][i].n = 0
  PROVE  StepsInv'
<1>1. /\ todo \in [Threads -> Seq(Steps)] /\ todo[t] \in Seq(Steps) /\ aud \in Connections
  BY DEF Typed
<1>2. /\ Tail(todo[t]) \in Seq(Steps) /\ Len(Tail(todo[t])) = Len(todo[t]) - 1 /\ Len(todo[t]) \in Nat
      /\ \A i \in 1 .. Len(Tail(todo[t])) : Tail(todo[t])[i] = todo[t][i + 1]
  BY <1>1, StackTail
<1>3. PICK c \in Seq(Steps) :
        /\ c = b \o Tail(todo[t]) /\ Len(c) = Len(b) + Len(Tail(todo[t])) /\ Len(b) \in Nat
        /\ \A i \in 1 .. Len(b) : c[i] = b[i]
        /\ \A i \in 1 .. Len(Tail(todo[t])) : c[Len(b) + i] = Tail(todo[t])[i]
  <2>1. PICK r \in Seq(Steps) : r = Tail(todo[t])
    BY <1>2
  <2>2. /\ b \o r \in Seq(Steps) /\ Len(b \o r) = Len(b) + Len(r) /\ Len(b) \in Nat
        /\ \A i \in 1 .. Len(b) : (b \o r)[i] = b[i]
        /\ \A i \in 1 .. Len(r) : (b \o r)[Len(b) + i] = r[i]
    BY JoinedSteps
  <2> QED
    BY <2>1, <2>2
<1>4. todo' = [todo EXCEPT ![t] = c]
  BY <1>1, <1>3 DEF Continue
<1>5. todo'[t] = c /\ \A u \in Threads \ {t} : todo'[u] = todo[u]
  BY <1>1, <1>3, <1>4
<1>6. ASSUME NEW u \in Threads, NEW i \in 1 .. Len(todo[u]), ~(u = t /\ i = 1)
      PROVE  StepInv(todo[u][i], aud')
  <2>1. PICK x \in Steps : x = todo[u][i]
    <3>1. todo[u] \in Seq(Steps)
      BY <1>1
    <3> QED
      BY <3>1
  <2>2. StepInv(x, aud)
    BY <2>1 DEF StepsInv
  <2>3. Grown(aud, aud') \/ (x.op = "scan" => x.n = 0)
    BY <1>6, <2>1
  <2>4. StepInv(x, aud')
    BY <1>1, <2>2, <2>3, StepKept
  <2> QED
    BY <2>1, <2>4
<1>7. ASSUME NEW u \in Threads, NEW i \in 1 .. Len(todo'[u])
      PROVE  StepInv(todo'[u][i], aud')
  <2>1. CASE u # t
    BY <1>5, <1>6, <1>7, <2>1
  <2>2. CASE u = t /\ i \in 1 .. Len(b)
    BY <1>3, <1>5, <2>2
  <2>3. CASE u = t /\ i \notin 1 .. Len(b)
    <3>1. PICK k \in 1 .. Len(Tail(todo[t])) : i = Len(b) + k
      <4>1. i - Len(b) \in 1 .. Len(Tail(todo[t])) /\ i = Len(b) + (i - Len(b))
        BY <1>2, <1>3, <1>5, <1>7, <2>3
      <4> QED
        BY <4>1
    <3>2. todo'[u][i] = todo[t][k + 1] /\ k + 1 \in 1 .. Len(todo[t]) /\ k + 1 # 1
      BY <1>2, <1>3, <1>5, <2>3, <3>1
    <3> QED
      BY <1>6, <3>2
  <2> QED
    BY <2>1, <2>2, <2>3
<1> QED
  BY <1>7 DEF StepsInv

LEMMA StepsStarted ==
  ASSUME Typed, StepsInv, NEW t \in Threads, NEW b \in Seq(Steps), aud' = aud,
         todo'[t] = b, \A u \in Threads \ {t} : todo'[u] = todo[u],
         \A i \in 1 .. Len(b) : StepInv(b[i], aud)
  PROVE  StepsInv'
BY DEF StepsInv

-----------------------------------------------------------------------------
(* Reading packets.                                                          *)

\* The queue once packet p has been read.
QueueAfter(queue, p) ==
    IF p.type = "event" THEN Append(queue, [serial |-> p.id, id |-> p.id, n |-> p.n]) ELSE queue

LEMMA QueueGrows ==
  ASSUME NEW s \in Seq(Events), NEW p \in Packets
  PROVE  /\ QueueAfter(s, p) \in Seq(Events) /\ Len(s) \in Nat
         /\ \A i \in 1 .. Len(s) : QueueAfter(s, p)[i] = s[i]
         /\ IF p.type = "event"
              THEN /\ Len(QueueAfter(s, p)) = Len(s) + 1
                   /\ QueueAfter(s, p)[Len(s) + 1].serial = p.id
                   /\ QueueAfter(s, p)[Len(s) + 1].id = p.id
                   /\ QueueAfter(s, p)[Len(s) + 1].n = p.n
              ELSE QueueAfter(s, p) = s
<1> DEFINE u == QueueAfter(s, p)
<1>1. p.id \in Nat /\ p.n \in Nat
  BY DEF Packets
<1>2. CASE p.type = "event"
  <2>1. PICK e \in Events : e = [serial |-> p.id, id |-> p.id, n |-> p.n]
    BY <1>1 DEF Events
  <2>2. u = Append(s, e)
    BY <1>2, <2>1 DEF QueueAfter
  <2> HIDE DEF u
  <2>3. /\ u \in Seq(Events) /\ Len(s) \in Nat /\ Len(u) = Len(s) + 1 /\ u[Len(u)] = e
        /\ \A i \in 1 .. Len(s) : u[i] = s[i]
    BY <2>2
  <2>4. Len(u) = Len(s) + 1 /\ u[Len(s) + 1] = e
    BY <2>3
  <2> QED
    BY <1>2, <2>1, <2>3, <2>4 DEF u
<1>3. CASE p.type # "event"
  BY <1>3 DEF QueueAfter
<1> QED
  BY <1>2, <1>3

\* The first of the packets is read, and its number found.
Reads(a, b, q) ==
    b.last_request_read = Head(q).id /\ b.queue = QueueAfter(a.queue, Head(q))

LEMMA NumberedRead ==
  ASSUME NEW a \in Connections, NEW b \in Connections, NEW q \in Seq(Packets), q # <<>>, Reads(a, b, q),
         executed \in Nat, posted \in Nat, Numbered(a, q)
  PROVE  Numbered(b, Tail(q)) /\ a.last_request_read <= b.last_request_read
<1>1. /\ Tail(q) \in Seq(Packets) /\ Len(Tail(q)) = Len(q) - 1 /\ Len(q) \in Nat \ {0} /\ Head(q) = q[1]
      /\ \A i \in 1 .. Len(Tail(q)) : Tail(q)[i] = q[i + 1] /\ i + 1 \in 1 .. Len(q)
  OBVIOUS
<1>2. /\ a.last_request_read <= q[1].id /\ q[1].id <= executed
      /\ \A i \in 1 .. Len(q) : q[1].id <= q[i].id
  BY <1>1 DEF Numbered
<1>3. b.last_request_read = q[1].id
  BY <1>1 DEF Reads
<1>4. \A i \in 1 .. Len(Tail(q)) : /\ Tail(q)[i].seq = Tail(q)[i].id % Wrap
                                   /\ b.last_request_read <= Tail(q)[i].id /\ Tail(q)[i].id <= executed
                                   /\ Tail(q)[i].type = "event" <=> Tail(q)[i].n # 0
                                   /\ Tail(q)[i].n <= posted
  BY <1>1, <1>2, <1>3 DEF Numbered
<1>5. \A i, j \in 1 .. Len(Tail(q)) : i <= j => Tail(q)[i].id <= Tail(q)[j].id
  BY <1>1 DEF Numbered
<1> QED
  BY <1>2, <1>3, <1>4, <1>5 DEF Numbered

LEMMA TailOf ==
  ASSUME NEW S, NEW q \in Seq(S), q # <<>>
  PROVE  \E r \in Seq(S) : /\ r = Tail(q) /\ Len(r) = Len(q) - 1 /\ Len(q) \in Nat \ {0}
                           /\ Head(q) = q[1] /\ q[1] \in S /\ 1 \in 1 .. Len(q)
                           /\ \A i \in 1 .. Len(r) : r[i] = q[i + 1] /\ i + 1 \in 1 .. Len(q)
<1>1. Tail(q) \in Seq(S) /\ Len(Tail(q)) = Len(q) - 1 /\ Len(q) \in Nat \ {0}
  OBVIOUS
<1>2. Head(q) = q[1] /\ q[1] \in S /\ 1 \in 1 .. Len(q)
  OBVIOUS
<1>3. \A i \in 1 .. Len(Tail(q)) : Tail(q)[i] = q[i + 1] /\ i + 1 \in 1 .. Len(q)
  OBVIOUS
<1> QED
  BY <1>1, <1>2, <1>3

LEMMA InOrderRead ==
  ASSUME NEW a \in Connections, NEW b \in Connections, NEW q \in Seq(Packets), q # <<>>, Reads(a, b, q),
         posted \in Nat, taken \in Seq(Nat), Numbered(a, q), InOrder(a, q)
  PROVE  InOrder(b, Tail(q))
<1>1. q \in Seq(Packets) /\ q # <<>>
  OBVIOUS
<1>2. PICK r \in Seq(Packets) :
        /\ r = Tail(q) /\ Len(r) = Len(q) - 1 /\ Len(q) \in Nat \ {0}
        /\ Head(q) = q[1] /\ q[1] \in Packets /\ 1 \in 1 .. Len(q)
        /\ \A i \in 1 .. Len(r) : r[i] = q[i + 1] /\ i + 1 \in 1 .. Len(q)
  BY ONLY <1>1, TailOf
<1>3. PICK aq \in Seq(Events), bq \in Seq(Events), p \in Packets :
        /\ aq \in Seq(Events) /\ bq \in Seq(Events) /\ p \in Packets
        /\ aq = a.queue /\ bq = b.queue /\ p = q[1] /\ bq = QueueAfter(aq, p)
  BY <1>2 DEF Connections, Reads
<1>4. /\ Len(aq) \in Nat /\ \A i \in 1 .. Len(aq) : bq[i] = aq[i]
     /\ IF q[1].type = "event"
          THEN /\ Len(bq) = Len(aq) + 1
               /\ bq[Len(bq)].serial = q[1].id /\ bq[Len(bq)].id = q[1].id /\ bq[Len(bq)].n = q[1].n
          ELSE bq = aq
  <2>1. /\ Len(aq) \in Nat /\ \A i \in 1 .. Len(aq) : bq[i] = aq[i]
        /\ IF p.type = "event"
             THEN /\ Len(bq) = Len(aq) + 1
                  /\ bq[Len(bq)].serial = p.id /\ bq[Len(bq)].id = p.id /\ bq[Len(bq)].n = p.n
             ELSE bq = aq
    <3>1. aq \in Seq(Events) /\ p \in Packets
      BY ONLY <1>3
    <3>2. /\ Len(aq) \in Nat
          /\ \A i \in 1 .. Len(aq) : QueueAfter(aq, p)[i] = aq[i]
          /\ IF p.type = "event"
               THEN /\ Len(QueueAfter(aq, p)) = Len(aq) + 1
                    /\ QueueAfter(aq, p)[Len(aq) + 1].serial = p.id
                    /\ QueueAfter(aq, p)[Len(aq) + 1].id = p.id
                    /\ QueueAfter(aq, p)[Len(aq) + 1].n = p.n
               ELSE QueueAfter(aq, p) = aq
      BY ONLY <3>1, QueueGrows
    <3>3. bq = QueueAfter(aq, p)
      BY ONLY <1>3
    <3> QED
      BY ONLY <3>2, <3>3
  <2> QED
    BY <1>3, <2>1
<1>5. q[1].type = "event" => q[1].n \in 1 .. posted
  BY <1>2 DEF Numbered, Packets
<1>6. ASSUME NEW i \in 1 .. Len(bq)
      PROVE  i \in 1 .. Len(aq) \/ (i = Len(bq) /\ i = Len(aq) + 1 /\ q[1].type = "event" /\ q[1].n # 0)
  BY <1>3, <1>4, <1>5
<1>7. \A i \in 1 .. Len(bq) : bq[i].serial = bq[i].id /\ bq[i].n \in 1 .. posted
  BY <1>3, <1>4, <1>5, <1>6 DEF InOrder
<1>8. ASSUME NEW i \in 1 .. Len(bq), NEW j \in 1 .. Len(bq), i < j PROVE bq[i].n < bq[j].n
  <2>1. \A k, l \in 1 .. Len(aq) : k < l => aq[k].n < aq[l].n
    BY <1>3, <1>4 DEF InOrder
  <2>2. \A k \in 1 .. Len(aq) : q[1].n # 0 => aq[k].n < q[1].n
    BY <1>2, <1>3, <1>4 DEF InOrder
  <2>3. i \in 1 .. Len(aq) /\ bq[i] = aq[i]
    BY <1>3, <1>4, <1>6, <1>8
  <2>4. CASE j \in 1 .. Len(aq)
    BY <1>3, <1>4, <1>8, <2>1, <2>3, <2>4
  <2>5. CASE j \notin 1 .. Len(aq)
    BY <1>3, <1>4, <1>6, <2>2, <2>3, <2>5
  <2> QED
    BY <2>4, <2>5
<1>9. ASSUME NEW i \in 1 .. Len(r), NEW j \in 1 .. Len(r), i < j, r[j].n # 0 PROVE r[i].n < r[j].n
  <2>1. \A k, m \in 1 .. Len(q) : k < m /\ q[m].n # 0 => q[k].n < q[m].n
    BY DEF InOrder
  <2>2. /\ i + 1 \in 1 .. Len(q) /\ j + 1 \in 1 .. Len(q) /\ i + 1 < j + 1
        /\ r[i] = q[i + 1] /\ r[j] = q[j + 1]
    BY <1>2, <1>9
  <2> QED
    BY <1>9, <2>1, <2>2
<1>10. \A i \in 1 .. Len(taken), j \in 1 .. Len(bq) : SameKind(taken[i], bq[j].n) => taken[i] < bq[j].n
  <2>1. \A i \in 1 .. Len(taken), j \in 1 .. Len(aq) : SameKind(taken[i], aq[j].n) => taken[i] < aq[j].n
    BY <1>3, <1>4 DEF InOrder
  <2>2. \A i \in 1 .. Len(taken) : q[1].n # 0 => taken[i] < q[1].n
    BY <1>2 DEF InOrder
  <2> QED
    BY <1>3, <1>4, <1>6, <2>1, <2>2
<1>11. \A i \in 1 .. Len(taken), j \in 1 .. Len(r) : r[j].n # 0 => taken[i] < r[j].n
  BY <1>2 DEF InOrder
<1>12. ASSUME NEW i \in 1 .. Len(bq), NEW j \in 1 .. Len(r), r[j].n # 0 PROVE bq[i].n < r[j].n
  <2>1. j + 1 \in 1 .. Len(q) /\ 1 < j + 1 /\ q[j + 1].n # 0 /\ r[j].n = q[j + 1].n
    BY <1>2, <1>12
  <2>2. CASE i \in 1 .. Len(aq)
    <3>1. \A k \in 1 .. Len(aq), m \in 1 .. Len(q) : q[m].n # 0 => aq[k].n < q[m].n
      BY <1>3, <1>4 DEF InOrder
    <3> QED
      BY <1>3, <1>4, <2>1, <2>2, <3>1
  <2>3. CASE i \notin 1 .. Len(aq)
    <3>1. \A k, m \in 1 .. Len(q) : k < m /\ q[m].n # 0 => q[k].n < q[m].n
      BY DEF InOrder
    <3>2. bq[i].n = q[1].n
      BY <1>3, <1>4, <1>6, <2>3
    <3> QED
      BY <1>2, <2>1, <3>1, <3>2
  <2> QED
    BY <2>2, <2>3
<1>13. /\ \A i \in 1 .. Len(taken) : taken[i] \in 1 .. posted
       /\ \A i, j \in 1 .. Len(taken) : i < j /\ SameKind(taken[i], taken[j]) => taken[i] < taken[j]
  BY DEF InOrder
<1>14. InOrder(b, r)
  BY <1>3, <1>4, <1>7, <1>8, <1>9, <1>10, <1>11, <1>12, <1>13 DEF InOrder
<1> QED
  BY <1>2, <1>14

LEMMA NoneLostRead ==
  ASSUME NEW a \in Connections, NEW b \in Connections, NEW q \in Seq(Packets), q # <<>>, Reads(a, b, q),
         posted \in Nat, Numbered(a, q), NoneLost(a, q)
  PROVE  NoneLost(b, Tail(q))
<1>1. q \in Seq(Packets) /\ q # <<>>
  OBVIOUS
<1>2. PICK r \in Seq(Packets) :
        /\ r = Tail(q) /\ Len(r) = Len(q) - 1 /\ Len(q) \in Nat \ {0}
        /\ Head(q) = q[1] /\ q[1] \in Packets /\ 1 \in 1 .. Len(q)
        /\ \A i \in 1 .. Len(r) : r[i] = q[i + 1] /\ i + 1 \in 1 .. Len(q)
  BY ONLY <1>1, TailOf
<1>3. PICK aq \in Seq(Events), bq \in Seq(Events), p \in Packets :
        /\ aq \in Seq(Events) /\ bq \in Seq(Events) /\ p \in Packets
        /\ aq = a.queue /\ bq = b.queue /\ p = q[1] /\ bq = QueueAfter(aq, p)
  BY <1>2 DEF Connections, Reads
<1>4. /\ Len(aq) \in Nat /\ \A i \in 1 .. Len(aq) : bq[i] = aq[i]
     /\ IF q[1].type = "event" THEN Len(bq) = Len(aq) + 1 /\ bq[Len(bq)].n = q[1].n ELSE bq = aq
  <2>1. /\ Len(aq) \in Nat /\ \A i \in 1 .. Len(aq) : bq[i] = aq[i]
        /\ IF p.type = "event" THEN Len(bq) = Len(aq) + 1 /\ bq[Len(bq)].n = p.n ELSE bq = aq
    <3>1. aq \in Seq(Events) /\ p \in Packets
      BY ONLY <1>3
    <3>2. /\ Len(aq) \in Nat
          /\ \A i \in 1 .. Len(aq) : QueueAfter(aq, p)[i] = aq[i]
          /\ IF p.type = "event"
               THEN /\ Len(QueueAfter(aq, p)) = Len(aq) + 1
                    /\ QueueAfter(aq, p)[Len(aq) + 1].serial = p.id
                    /\ QueueAfter(aq, p)[Len(aq) + 1].id = p.id
                    /\ QueueAfter(aq, p)[Len(aq) + 1].n = p.n
               ELSE QueueAfter(aq, p) = aq
      BY ONLY <3>1, QueueGrows
    <3>3. bq = QueueAfter(aq, p)
      BY ONLY <1>3
    <3> QED
      BY ONLY <3>2, <3>3
  <2> QED
    BY <1>3, <2>1
<1>5. ASSUME NEW m \in 1 .. posted
      PROVE  \/ m \in discarded
             \/ \E i \in 1 .. Len(taken) : taken[i] = m
             \/ \E i \in 1 .. Len(bq) : bq[i].n = m
             \/ \E i \in 1 .. Len(r) : r[i].n = m
  <2>1. \/ m \in discarded
        \/ \E i \in 1 .. Len(taken) : taken[i] = m
        \/ \E i \in 1 .. Len(aq) : aq[i].n = m
        \/ \E i \in 1 .. Len(q) : q[i].n = m
    BY <1>3, <1>4 DEF NoneLost
  <2>2. CASE \E i \in 1 .. Len(aq) : aq[i].n = m
    BY <1>3, <1>4, <2>2
  <2>3. CASE \E i \in 1 .. Len(q) : q[i].n = m
    <3>1. PICK i \in 1 .. Len(q) : q[i].n = m
      BY <2>3
    <3>2. CASE i = 1
      <4>1. q[1].type = "event"
        BY <1>2, <3>1, <3>2 DEF Numbered
      <4> QED
        BY <1>3, <1>4, <3>1, <3>2, <4>1
    <3>3. CASE i # 1
      <4>1. i - 1 \in 1 .. Len(r) /\ (i - 1) + 1 = i
        BY <1>2, <3>3
      <4>2. r[i - 1].n = m
        BY <1>2, <3>1, <4>1
      <4> QED
        BY <4>1, <4>2
    <3> QED
      BY <3>2, <3>3
  <2> QED
    BY <2>1, <2>2, <2>3
<1>6. discarded \subseteq 1 .. posted
  BY DEF NoneLost
<1>7. NoneLost(b, r)
  BY <1>3, <1>4, <1>5, <1>6 DEF NoneLost
<1> QED
  BY <1>2, <1>7

LEMMA WidenedType ==
  ASSUME NEW last \in Nat, NEW request \in Nat, NEW seq \in Nat
  PROVE  Widened(last, request, seq) \in Nat
<1> DEFINE p == last \div Wrap
<1>1. p \in Nat
  BY DivMod
<1>2. Wrap \in Nat
  BY WrapAssumption
<1> HIDE DEF p
<1>3. p * Wrap \in Nat
  BY <1>1, <1>2, Z3
<1>4. /\ p * Wrap + seq \in Nat /\ p * Wrap + seq + Wrap \in Nat
  BY <1>2, <1>3
<1>5. Widened(last, request, seq) \in {p * Wrap + seq, p * Wrap + seq + Wrap}
  BY DEF Widened, p
<1> QED
  BY <1>4, <1>5

\* An error disturbs neither what is to be sent nor what has been read.
LEMMA DeliveredKeeps ==
  ASSUME NEW a \in Connections, NEW p \in Packets
  PROVE  /\ Delivered(a, p) \in Connections
         /\ Delivered(a, p).buffer = a.buffer /\ Delivered(a, p).request = a.request
         /\ Delivered(a, p).queue = a.queue /\ Delivered(a, p).last_request_read = a.last_request_read
<1> DEFINE Watches(h) == h.seq = a.last_request_read
           hs == {IF Watches(h) THEN [h EXCEPT !.failed = p.id] ELSE h : h \in a.async_handlers}
           es == a.errors \cup {[serial |-> a.last_request_read, id |-> p.id, kind |-> p.kind]}
<1>1. hs \in SUBSET Handlers
  <2>1. p.id \in Nat /\ a.async_handlers \in SUBSET Handlers
    BY DEF Connections, Packets
  <2>2. \A h \in Handlers : [h EXCEPT !.failed = p.id] \in Handlers
    BY <2>1 DEF Handlers
  <2> QED
    BY <2>1, <2>2
<1>2. es \in SUBSET Errors
  BY DEF Errors, Connections, Packets
<1>3. Delivered(a, p) = [a EXCEPT !.async_handlers = hs] \/ Delivered(a, p) = [a EXCEPT !.errors = es]
  BY DEF Delivered
<1> HIDE DEF hs, es
<1>4. CASE Delivered(a, p) = [a EXCEPT !.async_handlers = hs]
  BY <1>1, <1>4 DEF Connections
<1>5. CASE Delivered(a, p) = [a EXCEPT !.errors = es]
  BY <1>2, <1>5 DEF Connections
<1> QED
  BY <1>3, <1>4, <1>5

\* What a packet does to the connection, once its number is known.
LEMMA ReceivedIs ==
  ASSUME NEW a \in Connections, NEW p \in Packets, NEW n \in Nat,
         n = Widened(a.last_request_read, a.request, p.seq), NEW b, b = Received(a, p)
  PROVE  /\ b \in Connections /\ b.buffer = a.buffer /\ b.request = a.request
         /\ b.last_request_read = n
         /\ n = p.id => b.queue = QueueAfter(a.queue, p)
<1>1. /\ a.queue \in Seq(Events) /\ p.id \in Nat /\ p.n \in Nat /\ p.type \in {"reply", "error", "event"}
  BY DEF Connections, Packets
<1>2. PICK d \in Connections : d = [a EXCEPT !.last_request_read = n]
  BY DEF Connections
<1>3. /\ d.buffer = a.buffer /\ d.request = a.request /\ d.queue = a.queue /\ d.last_request_read = n
  BY <1>2 DEF Connections
<1>4. CASE p.type = "event"
  <2>1. PICK e \in Events : e = [serial |-> n, id |-> p.id, n |-> p.n]
    BY <1>1 DEF Events
  <2>2. PICK s \in Seq(Events) : s = Append(d.queue, e)
    <3>1. d.queue \in Seq(Events) /\ e \in Events
      BY <1>1, <1>3
    <3>2. Append(d.queue, e) \in Seq(Events)
      BY ONLY <3>1
    <3> QED
      BY <3>2
  <2>3. b = [d EXCEPT !.queue = s]
    BY <1>2, <1>4, <2>1, <2>2 DEF Received
  <2>4. b \in Connections
    BY <2>2, <2>3 DEF Connections
  <2>5. b.queue = s /\ b.buffer = d.buffer /\ b.request = d.request /\ b.last_request_read = d.last_request_read
    BY <2>3 DEF Connections
  <2>6. n = p.id => s = QueueAfter(a.queue, p)
    BY <1>3, <1>4, <2>1, <2>2 DEF QueueAfter
  <2> QED
    BY <1>3, <2>4, <2>5, <2>6
<1>5. CASE p.type = "error"
  <2>1. b = Delivered(d, p)
    BY <1>2, <1>5 DEF Received
  <2>2. QueueAfter(a.queue, p) = a.queue
    BY <1>5 DEF QueueAfter
  <2> QED
    BY <1>3, <2>1, <2>2, DeliveredKeeps
<1>6. CASE p.type = "reply"
  <2>1. PICK s \in SUBSET Nat : s = d.dropped \cup {p.id}
    BY <1>1 DEF Connections
  <2>2. b = [d EXCEPT !.dropped = s]
    BY <1>2, <1>6, <2>1 DEF Received
  <2>3. QueueAfter(a.queue, p) = a.queue
    BY <1>6 DEF QueueAfter
  <2>4. b \in Connections
    BY <2>1, <2>2 DEF Connections
  <2>5. /\ b.queue = d.queue /\ b.buffer = d.buffer /\ b.request = d.request
        /\ b.last_request_read = d.last_request_read
    BY <2>2 DEF Connections
  <2> QED
    BY <1>3, <2>3, <2>4, <2>5
<1> QED
  BY <1>1, <1>4, <1>5, <1>6

LEMMA ReceivedTyped ==
  ASSUME NEW a \in Connections, NEW p \in Packets
  PROVE  Received(a, p) \in Connections
<1>1. a.last_request_read \in Nat /\ a.request \in Nat /\ p.seq \in Nat
  BY DEF Connections, Packets
<1>2. PICK n \in Nat : n = Widened(a.last_request_read, a.request, p.seq)
  BY <1>1, WidenedType
<1> QED
  BY <1>2, ReceivedIs

\* The number of the next packet is found, and of an awaited one too.
LEMMA NextNumber ==
  ASSUME NEW a \in Connections, NEW q \in Seq(Packets), q # <<>>, Numbered(a, q),
         executed \in Nat, executed <= a.request, a.request - a.last_request_read < Wrap
  PROVE  /\ Widened(a.last_request_read, a.request, Head(q).seq) = Head(q).id
         /\ \A n \in Nat : n <= a.request /\ a.request - n < Wrap /\ Head(q).seq = n % Wrap
                          => Head(q).id = n
         /\ a.last_request_read <= Head(q).id /\ Head(q).id <= a.request
<1>1. Head(q) = q[1] /\ q[1] \in Packets /\ 1 \in 1 .. Len(q)
  OBVIOUS
<1>2. q[1].seq = q[1].id % Wrap /\ a.last_request_read <= q[1].id /\ q[1].id <= executed
  BY <1>1 DEF Numbered
<1>3. PICK last \in Nat, request \in Nat, id \in Nat :
        last = a.last_request_read /\ request = a.request /\ id = q[1].id
  BY <1>1 DEF Connections, Packets
<1>4. last <= id /\ id <= request /\ id - last < Wrap /\ request - last < Wrap
  BY <1>2, <1>3, WrapAssumption
<1>5. Widened(last, request, LowBits(id)) = id
  BY <1>4, WideningExact
<1>6. ASSUME NEW n \in Nat, n <= request, request - n < Wrap, id % Wrap = n % Wrap PROVE id = n
  <2>1. CASE n <= id
    <3>1. id - n < Wrap /\ n - n < Wrap
      BY <1>4, <1>6, <2>1, WrapAssumption
    <3>2. Widened(n, request, LowBits(id)) = id /\ Widened(n, request, LowBits(n)) = n
      BY <1>4, <1>6, <2>1, <3>1, WideningExact
    <3> QED
      BY <1>6, <3>2 DEF LowBits
  <2>2. CASE id < n
    <3>1. n - id < Wrap /\ id - id < Wrap
      BY <1>4, <1>6, <2>2, WrapAssumption
    <3>2. Widened(id, request, LowBits(id)) = id /\ Widened(id, request, LowBits(n)) = n
      BY <1>4, <1>6, <2>2, <3>1, WideningExact
    <3> QED
      BY <1>6, <3>2 DEF LowBits
  <2> QED
    BY <2>1, <2>2
<1>7. ASSUME NEW n \in Nat, n <= a.request, a.request - n < Wrap, Head(q).seq = n % Wrap
      PROVE  Head(q).id = n
  BY <1>1, <1>2, <1>3, <1>6, <1>7
<1>8. Widened(a.last_request_read, a.request, Head(q).seq) = Head(q).id
  BY <1>1, <1>2, <1>3, <1>5 DEF LowBits
<1>9. a.last_request_read <= Head(q).id /\ Head(q).id <= a.request
  BY <1>1, <1>2, <1>3, <1>4
<1> QED
  BY <1>7, <1>8, <1>9

LEMMA ReadsGrow ==
  ASSUME NEW a \in Connections, NEW b \in Connections, NEW q \in Seq(Packets), q # <<>>, Reads(a, b, q),
         a.request <= b.request
  PROVE  Grown(a, b)
<1>1. PICK s \in Seq(Events), u \in Seq(Events), p \in Packets :
        /\ s \in Seq(Events) /\ p \in Packets
        /\ s = a.queue /\ u = b.queue /\ p = Head(q) /\ u = QueueAfter(s, p)
  BY DEF Reads, Connections
<1>2. s \in Seq(Events) /\ p \in Packets
  BY ONLY <1>1
<1>3. /\ Len(s) \in Nat /\ \A i \in 1 .. Len(s) : QueueAfter(s, p)[i] = s[i]
      /\ IF p.type = "event" THEN Len(QueueAfter(s, p)) = Len(s) + 1 ELSE QueueAfter(s, p) = s
  BY ONLY <1>2, QueueGrows
<1>4. Len(s) <= Len(QueueAfter(s, p))
  BY ONLY <1>3
<1>5. Len(s) <= Len(u) /\ \A i \in 1 .. Len(s) : u[i] = s[i]
  BY ONLY <1>1, <1>3, <1>4
<1> QED
  BY <1>1, <1>5 DEF Grown

LEMMA GrownOn ==
  ASSUME NEW a \in Connections, NEW b \in Connections, NEW c \in Connections, Grown(a, b), Grown(b, c)
  PROVE  Grown(a, c)
<1>1. /\ a.request \in Nat /\ b.request \in Nat /\ c.request \in Nat
      /\ Len(a.queue) \in Nat /\ Len(b.queue) \in Nat /\ Len(c.queue) \in Nat
  BY DEF Connections
<1> QED
  BY <1>1 DEF Grown

\* A packet that is read while not waiting for a reply.
LEMMA ReceivedKeeps ==
  ASSUME NEW a \in Connections, NEW q \in Seq(Packets), q # <<>>, Reading(a, q),
         executed \in Nat, posted \in Nat, taken \in Seq(Nat),
         executed <= a.request, a.request - a.last_request_read < Wrap
  PROVE  \E b \in Connections : /\ b = Received(a, Head(q)) /\ Reads(a, b, q)
                                /\ b.request = a.request /\ b.buffer = a.buffer
                                /\ a.last_request_read <= b.last_request_read
                                /\ Reading(b, Tail(q)) /\ Grown(a, b)
<1>1. PICK p \in Packets : p = Head(q) /\ p.id \in Nat /\ p.seq \in Nat
  <2>1. Head(q) \in Packets
    OBVIOUS
  <2> QED
    BY <2>1 DEF Packets
<1>2. Numbered(a, q) /\ InOrder(a, q) /\ NoneLost(a, q)
  BY DEF Reading
<1>3. p.id = Widened(a.last_request_read, a.request, p.seq)
  BY <1>1, <1>2, NextNumber
<1>4. PICK b : b = Received(a, p)
  OBVIOUS
<1>5. /\ b \in Connections /\ b.buffer = a.buffer /\ b.request = a.request
      /\ b.last_request_read = p.id /\ b.queue = QueueAfter(a.queue, p)
  BY <1>1, <1>3, <1>4, ReceivedIs
<1>6. Reads(a, b, q)
  BY <1>1, <1>5 DEF Reads
<1>7. a.last_request_read <= b.last_request_read /\ Reading(b, Tail(q))
  BY <1>2, <1>5, <1>6, NumberedRead, InOrderRead, NoneLostRead DEF Reading
<1>8. Grown(a, b)
  <2>1. a.request <= b.request
    BY <1>5 DEF Connections
  <2> QED
    BY <1>5, <1>6, <2>1, ReadsGrow
<1> QED
  BY <1>1, <1>4, <1>5, <1>6, <1>7, <1>8

\* The connection after each of the packets q.
Loop(f, a, q) == f = [i \in 0 .. Len(q) |-> IF i = 0 THEN a ELSE Received(f[i - 1], q[i])]

\* All packets that have arrived (_AuEventsQueued).
LEMMA ReadAllKeeps ==
  ASSUME NEW a \in Connections, NEW q \in Seq(Packets), Reading(a, q),
         executed \in Nat, posted \in Nat, taken \in Seq(Nat),
         executed <= a.request, a.request - a.last_request_read < Wrap,
         NEW f, Loop(f, a, q), NEW b, b = f[Len(q)]
  PROVE  /\ b \in Connections /\ b.request = a.request /\ b.buffer = a.buffer
         /\ a.last_request_read <= b.last_request_read
         /\ Reading(b, <<>>) /\ Grown(a, b)
<1> DEFINE n == Len(q)
           rest(i) == SubSeq(q, i + 1, n)
           P(i) == /\ f[i] \in Connections /\ f[i].request = a.request /\ f[i].buffer = a.buffer
                   /\ a.last_request_read <= f[i].last_request_read
                   /\ Reading(f[i], rest(i)) /\ Grown(a, f[i])
           T == {i \in 0 .. n : ~P(i)}
<1>1. n \in Nat /\ q \in Seq(Packets)
  OBVIOUS
<1>2. f[0] = a /\ \A i \in 1 .. n : f[i] = Received(f[i - 1], q[i])
  <2>1. 0 \in 0 .. n /\ \A i \in 1 .. n : i \in 0 .. n /\ i # 0
    BY <1>1
  <2> QED
    BY <2>1 DEF Loop
<1>3. rest(0) = q /\ rest(n) = <<>>
  BY <1>1
<1>4. P(0)
  <2>1. Grown(a, a)
    BY DEF Grown, Connections
  <2>2. a.last_request_read <= a.last_request_read
    BY DEF Connections
  <2> HIDE DEF rest
  <2> QED
    BY <1>2, <1>3, <2>1, <2>2
<1>5. ASSUME NEW i \in 0 .. n - 1, P(i) PROVE P(i + 1)
  <2>1. PICK r \in Seq(Packets) : /\ r = rest(i) /\ r # <<>> /\ Head(r) = q[i + 1] /\ Tail(r) = rest(i + 1)
                                  /\ rest(i + 1) \in Seq(Packets)
    <3>1. /\ rest(i) \in Seq(Packets) /\ rest(i + 1) \in Seq(Packets)
          /\ Len(rest(i)) = n - i /\ Len(rest(i + 1)) = n - i - 1 /\ n - i > 0
          /\ \A k \in 1 .. n - i : rest(i)[k] = q[i + k]
          /\ \A k \in 1 .. n - i - 1 : rest(i + 1)[k] = q[(i + 1) + k]
      BY <1>1
    <3>2. PICK r \in Seq(Packets), s \in Seq(Packets) : r = rest(i) /\ s = rest(i + 1)
      BY <3>1
    <3> HIDE DEF rest
    <3>3. r # <<>> /\ Head(r) = r[1] /\ r[1] = q[i + 1]
      BY <1>1, <3>1, <3>2
    <3>4. /\ Tail(r) \in Seq(Packets) /\ Len(Tail(r)) = Len(s)
          /\ \A k \in 1 .. Len(Tail(r)) : Tail(r)[k] = s[k]
      <4>1. Tail(r) \in Seq(Packets) /\ Len(Tail(r)) = n - i - 1
        BY <3>1, <3>2, <3>3
      <4>2. ASSUME NEW k \in 1 .. n - i - 1 PROVE Tail(r)[k] = s[k]
        <5>1. Tail(r)[k] = r[k + 1] /\ k + 1 \in 1 .. n - i /\ i + (k + 1) = (i + 1) + k
          BY <1>1, <3>1, <3>2, <3>3
        <5> QED
          BY <3>1, <3>2, <5>1
      <4> QED
        BY <3>1, <3>2, <4>1, <4>2
    <3>5. Tail(r) = s
      BY <3>4, SameSequence
    <3> QED
      BY <3>2, <3>3, <3>5
  <2>2. i + 1 \in 1 .. n /\ (i + 1) - 1 = i
    BY <1>1
  <2>3. f[i + 1] = Received(f[i], Head(r))
    BY <1>2, <2>1, <2>2
  <2>4. PICK c \in Connections : c = f[i]
    BY <1>5
  <2>5. /\ c.request = a.request /\ c.buffer = a.buffer /\ a.last_request_read <= c.last_request_read
        /\ Reading(c, r) /\ Grown(a, c)
    BY <1>5, <2>1, <2>4
  <2>6. executed <= c.request /\ c.request - c.last_request_read < Wrap
    BY <2>5, WrapAssumption DEF Connections
  <2> HIDE DEF n, rest, P, T
  <2>7. PICK d \in Connections : /\ d = Received(c, Head(r))
                                 /\ d.request = c.request /\ d.buffer = c.buffer
                                 /\ c.last_request_read <= d.last_request_read
                                 /\ Reading(d, Tail(r)) /\ Grown(c, d)
    BY <2>1, <2>5, <2>6, ReceivedKeeps
  <2>8. Grown(a, d)
    BY <2>5, <2>7, GrownOn
  <2>9. a.last_request_read <= d.last_request_read
    BY <2>5, <2>7 DEF Connections
  <2>10. d = f[i + 1]
    BY <2>3, <2>4, <2>7
  <2> QED
    BY <2>1, <2>5, <2>7, <2>8, <2>9, <2>10 DEF P
<1> HIDE DEF P, n, rest
<1>6. T = {}
  <2>1. ASSUME T # {} PROVE FALSE
    <3>1. T \in SUBSET Nat
      BY <1>1
    <3>2. PICK m \in T : \A k \in T : m <= k
      BY <2>1, <3>1, LeastElement
    <3>3. m # 0
      BY <1>4, <3>2
    <3>4. m - 1 \in 0 .. n - 1 /\ m - 1 \in 0 .. n /\ (m - 1) + 1 = m /\ ~(m <= m - 1)
      BY <1>1, <3>2, <3>3
    <3>5. P(m - 1)
      BY <3>2, <3>4
    <3>6. P(m)
      BY <1>5, <3>4, <3>5
    <3> QED
      BY <3>2, <3>6
  <2> QED
    BY <2>1
<1>7. P(n)
  <2>1. n \in 0 .. n
    BY <1>1
  <2>2. ASSUME ~P(n) PROVE FALSE
    BY <1>6, <2>1, <2>2
  <2> QED
    BY <2>2
<1> QED
  BY <1>3, <1>7 DEF P, n

-----------------------------------------------------------------------------
(* What a step of a thread puts in its place.                                *)

\* Steps about which StepInv says nothing, and that are no scans.
Plain == {x \in Steps : x.op \notin {"scan", "await"}}

LEMMA PlainSteps ==
  ASSUME NEW b \in Seq(Plain)
  PROVE  /\ b \in Seq(Steps) /\ NoScan(b) /\ Alone(b)
         /\ \A i \in 1 .. Len(b) : \A a : StepInv(b[i], a)
<1>1. b \in Seq(Steps)
  BY DEF Plain
<1>2. \A i \in 1 .. Len(b) : b[i] \in Plain
  OBVIOUS
<1>3. \A i \in 1 .. Len(b) : b[i].op # "scan" /\ b[i].op # "await"
  BY <1>2 DEF Plain
<1> QED
  BY <1>1, <1>3 DEF NoScan, Alone, StepInv

\* The new steps fit where the old one was.
Turned(t, b) == prog.locks => Turns(b, State(Rest(t)), State(todo[t]))

\* What the first step of a thread says about the lock.
LEMMA FirstStep ==
  ASSUME Typed, StackInv, NEW t \in Threads, todo[t] # <<>>
  PROVE  /\ todo[t] \in Seq(Steps) /\ Rest(t) \in Seq(Steps) /\ Head(todo[t]) \in Steps
         /\ prog.calls[t] # {}
         /\ Head(todo[t]).op \notin Release \cup {"lock"} => State(todo[t]) = State(Rest(t))
         /\ prog.locks /\ Head(todo[t]).op \in Inside => State(todo[t]) = "held" /\ State(Rest(t)) = "held"
         /\ prog.locks /\ Head(todo[t]).op \in Outside => State(todo[t]) = "free" /\ State(Rest(t)) = "free"
         /\ Head(todo[t]).op \in Release => State(todo[t]) = "held"
         /\ prog.locks /\ Head(todo[t]).op \in Release => State(Rest(t)) = "free"
         /\ Head(todo[t]).op = "lock" => State(todo[t]) = "free"
         /\ prog.locks /\ State(todo[t]) = "held" => lock = t
<1>1. todo[t] \in Seq(Steps)
  BY DEF Typed
<1>2. /\ Head(todo[t]) \in Steps /\ Rest(t) \in Seq(Steps)
      /\ State(todo[t]) = Before(Head(todo[t]).op, State(Rest(t)))
      /\ Fits(todo[t]) => May(Head(todo[t]).op, State(Rest(t)))
  BY <1>1, StackTail DEF Rest
<1>3. prog.calls[t] # {} /\ (prog.locks => Fits(todo[t]) /\ (HeldAt(todo[t], 1) => lock = t))
  BY DEF StackInv
<1>4. State(todo[t]) = "held" => HeldAt(todo[t], 1)
  BY DEF State
<1>5. PICK op : op = Head(todo[t]).op
  OBVIOUS
<1>6. /\ op \notin Release \cup {"lock"} => State(todo[t]) = State(Rest(t))
      /\ op \in Release => State(todo[t]) = "held"
      /\ op = "lock" => State(todo[t]) = "free"
  BY <1>2, <1>5 DEF Before, Release
<1>7. ASSUME prog.locks, op \in Inside PROVE State(todo[t]) = "held" /\ State(Rest(t)) = "held"
  BY <1>2, <1>3, <1>5, <1>6, <1>7 DEF May, Inside, Release
<1>8. ASSUME prog.locks, op \in Outside PROVE State(todo[t]) = "free" /\ State(Rest(t)) = "free"
  BY <1>2, <1>3, <1>5, <1>6, <1>8 DEF May, Outside, Release
<1>9. ASSUME prog.locks, op \in Release PROVE State(Rest(t)) = "free"
  BY <1>2, <1>3, <1>5, <1>9 DEF May, Release
<1>10. prog.locks /\ State(todo[t]) = "held" => lock = t
  BY <1>3, <1>4
<1> QED
  BY <1>1, <1>2, <1>3, <1>5, <1>6, <1>7, <1>8, <1>9, <1>10

\* A thread goes on without touching the lock.
LEMMA GoesOn ==
  ASSUME Typed, StackInv, StepsInv, NEW t \in Threads, todo[t] # <<>>, NEW b \in Seq(Steps), Continue(t, b),
         prog' = prog, lock' = lock, Turned(t, b), Alone(b \o Rest(t)),
         aud' \in Connections, aud.request <= aud'.request, \A i \in 1 .. Len(b) : StepInv(b[i], aud'),
         \/ Grown(aud, aud')
         \/ \A u \in Threads : \A i \in 1 .. Len(todo[u]) :
              todo[u][i].op = "scan" /\ ~(u = t /\ i = 1) => todo[u][i].n = 0
  PROVE  StackInv' /\ StepsInv' /\ todo' \in [Threads -> Seq(Steps)]
<1>1. StepsInv'
  BY StepsReplaced
<1>2. ASSUME prog.locks
      PROVE  /\ Turns(b, State(Rest(t)), State(todo[t]))
             /\ State(todo[t]) = "held" => lock' = t
             /\ \A u \in Threads \ {t} : lock = u => lock' = u
  BY <1>2, FirstStep DEF Turned
<1>3. StackInv' /\ todo' \in [Threads -> Seq(Steps)]
  BY <1>2, StackReplaced
<1> QED
  BY <1>1, <1>3

\* With plain steps, in a place where no scan is going on.
LEMMA GoesOnPlainly ==
  ASSUME Typed, StackInv, StepsInv, NEW t \in Threads, todo[t] # <<>>, NEW b \in Seq(Plain), Continue(t, b),
         prog' = prog, lock' = lock, Turned(t, b), Head(todo[t]).op \notin Calm \cup {"lock"},
         aud' \in Connections, Grown(aud, aud')
  PROVE  StackInv' /\ StepsInv' /\ todo' \in [Threads -> Seq(Steps)]
<1>1. /\ b \in Seq(Steps) /\ NoScan(b) /\ Alone(b)
      /\ \A i \in 1 .. Len(b) : StepInv(b[i], aud')
  BY PlainSteps
<1>2. todo[t] \in Seq(Steps) /\ Alone(todo[t]) /\ Rest(t) \in Seq(Steps)
  BY FirstStep DEF StackInv
<1>3. NoScan(Rest(t))
  BY <1>2, AloneTail DEF Rest
<1>4. Alone(b \o Rest(t))
  BY <1>1, <1>2, <1>3, AloneBefore
<1>5. aud.request <= aud'.request
  BY DEF Grown
<1> QED
  BY <1>1, <1>4, <1>5, GoesOn

\* A thread is done with a step.
LEMMA LeavesOff ==
  ASSUME Typed, StackInv, StepsInv, NEW t \in Threads, todo[t] # <<>>, Done(t),
         prog' = prog, lock' = lock, Head(todo[t]).op \notin Release \cup {"lock"},
         aud' \in Connections, aud.request <= aud'.request,
         Grown(aud, aud') \/ Head(todo[t]).op \in {"take", "discard", "scan"}
  PROVE  StackInv' /\ StepsInv' /\ todo' \in [Threads -> Seq(Steps)]
<1>1. <<>> \in Seq(Steps) /\ \A i \in 1 .. Len(<<>>) : StepInv(<<>>[i], aud')
  OBVIOUS
<1>2. Rest(t) \in Seq(Steps) /\ State(todo[t]) = State(Rest(t)) /\ todo[t] \in Seq(Steps)
  BY FirstStep
<1>3. Turned(t, <<>>)
  BY <1>2, TurnsNone DEF Turned
<1>4. Alone(<<>> \o Rest(t))
  <2>1. Alone(Rest(t))
    BY <1>2, AloneTail DEF Rest, StackInv
  <2>2. <<>> \o Rest(t) = Rest(t)
    BY <1>2
  <2> QED
    BY <2>1, <2>2
<1>5. Continue(t, <<>>)
  BY DEF Done
<1>6. \/ Grown(aud, aud')
      \/ \A u \in Threads : \A i \in 1 .. Len(todo[u]) :
           todo[u][i].op = "scan" /\ ~(u = t /\ i = 1) => todo[u][i].n = 0
  BY OnlyScan
<1> QED
  BY <1>1, <1>3, <1>4, <1>5, <1>6, GoesOn

\* A thread stays where it is.
LEMMA Stays ==
  ASSUME Typed, StackInv, StepsInv, todo' = todo, prog' = prog, lock' = lock,
         aud' \in Connections, Grown(aud, aud')
  PROVE  StackInv' /\ StepsInv' /\ todo' \in [Threads -> Seq(Steps)]
<1>1. StackInv'
  BY DEF StackInv
<1>2. ASSUME NEW u \in Threads, NEW i \in 1 .. Len(todo[u]) PROVE StepInv(todo[u][i], aud')
  <2>1. PICK x \in Steps : x = todo[u][i]
    <3>1. todo[u] \in Seq(Steps)
      BY DEF Typed
    <3> QED
      BY <3>1
  <2>2. StepInv(x, aud) /\ aud \in Connections
    BY <2>1 DEF StepsInv, Typed
  <2>3. StepInv(x, aud')
    BY <2>2, StepKept DEF Grown
  <2> QED
    BY <2>1, <2>3
<1>3. StepsInv'
  BY <1>2 DEF StepsInv
<1> QED
  BY <1>1, <1>3 DEF Typed

-----------------------------------------------------------------------------
(* Calls.                                                                    *)

LEMMA StepType ==
  ASSUME NEW op \in Ops, NEW n \in Nat, NEW what \in Words
  PROVE  /\ Step(op, n, what) \in Steps
         /\ Step(op, n, what).op = op /\ Step(op, n, what).n = n /\ Step(op, n, what).what = what
         /\ op \notin {"scan", "await"} => Step(op, n, what) \in Plain
BY DEF Step, Steps, Plain

LEMMA DoType ==
  ASSUME NEW op \in Ops
  PROVE  /\ Do(op) \in Steps /\ Do(op).op = op
         /\ op \notin {"scan", "await"} => Do(op) \in Plain
<1>1. PICK n \in Nat, w \in Words : Do(op) = Step(op, n, w)
  BY DEF Do, Words
<1>2. /\ Step(op, n, w) \in Steps /\ Step(op, n, w).op = op
      /\ op \notin {"scan", "await"} => Step(op, n, w) \in Plain
  BY StepType
<1> QED
  BY <1>1, <1>2

LEMMA PlainJoin ==
  ASSUME NEW a \in Seq(Plain), NEW b \in Seq(Plain)
  PROVE  a \o b \in Seq(Plain) /\ a \in Seq(Steps) /\ b \in Seq(Steps)
BY DEF Plain

LEMMA LockedTurns ==
  ASSUME NEW c \in Seq(Plain), prog.locks \in BOOLEAN, prog.locks => Turns(c, "held", "held")
  PROVE  Locked(c) \in Seq(Plain) /\ (prog.locks => Turns(Locked(c), "free", "free"))
<1> DEFINE l == <<Do("lock")>>
           u == <<Do("unlock")>>
<1>1. Do("lock") \in Plain /\ Do("unlock") \in Plain /\ Do("lock").op = "lock" /\ Do("unlock").op = "unlock"
  BY DoType DEF Ops
<1>2. l \in Seq(Plain) /\ u \in Seq(Plain) /\ l \o c \in Seq(Plain) /\ (l \o c) \o u \in Seq(Plain)
  BY <1>1, PlainJoin
<1>3. CASE prog.locks
  <2>1. Do("lock") \in Steps /\ Do("unlock") \in Steps /\ c \in Seq(Steps) /\ l \in Seq(Steps) /\ u \in Seq(Steps)
    BY <1>1, <1>2, PlainJoin DEF Plain
  <2>2. Turns(u, "free", "held")
    <3>1. May("unlock", "free") /\ Before("unlock", "free") = "held"
      BY DEF May, Before, Inside, Outside, Release
    <3> QED
      BY <1>1, <2>1, <3>1, TurnsOne
  <2>3. Turns(l, "held", "free")
    <3>1. May("lock", "held") /\ Before("lock", "held") = "free"
      BY DEF May, Before, Inside, Outside, Release
    <3> QED
      BY <1>1, <2>1, <3>1, TurnsOne
  <2> HIDE DEF l, u
  <2>4. Turns(l \o c, "held", "free") /\ l \o c \in Seq(Steps)
    BY <1>3, <2>1, <2>3, TurnsJoin
  <2>5. Turns((l \o c) \o u, "free", "free")
    BY <2>1, <2>2, <2>4, TurnsJoin
  <2> QED
    BY <1>2, <1>3, <2>5 DEF Locked, l, u
<1>4. CASE ~prog.locks
  BY <1>4 DEF Locked
<1> QED
  BY <1>3, <1>4

LEMMA RequestingTurns ==
  ASSUME NEW c \in Seq(Plain), prog.locks \in BOOLEAN, prog.xt \in BOOLEAN,
         prog.locks => Turns(c, "held", "held")
  PROVE  Requesting(c) \in Seq(Plain) /\ (prog.locks => Turns(Requesting(c), "free", "free"))
<1> DEFINE s == IF prog.xt THEN <<Do("synchandle")>> ELSE <<>>
<1>1. Locked(c) \in Seq(Plain) /\ (prog.locks => Turns(Locked(c), "free", "free"))
  BY LockedTurns
<1>2. s \in Seq(Plain) /\ Turns(s, "free", "free")
  <2>1. Do("synchandle") \in Plain /\ Do("synchandle") \in Steps /\ Do("synchandle").op = "synchandle"
    BY DoType DEF Ops
  <2>2. May("synchandle", "free") /\ Before("synchandle", "free") = "free"
    BY DEF May, Before, Inside, Outside, Release
  <2>3. Turns(<<Do("synchandle")>>, "free", "free")
    BY <2>1, <2>2, TurnsOne
  <2>4. CASE prog.xt
    BY <2>1, <2>3, <2>4
  <2>5. CASE ~prog.xt
    BY <2>5, TurnsNone
  <2> QED
    BY <2>4, <2>5
<1> HIDE DEF s
<1>3. Locked(c) \o s \in Seq(Plain) /\ Locked(c) \in Seq(Steps) /\ s \in Seq(Steps)
  BY <1>1, <1>2, PlainJoin
<1>4. ASSUME prog.locks PROVE Turns(Locked(c) \o s, "free", "free")
  BY <1>1, <1>2, <1>3, <1>4, TurnsJoin
<1> QED
  BY <1>3, <1>4 DEF Requesting, s

\* Two and three steps that need the lock and keep it.
LEMMA InsideTwo ==
  ASSUME NEW x \in Plain, NEW y \in Plain, x.op \in Inside, y.op \in Inside
  PROVE  <<x, y>> \in Seq(Plain) /\ Turns(<<x, y>>, "held", "held")
<1>1. x \in Steps /\ y \in Steps
  BY DEF Plain
<1>2. /\ May(x.op, "held") /\ Before(x.op, "held") = "held"
      /\ May(y.op, "held") /\ Before(y.op, "held") = "held"
  BY DEF May, Before, Inside, Outside, Release
<1>3. Turns(<<x, y>>, "held", "held")
  BY <1>1, <1>2, TurnsTwo
<1> QED
  BY <1>3

LEMMA InsideThree ==
  ASSUME NEW x \in Plain, NEW y \in Plain, NEW z \in Plain, x.op \in Inside, y.op \in Inside, z.op \in Inside
  PROVE  <<x, y, z>> \in Seq(Plain) /\ Turns(<<x, y, z>>, "held", "held")
<1>1. x \in Steps /\ y \in Steps /\ z \in Steps
  BY DEF Plain
<1>2. /\ May(x.op, "held") /\ Before(x.op, "held") = "held"
      /\ May(y.op, "held") /\ Before(y.op, "held") = "held"
      /\ May(z.op, "held") /\ Before(z.op, "held") = "held"
  BY DEF May, Before, Inside, Outside, Release
<1>3. Turns(<<x, y, z>>, "held", "held")
  BY <1>1, <1>2, TurnsThree
<1> QED
  BY <1>3

LEMMA BodyFits ==
  ASSUME prog.locks \in BOOLEAN, prog.xt \in BOOLEAN, NEW call \in Calls \ {"scan"}
  PROVE  Body(call) \in Seq(Plain) /\ (prog.locks => Turns(Body(call), "free", "free"))
<1>1. call \in Words /\ "sync" \in Words /\ "first" \in Words
  BY DEF Words, Calls, Requests
<1>2. Step("put", 0, call) \in Plain /\ Step("put", 0, call).op = "put"
  BY <1>1, StepType DEF Ops
<1>3. CASE call \in {"quiet", "fail"}
  <2>1. <<Step("put", 0, call)>> \in Seq(Plain)
    BY <1>2
  <2>2. Turns(<<Step("put", 0, call)>>, "held", "held")
    <3>1. May("put", "held") /\ Before("put", "held") = "held"
      BY DEF May, Before, Inside, Outside, Release
    <3>2. Step("put", 0, call) \in Steps
      BY <1>2 DEF Plain
    <3> QED
      BY <1>2, <3>1, <3>2, TurnsOne
  <2>3. Body(call) = Requesting(<<Step("put", 0, call)>>)
    BY <1>3 DEF Body
  <2> QED
    BY <2>1, <2>2, <2>3, RequestingTurns
<1>4. CASE call \in {"good", "bad"}
  <2>1. Step("roundtrip", 0, call) \in Plain /\ Step("roundtrip", 0, call).op = "roundtrip"
    BY <1>1, StepType DEF Ops
  <2>2. PICK c \in Seq(Plain) : /\ c = <<Step("put", 0, call), Step("roundtrip", 0, call)>>
                                /\ Turns(c, "held", "held")
    BY <1>2, <2>1, InsideTwo DEF Inside
  <2>3. Body(call) = Requesting(c)
    BY <1>4, <2>2 DEF Body
  <2> QED
    BY <2>2, <2>3, RequestingTurns
<1>5. CASE call \in {"get", "badget"}
  <2>1. Step("reply", 0, call) \in Plain /\ Step("reply", 0, call).op = "reply"
    BY <1>1, StepType DEF Ops
  <2>2. PICK c \in Seq(Plain) : /\ c = <<Step("put", 0, call), Step("reply", 0, call)>>
                                /\ Turns(c, "held", "held")
    BY <1>2, <2>1, InsideTwo DEF Inside
  <2>3. Body(call) = Requesting(c)
    BY <1>5, <2>2 DEF Body
  <2> QED
    BY <2>2, <2>3, RequestingTurns
<1>6. CASE call = "sync"
  <2>1. /\ Step("put", 0, "sync") \in Plain /\ Step("put", 0, "sync").op = "put"
        /\ Step("reply", 0, "sync") \in Plain /\ Step("reply", 0, "sync").op = "reply"
        /\ Do("discard") \in Plain /\ Do("discard").op = "discard"
    BY <1>1, StepType, DoType DEF Ops
  <2>2. PICK c \in Seq(Plain) : /\ c = <<Step("put", 0, "sync"), Step("reply", 0, "sync"), Do("discard")>>
                                /\ Turns(c, "held", "held")
    BY <2>1, InsideThree DEF Inside
  <2>3. Body(call) = Locked(c)
    BY <1>6, <2>2 DEF Body
  <2> QED
    BY <2>2, <2>3, LockedTurns
<1>7. CASE call = "next"
  <2>1. /\ Do("lock") \in Plain /\ Do("lock").op = "lock" /\ Do("next") \in Plain /\ Do("next").op = "next"
        /\ Do("lock") \in Steps /\ Do("next") \in Steps
    BY DoType DEF Ops
  <2>2. /\ May("next", "free") /\ Before("next", "free") = "held"
        /\ May("lock", "held") /\ Before("lock", "held") = "free"
    BY DEF May, Before, Inside, Outside, Release
  <2>3. Turns(<<Do("lock"), Do("next")>>, "free", "free")
    BY <2>1, <2>2, TurnsTwo
  <2>4. <<Do("lock"), Do("next")>> \in Seq(Plain) /\ <<Do("next")>> \in Seq(Plain)
    BY <2>1
  <2> QED
    BY <1>7, <2>3, <2>4 DEF Body
<1>8. CASE call = "handle"
  <2>1. /\ Step("handle", 0, "first") \in Plain /\ Step("handle", 0, "first") \in Steps
        /\ Step("handle", 0, "first").op = "handle"
    BY <1>1, StepType DEF Ops
  <2>2. May("handle", "free") /\ Before("handle", "free") = "free"
    BY DEF May, Before, Inside, Outside, Release
  <2>3. Turns(<<Step("handle", 0, "first")>>, "free", "free") /\ <<Step("handle", 0, "first")>> \in Seq(Plain)
    BY <2>1, <2>2, TurnsOne
  <2> QED
    BY <1>8, <2>3 DEF Body
<1> QED
  BY <1>3, <1>4, <1>5, <1>6, <1>7, <1>8 DEF Calls, Requests

\* AuScanEvents: its first look starts at the head of the queue.
LEMMA ScanFits ==
  ASSUME prog.locks \in BOOLEAN
  PROVE  /\ Body("scan") \in Seq(Steps) /\ Alone(Body("scan"))
         /\ \A a \in Connections : \A i \in 1 .. Len(Body("scan")) : StepInv(Body("scan")[i], a)
         /\ prog.locks => Turns(Body("scan"), "free", "free")
<1>1. PICK x \in Steps, l \in Steps, u \in Steps :
        /\ x = Step("scan", 0, "already") /\ x.op = "scan" /\ x.n = 0 /\ x.what = "already"
        /\ l = Do("lock") /\ l.op = "lock" /\ u = Do("unlock") /\ u.op = "unlock"
  <2>1. Step("scan", 0, "already") \in Steps /\ Step("scan", 0, "already").op = "scan"
        /\ Step("scan", 0, "already").n = 0 /\ Step("scan", 0, "already").what = "already"
    <3>1. PICK op \in Ops, n \in Nat, w \in Words : op = "scan" /\ n = 0 /\ w = "already"
      BY DEF Ops, Words
    <3>2. /\ Step(op, n, w) \in Steps /\ Step(op, n, w).op = op /\ Step(op, n, w).n = n
          /\ Step(op, n, w).what = w
      BY StepType
    <3> QED
      BY <3>1, <3>2
  <2>2. /\ Do("lock") \in Steps /\ Do("lock").op = "lock"
        /\ Do("unlock") \in Steps /\ Do("unlock").op = "unlock"
    BY DoType DEF Ops
  <2> QED
    BY <2>1, <2>2
<1>2. ASSUME NEW y \in {x, l, u}, NEW a \in Connections PROVE StepInv(y, a)
  <2>1. 0 <= Len(a.queue) /\ \A k \in 1 .. 0 : FALSE
    BY DEF Connections
  <2> QED
    BY <1>1, <2>1 DEF StepInv
<1>3. CASE prog.locks
  <2>1. Body("scan") = <<l>> \o <<x>> \o <<u>>
    BY <1>1, <1>3 DEF Body, Locked
  <2>2. PICK c \in Seq(Steps) : /\ c = <<l, x, u>> /\ c = <<l>> \o <<x>> \o <<u>>
                                /\ Len(c) = 3 /\ c[1] = l /\ c[2] = x /\ c[3] = u
    <3>1. l \in Steps /\ x \in Steps /\ u \in Steps
      OBVIOUS
    <3>2. <<l, x, u>> \in Seq(Steps)
      BY ONLY <3>1
    <3>3. <<l>> \o <<x>> \o <<u>> = <<l, x, u>>
      <4>1. <<l>> \in Seq(Steps) /\ <<x>> \in Seq(Steps) /\ <<u>> \in Seq(Steps)
        BY ONLY <3>1
      <4>2. PICK d \in Seq(Steps) : d = <<l>> \o <<x>> /\ Len(d) = 2 /\ d[1] = l /\ d[2] = x
        <5>1. <<l>> \o <<x>> = <<l, x>> /\ <<l, x>> \in Seq(Steps)
          BY <3>1, TwoSteps
        <5> QED
          BY <5>1
      <4>3. /\ d \o <<u>> \in Seq(Steps) /\ Len(d \o <<u>>) = 3
            /\ (d \o <<u>>)[1] = l /\ (d \o <<u>>)[2] = x /\ (d \o <<u>>)[3] = u
        <5>1. PICK e \in Seq(Steps) : e = <<u>> /\ Len(e) = 1 /\ e[1] = u
          BY <4>1
        <5>2. /\ d \o e \in Seq(Steps) /\ Len(d \o e) = Len(d) + Len(e)
              /\ \A i \in 1 .. Len(d) : (d \o e)[i] = d[i]
              /\ \A i \in 1 .. Len(e) : (d \o e)[Len(d) + i] = e[i]
          BY JoinedSteps
        <5>3. (d \o e)[Len(d) + 1] = e[1]
          BY <5>1, <5>2
        <5> QED
          BY <4>2, <5>1, <5>2, <5>3
      <4>4. \A k \in 1 .. 3 : (d \o <<u>>)[k] = <<l, x, u>>[k]
        BY <4>3
      <4> QED
        BY <3>2, <4>2, <4>3, <4>4, SameSequence
    <3> QED
      BY <3>2, <3>3
  <2>3. ASSUME NEW i \in 1 .. 3, c[i].op = "scan", NEW j \in 1 .. i - 1
        PROVE  c[j].op = "lock" /\ c[i].n = 0
    <3>1. i = 2 /\ j = 1
      BY <1>1, <2>2, <2>3
    <3> QED
      BY <1>1, <2>2, <3>1
  <2>4. Alone(c)
    BY <2>2, <2>3 DEF Alone
  <2>5. \A i \in 1 .. 3 : c[i] \in {x, l, u}
    BY <2>2
  <2>6. Turns(c, "free", "free")
    <3>1. /\ May("unlock", "free") /\ Before("unlock", "free") = "held"
          /\ May("scan", "held") /\ Before("scan", "held") = "held"
          /\ May("lock", "held") /\ Before("lock", "held") = "free"
      BY DEF May, Before, Inside, Outside, Release
    <3> QED
      BY <1>1, <2>2, <3>1, TurnsThree
  <2> QED
    BY <1>2, <2>1, <2>2, <2>4, <2>5, <2>6
<1>4. CASE ~prog.locks
  <2>1. Body("scan") = <<x>>
    BY <1>1, <1>4 DEF Body, Locked
  <2>2. PICK c \in Seq(Steps) : c = <<x>> /\ Len(c) = 1 /\ c[1] = x
    <3>1. <<x>> \in Seq(Steps)
      BY TwoSteps
    <3> QED
      BY <3>1
  <2>3. Alone(c)
    BY <2>2 DEF Alone
  <2>4. ASSUME NEW a \in Connections, NEW i \in 1 .. Len(c) PROVE StepInv(c[i], a)
    <3>1. c[i] = x
      BY <2>2, <2>4
    <3> QED
      BY <1>2, <3>1
  <2> QED
    BY <1>4, <2>1, <2>2, <2>3, <2>4
<1> QED
  BY <1>3, <1>4

-----------------------------------------------------------------------------
(* Steps that neither send nor read anything.                                *)

\* Nothing but the handlers of errors has changed in the connection.
AsBefore == /\ aud' \in Connections /\ aud'.buffer = aud.buffer /\ aud'.request = aud.request
            /\ aud'.queue = aud.queue /\ aud'.last_request_read = aud.last_request_read

LEMMA ControlOnly ==
  ASSUME LibInv, AsBefore, prog' = prog, UNCHANGED <<toServer, fromServer, executed, posted, taken, discarded>>,
         StackInv' /\ StepsInv' /\ todo' \in [Threads -> Seq(Steps)]
  PROVE  LibInv'
<1>1. Typed'
  BY DEF LibInv, Typed, AsBefore
<1>2. SentInv'
  BY DEF LibInv, SentInv, AsBefore
<1>3. Numbered(aud, fromServer)'
  BY DEF LibInv, Reading, Numbered, AsBefore
<1>4. InOrder(aud, fromServer)'
  BY DEF LibInv, Reading, InOrder, AsBefore
<1>5. NoneLost(aud, fromServer)'
  BY DEF LibInv, Reading, NoneLost, AsBefore
<1> QED
  BY <1>1, <1>2, <1>3, <1>4, <1>5 DEF LibInv, Reading

LEMMA SameAud ==
  ASSUME LibInv, aud' = aud
  PROVE  AsBefore /\ Grown(aud, aud')
BY DEF LibInv, Typed, AsBefore, Grown, Connections

\* The parts of the invariant that the lemmas above ask for.
LEMMA Parts ==
  ASSUME LibInv
  PROVE  /\ Typed /\ StackInv /\ StepsInv /\ SentInv /\ Reading(aud, fromServer)
         /\ aud \in Connections /\ prog \in Programs /\ prog.locks \in BOOLEAN /\ prog.xt \in BOOLEAN
         /\ prog.room \in Nat /\ aud.request \in Nat /\ aud.queue \in Seq(Events)
         /\ aud.buffer \in Seq(Made) /\ Len(aud.queue) \in Nat
BY LibraryAssumption DEF LibInv, Typed, Connections

\* A thread is done with a step, or puts plain ones in its place.
LEMMA QuietlyDone ==
  ASSUME LibInv, NEW t \in Threads, todo[t] # <<>>, Done(t), AsBefore, prog' = prog, lock' = lock,
         UNCHANGED <<toServer, fromServer, executed, posted, taken, discarded>>,
         Head(todo[t]).op \notin Release \cup {"lock"}
  PROVE  LibInv'
<1>1. Grown(aud, aud') /\ aud' \in Connections /\ aud.request <= aud'.request
  BY DEF LibInv, Typed, AsBefore, Grown, Connections
<1>2. StackInv' /\ StepsInv' /\ todo' \in [Threads -> Seq(Steps)]
  BY <1>1, Parts, LeavesOff
<1> QED
  BY <1>2, ControlOnly

LEMMA QuietlyOn ==
  ASSUME LibInv, NEW t \in Threads, todo[t] # <<>>, NEW b \in Seq(Plain), Continue(t, b), AsBefore,
         prog' = prog, lock' = lock, UNCHANGED <<toServer, fromServer, executed, posted, taken, discarded>>,
         Turned(t, b), Head(todo[t]).op \notin Calm \cup {"lock"}
  PROVE  LibInv'
<1>1. Grown(aud, aud') /\ aud' \in Connections
  BY DEF LibInv, Typed, AsBefore, Grown, Connections
<1>2. StackInv' /\ StepsInv' /\ todo' \in [Threads -> Seq(Steps)]
  BY <1>1, Parts, GoesOnPlainly
<1> QED
  BY <1>2, ControlOnly

\* One or two plain steps that do not mind whether the lock is held.
Neutral == {x \in Plain : x.op \notin Inside \cup Outside \cup Release \cup {"lock"}}

LEMMA NeutralTurns ==
  ASSUME NEW x \in Neutral, NEW y \in Neutral, NEW h
  PROVE  /\ <<x>> \in Seq(Plain) /\ <<x, y>> \in Seq(Plain)
         /\ Turns(<<x>>, h, h) /\ Turns(<<x, y>>, h, h)
<1>1. x \in Plain /\ y \in Plain /\ x \in Steps /\ y \in Steps
  BY DEF Neutral, Plain
<1>2. May(x.op, h) /\ Before(x.op, h) = h /\ May(y.op, h) /\ Before(y.op, h) = h
  BY DEF Neutral, May, Before
<1>3. Turns(<<x>>, h, h) /\ Turns(<<x, y>>, h, h)
  BY <1>1, <1>2, TurnsOne, TurnsTwo
<1> QED
  BY <1>1, <1>3

LEMMA NeutralType ==
  ASSUME NEW op \in Ops, op \notin Inside \cup Outside \cup Release \cup {"lock", "await"},
         NEW n \in Nat, NEW what \in Words
  PROVE  Step(op, n, what) \in Neutral
<1>1. op # "scan"
  BY DEF Inside
<1>2. Step(op, n, what) \in Plain /\ Step(op, n, what).op = op
  BY <1>1, StepType
<1> QED
  BY <1>2 DEF Neutral

LEMMA NeutralDo ==
  ASSUME NEW op \in Ops, op \notin Inside \cup Outside \cup Release \cup {"lock", "await"}
  PROVE  Do(op) \in Neutral
<1>1. PICK n \in Nat, w \in Words : Do(op) = Step(op, n, w)
  BY DEF Do, Words
<1> QED
  BY <1>1, NeutralType

LEMMA TurnedInside ==
  ASSUME LibInv, NEW t \in Threads, todo[t] # <<>>, Head(todo[t]).op \in Inside,
         NEW b, Turns(b, "held", "held")
  PROVE  Turned(t, b)
BY Parts, FirstStep DEF Turned

LEMMA TurnedOutside ==
  ASSUME LibInv, NEW t \in Threads, todo[t] # <<>>, Head(todo[t]).op \in Outside,
         NEW b, prog.locks => Turns(b, "free", "free")
  PROVE  Turned(t, b)
BY Parts, FirstStep DEF Turned

LEMMA TurnedNeutral ==
  ASSUME LibInv, NEW t \in Threads, todo[t] # <<>>, Head(todo[t]).op \notin Release \cup {"lock"},
         NEW x \in Neutral, NEW y \in Neutral
  PROVE  Turned(t, <<x>>) /\ Turned(t, <<x, y>>) /\ <<x>> \in Seq(Plain) /\ <<x, y>> \in Seq(Plain)
<1>1. State(todo[t]) = State(Rest(t))
  BY Parts, FirstStep
<1> QED
  BY <1>1, NeutralTurns DEF Turned

LEMMA RoundTripKeeps ==
  ASSUME LibInv, NEW t \in Threads, RoundTrip(t), prog' = prog
  PROVE  LibInv'
<1>1. /\ todo[t] # <<>> /\ Head(todo[t]).op = "roundtrip"
  BY DEF RoundTrip, At
<1>2. Head(todo[t]) \in Steps /\ Head(todo[t]).what \in Words /\ aud.request \in Nat
  BY <1>1, Parts, FirstStep DEF Steps
<1>3. PICK x \in Plain, y \in Plain, z \in Plain :
        /\ x = Step("put", 0, "sync") /\ x.op = "put"
        /\ y = Step("reply", 0, "sync") /\ y.op = "reply"
        /\ z = Step("dequeue", aud.request, Head(todo[t]).what) /\ z.op = "dequeue"
  <2>1. /\ Step("put", 0, "sync") \in Plain /\ Step("put", 0, "sync").op = "put"
        /\ Step("reply", 0, "sync") \in Plain /\ Step("reply", 0, "sync").op = "reply"
    <3>1. "put" \in Ops /\ "reply" \in Ops /\ 0 \in Nat /\ "sync" \in Words
      BY DEF Ops, Words, Calls, Requests
    <3> QED
      BY ONLY <3>1, StepType
  <2>2. PICK n \in Nat, w \in Words : n = aud.request /\ w = Head(todo[t]).what
    BY <1>2
  <2>3. Step("dequeue", n, w) \in Plain /\ Step("dequeue", n, w).op = "dequeue"
    BY StepType DEF Ops
  <2> QED
    BY <2>1, <2>2, <2>3
<1>4. PICK b \in Seq(Plain) : b = <<x, y, z>> /\ Turns(b, "held", "held")
  BY <1>3, InsideThree DEF Inside
<1>5. Continue(t, b)
  BY <1>3, <1>4 DEF RoundTrip, Now
<1>6. Turned(t, b)
  BY <1>1, <1>4, TurnedInside DEF Inside
<1>7. AsBefore
  <2>1. PICK hs \in SUBSET Handlers :
          hs = aud.async_handlers \cup {[seq |-> aud.request, failed |-> 0]}
    <3>1. aud.async_handlers \in SUBSET Handlers
      BY Parts DEF Connections
    <3>2. [seq |-> aud.request, failed |-> 0] \in Handlers
      BY <1>2 DEF Handlers
    <3> QED
      BY <3>1, <3>2
  <2>2. aud' = [aud EXCEPT !.async_handlers = hs] /\ aud \in Connections
    BY <2>1, Parts DEF RoundTrip
  <2> QED
    BY <2>2 DEF AsBefore, Connections
<1>8. /\ lock' = lock /\ UNCHANGED <<toServer, fromServer, executed, posted, taken, discarded>>
      /\ Head(todo[t]).op \notin Calm \cup {"lock"}
  BY <1>1 DEF RoundTrip, serverVars, history, Calm
<1> QED
  BY <1>1, <1>5, <1>6, <1>7, <1>8, QuietlyOn

LEMMA DequeueKeeps ==
  ASSUME LibInv, NEW t \in Threads, DequeueHandler(t), prog' = prog
  PROVE  LibInv'
<1>1. todo[t] # <<>> /\ Head(todo[t]).op = "dequeue" /\ Done(t)
  BY DEF DequeueHandler, At
<1>2. AsBefore
  <2>1. PICK h : aud' = [aud EXCEPT !.async_handlers = @ \ {h}]
    BY DEF DequeueHandler
  <2>2. aud \in Connections
    BY Parts
  <2> QED
    BY <2>1, <2>2 DEF AsBefore, Connections
<1>3. /\ lock' = lock /\ UNCHANGED <<toServer, fromServer, executed, posted, taken, discarded>>
      /\ Head(todo[t]).op \notin Release \cup {"lock"}
  BY <1>1 DEF DequeueHandler, serverVars, Release
<1> QED
  BY <1>1, <1>2, <1>3, QuietlyDone

LEMMA ReplyKeeps ==
  ASSUME LibInv, NEW t \in Threads, Reply(t), prog' = prog
  PROVE  LibInv'
<1>1. /\ todo[t] # <<>> /\ Head(todo[t]).op = "reply" /\ aud' = aud /\ lock' = lock
      /\ UNCHANGED <<toServer, fromServer, executed, posted, taken, discarded>>
  BY DEF Reply, At, serverVars
<1>2. Head(todo[t]) \in Steps /\ Head(todo[t]).what \in Words /\ aud.request \in Nat
  BY <1>1, Parts, FirstStep DEF Steps
<1>3. PICK x \in Steps, y \in Steps :
        /\ x = Do("flush") /\ x.op = "flush"
        /\ y = Step("await", aud.request, Head(todo[t]).what) /\ y.op = "await" /\ y.n = aud.request
  <2>1. Do("flush") \in Steps /\ Do("flush").op = "flush"
    BY DoType DEF Ops
  <2>2. PICK n \in Nat, w \in Words : n = aud.request /\ w = Head(todo[t]).what
    BY <1>2
  <2>3. Step("await", n, w) \in Steps /\ Step("await", n, w).op = "await" /\ Step("await", n, w).n = n
    BY StepType DEF Ops
  <2> QED
    BY <2>1, <2>2, <2>3
<1>4. PICK b \in Seq(Steps) : b = <<x, y>> /\ Turns(b, "held", "held") /\ Len(b) = 2 /\ b[1] = x /\ b[2] = y
  <2>1. /\ May("flush", "held") /\ Before("flush", "held") = "held"
        /\ May("await", "held") /\ Before("await", "held") = "held"
    BY DEF May, Before, Inside, Outside, Release
  <2>2. Turns(<<x, y>>, "held", "held") /\ <<x, y>> \in Seq(Steps)
    BY <1>3, <2>1, TurnsTwo
  <2> QED
    BY <2>2
<1>5. Continue(t, b)
  BY <1>3, <1>4 DEF Reply, Now
<1>6. Turned(t, b)
  BY <1>1, <1>4, TurnedInside DEF Inside
<1>7. Alone(b \o Rest(t))
  <2>1. NoScan(Rest(t)) /\ Rest(t) \in Seq(Steps)
    <3>1. Alone(todo[t]) /\ todo[t] \in Seq(Steps) /\ Rest(t) \in Seq(Steps)
      BY <1>1, Parts, FirstStep DEF StackInv
    <3> QED
      BY <1>1, <3>1, AloneTail DEF Rest, Calm
  <2>2. \A i \in 1 .. 2 : b[i].op # "scan"
    BY <1>3, <1>4
  <2>3. Alone(b)
    BY <1>4, <2>2 DEF Alone
  <2> QED
    BY <2>1, <2>3, AloneBefore
<1>8. \A i \in 1 .. Len(b) : StepInv(b[i], aud')
  BY <1>1, <1>2, <1>3, <1>4 DEF StepInv
<1>9. Grown(aud, aud') /\ AsBefore /\ aud' \in Connections /\ aud.request <= aud'.request
  BY <1>1, <1>2, SameAud, Parts
<1>10. StackInv' /\ StepsInv' /\ todo' \in [Threads -> Seq(Steps)]
  BY <1>1, <1>5, <1>6, <1>7, <1>8, <1>9, Parts, GoesOn
<1> QED
  BY <1>1, <1>9, <1>10, ControlOnly

LEMMA PlainDo ==
  ASSUME NEW op \in Ops \ {"scan", "await"}
  PROVE  Do(op) \in Plain /\ Do(op) \in Steps /\ Do(op).op = op
BY DoType

LEMMA PlainStep ==
  ASSUME NEW op \in Ops \ {"scan", "await"}, NEW n \in Nat, NEW what \in Words
  PROVE  /\ Step(op, n, what) \in Plain /\ Step(op, n, what) \in Steps
         /\ Step(op, n, what).op = op
BY StepType

LEMMA OutsideTurns ==
  ASSUME NEW x \in Plain, x.op \in Outside
  PROVE  <<x>> \in Seq(Plain) /\ <<x>> \in Seq(Steps) /\ Turns(<<x>>, "free", "free")
<1>1. x \in Steps
  BY DEF Plain
<1>2. May(x.op, "free") /\ Before(x.op, "free") = "free"
  BY DEF May, Before, Inside, Outside, Release
<1>3. Turns(<<x>>, "free", "free")
  BY <1>1, <1>2, TurnsOne
<1> QED
  BY <1>1, <1>3

LEMMA NextEventKeeps ==
  ASSUME LibInv, NEW t \in Threads, NextEvent(t), prog' = prog
  PROVE  LibInv'
<1> DEFINE Taking == IF prog.locks THEN <<Do("take"), Do("unlock")>> ELSE <<Do("take")>>
           Going == IF prog.locks THEN <<Do("unlock"), Do("revlock"), Step("read", 0, ""), Do("lock")>>
                    ELSE <<Step("read", 0, "")>>
<1>1. /\ todo[t] # <<>> /\ Head(todo[t]).op = "next" /\ aud' = aud /\ lock' = lock
      /\ UNCHANGED <<toServer, fromServer, executed, posted, taken, discarded>>
      /\ Continue(t, IF aud.queue # <<>> THEN Taking ELSE Going \o Taking)
  BY DEF NextEvent, At, serverVars, history
<1>2. /\ Do("take") \in Plain /\ Do("take") \in Steps /\ Do("take").op = "take"
      /\ Do("unlock") \in Plain /\ Do("unlock") \in Steps /\ Do("unlock").op = "unlock"
      /\ Do("revlock") \in Plain /\ Do("revlock") \in Steps /\ Do("revlock").op = "revlock"
      /\ Do("lock") \in Plain /\ Do("lock") \in Steps /\ Do("lock").op = "lock"
  BY PlainDo DEF Ops
<1>3. Step("read", 0, "") \in Plain /\ Step("read", 0, "") \in Steps /\ Step("read", 0, "").op = "read"
  <2>1. "read" \in Ops \ {"scan", "await"} /\ 0 \in Nat /\ "" \in Words
    BY DEF Ops, Words
  <2> QED
    BY ONLY <2>1, PlainStep
<1>4. Taking \in Seq(Plain) /\ (prog.locks => Turns(Taking, "free", "held"))
  <2>1. /\ May("unlock", "free") /\ Before("unlock", "free") = "held"
        /\ May("take", "held") /\ Before("take", "held") = "held"
    BY DEF May, Before, Inside, Outside, Release
  <2>2. Turns(<<Do("take"), Do("unlock")>>, "free", "held")
    BY <1>2, <2>1, TurnsTwo
  <2>3. <<Do("take"), Do("unlock")>> \in Seq(Plain) /\ <<Do("take")>> \in Seq(Plain)
    BY <1>2
  <2> QED
    BY <2>2, <2>3
<1>5. Going \in Seq(Plain) /\ (prog.locks => Turns(Going, "held", "held"))
  <2>1. /\ May("lock", "held") /\ Before("lock", "held") = "free"
        /\ May("read", "free") /\ Before("read", "free") = "free"
        /\ May("revlock", "free") /\ Before("revlock", "free") = "free"
        /\ May("unlock", "free") /\ Before("unlock", "free") = "held"
    BY DEF May, Before, Inside, Outside, Release
  <2>2. PICK x \in Plain, y \in Plain, z \in Plain, w \in Plain :
          /\ x = Do("unlock") /\ y = Do("revlock") /\ z = Step("read", 0, "") /\ w = Do("lock")
          /\ x \in Steps /\ y \in Steps /\ z \in Steps /\ w \in Steps
          /\ x.op = "unlock" /\ y.op = "revlock" /\ z.op = "read" /\ w.op = "lock"
    BY <1>2, <1>3
  <2>3. Turns(<<y, z, w>>, "held", "free") /\ <<y, z, w>> \in Seq(Steps)
    BY <2>1, <2>2, TurnsThree
  <2>4. Turns(<<x>>, "free", "held") /\ <<x>> \in Seq(Steps)
    BY <2>1, <2>2, TurnsOne, TwoSteps
  <2>5. Turns(<<x>> \o <<y, z, w>>, "held", "held")
    BY <2>3, <2>4, TurnsJoin
  <2>6. <<x, y, z, w>> \in Seq(Plain) /\ Turns(<<x, y, z, w>>, "held", "held")
    <3>1. <<x, y, z, w>> \in Seq(Plain)
      OBVIOUS
    <3>2. <<x, y, z, w>> = <<x>> \o <<y, z, w>>
      OBVIOUS
    <3> QED
      BY <2>5, <3>1, <3>2
  <2>7. <<z>> \in Seq(Plain)
    OBVIOUS
  <2> QED
    BY <2>2, <2>6, <2>7
<1> HIDE DEF Taking, Going
<1>6. Going \o Taking \in Seq(Plain) /\ (prog.locks => Turns(Going \o Taking, "free", "held"))
  <2>1. Going \o Taking \in Seq(Plain) /\ Going \in Seq(Steps) /\ Taking \in Seq(Steps)
    BY <1>4, <1>5, PlainJoin
  <2>2. ASSUME prog.locks PROVE Turns(Going \o Taking, "free", "held")
    BY <1>4, <1>5, <2>1, <2>2, TurnsJoin
  <2> QED
    BY <2>1, <2>2
<1>7. PICK b \in Seq(Plain) : /\ b = (IF aud.queue # <<>> THEN Taking ELSE Going \o Taking)
                              /\ prog.locks => Turns(b, "free", "held")
  BY <1>4, <1>6
<1>8. Turned(t, b)
  <2>1. prog.locks => State(todo[t]) = "held" /\ State(Rest(t)) = "free"
    BY <1>1, Parts, FirstStep DEF Release
  <2> QED
    BY <1>7, <2>1 DEF Turned
<1>9. Continue(t, b)
  BY <1>1, <1>7
<1> QED
  BY <1>1, <1>8, <1>9, SameAud, QuietlyOn DEF Calm

LEMMA FlushedKeeps ==
  ASSUME LibInv, NEW t \in Threads, Flushed(t), prog' = prog
  PROVE  LibInv'
<1>1. /\ todo[t] # <<>> /\ Head(todo[t]).op = "flushed" /\ aud' = aud /\ lock' = lock
      /\ UNCHANGED <<toServer, fromServer, executed, posted, taken, discarded>>
      /\ Done(t) \/ Continue(t, <<Do("block")>>)
  BY DEF Flushed, At, serverVars, history, Done
<1>2. CASE Done(t)
  BY <1>1, <1>2, SameAud, QuietlyDone DEF Release
<1>3. CASE Continue(t, <<Do("block")>>)
  <2>1. Do("block") \in Neutral
    BY NeutralDo DEF Ops, Inside, Outside, Release
  <2>2. PICK b \in Seq(Plain) : b = <<Do("block")>> /\ Turned(t, b)
    BY <1>1, <2>1, TurnedNeutral DEF Release
  <2> QED
    BY <1>1, <1>3, <2>2, SameAud, QuietlyOn DEF Calm
<1> QED
  BY <1>1, <1>2, <1>3

LEMMA MoreKeeps ==
  ASSUME LibInv, NEW t \in Threads, More(t), prog' = prog
  PROVE  LibInv'
<1>1. /\ todo[t] # <<>> /\ Head(todo[t]).op = "more" /\ aud' = aud /\ lock' = lock
      /\ UNCHANGED <<toServer, fromServer, executed, posted, taken, discarded>>
      /\ Done(t) \/ Continue(t, <<Step("read", Head(todo[t]).n, "")>>)
  BY DEF More, At, serverVars, history, Done, Now
<1>2. CASE Done(t)
  BY <1>1, <1>2, SameAud, QuietlyDone DEF Release
<1>3. CASE Continue(t, <<Step("read", Head(todo[t]).n, "")>>)
  <2>1. PICK n \in Nat : n = Head(todo[t]).n
    BY <1>1, Parts, FirstStep DEF Steps
  <2>2. Step("read", n, "") \in Neutral
    BY NeutralType DEF Ops, Inside, Outside, Release, Words
  <2>3. PICK b \in Seq(Plain) : b = <<Step("read", n, "")>> /\ Turned(t, b)
    BY <1>1, <2>2, TurnedNeutral DEF Release
  <2> QED
    BY <1>1, <1>3, <2>1, <2>3, SameAud, QuietlyOn DEF Calm
<1> QED
  BY <1>1, <1>2, <1>3

LEMMA HandleEventsKeeps ==
  ASSUME LibInv, NEW t \in Threads, HandleEvents(t), prog' = prog
  PROVE  LibInv'
<1>1. /\ todo[t] # <<>> /\ Head(todo[t]).op = "handle" /\ aud' = aud /\ lock' = lock
      /\ UNCHANGED <<toServer, fromServer, executed, posted, taken, discarded>>
      /\ \/ Done(t)
         \/ Continue(t, <<Do("gather"), Step("handle", 0, "look")>>)
         \/ Continue(t, <<Step("dispatch", Len(aud.queue), "")>>)
         \/ Continue(t, <<Do("flush"), Do("poll"), Do("gather"), Step("handle", 0, "last")>>)
  BY DEF HandleEvents, At, serverVars, history, Done
<1>2. CASE Done(t)
  BY <1>1, <1>2, SameAud, QuietlyDone DEF Release
<1>3. PICK g \in Neutral, f \in Neutral, p \in Neutral : g = Do("gather") /\ f = Do("flush") /\ p = Do("poll")
  BY NeutralDo DEF Ops, Inside, Outside, Release
<1>4. PICK n \in Nat : n = Len(aud.queue)
  BY Parts
<1>5. PICK x \in Plain, y \in Plain, z \in Plain :
        /\ x = Step("handle", 0, "look") /\ y = Step("handle", 0, "last") /\ z = Step("dispatch", n, "")
        /\ x.op = "handle" /\ y.op = "handle" /\ z.op = "dispatch"
  <2>1. /\ "handle" \in Ops \ {"scan", "await"} /\ "dispatch" \in Ops \ {"scan", "await"} /\ 0 \in Nat
        /\ "look" \in Words /\ "last" \in Words /\ "" \in Words /\ n \in Nat
    BY DEF Ops, Words
  <2>2. /\ Step("handle", 0, "look") \in Plain /\ Step("handle", 0, "look").op = "handle"
        /\ Step("handle", 0, "last") \in Plain /\ Step("handle", 0, "last").op = "handle"
        /\ Step("dispatch", n, "") \in Plain /\ Step("dispatch", n, "").op = "dispatch"
    BY ONLY <2>1, PlainStep
  <2> QED
    BY <2>2
<1>6. /\ Turns(<<x>>, "free", "free") /\ Turns(<<y>>, "free", "free") /\ Turns(<<z>>, "free", "free")
      /\ <<x>> \in Seq(Steps) /\ <<y>> \in Seq(Steps) /\ <<z>> \in Seq(Steps)
  BY <1>5, OutsideTurns DEF Outside
<1>7. /\ g \in Steps /\ f \in Steps /\ p \in Steps /\ x \in Steps /\ y \in Steps
      /\ g \in Plain /\ f \in Plain /\ p \in Plain
      /\ <<g>> \in Seq(Steps) /\ <<f, p>> \in Seq(Steps) /\ <<g, y>> \in Seq(Steps)
  BY DEF Neutral, Plain
<1>8. Turns(<<g>>, "free", "free") /\ Turns(<<f, p>>, "free", "free")
  BY NeutralTurns
<1>9. Done(t) \/ \E b \in Seq(Plain) : Continue(t, b) /\ Turns(b, "free", "free")
  <2>1. CASE Continue(t, <<Do("gather"), Step("handle", 0, "look")>>)
    <3>1. <<g, x>> = <<g>> \o <<x>> /\ Turns(<<g>> \o <<x>>, "free", "free")
      BY <1>6, <1>7, <1>8, TwoSteps, TurnsJoin
    <3>2. <<g, x>> \in Seq(Plain)
      BY <1>7
    <3> QED
      BY <1>3, <1>5, <2>1, <3>1, <3>2
  <2>2. CASE Continue(t, <<Step("dispatch", Len(aud.queue), "")>>)
    <3>1. <<z>> \in Seq(Plain)
      OBVIOUS
    <3> QED
      BY <1>4, <1>5, <1>6, <2>2, <3>1
  <2>3. CASE Continue(t, <<Do("flush"), Do("poll"), Do("gather"), Step("handle", 0, "last")>>)
    <3>1. <<g, y>> = <<g>> \o <<y>> /\ Turns(<<g>> \o <<y>>, "free", "free")
      BY <1>6, <1>7, <1>8, TwoSteps, TurnsJoin
    <3>2. Turns(<<g, y>>, "free", "free")
      BY <3>1
    <3>3. Turns(<<f, p>> \o <<g, y>>, "free", "free")
      BY <1>7, <1>8, <3>2, TurnsJoin
    <3>4. <<f, p, g, y>> = <<f, p>> \o <<g, y>>
      OBVIOUS
    <3>5. <<f, p, g, y>> \in Seq(Plain)
      BY <1>7
    <3>6. Turns(<<f, p, g, y>>, "free", "free")
      BY <3>3, <3>4
    <3> QED
      BY <1>3, <1>5, <2>3, <3>5, <3>6
  <2> QED
    BY <1>1, <2>1, <2>2, <2>3
<1>10. ASSUME NEW b \in Seq(Plain), Continue(t, b), Turns(b, "free", "free") PROVE LibInv'
  <2>1. Turned(t, b)
    BY <1>1, <1>10, TurnedOutside DEF Outside
  <2> QED
    BY <1>1, <1>10, <2>1, SameAud, QuietlyOn DEF Calm
<1> QED
  BY <1>2, <1>9, <1>10

LEMMA DispatchKeeps ==
  ASSUME LibInv, NEW t \in Threads, Dispatch(t), prog' = prog
  PROVE  LibInv'
<1>1. /\ todo[t] # <<>> /\ Head(todo[t]).op = "dispatch" /\ aud' = aud /\ lock' = lock
      /\ UNCHANGED <<toServer, fromServer, executed, posted, taken, discarded>>
  BY DEF Dispatch, At, serverVars, history
<1>2. PICK m \in Nat : m = Head(todo[t]).n
  BY <1>1, Parts, FirstStep DEF Steps
<1>3. \/ Continue(t, <<Step("handle", 0, "first")>>)
      \/ m - 1 \in Nat /\ Continue(t, Body("next") \o <<Do("callback"), Step("dispatch", m - 1, "")>>)
  <2>1. Continue(t, IF m = 0 THEN <<Step("handle", 0, "first")>>
                    ELSE Body("next") \o <<Do("callback"), Step("dispatch", m - 1, "")>>)
    BY <1>2 DEF Dispatch, Now
  <2>2. m # 0 => m - 1 \in Nat
    OBVIOUS
  <2>3. CASE m = 0
    BY <2>1, <2>3
  <2>4. CASE m # 0
    BY <2>1, <2>2, <2>4
  <2> QED
    BY <2>3, <2>4
<1>4. ASSUME NEW b \in Seq(Plain), Continue(t, b), prog.locks => Turns(b, "free", "free") PROVE LibInv'
  <2>1. Turned(t, b)
    BY <1>1, <1>4, TurnedOutside DEF Outside
  <2> QED
    BY <1>1, <1>4, <2>1, SameAud, QuietlyOn DEF Calm
<1>5. CASE Continue(t, <<Step("handle", 0, "first")>>)
  <2>1. PICK x \in Plain : x = Step("handle", 0, "first") /\ x.op = "handle"
    <3>1. "handle" \in Ops \ {"scan", "await"} /\ 0 \in Nat /\ "first" \in Words
      BY DEF Ops, Words
    <3>2. Step("handle", 0, "first") \in Plain /\ Step("handle", 0, "first").op = "handle"
      BY ONLY <3>1, PlainStep
    <3> QED
      BY <3>2
  <2>2. <<x>> \in Seq(Plain) /\ Turns(<<x>>, "free", "free")
    BY <2>1, OutsideTurns DEF Outside
  <2> QED
    BY <1>4, <1>5, <2>1, <2>2
<1>6. CASE m - 1 \in Nat /\ Continue(t, Body("next") \o <<Do("callback"), Step("dispatch", m - 1, "")>>)
  <2>1. PICK x \in Plain, y \in Plain :
          /\ x = Do("callback") /\ x.op = "callback"
          /\ y = Step("dispatch", m - 1, "") /\ y.op = "dispatch"
    <3>1. Do("callback") \in Plain /\ Do("callback").op = "callback"
      BY PlainDo DEF Ops
    <3>2. PICK k \in Nat : k = m - 1
      BY <1>6
    <3>3. "dispatch" \in Ops \ {"scan", "await"} /\ "" \in Words /\ k \in Nat
      BY DEF Ops, Words
    <3>4. Step("dispatch", k, "") \in Plain /\ Step("dispatch", k, "").op = "dispatch"
      BY ONLY <3>3, PlainStep
    <3> QED
      BY <3>1, <3>2, <3>4
  <2>2. /\ <<x>> \in Seq(Steps) /\ Turns(<<x>>, "free", "free")
        /\ <<y>> \in Seq(Steps) /\ Turns(<<y>>, "free", "free")
    BY <2>1, OutsideTurns DEF Outside
  <2>3. x \in Steps /\ y \in Steps
    BY DEF Plain
  <2>4. <<x, y>> = <<x>> \o <<y>> /\ Turns(<<x>> \o <<y>>, "free", "free")
    BY <2>2, <2>3, TwoSteps, TurnsJoin
  <2>5. PICK c \in Seq(Plain) : c = <<x, y>> /\ Turns(c, "free", "free")
    <3>1. <<x, y>> \in Seq(Plain)
      OBVIOUS
    <3> QED
      BY <2>4, <3>1
  <2>6. PICK d \in Seq(Plain) : d = Body("next") /\ (prog.locks => Turns(d, "free", "free"))
    BY Parts, BodyFits DEF Calls
  <2>7. d \o c \in Seq(Plain) /\ d \in Seq(Steps) /\ c \in Seq(Steps)
    BY PlainJoin
  <2>8. prog.locks => Turns(d \o c, "free", "free")
    BY <2>5, <2>6, <2>7, TurnsJoin
  <2>9. Continue(t, d \o c)
    BY <1>6, <2>1, <2>5, <2>6
  <2> QED
    BY <1>4, <2>7, <2>8, <2>9
<1> QED
  BY <1>3, <1>5, <1>6

LEMMA CallbackKeeps ==
  ASSUME LibInv, NEW t \in Threads, Callback(t), prog' = prog
  PROVE  LibInv'
<1>1. /\ todo[t] # <<>> /\ Head(todo[t]).op = "callback" /\ aud' = aud /\ lock' = lock
      /\ UNCHANGED <<toServer, fromServer, executed, posted, taken, discarded>>
      /\ Done(t) \/ \E call \in Requests : Continue(t, Body(call))
  BY DEF Callback, At, serverVars, history
<1>2. CASE Done(t)
  BY <1>1, <1>2, SameAud, QuietlyDone DEF Release
<1>3. ASSUME NEW call \in Requests, Continue(t, Body(call)) PROVE LibInv'
  <2>1. call \in Calls \ {"scan"}
    BY DEF Calls, Requests
  <2>2. PICK b \in Seq(Plain) : b = Body(call) /\ (prog.locks => Turns(b, "free", "free"))
    BY <2>1, Parts, BodyFits
  <2>3. Turned(t, b)
    BY <1>1, <2>2, TurnedOutside DEF Outside
  <2> QED
    BY <1>1, <1>3, <2>2, <2>3, SameAud, QuietlyOn DEF Calm
<1> QED
  BY <1>1, <1>2, <1>3

LEMMA OtherStepsKeep ==
  ASSUME LibInv, NEW t \in Threads, SyncHandle(t) \/ WorkDone(t) \/ RevLock(t), prog' = prog
  PROVE  LibInv'
<1>1. /\ todo[t] # <<>> /\ Head(todo[t]).op \in {"synchandle", "workdone", "revlock"} /\ Done(t)
      /\ aud' = aud /\ lock' = lock /\ UNCHANGED <<toServer, fromServer, executed, posted, taken, discarded>>
  BY DEF SyncHandle, WorkDone, RevLock, At, serverVars, history
<1> QED
  BY <1>1, SameAud, QuietlyDone DEF Release

LEMMA LockKeeps ==
  ASSUME LibInv, NEW t \in Threads, Lock(t) \/ Unlock(t), prog' = prog
  PROVE  LibInv'
<1>1. /\ todo[t] # <<>> /\ Continue(t, <<>>) /\ aud' = aud
      /\ UNCHANGED <<toServer, fromServer, executed, posted, taken, discarded>>
      /\ \/ Head(todo[t]).op = "lock" /\ lock = NoThread /\ lock' = t
         \/ Head(todo[t]).op = "unlock"
  BY DEF Lock, Unlock, At, serverVars, history, Done
<1>2. /\ todo[t] \in Seq(Steps) /\ Rest(t) \in Seq(Steps)
      /\ prog.locks /\ Head(todo[t]).op \in Release => State(Rest(t)) = "free" /\ lock = t
  BY <1>1, Parts, FirstStep
<1>3. <<>> \in Seq(Steps) /\ \A i \in 1 .. Len(<<>>) : StepInv(<<>>[i], aud')
  OBVIOUS
<1>4. Alone(<<>> \o Rest(t))
  <2>1. Alone(todo[t])
    BY Parts DEF StackInv
  <2>2. Alone(Rest(t))
    BY <1>1, <1>2, <2>1, AloneTail DEF Rest
  <2>3. <<>> \o Rest(t) = Rest(t)
    BY <1>2
  <2> QED
    BY <2>2, <2>3
<1>5. Turns(<<>>, State(Rest(t)), State(Rest(t)))
  BY TurnsNone
<1>6. ASSUME prog.locks
      PROVE  /\ State(Rest(t)) = "held" => lock' = t
             /\ \A u \in Threads \ {t} : lock = u => lock' = u
  BY <1>1, <1>2, <1>6, LibraryAssumption DEF Release
<1>7. AsBefore /\ Grown(aud, aud') /\ aud' \in Connections /\ aud.request <= aud'.request
  BY <1>1, SameAud, Parts DEF Grown
<1>8. StackInv' /\ todo' \in [Threads -> Seq(Steps)]
  BY <1>1, <1>3, <1>4, <1>5, <1>6, Parts, StackReplaced
<1>9. StepsInv'
  BY <1>1, <1>3, <1>7, Parts, StepsReplaced
<1> QED
  BY <1>1, <1>7, <1>8, <1>9, ControlOnly

\* A call begins.
LEMMA Begins ==
  ASSUME LibInv, NEW t \in Threads, todo[t] = <<>>, NEW b \in Seq(Steps), todo' = [todo EXCEPT ![t] = b],
         UNCHANGED <<prog, aud, lock, toServer, fromServer, executed, posted, taken, discarded>>,
         prog.locks => Turns(b, "free", "free"), Alone(b), \A i \in 1 .. Len(b) : StepInv(b[i], aud),
         prog.calls[t] # {}
  PROVE  LibInv'
<1>1. /\ StackInv' /\ todo' \in [Threads -> Seq(Steps)] /\ todo'[t] = b
      /\ \A u \in Threads \ {t} : todo'[u] = todo[u]
  BY Parts, StackStarted
<1>2. StepsInv'
  BY <1>1, Parts, StepsStarted
<1> QED
  BY <1>1, <1>2, SameAud, ControlOnly

LEMMA StartKeeps ==
  ASSUME LibInv, NEW t \in Threads, NEW call \in Calls, Start(t, call)
  PROVE  LibInv'
<1>1. /\ todo[t] = <<>> /\ todo' = [todo EXCEPT ![t] = Body(call)] /\ prog.calls[t] # {}
      /\ UNCHANGED <<prog, aud, lock, toServer, fromServer, executed, posted, taken, discarded>>
  BY DEF Start, MayCall, serverVars, history
<1>2. CASE call = "scan"
  <2>1. PICK b \in Seq(Steps) : /\ b = Body(call) /\ Alone(b)
                                /\ \A a \in Connections : \A i \in 1 .. Len(b) : StepInv(b[i], a)
                                /\ prog.locks => Turns(b, "free", "free")
    BY <1>2, Parts, ScanFits
  <2> QED
    BY <1>1, <2>1, Parts, Begins
<1>3. CASE call # "scan"
  <2>1. PICK b \in Seq(Plain) : b = Body(call) /\ (prog.locks => Turns(b, "free", "free"))
    BY <1>3, Parts, BodyFits
  <2>2. b \in Seq(Steps) /\ Alone(b) /\ \A i \in 1 .. Len(b) : StepInv(b[i], aud)
    BY PlainSteps
  <2> QED
    BY <1>1, <2>1, <2>2, Begins
<1> QED
  BY <1>2, <1>3

LEMMA XtLoopKeeps ==
  ASSUME LibInv, NEW t \in Threads, XtLoop(t)
  PROVE  LibInv'
<1>1. /\ todo[t] = <<>> /\ prog.calls[t] # {}
      /\ UNCHANGED <<prog, aud, lock, toServer, fromServer, executed, posted, taken, discarded>>
      /\ \/ todo' = [todo EXCEPT ![t] = Body("handle")]
         \/ todo' = [todo EXCEPT ![t] = Locked(<<Do("flush")>>) \o <<Step("workdone", 0, "sync")>>]
         \/ todo' = [todo EXCEPT ![t] = Body("handle") \o <<Step("workdone", 0, "enq")>>]
  BY DEF XtLoop, serverVars, history
<1>2. ASSUME NEW b \in Seq(Plain), todo' = [todo EXCEPT ![t] = b], prog.locks => Turns(b, "free", "free")
      PROVE  LibInv'
  <2>1. b \in Seq(Steps) /\ Alone(b) /\ \A i \in 1 .. Len(b) : StepInv(b[i], aud)
    BY PlainSteps
  <2> QED
    BY <1>1, <1>2, <2>1, Begins
<1>3. PICK h \in Seq(Plain) : h = Body("handle") /\ (prog.locks => Turns(h, "free", "free"))
  BY Parts, BodyFits DEF Calls
<1>4. PICK f \in Seq(Plain) : f = Locked(<<Do("flush")>>) /\ (prog.locks => Turns(f, "free", "free"))
  <2>1. Do("flush") \in Neutral
    BY NeutralDo DEF Ops, Inside, Outside, Release
  <2>2. PICK c \in Seq(Plain) : c = <<Do("flush")>> /\ Turns(c, "held", "held")
    BY <2>1, NeutralTurns
  <2> QED
    BY <2>2, Parts, LockedTurns
<1>5. ASSUME NEW w \in {"sync", "enq"}, NEW b \in Seq(Plain), prog.locks => Turns(b, "free", "free"),
             todo' = [todo EXCEPT ![t] = b \o <<Step("workdone", 0, w)>>]
      PROVE  LibInv'
  <2>1. "workdone" \in Ops /\ 0 \in Nat /\ w \in Words
    BY DEF Ops, Words, Calls, Requests
  <2>2. Step("workdone", 0, w) \in Neutral
    BY <2>1, NeutralType DEF Inside, Outside, Release
  <2>3. PICK c \in Seq(Plain) : c = <<Step("workdone", 0, w)>> /\ Turns(c, "free", "free")
    BY <2>2, NeutralTurns
  <2>4. b \o c \in Seq(Plain) /\ b \in Seq(Steps) /\ c \in Seq(Steps)
    BY PlainJoin
  <2>5. prog.locks => Turns(b \o c, "free", "free")
    BY <1>5, <2>3, <2>4, TurnsJoin
  <2>6. PICK d \in Seq(Plain) : d = b \o c
    BY <2>4
  <2> QED
    BY <1>2, <1>5, <2>3, <2>5, <2>6
<1> QED
  BY <1>1, <1>2, <1>3, <1>4, <1>5

-----------------------------------------------------------------------------
(* Steps that read packets.                                                  *)

LEMMA LoopExists ==
  ASSUME NEW a \in Connections, NEW q \in Seq(Packets)
  PROVE  \E f : Loop(f, a, q)
<1> DEFINE n == Len(q)
           step == [z \in Connections \X (1 .. n) |-> Received(z[1], q[z[2]])]
<1>1. n \in Nat
  OBVIOUS
<1>2. step \in [Connections \X (1 .. n) -> Connections]
  <2>1. ASSUME NEW z \in Connections \X (1 .. n) PROVE Received(z[1], q[z[2]]) \in Connections
    <3>1. z[1] \in Connections /\ q[z[2]] \in Packets
      OBVIOUS
    <3> QED
      BY <3>1, ReceivedTyped
  <2> QED
    BY <2>1
<1>3. \A c \in Connections, i \in 1 .. n : step[<<c, i>>] = Received(c, q[i])
  OBVIOUS
<1> HIDE DEF step, n
<1>4. PICK f : Recursive(n, a, step, f) /\ \A i \in 0 .. n : f[i] \in Connections
  BY <1>1, <1>2, RecursionExists
<1>5. \A i \in 0 .. n : (IF i = 0 THEN a ELSE step[<<f[i - 1], i>>]) =
                         (IF i = 0 THEN a ELSE Received(f[i - 1], q[i]))
  <2> SUFFICES ASSUME NEW i \in 0 .. n, i # 0 PROVE step[<<f[i - 1], i>>] = Received(f[i - 1], q[i])
    OBVIOUS
  <2>1. i \in 1 .. n /\ i - 1 \in 0 .. n
    BY <1>1
  <2> QED
    BY <1>3, <1>4, <2>1
<1>6. f = [i \in 0 .. n |-> IF i = 0 THEN a ELSE Received(f[i - 1], q[i])]
  <2>1. f = [i \in 0 .. n |-> IF i = 0 THEN a ELSE step[<<f[i - 1], i>>]]
    BY <1>4 DEF Recursive
  <2> QED
    BY <1>5, <2>1
<1> QED
  BY <1>6 DEF n, Loop

\* The history is as before.
Past == UNCHANGED <<executed, posted, taken, discarded>>

LEMMA ReadingPrimed ==
  ASSUME Past, NEW b \in Connections, NEW r \in Seq(Packets), aud' = b, fromServer' = r, Reading(b, r)
  PROVE  Reading(aud, fromServer)'
<1>1. Numbered(aud, fromServer)'
  BY DEF Past, Reading, Numbered
<1>2. InOrder(aud, fromServer)'
  BY DEF Past, Reading, InOrder
<1>3. NoneLost(aud, fromServer)'
  BY DEF Past, Reading, NoneLost
<1> QED
  BY <1>1, <1>2, <1>3 DEF Reading

LEMMA SentKept ==
  ASSUME LibInv, UNCHANGED <<prog, executed, toServer>>, aud'.request = aud.request, aud'.buffer = aud.buffer
  PROVE  SentInv'
BY DEF LibInv, SentInv

\* What the reading lemmas need.
LEMMA HasRead ==
  ASSUME LibInv, HeardInTime
  PROVE  /\ aud \in Connections /\ fromServer \in Seq(Packets) /\ Reading(aud, fromServer)
         /\ executed \in Nat /\ posted \in Nat /\ taken \in Seq(Nat)
         /\ executed <= aud.request /\ aud.request - aud.last_request_read < Wrap
<1>1. /\ aud \in Connections /\ aud.request \in Nat /\ executed \in Nat
      /\ Len(toServer) \in Nat /\ Len(aud.buffer) \in Nat
  BY DEF LibInv, Typed, Connections
<1>2. executed <= aud.request
  <2>1. aud.request = executed + Len(toServer) + Len(aud.buffer)
    BY DEF LibInv, SentInv
  <2>2. PICK r \in Nat, e \in Nat, m \in Nat, n \in Nat :
          r = aud.request /\ e = executed /\ m = Len(toServer) /\ n = Len(aud.buffer)
    BY <1>1
  <2>3. r = e + m + n
    BY <2>1, <2>2
  <2>4. e <= r
    BY <2>3
  <2> QED
    BY <2>2, <2>4
<1> QED
  BY <1>2 DEF LibInv, Typed, HeardInTime

\* The connection after a step that reads.
HasReadMore ==
    /\ aud' \in Connections /\ fromServer' \in Seq(Packets)
    /\ Grown(aud, aud') /\ aud'.request = aud.request /\ aud'.buffer = aud.buffer
    /\ Reading(aud, fromServer)'

LEMMA ReadAllReads ==
  ASSUME LibInv, HeardInTime, Past, ReadAll
  PROVE  HasReadMore
<1> DEFINE F(f) == f = [i \in 0 .. Len(fromServer) |->
                          IF i = 0 THEN aud ELSE Received(f[i - 1], fromServer[i])]
<1>1. aud' = (CHOOSE f : F(f))[Len(fromServer)] /\ fromServer' = <<>>
  BY DEF ReadAll
<1>2. aud \in Connections /\ fromServer \in Seq(Packets)
  BY HasRead
<1>3. \E f : F(f)
  BY <1>2, LoopExists DEF Loop
<1>4. PICK f : F(f) /\ f = CHOOSE g : F(g)
  BY <1>3
<1>5. PICK b : b = f[Len(fromServer)] /\ aud' = b
  BY <1>1, <1>4
<1>6. PICK a \in Connections, q \in Seq(Packets) : a = aud /\ q = fromServer
  BY <1>2
<1>7. Loop(f, a, q) /\ b = f[Len(q)]
  BY <1>4, <1>5, <1>6 DEF Loop
<1>8. /\ Reading(a, q) /\ executed \in Nat /\ posted \in Nat /\ taken \in Seq(Nat)
      /\ executed <= a.request /\ a.request - a.last_request_read < Wrap
  BY <1>6, HasRead
<1> HIDE DEF F
<1>9. /\ b \in Connections /\ b.request = a.request /\ b.buffer = a.buffer
      /\ Reading(b, <<>>) /\ Grown(a, b)
  BY <1>7, <1>8, ReadAllKeeps
<1>10. <<>> \in Seq(Packets)
  OBVIOUS
<1>11. Reading(aud, fromServer)'
  BY <1>1, <1>5, <1>9, <1>10, ReadingPrimed
<1> QED
  BY <1>1, <1>5, <1>6, <1>9, <1>10, <1>11 DEF HasReadMore

LEMMA AvailableReads ==
  ASSUME LibInv, HeardInTime, Past, ReadAvailable \/ UNCHANGED <<aud, fromServer>>
  PROVE  HasReadMore
<1>1. CASE ReadAll
  BY <1>1, ReadAllReads
<1>2. CASE UNCHANGED <<aud, fromServer>>
  <2>1. aud \in Connections /\ fromServer \in Seq(Packets) /\ Reading(aud, fromServer)
    BY HasRead
  <2>2. Reading(aud, fromServer)'
    BY <1>2, <2>1, ReadingPrimed
  <2> QED
    BY <1>2, <2>1, <2>2, SameAud DEF HasReadMore
<1> QED
  BY <1>1, <1>2 DEF ReadAvailable

LEMMA OneReads ==
  ASSUME LibInv, HeardInTime, Past, fromServer # <<>>, aud' = Received(aud, Head(fromServer)),
         fromServer' = Tail(fromServer)
  PROVE  HasReadMore
<1>1. PICK a \in Connections, q \in Seq(Packets) : a = aud /\ q = fromServer /\ q # <<>>
  BY HasRead
<1>2. /\ Reading(a, q) /\ executed \in Nat /\ posted \in Nat /\ taken \in Seq(Nat)
      /\ executed <= a.request /\ a.request - a.last_request_read < Wrap
  BY <1>1, HasRead
<1>3. PICK b \in Connections : /\ b = Received(a, Head(q))
                               /\ b.request = a.request /\ b.buffer = a.buffer
                               /\ Reading(b, Tail(q)) /\ Grown(a, b)
  BY <1>1, <1>2, ReceivedKeeps
<1>4. PICK r \in Seq(Packets) : r = Tail(q)
  BY <1>1, TailOf
<1>5. aud' = b /\ fromServer' = r
  BY <1>1, <1>3, <1>4
<1>6. Reading(aud, fromServer)'
  BY <1>3, <1>4, <1>5, ReadingPrimed
<1> QED
  BY <1>1, <1>3, <1>5, <1>6 DEF HasReadMore

LEMMA ReadPlainly ==
  ASSUME LibInv, HasReadMore, Past, UNCHANGED <<prog, toServer>>,
         StackInv' /\ StepsInv' /\ todo' \in [Threads -> Seq(Steps)]
  PROVE  LibInv'
<1>1. SentInv'
  BY SentKept DEF Past, HasReadMore
<1>2. Typed'
  BY DEF LibInv, Typed, Past, HasReadMore
<1> QED
  BY <1>1, <1>2 DEF LibInv, HasReadMore

LEMMA ReadAndDone ==
  ASSUME LibInv, HasReadMore, Past, UNCHANGED <<prog, lock, toServer>>,
         NEW t \in Threads, todo[t] # <<>>, Done(t), Head(todo[t]).op \notin Release \cup {"lock"}
  PROVE  LibInv'
<1>1. aud' \in Connections /\ Grown(aud, aud') /\ aud.request <= aud'.request
  BY DEF HasReadMore, Grown
<1>2. StackInv' /\ StepsInv' /\ todo' \in [Threads -> Seq(Steps)]
  BY <1>1, Parts, LeavesOff
<1> QED
  BY <1>2, ReadPlainly

LEMMA ReadAndStay ==
  ASSUME LibInv, HasReadMore, Past, UNCHANGED <<prog, lock, toServer, todo>>
  PROVE  LibInv'
<1>1. aud' \in Connections /\ Grown(aud, aud')
  BY DEF HasReadMore
<1>2. StackInv' /\ StepsInv' /\ todo' \in [Threads -> Seq(Steps)]
  BY <1>1, Parts, Stays
<1> QED
  BY <1>2, ReadPlainly

LEMMA ReadAndOn ==
  ASSUME LibInv, HasReadMore, Past, UNCHANGED <<prog, lock, toServer>>,
         NEW t \in Threads, todo[t] # <<>>, Head(todo[t]).op \notin Release \cup Calm \cup {"lock"},
         NEW x \in Neutral, Continue(t, <<x>>)
  PROVE  LibInv'
<1>1. aud' \in Connections /\ Grown(aud, aud')
  BY DEF HasReadMore
<1>2. PICK b \in Seq(Plain) : b = <<x>> /\ Turned(t, b)
  BY TurnedNeutral
<1>3. StackInv' /\ StepsInv' /\ todo' \in [Threads -> Seq(Steps)]
  BY <1>1, <1>2, Parts, GoesOnPlainly
<1> QED
  BY <1>3, ReadPlainly

LEMMA GatherKeeps ==
  ASSUME LibInv, HeardInTime, NEW t \in Threads, Gather(t) \/ Poll(t), prog' = prog
  PROVE  LibInv'
<1>1. /\ todo[t] # <<>> /\ Head(todo[t]).op \in {"gather", "poll"} /\ Done(t)
      /\ Past /\ UNCHANGED <<lock, toServer>> /\ (ReadAvailable \/ UNCHANGED <<aud, fromServer>>)
  BY DEF Gather, Poll, At, history, Past
<1> QED
  BY <1>1, AvailableReads, ReadAndDone DEF Release

LEMMA WaitKeeps ==
  ASSUME LibInv, HeardInTime, NEW t \in Threads, WaitForWritable(t), prog' = prog
  PROVE  LibInv'
<1>1. /\ todo[t] # <<>> /\ Head(todo[t]).op = "wait" /\ (Done(t) \/ todo' = todo)
      /\ Past /\ UNCHANGED <<lock, toServer>> /\ ReadAvailable
  BY DEF WaitForWritable, At, history, Past
<1> QED
  BY <1>1, AvailableReads, ReadAndDone, ReadAndStay DEF Release

LEMMA BlockKeeps ==
  ASSUME LibInv, HeardInTime, NEW t \in Threads, Block(t), prog' = prog
  PROVE  LibInv'
<1>1. /\ todo[t] # <<>> /\ Head(todo[t]).op = "block" /\ Continue(t, <<Step("more", 1, "")>>)
      /\ Past /\ UNCHANGED <<lock, toServer>> /\ fromServer # <<>>
      /\ aud' = Received(aud, Head(fromServer)) /\ fromServer' = Tail(fromServer)
  BY DEF Block, At, history, Past
<1>2. Step("more", 1, "") \in Neutral
  <2>1. "more" \in Ops /\ 1 \in Nat /\ "" \in Words
    BY DEF Ops, Words
  <2> QED
    BY <2>1, NeutralType DEF Inside, Outside, Release
<1> QED
  BY <1>1, <1>2, OneReads, ReadAndOn DEF Release, Calm

LEMMA ReadEventsKeeps ==
  ASSUME LibInv, HeardInTime, NEW t \in Threads, ReadEvents(t), prog' = prog
  PROVE  LibInv'
<1>1. /\ todo[t] # <<>> /\ Head(todo[t]).op = "read" /\ Past /\ UNCHANGED <<lock, toServer>>
      /\ \/ ReadAll /\ Continue(t, <<Step("more", Head(todo[t]).n, "")>>)
         \/ /\ UNCHANGED <<aud, fromServer>>
            /\ \/ Continue(t, <<Do("flush"), Step("flushed", Len(aud.queue), "")>>)
               \/ Continue(t, <<Do("block")>>)
  BY DEF ReadEvents, At, history, Past, Now
<1>2. CASE ReadAll /\ Continue(t, <<Step("more", Head(todo[t]).n, "")>>)
  <2>1. PICK n \in Nat : n = Head(todo[t]).n
    BY <1>1, Parts, FirstStep DEF Steps
  <2>2. Step("more", n, "") \in Neutral
    BY NeutralType DEF Ops, Words, Inside, Outside, Release
  <2>3. Continue(t, <<Step("more", n, "")>>)
    BY <1>2, <2>1
  <2> QED
    BY <1>1, <1>2, <2>2, <2>3, ReadAllReads, ReadAndOn DEF Release, Calm
<1>3. CASE UNCHANGED <<aud, fromServer>> /\ Continue(t, <<Do("flush"), Step("flushed", Len(aud.queue), "")>>)
  <2>1. PICK n \in Nat : n = Len(aud.queue)
    BY Parts
  <2>2. Do("flush") \in Neutral /\ Step("flushed", n, "") \in Neutral
    BY NeutralDo, NeutralType DEF Ops, Words, Inside, Outside, Release
  <2>3. PICK b \in Seq(Plain) : b = <<Do("flush"), Step("flushed", n, "")>> /\ Turned(t, b)
    BY <1>1, <2>2, TurnedNeutral DEF Release
  <2>4. Continue(t, b)
    BY <1>3, <2>1, <2>3
  <2>5. UNCHANGED <<toServer, fromServer, executed, posted, taken, discarded>> /\ AsBefore
    BY <1>1, <1>3, SameAud DEF Past
  <2> QED
    BY <1>1, <2>3, <2>4, <2>5, QuietlyOn DEF Calm
<1>4. CASE UNCHANGED <<aud, fromServer>> /\ Continue(t, <<Do("block")>>)
  <2>1. Do("block") \in Neutral
    BY NeutralDo DEF Ops, Inside, Outside, Release
  <2> QED
    BY <1>1, <1>4, <2>1, AvailableReads, ReadAndOn DEF Release, Calm
<1> QED
  BY <1>1, <1>2, <1>3, <1>4

LEMMA ReadsReads ==
  ASSUME LibInv, HeardInTime, Past, fromServer # <<>>, fromServer' = Tail(fromServer),
         aud' \in Connections, Reads(aud, aud', fromServer),
         aud'.request = aud.request, aud'.buffer = aud.buffer
  PROVE  HasReadMore
<1>1. PICK a \in Connections, b \in Connections, q \in Seq(Packets) :
        a = aud /\ b = aud' /\ q = fromServer /\ q # <<>>
  BY HasRead
<1>2. /\ Numbered(a, q) /\ InOrder(a, q) /\ NoneLost(a, q)
      /\ executed \in Nat /\ posted \in Nat /\ taken \in Seq(Nat)
  BY <1>1, HasRead DEF Reading
<1>3. Reads(a, b, q) /\ a.request <= b.request
  BY <1>1, Parts
<1>4. PICK r \in Seq(Packets) : r = Tail(q)
  BY <1>1, TailOf
<1>5. Reading(b, r)
  BY <1>1, <1>2, <1>3, <1>4, NumberedRead, InOrderRead, NoneLostRead DEF Reading
<1>6. Reading(aud, fromServer)'
  BY <1>1, <1>4, <1>5, ReadingPrimed
<1>7. Grown(a, b)
  BY <1>1, <1>3, ReadsGrow
<1> QED
  BY <1>1, <1>4, <1>6, <1>7 DEF HasReadMore

LEMMA AwaitKeeps ==
  ASSUME LibInv, HeardInTime, HeardInTime', NEW t \in Threads, Await(t), prog' = prog
  PROVE  LibInv'
<1> DEFINE p == Head(fromServer)
           cur == Head(todo[t]).n
           what == Head(todo[t]).what
           serial == IF p.type = "reply" /\ p.seq = cur % Wrap THEN cur
                     ELSE Widened(aud.last_request_read, aud.request, p.seq)
           read == [aud EXCEPT !.last_request_read = serial]
<1>1. /\ todo[t] # <<>> /\ Head(todo[t]).op = "await" /\ Past /\ UNCHANGED <<lock, toServer>>
      /\ fromServer # <<>> /\ fromServer' = Tail(fromServer)
  BY DEF Await, At, Past
<1>2. \/ p.type = "reply" /\ aud' = read /\ Done(t)
      \/ /\ p.type = "error" /\ (aud' = read \/ aud' = Delivered(read, p))
         /\ Done(t) \/ todo' = todo \/ \E n \in Nat : Continue(t, <<Step("readon", n, "")>>)
      \/ p.type = "event" /\ aud' = Received(aud, p) /\ todo' = todo
  <2>1. \A n \in 0 .. MaxData : n \in Nat
    BY LibraryAssumption
  <2> QED
    BY <2>1 DEF Await, Now
<1>3. PICK n \in Nat : n = cur /\ n <= aud.request
  <2>1. todo[t] \in Seq(Steps) /\ Head(todo[t]) \in Steps
    BY <1>1, Parts, FirstStep
  <2>2. Head(todo[t]) = todo[t][1] /\ 1 \in 1 .. Len(todo[t])
    BY <1>1, <2>1
  <2>3. StepInv(Head(todo[t]), aud)
    BY <2>2, Parts DEF StepsInv
  <2> QED
    BY <1>1, <2>1, <2>3 DEF StepInv, Steps
<1>4. PICK a \in Connections, q \in Seq(Packets), h \in Packets :
        a = aud /\ q = fromServer /\ q # <<>> /\ h = Head(q)
  BY <1>1, HasRead, TailOf
<1>5. /\ Numbered(a, q) /\ executed \in Nat /\ executed <= a.request
      /\ a.request - a.last_request_read < Wrap
  BY <1>4, HasRead DEF Reading
<1>6. /\ Widened(a.last_request_read, a.request, h.seq) = h.id
      /\ \A m \in Nat : m <= a.request /\ a.request - m < Wrap /\ h.seq = m % Wrap => h.id = m
  BY <1>4, <1>5, NextNumber
<1>7. CASE p.type = "event"
  <2>1. aud' = Received(aud, Head(fromServer)) /\ todo' = todo
    BY <1>2, <1>7
  <2>2. HasReadMore
    BY <1>1, <2>1, OneReads
  <2> QED
    BY <1>1, <2>1, <2>2, ReadAndStay
<1>8. CASE p.type # "event"
  <2>1. PICK s : s = serial
    OBVIOUS
  <2>2. PICK d : d = [a EXCEPT !.last_request_read = s]
    OBVIOUS
  <2>3. aud' = d \/ aud' = Delivered(d, h)
    BY <1>2, <1>4, <1>8, <2>1, <2>2
  <2>4. h.id \in Nat
    BY DEF Packets
  <2>5. s = h.id
    <3>1. CASE h.type = "reply" /\ h.seq = n % Wrap
      <4>1. s = n /\ aud' = d
        BY <1>2, <1>3, <1>4, <2>1, <2>2, <3>1
      <4>2. aud'.request = a.request /\ aud'.last_request_read = n
        BY <2>2, <4>1 DEF Connections
      <4>3. a.request - n < Wrap
        BY <4>2 DEF HeardInTime
      <4> QED
        BY <1>3, <1>4, <1>6, <3>1, <4>1, <4>3
    <3>2. CASE ~(h.type = "reply" /\ h.seq = n % Wrap)
      BY <1>3, <1>4, <1>6, <2>1, <3>2
    <3> QED
      BY <3>1, <3>2
  <2>6. /\ d \in Connections /\ d.request = a.request /\ d.buffer = a.buffer /\ d.queue = a.queue
        /\ d.last_request_read = h.id
    BY <2>2, <2>4, <2>5 DEF Connections
  <2>7. /\ aud' \in Connections /\ aud'.request = a.request /\ aud'.buffer = a.buffer
        /\ aud'.queue = a.queue /\ aud'.last_request_read = h.id
    BY <2>3, <2>6, DeliveredKeeps
  <2>8. Reads(aud, aud', fromServer)
    BY <1>4, <1>8, <2>7 DEF Reads, QueueAfter
  <2>9. HasReadMore
    BY <1>1, <1>4, <2>7, <2>8, ReadsReads
  <2>10. CASE Done(t) \/ todo' = todo
    BY <1>1, <2>9, <2>10, ReadAndStay, ReadAndDone DEF Release
  <2>11. ASSUME NEW m \in Nat, Continue(t, <<Step("readon", m, "")>>) PROVE LibInv'
    <3>1. Step("readon", m, "") \in Neutral
      BY NeutralType DEF Ops, Words, Inside, Outside, Release
    <3> QED
      BY <1>1, <2>9, <2>11, <3>1, ReadAndOn DEF Release, Calm
  <2> QED
    BY <1>2, <1>8, <2>10, <2>11
<1> QED
  BY <1>7, <1>8

\* A call that reads on leaves all as it was, unless it takes packets.
LEMMA ReadOnKeeps ==
  ASSUME LibInv, NEW t \in Threads, ReadOn(t), prog' = prog, ~astray'
  PROVE  LibInv'
<1>1. /\ todo[t] # <<>> /\ Head(todo[t]).op = "readon" /\ Done(t) /\ aud' = aud /\ lock' = lock
      /\ UNCHANGED <<toServer, fromServer, executed, posted, taken, discarded>>
  BY DEF ReadOn, At
<1> QED
  BY <1>1, SameAud, QuietlyDone DEF Release

-----------------------------------------------------------------------------
(* Steps that send, and the server's.                                        *)

LEMMA PutKeeps ==
  ASSUME LibInv, NEW t \in Threads, Put(t), prog' = prog
  PROVE  LibInv'
<1>1. /\ todo[t] # <<>> /\ Head(todo[t]).op = "put" /\ lock' = lock
      /\ UNCHANGED <<toServer, fromServer, executed, posted, taken, discarded>>
      /\ \/ Continue(t, <<Do("flush"), Head(todo[t])>>) /\ aud' = aud
         \/ /\ aud' = [aud EXCEPT !.request = @ + 1,
                                  !.buffer = Append(@, [id |-> aud.request + 1, kind |-> Head(todo[t]).what])]
            /\ Done(t)
  BY DEF Put, At, Now, serverVars, history
<1>2. Head(todo[t]) \in Steps
  BY <1>1, Parts, FirstStep
<1>3. CASE Continue(t, <<Do("flush"), Head(todo[t])>>) /\ aud' = aud
  <2>1. PICK x \in Plain, y \in Plain : x = Do("flush") /\ x.op = "flush" /\ y = Head(todo[t]) /\ y.op = "put"
    <3>1. Do("flush") \in Plain /\ Do("flush").op = "flush"
      BY PlainDo DEF Ops
    <3>2. Head(todo[t]) \in Plain
      BY <1>1, <1>2 DEF Plain
    <3> QED
      BY <1>1, <3>1, <3>2
  <2>2. x \in Steps /\ y \in Steps
    BY DEF Plain
  <2>3. /\ May("flush", "held") /\ Before("flush", "held") = "held"
        /\ May("put", "held") /\ Before("put", "held") = "held"
    BY DEF May, Before, Inside, Outside, Release
  <2>4. Turns(<<x, y>>, "held", "held")
    BY <2>1, <2>2, <2>3, TurnsTwo
  <2>5. PICK b \in Seq(Plain) : b = <<x, y>>
    <3>1. <<x, y>> \in Seq(Plain)
      OBVIOUS
    <3> QED
      BY <3>1
  <2>6. Turned(t, b)
    BY <1>1, <2>4, <2>5, TurnedInside DEF Inside
  <2>7. Continue(t, b)
    BY <1>3, <2>1, <2>5
  <2> QED
    BY <1>1, <1>3, <2>6, <2>7, SameAud, QuietlyOn DEF Calm
<1>4. CASE /\ aud' = [aud EXCEPT !.request = @ + 1,
                                 !.buffer = Append(@, [id |-> aud.request + 1, kind |-> Head(todo[t]).what])]
           /\ Done(t)
  <2>1. PICK r \in Nat : r = aud.request + 1
    BY Parts
  <2>2. PICK m \in Made : m = [id |-> r, kind |-> Head(todo[t]).what] /\ m.id = r
    <3>1. PICK w \in Words : w = Head(todo[t]).what
      BY <1>2 DEF Steps
    <3>2. PICK k \in Made : k = [id |-> r, kind |-> w]
      BY DEF Made
    <3> QED
      BY <3>1, <3>2
  <2>3. PICK s \in Seq(Made) : s = aud.buffer /\ Append(s, m) \in Seq(Made)
    BY Parts
  <2>4. /\ Len(Append(s, m)) = Len(s) + 1 /\ Append(s, m)[Len(s) + 1] = m /\ Len(s) \in Nat
        /\ \A i \in 1 .. Len(s) : Append(s, m)[i] = s[i]
    OBVIOUS
  <2>5. PICK u \in Seq(Made) : u = Append(s, m)
    BY <2>3
  <2>6. aud' = [aud EXCEPT !.request = r, !.buffer = u]
    BY <1>4, <2>1, <2>2, <2>3, <2>5
  <2>7. /\ aud' \in Connections /\ aud'.request = r /\ aud'.buffer = u /\ aud'.queue = aud.queue
        /\ aud'.last_request_read = aud.last_request_read
    BY <2>6, Parts DEF Connections
  <2>8. Grown(aud, aud') /\ aud.request <= aud'.request
    BY <2>1, <2>7, Parts DEF Grown
  <2>9. StackInv' /\ StepsInv' /\ todo' \in [Threads -> Seq(Steps)]
    BY <1>1, <1>4, <2>7, <2>8, Parts, LeavesOff DEF Release
  <2>10. SentInv'
    <3>1. PICK q \in Seq(Made), e \in Nat, n \in Nat : /\ q = toServer /\ e = executed /\ n = Len(q)
      BY Parts DEF Typed
    <3>2. /\ aud.request = e + n + Len(s) /\ n <= prog.room
          /\ \A i \in 1 .. n : q[i].id = e + i
          /\ \A i \in 1 .. Len(s) : s[i].id = e + n + i
      BY <2>3, <3>1, Parts DEF SentInv
    <3>3. r = e + n + Len(u)
      BY <2>1, <2>4, <2>5, <3>2
    <3>4. \A i \in 1 .. Len(u) : u[i].id = e + n + i
      BY <2>2, <2>4, <2>5, <3>2, <3>3
    <3> QED
      BY <1>1, <2>7, <3>1, <3>2, <3>3, <3>4 DEF SentInv
  <2>11. Reading(aud, fromServer)'
    <3>1. Numbered(aud, fromServer)'
      BY <1>1, <2>7, Parts DEF Reading, Numbered
    <3>2. InOrder(aud, fromServer)'
      BY <1>1, <2>7, Parts DEF Reading, InOrder
    <3>3. NoneLost(aud, fromServer)'
      BY <1>1, <2>7, Parts DEF Reading, NoneLost
    <3> QED
      BY <3>1, <3>2, <3>3 DEF Reading
  <2>12. Typed'
    BY <1>1, <2>7, <2>9, Parts DEF Typed
  <2> QED
    BY <2>9, <2>10, <2>11, <2>12 DEF LibInv
<1> QED
  BY <1>1, <1>3, <1>4

LEMMA Ending ==
  ASSUME NEW S, NEW s \in Seq(S), NEW n \in 0 .. Len(s)
  PROVE  /\ SubSeq(s, n + 1, Len(s)) \in Seq(S) /\ Len(SubSeq(s, n + 1, Len(s))) = Len(s) - n
         /\ \A i \in 1 .. Len(s) - n : SubSeq(s, n + 1, Len(s))[i] = s[n + i]
         /\ Len(s) \in Nat
OBVIOUS

\* Some of the buffer goes into the socket.
LEMMA Moved ==
  ASSUME NEW q \in Seq(Made), NEW s \in Seq(Made), NEW n \in 0 .. Len(s)
  PROVE  /\ q \o SubSeq(s, 1, n) \in Seq(Made) /\ SubSeq(s, n + 1, Len(s)) \in Seq(Made)
         /\ Len(q \o SubSeq(s, 1, n)) = Len(q) + n /\ Len(SubSeq(s, n + 1, Len(s))) = Len(s) - n
         /\ Len(q) \in Nat /\ Len(s) \in Nat
         /\ \A i \in 1 .. Len(q) : (q \o SubSeq(s, 1, n))[i] = q[i]
         /\ \A i \in 1 .. n : (q \o SubSeq(s, 1, n))[Len(q) + i] = s[i]
         /\ \A i \in 1 .. Len(s) - n : SubSeq(s, n + 1, Len(s))[i] = s[n + i]
<1>1. /\ SubSeq(s, 1, n) \in Seq(Made) /\ Len(SubSeq(s, 1, n)) = n
      /\ \A i \in 1 .. n : SubSeq(s, 1, n)[i] = s[i]
  OBVIOUS
<1>2. PICK r \in Seq(Made) : r = SubSeq(s, 1, n)
  BY <1>1
<1>3. /\ q \o r \in Seq(Made) /\ Len(q \o r) = Len(q) + Len(r) /\ Len(q) \in Nat
      /\ \A i \in 1 .. Len(q) : (q \o r)[i] = q[i]
      /\ \A i \in 1 .. Len(r) : (q \o r)[Len(q) + i] = r[i]
  BY JoinedSteps
<1>4. /\ SubSeq(s, n + 1, Len(s)) \in Seq(Made) /\ Len(SubSeq(s, n + 1, Len(s))) = Len(s) - n
      /\ \A i \in 1 .. Len(s) - n : SubSeq(s, n + 1, Len(s))[i] = s[n + i]
      /\ Len(s) \in Nat
  BY Ending
<1> QED
  BY <1>1, <1>2, <1>3, <1>4

LEMMA SentOn ==
  ASSUME LibInv, NEW n \in 0 .. Len(aud.buffer), n <= Room, UNCHANGED <<prog, executed>>,
         toServer' = toServer \o SubSeq(aud.buffer, 1, n),
         aud'.buffer = SubSeq(aud.buffer, n + 1, Len(aud.buffer)), aud'.request = aud.request
  PROVE  SentInv' /\ toServer' \in Seq(Made) /\ aud'.buffer \in Seq(Made)
<1>1. PICK q \in Seq(Made), s \in Seq(Made), e \in Nat, r \in Nat, m \in Nat :
        q = toServer /\ s = aud.buffer /\ e = executed /\ r = aud.request /\ m = prog.room
  BY Parts DEF Typed
<1>2. PICK u \in Seq(Made), v \in Seq(Made) :
        u = q \o SubSeq(s, 1, n) /\ v = SubSeq(s, n + 1, Len(s))
  BY <1>1, Moved
<1>3. /\ Len(u) = Len(q) + n /\ Len(v) = Len(s) - n
      /\ Len(q) \in Nat /\ Len(s) \in Nat
      /\ \A i \in 1 .. Len(q) : u[i] = q[i]
      /\ \A i \in 1 .. n : u[Len(q) + i] = s[i]
      /\ \A i \in 1 .. Len(s) - n : v[i] = s[n + i]
  <2>1. n \in 0 .. Len(s)
    BY <1>1
  <2> QED
    BY <1>2, <2>1, Moved
<1>4. /\ r = e + Len(q) + Len(s) /\ Len(q) <= m /\ n <= m - Len(q)
      /\ \A i \in 1 .. Len(q) : q[i].id = e + i
      /\ \A i \in 1 .. Len(s) : s[i].id = e + Len(q) + i
  BY <1>1, Parts DEF SentInv, Room
<1>5. n \in Nat /\ n <= Len(s)
  BY <1>1
<1>6. r = e + Len(u) + Len(v) /\ Len(u) <= m
  BY <1>3, <1>4, <1>5
<1>7. ASSUME NEW i \in 1 .. Len(u) PROVE u[i].id = e + i
  <2>1. CASE i \in 1 .. Len(q)
    BY <1>3, <1>4, <2>1
  <2>2. CASE i \notin 1 .. Len(q)
    <3>1. PICK k \in 1 .. n : i = Len(q) + k
      <4>1. i - Len(q) \in 1 .. n /\ i = Len(q) + (i - Len(q))
        BY <1>3, <1>5, <2>2
      <4> QED
        BY <4>1
    <3>2. u[i] = s[k] /\ k \in 1 .. Len(s)
      BY <1>3, <1>5, <3>1
    <3>3. s[k].id = e + Len(q) + k
      BY <1>4, <3>2
    <3> QED
      BY <1>3, <3>1, <3>2, <3>3
  <2> QED
    BY <2>1, <2>2
<1>8. ASSUME NEW i \in 1 .. Len(v) PROVE v[i].id = e + Len(u) + i
  <2>1. v[i] = s[n + i] /\ n + i \in 1 .. Len(s)
    <3>1. i \in 1 .. Len(s) - n
      BY <1>3
    <3>2. v[i] = s[n + i]
      BY <1>3, <3>1
    <3>3. n + i \in 1 .. Len(s)
      BY <1>3, <1>5, <3>1
    <3> QED
      BY <3>2, <3>3
  <2>2. s[n + i].id = e + Len(q) + (n + i)
    BY <1>4, <2>1
  <2> QED
    BY <1>3, <1>5, <2>1, <2>2
<1>9. /\ toServer' = u /\ aud'.buffer = v /\ aud'.request = r /\ executed' = e /\ prog'.room = m
  BY <1>1, <1>2
<1>10. SentInv'
  BY <1>6, <1>7, <1>8, <1>9 DEF SentInv
<1> QED
  BY <1>9, <1>10

\* A thread that flushes or waits goes on with one or two calm steps.
LEMMA CalmlyOn ==
  ASSUME LibInv, NEW t \in Threads, todo[t] # <<>>, Head(todo[t]).op = "flush",
         NEW x \in Neutral, NEW y \in Neutral, x.op \in Calm, y.op \in Calm,
         Continue(t, <<x>>) \/ Continue(t, <<x, y>>),
         prog' = prog, lock' = lock, aud' \in Connections, Grown(aud, aud')
  PROVE  StackInv' /\ StepsInv' /\ todo' \in [Threads -> Seq(Steps)]
<1>1. Alone(Rest(t)) /\ Rest(t) \in Seq(Steps) /\ aud.request <= aud'.request
  <2>1. todo[t] \in Seq(Steps) /\ Rest(t) \in Seq(Steps) /\ Alone(todo[t])
    BY Parts, FirstStep DEF StackInv
  <2> QED
    BY <2>1, AloneTail DEF Rest, Grown
<1>2. ASSUME NEW b \in Seq(Plain), Turned(t, b), AllIn(b, Calm), Continue(t, b)
      PROVE  StackInv' /\ StepsInv' /\ todo' \in [Threads -> Seq(Steps)]
  <2>1. b \in Seq(Steps) /\ \A i \in 1 .. Len(b) : StepInv(b[i], aud')
    BY PlainSteps
  <2>2. Alone(b \o Rest(t))
    BY <1>1, <1>2, <2>1, AloneBehind
  <2> QED
    BY <1>1, <1>2, <2>1, <2>2, Parts, GoesOn
<1>3. Turned(t, <<x>>) /\ Turned(t, <<x, y>>) /\ <<x>> \in Seq(Plain) /\ <<x, y>> \in Seq(Plain)
  BY TurnedNeutral DEF Release
<1>4. PICK b \in Seq(Plain), c \in Seq(Plain) :
        /\ b = <<x>> /\ c = <<x, y>> /\ Len(b) = 1 /\ b[1] = x /\ Len(c) = 2 /\ c[1] = x /\ c[2] = y
  BY <1>3
<1>5. AllIn(b, Calm) /\ AllIn(c, Calm)
  BY <1>4 DEF AllIn
<1> QED
  BY <1>2, <1>3, <1>4, <1>5

LEMMA FlushKeeps ==
  ASSUME LibInv, NEW t \in Threads, Flush(t), prog' = prog
  PROVE  LibInv'
<1>1. /\ todo[t] # <<>> /\ Head(todo[t]).op = "flush" /\ lock' = lock
      /\ UNCHANGED <<fromServer, executed, posted, taken, discarded>>
  BY DEF Flush, At, history
<1>2. PICK n \in 0 .. Len(aud.buffer) : n = Min({Room, Len(aud.buffer)}) /\ n <= Room
  <2>1. /\ prog.room \in Nat /\ Len(toServer) \in Nat /\ Len(toServer) <= prog.room
        /\ Len(aud.buffer) \in Nat
    BY Parts DEF Typed, SentInv
  <2>2. PICK r \in Nat, l \in Nat : r = Room /\ l = Len(aud.buffer)
    BY <2>1 DEF Room
  <2>3. Min({r, l}) \in {r, l} /\ Min({r, l}) <= r /\ Min({r, l}) <= l
    <3>1. {r, l} \in SUBSET Nat /\ {r, l} # {} /\ r \in {r, l} /\ l \in {r, l}
      OBVIOUS
    <3> QED
      BY <3>1, MinIsLeast
  <2>4. PICK k \in Nat : k = Min({r, l}) /\ k <= r /\ k <= l
    BY <2>3
  <2> QED
    BY <2>2, <2>4
<1>3. CASE Done(t) /\ UNCHANGED <<aud, toServer>>
  BY <1>1, <1>3, SameAud, QuietlyDone DEF Release
<1>4. CASE /\ toServer' = toServer \o SubSeq(aud.buffer, 1, n)
           /\ aud' = [aud EXCEPT !.buffer = SubSeq(aud.buffer, n + 1, Len(aud.buffer))]
           /\ Done(t) \/ Continue(t, <<Head(todo[t])>>) \/ Continue(t, <<Do("wait"), Head(todo[t])>>)
  <2>1. /\ aud'.buffer = SubSeq(aud.buffer, n + 1, Len(aud.buffer)) /\ aud'.request = aud.request
        /\ aud'.queue = aud.queue /\ aud'.last_request_read = aud.last_request_read
    BY <1>4, Parts DEF Connections
  <2>2. SentInv' /\ toServer' \in Seq(Made) /\ aud'.buffer \in Seq(Made)
    BY <1>1, <1>2, <1>4, <2>1, SentOn
  <2>3. aud' \in Connections
    <3>1. PICK v \in Seq(Made) : v = aud'.buffer
      BY <2>2
    <3>2. aud' = [aud EXCEPT !.buffer = v]
      BY <1>4, <2>1, <3>1
    <3> QED
      BY <3>2, Parts DEF Connections
  <2>4. Grown(aud, aud') /\ aud.request <= aud'.request
    BY <2>1, Parts DEF Grown
  <2>5. Head(todo[t]) \in Neutral /\ Head(todo[t]).op \in Calm
    <3>1. Head(todo[t]) \in Steps
      BY <1>1, Parts, FirstStep
    <3> QED
      BY <1>1, <3>1 DEF Neutral, Plain, Inside, Outside, Release, Calm
  <2>6. Do("wait") \in Neutral /\ Do("wait").op \in Calm
    <3>1. "wait" \in Ops \ {"scan", "await"}
      BY DEF Ops
    <3>2. Do("wait").op = "wait"
      BY <3>1, PlainDo
    <3> QED
      BY <3>1, <3>2, NeutralDo DEF Inside, Outside, Release, Calm
  <2>7. StackInv' /\ StepsInv' /\ todo' \in [Threads -> Seq(Steps)]
    <3>1. CASE Done(t)
      BY <1>1, <2>3, <2>4, <3>1, Parts, LeavesOff DEF Release
    <3>2. CASE Continue(t, <<Head(todo[t])>>)
      BY <1>1, <2>3, <2>4, <2>5, <3>2, CalmlyOn
    <3>3. CASE Continue(t, <<Do("wait"), Head(todo[t])>>)
      BY <1>1, <2>3, <2>4, <2>5, <2>6, <3>3, CalmlyOn
    <3> QED
      BY <1>4, <3>1, <3>2, <3>3
  <2>8. Reading(aud, fromServer)'
    <3>1. Numbered(aud, fromServer)'
      BY <1>1, <2>1, Parts DEF Reading, Numbered
    <3>2. InOrder(aud, fromServer)'
      BY <1>1, <2>1, Parts DEF Reading, InOrder
    <3>3. NoneLost(aud, fromServer)
      BY Parts DEF Reading
    <3>4. NoneLost(aud, fromServer)'
      BY <1>1, <2>1, <3>3 DEF NoneLost
    <3> QED
      BY <3>1, <3>2, <3>4 DEF Reading
  <2>9. Typed'
    BY <1>1, <2>2, <2>3, <2>7, Parts DEF Typed
  <2> QED
    BY <2>2, <2>7, <2>8, <2>9 DEF LibInv
<1>5. \/ Done(t) /\ UNCHANGED <<aud, toServer>>
      \/ /\ toServer' = toServer \o SubSeq(aud.buffer, 1, n)
         /\ aud' = [aud EXCEPT !.buffer = SubSeq(aud.buffer, n + 1, Len(aud.buffer))]
         /\ Done(t) \/ Continue(t, <<Head(todo[t])>>) \/ Continue(t, <<Do("wait"), Head(todo[t])>>)
  BY <1>2 DEF Flush, Now, Done
<1> QED
  BY <1>3, <1>4, <1>5

-----------------------------------------------------------------------------
(* Steps that take events, or throw them away.                               *)

LEMMA DiscardKeeps ==
  ASSUME LibInv, NEW t \in Threads, Discard(t), prog' = prog
  PROVE  LibInv'
<1>1. /\ todo[t] # <<>> /\ Head(todo[t]).op = "discard" /\ Done(t) /\ lock' = lock
      /\ UNCHANGED <<toServer, fromServer, executed, posted, taken>>
      /\ aud' = [aud EXCEPT !.queue = <<>>]
      /\ discarded' = discarded \cup {aud.queue[i].n : i \in DOMAIN aud.queue}
  BY DEF Discard, At, serverVars
<1>2. PICK a \in Connections, q \in Seq(Packets), s \in Seq(Events), k \in Nat :
        a = aud /\ q = fromServer /\ s = a.queue /\ DOMAIN s = 1 .. Len(s) /\ k = posted
  BY Parts DEF Typed
<1>3. PICK b \in Connections : b = [a EXCEPT !.queue = <<>>]
  <2>1. <<>> \in Seq(Events)
    OBVIOUS
  <2> QED
    BY <2>1 DEF Connections
<1>4. /\ aud' = b /\ b.queue = <<>> /\ Len(b.queue) = 0 /\ b.request = a.request /\ b.buffer = a.buffer
      /\ b.last_request_read = a.last_request_read /\ a.request \in Nat
  BY <1>1, <1>2, <1>3 DEF Connections
<1>5. StackInv' /\ StepsInv' /\ todo' \in [Threads -> Seq(Steps)]
  BY <1>1, <1>2, <1>4, Parts, LeavesOff DEF Release
<1>6. Numbered(a, q) /\ InOrder(a, q) /\ NoneLost(a, q)
  BY <1>2, Parts DEF Reading
<1>7. /\ fromServer' = q /\ posted' = posted /\ taken' = taken /\ executed' = executed
      /\ discarded' = discarded \cup {s[i].n : i \in 1 .. Len(s)}
  BY <1>1, <1>2
<1>8. Numbered(aud, fromServer)'
  BY <1>4, <1>6, <1>7 DEF Numbered
<1>9. InOrder(aud, fromServer)'
  BY <1>4, <1>6, <1>7 DEF InOrder
<1>10. NoneLost(aud, fromServer)'
  <2>1. discarded' \subseteq 1 .. posted
    <3>1. \A i \in 1 .. Len(s) : s[i].n \in 1 .. posted
      BY <1>2, <1>6 DEF InOrder
    <3>2. discarded \subseteq 1 .. posted
      BY <1>6 DEF NoneLost
    <3> QED
      BY <1>7, <3>1, <3>2
  <2>2. ASSUME NEW m \in 1 .. posted
        PROVE  \/ m \in discarded'
               \/ \E i \in 1 .. Len(taken) : taken[i] = m
               \/ \E i \in 1 .. Len(q) : q[i].n = m
    <3>1. \/ m \in discarded
          \/ \E i \in 1 .. Len(taken) : taken[i] = m
          \/ \E i \in 1 .. Len(s) : s[i].n = m
          \/ \E i \in 1 .. Len(q) : q[i].n = m
      BY <1>2, <1>6 DEF NoneLost
    <3> QED
      BY <1>7, <3>1
  <2> QED
    BY <1>7, <2>1, <2>2 DEF NoneLost
<1>11. SentInv'
  BY <1>1, <1>2, <1>4, SentKept
<1>12. Typed'
  BY <1>1, <1>4, <1>5, Parts DEF Typed
<1> QED
  BY <1>5, <1>8, <1>9, <1>10, <1>11, <1>12 DEF LibInv, Reading

\* The connection once the event at place k of its queue has been taken.
Taken(a, b, k) ==
    /\ Len(b.queue) = Len(a.queue) - 1 /\ b.request = a.request /\ b.buffer = a.buffer
    /\ b.last_request_read = a.last_request_read
    /\ \A i \in 1 .. k - 1 : b.queue[i] = a.queue[i]
    /\ \A i \in k .. Len(a.queue) - 1 : b.queue[i] = a.queue[i + 1]

\* Where an event of the queue came from.
LEMMA TakenFrom ==
  ASSUME NEW a \in Connections, NEW b \in Connections, NEW k \in 1 .. Len(a.queue), Taken(a, b, k),
         NEW i \in 1 .. Len(b.queue)
  PROVE  \E m \in 1 .. Len(a.queue) : /\ b.queue[i] = a.queue[m] /\ (m < k \/ m > k)
                                      /\ m = IF i < k THEN i ELSE i + 1
<1>1. Len(a.queue) \in Nat /\ Len(b.queue) = Len(a.queue) - 1
  BY DEF Connections, Taken
<1>2. PICK n \in Nat : n = Len(a.queue) /\ k \in 1 .. n /\ i \in 1 .. n - 1
  BY <1>1
<1>3. CASE i < k
  <2>1. i \in 1 .. k - 1 /\ i \in 1 .. n
    BY <1>2, <1>3
  <2> QED
    BY <1>2, <1>3, <2>1 DEF Taken
<1>4. CASE ~(i < k)
  <2>1. i \in k .. n - 1 /\ i + 1 \in 1 .. n /\ i + 1 > k
    BY <1>2, <1>4
  <2>2. b.queue[i] = a.queue[i + 1]
    BY <1>2, <2>1 DEF Taken
  <2> QED
    BY <1>2, <1>4, <2>1, <2>2
<1> QED
  BY <1>3, <1>4

\* Where the others of the queue are.
LEMMA TakenTo ==
  ASSUME NEW a \in Connections, NEW b \in Connections, NEW k \in 1 .. Len(a.queue), Taken(a, b, k),
         NEW m \in 1 .. Len(a.queue), m # k
  PROVE  \E i \in 1 .. Len(b.queue) : b.queue[i] = a.queue[m]
<1>1. Len(a.queue) \in Nat /\ Len(b.queue) = Len(a.queue) - 1
  BY DEF Connections, Taken
<1>2. PICK n \in Nat : n = Len(a.queue) /\ k \in 1 .. n /\ m \in 1 .. n /\ Len(b.queue) = n - 1
  BY <1>1
<1>3. CASE m < k
  <2>1. m \in 1 .. k - 1 /\ m \in 1 .. n - 1
    BY <1>2, <1>3
  <2> QED
    BY <1>2, <2>1 DEF Taken
<1>4. CASE ~(m < k)
  <2>1. PICK i \in k .. n - 1 : i + 1 = m
    <3>1. m - 1 \in k .. n - 1 /\ (m - 1) + 1 = m
      BY <1>2, <1>4
    <3> QED
      BY <3>1
  <2>2. b.queue[i] = a.queue[i + 1] /\ i \in 1 .. n - 1
    BY <1>2, <2>1 DEF Taken
  <2> QED
    BY <1>2, <2>1, <2>2
<1> QED
  BY <1>3, <1>4

LEMMA InOrderTaken ==
  ASSUME NEW a \in Connections, NEW b \in Connections, NEW q \in Seq(Packets), NEW k \in 1 .. Len(a.queue),
         Taken(a, b, k), InOrder(a, q), posted \in Nat, taken \in Seq(Nat),
         \A i \in 1 .. k - 1 : ~SameKind(a.queue[i].n, a.queue[k].n),
         taken' = Append(taken, a.queue[k].n), posted' = posted, aud' = b, fromServer' = q
  PROVE  InOrder(aud, fromServer)'
<1>1. PICK s \in Seq(Events), r \in Seq(Events), n \in Nat, x \in Nat :
        s = a.queue /\ r = b.queue /\ n = Len(s) /\ x = s[k].n /\ k \in 1 .. n /\ Len(r) = n - 1
  <2>1. PICK s \in Seq(Events), r \in Seq(Events) : s = a.queue /\ r = b.queue /\ Len(r) = Len(s) - 1
    BY DEF Connections, Taken
  <2>2. PICK n \in Nat : n = Len(s) /\ k \in 1 .. n
    <3>1. Len(s) \in Nat
      OBVIOUS
    <3>2. k \in 1 .. Len(s)
      BY <2>1
    <3> QED
      BY <3>1, <3>2
  <2>3. s[k] \in Events
    BY <2>2
  <2>4. s[k].n \in Nat
    BY <2>3 DEF Events
  <2> QED
    BY <2>1, <2>2, <2>4
<1>2. PICK v \in Seq(Nat), l \in Nat : /\ v = taken' /\ l = Len(taken) /\ Len(v) = l + 1 /\ v[l + 1] = x
                                       /\ \A i \in 1 .. l : v[i] = taken[i]
  <2>1. PICK w \in Seq(Nat), l \in Nat : w = taken /\ l = Len(w)
    OBVIOUS
  <2>2. PICK v : v = Append(w, x)
    OBVIOUS
  <2>3. /\ v \in Seq(Nat) /\ Len(v) = l + 1 /\ v[l + 1] = x /\ \A i \in 1 .. l : v[i] = w[i]
    BY <2>1, <2>2
  <2> QED
    BY <1>1, <2>1, <2>2, <2>3
<1>3. \A i \in 1 .. n - 1 : \E m \in 1 .. n : /\ r[i] = s[m] /\ (m < k \/ m > k)
                                              /\ m = IF i < k THEN i ELSE i + 1
  BY <1>1, TakenFrom
<1>4. /\ \A i \in 1 .. n : s[i].serial = s[i].id /\ s[i].n \in 1 .. posted
      /\ \A i \in 1 .. l : taken[i] \in 1 .. posted
      /\ \A i, j \in 1 .. l : i < j /\ SameKind(taken[i], taken[j]) => taken[i] < taken[j]
      /\ \A i, j \in 1 .. n : i < j => s[i].n < s[j].n
      /\ \A i, j \in 1 .. Len(q) : i < j /\ q[j].n # 0 => q[i].n < q[j].n
      /\ \A i \in 1 .. l, j \in 1 .. n : SameKind(taken[i], s[j].n) => taken[i] < s[j].n
      /\ \A i \in 1 .. l, j \in 1 .. Len(q) : q[j].n # 0 => taken[i] < q[j].n
      /\ \A i \in 1 .. n, j \in 1 .. Len(q) : q[j].n # 0 => s[i].n < q[j].n
  BY <1>1, <1>2 DEF InOrder
<1>5. \A i \in 1 .. k - 1 : ~SameKind(s[i].n, x)
  BY <1>1
<1>6. /\ \A i \in 1 .. n - 1 : r[i].serial = r[i].id /\ r[i].n \in 1 .. posted
      /\ \A i \in 1 .. n - 1, j \in 1 .. Len(q) : q[j].n # 0 => r[i].n < q[j].n
  BY <1>3, <1>4
<1>7. \A i, j \in 1 .. n - 1 : i < j => r[i].n < r[j].n
  <2> SUFFICES ASSUME NEW i \in 1 .. n - 1, NEW j \in 1 .. n - 1, i < j PROVE r[i].n < r[j].n
    OBVIOUS
  <2>1. PICK f \in 1 .. n : r[i] = s[f] /\ f = IF i < k THEN i ELSE i + 1
    BY <1>3
  <2>2. PICK g \in 1 .. n : r[j] = s[g] /\ g = IF j < k THEN j ELSE j + 1
    BY <1>3
  <2>3. f < g
    <3>1. i \in Int /\ j \in Int /\ k \in Int
      BY <1>1
    <3>2. CASE i < k /\ j < k
      BY <2>1, <2>2, <3>1, <3>2
    <3>3. CASE i < k /\ ~(j < k)
      BY <2>1, <2>2, <3>1, <3>3
    <3>4. CASE ~(i < k)
      BY <2>1, <2>2, <3>1, <3>4
    <3> QED
      BY <3>2, <3>3, <3>4
  <2> QED
    BY <1>4, <2>1, <2>2, <2>3
<1>8. \A i \in 1 .. l + 1 : i \in 1 .. l \/ i = l + 1
  OBVIOUS
<1>9. \A i \in 1 .. l + 1 : v[i] \in 1 .. posted
  BY <1>1, <1>2, <1>4, <1>8
<1>10. ASSUME NEW i \in 1 .. l + 1, NEW j \in 1 .. l + 1, i < j, SameKind(v[i], v[j]) PROVE v[i] < v[j]
  <2>1. i \in 1 .. l /\ v[i] = taken[i]
    BY <1>2, <1>10
  <2>2. CASE j \in 1 .. l
    BY <1>2, <1>4, <1>10, <2>1, <2>2
  <2>3. CASE j = l + 1
    BY <1>1, <1>2, <1>4, <1>10, <2>1, <2>3
  <2> QED
    BY <1>8, <2>2, <2>3
<1>11. ASSUME NEW i \in 1 .. l + 1, NEW j \in 1 .. n - 1, SameKind(v[i], r[j].n) PROVE v[i] < r[j].n
  <2>1. PICK m \in 1 .. n : r[j] = s[m] /\ (m < k \/ m > k)
    BY <1>3
  <2>2. CASE i \in 1 .. l
    BY <1>2, <1>4, <1>11, <2>1, <2>2
  <2>3. CASE i = l + 1
    <3>1. ~(m < k)
      <4>1. SUFFICES ASSUME m < k PROVE FALSE
        OBVIOUS
      <4>2. m \in 1 .. k - 1
        BY <1>1, <4>1
      <4>3. ~SameKind(s[m].n, x)
        BY <1>5, <4>2
      <4>4. SameKind(x, s[m].n)
        BY <1>2, <1>11, <2>1, <2>3
      <4> QED
        BY <4>3, <4>4 DEF SameKind
    <3>2. s[k].n < s[m].n
      BY <1>1, <1>4, <2>1, <3>1
    <3> QED
      BY <1>1, <1>2, <2>1, <2>3, <3>2
  <2> QED
    BY <1>8, <2>2, <2>3
<1>12. ASSUME NEW i \in 1 .. l + 1, NEW j \in 1 .. Len(q), q[j].n # 0 PROVE v[i] < q[j].n
  <2>1. CASE i \in 1 .. l
    BY <1>2, <1>4, <1>12, <2>1
  <2>2. CASE i = l + 1
    BY <1>1, <1>2, <1>4, <1>12, <2>2
  <2> QED
    BY <1>8, <2>1, <2>2
<1>13. /\ taken' = v /\ Len(v) = l + 1 /\ aud'.queue = r /\ Len(r) = n - 1 /\ fromServer' = q
       /\ posted' = posted
  BY <1>1, <1>2
<1> QED
  BY <1>4, <1>6, <1>7, <1>9, <1>10, <1>11, <1>12, <1>13 DEF InOrder

LEMMA NoneLostTaken ==
  ASSUME NEW a \in Connections, NEW b \in Connections, NEW q \in Seq(Packets), NEW k \in 1 .. Len(a.queue),
         Taken(a, b, k), NoneLost(a, q), taken \in Seq(Nat),
         taken' = Append(taken, a.queue[k].n), posted' = posted, discarded' = discarded,
         aud' = b, fromServer' = q
  PROVE  NoneLost(aud, fromServer)'
<1>1. PICK x \in Nat, w \in Seq(Nat) : x = a.queue[k].n /\ w = taken
  <2>1. a.queue[k] \in Events
    BY DEF Connections
  <2> QED
    BY <2>1 DEF Events
<1>2. PICK v \in Seq(Nat) : v = Append(w, x)
  <2>1. Append(w, x) \in Seq(Nat)
    OBVIOUS
  <2> QED
    BY <2>1
<1>3. Len(v) = Len(w) + 1 /\ Len(w) \in Nat /\ v[Len(w) + 1] = x /\ \A i \in 1 .. Len(w) : v[i] = w[i]
  BY <1>2
<1>4. ASSUME NEW m \in 1 .. posted
      PROVE  \/ m \in discarded
             \/ \E i \in 1 .. Len(v) : v[i] = m
             \/ \E i \in 1 .. Len(b.queue) : b.queue[i].n = m
             \/ \E i \in 1 .. Len(q) : q[i].n = m
  <2>1. \/ m \in discarded
        \/ \E i \in 1 .. Len(w) : w[i] = m
        \/ \E i \in 1 .. Len(a.queue) : a.queue[i].n = m
        \/ \E i \in 1 .. Len(q) : q[i].n = m
    BY <1>1 DEF NoneLost
  <2>2. ASSUME NEW i \in 1 .. Len(w), w[i] = m PROVE \E j \in 1 .. Len(v) : v[j] = m
    <3>1. i \in 1 .. Len(v) /\ v[i] = m
      BY <1>3, <2>2
    <3> QED
      BY <3>1
  <2>3. ASSUME NEW i \in 1 .. Len(a.queue), a.queue[i].n = m
        PROVE  \/ \E j \in 1 .. Len(v) : v[j] = m
               \/ \E j \in 1 .. Len(b.queue) : b.queue[j].n = m
    <3>1. CASE i = k
      <4>1. Len(w) + 1 \in 1 .. Len(v) /\ v[Len(w) + 1] = m
        BY <1>1, <1>3, <2>3, <3>1
      <4> QED
        BY <4>1
    <3>2. CASE i # k
      <4>1. PICK j \in 1 .. Len(b.queue) : b.queue[j] = a.queue[i]
        BY <3>2, TakenTo
      <4> QED
        BY <2>3, <4>1
    <3> QED
      BY <3>1, <3>2
  <2> QED
    BY <2>1, <2>2, <2>3
<1>5. taken' = v /\ aud'.queue = b.queue /\ fromServer' = q /\ posted' = posted /\ discarded' = discarded
  BY <1>1, <1>2
<1>6. discarded \subseteq 1 .. posted
  BY DEF NoneLost
<1> QED
  BY <1>4, <1>5, <1>6 DEF NoneLost

LEMMA EventTaken ==
  ASSUME LibInv, NEW t \in Threads, todo[t] # <<>>, Head(todo[t]).op \in {"take", "scan"}, Done(t),
         NEW k \in 1 .. Len(aud.queue), aud' \in Connections, Taken(aud, aud', k),
         \A i \in 1 .. k - 1 : ~SameKind(aud.queue[i].n, aud.queue[k].n),
         taken' = Append(taken, aud.queue[k].n),
         UNCHANGED <<prog, lock, toServer, fromServer, executed, posted, discarded>>
  PROVE  LibInv'
<1>1. PICK a \in Connections, b \in Connections, q \in Seq(Packets) : a = aud /\ b = aud' /\ q = fromServer
  BY Parts DEF Typed
<1>2. /\ Numbered(a, q) /\ InOrder(a, q) /\ NoneLost(a, q) /\ Taken(a, b, k)
      /\ posted \in Nat /\ taken \in Seq(Nat)
  BY <1>1, Parts DEF Reading, Typed
<1>3. aud.request <= aud'.request /\ aud'.request = aud.request /\ aud'.buffer = aud.buffer
  BY Parts DEF Taken
<1>4. StackInv' /\ StepsInv' /\ todo' \in [Threads -> Seq(Steps)]
  BY <1>3, Parts, LeavesOff DEF Release
<1>5. b.last_request_read = a.last_request_read
  BY <1>2 DEF Taken
<1>6. Numbered(aud, fromServer)'
  BY <1>1, <1>2, <1>5 DEF Numbered
<1>7. InOrder(aud, fromServer)' /\ NoneLost(aud, fromServer)'
  BY <1>1, <1>2, InOrderTaken, NoneLostTaken
<1>8. SentInv'
  BY <1>3, SentKept
<1>9. Typed'
  <2>1. aud.queue[k] \in Events
    BY Parts
  <2>2. aud.queue[k].n \in Nat
    BY <2>1 DEF Events
  <2>3. taken' \in Seq(Nat)
    BY <1>2, <2>2
  <2> QED
    BY <1>4, <2>3, Parts DEF Typed
<1> QED
  BY <1>4, <1>6, <1>7, <1>8, <1>9 DEF LibInv, Reading

LEMMA TakeKeeps ==
  ASSUME LibInv, NEW t \in Threads, Take(t), prog' = prog
  PROVE  LibInv'
<1>0. CASE aud.queue = <<>>
  <2>1. /\ todo[t] # <<>> /\ Head(todo[t]).op = "take" /\ Continue(t, <<Do("crash")>>) /\ lock' = lock
        /\ UNCHANGED <<toServer, fromServer, executed, posted, taken, discarded>> /\ AsBefore
    BY <1>0, SameAud DEF Take, At, serverVars
  <2>2. Do("crash") \in Neutral
    BY NeutralDo DEF Ops, Inside, Outside, Release
  <2>3. PICK b \in Seq(Plain) : b = <<Do("crash")>> /\ Turned(t, b)
    BY <2>1, <2>2, TurnedNeutral DEF Release
  <2> QED
    BY <2>1, <2>3, QuietlyOn DEF Calm
<1> SUFFICES ASSUME aud.queue # <<>> PROVE LibInv'
  BY <1>0
<1>1. /\ todo[t] # <<>> /\ Head(todo[t]).op = "take" /\ Done(t) /\ aud.queue # <<>>
      /\ aud' = [aud EXCEPT !.queue = Tail(aud.queue)] /\ taken' = Append(taken, Head(aud.queue).n)
      /\ UNCHANGED <<prog, lock, toServer, fromServer, executed, posted, discarded>>
  BY DEF Take, At, serverVars
<1>2. PICK s \in Seq(Events), r \in Seq(Events) : s = aud.queue /\ r = Tail(s) /\ s # <<>>
  <2>1. PICK s \in Seq(Events) : s = aud.queue /\ s # <<>>
    BY <1>1, Parts
  <2>2. Tail(s) \in Seq(Events)
    BY <2>1
  <2> QED
    BY <2>1, <2>2
<1>3. /\ Head(s) = s[1] /\ Len(r) = Len(s) - 1 /\ 1 \in 1 .. Len(s) /\ Len(s) \in Nat
      /\ \A i \in 1 .. Len(s) - 1 : r[i] = s[i + 1]
  BY <1>2
<1>4. aud' = [aud EXCEPT !.queue = r]
  BY <1>1, <1>2
<1>5. /\ aud' \in Connections /\ aud'.queue = r /\ aud'.request = aud.request /\ aud'.buffer = aud.buffer
      /\ aud'.last_request_read = aud.last_request_read
  BY <1>4, Parts DEF Connections
<1>6. PICK k \in Nat : k = 1
  OBVIOUS
<1>7. Taken(aud, aud', k) /\ k \in 1 .. Len(aud.queue) /\ \A i \in 1 .. k - 1 : FALSE
  BY <1>2, <1>3, <1>5, <1>6 DEF Taken
<1>8. taken' = Append(taken, aud.queue[k].n)
  BY <1>1, <1>2, <1>3, <1>6
<1> QED
  BY <1>1, <1>5, <1>7, <1>8, EventTaken

LEMMA ScanHits ==
  ASSUME LibInv, NEW t \in Threads, todo[t] # <<>>, Head(todo[t]).op = "scan", Done(t),
         NEW hits, hits = {i \in DOMAIN aud.queue : i > Head(todo[t]).n /\ aud.queue[i].n % 2 = 1}, hits # {},
         aud' = [aud EXCEPT !.queue = RemoveAt(aud.queue, Min(hits))],
         taken' = Append(taken, aud.queue[Min(hits)].n),
         UNCHANGED <<prog, lock, toServer, fromServer, executed, posted, discarded>>
  PROVE  LibInv'
<1>1. PICK s \in Seq(Events), n \in Nat : s = aud.queue /\ n = Len(s) /\ DOMAIN s = 1 .. n
  BY Parts
<1>2. PICK x \in Steps : x = Head(todo[t]) /\ x.op = "scan" /\ x.n \in Nat /\ StepInv(x, aud)
  <2>1. todo[t] \in Seq(Steps) /\ Head(todo[t]) \in Steps
    BY Parts, FirstStep
  <2>2. Head(todo[t]) = todo[t][1] /\ 1 \in 1 .. Len(todo[t])
    BY <2>1
  <2>3. StepInv(Head(todo[t]), aud)
    BY <2>2, Parts DEF StepsInv
  <2> QED
    BY <2>1, <2>3 DEF Steps
<1>3. hits = {i \in 1 .. n : i > x.n /\ s[i].n % 2 = 1}
  BY <1>1, <1>2
<1>4. PICK k \in 1 .. n : k = Min(hits) /\ k \in hits /\ \A i \in hits : k <= i
  <2>1. hits \in SUBSET Nat /\ hits \subseteq 1 .. n
    BY <1>3
  <2>2. Min(hits) \in hits /\ \A i \in hits : Min(hits) <= i
    BY <2>1, MinIsLeast
  <2> QED
    BY <2>1, <2>2
<1>5. k > x.n /\ s[k].n % 2 = 1
  BY <1>3, <1>4
<1>6. ASSUME NEW i \in 1 .. k - 1 PROVE s[i].n % 2 # 1
  <2>1. CASE i <= x.n
    <3>1. i \in 1 .. x.n
      BY <1>2, <2>1
    <3> QED
      BY <1>1, <1>2, <3>1 DEF StepInv
  <2>2. CASE ~(i <= x.n)
    <3>1. i \in 1 .. n /\ ~(k <= i) /\ i > x.n
      BY <1>2, <2>2
    <3> QED
      BY <1>3, <1>4, <3>1
  <2> QED
    BY <2>1, <2>2
<1>7. PICK r \in Seq(Events) : /\ r = RemoveAt(s, k) /\ Len(r) = n - 1
                               /\ \A i \in 1 .. k - 1 : r[i] = s[i]
                               /\ \A i \in k .. n - 1 : r[i] = s[i + 1]
  <2>1. RemoveAt(s, k) = SubSeq(s, 1, k - 1) \o SubSeq(s, k + 1, n)
    BY <1>1 DEF RemoveAt
  <2>2. PICK u \in Seq(Events) : u = SubSeq(s, 1, k - 1) /\ Len(u) = k - 1 /\ \A i \in 1 .. k - 1 : u[i] = s[i]
    <3>1. /\ SubSeq(s, 1, k - 1) \in Seq(Events) /\ Len(SubSeq(s, 1, k - 1)) = k - 1
          /\ \A i \in 1 .. k - 1 : SubSeq(s, 1, k - 1)[i] = s[i]
      BY <1>1
    <3> QED
      BY <3>1
  <2>3. PICK v \in Seq(Events) : v = SubSeq(s, k + 1, n) /\ Len(v) = n - k /\ \A i \in 1 .. n - k : v[i] = s[k + i]
    <3>1. /\ SubSeq(s, k + 1, n) \in Seq(Events) /\ Len(SubSeq(s, k + 1, n)) = n - k
          /\ \A i \in 1 .. n - k : SubSeq(s, k + 1, n)[i] = s[k + i]
      <4>1. k \in 0 .. Len(s)
        BY <1>1
      <4> QED
        BY <1>1, <4>1, Ending
    <3> QED
      BY <3>1
  <2>4. /\ u \o v \in Seq(Events) /\ Len(u \o v) = Len(u) + Len(v)
        /\ \A i \in 1 .. Len(u) : (u \o v)[i] = u[i]
        /\ \A i \in 1 .. Len(v) : (u \o v)[Len(u) + i] = v[i]
    BY JoinedSteps
  <2>5. PICK r \in Seq(Events) : r = u \o v
    BY <2>4
  <2>6. \A i \in 1 .. k - 1 : r[i] = s[i]
    BY <2>2, <2>4, <2>5
  <2>7. ASSUME NEW i \in k .. n - 1 PROVE r[i] = s[i + 1]
    <3>1. PICK m \in 1 .. n - k : i = (k - 1) + m /\ k + m = i + 1
      <4>1. i - k + 1 \in 1 .. n - k /\ i = (k - 1) + (i - k + 1) /\ k + (i - k + 1) = i + 1
        OBVIOUS
      <4> QED
        BY <4>1
    <3>2. r[Len(u) + m] = v[m]
      BY <2>3, <2>4, <2>5, <3>1
    <3> QED
      BY <2>2, <2>3, <3>1, <3>2
  <2>8. Len(r) = n - 1
    <3>1. Len(r) = (k - 1) + (n - k)
      BY <2>2, <2>3, <2>4, <2>5
    <3> QED
      BY <3>1
  <2>9. r = RemoveAt(s, k)
    BY <2>1, <2>2, <2>3, <2>5
  <2> QED
    BY <2>6, <2>7, <2>8, <2>9
<1>8. aud' = [aud EXCEPT !.queue = r] /\ taken' = Append(taken, aud.queue[k].n)
  BY <1>1, <1>4, <1>7
<1>9. /\ aud' \in Connections /\ aud'.queue = r /\ aud'.request = aud.request /\ aud'.buffer = aud.buffer
      /\ aud'.last_request_read = aud.last_request_read
  BY <1>8, Parts DEF Connections
<1>10. Taken(aud, aud', k)
  BY <1>1, <1>7, <1>9 DEF Taken
<1>11. \A i \in 1 .. k - 1 : ~SameKind(aud.queue[i].n, aud.queue[k].n)
  BY <1>1, <1>5, <1>6 DEF SameKind
<1> QED
  BY <1>1, <1>8, <1>9, <1>10, <1>11, EventTaken

LEMMA ScanMisses ==
  ASSUME LibInv, NEW t \in Threads, todo[t] # <<>>, Head(todo[t]).op = "scan",
         {i \in DOMAIN aud.queue : i > Head(todo[t]).n /\ aud.queue[i].n % 2 = 1} = {},
         NEW op \in {"gather", "flush"}, NEW what \in {"reading", "flush"},
         Continue(t, <<Do(op), Step("scan", Len(aud.queue), what)>>),
         UNCHANGED <<prog, aud, lock, toServer, fromServer, executed, posted, taken, discarded>>
  PROVE  LibInv'
<1>1. PICK s \in Seq(Events), n \in Nat : s = aud.queue /\ n = Len(s) /\ DOMAIN s = 1 .. n
  BY Parts
<1>2. PICK x \in Steps : x = Head(todo[t]) /\ x.op = "scan" /\ x.n \in Nat /\ StepInv(x, aud)
  <2>1. todo[t] \in Seq(Steps) /\ Head(todo[t]) \in Steps
    BY Parts, FirstStep
  <2>2. Head(todo[t]) = todo[t][1] /\ 1 \in 1 .. Len(todo[t])
    BY <2>1
  <2>3. StepInv(Head(todo[t]), aud)
    BY <2>2, Parts DEF StepsInv
  <2> QED
    BY <2>1, <2>3 DEF Steps
<1>3. PICK y \in Steps, z \in Steps : /\ y = Do(op) /\ y.op = op
                                      /\ z = Step("scan", n, what) /\ z.op = "scan" /\ z.n = n /\ z.what = what
  <2>1. op \in Ops \ {"scan", "await"} /\ "scan" \in Ops /\ what \in Words
    BY DEF Ops, Words
  <2>2. Do(op) \in Steps /\ Do(op).op = op
    BY <2>1, PlainDo
  <2>3. /\ Step("scan", n, what) \in Steps /\ Step("scan", n, what).op = "scan"
        /\ Step("scan", n, what).n = n /\ Step("scan", n, what).what = what
    BY <2>1, StepType
  <2> QED
    BY <2>2, <2>3
<1>4. PICK b \in Seq(Steps) : b = <<y, z>> /\ Turns(b, "held", "held") /\ Len(b) = 2 /\ b[1] = y /\ b[2] = z
  <2>1. /\ May(op, "held") /\ Before(op, "held") = "held"
        /\ May("scan", "held") /\ Before("scan", "held") = "held"
    BY DEF May, Before, Inside, Outside, Release
  <2>2. Turns(<<y, z>>, "held", "held") /\ <<y, z>> \in Seq(Steps)
    BY <1>3, <2>1, TurnsTwo
  <2> QED
    BY <2>2
<1>5. Turned(t, b)
  BY <1>4, TurnedInside DEF Inside
<1>6. Alone(b)
  <2>1. ASSUME NEW i \in 1 .. 2, b[i].op = "scan", NEW j \in 1 .. i - 1 PROVE b[j].op \in Calm
    <3>1. j = 1
      OBVIOUS
    <3> QED
      BY <1>3, <1>4, <3>1 DEF Calm
  <2> QED
    BY <1>4, <2>1 DEF Alone
<1>7. Alone(b \o Rest(t))
  <2>1. NoScan(Rest(t)) /\ Rest(t) \in Seq(Steps)
    <3>1. Alone(todo[t]) /\ todo[t] \in Seq(Steps) /\ Rest(t) \in Seq(Steps)
      BY Parts, FirstStep DEF StackInv
    <3> QED
      BY <3>1, AloneTail DEF Rest, Calm
  <2> QED
    BY <1>6, <2>1, AloneBefore
<1>8. ASSUME NEW i \in 1 .. n PROVE s[i].n % 2 # 1
  <2>1. CASE i <= x.n
    <3>1. i \in 1 .. x.n
      BY <1>2, <2>1
    <3> QED
      BY <1>1, <1>2, <3>1 DEF StepInv
  <2>2. CASE ~(i <= x.n)
    <3>1. i > x.n
      BY <1>2, <2>2
    <3> QED
      BY <1>1, <1>2, <3>1
  <2> QED
    BY <2>1, <2>2
<1>9. StepInv(y, aud) /\ StepInv(z, aud)
  BY <1>1, <1>3, <1>8 DEF StepInv
<1>10. \A i \in 1 .. Len(b) : StepInv(b[i], aud')
  <2>1. \A i \in 1 .. 2 : b[i] \in {y, z}
    BY <1>4
  <2> QED
    BY <1>4, <1>9, <2>1
<1>11. Grown(aud, aud') /\ AsBefore /\ aud' \in Connections /\ aud.request <= aud'.request
  BY SameAud, Parts
<1>12. Continue(t, b)
  BY <1>1, <1>3, <1>4
<1>13. StackInv' /\ StepsInv' /\ todo' \in [Threads -> Seq(Steps)]
  BY <1>5, <1>7, <1>10, <1>11, <1>12, Parts, GoesOn
<1> QED
  BY <1>11, <1>13, ControlOnly

LEMMA ScanKeeps ==
  ASSUME LibInv, NEW t \in Threads, Scan(t), prog' = prog
  PROVE  LibInv'
<1> DEFINE hits == {i \in DOMAIN aud.queue : i > Head(todo[t]).n /\ aud.queue[i].n % 2 = 1}
<1>1. /\ todo[t] # <<>> /\ Head(todo[t]).op = "scan"
      /\ UNCHANGED <<prog, lock, toServer, fromServer, executed, posted, discarded>>
  BY DEF Scan, At, serverVars
<1>2. IF hits # {}
        THEN /\ aud' = [aud EXCEPT !.queue = RemoveAt(aud.queue, Min(hits))]
             /\ taken' = Append(taken, aud.queue[Min(hits)].n)
             /\ Done(t)
        ELSE /\ Continue(t, CASE Head(todo[t]).what = "already" -> <<Do("gather"), Step("scan", Len(aud.queue), "reading")>>
                              [] Head(todo[t]).what = "reading" -> <<Do("flush"), Step("scan", Len(aud.queue), "flush")>>
                              [] Head(todo[t]).what = "flush"   -> <<>>)
             /\ UNCHANGED <<aud, taken>>
  BY DEF Scan, Now
<1> HIDE DEF hits
<1>3. CASE hits # {}
  <2>1. PICK h : h = hits
    OBVIOUS
  <2> QED
    BY <1>1, <1>2, <1>3, <2>1, ScanHits DEF hits
<1>4. CASE hits = {}
  <2>1. Head(todo[t]).what \in {"already", "reading", "flush"}
    <3>1. todo[t] \in Seq(Steps) /\ Head(todo[t]) \in Steps
      BY <1>1, Parts, FirstStep
    <3>2. Head(todo[t]) = todo[t][1] /\ 1 \in 1 .. Len(todo[t])
      BY <1>1, <3>1
    <3>3. StepInv(Head(todo[t]), aud)
      BY <3>2, Parts DEF StepsInv
    <3> QED
      BY <1>1, <3>3 DEF StepInv
  <2>2. UNCHANGED <<aud, taken>>
    BY <1>2, <1>4
  <2>3. \/ Continue(t, <<Do("gather"), Step("scan", Len(aud.queue), "reading")>>)
        \/ Continue(t, <<Do("flush"), Step("scan", Len(aud.queue), "flush")>>)
        \/ Continue(t, <<>>)
    BY <1>2, <1>4, <2>1
  <2>4. CASE Continue(t, <<>>)
    BY <1>1, <2>2, <2>4, SameAud, QuietlyDone DEF Release, Done
  <2> QED
    BY <1>1, <1>4, <2>2, <2>3, <2>4, ScanMisses DEF hits
<1> QED
  BY <1>3, <1>4

-----------------------------------------------------------------------------
(* What the server sends.                                                    *)

LEMMA Arrives ==
  ASSUME NEW a \in Connections, NEW q \in Seq(Packets), NEW p \in Packets, Reading(a, q),
         executed \in Nat, posted \in Nat, taken \in Seq(Nat), executed' \in Nat, executed <= executed',
         p.seq = p.id % Wrap, p.id = executed',
         \/ posted' = posted /\ p.type # "event" /\ p.n = 0
         \/ posted' = posted + 1 /\ p.type = "event" /\ p.n = posted + 1,
         aud' = a, fromServer' = Append(q, p), taken' = taken, discarded' = discarded
  PROVE  Reading(aud, fromServer)'
<1>1. PICK w \in Seq(Packets), l \in Nat :
        /\ w = Append(q, p) /\ l = Len(q) /\ Len(w) = l + 1 /\ w[l + 1] = p
        /\ \A i \in 1 .. l : w[i] = q[i]
  <2>1. Append(q, p) \in Seq(Packets)
    OBVIOUS
  <2>2. /\ Len(Append(q, p)) = Len(q) + 1 /\ Append(q, p)[Len(q) + 1] = p /\ Len(q) \in Nat
        /\ \A i \in 1 .. Len(q) : Append(q, p)[i] = q[i]
    OBVIOUS
  <2> QED
    BY <2>1, <2>2
<1>2. \A i \in 1 .. l + 1 : i \in 1 .. l \/ i = l + 1
  OBVIOUS
<1>3. Numbered(a, q) /\ InOrder(a, q) /\ NoneLost(a, q)
  BY DEF Reading
<1>4. /\ posted' \in Nat /\ posted <= posted' /\ p.n <= posted' /\ p.n \in Nat
      /\ p.type = "event" <=> p.n # 0
      /\ p.n # 0 => p.n > posted
  BY DEF Packets
<1>5. /\ \A i \in 1 .. l : q[i] \in Packets
      /\ a.last_request_read \in Nat /\ a.queue \in Seq(Events)
  BY <1>1 DEF Connections
<1>6. \A i \in 1 .. l : q[i].n \in Nat /\ q[i].id \in Nat /\ q[i].seq \in Nat
  BY <1>5 DEF Packets
<1>7. /\ a.last_request_read <= executed
      /\ \A i \in 1 .. l : /\ q[i].seq = q[i].id % Wrap
                           /\ a.last_request_read <= q[i].id /\ q[i].id <= executed
                           /\ q[i].type = "event" <=> q[i].n # 0
                           /\ q[i].n <= posted
      /\ \A i, j \in 1 .. l : i <= j => q[i].id <= q[j].id
  BY <1>1, <1>3 DEF Numbered
<1>8. ASSUME NEW i \in 1 .. l + 1
      PROVE  /\ w[i].seq = w[i].id % Wrap
             /\ a.last_request_read <= w[i].id /\ w[i].id <= executed'
             /\ w[i].type = "event" <=> w[i].n # 0
             /\ w[i].n <= posted'
  <2>1. CASE i = l + 1
    BY <1>1, <1>4, <1>5, <1>7, <2>1
  <2>2. CASE i \in 1 .. l
    <3>1. w[i] = q[i]
      BY <1>1, <2>2
    <3>2. a.last_request_read <= q[i].id /\ q[i].id <= executed' /\ q[i].n <= posted'
      <4>1. PICK m \in Nat, n \in Nat, k \in Nat :
              /\ m = q[i].id /\ n = q[i].n /\ k = a.last_request_read
              /\ k <= m /\ m <= executed /\ n <= posted
        BY <1>5, <1>6, <1>7, <2>2
      <4>2. posted' \in Nat /\ posted <= posted'
        BY <1>4
      <4>3. m <= executed'
        BY <4>1
      <4>4. n <= posted'
        BY <4>1, <4>2
      <4> QED
        BY <4>1, <4>3, <4>4
    <3> QED
      BY <1>7, <2>2, <3>1, <3>2
  <2> QED
    BY <1>2, <2>1, <2>2
<1>9. ASSUME NEW i \in 1 .. l + 1, NEW j \in 1 .. l + 1, i <= j PROVE w[i].id <= w[j].id
  <2>1. CASE j \in 1 .. l
    <3>1. i \in 1 .. l
      BY <1>9, <2>1
    <3> QED
      BY <1>1, <1>7, <1>9, <2>1, <3>1
  <2>2. CASE j = l + 1
    BY <1>1, <1>8, <2>2
  <2> QED
    BY <1>2, <2>1, <2>2
<1>10. /\ aud' = a /\ fromServer' = w /\ taken' = taken /\ discarded' = discarded
       /\ \A i \in 1 .. Len(fromServer') : i \in 1 .. l + 1
  BY <1>1
<1>11. a.last_request_read <= executed'
  BY <1>5, <1>7
<1>12. Numbered(aud, fromServer)'
  BY <1>8, <1>9, <1>10, <1>11 DEF Numbered
<1>13. /\ \A i \in 1 .. Len(a.queue) : a.queue[i].serial = a.queue[i].id /\ a.queue[i].n \in 1 .. posted
       /\ \A i \in 1 .. Len(taken) : taken[i] \in 1 .. posted
       /\ \A i, j \in 1 .. Len(taken) : i < j /\ SameKind(taken[i], taken[j]) => taken[i] < taken[j]
       /\ \A i, j \in 1 .. Len(a.queue) : i < j => a.queue[i].n < a.queue[j].n
       /\ \A i, j \in 1 .. l : i < j /\ q[j].n # 0 => q[i].n < q[j].n
       /\ \A i \in 1 .. Len(taken), j \in 1 .. Len(a.queue) :
            SameKind(taken[i], a.queue[j].n) => taken[i] < a.queue[j].n
       /\ \A i \in 1 .. Len(taken), j \in 1 .. l : q[j].n # 0 => taken[i] < q[j].n
       /\ \A i \in 1 .. Len(a.queue), j \in 1 .. l : q[j].n # 0 => a.queue[i].n < q[j].n
  BY <1>1, <1>3 DEF InOrder
<1>14. \A m \in 1 .. posted : m \in 1 .. posted'
  BY <1>4
<1>15. ASSUME NEW i \in 1 .. l + 1, NEW j \in 1 .. l + 1, i < j, w[j].n # 0 PROVE w[i].n < w[j].n
  <2>1. i \in 1 .. l /\ w[i] = q[i]
    BY <1>1, <1>15
  <2>2. CASE j \in 1 .. l
    BY <1>1, <1>13, <1>15, <2>1, <2>2
  <2>3. CASE j = l + 1
    BY <1>1, <1>4, <1>6, <1>7, <1>15, <2>1, <2>3
  <2> QED
    BY <1>2, <2>2, <2>3
<1>16. ASSUME NEW m \in 1 .. posted, NEW j \in 1 .. l + 1, w[j].n # 0, j \in 1 .. l => m < q[j].n
       PROVE  m < w[j].n
  BY <1>1, <1>2, <1>4, <1>16
<1>17. /\ \A i \in 1 .. Len(taken), j \in 1 .. l + 1 : w[j].n # 0 => taken[i] < w[j].n
       /\ \A i \in 1 .. Len(a.queue), j \in 1 .. l + 1 : w[j].n # 0 => a.queue[i].n < w[j].n
  <2>1. ASSUME NEW i \in 1 .. Len(taken), NEW j \in 1 .. l + 1, w[j].n # 0 PROVE taken[i] < w[j].n
    <3>1. j \in 1 .. l => taken[i] < q[j].n
      BY <1>1, <1>13, <2>1
    <3> QED
      BY <1>13, <1>16, <2>1, <3>1
  <2>2. ASSUME NEW i \in 1 .. Len(a.queue), NEW j \in 1 .. l + 1, w[j].n # 0 PROVE a.queue[i].n < w[j].n
    <3>1. j \in 1 .. l => a.queue[i].n < q[j].n
      BY <1>1, <1>13, <2>2
    <3> QED
      BY <1>13, <1>16, <2>2, <3>1
  <2> QED
    BY <2>1, <2>2
<1>18. InOrder(aud, fromServer)'
  BY <1>10, <1>13, <1>14, <1>15, <1>17 DEF InOrder
<1>19. NoneLost(aud, fromServer)'
  <2>1. ASSUME NEW m \in 1 .. posted'
        PROVE  \/ m \in discarded
               \/ \E i \in 1 .. Len(taken) : taken[i] = m
               \/ \E i \in 1 .. Len(a.queue) : a.queue[i].n = m
               \/ \E i \in 1 .. l + 1 : w[i].n = m
    <3>1. CASE m \in 1 .. posted
      <4>1. \/ m \in discarded
            \/ \E i \in 1 .. Len(taken) : taken[i] = m
            \/ \E i \in 1 .. Len(a.queue) : a.queue[i].n = m
            \/ \E i \in 1 .. l : q[i].n = m
        BY <1>1, <1>3, <3>1 DEF NoneLost
      <4>2. ASSUME NEW i \in 1 .. l, q[i].n = m PROVE i \in 1 .. l + 1 /\ w[i].n = m
        BY <1>1, <4>2
      <4> QED
        BY <4>1, <4>2
    <3>2. CASE m \notin 1 .. posted
      <4>1. l + 1 \in 1 .. l + 1 /\ p.n = m
        BY <1>4, <3>2
      <4> QED
        BY <1>1, <4>1
    <3> QED
      BY <3>1, <3>2
  <2>2. discarded \subseteq 1 .. posted'
    BY <1>3, <1>14 DEF NoneLost
  <2>3. aud' = a /\ fromServer' = w /\ Len(w) = l + 1 /\ taken' = taken /\ discarded' = discarded
    BY <1>1, <1>10
  <2> QED
    BY <2>1, <2>2, <2>3 DEF NoneLost
<1> QED
  BY <1>12, <1>18, <1>19 DEF Reading

\* Nobody but the server has done anything.
LEMMA ServerKeeps ==
  ASSUME LibInv, UNCHANGED <<prog, aud, todo, lock>>, SentInv', Reading(aud, fromServer)',
         toServer' \in Seq(Made), fromServer' \in Seq(Packets), executed' \in Nat, posted' \in Nat,
         taken' \in Seq(Nat)
  PROVE  LibInv'
<1>1. aud' \in Connections /\ Grown(aud, aud')
  BY SameAud, Parts
<1>2. StackInv' /\ StepsInv' /\ todo' \in [Threads -> Seq(Steps)]
  BY <1>1, Parts, Stays
<1>3. Typed'
  BY <1>1, <1>2, Parts DEF Typed
<1> QED
  BY <1>2, <1>3 DEF LibInv

LEMMA PacketType ==
  ASSUME NEW type \in {"reply", "error", "event"}, NEW id \in Nat, NEW kind \in Words
  PROVE  /\ Packet(type, id, kind) \in Packets
         /\ Packet(type, id, kind).type = type /\ Packet(type, id, kind).seq = id % Wrap
         /\ Packet(type, id, kind).id = id /\ Packet(type, id, kind).n = 0
<1>1. PICK s \in Nat : s = id % Wrap
  <2>1. id % Wrap \in Nat
    BY WrapAssumption
  <2> QED
    BY <2>1
<1>2. PICK p \in Packets : /\ p = [type |-> type, seq |-> s, id |-> id, kind |-> kind, n |-> 0]
                           /\ p.type = type /\ p.seq = s /\ p.id = id /\ p.n = 0
  <2>1. PICK p : p = [type |-> type, seq |-> s, id |-> id, kind |-> kind, n |-> 0]
    OBVIOUS
  <2>2. p \in Packets
    BY <2>1 DEF Packets
  <2>3. p.type = type /\ p.seq = s /\ p.id = id /\ p.n = 0
    BY <2>1
  <2> QED
    BY <2>1, <2>2, <2>3
<1> QED
  BY <1>1, <1>2 DEF Packet

LEMMA ExecuteKeeps ==
  ASSUME LibInv, Execute
  PROVE  LibInv'
<1>1. PICK q \in Seq(Made), e \in Nat, a \in Connections, g \in Seq(Packets) :
        q = toServer /\ e = executed /\ a = aud /\ g = fromServer /\ q # <<>>
  BY Parts DEF Execute, Typed
<1>2. PICK r \in Made, u \in Seq(Made) : r = Head(q) /\ u = Tail(q)
  <2>1. Head(q) \in Made /\ Tail(q) \in Seq(Made)
    BY <1>1
  <2> QED
    BY <2>1
<1>3. /\ Head(q) = q[1] /\ 1 \in 1 .. Len(q) /\ Len(Tail(q)) = Len(q) - 1 /\ Len(q) \in Nat
      /\ \A i \in 1 .. Len(q) - 1 : Tail(q)[i] = q[i + 1]
  BY <1>1
<1>4. PICK s \in Seq(Made), n \in Nat, m \in Nat :
        /\ s = aud.buffer /\ n = aud.request /\ m = prog.room
        /\ n = e + Len(q) + Len(s) /\ Len(q) <= m
        /\ \A i \in 1 .. Len(q) : q[i].id = e + i
        /\ \A i \in 1 .. Len(s) : s[i].id = e + Len(q) + i
  BY <1>1, Parts DEF SentInv
<1>5. r.id = e + 1 /\ r.kind \in Words
  BY <1>2, <1>3, <1>4 DEF Made
<1>6. /\ executed' = e + 1 /\ toServer' = u
      /\ UNCHANGED <<prog, aud, todo, lock, posted, taken, discarded>>
  BY <1>1, <1>2, <1>5 DEF Execute, history
<1>7. SentInv'
  <2>1. /\ n = (e + 1) + Len(u) + Len(s) /\ Len(u) <= m
        /\ \A i \in 1 .. Len(s) : s[i].id = (e + 1) + Len(u) + i
    <3>1. PICK x \in Nat, y \in Nat, z \in Nat : x = Len(q) /\ y = Len(u) /\ z = Len(s) /\ y = x - 1
      <4>1. PICK x \in Nat : x = Len(q) /\ x >= 1
        BY <1>3
      <4>2. Len(u) = x - 1
        BY <1>2, <1>3, <4>1
      <4>3. Len(u) \in Nat /\ Len(s) \in Nat
        BY <1>2, <1>4
      <4> QED
        BY <4>1, <4>2, <4>3
    <3>2. n = (e + 1) + y + z /\ y <= m
      <4>1. n = e + x + z /\ x <= m
        BY <1>4, <3>1
      <4> QED
        BY ONLY <3>1, <4>1, n \in Nat, e \in Nat, x \in Nat, y \in Nat, z \in Nat, m \in Nat
    <3>3. ASSUME NEW i \in 1 .. z PROVE s[i].id = (e + 1) + y + i
      <4>1. s[i].id = e + x + i
        BY <1>4, <3>1
      <4>2. e + x + i = (e + 1) + y + i
        BY ONLY <3>1, e \in Nat, x \in Nat, y \in Nat, i \in Nat
      <4> QED
        BY <4>1, <4>2
    <3> QED
      BY <3>1, <3>2, <3>3
  <2>2. ASSUME NEW i \in 1 .. Len(u) PROVE u[i].id = (e + 1) + i
    <3>1. u[i] = q[i + 1] /\ i + 1 \in 1 .. Len(q)
      BY <1>2, <1>3
    <3>2. q[i + 1].id = e + (i + 1)
      BY <1>4, <3>1
    <3> QED
      BY <3>1, <3>2
  <2> QED
    BY <1>1, <1>4, <1>6, <2>1, <2>2 DEF SentInv
<1>8. \/ fromServer' = g \o <<Packet("error", r.id, r.kind)>>
      \/ fromServer' = g \o <<Packet("reply", r.id, r.kind)>>
      \/ fromServer' = g \o <<>>
  BY <1>1, <1>2 DEF Execute
<1>9. Reading(a, g) /\ executed \in Nat /\ posted \in Nat /\ taken \in Seq(Nat)
  BY <1>1, Parts DEF Typed
<1>10. executed' \in Nat /\ executed <= executed' /\ aud' = a /\ posted' = posted
  BY <1>1, <1>6
<1>11. ASSUME NEW type \in {"reply", "error"}, fromServer' = g \o <<Packet(type, r.id, r.kind)>>
       PROVE  Reading(aud, fromServer)' /\ fromServer' \in Seq(Packets)
  <2>1. PICK p \in Packets : /\ p = Packet(type, r.id, r.kind) /\ p.type = type /\ p.seq = p.id % Wrap
                             /\ p.id = executed' /\ p.n = 0
    <3>1. r.id \in Nat
      BY <1>5
    <3>2. /\ Packet(type, r.id, r.kind) \in Packets
          /\ Packet(type, r.id, r.kind).type = type /\ Packet(type, r.id, r.kind).seq = r.id % Wrap
          /\ Packet(type, r.id, r.kind).id = r.id /\ Packet(type, r.id, r.kind).n = 0
      BY <1>5, <3>1, PacketType
    <3> QED
      BY <1>5, <1>6, <3>2
  <2>2. g \o <<p>> = Append(g, p) /\ Append(g, p) \in Seq(Packets)
    OBVIOUS
  <2>3. fromServer' = Append(g, p) /\ p.type # "event"
    BY <1>11, <2>1, <2>2
  <2>4. Reading(aud, fromServer)'
    BY <1>6, <1>9, <1>10, <2>1, <2>3, Arrives
  <2> QED
    BY <2>2, <2>3, <2>4
<1>12. ASSUME fromServer' = g \o <<>>
       PROVE  Reading(aud, fromServer)' /\ fromServer' \in Seq(Packets)
  <2>1. fromServer' = g
    BY <1>12
  <2>2. Numbered(a, g) /\ InOrder(a, g) /\ NoneLost(a, g)
    BY <1>9 DEF Reading
  <2>3. Numbered(aud, fromServer)'
    <3>1. a.last_request_read \in Nat /\ \A i \in 1 .. Len(g) : g[i] \in Packets
      BY DEF Connections
    <3>2. \A i \in 1 .. Len(g) : g[i].id \in Nat
      BY <3>1 DEF Packets
    <3>3. a.last_request_read <= executed /\ \A i \in 1 .. Len(g) : g[i].id <= executed
      BY <2>2 DEF Numbered
    <3>4. a.last_request_read <= executed' /\ \A i \in 1 .. Len(g) : g[i].id <= executed'
      BY <1>9, <1>10, <3>1, <3>2, <3>3
    <3> QED
      BY <1>10, <2>1, <2>2, <3>4 DEF Numbered
  <2>4. InOrder(aud, fromServer)'
    BY <1>6, <1>10, <2>1, <2>2 DEF InOrder
  <2>5. NoneLost(aud, fromServer)'
    BY <1>6, <1>10, <2>1, <2>2 DEF NoneLost
  <2> QED
    BY <2>1, <2>3, <2>4, <2>5 DEF Reading
<1>13. Reading(aud, fromServer)' /\ fromServer' \in Seq(Packets)
  BY <1>8, <1>11, <1>12
<1> QED
  BY <1>6, <1>7, <1>9, <1>10, <1>13, ServerKeeps

LEMMA PostEventKeeps ==
  ASSUME LibInv, PostEvent
  PROVE  LibInv'
<1>1. /\ posted' = posted + 1 /\ UNCHANGED <<prog, aud, todo, lock, toServer, executed, taken, discarded>>
      /\ fromServer' = Append(fromServer, [Packet("event", executed, "event") EXCEPT !.n = posted + 1])
  BY DEF PostEvent, history
<1>2. PICK a \in Connections, g \in Seq(Packets), e \in Nat, k \in Nat :
        a = aud /\ g = fromServer /\ e = executed /\ k = posted + 1
  BY Parts DEF Typed
<1>3. PICK o \in Packets : /\ o = Packet("event", e, "event") /\ o.type = "event"
                           /\ o.seq = e % Wrap /\ o.id = e
  <2>1. PICK type \in {"reply", "error", "event"}, kind \in Words : type = "event" /\ kind = "event"
    BY DEF Words
  <2>2. /\ Packet(type, e, kind) \in Packets /\ Packet(type, e, kind).type = type
        /\ Packet(type, e, kind).seq = e % Wrap /\ Packet(type, e, kind).id = e
    BY PacketType
  <2> QED
    BY <2>1, <2>2
<1>4. PICK p \in Packets : /\ p = [o EXCEPT !.n = k] /\ p.type = "event" /\ p.seq = p.id % Wrap
                           /\ p.id = e /\ p.n = k
  <2>1. PICK p : p = [o EXCEPT !.n = k]
    OBVIOUS
  <2>2. p \in Packets /\ p.type = o.type /\ p.seq = o.seq /\ p.id = o.id /\ p.n = k
    BY <2>1 DEF Packets
  <2> QED
    BY <1>3, <2>1, <2>2
<1>5. fromServer' = Append(g, p)
  BY <1>1, <1>2, <1>3, <1>4
<1>6. Append(g, p) \in Seq(Packets)
  OBVIOUS
<1>7. /\ Reading(a, g) /\ executed \in Nat /\ posted \in Nat /\ taken \in Seq(Nat)
      /\ executed' \in Nat /\ executed <= executed' /\ p.id = executed' /\ toServer \in Seq(Made)
  BY <1>1, <1>2, <1>4, Parts DEF Typed
<1>8. Reading(aud, fromServer)'
  BY <1>1, <1>2, <1>4, <1>5, <1>7, Arrives
<1>9. SentInv'
  BY <1>1, SentKept
<1> QED
  BY <1>1, <1>2, <1>5, <1>6, <1>7, <1>8, <1>9, ServerKeeps

-----------------------------------------------------------------------------
(* The theorem.                                                              *)

LEMMA InitInv == Init => LibInv
<1> SUFFICES ASSUME Init PROVE LibInv
  OBVIOUS
<1>1. /\ prog \in Programs /\ todo = [t \in Threads |-> <<>>] /\ toServer = <<>> /\ fromServer = <<>>
      /\ executed = 0 /\ posted = 0 /\ taken = <<>> /\ discarded = {} /\ lock = NoThread
      /\ aud = [buffer |-> <<>>, request |-> 0, last_request_read |-> 0, queue |-> <<>>,
                async_handlers |-> {}, errors |-> {}, dropped |-> {}]
  BY DEF Init
<1>2. /\ <<>> \in Seq(Made) /\ <<>> \in Seq(Events) /\ <<>> \in Seq(Steps) /\ <<>> \in Seq(Packets)
      /\ <<>> \in Seq(Nat) /\ Len(<<>>) = 0
  OBVIOUS
<1>3. /\ aud \in Connections /\ aud.buffer = <<>> /\ aud.queue = <<>> /\ aud.request = 0
      /\ aud.last_request_read = 0
  <2>1. aud \in Connections
    BY <1>1, <1>2 DEF Connections
  <2> QED
    BY <1>1, <2>1
<1>4. Typed
  BY <1>1, <1>2, <1>3 DEF Typed
<1>5. prog.room \in Nat
  BY <1>1, LibraryAssumption
<1>6. \A t \in Threads : todo[t] = <<>> /\ Len(todo[t]) = 0
  BY <1>1, <1>2
<1>7. Fits(<<>>) /\ ~HeldAt(<<>>, 1) /\ Alone(<<>>)
  BY <1>2 DEF Fits, HeldAt, Alone
<1>8. StackInv /\ StepsInv
  BY <1>6, <1>7 DEF StackInv, StepsInv
<1>9. SentInv
  BY <1>1, <1>2, <1>3, <1>5 DEF SentInv
<1>10. Reading(aud, fromServer)
  BY <1>1, <1>2, <1>3 DEF Reading, Numbered, InOrder, NoneLost
<1> QED
  BY <1>4, <1>8, <1>9, <1>10 DEF LibInv

LEMMA Idle ==
  ASSUME LibInv, UNCHANGED vars
  PROVE  LibInv'
<1>1. /\ UNCHANGED <<prog, aud, todo, lock>>
      /\ UNCHANGED <<toServer, fromServer, executed, posted, taken, discarded>>
  BY DEF vars, serverVars, history
<1>2. StackInv' /\ StepsInv' /\ todo' \in [Threads -> Seq(Steps)]
  BY <1>1, SameAud, Parts, Stays
<1> QED
  BY <1>1, <1>2, SameAud, ControlOnly

LEMMA ThreadKeeps ==
  ASSUME LibInv, HeardInTime, HeardInTime', ~astray', NEW t \in Threads, ThreadStep(t)
  PROVE  LibInv'
<1>1. CASE Callback(t) /\ prog' = prog
  BY <1>1, CallbackKeeps
<1>2. CASE prog' = prog /\ (Put(t) \/ Flush(t) \/ WaitForWritable(t) \/ RoundTrip(t) \/ DequeueHandler(t)
                             \/ Reply(t) \/ Await(t) \/ ReadOn(t) \/ Discard(t))
  BY <1>2, PutKeeps, FlushKeeps, WaitKeeps, RoundTripKeeps, DequeueKeeps, ReplyKeeps, AwaitKeeps,
     ReadOnKeeps, DiscardKeeps
<1>3. CASE prog' = prog /\ (NextEvent(t) \/ Take(t) \/ ReadEvents(t) \/ Flushed(t) \/ Block(t) \/ More(t)
                             \/ Scan(t) \/ Gather(t) \/ Poll(t))
  BY <1>3, NextEventKeeps, TakeKeeps, ReadEventsKeeps, FlushedKeeps, BlockKeeps, MoreKeeps, ScanKeeps, GatherKeeps
<1>4. CASE prog' = prog /\ (HandleEvents(t) \/ Dispatch(t) \/ Lock(t) \/ Unlock(t) \/ RevLock(t)
                             \/ SyncHandle(t) \/ WorkDone(t))
  BY <1>4, HandleEventsKeeps, DispatchKeeps, LockKeeps, OtherStepsKeep
<1> QED
  BY <1>1, <1>2, <1>3, <1>4 DEF ThreadStep

\* Until packets have been taken for the data of a reply: what has gone astray stays so.
InStep == astray \/ LibInv

LEMMA AstrayForGood ==
  ASSUME [Next]_vars, ~astray'
  PROVE  ~astray
<1>1. CASE Execute \/ PostEvent
  BY <1>1 DEF Execute, PostEvent, history
<1>2. ASSUME NEW t \in Threads, ThreadStep(t) PROVE ~astray
  <2>1. CASE Put(t) \/ Flush(t) \/ WaitForWritable(t) \/ RoundTrip(t) \/ DequeueHandler(t) \/ Reply(t)
    BY <2>1 DEF Put, Flush, WaitForWritable, RoundTrip, DequeueHandler, Reply, history
  <2>2. CASE Await(t)
    BY <2>2 DEF Await
  <2>3. CASE ReadOn(t) \/ Discard(t) \/ NextEvent(t) \/ Take(t) \/ ReadEvents(t) \/ Flushed(t) \/ Block(t)
    BY <2>3 DEF ReadOn, Discard, NextEvent, Take, ReadEvents, Flushed, Block, history
  <2>4. CASE More(t) \/ Scan(t) \/ Gather(t) \/ Poll(t) \/ HandleEvents(t) \/ Dispatch(t)
    BY <2>4 DEF More, Scan, Gather, Poll, HandleEvents, Dispatch, history
  <2>5. CASE Lock(t) \/ Unlock(t) \/ RevLock(t) \/ SyncHandle(t) \/ WorkDone(t) \/ Callback(t)
    BY <2>5 DEF Lock, Unlock, RevLock, SyncHandle, WorkDone, Callback, history
  <2> QED
    BY <1>2, <2>1, <2>2, <2>3, <2>4, <2>5 DEF ThreadStep
<1>3. ASSUME NEW t \in Threads, XtLoop(t) PROVE ~astray
  BY <1>3 DEF XtLoop, history
<1>4. ASSUME NEW t \in Threads, NEW call \in Calls, Start(t, call) PROVE ~astray
  BY <1>4 DEF Start, history
<1>5. CASE UNCHANGED vars
  BY <1>5 DEF vars, history
<1> QED
  BY <1>1, <1>2, <1>3, <1>4, <1>5 DEF Next

LEMMA NextInv == InStep /\ HeardInTime /\ HeardInTime' /\ [Next]_vars => InStep'
<1> SUFFICES ASSUME InStep, HeardInTime, HeardInTime', [Next]_vars, ~astray' PROVE LibInv'
  BY DEF InStep
<1> LibInv
  BY AstrayForGood DEF InStep
<1>1. CASE Execute \/ PostEvent
  BY <1>1, ExecuteKeeps, PostEventKeeps
<1>2. ASSUME NEW t \in Threads, ThreadStep(t) \/ XtLoop(t) PROVE LibInv'
  BY <1>2, ThreadKeeps, XtLoopKeeps
<1>3. ASSUME NEW t \in Threads, NEW call \in Calls, Start(t, call) PROVE LibInv'
  BY <1>3, StartKeeps
<1>4. CASE UNCHANGED vars
  BY <1>4, Idle
<1> QED
  BY <1>1, <1>2, <1>3, <1>4 DEF Next

\* The numbers in three sequences, one after the other.
LEMMA Streams ==
  ASSUME NEW u \in Seq(Nat), NEW v \in Seq(Nat), NEW w \in Seq(Nat)
  PROVE  /\ u \o v \o w \in Seq(Nat) /\ Len(u) \in Nat /\ Len(v) \in Nat /\ Len(w) \in Nat
         /\ Len(u \o v \o w) = Len(u) + Len(v) + Len(w)
         /\ \A i \in 1 .. Len(u) : (u \o v \o w)[i] = u[i]
         /\ \A i \in 1 .. Len(v) : (u \o v \o w)[Len(u) + i] = v[i]
         /\ \A i \in 1 .. Len(w) : (u \o v \o w)[Len(u) + Len(v) + i] = w[i]
<1>1. /\ u \o v \in Seq(Nat) /\ Len(u \o v) = Len(u) + Len(v) /\ Len(u) \in Nat /\ Len(v) \in Nat
      /\ \A i \in 1 .. Len(u) : (u \o v)[i] = u[i]
      /\ \A i \in 1 .. Len(v) : (u \o v)[Len(u) + i] = v[i]
  BY JoinedSteps
<1>2. PICK x \in Seq(Nat), m \in Nat, n \in Nat : x = u \o v /\ m = Len(u) /\ n = Len(v) /\ Len(x) = m + n
  BY <1>1
<1>3. /\ x \o w \in Seq(Nat) /\ Len(x \o w) = Len(x) + Len(w) /\ Len(w) \in Nat
      /\ \A i \in 1 .. Len(x) : (x \o w)[i] = x[i]
      /\ \A i \in 1 .. Len(w) : (x \o w)[Len(x) + i] = w[i]
  BY JoinedSteps
<1>4. ASSUME NEW i \in 1 .. m PROVE (x \o w)[i] = u[i]
  BY <1>1, <1>2, <1>3
<1>5. ASSUME NEW i \in 1 .. n PROVE (x \o w)[m + i] = v[i]
  <2>1. m + i \in 1 .. Len(x)
    BY <1>2
  <2> QED
    BY <1>1, <1>2, <1>3, <2>1
<1>6. Len(x \o w) = m + n + Len(w) /\ \A i \in 1 .. Len(w) : (x \o w)[m + n + i] = w[i]
  BY <1>2, <1>3
<1> QED
  BY <1>2, <1>3, <1>4, <1>5, <1>6

\* Where a number of the stream stands.
LEMMA Place ==
  ASSUME NEW l \in Nat, NEW m \in Nat, NEW n \in Nat, NEW i \in 1 .. l + m + n
  PROVE  \/ i \in 1 .. l
         \/ \E k \in 1 .. m : i = l + k
         \/ \E k \in 1 .. n : i = l + m + k
<1>1. CASE i \in l + 1 .. l + m
  <2>1. i - l \in 1 .. m /\ i = l + (i - l)
    BY <1>1
  <2> QED
    BY <2>1
<1>2. CASE i \in l + m + 1 .. l + m + n
  <2>1. i - (l + m) \in 1 .. n /\ i = l + m + (i - (l + m))
    BY <1>2
  <2> QED
    BY <2>1
<1>3. i \in 1 .. l \/ i \in l + 1 .. l + m \/ i \in l + m + 1 .. l + m + n
  OBVIOUS
<1> QED
  BY <1>1, <1>2, <1>3

LEMMA InvGivesOrder == InStep => EventsInOrder
<1> SUFFICES ASSUME LibInv PROVE EventsInOrder
  BY DEF InStep, EventsInOrder
<1>1. PICK q \in Seq(Events), g \in Seq(Packets), u \in Seq(Nat), k \in Nat :
        q = aud.queue /\ g = fromServer /\ u = taken /\ k = posted
  BY Parts DEF Typed
<1>2. PICK v \in Seq(Nat) : /\ v = [i \in DOMAIN q |-> q[i].n] /\ Len(v) = Len(q)
                            /\ \A i \in 1 .. Len(q) : v[i] = q[i].n
  <2>1. DOMAIN q = 1 .. Len(q) /\ Len(q) \in Nat /\ \A i \in 1 .. Len(q) : q[i] \in Events
    OBVIOUS
  <2>2. \A i \in 1 .. Len(q) : q[i].n \in Nat
    BY <2>1 DEF Events
  <2>3. [i \in 1 .. Len(q) |-> q[i].n] \in Seq(Nat) /\ Len([i \in 1 .. Len(q) |-> q[i].n]) = Len(q)
    BY <2>1, <2>2
  <2> QED
    BY <2>1, <2>3
<1>3. PICK w \in Seq(Nat) : /\ w = [i \in DOMAIN g |-> g[i].n] /\ Len(w) = Len(g)
                            /\ \A i \in 1 .. Len(g) : w[i] = g[i].n
  <2>1. DOMAIN g = 1 .. Len(g) /\ Len(g) \in Nat /\ \A i \in 1 .. Len(g) : g[i] \in Packets
    OBVIOUS
  <2>2. \A i \in 1 .. Len(g) : g[i].n \in Nat
    BY <2>1 DEF Packets
  <2>3. [i \in 1 .. Len(g) |-> g[i].n] \in Seq(Nat) /\ Len([i \in 1 .. Len(g) |-> g[i].n]) = Len(g)
    BY <2>1, <2>2
  <2> QED
    BY <2>1, <2>3
<1>4. PICK l \in Nat, m \in Nat, n \in Nat : l = Len(u) /\ m = Len(v) /\ n = Len(w)
  OBVIOUS
<1>5. PICK s \in Seq(Nat) : /\ s = u \o v \o w /\ Len(s) = l + m + n /\ DOMAIN s = 1 .. l + m + n
                            /\ \A i \in 1 .. l : s[i] = u[i]
                            /\ \A i \in 1 .. m : s[l + i] = v[i]
                            /\ \A i \in 1 .. n : s[l + m + i] = w[i]
  <2>1. /\ u \o v \o w \in Seq(Nat) /\ Len(u \o v \o w) = Len(u) + Len(v) + Len(w)
        /\ \A i \in 1 .. Len(u) : (u \o v \o w)[i] = u[i]
        /\ \A i \in 1 .. Len(v) : (u \o v \o w)[Len(u) + i] = v[i]
        /\ \A i \in 1 .. Len(w) : (u \o v \o w)[Len(u) + Len(v) + i] = w[i]
    BY Streams
  <2>2. PICK s \in Seq(Nat) : /\ s = u \o v \o w /\ Len(s) = Len(u) + Len(v) + Len(w)
                              /\ \A i \in 1 .. Len(u) : s[i] = u[i]
                              /\ \A i \in 1 .. Len(v) : s[Len(u) + i] = v[i]
                              /\ \A i \in 1 .. Len(w) : s[Len(u) + Len(v) + i] = w[i]
    BY ONLY <2>1
  <2>3. DOMAIN s = 1 .. Len(s)
    OBVIOUS
  <2> QED
    BY <1>4, <2>1, <2>2, <2>3
<1>6. /\ \A i \in 1 .. m : q[i].serial = q[i].id /\ v[i] \in 1 .. k
      /\ \A i \in 1 .. l : u[i] \in 1 .. k
      /\ \A i, j \in 1 .. l : i < j /\ SameKind(u[i], u[j]) => u[i] < u[j]
      /\ \A i, j \in 1 .. m : i < j => v[i] < v[j]
      /\ \A i, j \in 1 .. n : i < j /\ w[j] # 0 => w[i] < w[j]
      /\ \A i \in 1 .. l, j \in 1 .. m : SameKind(u[i], v[j]) => u[i] < v[j]
      /\ \A i \in 1 .. l, j \in 1 .. n : w[j] # 0 => u[i] < w[j]
      /\ \A i \in 1 .. m, j \in 1 .. n : w[j] # 0 => v[i] < w[j]
  <2>1. PICK a \in Connections : a = aud /\ a.queue = q /\ InOrder(a, g)
    BY <1>1, Parts DEF Reading
  <2>2. /\ \A i \in 1 .. Len(q) : q[i].serial = q[i].id /\ q[i].n \in 1 .. k
        /\ \A i \in 1 .. Len(u) : u[i] \in 1 .. k
        /\ \A i, j \in 1 .. Len(u) : i < j /\ SameKind(u[i], u[j]) => u[i] < u[j]
        /\ \A i, j \in 1 .. Len(q) : i < j => q[i].n < q[j].n
        /\ \A i, j \in 1 .. Len(g) : i < j /\ g[j].n # 0 => g[i].n < g[j].n
        /\ \A i \in 1 .. Len(u), j \in 1 .. Len(q) : SameKind(u[i], q[j].n) => u[i] < q[j].n
        /\ \A i \in 1 .. Len(u), j \in 1 .. Len(g) : g[j].n # 0 => u[i] < g[j].n
        /\ \A i \in 1 .. Len(q), j \in 1 .. Len(g) : g[j].n # 0 => q[i].n < g[j].n
    BY <1>1, <2>1 DEF InOrder
  <2>3. Len(q) = m /\ Len(g) = n /\ Len(u) = l
    BY <1>2, <1>3, <1>4
  <2>4. (\A i \in 1 .. m : q[i].n = v[i]) /\ (\A i \in 1 .. n : g[i].n = w[i])
    BY <1>2, <1>3, <2>3
  <2> QED
    BY <2>2, <2>3, <2>4
<1>7. /\ discarded \subseteq 1 .. k
      /\ \A x \in 1 .. k : \/ x \in discarded
                           \/ \E i \in 1 .. l : u[i] = x
                           \/ \E i \in 1 .. m : v[i] = x
                           \/ \E i \in 1 .. n : w[i] = x
  <2>1. PICK a \in Connections : a = aud /\ a.queue = q /\ NoneLost(a, g)
    BY <1>1, Parts DEF Reading
  <2>2. discarded \subseteq 1 .. k
    BY <1>1, <2>1 DEF NoneLost
  <2>3. Len(q) = m /\ Len(g) = n /\ Len(u) = l
    BY <1>2, <1>3, <1>4
  <2>4. (\A i \in 1 .. m : q[i].n = v[i]) /\ (\A i \in 1 .. n : g[i].n = w[i])
    BY <1>2, <1>3, <2>3
  <2>5. ASSUME NEW x \in 1 .. k
        PROVE  \/ x \in discarded
               \/ \E i \in 1 .. l : u[i] = x
               \/ \E i \in 1 .. m : v[i] = x
               \/ \E i \in 1 .. n : w[i] = x
    <3>1. \/ x \in discarded
          \/ \E i \in 1 .. Len(u) : u[i] = x
          \/ \E i \in 1 .. Len(q) : q[i].n = x
          \/ \E i \in 1 .. Len(g) : g[i].n = x
      BY <1>1, <2>1 DEF NoneLost
    <3> QED
      BY <2>3, <2>4, <3>1
  <2> QED
    BY <2>2, <2>5
<1>8. \A i \in 1 .. n : w[i] <= k /\ w[i] \in Nat
  <2>1. \A i \in 1 .. n : w[i] <= k
    BY <1>1, <1>3, <1>4, Parts DEF Reading, Numbered
  <2> QED
    BY <1>4, <2>1
<1>9. ASSUME NEW i \in 1 .. l + m + n
      PROVE  \/ i \in 1 .. l
             \/ \E x \in 1 .. m : i = l + x
             \/ \E x \in 1 .. n : i = l + m + x
  BY Place
<1>10. ASSUME NEW i \in 1 .. l + m + n, NEW j \in 1 .. l + m + n, i < j, s[j] # 0, SameKind(s[i], s[j])
       PROVE  s[i] < s[j]
  <2>1. CASE j \in 1 .. l
    <3>1. i \in 1 .. l
      BY <1>10, <2>1
    <3> QED
      BY <1>5, <1>6, <1>10, <2>1, <3>1
  <2>2. ASSUME NEW y \in 1 .. m, j = l + y PROVE s[i] < s[j]
    <3>1. s[j] = v[y]
      BY <1>5, <2>2
    <3>2. CASE i \in 1 .. l
      BY <1>5, <1>6, <1>10, <3>1, <3>2
    <3>3. ASSUME NEW x \in 1 .. m, i = l + x PROVE s[i] < s[j]
      <4>1. x < y /\ s[i] = v[x]
        BY <1>5, <1>10, <2>2, <3>3
      <4> QED
        BY <1>6, <3>1, <4>1
    <3>4. ASSUME NEW x \in 1 .. n, i = l + m + x PROVE FALSE
      BY <1>10, <2>2, <3>4
    <3> QED
      BY <1>9, <3>2, <3>3, <3>4
  <2>3. ASSUME NEW y \in 1 .. n, j = l + m + y PROVE s[i] < s[j]
    <3>1. s[j] = w[y] /\ w[y] # 0
      BY <1>5, <1>10, <2>3
    <3>2. CASE i \in 1 .. l
      BY <1>5, <1>6, <3>1, <3>2
    <3>3. ASSUME NEW x \in 1 .. m, i = l + x PROVE s[i] < s[j]
      <4>1. s[i] = v[x]
        BY <1>5, <3>3
      <4> QED
        BY <1>6, <3>1, <4>1
    <3>4. ASSUME NEW x \in 1 .. n, i = l + m + x PROVE s[i] < s[j]
      <4>1. x < y /\ s[i] = w[x]
        BY <1>5, <1>10, <2>3, <3>4
      <4> QED
        BY <1>6, <3>1, <4>1
    <3> QED
      BY <1>9, <3>2, <3>3, <3>4
  <2> QED
    BY <1>9, <2>1, <2>2, <2>3
<1>11. (ToSet(s) \ {0}) \cup discarded = 1 .. k
  <2>1. ToSet(s) = {s[i] : i \in 1 .. l + m + n}
    BY <1>5 DEF ToSet
  <2>2. ASSUME NEW i \in 1 .. l + m + n, s[i] # 0 PROVE s[i] \in 1 .. k
    <3>1. CASE i \in 1 .. l
      BY <1>5, <1>6, <3>1
    <3>2. ASSUME NEW x \in 1 .. m, i = l + x PROVE s[i] \in 1 .. k
      BY <1>5, <1>6, <3>2
    <3>3. ASSUME NEW x \in 1 .. n, i = l + m + x PROVE s[i] \in 1 .. k
      <4>1. s[i] = w[x] /\ w[x] # 0
        BY <1>5, <2>2, <3>3
      <4> QED
        BY <1>8, <4>1
    <3> QED
      BY <1>9, <3>1, <3>2, <3>3
  <2>3. ASSUME NEW x \in 1 .. k, x \notin discarded PROVE \E i \in 1 .. l + m + n : s[i] = x
    <3>1. ASSUME NEW i \in 1 .. l, u[i] = x PROVE i \in 1 .. l + m + n /\ s[i] = x
      <4>1. i \in 1 .. l + m + n
        OBVIOUS
      <4> QED
        BY <1>5, <3>1, <4>1
    <3>2. ASSUME NEW i \in 1 .. m, v[i] = x PROVE l + i \in 1 .. l + m + n /\ s[l + i] = x
      <4>1. l + i \in 1 .. l + m + n
        OBVIOUS
      <4> QED
        BY <1>5, <3>2, <4>1
    <3>3. ASSUME NEW i \in 1 .. n, w[i] = x PROVE l + m + i \in 1 .. l + m + n /\ s[l + m + i] = x
      <4>1. l + m + i \in 1 .. l + m + n
        OBVIOUS
      <4> QED
        BY <1>5, <3>3, <4>1
    <3> QED
      BY <1>7, <2>3, <3>1, <3>2, <3>3
  <2>4. ToSet(s) \ {0} \subseteq 1 .. k
    BY <2>1, <2>2
  <2>5. 1 .. k \subseteq (ToSet(s) \ {0}) \cup discarded
    <3>1. \A x \in 1 .. k : x # 0
      OBVIOUS
    <3> QED
      BY <2>1, <2>3, <3>1
  <2>6. discarded \subseteq 1 .. k
    BY <1>7
  <2> QED
    BY ONLY <2>4, <2>5, <2>6
<1>12. \A i \in DOMAIN q : q[i].serial = q[i].id
  <2>1. DOMAIN q = 1 .. Len(q)
    OBVIOUS
  <2>2. Len(q) = m
    BY <1>2, <1>4
  <2> QED
    BY <1>6, <2>1, <2>2
<1>13. \A i, j \in DOMAIN s : i < j /\ s[j] # 0 /\ s[i] % 2 = s[j] % 2 => s[i] < s[j]
  BY <1>5, <1>10 DEF SameKind
<1>14. /\ s = taken \o [i \in DOMAIN aud.queue |-> aud.queue[i].n]
              \o [i \in DOMAIN fromServer |-> fromServer[i].n]
       /\ aud.queue = q /\ posted = k
  BY <1>1, <1>2, <1>3, <1>5
<1> QED
  BY <1>11, <1>12, <1>13, <1>14 DEF EventsInOrder

\* AuNextEvent reads the connection without the lock of the server: a thread
\* that waits for events so, or an Xt main loop, has the connection for itself.
OneReader ==
    \A p \in Programs : \A t, u \in Threads :
      /\ p.calls[t] \cap {"next", "handle"} # {} \/ (p.xt /\ p.calls[t] # {})
      /\ p.calls[u] # {}
      => t = u

LEMMA OrderKept == Spec /\ []HeardInTime => []EventsInOrder
<1>1. Init => InStep
  BY InitInv DEF InStep
<1> QED
  BY <1>1, NextInv, InvGivesOrder, PTL DEF Spec

(* In every program, with any buffer and socket, and threads of which one    *)
(* reads events without the lock only if it is alone: until a call reads on  *)
(* after its error, the program gets the events in the order in which they   *)
(* were posted, and each of them that was not thrown away, however calls     *)
(* that wait for a reply, for an event or for one that matches read them     *)
(* (_AuEnq, _AuReadEvents, AuScanEvents).  That holds as long as the library *)
(* hears from the server before it has made Wrap more requests, and          *)
(* LibraryPrograms checks that its bounds see to it.                         *)
THEOREM EventsStayInOrder == OneReader => (Spec /\ []HeardInTime => []EventsInOrder)
  BY OrderKept
=============================================================================

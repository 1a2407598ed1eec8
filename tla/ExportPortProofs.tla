-------------------------- MODULE ExportPortProofs --------------------------
(* ExportPort for every size of the port, the chunk and the recording, as    *)
(* long as the port never overruns and everything is an even number of bytes: *)
(* the client receives the recording in order, and if it asked for whole      *)
(* chunks, all that it asked for.                                             *)
EXTENDS ExportPort, SequenceTheorems, TLAPS

Even(x) == x % 2 = 0

\* What was written after the Stop event, when the device had reached its end.
Late == IF count > total THEN Chunk ELSE 0

\* The hypotheses of the theorems: without the first two the README's overrun
\* and its odd reply come about; the third says that MaxEvents bounds nothing.
Undisturbed == /\ InTime = TRUE
               /\ Even(DataSize) /\ Even(Chunk)
               /\ DataSize + 4 <= MaxEvents

-----------------------------------------------------------------------------
(* The inductive invariant.  Bytes are numbered as they are recorded: the    *)
(* port holds those from Base + 1 to count.                                  *)
Base == count - currentSize

Typed == /\ data \in [0 .. DataSize - 1 -> Nat]
         /\ read \in 0 .. DataSize - 1 /\ write \in 0 .. DataSize - 1
         /\ currentSize \in Nat /\ outgoing \in 0 .. Word - 1
         /\ events \in Seq(Events)
         /\ total \in Totals /\ count \in Nat /\ count <= total + Chunk
         /\ pc \in {"idle", "copy", "commit", "restart"}
         /\ n \in 0 .. DataSize /\ p \in 0 .. DataSize - 1
         /\ received \in Nat

Flags == waiting \in BOOLEAN /\ handling \in BOOLEAN

\* Before the Start request is served.
Fresh ==
    /\ state = "Stop" /\ handling /\ ~waiting /\ pc = "idle"
    /\ events = <<>> /\ count = 0 /\ received = 0
    /\ read = 0 /\ write = 0 /\ currentSize = 0
    /\ toServer \in {<<StateRequest("Start")>>, <<StateRequest("Start"), StateRequest("Stop")>>}

\* The ring holds the last currentSize bytes that were recorded.
RingHoldsRecording ==
    /\ currentSize <= DataSize /\ currentSize <= count
    /\ write = Wrap(read + currentSize)
    /\ \A i \in 0 .. currentSize - 1 : data[Wrap(read + i)] = Base + 1 + i

\* The client has asked for so many bytes and not been answered yet.
Reading(asked) ==
    /\ toServer \in IF pc = "idle" /\ waiting
                    THEN {<<ReadRequest(asked)>>, <<ReadRequest(asked), StateRequest("Stop")>>,
                          <<StateRequest("Stop"), ReadRequest(asked)>>}
                    ELSE {<<>>, <<StateRequest("Stop")>>}
    /\ pc # "idle" => waiting
    /\ (pc = "idle" /\ ~waiting) \/ pc = "restart" => asked = 0
    /\ pc \in {"copy", "commit"} => n = asked
    /\ pc = "commit" => p = Wrap(read + n)
    /\ received = Base + (IF pc = "commit" THEN n ELSE 0)

\* pos[k] is the number of the last byte that is announced by event k: events
\* announce the bytes from the number from to the number to, in order.
Positions(evs, pos, from, to) ==
    /\ pos \in [0 .. Len(evs) -> Nat]
    /\ pos[0] = from /\ pos[Len(evs)] = to
    /\ \A k \in 1 .. Len(evs) : evs[k].numBytes = pos[k] - pos[k - 1]
    /\ \A j, k \in 0 .. Len(evs) : j <= k => pos[j] <= pos[k]
    /\ \A k \in 0 .. Len(evs) : Even(pos[k])

\* The first m events announce at least a byte each.
Distinct(pos, m) == \A j, k \in 0 .. m : j <= k => k - j <= pos[k] - pos[j]

Running(evs, pos) ==
    /\ \A k \in 1 .. Len(evs) : evs[k].state = "Start"
    /\ Distinct(pos, Len(evs))

\* Event s says that the flow stopped, with the number that was reached.
StoppedAt(evs, pos, last, s) ==
    /\ \A k \in 1 .. s - 1 : evs[k].state = "Start"
    /\ evs[s].state = "Stop" /\ pos[s] = last
    /\ Distinct(pos, s - 1) /\ Len(evs) <= s + 1

Stopped(evs, pos, last) == \E s \in 1 .. Len(evs) : StoppedAt(evs, pos, last, s)

Phase(pos) ==
    \/ /\ state = "Start" /\ handling /\ Late = 0 /\ count <= total
       /\ Running(events, pos)
    \/ /\ state = "Stop" /\ handling
       /\ Stopped(events, pos, count - Late)
    \/ /\ state = "Stop" /\ ~handling
       /\ pos[0] = count - Late /\ Len(events) <= 1

Recording(asked, pos) ==
    /\ outgoing <= currentSize /\ Even(currentSize) /\ Even(read) /\ Even(count)
    /\ Positions(events, pos, Base + asked, Base + outgoing)
    /\ Phase(pos)

Started == /\ RingHoldsRecording
           /\ \E asked \in Nat : /\ Reading(asked)
                                 /\ \E pos \in [0 .. Len(events) -> Nat] : Recording(asked, pos)

IInv == Typed /\ Flags /\ intact /\ (Fresh \/ Started)

-----------------------------------------------------------------------------
LEMMA Sizes ==
  /\ DataSize \in Nat /\ DataSize >= 1 /\ Chunk \in Nat /\ 1 <= Chunk /\ Chunk <= DataSize
  /\ HighWater \in Nat /\ Word \in Nat /\ 2 * DataSize < Word
BY ExportAssumption

LEMMA SmallMod == ASSUME NEW a \in Nat, a < Word PROVE a % Word = a
BY Sizes

LEMMA EvenSum ==
  ASSUME NEW a \in Int, NEW b \in Int, Even(a), Even(b)
  PROVE  Even(a + b) /\ Even(a - b)
BY DEF Even

\* A reply is as long as it says, and the pointer ends up behind it.
LEMMA SplitAddsUp ==
  ASSUME Even(DataSize), NEW from \in 0 .. DataSize - 1, Even(from),
         NEW size \in 0 .. DataSize, Even(size)
  PROVE  Written(from, size) = size /\ Advance(from, size) = Wrap(from + size)
<1> DEFINE left == DataSize - from
           odd == left % 4
           rest == size - (left - odd)
           top == Least(rest, 4 - odd)
<1>1. CASE from + size <= DataSize
  <2>1. Written(from, size) = size
    BY <1>1 DEF Written, Split
  <2> QED
    BY <1>1, <2>1 DEF Advance
<1>2. CASE ~(from + size <= DataSize)
  <2>1. /\ left \in Nat /\ size >= left + 1 /\ Even(left) /\ odd \in {0, 2}
    BY <1>2, Sizes DEF Even
  <2>2. CASE odd = 0
    <3>1. Written(from, size) = left + 0 + (size - left)
      BY <1>2, <2>2 DEF Written, Split
    <3>2. Written(from, size) = size
      BY <2>1, <3>1
    <3> QED
      BY <1>2, <3>2, SmallMod, Sizes DEF Advance, Wrap
  <2>3. CASE odd # 0
    <3>1. odd = 2 /\ size >= left + 2
      BY <1>2, <2>1, <2>3, Sizes DEF Even
    <3>2. rest \in Nat /\ rest >= 4 /\ top = 2
      BY <2>1, <3>1, Sizes DEF Least
    <3>3. (rest - (odd + top)) % Word = rest - (odd + top)
      BY <2>1, <3>1, <3>2, SmallMod, Sizes
    <3>4. Written(from, size) = (left - odd) + (odd + top) + (rest - (odd + top))
      BY <1>2, <2>3, <3>3 DEF Written, Split
    <3>5. Written(from, size) = size
      BY <2>1, <3>1, <3>2, <3>4
    <3> QED
      BY <1>2, <3>5, SmallMod, Sizes DEF Advance, Wrap
  <2> QED
    BY <2>2, <2>3
<1> QED
  BY <1>1, <1>2

\* An interrupt that has room puts its bytes behind those that are there.
LEMMA PassesFit ==
  ASSUME write \in 0 .. DataSize - 1, currentSize \in Nat, currentSize + Chunk <= DataSize
  PROVE  /\ Free(currentSize) = DataSize - currentSize
         /\ Passes.first = Least(DataSize - write, Chunk)
         /\ Passes.second = Chunk - Passes.first
         /\ Passes.second > 0 => Passes.from = 0 /\ Passes.first = DataSize - write
         /\ Passes.from + Passes.second = Wrap(write + Chunk)
         /\ Passes.first \in Nat /\ Passes.second \in Nat /\ Passes.from \in Nat
<1>1. Free(currentSize) = DataSize - currentSize
  BY SmallMod, Sizes DEF Free
<1> DEFINE pass1 == Least(DataSize - write, Free(currentSize))
           first == Least(pass1, Chunk)
           from == IF write + first = DataSize THEN 0 ELSE write + first
           second == IF pass1 < Chunk THEN Least(Chunk - pass1, DataSize - from) ELSE 0
<1>2. Passes = [first |-> first, from |-> from, second |-> Least(second, Chunk - first)]
  BY DEF Passes
<1>3. first = Least(DataSize - write, Chunk)
  BY <1>1, Sizes DEF Least
<1>4. CASE DataSize - write < Chunk
  <2>1. pass1 = DataSize - write /\ first = pass1 /\ from = 0
    BY <1>1, <1>3, <1>4, Sizes DEF Least
  <2>2. second = Chunk - first
    BY <1>4, <2>1, Sizes DEF Least
  <2> HIDE DEF pass1, first, from, second
  <2> QED
    BY <1>1, <1>2, <1>3, <1>4, <2>1, <2>2, Sizes DEF Least, Wrap
<1>5. CASE ~(DataSize - write < Chunk)
  <2>1. first = Chunk /\ ~(pass1 < Chunk) /\ second = 0
    BY <1>1, <1>3, <1>5, Sizes DEF Least
  <2>2. from = Wrap(write + Chunk)
    BY <1>5, <2>1, Sizes DEF Wrap
  <2> HIDE DEF pass1, first, from, second
  <2>3. Wrap(write + Chunk) \in Nat
    BY <1>5, Sizes DEF Wrap
  <2> QED
    BY <1>1, <1>2, <1>3, <2>1, <2>2, <2>3, Sizes DEF Least
<1> QED
  BY <1>4, <1>5

\* What the interrupt does to the ring.
LEMMA RingWritten ==
  ASSUME Typed, RingHoldsRecording, currentSize + Chunk <= DataSize,
         NEW q, NEW s, WriteClient(q, s)
  PROVE  /\ data' \in [0 .. DataSize - 1 -> Nat] /\ write' \in 0 .. DataSize - 1
         /\ currentSize' = currentSize + Chunk /\ count' = count + Chunk
         /\ RingHoldsRecording'
<1>1. PICK first \in Nat, second \in Nat, from \in Nat :
        Passes.first = first /\ Passes.second = second /\ Passes.from = from
  BY PassesFit DEF Typed
<1>2. /\ first = (IF DataSize - write < Chunk THEN DataSize - write ELSE Chunk)
      /\ second = Chunk - first
      /\ second > 0 => from = 0 /\ first = DataSize - write
      /\ from + second = Wrap(write + Chunk)
  BY <1>1, PassesFit DEF Typed, Least
<1>3. /\ read \in 0 .. DataSize - 1 /\ write \in 0 .. DataSize - 1
      /\ currentSize \in Nat /\ count \in Nat /\ data \in [0 .. DataSize - 1 -> Nat]
      /\ first + second = Chunk
  BY <1>2, Sizes DEF Typed
<1>4. /\ data' = [i \in 0 .. DataSize - 1 |->
                     IF i >= from /\ i < from + second THEN count + first + 1 + i - from
                     ELSE IF i >= write /\ i < write + first THEN count + 1 + i - write
                     ELSE data[i]]
      /\ write' = from + second /\ currentSize' = (currentSize + first + second) % Word
      /\ count' = count + Chunk /\ read' = read
  BY <1>1 DEF WriteClient
<1>5. currentSize' = currentSize + Chunk
  <2>1. /\ currentSize + first + second = currentSize + Chunk
        /\ currentSize + Chunk \in Nat /\ currentSize + Chunk < Word
    BY <1>3, <1>2, Sizes
  <2>2. (currentSize + Chunk) % Word = currentSize + Chunk
    BY <2>1, SmallMod
  <2> QED
    BY <1>4, <2>1, <2>2
<1>6. write' = Wrap(write + Chunk) /\ write' \in 0 .. DataSize - 1
  BY <1>3, <1>2, <1>4, Sizes DEF Wrap
<1>7. data' \in [0 .. DataSize - 1 -> Nat]
  <2>1. ASSUME NEW i \in 0 .. DataSize - 1
        PROVE  (IF i >= from /\ i < from + second
                  THEN count + first + 1 + i - from
                ELSE IF i >= write /\ i < write + first THEN count + 1 + i - write
                ELSE data[i]) \in Nat
    BY <1>3, <1>2, <2>1, Sizes
  <2> QED
    BY <1>3, <1>4, <2>1
<1>8. write' = Wrap(read + currentSize')
  BY <1>3, <1>5, <1>6, Sizes DEF Wrap, RingHoldsRecording
<1>9. ASSUME NEW i \in 0 .. currentSize' - 1
      PROVE  data'[Wrap(read' + i)] = count' - currentSize' + 1 + i
  <2> DEFINE at == Wrap(read + i)
  <2>1. at \in 0 .. DataSize - 1 /\ i \in Nat /\ i < currentSize + Chunk
    BY <1>3, <1>5, <1>9, Sizes DEF Wrap
  <2>2. at = IF read + i >= DataSize THEN read + i - DataSize ELSE read + i
    BY <1>3, <2>1, Sizes DEF Wrap
  <2>3. write = IF read + currentSize >= DataSize THEN read + currentSize - DataSize
                ELSE read + currentSize
    BY <1>3, Sizes DEF RingHoldsRecording, Wrap
  <2> HIDE DEF at
  <2>4. data'[at] = IF at >= from /\ at < from + second
                      THEN count + first + 1 + at - from
                    ELSE IF at >= write /\ at < write + first THEN count + 1 + at - write
                    ELSE data[at]
    BY <1>3, <1>4, <2>1
  <2>5. /\ data'[Wrap(read' + i)] = data'[at]
        /\ count' - currentSize' + 1 + i = count - currentSize + 1 + i
    <3>1. data'[Wrap(read' + i)] = data'[at]
      BY <1>4 DEF at
    <3>2. count' - currentSize' + 1 + i = count - currentSize + 1 + i
      <4>1. (count + Chunk) - (currentSize + Chunk) + 1 + i = count - currentSize + 1 + i
        BY <1>3, <2>1, Sizes
      <4>2. count' = count + Chunk /\ currentSize' = currentSize + Chunk
        BY <1>4, <1>5
      <4> QED
        BY <4>1, <4>2, Zenon
    <3> QED
      BY <3>1, <3>2
  <2>6. ASSUME i < currentSize PROVE data'[at] = count - currentSize + 1 + i
    <3>1. ~(at >= write /\ at < write + first)
      BY <1>3, <1>2, <2>1, <2>2, <2>3, <2>6, Sizes
    <3>2. ~(at >= from /\ at < from + second)
      BY <1>3, <1>2, <2>1, <2>2, <2>3, <2>6, Sizes
    <3>3. data[at] = count - currentSize + 1 + i
      BY <1>3, <2>1, <2>6 DEF RingHoldsRecording, Base, at
    <3> QED
      BY <2>4, <3>1, <3>2, <3>3
  <2>7. ASSUME ~(i < currentSize) PROVE data'[at] = count - currentSize + 1 + i
    <3>1. CASE at >= from /\ at < from + second
      <4>1. second > 0
        BY <2>1, <3>1
      <4>2. from = 0 /\ first = DataSize - write
        BY <1>2, <4>1
      <4>3. first + at = i - currentSize
        BY <1>3, <1>2, <2>1, <2>2, <2>3, <2>7, <3>1, <4>2, Sizes
      <4>4. data'[at] = count + first + 1 + at - from
        BY <2>4, <3>1
      <4>5. count + first + 1 + at - from = count - currentSize + 1 + i
        BY <1>3, <2>1, <4>2, <4>3, Sizes
      <4> QED
        BY <4>4, <4>5, Zenon
    <3>2. CASE ~(at >= from /\ at < from + second)
      <4>1. at >= write /\ at < write + first /\ at - write = i - currentSize
        BY <1>3, <1>2, <2>1, <2>2, <2>3, <2>7, <3>2, Sizes
      <4>2. data'[at] = count + 1 + at - write
        BY <2>4, <3>2, <4>1
      <4>3. count + 1 + at - write = count - currentSize + 1 + i
        BY <1>3, <2>1, <4>1
      <4> QED
        BY <4>2, <4>3, Zenon
    <3> QED
      BY <3>1, <3>2
  <2> QED
    BY <2>5, <2>6, <2>7
<1>10. currentSize' <= DataSize /\ currentSize' <= count'
  BY <1>3, <1>4, <1>5, Sizes DEF RingHoldsRecording
<1> QED
  BY <1>3, <1>4, <1>5, <1>6, <1>7, <1>8, <1>9, <1>10 DEF RingHoldsRecording, Base

-----------------------------------------------------------------------------
\* One more event that announces what follows.
Extended(evs, pos, to) == [k \in 0 .. Len(evs) + 1 |-> IF k <= Len(evs) THEN pos[k] ELSE to]

LEMMA PositionsAppend ==
  ASSUME NEW evs \in Seq(Events), NEW pos, NEW from \in Nat, NEW to \in Nat,
         Positions(evs, pos, from, to),
         NEW e \in Events, NEW last \in Nat, to <= last, Even(last), e.numBytes = last - to
  PROVE  /\ Append(evs, e) \in Seq(Events) /\ Len(Append(evs, e)) = Len(evs) + 1
         /\ \A k \in 1 .. Len(evs) : Append(evs, e)[k] = evs[k]
         /\ Append(evs, e)[Len(evs) + 1] = e
         /\ Extended(evs, pos, last) \in [0 .. Len(evs) + 1 -> Nat]
         /\ \A k \in 0 .. Len(evs) : Extended(evs, pos, last)[k] = pos[k]
         /\ Extended(evs, pos, last)[Len(evs) + 1] = last
         /\ Positions(Append(evs, e), Extended(evs, pos, last), from, last)
<1> DEFINE m == Len(evs)
           more == Append(evs, e)
           pos2 == Extended(evs, pos, last)
<1>1. m \in Nat /\ more \in Seq(Events) /\ Len(more) = m + 1
  OBVIOUS
<1>2. (\A k \in 1 .. m : more[k] = evs[k]) /\ more[m + 1] = e
  OBVIOUS
<1>3. pos \in [0 .. m -> Nat]
  BY DEF Positions
<1>4. /\ pos2 \in [0 .. m + 1 -> Nat] /\ pos2[m + 1] = last
      /\ \A k \in 0 .. m : pos2[k] = pos[k]
  BY <1>1, <1>3 DEF Extended
<1> HIDE DEF m, more, pos2
<1>5. ASSUME NEW k \in 1 .. m + 1
      PROVE  more[k].numBytes = pos2[k] - pos2[k - 1]
  <2>1. CASE k <= m
    <3>1. k \in 1 .. m /\ k \in 0 .. m /\ k - 1 \in 0 .. m
      BY <1>1, <2>1
    <3> QED
      BY <1>2, <1>4, <3>1 DEF Positions, m
  <2>2. CASE k = m + 1
    <3>1. k - 1 = m /\ m \in 0 .. m
      BY <1>1, <2>2
    <3> QED
      BY <1>2, <1>4, <2>2, <3>1 DEF Positions, m
  <2> QED
    BY <1>1, <2>1, <2>2
<1>6. ASSUME NEW j \in 0 .. m + 1, NEW k \in 0 .. m + 1, j <= k
      PROVE  pos2[j] <= pos2[k]
  <2>1. ASSUME NEW i \in 0 .. m PROVE pos[i] \in Nat /\ pos[i] <= to
    <3>1. i <= m /\ m \in 0 .. m
      BY <1>1
    <3>2. pos[i] <= pos[m] /\ pos[m] = to
      BY <3>1 DEF Positions, m
    <3>3. pos[i] \in Nat
      BY <1>3 DEF m
    <3> QED
      BY <3>2, <3>3
  <2>2. CASE k <= m
    <3>1. j \in 0 .. m /\ k \in 0 .. m
      BY <1>1, <1>6, <2>2
    <3> QED
      BY <1>4, <1>6, <3>1 DEF Positions, m
  <2>3. CASE k = m + 1
    <3>1. j = m + 1 \/ j \in 0 .. m
      BY <1>1
    <3> QED
      BY <1>4, <2>1, <2>3, <3>1
  <2> QED
    BY <1>1, <2>2, <2>3
<1>7. \A k \in 0 .. m + 1 : Even(pos2[k])
  <2>1. \A k \in 0 .. m + 1 : k = m + 1 \/ k \in 0 .. m
    BY <1>1
  <2> QED
    BY <1>4, <2>1 DEF Positions, m
<1>8. pos2[0] = from
  BY <1>1, <1>4 DEF Positions, m
<1>9. Positions(more, pos2, from, last)
  BY <1>1, <1>4, <1>5, <1>6, <1>7, <1>8 DEF Positions
<1> QED
  BY <1>1, <1>2, <1>4, <1>9 DEF m, more, pos2

\* The first event is taken.
Shifted(evs, pos) == [k \in 0 .. Len(evs) - 1 |-> pos[k + 1]]

LEMMA PositionsTail ==
  ASSUME NEW evs \in Seq(Events), evs # <<>>, NEW pos, NEW from \in Nat, NEW to \in Nat,
         Positions(evs, pos, from, to)
  PROVE  /\ Tail(evs) \in Seq(Events) /\ Len(evs) \in Nat /\ Len(evs) >= 1
         /\ Len(Tail(evs)) = Len(evs) - 1
         /\ \A k \in 1 .. Len(evs) - 1 : Tail(evs)[k] = evs[k + 1]
         /\ Head(evs) = evs[1] /\ Head(evs) \in Events
         /\ pos[1] \in Nat /\ from <= pos[1] /\ pos[1] <= to
         /\ Head(evs).numBytes = pos[1] - from
         /\ Shifted(evs, pos) \in [0 .. Len(evs) - 1 -> Nat]
         /\ \A k \in 0 .. Len(evs) - 1 : Shifted(evs, pos)[k] = pos[k + 1]
         /\ Positions(Tail(evs), Shifted(evs, pos), pos[1], to)
<1> DEFINE m == Len(evs)
           rest == Tail(evs)
           pos2 == Shifted(evs, pos)
<1>1. m \in Nat /\ m >= 1 /\ rest \in Seq(Events) /\ Len(rest) = m - 1
  OBVIOUS
<1>2. (\A k \in 1 .. m - 1 : rest[k] = evs[k + 1]) /\ Head(evs) = evs[1] /\ Head(evs) \in Events
  OBVIOUS
<1>3. pos \in [0 .. m -> Nat]
  BY DEF Positions
<1>4. /\ pos2 \in [0 .. m - 1 -> Nat]
      /\ \A k \in 0 .. m - 1 : pos2[k] = pos[k + 1]
  BY <1>1, <1>3 DEF Shifted
<1>5. /\ pos[1] \in Nat /\ from <= pos[1] /\ pos[1] <= to
      /\ Head(evs).numBytes = pos[1] - from
  <2>1. 0 \in 0 .. m /\ 1 \in 0 .. m /\ m \in 0 .. m /\ 1 \in 1 .. m
    BY <1>1
  <2>2. pos[0] = from /\ pos[m] = to /\ pos[1] \in Nat /\ pos[0] <= pos[1] /\ pos[1] <= pos[m]
    BY <1>1, <1>3, <2>1 DEF Positions
  <2>3. evs[1].numBytes = pos[1] - pos[1 - 1]
    BY <2>1 DEF Positions
  <2> QED
    BY <1>2, <2>2, <2>3
<1> HIDE DEF m, rest, pos2
<1>6. ASSUME NEW k \in 1 .. m - 1
      PROVE  rest[k].numBytes = pos2[k] - pos2[k - 1]
  <2>1. k + 1 \in 1 .. m /\ k \in 0 .. m - 1 /\ k - 1 \in 0 .. m - 1 /\ (k + 1) - 1 = (k - 1) + 1
    BY <1>1
  <2>2. evs[k + 1].numBytes = pos[k + 1] - pos[(k + 1) - 1]
    BY <2>1 DEF Positions, m
  <2> QED
    BY <1>2, <1>4, <2>1, <2>2
<1>7. ASSUME NEW j \in 0 .. m - 1, NEW k \in 0 .. m - 1, j <= k
      PROVE  pos2[j] <= pos2[k]
  <2>1. j + 1 \in 0 .. m /\ k + 1 \in 0 .. m /\ j + 1 <= k + 1
    BY <1>1, <1>7
  <2> QED
    BY <1>4, <2>1 DEF Positions, m
<1>8. \A k \in 0 .. m - 1 : Even(pos2[k])
  <2>1. \A k \in 0 .. m - 1 : k + 1 \in 0 .. m
    BY <1>1
  <2> QED
    BY <1>4, <2>1 DEF Positions, m
<1>9. pos2[0] = pos[1] /\ pos2[m - 1] = to
  <2>1. 0 \in 0 .. m - 1 /\ m - 1 \in 0 .. m - 1 /\ 0 + 1 = 1 /\ (m - 1) + 1 = m
    BY <1>1
  <2> QED
    BY <1>4, <2>1 DEF Positions, m
<1>10. Positions(rest, pos2, pos[1], to)
  BY <1>1, <1>4, <1>6, <1>7, <1>8, <1>9 DEF Positions
<1> QED
  BY <1>1, <1>2, <1>4, <1>5, <1>10 DEF m, rest, pos2

\* What an event does to the phase of the recording.
LEMMA RunningAppend ==
  ASSUME NEW evs \in Seq(Events), NEW pos, NEW from \in Nat, NEW to \in Nat,
         Positions(evs, pos, from, to), Running(evs, pos),
         NEW e \in Events, NEW last \in Nat, to < last, Even(last), e.numBytes = last - to,
         e.state = "Start"
  PROVE  Running(Append(evs, e), Extended(evs, pos, last))
<1> DEFINE m == Len(evs)
           more == Append(evs, e)
           pos2 == Extended(evs, pos, last)
<1>1. m \in Nat /\ to <= last
  OBVIOUS
<1>2. /\ Len(more) = m + 1 /\ (\A k \in 1 .. m : more[k] = evs[k]) /\ more[m + 1] = e
      /\ (\A k \in 0 .. m : pos2[k] = pos[k]) /\ pos2[m + 1] = last
  <2>1. Len(more) = m + 1 /\ (\A k \in 1 .. m : more[k] = evs[k]) /\ more[m + 1] = e
    OBVIOUS
  <2>2. (\A k \in 0 .. m : pos2[k] = pos[k]) /\ pos2[m + 1] = last
    BY <1>1 DEF Extended
  <2> QED
    BY <2>1, <2>2
<1>3. pos[m] = to /\ pos \in [0 .. m -> Nat]
  BY DEF Positions
<1> HIDE DEF m, more, pos2
<1>4. \A k \in 1 .. m + 1 : more[k].state = "Start"
  <2>1. \A k \in 1 .. m + 1 : k \in 1 .. m \/ k = m + 1
    BY <1>1
  <2> QED
    BY <1>2, <2>1 DEF Running, m
<1>5. ASSUME NEW j \in 0 .. m + 1, NEW k \in 0 .. m + 1, j <= k
      PROVE  k - j <= pos2[k] - pos2[j]
  <2>1. CASE k <= m
    <3>1. j \in 0 .. m /\ k \in 0 .. m
      BY <1>1, <1>5, <2>1
    <3> QED
      BY <1>2, <1>5, <3>1 DEF Running, Distinct, m
  <2>2. CASE k = m + 1 /\ j = m + 1
    BY <1>1, <1>2, <2>2
  <2>3. CASE k = m + 1 /\ j <= m
    <3>1. j \in 0 .. m /\ m \in 0 .. m /\ j <= m
      BY <1>1, <2>3
    <3>2. m - j <= pos[m] - pos[j] /\ pos[j] \in Nat
      BY <1>3, <3>1 DEF Running, Distinct, m
    <3>3. pos2[k] = last /\ pos2[j] = pos[j]
      BY <1>2, <2>3, <3>1
    <3> QED
      BY <1>1, <1>3, <2>3, <3>2, <3>3
  <2> QED
    BY <1>1, <1>5, <2>1, <2>2, <2>3
<1> QED
  BY <1>2, <1>4, <1>5 DEF Running, Distinct, more, pos2

LEMMA StopAppended ==
  ASSUME NEW evs \in Seq(Events), NEW pos, NEW from \in Nat, NEW to \in Nat,
         Positions(evs, pos, from, to), Running(evs, pos),
         NEW e \in Events, NEW last \in Nat, to <= last, Even(last), e.numBytes = last - to,
         e.state = "Stop"
  PROVE  StoppedAt(Append(evs, e), Extended(evs, pos, last), last, Len(evs) + 1)
<1> DEFINE m == Len(evs)
           more == Append(evs, e)
           pos2 == Extended(evs, pos, last)
<1>1. m \in Nat /\ to <= last
  OBVIOUS
<1>2. /\ Len(more) = m + 1 /\ (\A k \in 1 .. m : more[k] = evs[k]) /\ more[m + 1] = e
      /\ (\A k \in 0 .. m : pos2[k] = pos[k]) /\ pos2[m + 1] = last
  <2>1. Len(more) = m + 1 /\ (\A k \in 1 .. m : more[k] = evs[k]) /\ more[m + 1] = e
    OBVIOUS
  <2>2. (\A k \in 0 .. m : pos2[k] = pos[k]) /\ pos2[m + 1] = last
    BY <1>1 DEF Extended
  <2> QED
    BY <2>1, <2>2
<1> HIDE DEF m, more, pos2
<1>3. (m + 1) - 1 = m /\ m + 1 <= (m + 1) + 1
  BY <1>1
<1>4. Distinct(pos2, m)
  BY <1>2 DEF Running, Distinct, m
<1>5. \A k \in 1 .. m : more[k].state = "Start"
  BY <1>2 DEF Running, m
<1> QED
  BY <1>2, <1>3, <1>4, <1>5 DEF StoppedAt, m, more, pos2

LEMMA LateAppended ==
  ASSUME NEW evs \in Seq(Events), NEW pos, NEW from \in Nat, NEW to \in Nat,
         Positions(evs, pos, from, to), NEW s \in Nat, s = Len(evs), s >= 1,
         NEW stop, StoppedAt(evs, pos, stop, s),
         NEW e \in Events, NEW last \in Nat, to <= last, Even(last), e.numBytes = last - to
  PROVE  StoppedAt(Append(evs, e), Extended(evs, pos, last), stop, s)
<1> DEFINE more == Append(evs, e)
           pos2 == Extended(evs, pos, last)
<1>1. /\ Len(more) = s + 1 /\ (\A k \in 1 .. s : more[k] = evs[k])
      /\ (\A k \in 0 .. s : pos2[k] = pos[k])
  BY PositionsAppend
<1>2. s \in 1 .. s /\ s \in 0 .. s /\ s - 1 \in Nat
  OBVIOUS
<1> HIDE DEF more, pos2
<1>3. \A k \in 1 .. s - 1 : k \in 1 .. s
  OBVIOUS
<1>4. \A k \in 0 .. s - 1 : k \in 0 .. s
  OBVIOUS
<1>5. Distinct(pos2, s - 1)
  BY <1>1, <1>4 DEF StoppedAt, Distinct
<1>6. s + 1 <= s + 1
  OBVIOUS
<1> QED
  BY <1>1, <1>2, <1>3, <1>5, <1>6 DEF StoppedAt, more, pos2

LEMMA RunningTail ==
  ASSUME NEW evs \in Seq(Events), evs # <<>>, NEW pos, NEW from \in Nat, NEW to \in Nat,
         Positions(evs, pos, from, to), Running(evs, pos)
  PROVE  Head(evs).state = "Start" /\ Running(Tail(evs), Shifted(evs, pos))
<1> DEFINE m == Len(evs)
           rest == Tail(evs)
           pos2 == Shifted(evs, pos)
<1>1. /\ m \in Nat /\ m >= 1 /\ Len(rest) = m - 1 /\ Head(evs) = evs[1]
      /\ \A k \in 1 .. m - 1 : rest[k] = evs[k + 1]
      /\ \A k \in 0 .. m - 1 : pos2[k] = pos[k + 1]
  BY PositionsTail
<1> HIDE DEF m, rest, pos2
<1>2. Head(evs).state = "Start"
  <2>1. 1 \in 1 .. m
    BY <1>1
  <2> QED
    BY <1>1, <2>1 DEF Running, m
<1>3. \A k \in 1 .. m - 1 : rest[k].state = "Start"
  <2>1. \A k \in 1 .. m - 1 : k + 1 \in 1 .. m
    BY <1>1
  <2> QED
    BY <1>1, <2>1 DEF Running, m
<1>4. ASSUME NEW j \in 0 .. m - 1, NEW k \in 0 .. m - 1, j <= k
      PROVE  k - j <= pos2[k] - pos2[j]
  <2>1. j + 1 \in 0 .. m /\ k + 1 \in 0 .. m /\ j + 1 <= k + 1 /\ (k + 1) - (j + 1) = k - j
    BY <1>1, <1>4
  <2>2. (k + 1) - (j + 1) <= pos[k + 1] - pos[j + 1]
    BY <2>1 DEF Running, Distinct, m
  <2> QED
    BY <1>1, <2>1, <2>2
<1> QED
  BY <1>1, <1>2, <1>3, <1>4 DEF Running, Distinct, rest, pos2

LEMMA StoppedTail ==
  ASSUME NEW evs \in Seq(Events), evs # <<>>, NEW pos, NEW from \in Nat, NEW to \in Nat,
         Positions(evs, pos, from, to), NEW last, Stopped(evs, pos, last)
  PROVE  \/ Head(evs).state = "Start" /\ Stopped(Tail(evs), Shifted(evs, pos), last)
         \/ Head(evs).state = "Stop" /\ pos[1] = last /\ Len(Tail(evs)) <= 1
<1> DEFINE m == Len(evs)
           rest == Tail(evs)
           pos2 == Shifted(evs, pos)
<1>1. /\ m \in Nat /\ m >= 1 /\ Len(rest) = m - 1 /\ Head(evs) = evs[1]
      /\ \A k \in 1 .. m - 1 : rest[k] = evs[k + 1]
      /\ \A k \in 0 .. m - 1 : pos2[k] = pos[k + 1]
  BY PositionsTail
<1>2. PICK s \in 1 .. m : StoppedAt(evs, pos, last, s)
  BY DEF Stopped
<1> HIDE DEF m, rest, pos2
<1>3. m <= s + 1
  BY <1>2 DEF StoppedAt, m
<1>4. CASE s = 1
  BY <1>1, <1>2, <1>3, <1>4 DEF StoppedAt, rest
<1>5. CASE s # 1
  <2>1. s - 1 \in 1 .. m - 1 /\ 1 \in 1 .. s - 1 /\ (s - 1) + 1 = s /\ s - 1 \in 0 .. m - 1
    BY <1>1, <1>5
  <2>2. Head(evs).state = "Start"
    BY <1>1, <1>2, <2>1 DEF StoppedAt
  <2>3. \A k \in 1 .. (s - 1) - 1 : rest[k].state = "Start"
    <3>1. \A k \in 1 .. (s - 1) - 1 : k + 1 \in 1 .. s - 1 /\ k \in 1 .. m - 1
      BY <1>1
    <3> QED
      BY <1>1, <1>2, <3>1 DEF StoppedAt
  <2>4. rest[s - 1].state = "Stop" /\ pos2[s - 1] = last
    BY <1>1, <1>2, <2>1 DEF StoppedAt
  <2>5. ASSUME NEW j \in 0 .. (s - 1) - 1, NEW k \in 0 .. (s - 1) - 1, j <= k
        PROVE  k - j <= pos2[k] - pos2[j]
    <3>1. /\ j + 1 \in 0 .. s - 1 /\ k + 1 \in 0 .. s - 1 /\ j + 1 <= k + 1
          /\ (k + 1) - (j + 1) = k - j /\ j \in 0 .. m - 1 /\ k \in 0 .. m - 1
      BY <1>1, <2>5
    <3>2. (k + 1) - (j + 1) <= pos[k + 1] - pos[j + 1]
      BY <1>2, <3>1 DEF StoppedAt, Distinct
    <3> QED
      BY <1>1, <3>1, <3>2
  <2>6. Len(rest) <= (s - 1) + 1
    BY <1>1, <1>3
  <2>7. StoppedAt(rest, pos2, last, s - 1)
    BY <2>3, <2>4, <2>5, <2>6 DEF StoppedAt, Distinct
  <2> QED
    BY <1>1, <2>1, <2>2, <2>7 DEF Stopped, rest, pos2
<1> QED
  BY <1>4, <1>5

-----------------------------------------------------------------------------
Notice(kind, reason, s, size) == [kind |-> kind, reason |-> reason, state |-> s, numBytes |-> size]

LEMMA AnnouncedIs ==
  ASSUME NEW q, NEW size \in Nat, q.outgoing \in Nat, q.outgoing <= size, size <= DataSize,
         NEW kind \in {"State", "HighWater"},
         NEW reason \in {"User", "Overrun", "EOF", "Watermark"},
         NEW s \in {"Stop", "Pause", "Start"}
  PROVE  /\ Notice(kind, reason, s, size - q.outgoing) \in Events
         /\ Notice(kind, reason, s, size - q.outgoing).state = s
         /\ Notice(kind, reason, s, size - q.outgoing).numBytes = size - q.outgoing
         /\ Announced(q, kind, reason, s, size).events
               = Append(q.events, Notice(kind, reason, s, size - q.outgoing))
         /\ Announced(q, kind, reason, s, size).outgoing = size
<1> DEFINE out == q.outgoing
<1>1. /\ size - out \in Nat /\ size - out < Word /\ size < Word /\ out + (size - out) = size
  BY Sizes
<1>2. (size - out) % Word = size - out /\ size % Word = size
  BY <1>1, SmallMod
<1>3. Notice(kind, reason, s, size - out) \in Events
  <2>1. size - out \in 0 .. Word - 1
    BY <1>1, Sizes
  <2> QED
    BY <2>1 DEF Events, Notice
<1> QED
  BY <1>1, <1>2, <1>3 DEF Announced, Notice

\* How far the reader and the announcements are.
LEMMA Amounts ==
  ASSUME Typed, RingHoldsRecording, NEW asked \in Nat, NEW pos \in [0 .. Len(events) -> Nat],
         Recording(asked, pos)
  PROVE  /\ Base \in Nat /\ outgoing \in Nat /\ asked <= outgoing /\ outgoing <= currentSize
         /\ currentSize \in Nat /\ currentSize <= DataSize /\ count = Base + currentSize
         /\ Base + asked \in Nat /\ Base + outgoing \in Nat
         /\ Even(Base) /\ Even(asked) /\ Even(outgoing) /\ Even(currentSize)
         /\ Positions(events, pos, Base + asked, Base + outgoing)
<1>1. /\ currentSize \in Nat /\ count \in Nat /\ outgoing \in Nat /\ Len(events) \in Nat
  BY Sizes DEF Typed
<1>2. /\ Base \in Nat /\ outgoing <= currentSize
      /\ currentSize <= DataSize /\ count = Base + currentSize
  BY <1>1 DEF RingHoldsRecording, Base, Recording
<1>3. Positions(events, pos, Base + asked, Base + outgoing) /\ Even(currentSize) /\ Even(count)
  BY DEF Recording
<1>4. /\ pos[0] = Base + asked /\ pos[Len(events)] = Base + outgoing
      /\ pos[0] <= pos[Len(events)] /\ Even(pos[0]) /\ Even(pos[Len(events)])
  <2>1. 0 \in 0 .. Len(events) /\ Len(events) \in 0 .. Len(events) /\ 0 <= Len(events)
    BY <1>1
  <2> QED
    BY <1>3, <2>1 DEF Positions
<1>5. asked <= outgoing
  <2>1. Base + asked <= Base + outgoing
    BY <1>4
  <2> QED
    BY <1>1, <1>2, <2>1
<1>6. Even(Base)
  BY <1>1, <1>2, <1>3 DEF Even
<1>7. Even(asked) /\ Even(outgoing)
  <2>1. Even(Base + asked) /\ Even(Base + outgoing)
    BY <1>4
  <2> QED
    BY <1>1, <1>2, <1>6, <2>1 DEF Even
<1> QED
  BY <1>1, <1>2, <1>3, <1>5, <1>6, <1>7

\* What writeClient does besides: nothing to the reader, and at most one event.
LEMMA WriteAnnounces ==
  ASSUME Typed, RingHoldsRecording, currentSize + Chunk <= DataSize,
         NEW q, NEW s, WriteClient(q, s)
  PROVE  /\ state' = s
         /\ \/ events' = q.events /\ outgoing' = q.outgoing
            \/ LET a == Announced(q, "HighWater", "Watermark", s, currentSize')
               IN  events' = a.events /\ outgoing' = a.outgoing
         /\ UNCHANGED <<read, total, pc, n, p, toServer, waiting, handling, received, intact>>
         /\ Base' = Base
<1>1. ~(Chunk > Free(currentSize))
  <2>1. Free(currentSize) = DataSize - currentSize
    BY PassesFit DEF Typed
  <2> QED
    BY <2>1, Sizes DEF Typed
<1>2. Base' = Base
  <2>1. currentSize' = currentSize + Chunk /\ count' = count + Chunk
    BY RingWritten
  <2>2. (count + Chunk) - (currentSize + Chunk) = count - currentSize
    BY Sizes DEF Typed
  <2>3. Base' = count' - currentSize'
    BY DEF Base
  <2> QED
    BY <2>1, <2>2, <2>3 DEF Base
<1> QED
  BY <1>1, <1>2 DEF WriteClient, reader, client, result

LEMMA ReadingWritten ==
  ASSUME NEW asked, Reading(asked), Base' = Base,
         UNCHANGED <<read, pc, n, p, toServer, waiting, received>>
  PROVE  Reading(asked)'
BY DEF Reading

LEMMA RecordKeeps ==
  ASSUME Undisturbed, IInv, Started, Record
  PROVE  IInv'
<1>1. Typed /\ RingHoldsRecording /\ intact
  BY DEF IInv, Started
<1>2. PICK asked \in Nat, pos \in [0 .. Len(events) -> Nat] :
        Reading(asked) /\ Recording(asked, pos)
  BY DEF Started
<1>3. /\ WriteClient(queue, "Start") /\ state = "Start"
      /\ currentSize + Chunk <= DataSize /\ count + Chunk <= total
  BY DEF Record, CanWrite, Undisturbed
<1>4. handling /\ Late = 0 /\ Running(events, pos)
  BY <1>2, <1>3 DEF Recording, Phase
<1>5. /\ data' \in [0 .. DataSize - 1 -> Nat] /\ write' \in 0 .. DataSize - 1
      /\ currentSize' = currentSize + Chunk /\ count' = count + Chunk
      /\ RingHoldsRecording'
  BY <1>1, <1>3, RingWritten
<1>6. /\ state' = "Start"
      /\ UNCHANGED <<read, total, pc, n, p, toServer, waiting, handling, received, intact>>
      /\ Base' = Base
  BY <1>1, <1>3, WriteAnnounces
<1>7. Reading(asked)'
  BY <1>2, <1>6, ReadingWritten
<1>8. /\ Base \in Nat /\ outgoing \in Nat /\ outgoing <= currentSize /\ currentSize \in Nat
      /\ Base + asked \in Nat /\ Base + outgoing \in Nat
      /\ Even(Base) /\ Even(currentSize)
      /\ Positions(events, pos, Base + asked, Base + outgoing)
      /\ events \in Seq(Events)
  BY <1>1, <1>2, Amounts DEF Typed
<1>9. Even(currentSize') /\ Even(count') /\ Even(read') /\ currentSize' \in Nat /\ count' \in Nat
  <2>1. Even(count) /\ Even(read) /\ count \in Nat /\ Even(Chunk)
    BY <1>1, <1>2 DEF Recording, Typed, Undisturbed
  <2>2. Even(currentSize + Chunk) /\ Even(count + Chunk)
    BY <1>8, <2>1, Sizes, EvenSum
  <2> QED
    BY <1>5, <1>6, <1>8, <2>1, <2>2, Sizes
<1>10. PICK pos2 \in [0 .. Len(events') -> Nat] :
         /\ events' \in Seq(Events) /\ outgoing' \in 0 .. Word - 1 /\ outgoing' <= currentSize'
         /\ Positions(events', pos2, Base + asked, Base + outgoing')
         /\ Running(events', pos2)
  <2>1. CASE events' = events /\ outgoing' = outgoing
    <3>1. outgoing' \in 0 .. Word - 1 /\ outgoing' <= currentSize'
      BY <1>1, <1>5, <1>8, <2>1, Sizes DEF Typed
    <3> QED
      BY <1>4, <1>8, <2>1, <3>1
  <2>2. CASE ~(events' = events /\ outgoing' = outgoing)
    <3> DEFINE e == Notice("HighWater", "Watermark", "Start", currentSize' - outgoing)
               last == Base + currentSize'
    <3>1. /\ outgoing <= currentSize' /\ outgoing < currentSize' /\ currentSize' <= DataSize
          /\ currentSize' \in Nat /\ currentSize' < Word
      BY <1>3, <1>5, <1>8, Sizes
    <3>2. LET a == Announced(queue, "HighWater", "Watermark", "Start", currentSize')
          IN events' = a.events /\ outgoing' = a.outgoing
      BY <1>1, <1>3, <2>2, WriteAnnounces DEF queue
    <3>3. /\ e \in Events /\ e.state = "Start" /\ e.numBytes = currentSize' - outgoing
          /\ events' = Append(events, e) /\ outgoing' = currentSize'
      <4>1. queue.outgoing = outgoing /\ queue.events = events
        BY DEF queue
      <4> QED
        BY <1>8, <3>1, <3>2, <4>1, AnnouncedIs, SMTT(30)
    <3>4. /\ last \in Nat /\ Base + outgoing <= last /\ Base + outgoing < last
          /\ e.numBytes = last - (Base + outgoing) /\ e.state = "Start"
      <4>1. /\ last \in Nat /\ Base + outgoing < last
            /\ currentSize' - outgoing = last - (Base + outgoing)
        BY <1>8, <3>1
      <4> QED
        BY <1>8, <3>3, <4>1
    <3>5. Even(last)
      BY <1>8, <1>9, EvenSum
    <3> HIDE DEF e, last
    <3>6. /\ events' \in Seq(Events) /\ Len(events') = Len(events) + 1
          /\ Extended(events, pos, last) \in [0 .. Len(events) + 1 -> Nat]
          /\ Positions(events', Extended(events, pos, last), Base + asked, last)
      BY <1>8, <3>3, <3>4, <3>5, PositionsAppend
    <3>7. Running(events', Extended(events, pos, last))
      BY <1>4, <1>8, <3>3, <3>4, <3>5, RunningAppend
    <3>8. last = Base + outgoing'
      BY <3>3 DEF last
    <3>9. outgoing' \in 0 .. Word - 1 /\ outgoing' <= currentSize'
      BY <3>1, <3>3, Sizes
    <3> QED
      BY <3>6, <3>7, <3>8, <3>9
  <2> QED
    BY <2>1, <2>2
<1>11. count' <= total'
  BY <1>3, <1>5, <1>6
<1>12. Phase(pos2)'
  <2>1. Late' = 0
    <3>1. count' \in Nat /\ total' \in Nat
      BY <1>1, <1>6, <1>9, ExportAssumption DEF Typed
    <3> QED
      BY <1>11, <3>1 DEF Late
  <2> QED
    BY <1>3, <1>4, <1>6, <1>10, <1>11, <2>1 DEF Phase
<1>13. Recording(asked, pos2)'
  BY <1>6, <1>9, <1>10, <1>12 DEF Recording
<1>14. Started'
  BY <1>5, <1>7, <1>10, <1>13 DEF Started
<1>15. Typed'
  <2>1. total \in Nat /\ total' = total /\ count' <= total + Chunk
    BY <1>1, <1>3, <1>5, <1>6, Sizes, ExportAssumption DEF Typed
  <2> QED
    BY <1>1, <1>3, <1>5, <1>6, <1>9, <1>10, <2>1 DEF Typed
<1>16. Flags'
  BY <1>6 DEF IInv, Flags
<1> QED
  BY <1>1, <1>6, <1>14, <1>15, <1>16 DEF IInv

LEMMA RecordLastKeeps ==
  ASSUME Undisturbed, IInv, Started, RecordLast
  PROVE  IInv'
<1>1. Typed /\ RingHoldsRecording /\ intact
  BY DEF IInv, Started
<1>2. PICK asked \in Nat, pos \in [0 .. Len(events) -> Nat] :
        Reading(asked) /\ Recording(asked, pos)
  BY DEF Started
<1> DEFINE q == Announced(queue, "State", "EOF", "Stop", currentSize)
           e == Notice("State", "EOF", "Stop", currentSize - outgoing)
           pos1 == Extended(events, pos, count)
<1>3. /\ WriteClient(q, "Stop") /\ state = "Start"
      /\ currentSize + Chunk <= DataSize /\ count + Chunk > total
  BY DEF RecordLast, CanWrite, Undisturbed
<1>4. handling /\ Late = 0 /\ Running(events, pos) /\ count <= total
  BY <1>2, <1>3 DEF Recording, Phase
<1>5. /\ data' \in [0 .. DataSize - 1 -> Nat] /\ write' \in 0 .. DataSize - 1
      /\ currentSize' = currentSize + Chunk /\ count' = count + Chunk
      /\ RingHoldsRecording'
  BY <1>1, <1>3, RingWritten
<1>6. /\ state' = "Stop"
      /\ UNCHANGED <<read, total, pc, n, p, toServer, waiting, handling, received, intact>>
      /\ Base' = Base
  BY <1>1, <1>3, WriteAnnounces
<1>7. Reading(asked)'
  BY <1>2, <1>6, ReadingWritten
<1>8. /\ Base \in Nat /\ outgoing \in Nat /\ outgoing <= currentSize /\ currentSize \in Nat
      /\ currentSize <= DataSize /\ count = Base + currentSize /\ count \in Nat
      /\ Base + asked \in Nat /\ Base + outgoing \in Nat
      /\ Even(Base) /\ Even(currentSize) /\ Even(count)
      /\ Positions(events, pos, Base + asked, Base + outgoing)
      /\ events \in Seq(Events)
  BY <1>1, <1>2, Amounts DEF Typed, Recording
<1>9. Even(currentSize') /\ Even(count') /\ Even(read') /\ currentSize' \in Nat /\ count' \in Nat
  <2>1. Even(count) /\ Even(read) /\ count \in Nat /\ Even(Chunk)
    BY <1>1, <1>2 DEF Recording, Typed, Undisturbed
  <2>2. Even(currentSize + Chunk) /\ Even(count + Chunk)
    BY <1>8, <2>1, Sizes, EvenSum
  <2> QED
    BY <1>5, <1>6, <1>8, <2>1, <2>2, Sizes
<1>10. /\ e \in Events /\ e.state = "Stop" /\ e.numBytes = currentSize - outgoing
       /\ q.events = Append(events, e) /\ q.outgoing = currentSize
  <2>1. queue.outgoing = outgoing /\ queue.events = events
    BY DEF queue
  <2>2. queue.outgoing \in Nat /\ queue.outgoing <= currentSize
    BY <1>8, <2>1
  <2>3. LET f == Notice("State", "EOF", "Stop", currentSize - queue.outgoing)
        IN  /\ f \in Events /\ f.state = "Stop" /\ f.numBytes = currentSize - queue.outgoing
            /\ q.events = Append(queue.events, f) /\ q.outgoing = currentSize
    <3>1. currentSize \in Nat /\ currentSize <= DataSize
      BY <1>8
    <3> QED
      BY <2>2, <3>1, AnnouncedIs
  <2> QED
    BY <2>1, <2>3
<1>11. Base + outgoing <= count /\ e.numBytes = count - (Base + outgoing)
  <2>1. Base + outgoing <= count /\ currentSize - outgoing = count - (Base + outgoing)
    BY <1>8
  <2> QED
    BY <1>10, <2>1
<1> HIDE DEF q, e, pos1
<1>12. /\ q.events \in Seq(Events) /\ Len(q.events) = Len(events) + 1
       /\ pos1 \in [0 .. Len(q.events) -> Nat]
       /\ Positions(q.events, pos1, Base + asked, count)
  BY <1>8, <1>10, <1>11, PositionsAppend DEF pos1
<1>13. StoppedAt(q.events, pos1, count, Len(q.events))
  <2>1. StoppedAt(Append(events, e), pos1, count, Len(events) + 1)
    BY <1>4, <1>8, <1>10, <1>11, StopAppended DEF pos1
  <2> QED
    BY <1>10, <1>12, <2>1
<1>14. PICK pos2 \in [0 .. Len(events') -> Nat] :
        /\ events' \in Seq(Events) /\ outgoing' \in 0 .. Word - 1 /\ outgoing' <= currentSize'
        /\ Positions(events', pos2, Base + asked, Base + outgoing')
        /\ Stopped(events', pos2, count)
  <2>1. Len(q.events) \in Nat /\ Len(q.events) >= 1 /\ Len(q.events) \in 1 .. Len(q.events)
    BY <1>8, <1>12
  <2>2. CASE events' = q.events /\ outgoing' = q.outgoing
    <3>1. outgoing' \in 0 .. Word - 1 /\ outgoing' <= currentSize' /\ Base + outgoing' = count
      BY <1>5, <1>8, <1>10, <2>2, Sizes
    <3>2. Stopped(q.events, pos1, count)
      BY <1>13, <2>1 DEF Stopped
    <3> QED
      BY <1>12, <2>2, <3>1, <3>2
  <2>3. CASE ~(events' = q.events /\ outgoing' = q.outgoing)
    <3> DEFINE f == Notice("HighWater", "Watermark", "Stop", currentSize' - currentSize)
               last == Base + currentSize'
    <3>1. /\ currentSize <= currentSize' /\ currentSize' <= DataSize /\ currentSize' < Word
          /\ currentSize' \in Nat
      BY <1>3, <1>5, <1>8, Sizes
    <3>2. LET a == Announced(q, "HighWater", "Watermark", "Stop", currentSize')
          IN events' = a.events /\ outgoing' = a.outgoing
      BY <1>1, <1>3, <2>3, WriteAnnounces
    <3>3. /\ f \in Events /\ f.numBytes = currentSize' - currentSize
          /\ events' = Append(q.events, f) /\ outgoing' = currentSize'
      <4>1. q.outgoing \in Nat /\ q.outgoing <= currentSize'
        BY <1>8, <1>10, <3>1
      <4>2. LET g == Notice("HighWater", "Watermark", "Stop", currentSize' - q.outgoing)
                a == Announced(q, "HighWater", "Watermark", "Stop", currentSize')
            IN  /\ g \in Events /\ g.numBytes = currentSize' - q.outgoing
                /\ a.events = Append(q.events, g) /\ a.outgoing = currentSize'
        BY <3>1, <4>1, AnnouncedIs
      <4> QED
        BY <1>10, <3>2, <4>2
    <3>4. /\ last \in Nat /\ count <= last /\ f.numBytes = last - count
      <4>1. /\ last \in Nat /\ count <= last /\ currentSize' - currentSize = last - count
        BY <1>8, <3>1
      <4> QED
        BY <3>3, <4>1
    <3>5. Even(last)
      BY <1>8, <1>9, EvenSum
    <3>6. last = Base + outgoing'
      BY <3>3
    <3> HIDE DEF f, last
    <3>7. /\ events' \in Seq(Events) /\ Len(events') = Len(q.events) + 1
          /\ Extended(q.events, pos1, last) \in [0 .. Len(q.events) + 1 -> Nat]
          /\ Positions(events', Extended(q.events, pos1, last), Base + asked, last)
      BY <1>8, <1>12, <3>3, <3>4, <3>5, PositionsAppend
    <3>8. StoppedAt(events', Extended(q.events, pos1, last), count, Len(q.events))
      BY <1>8, <1>12, <1>13, <2>1, <3>3, <3>4, <3>5, LateAppended
    <3>9. outgoing' \in 0 .. Word - 1 /\ outgoing' <= currentSize'
      BY <3>1, <3>3, Sizes
    <3>10. Len(q.events) \in 1 .. Len(events')
      BY <2>1, <3>7
    <3>11. Stopped(events', Extended(q.events, pos1, last), count)
      BY <3>8, <3>10 DEF Stopped
    <3> QED
      BY <3>7, <3>6, <3>9, <3>11
  <2> QED
    BY <2>2, <2>3
<1>15. count' - Late' = count
  <2>1. Late' = Chunk
    BY <1>3, <1>5, <1>6 DEF Late
  <2> QED
    BY <1>5, <1>8, <2>1, Sizes
<1>16. Phase(pos2)'
  BY <1>4, <1>6, <1>14, <1>15 DEF Phase
<1>17. Recording(asked, pos2)'
  BY <1>6, <1>9, <1>14, <1>16 DEF Recording
<1>18. Started'
  BY <1>5, <1>7, <1>14, <1>17 DEF Started
<1>19. Typed'
  <2>1. count' <= total' + Chunk
    BY <1>1, <1>4, <1>5, <1>6, <1>8, Sizes, ExportAssumption DEF Typed
  <2> QED
    BY <1>1, <1>3, <1>5, <1>6, <1>9, <1>14, <2>1 DEF Typed
<1>20. Flags'
  BY <1>6 DEF IInv, Flags
<1> QED
  BY <1>1, <1>6, <1>18, <1>19, <1>20 DEF IInv

-----------------------------------------------------------------------------
LEMMA Queues ==
  /\ \A a : Head(<<a>>) = a /\ Tail(<<a>>) = <<>> /\ <<a>> # <<>> /\ Append(<<>>, a) = <<a>>
  /\ \A a, b : /\ Head(<<a, b>>) = a /\ Tail(<<a, b>>) = <<b>> /\ <<a, b>> # <<>>
              /\ Append(<<a>>, b) = <<a, b>>
<1>1. ASSUME NEW a PROVE Head(<<a>>) = a /\ Tail(<<a>>) = <<>> /\ <<a>> # <<>>
  OBVIOUS
<1>2. ASSUME NEW a PROVE Append(<<>>, a) = <<a>>
  OBVIOUS
<1>3. ASSUME NEW a, NEW b PROVE Head(<<a, b>>) = a /\ <<a, b>> # <<>>
  OBVIOUS
<1>4. ASSUME NEW a, NEW b PROVE Tail(<<a, b>>) = <<b>>
  OBVIOUS
<1>5. ASSUME NEW a, NEW b PROVE Append(<<a>>, b) = <<a, b>>
  <2>1. <<a>> \in Seq({a, b}) /\ <<a, b>> \in Seq({a, b}) /\ b \in {a, b}
    OBVIOUS
  <2>2. /\ Append(<<a>>, b) \in Seq({a, b}) /\ Len(Append(<<a>>, b)) = 2
        /\ Append(<<a>>, b)[1] = a /\ Append(<<a>>, b)[2] = b
    BY <2>1, AppendProperties
  <2>3. Len(<<a, b>>) = 2 /\ <<a, b>>[1] = a /\ <<a, b>>[2] = b
    OBVIOUS
  <2>4. \A i \in 1 .. 2 : Append(<<a>>, b)[i] = <<a, b>>[i]
    <3>1. \A i \in 1 .. 2 : i = 1 \/ i = 2
      OBVIOUS
    <3> QED
      BY <2>2, <2>3, <3>1
  <2> QED
    BY <2>1, <2>2, <2>3, <2>4, SeqEqual
<1> QED
  BY <1>1, <1>2, <1>3, <1>4, <1>5

LEMMA Ops ==
  /\ StateRequest("Start").op = "Start" /\ StateRequest("Stop").op = "Stop"
  /\ \A size : ReadRequest(size).op = "Read" /\ ReadRequest(size).numBytes = size
BY DEF StateRequest, ReadRequest

Stop == StateRequest("Stop")
Start == StateRequest("Start")

\* The requests that are waiting, when the head of them is served.
LEMMA HeadServed ==
  ASSUME NEW asked, Reading(asked), pc = "idle", toServer # <<>>
  PROVE  \/ Head(toServer).op = "Stop" /\ Tail(toServer) = <<>> /\ ~waiting
         \/ Head(toServer).op = "Stop" /\ Tail(toServer) = <<ReadRequest(asked)>> /\ waiting
         \/ Head(toServer) = ReadRequest(asked) /\ Tail(toServer) \in {<<>>, <<Stop>>} /\ waiting
<1>1. CASE waiting
  <2>1. toServer \in {<<ReadRequest(asked)>>, <<ReadRequest(asked), Stop>>,
                     <<Stop, ReadRequest(asked)>>}
    BY <1>1 DEF Reading, Stop
  <2>2. CASE toServer = <<ReadRequest(asked)>>
    BY <1>1, <2>2, Queues
  <2>3. CASE toServer = <<ReadRequest(asked), Stop>>
    BY <1>1, <2>3, Queues
  <2>4. CASE toServer = <<Stop, ReadRequest(asked)>>
    BY <1>1, <2>4, Queues, Ops DEF Stop
  <2> QED
    BY <2>1, <2>2, <2>3, <2>4
<1>2. CASE ~waiting
  <2>1. toServer = <<Stop>>
    BY <1>2 DEF Reading, Stop
  <2> QED
    BY <1>2, <2>1, Queues, Ops DEF Stop
<1> QED
  BY <1>1, <1>2

LEMMA ServeStateKeeps ==
  ASSUME Undisturbed, IInv, Started, ServeState
  PROVE  IInv'
<1>1. Typed /\ RingHoldsRecording /\ intact
  BY DEF IInv, Started
<1>2. PICK asked \in Nat, pos \in [0 .. Len(events) -> Nat] :
        Reading(asked) /\ Recording(asked, pos)
  BY DEF Started
<1>3. Head(toServer).op = "Stop" /\ pc = "idle" /\ toServer' = Tail(toServer)
  BY <1>2, HeadServed, Ops DEF ServeState
<1>4. UNCHANGED <<total, count, Late, pc, n, p, waiting, handling, received, intact,
                  data, read, write, currentSize>>
  BY <1>3 DEF ServeState, reader, result, ring, Late
<1>5. Base' = Base
  BY <1>4 DEF Base
<1>6. Reading(asked)'
  <2>1. \/ toServer' = <<>> /\ ~waiting
        \/ toServer' = <<ReadRequest(asked)>> /\ waiting
    BY <1>2, <1>3, HeadServed, Ops DEF ServeState
  <2> QED
    BY <1>2, <1>3, <1>4, <1>5, <2>1 DEF Reading
<1>7. RingHoldsRecording'
  BY <1>1, <1>4, <1>5 DEF RingHoldsRecording
<1>8. /\ Base \in Nat /\ outgoing \in Nat /\ outgoing <= currentSize /\ currentSize \in Nat
      /\ currentSize <= DataSize /\ count = Base + currentSize /\ count \in Nat
      /\ Base + asked \in Nat /\ Base + outgoing \in Nat
      /\ Even(currentSize) /\ Even(count) /\ Even(read)
      /\ Positions(events, pos, Base + asked, Base + outgoing)
      /\ events \in Seq(Events)
  BY <1>1, <1>2, Amounts DEF Typed, Recording
<1>9. CASE state = "Stop"
  <2>1. UNCHANGED <<state, events, outgoing>>
    BY <1>3, <1>9 DEF ServeState, ring
  <2>2. Recording(asked, pos)'
    BY <1>2, <1>4, <1>5, <2>1 DEF Recording, Phase
  <2>3. Started'
    BY <1>6, <1>7, <2>1, <2>2 DEF Started
  <2>4. Typed' /\ Flags' /\ intact'
    BY <1>1, <1>3, <1>4, <2>1 DEF Typed, IInv, Flags
  <2> QED
    BY <2>3, <2>4 DEF IInv
<1>10. CASE state # "Stop"
  <2> DEFINE e == Notice("State", "User", "Stop", currentSize - outgoing)
             more == Extended(events, pos, count)
  <2>1. /\ state' = "Stop"
        /\ LET q == Announced(queue, "State", "User", "Stop", currentSize)
           IN events' = q.events /\ outgoing' = q.outgoing
    BY <1>3, <1>10 DEF ServeState
  <2>2. handling /\ Late = 0 /\ Running(events, pos)
    BY <1>2, <1>10 DEF Recording, Phase
  <2>3. /\ e \in Events /\ e.state = "Stop" /\ e.numBytes = currentSize - outgoing
        /\ events' = Append(events, e) /\ outgoing' = currentSize
    <3>1. queue.outgoing = outgoing /\ queue.events = events
      BY DEF queue
    <3>2. queue.outgoing \in Nat /\ queue.outgoing <= currentSize
      BY <1>8, <3>1
    <3>3. LET f == Notice("State", "User", "Stop", currentSize - queue.outgoing)
              q == Announced(queue, "State", "User", "Stop", currentSize)
          IN  /\ f \in Events /\ f.state = "Stop" /\ f.numBytes = currentSize - queue.outgoing
              /\ q.events = Append(queue.events, f) /\ q.outgoing = currentSize
      <4>1. currentSize \in Nat /\ currentSize <= DataSize
        BY <1>8
      <4> QED
        BY <3>2, <4>1, AnnouncedIs
    <3> QED
      BY <2>1, <3>1, <3>3
  <2>4. Base + outgoing <= count /\ e.numBytes = count - (Base + outgoing)
    <3>1. Base + outgoing <= count /\ currentSize - outgoing = count - (Base + outgoing)
      BY <1>8
    <3> QED
      BY <2>3, <3>1
  <2>5. PICK pos2 \in [0 .. Len(events') -> Nat] :
          /\ events' \in Seq(Events)
          /\ Positions(events', pos2, Base + asked, count)
          /\ Stopped(events', pos2, count)
    <3> HIDE DEF e, more
    <3>1. /\ events' \in Seq(Events) /\ Len(events') = Len(events) + 1
          /\ more \in [0 .. Len(events') -> Nat]
          /\ Positions(events', more, Base + asked, count)
      BY <1>8, <2>3, <2>4, PositionsAppend DEF more
    <3>2. StoppedAt(Append(events, e), more, count, Len(events) + 1)
      BY <1>8, <2>2, <2>3, <2>4, StopAppended DEF more
    <3>3. Len(events) + 1 \in 1 .. Len(events')
      BY <1>8, <3>1
    <3> QED
      BY <2>3, <3>1, <3>2, <3>3 DEF Stopped
  <2>6. count' - Late' = count /\ Base + outgoing' = count
    BY <1>4, <1>8, <2>2, <2>3
  <2>7. Phase(pos2)'
    BY <1>4, <2>1, <2>2, <2>5, <2>6 DEF Phase
  <2>8. Recording(asked, pos2)'
    BY <1>4, <1>5, <1>8, <2>3, <2>5, <2>6, <2>7 DEF Recording
  <2>9. Started'
    BY <1>6, <1>7, <2>5, <2>8 DEF Started
  <2>10. outgoing' \in 0 .. Word - 1
    BY <1>8, <2>3, Sizes
  <2>11. Typed' /\ Flags' /\ intact'
    BY <1>1, <1>3, <1>4, <2>5, <2>10 DEF Typed, IInv, Flags
  <2> QED
    BY <2>9, <2>11 DEF IInv
<1> QED
  BY <1>9, <1>10

\* The steps of a read: the size is taken, the bytes are copied, the pointers
\* move, the client is answered.
LEMMA BeginReadKeeps ==
  ASSUME Undisturbed, IInv, Started, BeginRead
  PROVE  IInv'
<1>1. Typed /\ RingHoldsRecording /\ intact
  BY DEF IInv, Started
<1>2. PICK asked \in Nat, pos \in [0 .. Len(events) -> Nat] :
        Reading(asked) /\ Recording(asked, pos)
  BY DEF Started
<1>3. /\ pc = "idle" /\ toServer # <<>> /\ Head(toServer).op = "Read"
      /\ toServer' = Tail(toServer) /\ pc' = "copy"
      /\ n' = Least(Head(toServer).numBytes, currentSize)
  BY DEF BeginRead
<1>4. UNCHANGED <<data, read, write, currentSize, outgoing, state, events, total, count, Late,
                  p, waiting, handling, received, intact>>
  BY DEF BeginRead, ring, result, Late
<1>5. Head(toServer) = ReadRequest(asked) /\ Tail(toServer) \in {<<>>, <<Stop>>} /\ waiting
  BY <1>2, <1>3, HeadServed, Ops
<1>6. asked <= outgoing /\ outgoing <= currentSize /\ currentSize \in Nat /\ outgoing \in Nat
      /\ currentSize <= DataSize
  BY <1>1, <1>2, Amounts
<1>7. n' = asked /\ n' \in 0 .. DataSize
  <2>1. n' = Least(asked, currentSize)
    BY <1>3, <1>5, Ops
  <2> QED
    BY <1>6, <2>1, Sizes DEF Least
<1>8. Base' = Base
  BY <1>4 DEF Base
<1>9. Reading(asked)'
  BY <1>2, <1>3, <1>4, <1>5, <1>7, <1>8 DEF Reading, Stop
<1>10. Recording(asked, pos)'
  BY <1>2, <1>4, <1>8 DEF Recording, Phase
<1>11. RingHoldsRecording'
  BY <1>1, <1>4, <1>8 DEF RingHoldsRecording
<1>12. Started'
  BY <1>4, <1>9, <1>10, <1>11 DEF Started
<1>13. Typed' /\ Flags' /\ intact'
  BY <1>1, <1>3, <1>4, <1>7 DEF Typed, IInv, Flags
<1> QED
  BY <1>12, <1>13 DEF IInv

LEMMA CopyReplyKeeps ==
  ASSUME Undisturbed, IInv, Started, CopyReply
  PROVE  IInv'
<1>1. Typed /\ RingHoldsRecording /\ intact
  BY DEF IInv, Started
<1>2. PICK asked \in Nat, pos \in [0 .. Len(events) -> Nat] :
        Reading(asked) /\ Recording(asked, pos)
  BY DEF Started
<1>3. /\ pc = "copy" /\ pc' = "commit" /\ p' = Advance(read, n) /\ received' = received + n
      /\ intact' = (/\ intact /\ Written(read, n) = n
                    /\ \A i \in 0 .. n - 1 : data[Wrap(read + i)] = received + 1 + i)
  BY DEF CopyReply
<1>4. UNCHANGED <<data, read, write, currentSize, outgoing, state, events, total, count, Late,
                  n, toServer, waiting, handling>>
  BY DEF CopyReply, ring, client, Late
<1>5. n = asked /\ received = Base
  <2>1. n = asked /\ received = Base + 0
    BY <1>2, <1>3 DEF Reading
  <2>2. Base \in Nat
    BY <1>1, <1>2, Amounts
  <2> QED
    BY <2>1, <2>2
<1>6. /\ asked <= outgoing /\ outgoing <= currentSize /\ currentSize \in Nat
      /\ outgoing \in Nat /\ Even(asked) /\ Base \in Nat
  BY <1>1, <1>2, Amounts
<1>7. Written(read, n) = n /\ Advance(read, n) = Wrap(read + n)
  <2>1. /\ Even(DataSize) /\ read \in 0 .. DataSize - 1 /\ Even(read)
        /\ n \in 0 .. DataSize /\ Even(n)
    BY <1>1, <1>2, <1>5, <1>6 DEF Typed, Recording, Undisturbed
  <2> QED
    BY <2>1, SplitAddsUp
<1>8. intact'
  <2>1. \A i \in 0 .. n - 1 : data[Wrap(read + i)] = received + 1 + i
    <3>1. \A i \in 0 .. n - 1 : i \in 0 .. currentSize - 1
      BY <1>5, <1>6
    <3> QED
      BY <1>1, <1>5, <3>1 DEF RingHoldsRecording
  <2> QED
    BY <1>1, <1>3, <1>7, <2>1
<1>9. Base' = Base
  BY <1>4 DEF Base
<1>10. p' = Wrap(read' + n') /\ received' = Base' + n'
  BY <1>3, <1>4, <1>5, <1>7, <1>9
<1>11. Reading(asked)'
  BY <1>2, <1>3, <1>4, <1>10 DEF Reading
<1>12. Recording(asked, pos)'
  BY <1>2, <1>4, <1>9 DEF Recording, Phase
<1>13. RingHoldsRecording'
  BY <1>1, <1>4, <1>9 DEF RingHoldsRecording
<1>14. Started'
  BY <1>4, <1>11, <1>12, <1>13 DEF Started
<1>15. p' \in 0 .. DataSize - 1 /\ received' \in Nat
  <2>1. read \in 0 .. DataSize - 1 /\ n \in 0 .. DataSize /\ received \in Nat
    BY <1>1 DEF Typed
  <2> QED
    BY <1>3, <1>7, <2>1, Sizes DEF Wrap
<1>16. Typed' /\ Flags'
  BY <1>1, <1>3, <1>4, <1>15 DEF Typed, IInv, Flags
<1> QED
  BY <1>8, <1>14, <1>16 DEF IInv

LEMMA CommitReadKeeps ==
  ASSUME Undisturbed, IInv, Started, CommitRead
  PROVE  IInv'
<1>1. Typed /\ RingHoldsRecording /\ intact
  BY DEF IInv, Started
<1>2. PICK asked \in Nat, pos \in [0 .. Len(events) -> Nat] :
        Reading(asked) /\ Recording(asked, pos)
  BY DEF Started
<1>3. /\ pc = "commit" /\ pc' = "restart" /\ outgoing' = (outgoing - n) % Word
      /\ currentSize' = currentSize - n /\ read' = p
  BY DEF CommitRead
<1>4. UNCHANGED <<data, write, state, events, total, count, Late, n, p,
                  toServer, waiting, handling, received, intact>>
  BY DEF CommitRead, client, result, Late
<1>5. n = asked /\ p = Wrap(read + n) /\ received = Base + n
  BY <1>2, <1>3 DEF Reading
<1>6. /\ Base \in Nat /\ outgoing \in Nat /\ n <= outgoing /\ outgoing <= currentSize
      /\ currentSize \in Nat /\ currentSize <= DataSize /\ count = Base + currentSize
      /\ n \in Nat /\ count \in Nat /\ Even(n) /\ Even(currentSize) /\ Even(count)
      /\ Positions(events, pos, Base + n, Base + outgoing)
  BY <1>1, <1>2, <1>5, Amounts DEF Typed, Recording
<1>7. /\ read \in 0 .. DataSize - 1 /\ Even(read) /\ Even(DataSize)
  BY <1>1, <1>2 DEF Typed, Recording, Undisturbed
<1>8. outgoing' = outgoing - n
  <2>1. outgoing - n \in Nat /\ outgoing - n < Word
    BY <1>6, Sizes
  <2> QED
    BY <1>3, <2>1, SmallMod
<1>9. Base' = Base + n
  BY <1>3, <1>4, <1>6 DEF Base
<1>10. read' = Wrap(read + n) /\ read' \in 0 .. DataSize - 1 /\ Even(read')
  <2>1. read' = Wrap(read + n)
    BY <1>3, <1>5
  <2>2. Even(read + n) /\ Even((read + n) - DataSize)
    BY <1>6, <1>7, Sizes, EvenSum
  <2>3. n <= DataSize
    BY <1>6, Sizes
  <2> QED
    BY <1>6, <1>7, <2>1, <2>2, <2>3, Sizes DEF Wrap
<1>11. Reading(0)'
  <2>1. received' = Base' + 0
    BY <1>4, <1>5, <1>6, <1>9
  <2> QED
    BY <1>2, <1>3, <1>4, <2>1 DEF Reading
<1>12. Recording(0, pos)'
  <2>1. Base' + 0 = Base + n /\ Base' + outgoing' = Base + outgoing
    BY <1>6, <1>8, <1>9
  <2>2. outgoing' <= currentSize' /\ Even(currentSize')
    BY <1>3, <1>6, <1>8, EvenSum
  <2>3. Phase(pos)'
    BY <1>2, <1>4 DEF Recording, Phase
  <2> QED
    BY <1>4, <1>6, <1>10, <2>1, <2>2, <2>3 DEF Recording
<1>13. RingHoldsRecording'
  <2>1. currentSize' <= DataSize /\ currentSize' <= count' /\ currentSize' \in Nat
    BY <1>3, <1>4, <1>6, Sizes
  <2>2. write' = Wrap(read' + currentSize')
    <3>1. write = Wrap(read + currentSize)
      BY <1>1 DEF RingHoldsRecording
    <3>2. Wrap(read + currentSize) = Wrap(Wrap(read + n) + (currentSize - n))
      BY <1>6, <1>7, Sizes DEF Wrap
    <3> QED
      BY <1>3, <1>4, <1>10, <3>1, <3>2
  <2>3. ASSUME NEW i \in 0 .. currentSize' - 1
        PROVE  data'[Wrap(read' + i)] = Base' + 1 + i
    <3>1. i + n \in 0 .. currentSize - 1 /\ i \in Nat
      BY <1>3, <1>6, <2>3
    <3>2. data[Wrap(read + (i + n))] = Base + 1 + (i + n)
      BY <1>1, <3>1 DEF RingHoldsRecording
    <3>3. Wrap(read + (i + n)) = Wrap(Wrap(read + n) + i)
      BY <1>6, <1>7, <3>1, Sizes DEF Wrap
    <3>4. Base + 1 + (i + n) = Base + n + 1 + i
      BY <1>6, <3>1
    <3>5. data' = data /\ read' = Wrap(read + n) /\ Base' = Base + n
      BY <1>4, <1>9, <1>10
    <3> QED
      BY <3>2, <3>3, <3>4, <3>5
  <2> QED
    BY <2>1, <2>2, <2>3 DEF RingHoldsRecording
<1>14. Started'
  BY <1>4, <1>11, <1>12, <1>13 DEF Started
<1>15. outgoing' \in 0 .. Word - 1 /\ currentSize' \in Nat
  BY <1>3, <1>6, <1>8, Sizes
<1>16. Typed' /\ Flags' /\ intact'
  BY <1>1, <1>3, <1>4, <1>10, <1>15 DEF Typed, IInv, Flags
<1> QED
  BY <1>14, <1>16 DEF IInv

LEMMA RestartPausedKeeps ==
  ASSUME Undisturbed, IInv, Started, RestartPaused
  PROVE  IInv'
<1>1. Typed /\ RingHoldsRecording /\ intact
  BY DEF IInv, Started
<1>2. PICK asked \in Nat, pos \in [0 .. Len(events) -> Nat] :
        Reading(asked) /\ Recording(asked, pos)
  BY DEF Started
<1>3. state # "Pause"
  BY <1>2 DEF Recording, Phase
<1>4. /\ pc = "restart" /\ pc' = "idle" /\ waiting' = FALSE
      /\ UNCHANGED <<data, read, write, currentSize, outgoing, state, events, total, count,
                     Late, n, p, toServer, handling, received, intact>>
  BY <1>3 DEF RestartPaused, ring, result, Late
<1>5. Base' = Base
  BY <1>4 DEF Base
<1>6. Reading(asked)'
  BY <1>2, <1>4, <1>5 DEF Reading
<1>7. Recording(asked, pos)'
  BY <1>2, <1>4, <1>5 DEF Recording, Phase
<1>8. RingHoldsRecording'
  BY <1>1, <1>4, <1>5 DEF RingHoldsRecording
<1>9. Started'
  BY <1>4, <1>6, <1>7, <1>8 DEF Started
<1>10. Typed' /\ Flags' /\ intact'
  BY <1>1, <1>4 DEF Typed, IInv, Flags
<1> QED
  BY <1>9, <1>10 DEF IInv

\* The client asks for what the first event announces.
LEMMA HandleEventKeeps ==
  ASSUME Undisturbed, IInv, Started, HandleEvent
  PROVE  IInv'
<1>1. Typed /\ RingHoldsRecording /\ intact
  BY DEF IInv, Started
<1>2. PICK asked \in Nat, pos \in [0 .. Len(events) -> Nat] :
        Reading(asked) /\ Recording(asked, pos)
  BY DEF Started
<1>3. /\ handling /\ ~waiting /\ events # <<>>
      /\ toServer' = Append(toServer, ReadRequest(Head(events).numBytes))
      /\ waiting' = TRUE /\ handling' = (Head(events).state # "Stop")
      /\ events' = Tail(events)
  BY DEF HandleEvent
<1>4. UNCHANGED <<data, read, write, currentSize, outgoing, state, total, count, Late,
                  pc, n, p, received, intact>>
  BY DEF HandleEvent, ring, reader, result, Late
<1>5. Base' = Base
  BY <1>4 DEF Base
<1>6. pc = "idle" /\ asked = 0 /\ toServer \in {<<>>, <<Stop>>}
  BY <1>2, <1>3 DEF Reading, Stop
<1>7. /\ Base \in Nat /\ outgoing \in Nat /\ outgoing <= currentSize
      /\ currentSize \in Nat /\ currentSize <= DataSize
      /\ Base + outgoing \in Nat /\ events \in Seq(Events) /\ Len(events) \in Nat
      /\ Positions(events, pos, Base + asked, Base + outgoing) /\ Base + asked \in Nat
  <2>1. events \in Seq(Events)
    BY <1>1 DEF Typed
  <2>2. Len(events) \in Nat
    BY <2>1
  <2> QED
    BY <1>1, <1>2, <2>1, <2>2, Amounts
<1>8. PICK pos2 \in [0 .. Len(events') -> Nat], size \in Nat :
        /\ pos2 = Shifted(events, pos) /\ size = Head(events).numBytes
        /\ events' \in Seq(Events) /\ pos2[0] = pos[1] /\ pos[1] = Base + size
        /\ Positions(events', pos2, Base + size, Base + outgoing)
  <2>1. /\ Len(events) >= 1 /\ Tail(events) \in Seq(Events) /\ Len(Tail(events)) = Len(events) - 1
        /\ pos[1] \in Nat /\ Base + asked <= pos[1]
        /\ Head(events).numBytes = pos[1] - (Base + asked)
        /\ Shifted(events, pos) \in [0 .. Len(events) - 1 -> Nat]
        /\ Positions(Tail(events), Shifted(events, pos), pos[1], Base + outgoing)
    BY <1>3, <1>7, PositionsTail
  <2>2. /\ pos[1] - (Base + asked) \in Nat
        /\ Base + (pos[1] - (Base + asked)) = pos[1]
    BY <1>6, <1>7, <2>1
  <2>3. Head(events).numBytes \in Nat /\ Base + Head(events).numBytes = pos[1]
    BY <2>1, <2>2
  <2>4. Shifted(events, pos)[0] = pos[1]
    BY <2>1 DEF Positions
  <2> QED
    BY <1>3, <2>1, <2>3, <2>4
<1>9. Reading(size)'
  <2>1. toServer' \in {<<ReadRequest(size)>>, <<Stop, ReadRequest(size)>>}
    BY <1>3, <1>6, <1>8, Queues
  <2>2. received = Base + 0 /\ pc' = "idle" /\ waiting'
    BY <1>2, <1>3, <1>4, <1>6 DEF Reading
  <2>3. received' = Base' + 0
    BY <1>4, <1>5, <2>2
  <2> QED
    BY <2>1, <2>2, <2>3 DEF Reading, Stop
<1>10. Phase(pos2)'
  <2>1. CASE /\ state = "Start" /\ Late = 0 /\ count <= total /\ Running(events, pos)
    <3>1. Head(events).state = "Start" /\ Running(events', pos2)
      BY <1>3, <1>7, <1>8, <2>1, RunningTail
    <3> QED
      BY <1>3, <1>4, <2>1, <3>1 DEF Phase
  <2>2. CASE state = "Stop" /\ Stopped(events, pos, count - Late)
    <3>1. \/ Head(events).state = "Start" /\ Stopped(events', pos2, count - Late)
          \/ Head(events).state = "Stop" /\ pos[1] = count - Late /\ Len(events') <= 1
      BY <1>3, <1>7, <1>8, <2>2, StoppedTail
    <3> QED
      BY <1>3, <1>4, <1>8, <2>2, <3>1 DEF Phase
  <2> QED
    BY <1>2, <1>3, <2>1, <2>2 DEF Recording, Phase
<1>11. Recording(size, pos2)'
  BY <1>2, <1>4, <1>5, <1>8, <1>10 DEF Recording
<1>12. RingHoldsRecording'
  BY <1>1, <1>4, <1>5 DEF RingHoldsRecording
<1>13. Started'
  BY <1>8, <1>9, <1>11, <1>12 DEF Started
<1>14. Typed' /\ Flags' /\ intact'
  BY <1>1, <1>3, <1>4, <1>8 DEF Typed, IInv, Flags
<1> QED
  BY <1>13, <1>14 DEF IInv

LEMMA UserStopsKeeps ==
  ASSUME Undisturbed, IInv, Started, UserStops
  PROVE  IInv'
<1>1. Typed /\ RingHoldsRecording /\ intact
  BY DEF IInv, Started
<1>2. PICK asked \in Nat, pos \in [0 .. Len(events) -> Nat] :
        Reading(asked) /\ Recording(asked, pos)
  BY DEF Started
<1>3. /\ handling /\ ~waiting /\ toServer' = Append(toServer, Stop)
      /\ \A i \in 1 .. Len(toServer) : toServer[i].op # "Stop"
  BY DEF UserStops, Stop
<1>4. UNCHANGED <<data, read, write, currentSize, outgoing, state, events, total, count, Late,
                  pc, n, p, waiting, handling, received, intact>>
  BY DEF UserStops, ring, reader, result, Late
<1>5. toServer' = <<Stop>>
  <2>1. toServer \in {<<>>, <<Stop>>}
    BY <1>2, <1>3 DEF Reading, Stop
  <2>2. toServer # <<Stop>>
    <3>1. Len(<<Stop>>) = 1 /\ <<Stop>>[1] = Stop /\ Stop.op = "Stop" /\ 1 \in 1 .. 1
      BY Ops DEF Stop
    <3> QED
      BY <1>3, <3>1
  <2> QED
    BY <1>3, <2>1, <2>2, Queues
<1>6. Base' = Base
  BY <1>4 DEF Base
<1>7. Reading(asked)'
  BY <1>2, <1>3, <1>4, <1>5, <1>6 DEF Reading, Stop
<1>8. Recording(asked, pos)'
  BY <1>2, <1>4, <1>6 DEF Recording, Phase
<1>9. RingHoldsRecording'
  BY <1>1, <1>4, <1>6 DEF RingHoldsRecording
<1>10. Started'
  BY <1>4, <1>7, <1>8, <1>9 DEF Started
<1>11. Typed' /\ Flags' /\ intact'
  BY <1>1, <1>4 DEF Typed, IInv, Flags
<1> QED
  BY <1>10, <1>11 DEF IInv

-----------------------------------------------------------------------------
\* The first step of the server clears the port.
LEMMA StartClears ==
  ASSUME IInv, Fresh, ServeState
  PROVE  IInv'
<1>1. /\ Head(toServer).op = "Start" /\ Tail(toServer) \in {<<>>, <<Stop>>}
  <2>1. toServer \in {<<Start>>, <<Start, Stop>>}
    BY DEF Fresh, Start, Stop
  <2> QED
    BY <2>1, Queues, Ops DEF Start
<1>2. /\ toServer' \in {<<>>, <<Stop>>} /\ state' = "Start"
      /\ read' = 0 /\ write' = 0 /\ currentSize' = 0 /\ outgoing' = 0
      /\ UNCHANGED <<data, events>>
  BY <1>1 DEF ServeState, Fresh
<1>3. /\ UNCHANGED <<total, count, Late, pc, n, p, waiting, handling, received, intact>>
      /\ handling /\ ~waiting /\ pc = "idle" /\ events = <<>> /\ count = 0 /\ Late = 0
      /\ received = 0
  <2>1. total \in Nat
    BY ExportAssumption DEF IInv, Typed
  <2>2. ~(0 > total) /\ count = 0
    BY <2>1 DEF Fresh
  <2>3. UNCHANGED <<total, count, pc, n, p, waiting, handling, received, intact>>
    BY DEF ServeState, reader, result
  <2>4. Late = 0 /\ Late' = 0
    BY <2>2, <2>3 DEF Late
  <2> QED
    BY <2>2, <2>3, <2>4 DEF Fresh
<1>4. Base' = 0
  BY <1>2, <1>3 DEF Base
<1>5. Reading(0)'
  BY <1>2, <1>3, <1>4 DEF Reading, Stop
<1>6. RingHoldsRecording'
  BY <1>2, <1>3, <1>4, Sizes DEF RingHoldsRecording, Wrap
<1>7. Len(events) = 0 /\ events' = events
  BY <1>2, <1>3
<1>8. PICK pos \in [0 .. Len(events') -> Nat] : pos[0] = 0
  <2> DEFINE zero == [k \in 0 .. 0 |-> 0]
  <2>1. zero \in [0 .. 0 -> Nat] /\ zero[0] = 0
    OBVIOUS
  <2>2. [0 .. Len(events') -> Nat] = [0 .. 0 -> Nat]
    BY <1>7
  <2> HIDE DEF zero
  <2> QED
    BY <2>1, <2>2
<1>9. \A k \in 0 .. 0 : k = 0
  OBVIOUS
<1>10. Even(0)
  BY DEF Even
<1>11. \A k : k \notin 1 .. 0
  OBVIOUS
<1>12. Recording(0, pos)'
  <2>1. Positions(events', pos, 0, 0)
    BY <1>7, <1>8, <1>9, <1>10, <1>11 DEF Positions
  <2>2. count <= total
    BY <1>3, ExportAssumption DEF IInv, Typed
  <2>3. Distinct(pos, 0)
    BY <1>8, <1>9 DEF Distinct
  <2>4. Phase(pos)'
    BY <1>2, <1>3, <1>7, <1>11, <2>2, <2>3 DEF Phase, Running
  <2>5. Base' + 0 = 0 /\ Base' + outgoing' = 0
    BY <1>2, <1>4
  <2> QED
    BY <1>2, <1>3, <1>10, <2>1, <2>4, <2>5 DEF Recording
<1>13. Started'
  BY <1>5, <1>6, <1>8, <1>12 DEF Started
<1>14. Typed' /\ Flags' /\ intact'
  BY <1>2, <1>3, Sizes DEF IInv, Typed, Flags
<1> QED
  BY <1>13, <1>14 DEF IInv

LEMMA StopsBeforeStart ==
  ASSUME IInv, Fresh, UserStops
  PROVE  IInv'
<1>1. /\ toServer' = Append(toServer, Stop)
      /\ \A i \in 1 .. Len(toServer) : toServer[i].op # "Stop"
      /\ UNCHANGED <<data, read, write, currentSize, outgoing, state, events, total, count, Late,
                     pc, n, p, waiting, handling, received, intact>>
  BY DEF UserStops, ring, reader, result, Stop, Late
<1>2. toServer = <<Start>>
  <2>1. toServer # <<Start, Stop>>
    <3>1. Len(<<Start, Stop>>) = 2 /\ <<Start, Stop>>[2] = Stop /\ Stop.op = "Stop"
      BY Ops DEF Stop
    <3>2. 2 \in 1 .. 2
      OBVIOUS
    <3> QED
      BY <1>1, <3>1, <3>2
  <2> QED
    BY <2>1 DEF Fresh, Start, Stop
<1>3. toServer' = <<Start, Stop>>
  BY <1>1, <1>2, Queues
<1>4. Fresh'
  BY <1>1, <1>3 DEF Fresh, Start, Stop
<1> QED
  BY <1>1, <1>4 DEF IInv, Typed, Flags

LEMMA FreshKeeps ==
  ASSUME IInv, Fresh, Next
  PROVE  IInv'
<1>1. Head(toServer).op = "Start"
  <2>1. toServer \in {<<Start>>, <<Start, Stop>>}
    BY DEF Fresh, Start, Stop
  <2> QED
    BY <2>1, Queues, Ops DEF Start
<1>2. ServeState \/ UserStops
  BY <1>1 DEF Fresh, Next, Interrupt, Server, Record, RecordLast, CanWrite, BeginRead,
              CopyReply, CommitRead, RestartPaused, HandleEvent
<1> QED
  BY <1>2, StartClears, StopsBeforeStart

-----------------------------------------------------------------------------
LEMMA InitHolds == Init => IInv
<1> SUFFICES ASSUME Init PROVE IInv
  OBVIOUS
<1>1. data \in [0 .. DataSize - 1 -> Nat] /\ outgoing \in 0 .. Word - 1 /\ events \in Seq(Events)
  <2>1. [i \in 0 .. DataSize - 1 |-> 0] \in [0 .. DataSize - 1 -> Nat]
    OBVIOUS
  <2>2. <<>> \in Seq(Events)
    OBVIOUS
  <2> QED
    BY <2>1, <2>2, Sizes DEF Init
<1>2. count <= total + Chunk /\ total \in Totals
  BY ExportAssumption, Sizes DEF Init
<1>3. /\ read \in 0 .. DataSize - 1 /\ write \in 0 .. DataSize - 1 /\ currentSize \in Nat
      /\ count \in Nat /\ n \in 0 .. DataSize /\ p \in 0 .. DataSize - 1
      /\ received \in Nat
  BY Sizes DEF Init
<1>4. Typed
  BY <1>1, <1>2, <1>3 DEF Typed, Init
<1> QED
  BY <1>4 DEF Init, IInv, Flags, Fresh

LEMMA NextKeeps ==
  ASSUME Undisturbed, IInv, [Next]_vars
  PROVE  IInv'
<1>1. CASE UNCHANGED vars
  <2>1. UNCHANGED <<data, read, write, currentSize, outgoing, state, events, total, count, Late,
                    pc, n, p, toServer, waiting, handling, received, intact>>
    BY <1>1 DEF vars, ring, reader, client, result, Late
  <2>2. Base' = Base
    BY <2>1 DEF Base
  <2>3. ASSUME Started PROVE Started'
    <3>1. PICK asked \in Nat, pos \in [0 .. Len(events) -> Nat] :
            Reading(asked) /\ Recording(asked, pos)
      BY <2>3 DEF Started
    <3>2. Reading(asked)' /\ Recording(asked, pos)' /\ RingHoldsRecording'
      BY <2>1, <2>2, <2>3, <3>1 DEF Reading, Recording, Phase, Started, RingHoldsRecording
    <3> QED
      BY <2>1, <3>1, <3>2 DEF Started
  <2>4. ASSUME Fresh PROVE Fresh'
    BY <2>1, <2>4 DEF Fresh
  <2> QED
    BY <2>1, <2>3, <2>4 DEF IInv, Typed, Flags
<1>2. CASE Next /\ Fresh
  BY <1>2, FreshKeeps
<1>3. CASE Next /\ Started
  BY <1>3, RecordKeeps, RecordLastKeeps, ServeStateKeeps, BeginReadKeeps, CopyReplyKeeps,
     CommitReadKeeps, RestartPausedKeeps, HandleEventKeeps, UserStopsKeeps
     DEF Next, Interrupt, Server
<1> QED
  BY <1>1, <1>2, <1>3 DEF IInv

LEMMA Inductive == Undisturbed => (Spec => []IInv)
<1> SUFFICES ASSUME Undisturbed PROVE Spec => []IInv
  OBVIOUS
<1>1. IInv /\ [Next]_vars => IInv'
  BY NextKeeps
<1> QED
  BY <1>1, InitHolds, PTL DEF Spec

-----------------------------------------------------------------------------
\* There are never more events than bytes they announce, and two.
LEMMA RoomForEvents ==
  ASSUME Undisturbed, IInv
  PROVE  Len(events) + 2 <= MaxEvents
<1>1. Typed /\ MaxEvents \in Nat /\ Len(events) \in Nat
  <2>1. events \in Seq(Events)
    BY DEF IInv, Typed
  <2> QED
    BY <2>1, ExportAssumption DEF IInv
<1> DEFINE m == Len(events)
<1>2. CASE Fresh
  <2>1. m = 0
    BY <1>2 DEF Fresh
  <2> QED
    BY <1>1, <2>1, Sizes DEF Undisturbed
<1>3. CASE Started
  <2>1. PICK asked \in Nat, pos \in [0 .. m -> Nat] :
          RingHoldsRecording /\ Recording(asked, pos)
    BY <1>3 DEF Started
  <2>2. /\ Base \in Nat /\ outgoing \in Nat /\ outgoing <= DataSize
        /\ pos[0] = Base + asked /\ pos[m] = Base + outgoing
        /\ \A j, k \in 0 .. m : j <= k => pos[j] <= pos[k]
    <3>1. /\ Base \in Nat /\ outgoing \in Nat /\ outgoing <= currentSize
          /\ currentSize \in Nat /\ currentSize <= DataSize
          /\ Positions(events, pos, Base + asked, Base + outgoing)
      BY <1>1, <2>1, Amounts
    <3> QED
      BY <3>1, Sizes DEF Positions
  <2> HIDE DEF m
  <2>3. m \in Nat /\ 0 \in 0 .. m /\ m \in 0 .. m
    BY <1>1 DEF m
  <2>4. CASE Running(events, pos)
    <3>1. m - 0 <= pos[m] - pos[0]
      BY <2>3, <2>4 DEF Running, Distinct, m
    <3>2. m <= DataSize
      BY <2>2, <2>3, <3>1, Sizes
    <3> QED
      BY <1>1, <2>3, <3>2, Sizes DEF Undisturbed, m
  <2>5. CASE \E last : Stopped(events, pos, last)
    <3>1. PICK last : Stopped(events, pos, last)
      BY <2>5
    <3>2. PICK s \in 1 .. m : StoppedAt(events, pos, last, s)
      BY <3>1 DEF Stopped, m
    <3>3. m <= s + 1 /\ Distinct(pos, s - 1)
      BY <3>2 DEF StoppedAt, m
    <3>4. 0 \in 0 .. s - 1 /\ s - 1 \in 0 .. s - 1 /\ s - 1 \in 0 .. m /\ 0 <= s - 1
          /\ s \in Nat /\ s - 1 <= m
      BY <2>3
    <3>5. (s - 1) - 0 <= pos[s - 1] - pos[0]
      BY <3>3, <3>4 DEF Distinct
    <3>6. pos[s - 1] <= pos[m] /\ pos[s - 1] \in Nat
      BY <2>1, <2>2, <2>3, <3>4 DEF m
    <3>7. s - 1 <= DataSize
      BY <2>2, <3>4, <3>5, <3>6, Sizes
    <3> QED
      BY <1>1, <2>3, <3>3, <3>4, <3>7, Sizes DEF Undisturbed, m
  <2>6. CASE m <= 1
    BY <1>1, <2>3, <2>6, Sizes DEF Undisturbed, m
  <2> QED
    BY <2>1, <2>4, <2>5, <2>6 DEF Recording, Phase, m
<1> QED
  BY <1>2, <1>3 DEF IInv

LEMMA InOrder ==
  ASSUME Undisturbed, IInv
  PROVE  ReadsInOrder
<1>1. Len(events) + 2 <= MaxEvents
  BY RoomForEvents
<1>2. /\ currentSize \in 0 .. Word - 1 /\ state \in {"Stop", "Pause", "Start"}
      /\ received \in 0 .. count
  <2>1. CASE Fresh
    BY <2>1, Sizes DEF Fresh
  <2>2. CASE Started
    <3>1. PICK asked \in Nat, pos \in [0 .. Len(events) -> Nat] :
            RingHoldsRecording /\ Reading(asked) /\ Recording(asked, pos)
      BY <2>2 DEF Started
    <3>2. state \in {"Stop", "Pause", "Start"}
      BY <3>1 DEF Recording, Phase
    <3>3. /\ Base \in Nat /\ asked <= outgoing /\ outgoing <= currentSize /\ outgoing \in Nat
          /\ currentSize \in Nat /\ currentSize <= DataSize /\ count = Base + currentSize
      BY <3>1, Amounts DEF IInv
    <3>4. received = Base \/ received = Base + asked
      <4>1. CASE pc = "commit"
        BY <3>1, <4>1 DEF Reading
      <4>2. CASE pc # "commit"
        <5>1. received = Base + 0
          BY <3>1, <4>2 DEF Reading
        <5> QED
          BY <3>3, <5>1
      <4> QED
        BY <4>1, <4>2
    <3>5. received \in 0 .. count
      BY <3>3, <3>4
    <3> QED
      BY <3>2, <3>3, <3>5, Sizes
  <2> QED
    BY <2>1, <2>2 DEF IInv
<1>3. /\ write \in 0 .. DataSize /\ n \in 0 .. Word - 1 /\ count \in 0 .. total + Chunk
  <2>1. write \in 0 .. DataSize - 1 /\ n \in 0 .. DataSize /\ count \in Nat /\ count <= total + Chunk
        /\ total \in Nat
    BY ExportAssumption DEF IInv, Typed
  <2> QED
    BY <2>1, Sizes
<1> QED
  BY <1>1, <1>2, <1>3 DEF IInv, Typed, Flags, ReadsInOrder, TypeOK

\* The device is asked for samples that fill the interrupts' chunks.
WholeChunks == \A t \in Totals : \E k \in Nat : t = k * Chunk

\* Whole chunks are recorded.
Recorded == \E k \in Nat : count = k * Chunk

LEMMA RecordedKeeps ==
  /\ Init => Recorded
  /\ Recorded /\ [Next]_vars => Recorded'
<1>1. Init => Recorded
  <2>1. 0 = 0 * Chunk
    BY Sizes
  <2> QED
    BY <2>1 DEF Init, Recorded
<1>2. ASSUME Recorded, [Next]_vars PROVE Recorded'
  <2>1. CASE count' = count
    BY <1>2, <2>1 DEF Recorded
  <2>2. CASE count' = count + Chunk
    <3>1. PICK k \in Nat : count = k * Chunk
      BY <1>2 DEF Recorded
    <3>2. (k + 1) * Chunk = k * Chunk + Chunk
      BY Sizes, Z3
    <3>3. k + 1 \in Nat /\ count' = (k + 1) * Chunk
      BY <2>2, <3>1, <3>2
    <3> QED
      BY <3>3 DEF Recorded
  <2>3. Record \/ RecordLast => count' = count + Chunk
    BY DEF Record, RecordLast, WriteClient
  <2>4. Server \/ HandleEvent \/ UserStops \/ UNCHANGED vars => count' = count
    BY DEF Server, ServeState, BeginRead, CopyReply, CommitRead, RestartPaused, HandleEvent, UserStops, vars
  <2> QED
    BY <1>2, <2>1, <2>2, <2>3, <2>4 DEF Next, Interrupt
<1> QED
  BY <1>1, <1>2

\* What is recorded beyond the samples asked for is one chunk.
LEMMA OneChunkMore ==
  ASSUME NEW j \in Nat, NEW k \in Nat, j * Chunk < k * Chunk, k * Chunk <= j * Chunk + Chunk
  PROVE  k * Chunk - Chunk = j * Chunk
<1>1. j * Chunk \in Nat /\ k * Chunk \in Nat /\ Chunk \in Nat
  BY Sizes
<1>2. j < k
  <2>1. SUFFICES ASSUME k <= j PROVE FALSE
    OBVIOUS
  <2>2. k * Chunk <= j * Chunk
    BY <2>1, Sizes, Z3
  <2> QED
    BY <1>1, <2>2
<1>3. k <= j + 1
  <2>1. SUFFICES ASSUME j + 2 <= k PROVE FALSE
    OBVIOUS
  <2>2. (j + 2) * Chunk <= k * Chunk
    BY <2>1, Sizes, Z3
  <2>3. (j + 2) * Chunk = j * Chunk + Chunk + Chunk
    BY Sizes, Z3
  <2> QED
    BY <1>1, <2>2, <2>3, Sizes
<1>4. k = j + 1
  BY <1>2, <1>3
<1>5. (j + 1) * Chunk = j * Chunk + Chunk
  BY Sizes, Z3
<1> QED
  BY <1>1, <1>4, <1>5

LEMMA AllRead ==
  ASSUME Undisturbed, WholeChunks, IInv, Recorded
  PROVE  NothingLeftBehind
<1> SUFFICES ASSUME ~handling, ~waiting PROVE received = Least(total, count)
  BY DEF NothingLeftBehind
<1>1. PICK asked \in Nat, pos \in [0 .. Len(events) -> Nat] :
        RingHoldsRecording /\ Reading(asked) /\ Recording(asked, pos)
  BY DEF IInv, Started, Fresh
<1>2. asked = 0 /\ received = Base + 0
  BY <1>1 DEF Reading
<1>3. pos[0] = Base + asked /\ pos[0] = count - Late
  BY <1>1 DEF Recording, Phase, Positions
<1>4. received = count - Late
  BY <1>2, <1>3
<1>5. count \in Nat /\ total \in Totals /\ total \in Nat /\ count <= total + Chunk
  BY ExportAssumption DEF IInv, Typed
<1>6. CASE count <= total
  BY <1>4, <1>5, <1>6 DEF Late, Least
<1>7. CASE total < count
  <2>1. PICK j \in Nat, k \in Nat : total = j * Chunk /\ count = k * Chunk
    BY <1>5 DEF WholeChunks, Recorded
  <2>2. count - Chunk = total
    BY <1>5, <1>7, <2>1, OneChunkMore
  <2> QED
    BY <1>4, <1>5, <1>7, <2>2 DEF Late, Least
<1> QED
  BY <1>5, <1>6, <1>7

-----------------------------------------------------------------------------
\* The client receives every byte once and in order, for a port, a chunk and a
\* recording of any size: although the reply is copied from the ring outside of
\* the block, and in pieces when it wraps, while the interrupt writes
\* (ProcAuReadElement, audispatch.c:1379-1412; writeClient, auprocess.c:607-645).
THEOREM RecordingReadInOrder == Undisturbed => (Spec => []ReadsInOrder)
<1> SUFFICES ASSUME Undisturbed PROVE Spec => []ReadsInOrder
  OBVIOUS
<1>1. IInv => ReadsInOrder
  BY InOrder
<1> QED
  BY <1>1, Inductive, PTL

\* When it has handled the Stop event the client has all the samples that it asked
\* for, or all that were recorded if the application stopped the flow before
\* (EventHandler, soundlib.c:434-438), for recordings of whole chunks: of others the
\* device's end comes too early for the last samples (readDevice, auprocess.c:565-578).
THEOREM RecordingReadWhole == Undisturbed /\ WholeChunks => (Spec => []NothingLeftBehind)
<1> SUFFICES ASSUME Undisturbed, WholeChunks PROVE Spec => []NothingLeftBehind
  OBVIOUS
<1>1. IInv /\ Recorded => NothingLeftBehind
  BY AllRead
<1>2. Spec => []Recorded
  BY RecordedKeeps, PTL DEF Spec
<1> QED
  BY <1>1, <1>2, Inductive, PTL

=============================================================================

-------------------------- MODULE SoundStreamProofs --------------------------
(* First the port alone, for every size of it and of the minibuffer, every   *)
(* rate converter and every client: the pointers and sizes of the ring stay  *)
(* consistent, and the ring holds the stream in order (PortAlwaysSound,      *)
(* StreamInOrder, MinibufferFilled).  Then SoundStream, for every size of    *)
(* port and request, every sound and every interleaving: the credit that the *)
(* server's events give to the library never exceeds the room of the port,   *)
(* nothing is asked for twice, and the end of file comes after the last byte *)
(* (WritesAlwaysFit, IncomingAlwaysCovers, SoundPlayedToTheEnd).             *)
EXTENDS SoundStream, CountingLemmas

-----------------------------------------------------------------------------
(* The port: the inductive invariant.                                        *)

\* While a WriteElement request is between its check and its update, the space
\* it was promised stays free and its copy lies in that space: the interrupt
\* can only shrink currentSize.
WriteInProgress ==
    /\ pc \in {"copy", "commit"} =>
         /\ req.numBytes <= DataSize - currentSize
         /\ count + req.numBytes <= MaxBytes
    /\ pc = "copy" => d = write
    /\ pc = "commit" =>
         /\ d = Wrap(write + req.numBytes)
         /\ \A i \in 0 .. req.numBytes - 1 : data[Wrap(write + i)] = count + 1 + i

IInv == TypeOK /\ PointersAgree /\ RingHoldsStream /\ WriteInProgress

-----------------------------------------------------------------------------
LEMMA ModRange == ASSUME NEW a \in Int, NEW b \in Nat \ {0}
                  PROVE  a % b \in 0 .. b - 1
  BY SMT

LEMMA Sizes == DataSize \in Nat \ {0} /\ Chunk \in Nat \ {0} /\ Word \in Nat \ {0}
  BY PortAssumption

LEMMA WantedRange == ASSUME NEW size \in Int, NEW inc \in Int
                     PROVE  Wanted(size, inc) \in 0 .. Word - 1
  BY ModRange, Sizes DEF Wanted

\* A conversion never reads more than it is given; when it produced less than
\* it was asked for it read everything.
LEMMA ConvertBounds ==
  ASSUME NEW want \in Nat, NEW avail \in Nat, NEW c \in RateConvert(want, avail)
  PROVE  /\ c.in \in 0 .. avail
         /\ c.out \in 0 .. want
         /\ c.out < want => c.in = avail
  BY PortAssumption DEF RateConvert, Least

\* The two passes of a read take at most the whole samples of the port and
\* leave the pointer where one pass without wrapping would.
LEMMA PassesTake ==
  ASSUME read \in 0 .. DataSize - 1,
         NEW size \in 1 .. DataSize,
         NEW c \in Passes(size)
  PROVE  /\ c[1].in \in Nat /\ c[2].in \in Nat
         /\ c[1].in + c[2].in <= size
         /\ Wrap(read + c[1].in) + c[2].in = Wrap(read + c[1].in + c[2].in)
         /\ Wrap(read + c[1].in) + c[2].in \in 0 .. DataSize - 1
<1> DEFINE pass1 == Least(DataSize - read, size)
<1>1. pass1 \in 1 .. size /\ pass1 <= DataSize - read
  BY PortAssumption DEF Least
<1>2. /\ c[1] \in RateConvert(Chunk, pass1)
      /\ \/ c[2] = Nothing
         \/ /\ c[1].out < Least(size, Chunk) /\ pass1 < size
            /\ c[2] \in RateConvert(Chunk - c[1].out,
                              Least(DataSize - Wrap(read + c[1].in), size - c[1].in))
  BY DEF Passes
<1>3. /\ c[1].in \in 0 .. pass1 /\ c[1].out \in 0 .. Chunk
      /\ c[1].out < Chunk => c[1].in = pass1
  BY <1>1, <1>2, ConvertBounds, PortAssumption
<1>4. CASE c[2] = Nothing
  BY <1>1, <1>3, <1>4, PortAssumption DEF Nothing, Wrap
<1>5. CASE c[2] # Nothing
  <2>1. c[1].in = pass1 /\ pass1 = DataSize - read /\ pass1 < size
    BY <1>1, <1>2, <1>3, <1>5, PortAssumption DEF Least
  <2>2. Wrap(read + c[1].in) = 0 /\ DataSize - Wrap(read + c[1].in) = DataSize
    BY <2>1, PortAssumption DEF Wrap
  <2>3. c[2] \in RateConvert(Chunk - c[1].out, Least(DataSize, size - c[1].in))
    BY <1>2, <1>5, <2>2
  <2>4. /\ Least(DataSize, size - c[1].in) = size - c[1].in
        /\ size - c[1].in \in Nat /\ Chunk - c[1].out \in Nat
    BY <1>3, <2>1, PortAssumption DEF Least
  <2>5. c[2] \in RateConvert(Chunk - c[1].out, size - c[1].in)
    BY <2>3, <2>4
  <2>6. c[2].in \in 0 .. size - c[1].in
    BY <2>4, <2>5, ConvertBounds
  <2> QED
    BY <2>1, <2>2, <2>6, PortAssumption DEF Wrap
<1> QED
  BY <1>4, <1>5

LEMMA RingTyped ==
  ASSUME IInv
  PROVE  /\ read \in 0 .. DataSize - 1 /\ write \in 0 .. DataSize - 1
         /\ currentSize \in 0 .. DataSize /\ currentSize \in Nat
         /\ count \in Nat /\ req.numBytes \in Nat /\ d \in 0 .. DataSize - 1
         /\ incoming \in 0 .. Word - 1
         /\ write = Wrap(read + currentSize)
  BY PortAssumption DEF IInv, TypeOK, PointersAgree, Requests

\* An event that is posted is well typed, and so is what it leaves in incoming.
LEMMA NotifyTyped ==
  ASSUME events \in Seq(Events), NEW inc \in 0 .. Word - 1, NEW size \in Int,
         NEW kind \in {"State", "LowWater"},
         NEW reason \in {"User", "Underrun", "EOF", "Watermark"},
         NEW newState \in {"Stop", "Pause", "Start"},
         Notify(kind, reason, newState, size, inc)
  PROVE  events' \in Seq(Events) /\ incoming' \in 0 .. Word - 1
<1>1. Wanted(size, inc) \in 0 .. Word - 1
  BY WantedRange, PortAssumption
<1>2. [kind |-> kind, reason |-> reason, state |-> newState,
       numBytes |-> Wanted(size, inc)] \in Events
  BY <1>1 DEF Events
<1>3. inc + Wanted(size, inc) \in Int
  BY <1>1, Sizes
<1>4. (inc + Wanted(size, inc)) % Word \in 0 .. Word - 1
  BY <1>3, ModRange, Sizes
<1> QED
  BY <1>2, <1>4 DEF Notify

\* The state changes of the element keep the types of what they touch.
ElementTyped == /\ eof \in BOOLEAN /\ state \in {"Stop", "Pause", "Start"}
                /\ incoming \in 0 .. Word - 1 /\ events \in Seq(Events)

LEMMA ElementChangeTyped ==
  ASSUME ElementTyped, NEW size \in Int,
         NEW reason \in {"User", "Underrun", "EOF", "Watermark"},
         PauseElement(size, reason) \/ StopElement(size, reason) \/ ResumeElement
  PROVE  ElementTyped'
<1>1. CASE PauseElement(size, reason)
  BY <1>1, NotifyTyped DEF PauseElement, ElementTyped
<1>2. CASE StopElement(size, reason)
  BY <1>2, NotifyTyped DEF StopElement, ElementTyped
<1>3. CASE ResumeElement
  BY <1>3 DEF ResumeElement, ElementTyped
<1> QED
  BY <1>1, <1>2, <1>3

-----------------------------------------------------------------------------
LEMMA InitInv == Init => IInv
<1> SUFFICES ASSUME Init PROVE IInv
  OBVIOUS
<1>1. Idle \in Requests /\ <<>> \in Seq(Events)
  BY PortAssumption DEF Idle, Requests
<1>2. TypeOK
  <2>1. data \in [0 .. DataSize - 1 -> 0 .. MaxBytes]
    BY PortAssumption DEF Init
  <2>2. /\ read \in 0 .. DataSize - 1 /\ write \in 0 .. DataSize - 1 /\ d \in 0 .. DataSize - 1
        /\ currentSize \in 0 .. DataSize /\ count \in 0 .. MaxBytes
    BY PortAssumption DEF Init
  <2>3. req \in Requests /\ events \in Seq(Events)
    BY <1>1 DEF Init
  <2>4. /\ incoming \in 0 .. Word - 1 /\ eof \in BOOLEAN /\ glitch \in BOOLEAN
        /\ state \in {"Stop", "Pause", "Start"}
        /\ pc \in {"idle", "copy", "commit", "mark", "clear", "restart"}
    BY DEF Init
  <2> QED
    BY <2>1, <2>2, <2>3, <2>4 DEF TypeOK
<1>3. PointersAgree /\ RingHoldsStream /\ WriteInProgress
  BY Sizes DEF Init, PointersAgree, RingHoldsStream, WriteInProgress, Wrap
<1> QED
  BY <1>2, <1>3 DEF IInv

LEMMA ReadClientInv == IInv /\ ReadClient => IInv'
<1> SUFFICES ASSUME IInv, ReadClient PROVE IInv'
  OBVIOUS
<1> DEFINE size == WholeSamples(currentSize)
<1>1. size \in 1 .. currentSize
  BY PortAssumption DEF IInv, TypeOK, ReadClient
<1>2. PICK c \in Passes(size) :
        /\ read' = Wrap(read + c[1].in) + c[2].in
        /\ currentSize' = currentSize - (c[1].in + c[2].in)
        /\ glitch' \in BOOLEAN
        /\ \/ StopElement(currentSize', "EOF")
           \/ PauseElement(currentSize', "Underrun")
           \/ /\ Notify("LowWater", "Watermark", state, currentSize', incoming)
              /\ UNCHANGED <<state, eof>>
           \/ UNCHANGED <<state, eof, incoming, events>>
  BY DEF ReadClient
<1> DEFINE taken == c[1].in + c[2].in
<1>3. /\ taken \in 0 .. currentSize
      /\ read' = Wrap(read + taken)
      /\ read' \in 0 .. DataSize - 1
      /\ currentSize' = currentSize - taken
      /\ currentSize' \in 0 .. DataSize
  <2>1. read \in 0 .. DataSize - 1 /\ size \in 1 .. DataSize /\ currentSize \in 0 .. DataSize
    BY <1>1, RingTyped, Sizes
  <2>2. /\ c[1].in \in Nat /\ c[2].in \in Nat
        /\ taken <= size
        /\ Wrap(read + c[1].in) + c[2].in = Wrap(read + c[1].in + c[2].in)
        /\ Wrap(read + c[1].in) + c[2].in \in 0 .. DataSize - 1
    BY <2>1, PassesTake
  <2>3. read + c[1].in + c[2].in = read + taken
    BY <2>1, <2>2
  <2>4. taken \in 0 .. currentSize
    BY <1>1, <2>1, <2>2
  <2>5. currentSize - taken \in 0 .. DataSize
    BY <2>1, <2>4, Sizes
  <2> QED
    BY <1>2, <2>2, <2>3, <2>4, <2>5
<1>4. UNCHANGED <<data, write, count, writer>>
  BY DEF ReadClient
<1>5. TypeOK'
  <2>1. ElementTyped'
    <3>1. ElementTyped
      BY DEF IInv, TypeOK, ElementTyped
    <3>2. CASE StopElement(currentSize', "EOF")
      BY <1>3, <3>1, <3>2, ElementChangeTyped
    <3>3. CASE PauseElement(currentSize', "Underrun")
      BY <1>3, <3>1, <3>3, ElementChangeTyped
    <3>4. CASE /\ Notify("LowWater", "Watermark", state, currentSize', incoming)
               /\ UNCHANGED <<state, eof>>
      BY <1>3, <3>1, <3>4, NotifyTyped DEF ElementTyped
    <3>5. CASE UNCHANGED <<state, eof, incoming, events>>
      BY <3>1, <3>5 DEF ElementTyped
    <3> QED
      BY <1>2, <3>2, <3>3, <3>4, <3>5
  <2> QED
    BY <1>2, <1>3, <1>4, <2>1 DEF IInv, TypeOK, ElementTyped, writer
<1>6. PointersAgree'
  <2>1. write = Wrap(read + currentSize) /\ write' = write
    BY <1>4 DEF IInv, PointersAgree
  <2>2. Wrap(Wrap(read + taken) + (currentSize - taken)) = Wrap(read + currentSize)
    BY <1>3, RingTyped, Sizes DEF Wrap
  <2> QED
    BY <1>3, <2>1, <2>2 DEF PointersAgree, Wrap
<1>7. RingHoldsStream'
  <2> SUFFICES ASSUME NEW i \in 0 .. currentSize' - 1
               PROVE  data'[Wrap(read' + i)] = count' - currentSize' + 1 + i
    BY DEF RingHoldsStream, Wrap
  <2>1. taken + i \in 0 .. currentSize - 1
    BY <1>3, RingTyped
  <2>2. Wrap(read' + i) = Wrap(read + (taken + i))
    BY <1>3, <2>1, RingTyped, Sizes DEF Wrap
  <2>3. data[Wrap(read + (taken + i))] = count - currentSize + 1 + (taken + i)
    BY <2>1 DEF IInv, RingHoldsStream
  <2>4. count - currentSize + 1 + (taken + i) = count' - currentSize' + 1 + i
    BY <1>3, <1>4, RingTyped DEF ring
  <2> QED
    BY <1>4, <2>2, <2>3, <2>4
<1>8. WriteInProgress'
  <2>1. UNCHANGED <<pc, req, d, data, write, count>>
    BY <1>4 DEF writer
  <2>2. DataSize - currentSize <= DataSize - currentSize'
    BY <1>3, RingTyped, Sizes
  <2>3. pc \in {"copy", "commit"} => req.numBytes <= DataSize - currentSize'
    BY <1>3, <2>2, RingTyped, Sizes DEF IInv, WriteInProgress
  <2> QED
    BY <2>1, <2>3 DEF IInv, WriteInProgress, Wrap
<1> QED
  BY <1>5, <1>6, <1>7, <1>8 DEF IInv

LEMMA BeginWriteInv ==
  ASSUME IInv, NEW r \in Requests, BeginWrite(r)
  PROVE  IInv'
<1>1. TypeOK'
  BY DEF IInv, TypeOK, BeginWrite, ring
<1>2. PointersAgree' /\ RingHoldsStream'
  BY DEF IInv, PointersAgree, RingHoldsStream, BeginWrite, ring, Wrap
<1>3. WriteInProgress'
  BY DEF IInv, WriteInProgress, BeginWrite, ring
<1> QED
  BY <1>1, <1>2, <1>3 DEF IInv

LEMMA CopyBytesInv == IInv /\ CopyBytes => IInv'
<1> SUFFICES ASSUME IInv, CopyBytes PROVE IInv'
  OBVIOUS
<1> DEFINE n == req.numBytes
<1>1. /\ n \in 0 .. DataSize - currentSize /\ d = write /\ count + n <= MaxBytes
      /\ d \in 0 .. DataSize - 1 /\ count \in Nat /\ currentSize \in 0 .. DataSize
      /\ read \in 0 .. DataSize - 1
  BY DEF IInv, TypeOK, WriteInProgress, CopyBytes, Requests
<1>2. UNCHANGED <<read, write, currentSize, count, incoming, eof, state, events, glitch, req>>
  BY DEF CopyBytes
<1>3. \A i \in 0 .. DataSize - 1 :
        data'[i] = IF i >= d /\ i < d + n THEN count + 1 + i - d
                   ELSE IF i < d /\ i + DataSize < d + n THEN count + 1 + i + DataSize - d
                   ELSE data[i]
  BY DEF CopyBytes
<1>4. data' \in [0 .. DataSize - 1 -> 0 .. MaxBytes]
  <2> SUFFICES ASSUME NEW i \in 0 .. DataSize - 1
               PROVE  (IF i >= d /\ i < d + n THEN count + 1 + i - d
                       ELSE IF i < d /\ i + DataSize < d + n THEN count + 1 + i + DataSize - d
                       ELSE data[i]) \in 0 .. MaxBytes
    BY DEF CopyBytes
  <2>1. data[i] \in 0 .. MaxBytes
    BY DEF IInv, TypeOK
  <2> QED
    BY <1>1, <2>1, PortAssumption
<1>5. d' = Wrap(d + n) /\ d' \in 0 .. DataSize - 1 /\ pc' = "commit"
  <2>1. d' = Wrap(d + n) /\ pc' = "commit"
    BY DEF CopyBytes, Wrap
  <2>2. Wrap(d + n) \in 0 .. DataSize - 1
    BY <1>1, Sizes DEF Wrap
  <2> QED
    BY <2>1, <2>2
<1>6. TypeOK'
  BY <1>2, <1>4, <1>5 DEF IInv, TypeOK
<1>7. PointersAgree'
  BY <1>2 DEF IInv, PointersAgree, Wrap
<1>8. RingHoldsStream'
  <2> SUFFICES ASSUME NEW i \in 0 .. currentSize - 1
               PROVE  data'[Wrap(read + i)] = count - currentSize + 1 + i
    BY <1>2 DEF RingHoldsStream, Wrap
  <2> DEFINE j == Wrap(read + i)
  <2>1. j \in 0 .. DataSize - 1
    BY <1>1, PortAssumption DEF Wrap
  <2>2. ~(j >= d /\ j < d + n) /\ ~(j < d /\ j + DataSize < d + n)
    <3>1. write = Wrap(read + currentSize)
      BY DEF IInv, PointersAgree
    <3> QED
      BY <1>1, <3>1, PortAssumption DEF Wrap
  <2>3. data'[j] = data[j]
    BY <1>3, <2>1, <2>2
  <2> QED
    BY <2>3 DEF IInv, RingHoldsStream
<1>9. WriteInProgress'
  <2>1. ASSUME NEW i \in 0 .. n - 1
        PROVE  data'[Wrap(write + i)] = count + 1 + i
    <3>1. Wrap(write + i) \in 0 .. DataSize - 1
      BY <1>1, Sizes DEF Wrap
    <3>2. CASE write + i < DataSize
      <4>1. Wrap(write + i) = write + i /\ write + i >= d /\ write + i < d + n
        BY <1>1, <3>2, Sizes DEF Wrap
      <4>2. data'[write + i] = count + 1 + (write + i) - d
        BY <1>3, <3>1, <4>1
      <4> QED
        BY <1>1, <4>1, <4>2
    <3>3. CASE write + i >= DataSize
      <4> DEFINE k == write + i - DataSize
      <4>1. Wrap(write + i) = k /\ k < d /\ k + DataSize < d + n
        BY <1>1, <3>3, Sizes DEF Wrap
      <4>2. data'[k] = count + 1 + k + DataSize - d
        BY <1>1, <1>3, <3>1, <4>1, Sizes
      <4> QED
        BY <1>1, <4>1, <4>2, Sizes
    <3> QED
      BY <1>1, <3>2, <3>3, Sizes
  <2> QED
    BY <1>1, <1>2, <1>5, <2>1 DEF WriteInProgress, Wrap
<1> QED
  BY <1>6, <1>7, <1>8, <1>9 DEF IInv

LEMMA CommitWriteInv == IInv /\ CommitWrite => IInv'
<1> SUFFICES ASSUME IInv, CommitWrite PROVE IInv'
  OBVIOUS
<1> DEFINE n == req.numBytes
<1>1. /\ n \in 0 .. DataSize - currentSize /\ count + n <= MaxBytes
      /\ count \in Nat /\ currentSize \in 0 .. DataSize
      /\ read \in 0 .. DataSize - 1 /\ write \in 0 .. DataSize - 1
      /\ incoming \in Nat
  BY PortAssumption DEF IInv, TypeOK, WriteInProgress, CommitWrite, Requests
<1>2. /\ write' = Wrap(write + n) /\ currentSize' = currentSize + n /\ count' = count + n
      /\ pc' = "mark"
      /\ UNCHANGED <<data, read, eof, state, events, glitch, req, d>>
  BY DEF IInv, WriteInProgress, CommitWrite
<1>3. incoming' \in 0 .. Word - 1
  <2>1. incoming - n \in Int
    BY RingTyped, Sizes
  <2> QED
    BY <2>1, ModRange, Sizes DEF CommitWrite
<1>4. TypeOK'
  <2>1. write' \in 0 .. DataSize - 1 /\ currentSize' \in 0 .. DataSize /\ count' \in 0 .. MaxBytes
    BY <1>1, <1>2, PortAssumption DEF Wrap
  <2> QED
    BY <1>2, <1>3, <2>1 DEF IInv, TypeOK
<1>5. PointersAgree'
  <2>1. write = Wrap(read + currentSize)
    BY DEF IInv, PointersAgree
  <2>2. Wrap(write + n) = Wrap(read + (currentSize + n))
    BY <1>1, <2>1, PortAssumption DEF Wrap
  <2> QED
    BY <1>2, <2>2 DEF PointersAgree, Wrap
<1>6. RingHoldsStream'
  <2> SUFFICES ASSUME NEW i \in 0 .. currentSize + n - 1
               PROVE  data[Wrap(read + i)] = count - currentSize + 1 + i
    BY <1>1, <1>2 DEF RingHoldsStream, Wrap
  <2>1. CASE i < currentSize
    BY <1>1, <2>1 DEF IInv, RingHoldsStream
  <2>2. CASE i >= currentSize
    <3>1. i - currentSize \in 0 .. n - 1
      BY <1>1, <2>2
    <3>2. data[Wrap(write + (i - currentSize))] = count + 1 + (i - currentSize)
      BY <3>1 DEF IInv, WriteInProgress, CommitWrite
    <3>3. Wrap(write + (i - currentSize)) = Wrap(read + i)
      <4>1. write = Wrap(read + currentSize)
        BY DEF IInv, PointersAgree
      <4> QED
        BY <1>1, <2>2, <4>1, PortAssumption DEF Wrap
    <3> QED
      BY <1>1, <3>2, <3>3
  <2> QED
    BY <1>1, <2>1, <2>2
<1>7. WriteInProgress'
  BY <1>2 DEF WriteInProgress
<1> QED
  BY <1>4, <1>5, <1>6, <1>7 DEF IInv

LEMMA SetElementStateInv ==
  ASSUME IInv, NEW s \in {"Start", "Pause", "Stop"}, SetElementState(s)
  PROVE  IInv'
<1>1. ElementTyped /\ currentSize \in Int
  BY DEF IInv, TypeOK, ElementTyped
<1>2. pc = "idle" /\ UNCHANGED <<glitch, pc, req, d>>
  BY DEF SetElementState, writer
<1>3. CASE StartElement
  <2>1. \/ read' = 0 /\ write' = 0 /\ currentSize' = 0
        \/ UNCHANGED <<read, write, currentSize>>
    BY <1>3 DEF StartElement
  <2>2. ElementTyped'
    <3>1. CASE Discard
      <4>1. /\ Notify("State", "Underrun", "Pause", 0, 0)
            /\ state' = "Pause" /\ eof' = FALSE
        BY <1>3, <3>1 DEF StartElement
      <4>2. 0 \in 0 .. Word - 1 /\ events \in Seq(Events)
        BY <1>1, Sizes DEF ElementTyped
      <4>3. events' \in Seq(Events) /\ incoming' \in 0 .. Word - 1
        BY <4>1, <4>2, NotifyTyped
      <4> QED
        BY <4>1, <4>3 DEF ElementTyped
    <3>2. CASE ~Discard
      BY <1>1, <1>3, <3>2 DEF StartElement, ElementTyped
    <3> QED
      BY <3>1, <3>2
  <2>3. UNCHANGED <<data, count>>
    BY <1>3 DEF StartElement
  <2>4. TypeOK'
    <3>1. /\ read' \in 0 .. DataSize - 1 /\ write' \in 0 .. DataSize - 1
          /\ currentSize' \in 0 .. DataSize
      BY <2>1, RingTyped, Sizes
    <3> QED
      BY <1>2, <2>2, <2>3, <3>1 DEF IInv, TypeOK, ElementTyped
  <2>5. PointersAgree'
    BY <2>1, PortAssumption DEF IInv, PointersAgree, Wrap
  <2>6. RingHoldsStream'
    BY <2>1, <2>3 DEF IInv, RingHoldsStream, Wrap
  <2>7. WriteInProgress'
    BY <1>2 DEF WriteInProgress
  <2> QED
    BY <2>4, <2>5, <2>6, <2>7 DEF IInv
<1>4. CASE /\ \/ ResumeElement
              \/ PauseElement(currentSize, "User")
              \/ StopElement(currentSize, "User")
           /\ UNCHANGED ring
  <2>1. ElementTyped'
    BY <1>1, <1>4, ElementChangeTyped
  <2>2. TypeOK'
    BY <1>2, <1>4, <2>1 DEF IInv, TypeOK, ElementTyped, ring
  <2>3. PointersAgree' /\ RingHoldsStream' /\ WriteInProgress'
    BY <1>2, <1>4 DEF IInv, PointersAgree, RingHoldsStream, WriteInProgress, ring, Wrap
  <2> QED
    BY <2>2, <2>3 DEF IInv
<1> QED
  BY <1>3, <1>4 DEF SetElementState

\* The remaining steps leave the ring alone.
LEMMA OtherStepInv ==
  ASSUME IInv,
         MarkEnd \/ ClearIncoming \/ RestartPaused \/ TakeEvent
  PROVE  IInv'
<1>1. /\ UNCHANGED <<ring, glitch, req, d>>
      /\ pc' \in {"idle", "clear", "restart"}
  BY DEF MarkEnd, ClearIncoming, RestartPaused, TakeEvent, writer
<1>2. ElementTyped
  BY DEF IInv, TypeOK, ElementTyped
<1>3. ElementTyped'
  <2>1. CASE MarkEnd
    BY <1>2, <2>1 DEF MarkEnd, ElementTyped
  <2>2. CASE ClearIncoming
    BY <1>2, <2>2, PortAssumption DEF ClearIncoming, ElementTyped
  <2>3. CASE RestartPaused
    BY <1>2, <2>3 DEF RestartPaused, ResumeElement, ElementTyped
  <2>4. CASE TakeEvent
    BY <1>2, <2>4 DEF TakeEvent, ElementTyped
  <2> QED
    BY <2>1, <2>2, <2>3, <2>4
<1>4. TypeOK'
  BY <1>1, <1>3 DEF IInv, TypeOK, ElementTyped, ring
<1>5. PointersAgree' /\ RingHoldsStream' /\ WriteInProgress'
  BY <1>1 DEF IInv, PointersAgree, RingHoldsStream, WriteInProgress, ring, Wrap
<1> QED
  BY <1>4, <1>5 DEF IInv

LEMMA NextInv == IInv /\ [Next]_vars => IInv'
<1> SUFFICES ASSUME IInv, [Next]_vars PROVE IInv'
  OBVIOUS
<1>1. CASE ReadClient
  BY <1>1, ReadClientInv
<1>2. CASE \E r \in Requests : BeginWrite(r)
  BY <1>2, BeginWriteInv
<1>3. CASE UNCHANGED vars
  BY <1>3 DEF IInv, TypeOK, PointersAgree, RingHoldsStream, WriteInProgress, vars, ring,
     writer, Wrap
<1>4. CASE \E r \in Requests : RefuseWrite(r)
  BY <1>3, <1>4 DEF RefuseWrite
<1>5. CASE WriteStep
  BY <1>5, CopyBytesInv, CommitWriteInv, OtherStepInv DEF WriteStep
<1>6. CASE \E s \in {"Start", "Pause", "Stop"} : SetElementState(s)
  BY <1>6, SetElementStateInv
<1>7. CASE TakeEvent
  BY <1>7, OtherStepInv
<1> QED
  BY <1>1, <1>2, <1>3, <1>4, <1>5, <1>6, <1>7 DEF Next

LEMMA Invariance == Spec => []IInv
  BY InitInv, NextInv, PTL DEF Spec

-----------------------------------------------------------------------------
\* Types, and with them the bounds of the pointers and of currentSize, hold for
\* every client and every interleaving of the interrupt with WriteElement.
THEOREM TypeCorrect == Spec => []TypeOK
  BY Invariance, PTL DEF IInv

\* The pointers stay in the ring, and the write pointer is always currentSize
\* bytes ahead of the read pointer, although WriteElement takes it before the
\* interrupt may run and stores it afterwards.
THEOREM PortAlwaysSound == Spec => []PortSound
<1>1. IInv => PortSound
  BY DEF IInv, PortSound
<1> QED
  BY <1>1, Invariance, PTL

\* The port always holds the last bytes written, in order: no byte is lost,
\* repeated or overwritten by WriteElement's copy outside the block.
THEOREM StreamInOrder == Spec => []RingHoldsStream
  BY Invariance, PTL DEF IInv

-----------------------------------------------------------------------------
\* Without rate conversion the two passes fill the minibuffer or empty the port.
LEMMA PassesFill ==
  ASSUME ~Resample,
         read \in 0 .. DataSize - 1,
         NEW size \in 1 .. DataSize,
         NEW c \in Passes(size),
         c[1].in + c[2].in # size
  PROVE  c[1].out + c[2].out >= Chunk
<1> DEFINE pass1 == Least(DataSize - read, size)
<1>1. pass1 \in 1 .. size /\ pass1 <= DataSize - read
  <2>1. DataSize \in Nat
    BY Sizes
  <2> HIDE DEF pass1
  <2> QED
    BY ONLY <2>1, read \in 0 .. DataSize - 1, size \in 1 .. DataSize DEF Least, pass1
<1>2. c[1] = [in |-> Least(Chunk, pass1), out |-> Least(Chunk, pass1)]
  BY DEF Passes, RateConvert
<1>3. CASE Chunk <= pass1
  <2>1. c[1].out = Chunk
    BY <1>1, <1>2, <1>3, Sizes DEF Least
  <2>2. c[2] = Nothing
    BY <2>1, Sizes DEF Passes, Least
  <2> QED
    BY <2>1, <2>2, Sizes DEF Nothing
<1>4. CASE pass1 < Chunk
  <2>1. c[1].in = pass1 /\ c[1].out = pass1
    BY <1>1, <1>2, <1>4, Sizes DEF Least
  <2>2. CASE pass1 = size
    <3>1. c[2] = Nothing
      BY <1>1, <2>1, <2>2, Sizes DEF Passes, Least
    <3> QED
      BY <1>1, <2>1, <2>2, <3>1 DEF Nothing
  <2>3. CASE pass1 < size
    <3>1. /\ pass1 = DataSize - read /\ c[1].out < Least(size, Chunk)
          /\ size - pass1 \in 1 .. DataSize - 1
      BY <1>1, <1>4, <2>1, <2>3, Sizes DEF Least
    <3>2. DataSize - Wrap(read + c[1].in) = DataSize
      BY <2>1, <3>1, Sizes DEF Wrap
    <3>3. c[2] \in RateConvert(Chunk - c[1].out,
                     Least(DataSize - Wrap(read + c[1].in), size - c[1].in))
      BY <2>3, <3>1 DEF Passes
    <3>4. Least(DataSize - Wrap(read + c[1].in), size - c[1].in) = size - pass1
      BY <2>1, <3>1, <3>2, Sizes DEF Least
    <3>5. /\ c[2].in = Least(Chunk - pass1, size - pass1)
          /\ c[2].out = Least(Chunk - pass1, size - pass1)
      BY <2>1, <3>3, <3>4 DEF RateConvert
    <3>6. c[2].out = Chunk - pass1
      BY <1>1, <1>4, <2>1, <3>1, <3>5, Sizes DEF Least
    <3> QED
      BY <1>1, <2>1, <3>6, Sizes
  <2> QED
    BY <1>1, <2>2, <2>3
<1> QED
  BY <1>1, <1>3, <1>4, Sizes

LEMMA ReadClientFills == ~Resample /\ IInv /\ ReadClient => MinibufFilled'
<1> SUFFICES ASSUME ~Resample, IInv, ReadClient PROVE MinibufFilled'
  OBVIOUS
<1> DEFINE size == WholeSamples(currentSize)
<1>1. read \in 0 .. DataSize - 1 /\ size \in 1 .. DataSize
  BY RingTyped, Sizes, PortAssumption DEF ReadClient
<1>2. PICK c \in Passes(size) :
        glitch' = (size - (c[1].in + c[2].in) # 0 /\ c[1].out + c[2].out < Chunk)
  BY DEF ReadClient
<1>3. c[1].in \in Nat /\ c[2].in \in Nat
  BY <1>1, PassesTake
<1>4. CASE c[1].in + c[2].in = size
  <2>1. size - (c[1].in + c[2].in) = 0
    BY <1>1, <1>3, <1>4
  <2> HIDE DEF size
  <2>2. glitch' = FALSE
    BY <1>2, <2>1, Zenon
  <2> QED
    BY <2>2 DEF MinibufFilled
<1>5. CASE c[1].in + c[2].in # size
  <2>1. c[1].out + c[2].out >= Chunk
    BY <1>1, <1>5, PassesFill
  <2>2. c[1].out + c[2].out \in Int
    <3>1. c[1] \in RateConvert(Chunk, Least(DataSize - read, size))
      BY DEF Passes
    <3>2. c[1].out \in Int /\ c[1].out <= Chunk /\ c[2].out \in Int
      <4>1. Least(DataSize - read, size) \in Nat
        BY <1>1, Sizes DEF Least
      <4>2. c[1].out \in 0 .. Chunk
        BY <3>1, <4>1, ConvertBounds, Sizes
      <4>3. \/ c[2] = Nothing
            \/ c[2] \in RateConvert(Chunk - c[1].out,
                          Least(DataSize - Wrap(read + c[1].in), size - c[1].in))
        BY DEF Passes
      <4>4. /\ Chunk - c[1].out \in Int
            /\ Least(DataSize - Wrap(read + c[1].in), size - c[1].in) \in Int
        BY <1>1, <1>3, <4>2, Sizes DEF Least, Wrap
      <4>5. CASE c[2] = Nothing
        BY <4>2, <4>5, Sizes DEF Nothing
      <4>6. CASE c[2] # Nothing
        BY <4>2, <4>3, <4>4, <4>6, Sizes DEF RateConvert, Least
      <4> QED
        BY <4>5, <4>6
    <3> QED
      BY <3>2
  <2>3. ~ (c[1].out + c[2].out < Chunk)
    BY <2>1, <2>2, Sizes
  <2> HIDE DEF size
  <2>4. glitch' = FALSE
    BY <1>2, <2>3, Zenon
  <2> QED
    BY <2>4 DEF MinibufFilled
<1> QED
  BY <1>4, <1>5

\* Without rate conversion every minibuffer is filled, however the stream lies
\* in the ring, unless the read drained the port.
THEOREM MinibufferFilled ==
  ASSUME ~Resample
  PROVE  Spec => []MinibufFilled
<1>1. Init => MinibufFilled
  BY DEF Init, MinibufFilled
<1>2. IInv /\ MinibufFilled /\ [Next]_vars => MinibufFilled'
  <2> SUFFICES ASSUME IInv, MinibufFilled, [Next]_vars PROVE MinibufFilled'
    OBVIOUS
  <2>1. CASE ReadClient
    BY <2>1, ReadClientFills
  <2>2. CASE ~ReadClient
    <3>1. UNCHANGED glitch
      BY <2>2 DEF Next, vars, BeginWrite, RefuseWrite, WriteStep, CopyBytes, CommitWrite,
         MarkEnd, ClearIncoming, RestartPaused, SetElementState, TakeEvent
    <3> QED
      BY <3>1 DEF MinibufFilled
  <2> QED
    BY <2>1, <2>2
<1> QED
  BY <1>1, <1>2, Invariance, PTL DEF Spec

-----------------------------------------------------------------------------
(* Sums of sequences.  Partial sums determine the sum, and they exist.       *)

PartialSums(s, g) == /\ g \in [0 .. Len(s) -> Nat] /\ g[0] = 0
                     /\ \A i \in 1 .. Len(s) : g[i] = g[i - 1] + s[i]

LEMMA PartialSumsUnique ==
  ASSUME NEW s \in Seq(Nat), NEW f, NEW g, PartialSums(s, g),
         f = [i \in 0 .. Len(s) |-> IF i = 0 THEN 0 ELSE f[i - 1] + s[i]]
  PROVE  f[Len(s)] = g[Len(s)]
<1> DEFINE T == {i \in 0 .. Len(s) : f[i] # g[i]}
<1>1. T \in SUBSET Nat /\ Len(s) \in Nat
  OBVIOUS
<1>2. ASSUME T # {} PROVE FALSE
  <2>1. PICK x \in T : \A y \in T : x <= y
    BY <1>1, <1>2, LeastElement
  <2>2. x \in 0 .. Len(s) /\ f[x] # g[x] /\ x \in Nat
    BY <1>1, <2>1
  <2>3. CASE x = 0
    BY <2>2, <2>3 DEF PartialSums
  <2>4. CASE x # 0
    <3>1. x - 1 \in 0 .. Len(s) /\ x - 1 < x /\ x \in 1 .. Len(s)
      BY <1>1, <2>2, <2>4
    <3>2. x - 1 \notin T
      BY <2>1, <3>1
    <3>3. f[x - 1] = g[x - 1]
      BY <3>1, <3>2
    <3>4. f[x] = f[x - 1] + s[x]
      BY <2>2, <2>4
    <3> QED
      BY <2>2, <3>1, <3>3, <3>4 DEF PartialSums
  <2> QED
    BY <2>3, <2>4
<1>3. Len(s) \in 0 .. Len(s)
  BY <1>1
<1>4. \A i \in 0 .. Len(s) : f[i] = g[i]
  BY <1>2
<1> QED
  BY <1>3, <1>4

\* The recursive function of n steps.
UpTo(s, n, f) == f = [i \in 0 .. n |-> IF i = 0 THEN 0 ELSE f[i - 1] + s[i]]

LEMMA UpToExists ==
  ASSUME NEW s \in Seq(Nat)
  PROVE  \E f : UpTo(s, Len(s), f) /\ \A i \in 0 .. Len(s) : f[i] \in Nat
<1> DEFINE add == [p \in Nat \X (1 .. Len(s)) |-> p[1] + s[p[2]]]
<1>1. Len(s) \in Nat /\ \A i \in 1 .. Len(s) : s[i] \in Nat
  OBVIOUS
<1>2. add \in [Nat \X (1 .. Len(s)) -> Nat]
  BY <1>1
<1>3. \A x \in Nat, i \in 1 .. Len(s) : add[<<x, i>>] = x + s[i]
  OBVIOUS
<1> HIDE DEF add
<1>4. PICK f : Recursive(Len(s), 0, add, f) /\ \A i \in 0 .. Len(s) : f[i] \in Nat
  BY <1>1, <1>2, RecursionExists
<1>5. \A i \in 1 .. Len(s) : add[<<f[i - 1], i>>] = f[i - 1] + s[i]
  <2>1. \A i \in 1 .. Len(s) : i - 1 \in 0 .. Len(s)
    BY <1>1
  <2> QED
    BY <1>3, <1>4, <2>1
<1>6. UpTo(s, Len(s), f)
  <2>1. \A i \in 0 .. Len(s) : i = 0 \/ i \in 1 .. Len(s)
    BY <1>1
  <2> QED
    BY <1>4, <1>5, <2>1 DEF Recursive, UpTo
<1> QED
  BY <1>4, <1>6

LEMMA PartialSumsExist ==
  ASSUME NEW s \in Seq(Nat)
  PROVE  \E g : PartialSums(s, g)
<1>1. PICK f : UpTo(s, Len(s), f) /\ \A i \in 0 .. Len(s) : f[i] \in Nat
  BY UpToExists
<1>2. f \in [0 .. Len(s) -> Nat]
  BY <1>1 DEF UpTo
<1>3. f[0] = 0 /\ \A i \in 1 .. Len(s) : f[i] = f[i - 1] + s[i]
  <2>1. \A i \in 0 .. Len(s) : f[i] = IF i = 0 THEN 0 ELSE f[i - 1] + s[i]
    BY <1>1 DEF UpTo
  <2>2. Len(s) \in Nat /\ \A i \in 1 .. Len(s) : i \in 0 .. Len(s) /\ i # 0
    OBVIOUS
  <2> QED
    BY <2>1, <2>2
<1> QED
  BY <1>2, <1>3 DEF PartialSums

LEMMA SumIs ==
  ASSUME NEW s \in Seq(Nat), NEW g, PartialSums(s, g)
  PROVE  SumOf(s) = g[Len(s)]
<1> DEFINE F(f) == f = [i \in 0 .. Len(s) |-> IF i = 0 THEN 0 ELSE f[i - 1] + s[i]]
<1>1. \E f : F(f)
  BY UpToExists DEF UpTo
<1>2. F(CHOOSE f : F(f))
  BY <1>1
<1>3. PICK f : F(f) /\ f = CHOOSE h : F(h)
  BY <1>2
<1>4. SumOf(s) = f[Len(s)]
  BY <1>3 DEF SumOf
<1>5. f = [i \in 0 .. Len(s) |-> IF i = 0 THEN 0 ELSE f[i - 1] + s[i]]
  BY <1>3
<1>6. f[Len(s)] = g[Len(s)]
  BY <1>5, PartialSumsUnique
<1> QED
  BY <1>4, <1>6

LEMMA SumTyped ==
  ASSUME NEW s \in Seq(Nat)
  PROVE  SumOf(s) \in Nat
<1>1. PICK g : PartialSums(s, g)
  BY PartialSumsExist
<1>2. Len(s) \in 0 .. Len(s) /\ g \in [0 .. Len(s) -> Nat]
  BY <1>1 DEF PartialSums
<1> QED
  BY <1>1, <1>2, SumIs

LEMMA SumOfZeros ==
  ASSUME NEW s \in Seq(Nat), \A i \in 1 .. Len(s) : s[i] = 0
  PROVE  SumOf(s) = 0
<1> DEFINE g == [i \in 0 .. Len(s) |-> 0]
<1>1. PartialSums(s, g) /\ g[Len(s)] = 0
  BY DEF PartialSums
<1> QED
  BY <1>1, SumIs

LEMMA Joined ==
  ASSUME NEW m \in Nat, NEW n \in Nat, NEW g \in [0 .. m -> Nat], NEW h \in [0 .. n -> Nat],
         h[0] = 0, NEW k, k = [i \in 0 .. m + n |-> IF i <= m THEN g[i] ELSE g[m] + h[i - m]]
  PROVE  /\ \A i \in 0 .. m : k[i] = g[i] /\ k[i] \in Nat
         /\ \A j \in 0 .. n : k[m + j] = g[m] + h[j] /\ k[m + j] \in Nat
         /\ g[m] \in Nat
<1>1. m \in 0 .. m /\ \A i \in 0 .. m : i \in 0 .. m + n /\ i <= m
  OBVIOUS
<1>2. \A i \in 0 .. m : k[i] = g[i] /\ g[i] \in Nat
  BY <1>1
<1>3. ASSUME NEW j \in 0 .. n PROVE k[m + j] = g[m] + h[j] /\ h[j] \in Nat
  <2>1. m + j \in 0 .. m + n /\ (m + j) - m = j /\ h[j] \in Nat
    OBVIOUS
  <2>2. CASE j = 0
    BY <1>1, <1>2, <2>2
  <2>3. CASE j # 0
    BY <2>1, <2>3
  <2> QED
    BY <2>1, <2>2, <2>3
<1>4. g[m] \in Nat
  OBVIOUS
<1>5. \A j \in 0 .. n : k[m + j] = g[m] + h[j] /\ k[m + j] \in Nat
  <2> SUFFICES ASSUME NEW j \in 0 .. n PROVE k[m + j] = g[m] + h[j] /\ k[m + j] \in Nat
    OBVIOUS
  <2>1. k[m + j] = g[m] + h[j] /\ h[j] \in Nat
    BY <1>3
  <2> QED
    BY <1>4, <2>1
<1> QED
  BY <1>2, <1>4, <1>5

LEMMA SumConcat ==
  ASSUME NEW s \in Seq(Nat), NEW t \in Seq(Nat)
  PROVE  SumOf(s \o t) = SumOf(s) + SumOf(t)
<1>1. PICK g : PartialSums(s, g)
  BY PartialSumsExist
<1>2. PICK h : PartialSums(t, h)
  BY PartialSumsExist
<1>3. PICK m \in Nat, n \in Nat : m = Len(s) /\ n = Len(t)
  OBVIOUS
<1>4. /\ g \in [0 .. m -> Nat] /\ g[0] = 0 /\ \A i \in 1 .. m : g[i] = g[i - 1] + s[i]
      /\ h \in [0 .. n -> Nat] /\ h[0] = 0 /\ \A i \in 1 .. n : h[i] = h[i - 1] + t[i]
  BY <1>1, <1>2, <1>3 DEF PartialSums
<1>5. s \o t \in Seq(Nat)
  OBVIOUS
<1>6. PICK u \in Seq(Nat) : u = s \o t
  BY <1>5
<1>7. /\ Len(u) = m + n /\ \A i \in 1 .. m : u[i] = s[i]
      /\ \A i \in m + 1 .. m + n : u[i] = t[i - m]
  BY <1>3, <1>6
<1>8. (\A i \in 1 .. m : s[i] \in Nat) /\ (\A i \in 1 .. n : t[i] \in Nat)
  BY <1>3
<1> DEFINE k == [i \in 0 .. m + n |-> IF i <= m THEN g[i] ELSE g[m] + h[i - m]]
<1>9. k = [i \in 0 .. m + n |-> IF i <= m THEN g[i] ELSE g[m] + h[i - m]]
  OBVIOUS
<1> HIDE DEF k
<1>10. /\ m \in Nat /\ n \in Nat /\ g \in [0 .. m -> Nat] /\ h \in [0 .. n -> Nat] /\ h[0] = 0
       /\ k = [i \in 0 .. m + n |-> IF i <= m THEN g[i] ELSE g[m] + h[i - m]]
  BY <1>3, <1>4, <1>9
<1>11. /\ \A i \in 0 .. m : k[i] = g[i] /\ k[i] \in Nat
       /\ \A j \in 0 .. n : k[m + j] = g[m] + h[j] /\ k[m + j] \in Nat
       /\ g[m] \in Nat
  BY ONLY <1>10, Joined, SMTT(30)
<1>12. \A i \in 0 .. m + n : k[i] \in Nat
  <2> SUFFICES ASSUME NEW i \in 0 .. m + n PROVE k[i] \in Nat
    OBVIOUS
  <2>1. i \in 0 .. m \/ (i - m \in 0 .. n /\ m + (i - m) = i)
    BY <1>3
  <2> QED
    BY <1>11, <2>1
<1>13. \A i \in 1 .. m + n : k[i] = k[i - 1] + u[i]
  <2> SUFFICES ASSUME NEW i \in 1 .. m + n PROVE k[i] = k[i - 1] + u[i]
    OBVIOUS
  <2>1. CASE i <= m
    <3>1. i \in 1 .. m /\ i \in 0 .. m /\ i - 1 \in 0 .. m
      BY <1>3, <2>1
    <3>2. k[i] = g[i] /\ k[i - 1] = g[i - 1]
      BY <1>11, <3>1
    <3>3. g[i] = g[i - 1] + s[i]
      BY <1>4, <3>1
    <3>4. u[i] = s[i]
      BY <1>7, <3>1
    <3>5. g[i - 1] \in Nat /\ s[i] \in Nat
      BY <1>4, <1>8, <3>1
    <3> QED
      BY <3>2, <3>3, <3>4, <3>5
  <2>2. CASE i > m
    <3>1. i - m \in 1 .. n
      BY <2>2
    <3>2. PICK j \in 1 .. n : j = i - m
      BY <3>1
    <3>3. /\ j \in 0 .. n /\ j - 1 \in 0 .. n /\ m + j = i /\ m + (j - 1) = i - 1
          /\ i \in m + 1 .. m + n /\ i - m = j
      BY <1>3, <3>2
    <3>4. /\ k[i] = g[m] + h[j] /\ k[i - 1] = g[m] + h[j - 1]
          /\ h[j] = h[j - 1] + t[j] /\ u[i] = t[j]
      BY <1>4, <1>7, <1>11, <3>3
    <3>5. h[j - 1] \in Nat /\ t[j] \in Nat /\ g[m] \in Nat
      BY <1>4, <1>8, <1>11, <3>3
    <3>6. PICK a \in Nat, x \in Nat, y \in Nat : a = g[m] /\ x = h[j - 1] /\ y = t[j]
      BY <3>5
    <3>7. a + (x + y) = (a + x) + y
      OBVIOUS
    <3> QED
      BY <3>4, <3>6, <3>7, Zenon
  <2> QED
    BY <1>3, <2>1, <2>2
<1>14. k[0] = 0 /\ k[m + n] = g[m] + h[n]
  BY <1>3, <1>4, <1>11
<1>15. PartialSums(u, k)
  BY <1>3, <1>7, <1>9, <1>12, <1>13, <1>14 DEF PartialSums
<1>16. SumOf(u) = k[m + n] /\ SumOf(s) = g[m] /\ SumOf(t) = h[n]
  BY <1>1, <1>2, <1>3, <1>7, <1>15, SumIs
<1> QED
  BY <1>6, <1>14, <1>16

LEMMA SumOfOne ==
  ASSUME NEW x \in Nat
  PROVE  SumOf(<<x>>) = x
<1> DEFINE g == [i \in 0 .. 1 |-> IF i = 0 THEN 0 ELSE x]
<1>1. <<x>> \in Seq(Nat) /\ Len(<<x>>) = 1 /\ PartialSums(<<x>>, g)
  BY DEF PartialSums
<1> QED
  BY <1>1, SumIs

-----------------------------------------------------------------------------
(* What events ask for and requests carry, as the queues grow and shrink.    *)

LEMMA SequenceAppended ==
  ASSUME NEW S, NEW q \in Seq(S), NEW x \in S
  PROVE  /\ Append(q, x) \in Seq(S) /\ Len(Append(q, x)) = Len(q) + 1 /\ Len(q) \in Nat
         /\ \A i \in 1 .. Len(q) : Append(q, x)[i] = q[i]
         /\ Append(q, x)[Len(q) + 1] = x
OBVIOUS

LEMMA SequenceTail ==
  ASSUME NEW S, NEW q \in Seq(S), q # <<>>
  PROVE  /\ Tail(q) \in Seq(S) /\ Len(Tail(q)) = Len(q) - 1 /\ Len(q) \in Nat \ {0}
         /\ \A i \in 1 .. Len(q) - 1 : Tail(q)[i] = q[i + 1]
         /\ Head(q) = q[1] /\ q[1] \in S
OBVIOUS

\* Sequences are equal that agree at every position.
LEMMA SameSequence ==
  ASSUME NEW s \in Seq(Nat), NEW t \in Seq(Nat), Len(s) = Len(t),
         \A i \in 1 .. Len(s) : s[i] = t[i]
  PROVE  s = t
OBVIOUS

AskedBy(ev) == IF AsksForData(ev) THEN ev.numBytes ELSE 0
Asks(evs) == [i \in 1 .. Len(evs) |-> AskedBy(evs[i])]
Bytes(requests) == [i \in 1 .. Len(requests) |-> requests[i].numBytes]

LEMMA AskedIsSum ==
  ASSUME NEW evs \in Seq(Events)
  PROVE  /\ Asks(evs) \in Seq(Nat) /\ Len(Asks(evs)) = Len(evs) /\ AskedIn(evs) = SumOf(Asks(evs))
         /\ \A i \in 1 .. Len(evs) : Asks(evs)[i] = AskedBy(evs[i])
         /\ AskedIn(evs) \in Nat
<1>1. \A i \in 1 .. Len(evs) : AskedBy(evs[i]) \in Nat
  <2>1. \A i \in 1 .. Len(evs) : evs[i] \in Events
    OBVIOUS
  <2>2. \A ev \in Events : ev.numBytes \in Nat
    BY Sizes DEF Events
  <2> QED
    BY <2>1, <2>2 DEF AskedBy
<1>2. Asks(evs) \in Seq(Nat) /\ Len(Asks(evs)) = Len(evs)
  BY <1>1 DEF Asks
<1>3. AskedIn(evs) = SumOf(Asks(evs))
  BY DEF AskedIn, Asks, AskedBy
<1>4. \A i \in 1 .. Len(evs) : Asks(evs)[i] = AskedBy(evs[i])
  BY DEF Asks
<1> QED
  BY <1>2, <1>3, <1>4, SumTyped

LEMMA BytesIsSum ==
  ASSUME NEW rs \in Seq(StreamRequests)
  PROVE  /\ Bytes(rs) \in Seq(Nat) /\ Len(Bytes(rs)) = Len(rs) /\ BytesIn(rs) = SumOf(Bytes(rs))
         /\ \A i \in 1 .. Len(rs) : Bytes(rs)[i] = rs[i].numBytes
         /\ BytesIn(rs) \in Nat
<1>1. \A i \in 1 .. Len(rs) : rs[i].numBytes \in Nat
  <2>1. \A i \in 1 .. Len(rs) : rs[i] \in StreamRequests
    OBVIOUS
  <2>2. \A r \in StreamRequests : r.numBytes \in Nat
    BY StreamAssumption DEF StreamRequests
  <2> QED
    BY <2>1, <2>2
<1>2. Bytes(rs) \in Seq(Nat) /\ Len(Bytes(rs)) = Len(rs)
  BY <1>1 DEF Bytes
<1>3. BytesIn(rs) = SumOf(Bytes(rs))
  BY DEF BytesIn, Bytes
<1>4. \A i \in 1 .. Len(rs) : Bytes(rs)[i] = rs[i].numBytes
  BY DEF Bytes
<1> QED
  BY <1>2, <1>3, <1>4, SumTyped

LEMMA ConcatIs ==
  ASSUME NEW S, NEW s \in Seq(S), NEW t \in Seq(S)
  PROVE  /\ s \o t \in Seq(S) /\ Len(s \o t) = Len(s) + Len(t)
         /\ \A i \in 1 .. Len(s) : (s \o t)[i] = s[i]
         /\ \A j \in 1 .. Len(t) : (s \o t)[Len(s) + j] = t[j]
OBVIOUS

LEMMA AskedConcat ==
  ASSUME NEW rs \in Seq(Events), NEW ts \in Seq(Events)
  PROVE  AskedIn(rs \o ts) = AskedIn(rs) + AskedIn(ts)
<1>1. rs \o ts \in Seq(Events)
  BY ConcatIs
<1>2. PICK q \in Seq(Events) : q = rs \o ts
  BY <1>1
<1>3. PICK s \in Seq(Nat), t \in Seq(Nat), u \in Seq(Nat) :
           s = Asks(rs) /\ t = Asks(ts) /\ u = Asks(q)
  BY AskedIsSum
<1>4. PICK m \in Nat, n \in Nat : m = Len(rs) /\ n = Len(ts)
  OBVIOUS
<1>5. /\ Len(q) = m + n /\ \A i \in 1 .. m : q[i] = rs[i]
      /\ \A j \in 1 .. n : q[m + j] = ts[j]
  BY <1>2, <1>4, ConcatIs
<1>6. /\ Len(s) = m /\ Len(t) = n /\ Len(u) = m + n
      /\ \A i \in 1 .. m : s[i] = AskedBy(rs[i])
      /\ \A i \in 1 .. n : t[i] = AskedBy(ts[i])
      /\ \A i \in 1 .. m + n : u[i] = AskedBy(q[i])
  BY <1>3, <1>4, <1>5, AskedIsSum
<1>7. s \o t \in Seq(Nat)
  BY ConcatIs
<1>8. PICK v \in Seq(Nat) : v = s \o t
  BY <1>7
<1>9. /\ Len(v) = m + n /\ \A i \in 1 .. m : v[i] = s[i]
      /\ \A j \in 1 .. n : v[m + j] = t[j]
  <2>1. /\ Len(s \o t) = Len(s) + Len(t)
        /\ \A i \in 1 .. Len(s) : (s \o t)[i] = s[i]
        /\ \A j \in 1 .. Len(t) : (s \o t)[Len(s) + j] = t[j]
    BY ConcatIs
  <2> QED
    BY <1>6, <1>8, <2>1
<1>10. \A i \in 1 .. m + n : u[i] = v[i]
  <2> SUFFICES ASSUME NEW i \in 1 .. m + n PROVE u[i] = v[i]
    OBVIOUS
  <2>1. CASE i \in 1 .. m
    <3>1. u[i] = AskedBy(q[i]) /\ q[i] = rs[i] /\ v[i] = s[i] /\ s[i] = AskedBy(rs[i])
      BY <1>5, <1>6, <1>9, <2>1
    <3> QED
      BY <3>1
  <2>2. CASE i \notin 1 .. m
    <3>1. i - m \in 1 .. n
      BY <2>2
    <3>2. PICK j \in 1 .. n : j = i - m
      BY <3>1
    <3>3. m + j = i
      BY <3>2
    <3>4. u[i] = AskedBy(q[i]) /\ q[i] = ts[j] /\ v[i] = t[j] /\ t[j] = AskedBy(ts[j])
      BY <1>5, <1>6, <1>9, <3>3
    <3> QED
      BY <3>4
  <2> QED
    BY <2>1, <2>2
<1>11. u = v
  BY <1>6, <1>9, <1>10, SameSequence
<1>12. SumOf(v) = SumOf(s) + SumOf(t)
  BY <1>8, SumConcat
<1> QED
  BY <1>2, <1>3, <1>11, <1>12, AskedIsSum

LEMMA AskedOfOne ==
  ASSUME NEW e \in Events
  PROVE  /\ AskedIn(<<e>>) = AskedBy(e) /\ AskedBy(e) \in Nat /\ <<e>> \in Seq(Events)
<1>1. AskedBy(e) \in Nat
  BY Sizes DEF Events, AskedBy
<1>2. <<e>> \in Seq(Events) /\ Asks(<<e>>) = <<AskedBy(e)>>
  BY DEF Asks
<1> QED
  BY <1>1, <1>2, AskedIsSum, SumOfOne

LEMMA AskedAppend ==
  ASSUME NEW evs \in Seq(Events), NEW e \in Events
  PROVE  AskedIn(Append(evs, e)) = AskedIn(evs) + AskedBy(e)
<1>1. Append(evs, e) = evs \o <<e>>
  OBVIOUS
<1> QED
  BY <1>1, AskedConcat, AskedOfOne

LEMMA AskedTail ==
  ASSUME NEW evs \in Seq(Events), evs # <<>>
  PROVE  /\ AskedIn(evs) = AskedBy(Head(evs)) + AskedIn(Tail(evs))
         /\ AskedBy(Head(evs)) \in Nat /\ AskedIn(Tail(evs)) \in Nat
<1>1. evs = <<Head(evs)>> \o Tail(evs) /\ Head(evs) \in Events /\ Tail(evs) \in Seq(Events)
  OBVIOUS
<1> QED
  BY <1>1, AskedConcat, AskedOfOne, AskedIsSum

\* An event queue without questions.
LEMMA AskedNone == AskedIn(<<>>) = 0
<1>1. <<>> \in Seq(Events) /\ Len(<<>>) = 0
  OBVIOUS
<1>2. Asks(<<>>) \in Seq(Nat) /\ Len(Asks(<<>>)) = 0
  BY <1>1, AskedIsSum
<1>3. PICK s \in Seq(Nat) : s = Asks(<<>>)
  BY <1>2
<1>4. SumOf(s) = 0
  BY <1>2, <1>3, SumOfZeros
<1> QED
  BY <1>1, <1>3, <1>4, AskedIsSum

LEMMA BytesConcat ==
  ASSUME NEW rs \in Seq(StreamRequests), NEW ts \in Seq(StreamRequests)
  PROVE  BytesIn(rs \o ts) = BytesIn(rs) + BytesIn(ts)
<1>1. rs \o ts \in Seq(StreamRequests)
  BY ConcatIs
<1>2. PICK q \in Seq(StreamRequests) : q = rs \o ts
  BY <1>1
<1>3. PICK s \in Seq(Nat), t \in Seq(Nat), u \in Seq(Nat) :
           s = Bytes(rs) /\ t = Bytes(ts) /\ u = Bytes(q)
  BY BytesIsSum
<1>4. PICK m \in Nat, n \in Nat : m = Len(rs) /\ n = Len(ts)
  OBVIOUS
<1>5. /\ Len(q) = m + n /\ \A i \in 1 .. m : q[i] = rs[i]
      /\ \A j \in 1 .. n : q[m + j] = ts[j]
  BY <1>2, <1>4, ConcatIs
<1>6. /\ Len(s) = m /\ Len(t) = n /\ Len(u) = m + n
      /\ \A i \in 1 .. m : s[i] = rs[i].numBytes
      /\ \A i \in 1 .. n : t[i] = ts[i].numBytes
      /\ \A i \in 1 .. m + n : u[i] = q[i].numBytes
  BY <1>3, <1>4, <1>5, BytesIsSum
<1>7. s \o t \in Seq(Nat)
  BY ConcatIs
<1>8. PICK v \in Seq(Nat) : v = s \o t
  BY <1>7
<1>9. /\ Len(v) = m + n /\ \A i \in 1 .. m : v[i] = s[i]
      /\ \A j \in 1 .. n : v[m + j] = t[j]
  <2>1. /\ Len(s \o t) = Len(s) + Len(t)
        /\ \A i \in 1 .. Len(s) : (s \o t)[i] = s[i]
        /\ \A j \in 1 .. Len(t) : (s \o t)[Len(s) + j] = t[j]
    BY ConcatIs
  <2> QED
    BY <1>6, <1>8, <2>1
<1>10. \A i \in 1 .. m + n : u[i] = v[i]
  <2> SUFFICES ASSUME NEW i \in 1 .. m + n PROVE u[i] = v[i]
    OBVIOUS
  <2>1. CASE i \in 1 .. m
    <3>1. u[i] = q[i].numBytes /\ q[i] = rs[i] /\ v[i] = s[i] /\ s[i] = rs[i].numBytes
      BY <1>5, <1>6, <1>9, <2>1
    <3> QED
      BY <3>1
  <2>2. CASE i \notin 1 .. m
    <3>1. i - m \in 1 .. n
      BY <2>2
    <3>2. PICK j \in 1 .. n : j = i - m
      BY <3>1
    <3>3. m + j = i
      BY <3>2
    <3>4. u[i] = q[i].numBytes /\ q[i] = ts[j] /\ v[i] = t[j] /\ t[j] = ts[j].numBytes
      BY <1>5, <1>6, <1>9, <3>3
    <3> QED
      BY <3>4
  <2> QED
    BY <2>1, <2>2
<1>11. u = v
  BY <1>6, <1>9, <1>10, SameSequence
<1>12. SumOf(v) = SumOf(s) + SumOf(t)
  BY <1>8, SumConcat
<1> QED
  BY <1>2, <1>3, <1>11, <1>12, BytesIsSum

LEMMA BytesOfOne ==
  ASSUME NEW r \in StreamRequests
  PROVE  /\ BytesIn(<<r>>) = r.numBytes /\ r.numBytes \in Nat /\ <<r>> \in Seq(StreamRequests)
<1>1. r.numBytes \in Nat
  BY StreamAssumption DEF StreamRequests
<1>2. <<r>> \in Seq(StreamRequests) /\ Bytes(<<r>>) = <<r.numBytes>>
  BY DEF Bytes
<1> QED
  BY <1>1, <1>2, BytesIsSum, SumOfOne

LEMMA BytesAppend ==
  ASSUME NEW rs \in Seq(StreamRequests), NEW r \in StreamRequests
  PROVE  BytesIn(Append(rs, r)) = BytesIn(rs) + r.numBytes
<1>1. Append(rs, r) = rs \o <<r>>
  OBVIOUS
<1> QED
  BY <1>1, BytesConcat, BytesOfOne

LEMMA BytesTail ==
  ASSUME NEW rs \in Seq(StreamRequests), rs # <<>>
  PROVE  /\ BytesIn(rs) = Head(rs).numBytes + BytesIn(Tail(rs))
         /\ Head(rs).numBytes \in Nat /\ BytesIn(Tail(rs)) \in Nat
<1>1. rs = <<Head(rs)>> \o Tail(rs) /\ Head(rs) \in StreamRequests
      /\ Tail(rs) \in Seq(StreamRequests)
  OBVIOUS
<1>2. PICK r \in StreamRequests, q \in Seq(StreamRequests) :
        r = Head(rs) /\ q = Tail(rs) /\ rs = <<r>> \o q
  BY <1>1
<1>3. /\ BytesIn(<<r>>) = r.numBytes /\ r.numBytes \in Nat /\ <<r>> \in Seq(StreamRequests)
      /\ BytesIn(q) \in Nat
  BY BytesOfOne, BytesIsSum
<1>4. BytesIn(<<r>> \o q) = BytesIn(<<r>>) + BytesIn(q)
  BY <1>3, BytesConcat
<1> QED
  BY <1>2, <1>3, <1>4

LEMMA BytesNone ==
  ASSUME NEW rs \in Seq(StreamRequests), \A i \in DOMAIN rs : rs[i].numBytes = 0
  PROVE  BytesIn(rs) = 0
<1>1. PICK s \in Seq(Nat) : s = Bytes(rs)
  BY BytesIsSum
<1>2. \A i \in 1 .. Len(s) : s[i] = 0
  BY <1>1, BytesIsSum
<1> QED
  BY <1>1, <1>2, BytesIsSum, SumOfZeros

-----------------------------------------------------------------------------
(* AuWriteElement splits what is to be written without loss.                 *)

LEMMA DivBounds ==
  ASSUME NEW a \in Nat, NEW b \in Nat \ {0}
  PROVE  a \div b \in Nat /\ (a \div b) * b <= a /\ a < (a \div b) * b + b
<1>1. a \div b \in Int /\ a % b \in 0 .. b - 1
  BY SMT
<1>2. a = b * (a \div b) + (a % b)
  BY SMT
<1>3. a \div b >= 0
  BY SMT
<1>4. b * (a \div b) = (a \div b) * b
  BY <1>1
<1> QED
  BY <1>1, <1>2, <1>3, <1>4

\* All pieces but the last are full, and something is left for the last one.
LEMMA LastPiece ==
  ASSUME NEW n \in Nat \ {0}, NEW m \in Nat \ {0}, NEW p, p = (n + m - 1) \div m
  PROVE  p \in Nat \ {0} /\ n - (p - 1) * m \in 1 .. m
<1>1. n + m - 1 \in Nat
  OBVIOUS
<1>2. PICK a \in Nat : a = n + m - 1
  BY <1>1
<1>3. p \in Nat /\ p * m <= a /\ a < p * m + m
  BY <1>2, DivBounds
<1>4. p # 0
  BY <1>2, <1>3
<1>5. (p - 1) * m = p * m - m
  BY <1>3
<1>6. PICK k \in Int : k = p * m
  BY <1>3
<1> QED
  BY <1>2, <1>3, <1>4, <1>5, <1>6

LEMMA PiecesAddUp ==
  ASSUME NEW p \in Nat \ {0}, NEW m \in Nat, NEW last \in Nat, NEW s \in Seq(Nat), Len(s) = p,
         \A i \in 1 .. p - 1 : s[i] = m, s[p] = last
  PROVE  SumOf(s) = (p - 1) * m + last
<1> DEFINE g == [i \in 0 .. p |-> IF i < p THEN i * m ELSE (p - 1) * m + last]
<1>1. \A i \in 0 .. p : g[i] \in Nat
  <2>1. \A i \in 0 .. p : i * m \in Nat
    OBVIOUS
  <2>2. (p - 1) * m \in Nat
    OBVIOUS
  <2> QED
    BY <2>1, <2>2
<1>2. g[0] = 0 /\ g[p] = (p - 1) * m + last
  OBVIOUS
<1>3. \A i \in 1 .. p : g[i] = g[i - 1] + s[i]
  <2> SUFFICES ASSUME NEW i \in 1 .. p PROVE g[i] = g[i - 1] + s[i]
    OBVIOUS
  <2>1. CASE i < p
    <3>1. g[i] = i * m /\ g[i - 1] = (i - 1) * m /\ s[i] = m
      BY <2>1
    <3>2. (i - 1) * m + m = i * m
      OBVIOUS
    <3> QED
      BY <3>1, <3>2
  <2>2. CASE i = p
    BY <2>2
  <2> QED
    BY <2>1, <2>2
<1>4. PartialSums(s, g)
  BY <1>1, <1>2, <1>3 DEF PartialSums
<1> QED
  BY <1>2, <1>4, SumIs

LEMMA PiecesAre ==
  ASSUME NEW n \in Nat, NEW final \in {"Ready", "End"}
  PROVE  /\ WriteElement(n, final) \in Seq(StreamRequests)
         /\ BytesIn(WriteElement(n, final)) = n
         /\ \A i \in DOMAIN WriteElement(n, final) :
                /\ WriteElement(n, final)[i].op = "Write"
                /\ WriteElement(n, final)[i].state = "End" =>
                     final = "End" /\ i = Len(WriteElement(n, final))
                /\ n = 0 => WriteElement(n, final)[i].numBytes = 0
<1>1. PICK m \in Nat \ {0} : m = MaxRequest
  BY StreamAssumption
<1>2. PICK p \in Nat \ {0}, last \in 0 .. m :
        /\ p = IF n = 0 THEN 1 ELSE (n + m - 1) \div m
        /\ last = n - (p - 1) * m
        /\ n = 0 => last = 0
  <2>1. CASE n = 0
    <3>1. 1 \in Nat \ {0} /\ 0 \in 0 .. m /\ 0 = 0 - (1 - 1) * m
      OBVIOUS
    <3> QED
      BY <2>1, <3>1
  <2>2. CASE n # 0
    <3>1. PICK p \in Nat \ {0} : p = (n + m - 1) \div m
      BY <2>2, LastPiece
    <3>2. n - (p - 1) * m \in 1 .. m
      BY <2>2, <3>1, LastPiece
    <3>3. PICK last \in 1 .. m : last = n - (p - 1) * m
      BY <3>2
    <3>4. last \in 0 .. m
      OBVIOUS
    <3> QED
      BY <2>2, <3>1, <3>3, <3>4
  <2> QED
    BY <2>1, <2>2
<1>3. (p - 1) * m + last = n
  <2>1. (p - 1) * m \in Int
    BY <1>1, <1>2
  <2> QED
    BY <1>2, <2>1
<1> DEFINE q == [i \in 1 .. p |-> IF i < p THEN WriteRequest(m, "Pending")
                                  ELSE WriteRequest(last, final)]
<1>4. WriteElement(n, final) = q
  BY <1>1, <1>2 DEF WriteElement
<1>5. /\ WriteRequest(m, "Pending") \in StreamRequests
      /\ WriteRequest(last, final) \in StreamRequests
  BY <1>1, <1>2 DEF WriteRequest, StreamRequests
<1>6. q \in Seq(StreamRequests) /\ Len(q) = p
  BY <1>5
<1>7. \A i \in 1 .. p : /\ i < p => q[i] = WriteRequest(m, "Pending")
                        /\ i >= p => q[i] = WriteRequest(last, final)
  OBVIOUS
<1> HIDE DEF q
<1>8. BytesIn(q) = n
  <2>1. PICK s \in Seq(Nat) : s = Bytes(q)
    BY <1>6, BytesIsSum
  <2>2. Len(s) = p /\ \A i \in 1 .. p : s[i] = q[i].numBytes
    BY <1>6, <2>1, BytesIsSum
  <2>3. (\A i \in 1 .. p - 1 : s[i] = m) /\ s[p] = last
    <3>1. \A i \in 1 .. p - 1 : i \in 1 .. p /\ i < p
      OBVIOUS
    <3>2. p \in 1 .. p /\ p >= p
      OBVIOUS
    <3> QED
      BY <1>7, <2>2, <3>1, <3>2 DEF WriteRequest
  <2>4. /\ p \in Nat \ {0} /\ m \in Nat /\ last \in Nat /\ s \in Seq(Nat) /\ Len(s) = p
        /\ (\A i \in 1 .. p - 1 : s[i] = m) /\ s[p] = last
    BY <1>1, <1>2, <2>1, <2>2, <2>3
  <2>5. SumOf(s) = (p - 1) * m + last
    BY ONLY <2>4, PiecesAddUp
  <2> QED
    BY <1>3, <1>6, <2>1, <2>5, BytesIsSum
<1>9. ASSUME NEW i \in DOMAIN q
      PROVE  /\ q[i].op = "Write"
             /\ q[i].state = "End" => final = "End" /\ i = Len(q)
             /\ n = 0 => q[i].numBytes = 0
  <2>1. i \in 1 .. p
    BY <1>6
  <2>2. CASE i < p
    <3>1. n # 0
      BY <1>2, <2>1, <2>2
    <3> QED
      BY <1>7, <2>1, <2>2, <3>1 DEF WriteRequest
  <2>3. CASE i >= p
    <3>1. i = p
      BY <2>1, <2>3
    <3> QED
      BY <1>2, <1>6, <1>7, <2>1, <2>3, <3>1 DEF WriteRequest
  <2> QED
    BY <2>1, <2>2, <2>3
<1> QED
  BY <1>4, <1>6, <1>8, <1>9

-----------------------------------------------------------------------------
(* The inductive invariant.                                                  *)

\* Without rate conversion a read takes something, and what it posts asks for
\* something.
Copies == ~Resample

NoBytes(rs) == \A i \in 1 .. Len(rs) : rs[i].numBytes = 0
NoStart(rs) == \A i \in 1 .. Len(rs) : rs[i].op # "Start"

\* Requests of which the library has left bytes still to send and the
\* application has ops operations: nothing follows the end of the sound, and
\* nothing starts it after the application has stopped it.
InOrder(rs, left, ops) ==
    /\ \A i \in 1 .. Len(rs) : rs[i].op # "Write" => rs[i].numBytes = 0
    /\ \A i \in 1 .. Len(rs) :
          rs[i].op = "Write" /\ rs[i].state = "End" =>
             left = 0 /\ \A j \in i + 1 .. Len(rs) : rs[j].numBytes = 0
    /\ \A i \in 1 .. Len(rs) :
          rs[i].op = "Stop" => ops = 0 /\ \A j \in i + 1 .. Len(rs) : rs[j].op # "Start"

\* The library has sent everything, and the server will not store any more.
Spent == remaining = 0 /\ NoBytes(toServer)
Over == Spent /\ pc \notin {"copy", "commit"}

\* The flow was not started yet: "incoming" is what createPort found there.
Fresh == /\ state = "Stop" /\ events = <<>> /\ pc = "idle" /\ currentSize = 0
         /\ toServer # <<>> /\ Head(toServer).op = "Start" /\ NoBytes(toServer)

\* "incoming" is backed by room, and backs what is on its way.
Live == /\ currentSize + incoming <= DataSize
        /\ Arriving <= incoming
        /\ remaining > 0 => Owed <= incoming

AsksSomething == \A i \in 1 .. Len(events) : AsksForData(events[i]) => events[i].numBytes > 0

EndTaken == /\ pc = "clear" => req.state = "End"
            /\ pc # "idle" /\ req.state = "End" => Spent
EofOver == eof => Fresh \/ Over
Stopped == state = "Stop" => Fresh \/ Over \/ (userOps = 0 /\ NoStart(toServer))
Conserved == count + Arriving + remaining = total

StreamTyped == /\ <<total, latency>> \in Cases /\ remaining \in 0 .. total
               /\ toServer \in Seq(StreamRequests)
               /\ handling \in BOOLEAN /\ userOps \in 0 .. MaxUserOps

StreamInv == /\ IInv /\ StreamTyped
             /\ InOrder(toServer, remaining, userOps)
             /\ Fresh \/ Live
             /\ AsksSomething /\ EndTaken /\ EofOver /\ Stopped /\ Conserved

-----------------------------------------------------------------------------
(* Requests in order, as they come and go.                                   *)

LEMMA TailInOrder ==
  ASSUME NEW rs \in Seq(StreamRequests), rs # <<>>, NEW left, NEW ops, InOrder(rs, left, ops)
  PROVE  /\ Tail(rs) \in Seq(StreamRequests) /\ InOrder(Tail(rs), left, ops)
         /\ NoBytes(rs) => NoBytes(Tail(rs)) /\ Head(rs).numBytes = 0
         /\ NoStart(rs) => NoStart(Tail(rs)) /\ Head(rs).op # "Start"
         /\ Head(rs).op = "Write" /\ Head(rs).state = "End" => left = 0 /\ NoBytes(Tail(rs))
         /\ Head(rs).op = "Stop" => ops = 0 /\ NoStart(Tail(rs))
         /\ Head(rs).op # "Write" => Head(rs).numBytes = 0
         /\ Head(rs) \in StreamRequests
<1>1. PICK q \in Seq(StreamRequests), r \in StreamRequests : q = Tail(rs) /\ r = Head(rs)
  <2>1. Tail(rs) \in Seq(StreamRequests) /\ Head(rs) \in StreamRequests
    BY SequenceTail
  <2> QED
    BY <2>1
<1>2. PICK n \in Nat : n = Len(q)
  OBVIOUS
<1>3. Len(rs) = n + 1 /\ rs[1] = r /\ \A i \in 1 .. n : q[i] = rs[i + 1]
  BY <1>1, <1>2, SequenceTail
<1>4. \A i \in 1 .. n : i + 1 \in 1 .. n + 1 /\ i + 1 \in 1 + 1 .. n + 1
  OBVIOUS
<1>5. \A i \in 1 .. n : \A j \in i + 1 .. n : j \in 1 .. n /\ j + 1 \in (i + 1) + 1 .. n + 1
  OBVIOUS
<1>6. 1 \in 1 .. n + 1
  OBVIOUS
<1>7. InOrder(q, left, ops)
  BY <1>2, <1>3, <1>4, <1>5 DEF InOrder
<1>8. /\ NoBytes(rs) => NoBytes(q) /\ r.numBytes = 0
      /\ NoStart(rs) => NoStart(q) /\ r.op # "Start"
  BY <1>2, <1>3, <1>4, <1>6 DEF NoBytes, NoStart
<1>9. /\ r.op = "Write" /\ r.state = "End" => left = 0 /\ NoBytes(q)
      /\ r.op = "Stop" => ops = 0 /\ NoStart(q)
      /\ r.op # "Write" => r.numBytes = 0
  BY <1>2, <1>3, <1>4, <1>6 DEF InOrder, NoBytes, NoStart
<1> QED
  BY <1>1, <1>7, <1>8, <1>9

LEMMA StateRequestIs ==
  ASSUME NEW s \in {"Start", "Pause", "Stop"}
  PROVE  /\ StateRequest(s) \in StreamRequests /\ StateRequest(s).numBytes = 0
         /\ StateRequest(s).op = s
  BY StreamAssumption DEF StateRequest, StreamRequests

\* As long as the application may still ask for something it has not stopped
\* the flow.
LEMMA AppendInOrder ==
  ASSUME NEW rs \in Seq(StreamRequests), NEW left, NEW ops \in Nat \ {0}, NEW ops2,
         InOrder(rs, left, ops), NEW s \in {"Start", "Pause", "Stop"}, s = "Stop" => ops2 = 0
  PROVE  /\ Append(rs, StateRequest(s)) \in Seq(StreamRequests)
         /\ InOrder(Append(rs, StateRequest(s)), left, ops2)
         /\ NoBytes(rs) => NoBytes(Append(rs, StateRequest(s)))
         /\ BytesIn(Append(rs, StateRequest(s))) = BytesIn(rs)
         /\ Append(rs, StateRequest(s)) # <<>>
         /\ rs # <<>> => Head(Append(rs, StateRequest(s))) = Head(rs)
<1>1. PICK r \in StreamRequests : r = StateRequest(s) /\ r.numBytes = 0 /\ r.op = s
  BY StateRequestIs
<1>2. PICK q \in Seq(StreamRequests) : q = Append(rs, r)
  <2>1. Append(rs, r) \in Seq(StreamRequests)
    OBVIOUS
  <2> QED
    BY <2>1
<1>3. PICK n \in Nat : n = Len(rs)
  OBVIOUS
<1>4. Len(q) = n + 1 /\ q[n + 1] = r /\ \A i \in 1 .. n : q[i] = rs[i]
  BY <1>2, <1>3
<1>5. \A i \in 1 .. n + 1 : i \in 1 .. n \/ i = n + 1
  OBVIOUS
<1>6. \A i \in 1 .. n : \A j \in i + 1 .. n + 1 : j \in i + 1 .. n \/ j = n + 1
  OBVIOUS
<1>7. \A i \in 1 .. n : \A j \in i + 1 .. n : j \in 1 .. n
  OBVIOUS
<1>8. \A j \in (n + 1) + 1 .. n + 1 : FALSE
  OBVIOUS
<1>9. \A i \in 1 .. n : rs[i].op # "Stop"
  BY <1>3 DEF InOrder
<1>10. InOrder(q, left, ops2)
  <2>1. \A i \in 1 .. Len(q) : q[i].op # "Write" => q[i].numBytes = 0
    BY <1>1, <1>3, <1>4, <1>5 DEF InOrder
  <2>2. ASSUME NEW i \in 1 .. Len(q), q[i].op = "Write", q[i].state = "End"
        PROVE  left = 0 /\ \A j \in i + 1 .. Len(q) : q[j].numBytes = 0
    BY <1>1, <1>3, <1>4, <1>5, <1>6, <1>7, <2>2 DEF InOrder
  <2>3. ASSUME NEW i \in 1 .. Len(q), q[i].op = "Stop"
        PROVE  ops2 = 0 /\ \A j \in i + 1 .. Len(q) : q[j].op # "Start"
    BY <1>1, <1>4, <1>5, <1>8, <1>9, <2>3
  <2> QED
    BY <2>1, <2>2, <2>3 DEF InOrder
<1>11. NoBytes(rs) => NoBytes(q)
  BY <1>1, <1>3, <1>4, <1>5 DEF NoBytes
<1>12. BytesIn(q) = BytesIn(rs)
  <2>1. BytesIn(q) = BytesIn(rs) + r.numBytes
    BY <1>2, BytesAppend
  <2>2. BytesIn(rs) \in Nat
    BY BytesIsSum
  <2> QED
    BY <1>1, <2>1, <2>2
<1>13. q # <<>> /\ (rs # <<>> => Head(q) = Head(rs))
  BY <1>2
<1> QED
  BY <1>1, <1>2, <1>10, <1>11, <1>12, <1>13

\* What the library sends; with nothing left it sends an empty last write.
LEMMA SendInOrder ==
  ASSUME NEW rs \in Seq(StreamRequests), NEW left \in Nat, NEW ops, InOrder(rs, left, ops),
         NEW n \in 0 .. left, NEW final \in {"Ready", "End"}, final = "End" => left - n = 0
  PROVE  /\ rs \o WriteElement(n, final) \in Seq(StreamRequests)
         /\ InOrder(rs \o WriteElement(n, final), left - n, ops)
         /\ n = 0 /\ NoBytes(rs) => NoBytes(rs \o WriteElement(n, final))
         /\ NoStart(rs) => NoStart(rs \o WriteElement(n, final))
         /\ BytesIn(rs \o WriteElement(n, final)) = BytesIn(rs) + n
<1>1. n \in Nat
  OBVIOUS
<1>2. PICK w \in Seq(StreamRequests) : w = WriteElement(n, final)
  BY <1>1, PiecesAre
<1>3. PICK k \in Nat, m \in Nat : k = Len(rs) /\ m = Len(w)
  OBVIOUS
<1>4. /\ BytesIn(w) = n
      /\ \A i \in 1 .. m : /\ w[i].op = "Write"
                           /\ w[i].state = "End" => final = "End" /\ i = m
                           /\ n = 0 => w[i].numBytes = 0
  <2>1. /\ BytesIn(WriteElement(n, final)) = n
        /\ \A i \in DOMAIN WriteElement(n, final) :
               /\ WriteElement(n, final)[i].op = "Write"
               /\ WriteElement(n, final)[i].state = "End" =>
                    final = "End" /\ i = Len(WriteElement(n, final))
               /\ n = 0 => WriteElement(n, final)[i].numBytes = 0
    BY <1>1, PiecesAre
  <2>2. DOMAIN w = 1 .. m
    BY <1>3
  <2> QED
    BY <1>2, <1>3, <2>1, <2>2
<1>5. PICK q \in Seq(StreamRequests) : q = rs \o w
  <2>1. rs \o w \in Seq(StreamRequests)
    BY ConcatIs
  <2> QED
    BY <2>1
<1>6. /\ Len(q) = k + m /\ \A i \in 1 .. k : q[i] = rs[i]
      /\ \A j \in 1 .. m : q[k + j] = w[j]
  <2>1. /\ Len(rs \o w) = Len(rs) + Len(w)
        /\ \A i \in 1 .. Len(rs) : (rs \o w)[i] = rs[i]
        /\ \A j \in 1 .. Len(w) : (rs \o w)[Len(rs) + j] = w[j]
    BY ConcatIs
  <2> QED
    BY <1>3, <1>5, <2>1
<1>7. ASSUME NEW i \in 1 .. k + m
      PROVE  i \in 1 .. k \/ \E j \in 1 .. m : i = k + j
  <2>1. i \in 1 .. k \/ (i - k \in 1 .. m /\ i = k + (i - k))
    OBVIOUS
  <2> QED
    BY <2>1
<1>8. \A i \in 1 .. m : /\ q[k + i].op = "Write"
                        /\ q[k + i].state = "End" => final = "End" /\ i = m
                        /\ n = 0 => q[k + i].numBytes = 0
  BY <1>4, <1>6
<1>9. /\ \A i \in 1 .. k : rs[i].op # "Write" => rs[i].numBytes = 0
      /\ \A i \in 1 .. k :
            rs[i].op = "Write" /\ rs[i].state = "End" =>
               left = 0 /\ \A j \in i + 1 .. k : rs[j].numBytes = 0
      /\ \A i \in 1 .. k :
            rs[i].op = "Stop" => ops = 0 /\ \A j \in i + 1 .. k : rs[j].op # "Start"
  BY <1>3 DEF InOrder
<1>10. InOrder(q, left - n, ops)
  <2>1. \A i \in 1 .. k + m : q[i].op # "Write" => q[i].numBytes = 0
    BY <1>6, <1>7, <1>8, <1>9
  <2>2. ASSUME NEW i \in 1 .. k + m, q[i].op = "Write", q[i].state = "End"
        PROVE  left - n = 0 /\ \A j \in i + 1 .. k + m : q[j].numBytes = 0
    <3>1. CASE i \in 1 .. k
      <4>1. left = 0 /\ \A j \in i + 1 .. k : rs[j].numBytes = 0
        BY <1>6, <1>9, <2>2, <3>1
      <4>2. n = 0
        BY <4>1
      <4>3. ASSUME NEW j \in i + 1 .. k + m PROVE q[j].numBytes = 0
        <5>1. j \in 1 .. k + m /\ (j \in 1 .. k => j \in i + 1 .. k)
          BY <3>1
        <5> QED
          BY <1>6, <1>7, <1>8, <4>1, <4>2, <5>1
      <4> QED
        BY <4>1, <4>2, <4>3
    <3>2. ASSUME NEW h \in 1 .. m, i = k + h
          PROVE  left - n = 0 /\ \A j \in i + 1 .. k + m : q[j].numBytes = 0
      <4>1. final = "End" /\ h = m
        BY <1>8, <2>2, <3>2
      <4>2. \A j \in i + 1 .. k + m : FALSE
        BY <3>2, <4>1
      <4> QED
        BY <4>1, <4>2
    <3> QED
      BY <1>7, <3>1, <3>2
  <2>3. ASSUME NEW i \in 1 .. k + m, q[i].op = "Stop"
        PROVE  ops = 0 /\ \A j \in i + 1 .. k + m : q[j].op # "Start"
    <3>1. i \in 1 .. k
      BY <1>7, <1>8, <2>3
    <3>2. ops = 0 /\ \A j \in i + 1 .. k : rs[j].op # "Start"
      BY <1>6, <1>9, <2>3, <3>1
    <3>3. ASSUME NEW j \in i + 1 .. k + m PROVE q[j].op # "Start"
      <4>1. j \in 1 .. k + m /\ (j \in 1 .. k => j \in i + 1 .. k)
        BY <3>1
      <4> QED
        BY <1>6, <1>7, <1>8, <3>2, <4>1
    <3> QED
      BY <3>2, <3>3
  <2> QED
    BY <1>6, <2>1, <2>2, <2>3 DEF InOrder
<1>11. n = 0 /\ NoBytes(rs) => NoBytes(q)
  <2> SUFFICES ASSUME n = 0, NoBytes(rs), NEW i \in 1 .. k + m PROVE q[i].numBytes = 0
    BY <1>6 DEF NoBytes
  <2>1. i \in 1 .. k => q[i].numBytes = 0
    BY <1>3, <1>6 DEF NoBytes
  <2> QED
    BY <1>7, <1>8, <2>1
<1>12. NoStart(rs) => NoStart(q)
  <2> SUFFICES ASSUME NoStart(rs), NEW i \in 1 .. k + m PROVE q[i].op # "Start"
    BY <1>6 DEF NoStart
  <2>1. i \in 1 .. k => q[i].op # "Start"
    BY <1>3, <1>6 DEF NoStart
  <2> QED
    BY <1>7, <1>8, <2>1
<1>13. BytesIn(q) = BytesIn(rs) + n
  BY <1>4, <1>5, BytesConcat
<1> QED
  BY <1>2, <1>5, <1>10, <1>11, <1>12, <1>13

-----------------------------------------------------------------------------
(* What one step does to the credit.                                         *)

LEMMA Numbers ==
  ASSUME IInv, StreamTyped
  PROVE  /\ BytesIn(toServer) \in Nat /\ req.numBytes \in Nat
         /\ Arriving \in Nat /\ AskedIn(events) \in Nat
         /\ incoming \in Nat /\ incoming < Word
         /\ currentSize \in Nat /\ currentSize <= DataSize
         /\ remaining \in Nat /\ count \in Nat /\ total \in Nat /\ total <= MaxBytes
         /\ events \in Seq(Events) /\ toServer \in Seq(StreamRequests)
         /\ userOps \in Nat
         /\ DataSize \in Nat \ {0} /\ Word \in Nat /\ DataSize < Word /\ MaxBytes \in Nat
<1>1. total \in 0 .. MaxBytes
  BY StreamAssumption DEF StreamTyped
<1>2. DataSize \in Nat \ {0} /\ Word \in Nat /\ DataSize < Word /\ MaxBytes \in Nat
  BY PortAssumption
<1>3. events \in Seq(Events) /\ toServer \in Seq(StreamRequests)
  BY DEF IInv, TypeOK, StreamTyped
<1>4. BytesIn(toServer) \in Nat /\ AskedIn(events) \in Nat
  BY <1>3, AskedIsSum, BytesIsSum
<1>5. req.numBytes \in Nat /\ count \in Nat
  BY RingTyped
<1>6. Arriving \in Nat
  BY <1>4, <1>5 DEF Arriving
<1>7. currentSize \in Nat /\ currentSize <= DataSize
  BY <1>2, RingTyped
<1>8. incoming \in Nat /\ incoming < Word
  BY <1>2, RingTyped
<1>9. remaining \in Nat
  BY <1>1 DEF StreamTyped
<1>10. userOps \in Nat
  BY StreamAssumption DEF StreamTyped
<1> QED
  BY <1>1, <1>2, <1>3, <1>4, <1>5, <1>6, <1>7, <1>8, <1>9, <1>10

\* fillInEvent asks for the room that is not promised yet.
LEMMA Posted ==
  ASSUME events \in Seq(Events), NEW size \in Nat, NEW inc \in Nat, size + inc <= DataSize,
         NEW kind \in {"State", "LowWater"},
         NEW reason \in {"User", "Underrun", "EOF", "Watermark"},
         NEW newState \in {"Stop", "Pause", "Start"},
         Notify(kind, reason, newState, size, inc)
  PROVE  /\ \E e \in Events : /\ events' = Append(events, e)
                              /\ e.kind = kind /\ e.reason = reason /\ e.state = newState
                              /\ e.numBytes = DataSize - size - inc
         /\ incoming' = IF newState = "Stop" THEN inc ELSE DataSize - size
<1>1. DataSize \in Nat /\ Word \in Nat /\ DataSize < Word
  BY PortAssumption
<1>2. PICK w \in Nat : w = DataSize - size - inc
  BY <1>1
<1>3. w < Word /\ Wanted(size, inc) = w
  BY <1>1, <1>2 DEF Wanted
<1>4. PICK e \in Events :
        e = [kind |-> kind, reason |-> reason, state |-> newState, numBytes |-> w]
  <2>1. w \in 0 .. Word - 1
    BY <1>1, <1>3
  <2> QED
    BY <2>1 DEF Events
<1>5. events' = Append(events, e)
  BY <1>3, <1>4 DEF Notify
<1>6. (inc + w) % Word = DataSize - size
  BY <1>1, <1>2
<1> QED
  BY <1>2, <1>3, <1>4, <1>5, <1>6 DEF Notify

\* With an event goes at most the credit that it adds.
LEMMA CreditPosted ==
  ASSUME IInv, StreamTyped, currentSize + incoming <= DataSize,
         NEW size \in Nat, size <= currentSize,
         NEW kind \in {"State", "LowWater"},
         NEW reason \in {"User", "Underrun", "EOF", "Watermark"},
         NEW newState \in {"Stop", "Pause", "Start"},
         kind = "State" \/ newState # "Stop",
         Notify(kind, reason, newState, size, incoming)
  PROVE  /\ size + incoming' <= DataSize /\ incoming' \in Nat /\ incoming <= incoming'
         /\ AskedIn(events') - AskedIn(events) <= incoming' - incoming
         /\ AskedIn(events') \in Nat
         /\ \E e \in Events : /\ events' = Append(events, e)
                              /\ e.kind = kind /\ e.reason = reason /\ e.state = newState
                              /\ e.numBytes = DataSize - size - incoming
<1>1. /\ incoming \in Nat /\ currentSize \in Nat /\ events \in Seq(Events) /\ DataSize \in Nat
      /\ AskedIn(events) \in Nat
  BY Numbers
<1>2. size + incoming <= DataSize
  BY <1>1
<1>3. PICK e \in Events : /\ events' = Append(events, e)
                          /\ e.kind = kind /\ e.reason = reason /\ e.state = newState
                          /\ e.numBytes = DataSize - size - incoming
  BY <1>1, <1>2, Posted
<1>4. incoming' = IF newState = "Stop" THEN incoming ELSE DataSize - size
  BY <1>1, <1>2, Posted
<1>5. AskedIn(events') = AskedIn(events) + AskedBy(e) /\ AskedBy(e) \in Nat
  BY <1>1, <1>3, AskedAppend, AskedOfOne
<1>6. AskedBy(e) <= incoming' - incoming
  <2>1. CASE newState = "Stop"
    BY <1>1, <1>3, <1>4, <2>1 DEF AskedBy, AsksForData
  <2>2. CASE newState # "Stop"
    <3>1. AskedBy(e) <= DataSize - size - incoming
      BY <1>1, <1>2, <1>3 DEF AskedBy
    <3> QED
      BY <1>1, <1>4, <2>2, <3>1
  <2> QED
    BY <2>1, <2>2
<1>7. /\ size + incoming' <= DataSize /\ incoming' \in Nat /\ incoming <= incoming'
  BY <1>1, <1>2, <1>4
<1>8. AskedIn(events') - AskedIn(events) <= incoming' - incoming /\ AskedIn(events') \in Nat
  <2>1. AskedIn(events') - AskedIn(events) = AskedBy(e)
    BY <1>1, <1>5
  <2> QED
    BY <1>1, <1>5, <1>6, <2>1
<1> QED
  BY <1>3, <1>7, <1>8

\* A read takes something, and tells the client what that leaves.
LEMMA ReadTakes ==
  ASSUME IInv, StreamTyped, Copies, ReadClient, currentSize + incoming <= DataSize
  PROVE  /\ state = "Start" /\ eof' = eof /\ UNCHANGED <<count, writer>>
         /\ currentSize' \in Nat /\ currentSize' < currentSize
         /\ \/ UNCHANGED <<state, incoming, events>>
            \/ \E kind \in {"State", "LowWater"}, reason \in {"Underrun", "EOF", "Watermark"} :
                 /\ Notify(kind, reason, state', currentSize', incoming)
                 /\ state' \in {"Stop", "Pause", "Start"}
                 /\ kind = "State" \/ state' # "Stop"
                 /\ state' = "Stop" => eof
                 /\ reason = "EOF" =>
                      currentSize' = currentSize - WholeSamples(currentSize)
<1>1. state = "Start" /\ UNCHANGED <<count, writer>> /\ WholeSamples(currentSize) # 0
  BY DEF ReadClient
<1>2. PICK size \in 1 .. DataSize : size = WholeSamples(currentSize) /\ size <= currentSize
  <2>1. currentSize \in 0 .. DataSize
    BY RingTyped
  <2>2. WholeSamples(currentSize) \in 0 .. currentSize
    BY <2>1, PortAssumption
  <2> QED
    BY <1>1, <2>1, <2>2, Sizes
<1>3. PICK c \in Passes(size) :
        LET taken == c[1].in + c[2].in
            newSize == size - taken
        IN /\ currentSize' = currentSize - taken
           /\ \/ newSize = 0 /\ eof /\ StopElement(currentSize', "EOF")
              \/ newSize = 0 /\ ~eof /\ PauseElement(currentSize', "Underrun")
              \/ /\ newSize # 0 /\ newSize <= LowWater /\ ~eof
                 /\ Notify("LowWater", "Watermark", state, currentSize', incoming)
                 /\ UNCHANGED <<state, eof>>
              \/ UNCHANGED <<state, eof, incoming, events>>
  BY <1>2 DEF ReadClient
<1>4. read \in 0 .. DataSize - 1 /\ currentSize \in Nat /\ DataSize \in Nat \ {0} /\ Chunk \in Nat \ {0}
  BY RingTyped, Sizes
<1>5. c[1].in \in Nat /\ c[2].in \in Nat /\ c[1].in + c[2].in <= size
  BY <1>4, PassesTake
<1>6. c[1].in > 0
  <2>1. PICK n \in Nat : n = Least(DataSize - read, size) /\ n > 0
    BY <1>4 DEF Least
  <2>2. c[1] \in RateConvert(Chunk, n)
    BY <2>1 DEF Passes
  <2>3. c[1].in = Least(Chunk, n)
    BY <2>2 DEF RateConvert, Copies
  <2> QED
    BY <1>4, <2>1, <2>3 DEF Least
<1>7. PICK taken \in 1 .. size : taken = c[1].in + c[2].in
  BY <1>5, <1>6
<1>8. currentSize' = currentSize - taken
  BY <1>3, <1>7
<1>9. currentSize' \in Nat /\ currentSize' < currentSize
  BY <1>2, <1>4, <1>8
<1>10. CASE size - taken = 0 /\ eof /\ StopElement(currentSize', "EOF")
  BY <1>1, <1>2, <1>7, <1>8, <1>9, <1>10 DEF StopElement
<1>11. CASE size - taken = 0 /\ ~eof /\ PauseElement(currentSize', "Underrun")
  BY <1>1, <1>9, <1>11 DEF PauseElement
<1>12. CASE /\ Notify("LowWater", "Watermark", state, currentSize', incoming)
            /\ UNCHANGED <<state, eof>>
  BY <1>1, <1>9, <1>12
<1>13. CASE UNCHANGED <<state, eof, incoming, events>>
  BY <1>1, <1>9, <1>13
<1> QED
  BY <1>3, <1>7, <1>10, <1>11, <1>12, <1>13

-----------------------------------------------------------------------------
(* The invariant holds at first and is kept by every step.                   *)

LEMMA AskedMore ==
  ASSUME AsksSomething, events \in Seq(Events), NEW e \in Events, events' = Append(events, e),
         AsksForData(e) => e.numBytes > 0
  PROVE  AsksSomething'
<1>1. /\ Len(events') = Len(events) + 1 /\ Len(events) \in Nat
      /\ \A i \in 1 .. Len(events) : events'[i] = events[i]
      /\ events'[Len(events) + 1] = e
  BY SequenceAppended
<1>2. \A i \in 1 .. Len(events) + 1 : i \in 1 .. Len(events) \/ i = Len(events) + 1
  BY <1>1
<1> QED
  BY <1>1, <1>2 DEF AsksSomething

LEMMA AskedLess ==
  ASSUME AsksSomething, events \in Seq(Events), events # <<>>, events' = Tail(events)
  PROVE  AsksSomething'
<1>1. /\ Len(events') = Len(events) - 1 /\ Len(events) \in Nat
      /\ \A i \in 1 .. Len(events) - 1 : events'[i] = events[i + 1]
  BY SequenceTail
<1>2. \A i \in 1 .. Len(events) - 1 : i + 1 \in 1 .. Len(events)
  BY <1>1
<1> QED
  BY <1>1, <1>2 DEF AsksSomething

LEMMA StreamInitially == StreamInit => StreamInv
<1> SUFFICES ASSUME StreamInit PROVE StreamInv
  OBVIOUS
<1>1. IInv
  BY InitInv DEF StreamInit
<1>2. PICK c \in Cases : total = c[1] /\ latency = c[2]
  BY DEF StreamInit
<1>3. c \in (0 .. MaxBytes) \X Latencies
  BY StreamAssumption
<1>4. <<total, latency>> \in Cases /\ total \in 0 .. MaxBytes
  BY <1>2, <1>3
<1>5. PICK r \in StreamRequests : r = StateRequest("Start") /\ r.numBytes = 0 /\ r.op = "Start"
  BY StateRequestIs
<1>6. toServer = <<r>> /\ toServer \in Seq(StreamRequests) /\ Len(toServer) = 1
      /\ toServer[1] = r /\ toServer # <<>> /\ Head(toServer) = r
  BY <1>5 DEF StreamInit
<1>7. StreamTyped
  BY <1>4, <1>6, StreamAssumption, PortAssumption DEF StreamTyped, StreamInit
<1>8. InOrder(toServer, remaining, userOps) /\ NoBytes(toServer)
  BY <1>5, <1>6 DEF InOrder, NoBytes
<1>9. /\ state = "Stop" /\ events = <<>> /\ pc = "idle" /\ currentSize = 0 /\ count = 0
      /\ remaining = total
  BY DEF StreamInit, Init
<1>10. Fresh
  BY <1>5, <1>6, <1>8, <1>9 DEF Fresh
<1>11. AsksSomething /\ EndTaken /\ EofOver /\ Stopped
  BY <1>9, <1>10 DEF AsksSomething, EndTaken, EofOver, Stopped
<1>12. Conserved
  <2>1. BytesIn(toServer) = 0
    BY <1>5, <1>6, BytesOfOne
  <2> QED
    BY <1>4, <1>9, <2>1, PortAssumption DEF Conserved, Arriving
<1> QED
  BY <1>1, <1>7, <1>8, <1>10, <1>11, <1>12 DEF StreamInv

\* A step that leaves alone what is on its way may only add credit.
LEMMA InterruptKeeps == StreamInv /\ Copies /\ Interrupt => StreamInv'
<1> SUFFICES ASSUME StreamInv, Copies, Interrupt PROVE StreamInv'
  OBVIOUS
<1>1. ReadClient /\ UNCHANGED streamVars
  BY DEF Interrupt
<1>2. IInv /\ StreamTyped
  BY DEF StreamInv
<1>3. IInv'
  BY <1>1, <1>2, NextInv DEF Next
<1>4. StreamTyped' /\ InOrder(toServer, remaining, userOps)'
  BY <1>1 DEF StreamInv, StreamTyped, streamVars
<1>5. state = "Start"
  BY <1>1 DEF ReadClient
<1>6. Live /\ ~Fresh
  BY <1>5 DEF StreamInv, Fresh
<1>7. /\ eof' = eof /\ UNCHANGED <<count, writer>>
      /\ currentSize' \in Nat /\ currentSize' < currentSize
      /\ \/ UNCHANGED <<state, incoming, events>>
         \/ \E kind \in {"State", "LowWater"}, reason \in {"Underrun", "EOF", "Watermark"} :
              /\ Notify(kind, reason, state', currentSize', incoming)
              /\ state' \in {"Stop", "Pause", "Start"}
              /\ kind = "State" \/ state' # "Stop"
              /\ state' = "Stop" => eof
  BY <1>1, <1>2, <1>6, ReadTakes DEF Live
<1>8. /\ UNCHANGED <<toServer, remaining, total, userOps, count, pc, req, eof>>
      /\ Arriving' = Arriving
  BY <1>1, <1>7 DEF streamVars, writer, Arriving
<1>9. /\ currentSize' + incoming' <= DataSize /\ incoming' \in Nat /\ incoming <= incoming'
      /\ AskedIn(events') - AskedIn(events) <= incoming' - incoming /\ AskedIn(events') \in Nat
      /\ AsksSomething'
  <2>1. CASE UNCHANGED <<state, incoming, events>>
    <3>1. AsksSomething'
      BY <2>1 DEF StreamInv, AsksSomething
    <3>2. AskedIn(events') = AskedIn(events)
      BY <2>1
    <3>3. AskedIn(events') - AskedIn(events) <= incoming' - incoming /\ AskedIn(events') \in Nat
      BY <1>2, <2>1, <3>2, Numbers
    <3>4. /\ currentSize + incoming <= DataSize /\ incoming' = incoming
          /\ currentSize \in Nat /\ incoming \in Nat /\ DataSize \in Nat
      BY <1>2, <1>6, <2>1, Numbers DEF Live
    <3>5. currentSize' + incoming' <= DataSize /\ incoming' \in Nat /\ incoming <= incoming'
      <4>1. PICK a \in Nat, b \in Nat, c \in Nat, m \in Nat :
               a = currentSize' /\ b = currentSize /\ c = incoming /\ m = DataSize
        BY <1>7, <3>4
      <4>2. a < b /\ b + c <= m
        BY <1>7, <3>4, <4>1
      <4>3. a + c <= m /\ c <= c
        BY <4>2
      <4> QED
        BY <3>4, <4>1, <4>3
    <3> QED
      BY <3>1, <3>3, <3>5
  <2>2. CASE \E kind \in {"State", "LowWater"}, reason \in {"Underrun", "EOF", "Watermark"} :
              /\ Notify(kind, reason, state', currentSize', incoming)
              /\ state' \in {"Stop", "Pause", "Start"}
              /\ kind = "State" \/ state' # "Stop"
    <3>1. PICK kind \in {"State", "LowWater"}, reason \in {"Underrun", "EOF", "Watermark"} :
              /\ Notify(kind, reason, state', currentSize', incoming)
              /\ state' \in {"Stop", "Pause", "Start"}
              /\ kind = "State" \/ state' # "Stop"
      BY <2>2
    <3>2. PICK size \in Nat : size = currentSize'
      BY <1>7
    <3>3. PICK new \in {"Stop", "Pause", "Start"} : new = state'
      BY <3>1
    <3>4. /\ currentSize + incoming <= DataSize /\ size <= currentSize
          /\ kind = "State" \/ new # "Stop"
          /\ Notify(kind, reason, new, size, incoming)
          /\ reason \in {"User", "Underrun", "EOF", "Watermark"}
      BY <1>2, <1>6, <1>7, <3>1, <3>2, <3>3, Numbers DEF Live
    <3>5. /\ size + incoming' <= DataSize /\ incoming' \in Nat /\ incoming <= incoming'
          /\ AskedIn(events') - AskedIn(events) <= incoming' - incoming
          /\ AskedIn(events') \in Nat
          /\ \E e \in Events : /\ events' = Append(events, e)
                               /\ e.numBytes = DataSize - size - incoming
      BY <1>2, <3>4, CreditPosted
    <3>6. AsksSomething'
      <4>1. PICK e \in Events : events' = Append(events, e) /\ e.numBytes = DataSize - size - incoming
        BY <3>5
      <4>2. e.numBytes > 0
        <5>1. /\ currentSize + incoming <= DataSize /\ size < currentSize
              /\ currentSize \in Nat /\ incoming \in Nat /\ DataSize \in Nat
          BY <1>2, <1>6, <1>7, <3>2, Numbers DEF Live
        <5> QED
          BY <4>1, <5>1
      <4> QED
        BY <1>2, <4>1, <4>2, Numbers, AskedMore DEF StreamInv
    <3> QED
      BY <3>2, <3>5, <3>6
  <2> QED
    BY <1>7, <2>1, <2>2
<1>10. Live'
  <2>1. PICK asked \in Nat, asked2 \in Nat, on \in Nat, inc \in Nat, inc2 \in Nat :
             /\ asked = AskedIn(events) /\ asked2 = AskedIn(events') /\ on = Arriving
             /\ inc = incoming /\ inc2 = incoming'
    BY <1>2, <1>9, Numbers
  <2>2. on <= inc /\ (remaining > 0 => asked + on <= inc) /\ asked2 - asked <= inc2 - inc
        /\ inc <= inc2
    BY <1>6, <1>9, <2>1 DEF Live, Owed
  <2>3. on <= inc2 /\ (remaining > 0 => asked2 + on <= inc2)
    BY <2>2
  <2>4. Arriving' <= incoming' /\ (remaining' > 0 => AskedIn(events') + Arriving' <= incoming')
    BY <1>8, <2>1, <2>3
  <2> QED
    BY <1>9, <2>4 DEF Live, Owed
<1>11. EndTaken' /\ Conserved'
  BY <1>8 DEF StreamInv, EndTaken, Spent, Conserved
<1>12. Over => Over'
  BY <1>8 DEF Over, Spent
<1>13. EofOver'
  BY <1>6, <1>8, <1>12 DEF StreamInv, EofOver
<1>14. Stopped'
  <2>1. state' = "Stop" => eof
    BY <1>5, <1>7
  <2> QED
    BY <1>6, <1>12, <2>1 DEF StreamInv, EofOver, Stopped
<1> QED
  BY <1>3, <1>4, <1>9, <1>10, <1>11, <1>13, <1>14 DEF StreamInv

LEMMA ServeWriteKeeps == StreamInv /\ ServeWrite => StreamInv' /\ (Over => Over')
<1> SUFFICES ASSUME StreamInv, ServeWrite PROVE StreamInv' /\ (Over => Over')
  OBVIOUS
<1> DEFINE first == Head(toServer)
           r == [numBytes |-> first.numBytes, state |-> first.state]
<1>1. /\ toServer # <<>> /\ first.op = "Write" /\ pc = "idle" /\ toServer' = Tail(toServer)
      /\ UNCHANGED <<total, latency, remaining, handling, userOps>>
  BY DEF ServeWrite, Serve
<1>2. IInv /\ StreamTyped /\ InOrder(toServer, remaining, userOps)
  BY DEF StreamInv
<1>3. Live /\ ~Fresh
  BY <1>1 DEF StreamInv, Fresh
<1>4. /\ toServer \in Seq(StreamRequests)
      /\ BytesIn(toServer) = first.numBytes + BytesIn(Tail(toServer))
      /\ first.numBytes \in Nat /\ BytesIn(Tail(toServer)) \in Nat
  BY <1>1, <1>2, Numbers, BytesTail
<1>5. /\ Tail(toServer) \in Seq(StreamRequests) /\ InOrder(Tail(toServer), remaining, userOps)
      /\ NoBytes(toServer) => NoBytes(Tail(toServer)) /\ first.numBytes = 0
      /\ NoStart(toServer) => NoStart(Tail(toServer))
      /\ first.state = "End" => remaining = 0 /\ NoBytes(Tail(toServer))
      /\ first \in StreamRequests
  BY <1>1, <1>2, <1>4, TailInOrder
<1>6. Arriving = BytesIn(toServer)
  BY <1>1, <1>4 DEF Arriving
<1>7. first.numBytes <= DataSize - currentSize
  <2>1. /\ currentSize + incoming <= DataSize /\ BytesIn(toServer) <= incoming
    BY <1>3, <1>6 DEF Live
  <2>2. incoming \in Nat /\ currentSize \in Nat /\ DataSize \in Nat
    BY <1>2, Numbers
  <2> QED
    BY <1>4, <2>1, <2>2
<1>8. BeginWrite(r)
  BY <1>7 DEF ServeWrite
<1>9. /\ UNCHANGED <<ring, incoming, eof, state, events>> /\ req'.numBytes = first.numBytes
      /\ req'.state = first.state /\ count + first.numBytes <= MaxBytes
      /\ pc' = IF first.numBytes = 0 THEN "mark" ELSE "copy"
  BY <1>8 DEF BeginWrite
<1>10. r \in Requests
  <2>1. first.state \in {"Ready", "Pending", "End"}
    BY <1>5 DEF StreamRequests
  <2>2. first.numBytes \in 0 .. MaxBytes
    <3>1. count \in Nat /\ MaxBytes \in Nat
      BY <1>2, Numbers
    <3>2. PICK k \in Nat : k = first.numBytes
      BY <1>4
    <3> HIDE DEF first
    <3> QED
      BY <1>9, <3>1, <3>2
  <2> QED
    BY <2>1, <2>2 DEF Requests
<1>11. IInv'
  BY <1>2, <1>8, <1>10, NextInv DEF Next
<1>12. StreamTyped' /\ InOrder(toServer, remaining, userOps)' /\ AsksSomething'
  BY <1>1, <1>5, <1>9 DEF StreamInv, StreamTyped, AsksSomething
<1>13. Arriving' = Arriving
  <2>1. Arriving' = BytesIn(Tail(toServer)) + IF pc' \in {"copy", "commit"} THEN req'.numBytes ELSE 0
    BY <1>1 DEF Arriving
  <2> QED
    BY <1>4, <1>6, <1>9, <2>1
<1>14. Live' /\ Conserved'
  BY <1>1, <1>3, <1>9, <1>13 DEF StreamInv, Live, Conserved, Owed, ring
<1>15. EndTaken'
  BY <1>1, <1>5, <1>9 DEF EndTaken, Spent
<1>16. Over => Over'
  BY <1>1, <1>5, <1>9 DEF Over, Spent
<1>17. EofOver' /\ Stopped'
  BY <1>1, <1>3, <1>5, <1>9, <1>16 DEF StreamInv, EofOver, Stopped
<1> QED
  BY <1>11, <1>12, <1>14, <1>15, <1>16, <1>17 DEF StreamInv

\* The rest of a WriteElement request.
LEMMA FinishWriteKeeps == StreamInv /\ FinishWrite => StreamInv'
<1> SUFFICES ASSUME StreamInv, FinishWrite PROVE StreamInv'
  OBVIOUS
<1>1. WriteStep /\ UNCHANGED streamVars
  BY DEF FinishWrite
<1>2. IInv /\ StreamTyped /\ EndTaken
  BY DEF StreamInv
<1>3. IInv'
  BY <1>1, <1>2, NextInv DEF Next
<1>4. StreamTyped' /\ InOrder(toServer, remaining, userOps)'
  BY <1>1 DEF StreamInv, StreamTyped, streamVars
<1>5. pc # "idle"
  BY <1>1 DEF WriteStep, CopyBytes, CommitWrite, MarkEnd, ClearIncoming, RestartPaused
<1>6. Live /\ ~Fresh
  BY <1>5 DEF StreamInv, Fresh
<1>7. /\ req' = req /\ events' = events /\ UNCHANGED <<toServer, remaining, total, userOps>>
  BY <1>1 DEF WriteStep, CopyBytes, CommitWrite, MarkEnd, ClearIncoming, RestartPaused,
     ResumeElement, streamVars
<1>8. AsksSomething'
  BY <1>7 DEF StreamInv, AsksSomething
<1>9. Spent => Spent'
  BY <1>7 DEF Spent
<1>10. EndTaken'
  BY <1>1, <1>2, <1>7, <1>9 DEF EndTaken, WriteStep, CopyBytes, CommitWrite, MarkEnd,
     ClearIncoming, RestartPaused
<1>11. CASE CopyBytes
  <2>1. pc = "copy" /\ pc' = "commit" /\ UNCHANGED <<currentSize, count, incoming, eof, state>>
    BY <1>11 DEF CopyBytes
  <2>2. Arriving' = Arriving
    BY <1>7, <2>1 DEF Arriving
  <2>3. Live' /\ Conserved'
    BY <1>6, <1>7, <2>1, <2>2 DEF StreamInv, Live, Conserved, Owed
  <2>4. EofOver' /\ Stopped'
    BY <1>6, <1>7, <2>1 DEF StreamInv, EofOver, Stopped, Over
  <2> QED
    BY <1>3, <1>4, <1>8, <1>10, <2>3, <2>4 DEF StreamInv
<1>12. CASE CommitWrite
  <2>1. /\ pc = "commit" /\ pc' = "mark" /\ UNCHANGED <<eof, state>>
        /\ currentSize' = currentSize + req.numBytes /\ count' = count + req.numBytes
        /\ incoming' = (incoming - req.numBytes) % Word
    BY <1>12 DEF CommitWrite
  <2>2. PICK n \in Nat, b \in Nat, asked \in Nat, inc \in Nat, size \in Nat, w \in Nat :
             /\ n = req.numBytes /\ b = BytesIn(toServer) /\ asked = AskedIn(events)
             /\ inc = incoming /\ size = currentSize /\ w = Word /\ inc < w
    BY <1>2, Numbers
  <2>3. Arriving = b + n /\ Arriving' = b
    BY <1>7, <2>1, <2>2 DEF Arriving
  <2>4. b + n <= inc /\ size + inc <= DataSize
    BY <1>6, <2>2, <2>3 DEF Live
  <2>5. incoming' = inc - n
    <3>1. PICK x \in Nat : x = inc - n
      BY <2>4
    <3>2. x < w /\ x \in 0 .. w - 1
      BY <2>2, <3>1
    <3>3. x % w = x
      BY <3>2
    <3> QED
      BY <2>1, <2>2, <3>1, <3>3
  <2>6. Live'
    <3>1. remaining > 0 => asked + (b + n) <= inc
      BY <1>6, <2>2, <2>3 DEF Live, Owed
    <3>2. (size + n) + (inc - n) <= DataSize /\ b <= inc - n
      BY <1>2, <2>4, Numbers
    <3>3. remaining > 0 => asked + b <= inc - n
      BY <3>1
    <3>4. currentSize' = size + n
      BY <2>1, <2>2
    <3> QED
      BY <1>7, <2>2, <2>3, <2>5, <3>2, <3>3, <3>4 DEF Live, Owed
  <2>7. Conserved'
    <3>1. count \in Nat /\ remaining \in Nat /\ count + (b + n) + remaining = total
      BY <1>2, <2>3, Numbers DEF StreamInv, Conserved
    <3>2. (count + n) + b + remaining = total
      BY <3>1
    <3> QED
      BY <1>7, <2>1, <2>2, <2>3, <3>2 DEF Conserved
  <2>8. EofOver' /\ Stopped'
    BY <1>6, <1>7, <2>1 DEF StreamInv, EofOver, Stopped, Over
  <2> QED
    BY <1>3, <1>4, <1>8, <1>10, <2>6, <2>7, <2>8 DEF StreamInv
<1>13. CASE MarkEnd \/ ClearIncoming \/ RestartPaused
  <2>1. /\ pc \in {"mark", "clear", "restart"} /\ pc' \notin {"copy", "commit"}
        /\ UNCHANGED <<currentSize, count>>
        /\ eof' => eof \/ req.state = "End"
        /\ state' = state \/ state' = "Start"
        /\ incoming' = incoming \/ (pc = "clear" /\ incoming' = 0)
    BY <1>13 DEF MarkEnd, ClearIncoming, RestartPaused, ResumeElement, ring
  <2>2. Arriving' = BytesIn(toServer) /\ Arriving = BytesIn(toServer)
    BY <1>2, <1>7, <2>1, Numbers DEF Arriving
  <2>3. Conserved'
    BY <1>7, <2>1, <2>2 DEF StreamInv, Conserved
  <2>4. Live'
    <3>1. CASE incoming' = incoming
      BY <1>6, <1>7, <2>1, <2>2, <3>1 DEF Live, Owed
    <3>2. CASE pc = "clear" /\ incoming' = 0
      <4>1. remaining = 0 /\ NoBytes(toServer)
        BY <1>2, <3>2 DEF EndTaken, Spent
      <4>2. BytesIn(toServer) = 0
        BY <1>2, <4>1, Numbers, BytesNone DEF NoBytes
      <4>3. currentSize' + incoming' <= DataSize
        BY <1>2, <2>1, <3>2, Numbers
      <4> QED
        BY <1>7, <2>2, <3>2, <4>1, <4>2, <4>3 DEF Live
    <3> QED
      BY <2>1, <3>1, <3>2
  <2>5. Spent => Over'
    BY <1>9, <2>1 DEF Over
  <2>6. EofOver'
    BY <1>2, <1>6, <2>1, <2>5 DEF StreamInv, EofOver, EndTaken, Over
  <2>7. Stopped'
    BY <1>6, <1>7, <2>1, <2>5 DEF StreamInv, Stopped, Over
  <2> QED
    BY <1>3, <1>4, <1>8, <1>10, <2>3, <2>4, <2>6, <2>7 DEF StreamInv
<1> QED
  BY <1>1, <1>11, <1>12, <1>13 DEF WriteStep

\* SetElementStates, which carries no bytes.
LEMMA ServeStateKeeps == StreamInv /\ ServeState => StreamInv' /\ (Over => Over')
<1> SUFFICES ASSUME StreamInv, ServeState PROVE StreamInv' /\ (Over => Over')
  OBVIOUS
<1> DEFINE first == Head(toServer)
<1>1. /\ toServer # <<>> /\ first.op # "Write" /\ pc = "idle" /\ toServer' = Tail(toServer)
      /\ UNCHANGED <<total, latency, remaining, handling, userOps>>
      /\ IF NoChange(first.op) THEN UNCHANGED vars ELSE SetElementState(first.op)
  BY DEF ServeState, Serve
<1>2. IInv /\ StreamTyped /\ InOrder(toServer, remaining, userOps)
  BY DEF StreamInv
<1>3. toServer \in Seq(StreamRequests)
  BY <1>2 DEF StreamTyped
<1>4. /\ Tail(toServer) \in Seq(StreamRequests) /\ InOrder(Tail(toServer), remaining, userOps)
      /\ NoBytes(toServer) => NoBytes(Tail(toServer))
      /\ NoStart(toServer) => NoStart(Tail(toServer)) /\ first.op # "Start"
      /\ first.op = "Stop" => userOps = 0 /\ NoStart(Tail(toServer))
      /\ first.numBytes = 0
      /\ first \in StreamRequests
  BY <1>1, <1>2, <1>3, TailInOrder
<1>5. BytesIn(Tail(toServer)) = BytesIn(toServer) /\ BytesIn(toServer) \in Nat
  <2>1. /\ BytesIn(toServer) = first.numBytes + BytesIn(Tail(toServer))
        /\ BytesIn(Tail(toServer)) \in Nat
    BY <1>1, <1>3, BytesTail
  <2> QED
    BY <1>4, <2>1
<1>6. pc' = pc /\ req' = req /\ count' = count
  BY <1>1 DEF SetElementState, StartElement, vars, ring, writer
<1>7. Arriving = BytesIn(toServer) /\ Arriving' = BytesIn(toServer)
  BY <1>1, <1>5, <1>6 DEF Arriving
<1>8. Conserved' /\ EndTaken'
  BY <1>1, <1>6, <1>7 DEF StreamInv, Conserved, EndTaken
<1>9. StreamTyped' /\ InOrder(toServer, remaining, userOps)'
  BY <1>1, <1>2, <1>4 DEF StreamTyped
<1>10. Over => Over'
  BY <1>1, <1>4, <1>6 DEF Over, Spent
<1>11. ASSUME UNCHANGED vars, NoChange(first.op) PROVE StreamInv'
  <2>1. UNCHANGED <<currentSize, incoming, eof, state, events>>
    BY <1>11 DEF vars, ring
  <2>2. ~Fresh
    BY <1>11 DEF Fresh, NoChange
  <2>3. IInv'
    BY <1>2, <1>11, NextInv
  <2>4. Live' /\ AsksSomething' /\ EofOver' /\ Stopped'
    BY <1>1, <1>4, <1>7, <1>10, <2>1, <2>2
       DEF StreamInv, Live, Owed, AsksSomething, EofOver, Stopped
  <2> QED
    BY <1>8, <1>9, <2>3, <2>4 DEF StreamInv
<1>12. ASSUME SetElementState(first.op), first.op \in {"Start", "Pause", "Stop"} PROVE StreamInv'
  <2>1. IInv'
    BY <1>2, <1>12, NextInv DEF Next
  <2>2. CASE first.op = "Start" /\ StartElement
    <3>1. state = "Stop" /\ eof' = FALSE /\ state' = "Pause" /\ currentSize' = 0
          /\ Notify("State", "Underrun", "Pause", 0, 0)
      BY <2>2, StreamAssumption DEF StartElement
    <3>2. events \in Seq(Events) /\ DataSize \in Nat \ {0} /\ AskedIn(events) \in Nat
      BY <1>2, Numbers
    <3>3. PICK e \in Events : events' = Append(events, e) /\ e.numBytes = DataSize
      <4>1. 0 \in Nat /\ 0 + 0 <= DataSize /\ DataSize - 0 - 0 = DataSize
        BY <3>2
      <4> QED
        BY <3>1, <3>2, <4>1, Posted
    <3>4. incoming' = DataSize
      <4>1. 0 \in Nat /\ 0 + 0 <= DataSize /\ DataSize - 0 = DataSize
        BY <3>2
      <4> QED
        BY <3>1, <3>2, <4>1, Posted
    <3>5. AsksSomething'
      BY <3>2, <3>3, AskedMore DEF StreamInv
    <3>6. Fresh \/ Over
      <4>1. ~NoStart(toServer)
        BY <1>4, <2>2
      <4> QED
        BY <3>1, <4>1 DEF StreamInv, Stopped
    <3>7. BytesIn(toServer) = 0
      <4>1. NoBytes(toServer)
        BY <3>6 DEF Fresh, Over, Spent
      <4> QED
        BY <1>3, <4>1, BytesNone DEF NoBytes
    <3>8. remaining > 0 => AskedIn(events') <= DataSize
      <4>1. CASE Fresh
        <5>1. AskedIn(events) = 0
          BY <4>1, AskedNone DEF Fresh
        <5>2. AskedIn(events') = AskedIn(events) + AskedBy(e)
          BY <3>2, <3>3, AskedAppend
        <5>3. PICK a \in Nat : a = AskedBy(e)
          BY <3>3, AskedOfOne
        <5>4. AskedBy(e) <= DataSize
          BY <3>2, <3>3 DEF AskedBy
        <5>5. AskedIn(events') = 0 + a
          BY <5>1, <5>2, <5>3
        <5> QED
          BY <5>3, <5>4, <5>5
      <4>2. CASE Over
        BY <4>2 DEF Over, Spent
      <4> QED
        BY <3>6, <4>1, <4>2
    <3>9. Live'
      <4>1. Arriving' = 0 /\ currentSize' + incoming' <= DataSize /\ Arriving' <= incoming'
        BY <1>7, <3>1, <3>2, <3>4, <3>7
      <4>2. AskedIn(events') \in Nat
        <5>1. AskedIn(events') = AskedIn(events) + AskedBy(e)
          BY <3>2, <3>3, AskedAppend
        <5>2. AskedBy(e) \in Nat
          BY <3>3, AskedOfOne
        <5> QED
          BY <3>2, <5>1, <5>2
      <4>3. remaining' > 0 => AskedIn(events') + Arriving' <= incoming'
        BY <1>1, <3>4, <3>8, <4>1, <4>2
      <4> QED
        BY <4>1, <4>3 DEF Live, Owed
    <3>10. EofOver' /\ Stopped'
      BY <3>1 DEF EofOver, Stopped
    <3> QED
      BY <1>8, <1>9, <2>1, <3>5, <3>9, <3>10 DEF StreamInv
  <2>3. CASE first.op = "Start" /\ ResumeElement /\ UNCHANGED ring
    <3>1. state = "Pause" /\ state' = "Start" /\ UNCHANGED <<currentSize, incoming, eof, events>>
      BY <2>3 DEF ResumeElement, ring
    <3>2. ~Fresh
      BY <3>1 DEF Fresh
    <3>3. Live' /\ AsksSomething' /\ EofOver' /\ Stopped'
      BY <1>1, <1>7, <1>10, <3>1, <3>2
         DEF StreamInv, Live, Owed, AsksSomething, EofOver, Stopped
    <3> QED
      BY <1>8, <1>9, <2>1, <3>3 DEF StreamInv
  <2>4. CASE \/ first.op = "Pause" /\ PauseElement(currentSize, "User") /\ UNCHANGED ring
             \/ first.op = "Stop" /\ StopElement(currentSize, "User") /\ UNCHANGED ring
    <3>1. PICK new \in {"Pause", "Stop"} :
              /\ new = first.op /\ state # "Stop" /\ state' = new
              /\ Notify("State", "User", new, currentSize, incoming)
              /\ UNCHANGED <<eof, currentSize>>
      BY <2>4 DEF PauseElement, StopElement, ring
    <3>2. Live /\ ~Fresh
      BY <3>1 DEF StreamInv, Fresh
    <3>3. PICK size \in Nat : size = currentSize
      BY <1>2, Numbers
    <3>4. /\ new \in {"Stop", "Pause", "Start"} /\ size <= currentSize
          /\ currentSize + incoming <= DataSize
          /\ Notify("State", "User", new, size, incoming)
      BY <3>1, <3>2, <3>3 DEF Live
    <3>5. /\ size + incoming' <= DataSize /\ incoming' \in Nat /\ incoming <= incoming'
          /\ AskedIn(events') - AskedIn(events) <= incoming' - incoming
          /\ AskedIn(events') \in Nat
          /\ \E e \in Events : /\ events' = Append(events, e)
                               /\ e.kind = "State" /\ e.reason = "User" /\ e.state = new
      BY <1>2, <3>4, CreditPosted
    <3>6. AsksSomething'
      <4>1. PICK e \in Events : /\ events' = Append(events, e)
                                /\ e.kind = "State" /\ e.reason = "User" /\ e.state = new
        BY <3>5
      <4>2. ~AsksForData(e)
        BY <4>1 DEF AsksForData
      <4> QED
        BY <1>2, <4>1, <4>2, Numbers, AskedMore DEF StreamInv
    <3>7. Live'
      <4>1. PICK asked \in Nat, asked2 \in Nat, on \in Nat, inc \in Nat, inc2 \in Nat :
                 /\ asked = AskedIn(events) /\ asked2 = AskedIn(events') /\ on = Arriving
                 /\ inc = incoming /\ inc2 = incoming'
        BY <1>2, <3>5, Numbers
      <4>2. on <= inc /\ (remaining > 0 => asked + on <= inc) /\ asked2 - asked <= inc2 - inc
            /\ inc <= inc2
        BY <3>2, <3>5, <4>1 DEF Live, Owed
      <4>3. on <= inc2 /\ (remaining > 0 => asked2 + on <= inc2)
        BY <4>2
      <4>4. Arriving' <= incoming' /\ (remaining' > 0 => AskedIn(events') + Arriving' <= incoming')
        BY <1>1, <1>7, <4>1, <4>3
      <4>5. currentSize' + incoming' <= DataSize
        BY <3>1, <3>3, <3>5
      <4> QED
        BY <4>4, <4>5 DEF Live, Owed
    <3>8. EofOver' /\ Stopped'
      BY <1>1, <1>4, <1>10, <3>1, <3>2 DEF StreamInv, EofOver, Stopped
    <3> QED
      BY <1>8, <1>9, <2>1, <3>6, <3>7, <3>8 DEF StreamInv
  <2> QED
    BY <1>12, <2>2, <2>3, <2>4 DEF SetElementState
<1>13. first.op \in {"Start", "Pause", "Stop"}
  BY <1>1, <1>4 DEF StreamRequests
<1> QED
  BY <1>1, <1>10, <1>11, <1>12, <1>13

-----------------------------------------------------------------------------
\* The client takes an event while a request may be in progress.
LEMMA EventTaken ==
  ASSUME IInv, StreamTyped, events # <<>>, events' = Tail(events),
         UNCHANGED <<ring, incoming, eof, state, glitch, writer>>
  PROVE  IInv'
<1>1. events' \in Seq(Events)
  BY Numbers, SequenceTail
<1>2. TypeOK'
  BY <1>1 DEF IInv, TypeOK, ring, writer
<1>3. PointersAgree' /\ RingHoldsStream' /\ WriteInProgress'
  BY DEF IInv, PointersAgree, RingHoldsStream, WriteInProgress, ring, writer, Wrap
<1> QED
  BY <1>2, <1>3 DEF IInv

\* The answer to an event is covered by what the event asked for.
LEMMA HandleDataKeeps == StreamInv /\ HandleDataEvent => StreamInv' /\ (Over => Over')
<1> SUFFICES ASSUME StreamInv, HandleDataEvent PROVE StreamInv' /\ (Over => Over')
  OBVIOUS
<1>1. /\ events # <<>> /\ AsksForData(Head(events)) /\ events' = Tail(events)
      /\ SendData(Head(events).numBytes)
      /\ UNCHANGED <<ring, incoming, eof, state, glitch, writer>>
      /\ UNCHANGED <<total, latency, handling, userOps>>
  BY DEF HandleDataEvent
<1>2. IInv /\ StreamTyped /\ InOrder(toServer, remaining, userOps) /\ AsksSomething
  BY DEF StreamInv
<1>3. Live /\ ~Fresh
  BY <1>1 DEF StreamInv, Fresh
<1>4. IInv'
  BY <1>1, <1>2, EventTaken
<1>5. /\ AskedIn(events) = AskedBy(Head(events)) + AskedIn(Tail(events))
      /\ AskedBy(Head(events)) \in Nat /\ AskedIn(Tail(events)) \in Nat
  BY <1>1, <1>2, Numbers, AskedTail
<1>6. PICK a \in Nat : a = Head(events).numBytes /\ a = AskedBy(Head(events)) /\ a > 0
  <2>1. Head(events).numBytes = AskedBy(Head(events))
    BY <1>1 DEF AskedBy
  <2>2. 1 \in 1 .. Len(events) /\ Head(events) = events[1]
    BY <1>1, <1>2, Numbers, SequenceTail
  <2>3. Head(events).numBytes > 0
    BY <1>1, <1>2, <2>2 DEF AsksSomething
  <2> QED
    BY <1>5, <2>1, <2>3
<1>7. PICK left \in Nat : left = remaining
  BY <1>2, Numbers
<1>8. PICK n \in 0 .. left : n = Least(a, left) /\ n <= a
  BY DEF Least
<1>9. PICK final \in {"Ready", "End"} :
           /\ final = IF n = 0 \/ n # a THEN "End" ELSE "Ready"
           /\ final = "End" => left - n = 0
  BY <1>6, <1>8 DEF Least
<1>10. toServer' = toServer \o WriteElement(n, final) /\ remaining' = left - n
  BY <1>1, <1>6, <1>7, <1>8, <1>9 DEF SendData
<1>11. /\ toServer' \in Seq(StreamRequests) /\ InOrder(toServer', left - n, userOps)
       /\ n = 0 /\ NoBytes(toServer) => NoBytes(toServer')
       /\ NoStart(toServer) => NoStart(toServer')
       /\ BytesIn(toServer') = BytesIn(toServer) + n
  <2>1. toServer \in Seq(StreamRequests) /\ InOrder(toServer, left, userOps)
    BY <1>2, <1>7, Numbers
  <2> QED
    BY <1>9, <1>10, <2>1, SendInOrder
<1>12. StreamTyped' /\ InOrder(toServer, remaining, userOps)'
  <2>1. left - n \in 0 .. total
    BY <1>2, <1>7, Numbers DEF StreamTyped
  <2> QED
    BY <1>1, <1>2, <1>10, <1>11, <2>1 DEF StreamTyped
<1>13. pc' = pc /\ req' = req /\ UNCHANGED <<currentSize, count, incoming, eof, state>>
  BY <1>1 DEF ring, writer
<1>14. PICK on \in Nat, asked \in Nat, inc \in Nat :
            on = Arriving /\ asked = AskedIn(Tail(events)) /\ inc = incoming
  BY <1>2, <1>5, Numbers
<1>15. Arriving' = on + n
  <2>1. PICK b \in Nat, k \in Nat : b = BytesIn(toServer) /\ k = req.numBytes
    BY <1>2, Numbers
  <2> QED
    BY <1>11, <1>13, <1>14, <2>1 DEF Arriving
<1>16. Live'
  <2>1. on <= inc /\ (left > 0 => (a + asked) + on <= inc)
    BY <1>3, <1>5, <1>6, <1>7, <1>14 DEF Live, Owed
  <2>2. on + n <= inc /\ (left - n > 0 => asked + (on + n) <= inc)
    BY <1>8, <2>1
  <2> QED
    BY <1>1, <1>3, <1>10, <1>13, <1>14, <1>15, <2>2 DEF Live, Owed
<1>17. Conserved'
  <2>1. count \in Nat /\ count + on + left = total
    BY <1>2, <1>7, <1>14, Numbers DEF StreamInv, Conserved
  <2>2. count + (on + n) + (left - n) = total
    BY <2>1
  <2> QED
    BY <1>1, <1>10, <1>13, <1>15, <2>2 DEF Conserved
<1>18. Spent => Spent'
  <2>1. left = 0 => n = 0 /\ left - n = 0
    BY <1>8
  <2> QED
    BY <1>7, <1>10, <1>11, <2>1 DEF Spent
<1>19. EndTaken' /\ (Over => Over')
  BY <1>13, <1>18 DEF StreamInv, EndTaken, Over
<1>20. EofOver' /\ Stopped'
  BY <1>1, <1>3, <1>11, <1>13, <1>19 DEF StreamInv, EofOver, Stopped
<1>21. AsksSomething'
  BY <1>1, <1>2, Numbers, AskedLess
<1> QED
  BY <1>4, <1>12, <1>16, <1>17, <1>19, <1>20, <1>21 DEF StreamInv

\* The other events are taken without an answer.
LEMMA HandleOtherKeeps ==
  StreamInv /\ (HandleUserPause \/ HandleStop) => StreamInv' /\ (Over => Over')
<1> SUFFICES ASSUME StreamInv, HandleUserPause \/ HandleStop PROVE StreamInv' /\ (Over => Over')
  OBVIOUS
<1>1. /\ events # <<>> /\ events' = Tail(events)
      /\ UNCHANGED <<ring, incoming, eof, state, glitch, writer>>
      /\ UNCHANGED <<total, latency, remaining, toServer, userOps>>
      /\ handling' \in BOOLEAN
  BY DEF HandleUserPause, HandleStop, streamVars, StreamInv, StreamTyped
<1>2. IInv /\ StreamTyped /\ AsksSomething
  BY DEF StreamInv
<1>3. Live /\ ~Fresh
  BY <1>1 DEF StreamInv, Fresh
<1>4. IInv'
  BY <1>1, <1>2, EventTaken
<1>5. /\ AskedIn(events) = AskedBy(Head(events)) + AskedIn(Tail(events))
      /\ AskedBy(Head(events)) \in Nat /\ AskedIn(Tail(events)) \in Nat
  BY <1>1, <1>2, Numbers, AskedTail
<1>6. pc' = pc /\ req' = req /\ UNCHANGED <<currentSize, count, incoming, eof, state>>
  BY <1>1 DEF ring, writer
<1>7. Arriving' = Arriving /\ Arriving \in Nat /\ incoming \in Nat
  BY <1>1, <1>2, <1>6, Numbers DEF Arriving
<1>8. AskedIn(events') + Arriving <= AskedIn(events) + Arriving
  BY <1>1, <1>5, <1>7
<1>9. Live'
  <2>1. PICK asked \in Nat, asked2 \in Nat, on \in Nat, inc \in Nat :
             /\ asked = AskedIn(events) /\ asked2 = AskedIn(events') /\ on = Arriving
             /\ inc = incoming
    BY <1>1, <1>2, <1>5, <1>7, Numbers
  <2>2. remaining > 0 => asked2 + on <= inc
    BY <1>3, <1>8, <2>1 DEF Live, Owed
  <2> QED
    BY <1>1, <1>3, <1>6, <1>7, <2>1, <2>2 DEF Live, Owed
<1>10. StreamTyped' /\ InOrder(toServer, remaining, userOps)'
  BY <1>1 DEF StreamInv, StreamTyped
<1>11. Conserved' /\ EndTaken' /\ (Over => Over')
  BY <1>1, <1>6, <1>7 DEF StreamInv, Conserved, EndTaken, Over, Spent
<1>12. EofOver' /\ Stopped'
  BY <1>1, <1>3, <1>6, <1>11 DEF StreamInv, EofOver, Stopped
<1>13. AsksSomething'
  BY <1>1, <1>2, Numbers, AskedLess
<1> QED
  BY <1>4, <1>9, <1>10, <1>11, <1>12, <1>13 DEF StreamInv

LEMMA UserRequestKeeps ==
  ASSUME StreamInv, NEW s \in UserOps, UserRequest(s)
  PROVE  StreamInv' /\ (Over => Over')
<1>1. /\ userOps > 0 /\ userOps' = (IF s = "Stop" THEN 0 ELSE userOps - 1)
      /\ toServer' = Append(toServer, StateRequest(s))
      /\ UNCHANGED <<vars, total, latency, remaining, handling>>
  BY DEF UserRequest
<1>2. IInv /\ StreamTyped /\ InOrder(toServer, remaining, userOps)
  BY DEF StreamInv
<1>3. IInv'
  BY <1>1, <1>2, NextInv
<1>4. s \in {"Start", "Pause", "Stop"} /\ userOps \in Nat \ {0} /\ userOps \in 0 .. MaxUserOps
      /\ MaxUserOps \in Nat
  BY <1>1, <1>2, StreamAssumption DEF StreamTyped
<1>5. /\ toServer' \in Seq(StreamRequests) /\ InOrder(toServer', remaining, userOps')
      /\ NoBytes(toServer) => NoBytes(toServer')
      /\ BytesIn(toServer') = BytesIn(toServer) /\ toServer' # <<>>
      /\ toServer # <<>> => Head(toServer') = Head(toServer)
  <2>1. toServer \in Seq(StreamRequests) /\ (s = "Stop" => userOps' = 0)
    BY <1>1, <1>2 DEF StreamTyped
  <2> QED
    BY <1>1, <1>2, <1>4, <2>1, AppendInOrder
<1>6. StreamTyped' /\ InOrder(toServer, remaining, userOps)'
  <2>1. userOps' \in 0 .. MaxUserOps
    BY <1>1, <1>4
  <2> QED
    BY <1>1, <1>2, <1>5, <2>1 DEF StreamTyped
<1>7. UNCHANGED <<pc, req, currentSize, count, incoming, eof, state, events>>
  BY <1>1 DEF vars, ring, writer
<1>8. Arriving' = Arriving
  BY <1>5, <1>7 DEF Arriving
<1>9. (Fresh => Fresh') /\ (Live => Live')
  BY <1>1, <1>5, <1>7, <1>8 DEF Fresh, Live, Owed
<1>10. (Spent => Spent') /\ (Over => Over')
  BY <1>1, <1>5, <1>7 DEF Spent, Over
<1>11. AsksSomething' /\ EndTaken' /\ Conserved'
  BY <1>1, <1>7, <1>8, <1>10 DEF StreamInv, AsksSomething, EndTaken, Conserved
<1>12. EofOver' /\ Stopped'
  BY <1>1, <1>4, <1>7, <1>9, <1>10 DEF StreamInv, EofOver, Stopped
<1> QED
  BY <1>3, <1>6, <1>9, <1>10, <1>11, <1>12 DEF StreamInv

LEMMA StreamNextKeeps == Copies /\ StreamInv /\ [StreamNext]_allVars => StreamInv'
<1> SUFFICES ASSUME Copies, StreamInv, [StreamNext]_allVars PROVE StreamInv'
  OBVIOUS
<1>1. CASE UNCHANGED allVars
  <2>1. UNCHANGED vars /\ UNCHANGED streamVars
    BY <1>1 DEF allVars
  <2>2. IInv'
    BY <2>1, NextInv DEF StreamInv
  <2>3. UNCHANGED <<pc, req, currentSize, count, incoming, eof, state, events, toServer,
                    remaining, total, latency, handling, userOps>>
    BY <2>1 DEF vars, ring, writer, streamVars
  <2>4. Arriving' = Arriving
    BY <2>3 DEF Arriving
  <2>5. (Fresh => Fresh') /\ (Live => Live') /\ (Over => Over') /\ (Spent => Spent')
    BY <2>3, <2>4 DEF Fresh, Live, Owed, Over, Spent
  <2>6. StreamTyped' /\ InOrder(toServer, remaining, userOps)' /\ AsksSomething' /\ EndTaken'
        /\ EofOver' /\ Stopped' /\ Conserved'
    BY <2>3, <2>4, <2>5 DEF StreamInv, StreamTyped, AsksSomething, EndTaken, EofOver, Stopped,
       Conserved
  <2> QED
    BY <2>2, <2>5, <2>6 DEF StreamInv
<1>2. CASE StreamNext
  BY <1>2, InterruptKeeps, ServeWriteKeeps, ServeStateKeeps, FinishWriteKeeps, HandleDataKeeps,
     HandleOtherKeeps, UserRequestKeeps DEF StreamNext, Client
<1> QED
  BY <1>1, <1>2

\* The invariant, for every sound that is not converted to another rate.
LEMMA StreamInvariance == ASSUME Copies PROVE StreamSpec => []StreamInv
<1>1. StreamInv /\ [StreamNext]_allVars => StreamInv'
  BY StreamNextKeeps
<1> QED
  BY <1>1, StreamInitially, PTL DEF StreamSpec

-----------------------------------------------------------------------------
(* The end of the sound.                                                     *)

\* F is the size of a sample frame: the port, the chunk and the sound are whole
\* frames, but neither is what a request carries nor what the application leaves
\* in the port; a read rounds down to whole frames (auprocess.c:486).
Multiple(F, n) == n % F = 0
Frames(F) == /\ F \in Nat \ {0}
             /\ Multiple(F, DataSize) /\ Multiple(F, Chunk)
             /\ \A c \in Cases : Multiple(F, c[1])
             /\ \A n \in 0 .. DataSize : WholeSamples(n) = n - (n % F)

\* What was read, since the sound began and in the ring, is whole frames.
ReadInFrames(F) == Multiple(F, read) /\ Multiple(F, count - currentSize)

LEMMA MultipleIs ==
  ASSUME NEW F \in Nat \ {0}, NEW a \in Int, Multiple(F, a)
  PROVE  \E k \in Int : a = k * F
<1>1. a = F * (a \div F) + (a % F) /\ a \div F \in Int
  OBVIOUS
<1>2. a = (a \div F) * F
  BY <1>1 DEF Multiple
<1> QED
  BY <1>1, <1>2

LEMMA IsMultiple ==
  ASSUME NEW F \in Nat \ {0}, NEW k \in Int
  PROVE  Multiple(F, k * F)
BY DEF Multiple

LEMMA MultiplesAdd ==
  ASSUME NEW F \in Nat \ {0}, NEW a \in Int, NEW b \in Int, Multiple(F, a), Multiple(F, b),
         NEW c \in Int, c = a + b \/ c = a - b
  PROVE  Multiple(F, c)
<1>1. PICK k \in Int : a = k * F
  BY MultipleIs
<1>2. PICK j \in Int : b = j * F
  BY MultipleIs
<1>3. a + b = (k + j) * F /\ a - b = (k - j) * F
  BY <1>1, <1>2
<1>4. k + j \in Int /\ k - j \in Int
  OBVIOUS
<1> QED
  BY <1>3, <1>4, IsMultiple

LEMMA MultiplesSum ==
  ASSUME NEW F \in Nat \ {0}, NEW a \in Int, NEW b \in Int, Multiple(F, a), Multiple(F, b)
  PROVE  a + b \in Int /\ Multiple(F, a + b)
<1> DEFINE c == a + b
<1>1. c \in Int /\ (c = a + b \/ c = a - b)
  OBVIOUS
<1> HIDE DEF c
<1>2. Multiple(F, c)
  BY <1>1, MultiplesAdd
<1> QED
  BY <1>1, <1>2 DEF c

LEMMA RoundedDown ==
  ASSUME NEW F \in Nat \ {0}, NEW n \in Int
  PROVE  Multiple(F, n - (n % F))
<1>1. n = F * (n \div F) + (n % F) /\ n \div F \in Int
  OBVIOUS
<1>2. n - (n % F) = (n \div F) * F
  BY <1>1
<1> QED
  BY <1>1, <1>2, IsMultiple

\* A pointer of whole frames wraps to whole frames.
LEMMA WrapMultiple ==
  ASSUME NEW F, Frames(F), NEW i \in Int, Multiple(F, i)
  PROVE  Multiple(F, Wrap(i)) /\ Wrap(i) \in Int
<1>1. F \in Nat \ {0} /\ Multiple(F, DataSize) /\ DataSize \in Int
  BY Sizes DEF Frames
<1>2. Multiple(F, i - DataSize)
  BY <1>1, MultiplesAdd
<1> QED
  BY <1>1, <1>2 DEF Wrap

\* The conversions of a read of whole frames take whole frames.
LEMMA PassesWhole ==
  ASSUME NEW F, Frames(F), Copies, Multiple(F, read), read \in 0 .. DataSize - 1,
         NEW size \in 1 .. DataSize, Multiple(F, size), NEW c \in Passes(size)
  PROVE  /\ c[1].in \in Int /\ Multiple(F, c[1].in)
         /\ c[2].in \in Int /\ Multiple(F, c[2].in)
<1>1. F \in Nat \ {0} /\ Multiple(F, DataSize) /\ Multiple(F, Chunk)
  BY DEF Frames
<1>2. DataSize \in Nat \ {0} /\ Chunk \in Nat \ {0} /\ read \in Int
  BY Sizes
<1>3. PICK pass1 \in Int : pass1 = Least(DataSize - read, size) /\ Multiple(F, pass1)
  <2>1. Multiple(F, DataSize - read) /\ DataSize - read \in Int
    BY <1>1, <1>2, MultiplesAdd
  <2> QED
    BY <1>2, <2>1 DEF Least
<1>4. c[1] \in RateConvert(Chunk, pass1)
      /\ \/ c[2] = Nothing
         \/ c[2] \in RateConvert(Chunk - c[1].out,
                               Least(DataSize - Wrap(read + c[1].in), size - c[1].in))
  BY <1>3 DEF Passes
<1>5. PICK n \in Int : n = Least(Chunk, pass1) /\ Multiple(F, n)
  BY <1>1, <1>2, <1>3 DEF Least
<1>6. c[1].in = n /\ c[1].out = n
  BY <1>4, <1>5 DEF RateConvert, Copies
<1>7. CASE c[2] = Nothing
  BY <1>1, <1>5, <1>6, <1>7 DEF Nothing, Multiple
<1>8. CASE c[2] \in RateConvert(Chunk - n, Least(DataSize - Wrap(read + n), size - n))
  <2>1. PICK r \in Int : r = read + n /\ Multiple(F, r)
    <3>1. Multiple(F, read) /\ read + n \in Int
      BY <1>2, <1>5
    <3> QED
      BY <1>1, <1>2, <1>5, <3>1, MultiplesAdd
  <2>2. PICK w \in Int : w = Wrap(read + n) /\ Multiple(F, w)
    BY <2>1, WrapMultiple
  <2>3. /\ Multiple(F, Chunk - n) /\ Chunk - n \in Int
        /\ Multiple(F, DataSize - w) /\ DataSize - w \in Int
        /\ Multiple(F, size - n) /\ size - n \in Int
    <3>1. Chunk \in Int /\ DataSize \in Int /\ size \in Int
      BY <1>2
    <3>2. Multiple(F, Chunk - n) /\ Chunk - n \in Int
      BY <1>1, <1>5, <3>1, MultiplesAdd
    <3>3. Multiple(F, DataSize - w) /\ DataSize - w \in Int
      BY <1>1, <2>2, <3>1, MultiplesAdd
    <3>4. Multiple(F, size - n) /\ size - n \in Int
      BY <1>1, <1>5, <3>1, MultiplesAdd
    <3> QED
      BY <3>2, <3>3, <3>4
  <2>4. PICK m \in Int : m = Least(DataSize - w, size - n) /\ Multiple(F, m)
    BY <2>3 DEF Least
  <2>5. c[2].in = Least(Chunk - n, m)
    BY <1>8, <2>2, <2>4 DEF RateConvert, Copies
  <2>6. c[2].in \in Int /\ Multiple(F, c[2].in)
    BY <2>3, <2>4, <2>5 DEF Least
  <2> QED
    BY <1>5, <1>6, <2>6
<1> QED
  BY <1>4, <1>6, <1>7, <1>8

LEMMA ReadClientFrames ==
  ASSUME NEW F, Frames(F), Copies, IInv, ReadClient, ReadInFrames(F)
  PROVE  ReadInFrames(F)'
<1>1. F \in Nat \ {0}
  BY DEF Frames
<1>2. /\ read \in 0 .. DataSize - 1 /\ currentSize \in 0 .. DataSize
      /\ count \in Int /\ DataSize \in Nat
  BY RingTyped, Sizes DEF IInv, TypeOK
<1>3. PICK size \in 1 .. DataSize : size = WholeSamples(currentSize) /\ Multiple(F, size)
  <2>1. WholeSamples(currentSize) = currentSize - (currentSize % F)
    BY <1>2 DEF Frames
  <2>2. Multiple(F, WholeSamples(currentSize))
    <3>1. currentSize \in Int
      BY <1>2
    <3>2. Multiple(F, currentSize - (currentSize % F))
      BY <1>1, <3>1, RoundedDown
    <3> QED
      BY <2>1, <3>2
  <2>3. WholeSamples(currentSize) \in 0 .. currentSize /\ WholeSamples(currentSize) # 0
    BY <1>2, PortAssumption DEF ReadClient
  <2> QED
    BY <1>2, <2>2, <2>3
<1>4. PICK c \in Passes(size) : /\ read' = Wrap(read + c[1].in) + c[2].in
                               /\ currentSize' = currentSize - (c[1].in + c[2].in)
  BY <1>3 DEF ReadClient
<1>5. PICK i \in Int, j \in Int : /\ i = c[1].in /\ Multiple(F, i)
                                 /\ j = c[2].in /\ Multiple(F, j)
  BY <1>2, <1>3, PassesWhole DEF ReadInFrames
<1>6. Multiple(F, read')
  <2>1. Multiple(F, read + i) /\ read + i \in Int
    <3>1. read \in Int /\ Multiple(F, read)
      BY <1>2 DEF ReadInFrames
    <3>2. Multiple(F, i)
      BY <1>5
    <3> QED
      BY <1>1, <3>1, <3>2, MultiplesSum
  <2>2. PICK w \in Int : w = Wrap(read + i) /\ Multiple(F, w)
    BY <2>1, WrapMultiple
  <2>3. read' = w + j
    BY <1>4, <1>5, <2>2
  <2>4. Multiple(F, w) /\ Multiple(F, j)
    BY <1>5, <2>2
  <2>5. Multiple(F, w + j)
    BY <1>1, <2>4, MultiplesSum
  <2> QED
    BY <2>3, <2>5
<1>7. Multiple(F, count' - currentSize')
  <2>1. count' = count
    BY DEF ReadClient
  <2>2. PICK b \in Int : b = count - currentSize /\ Multiple(F, b)
    BY <1>2 DEF ReadInFrames
  <2>3. count' - currentSize' = (b + i) + j
    BY <1>2, <1>4, <1>5, <2>1, <2>2
  <2>4. Multiple(F, b) /\ Multiple(F, i) /\ Multiple(F, j)
    BY <1>5, <2>2
  <2>5. b + i \in Int /\ Multiple(F, b + i)
    BY <1>1, <2>4, MultiplesSum
  <2>6. Multiple(F, (b + i) + j)
    BY <1>1, <2>4, <2>5, MultiplesSum
  <2> QED
    BY <2>3, <2>6
<1> QED
  BY <1>6, <1>7 DEF ReadInFrames

\* When nothing is on its way any more, all of the sound is in "count".
LEMMA OverCounts ==
  ASSUME StreamInv, Over
  PROVE  remaining = 0 /\ count = total /\ count \in Nat
<1>1. IInv /\ StreamTyped
  BY DEF StreamInv
<1>2. BytesIn(toServer) = 0
  BY <1>1, Numbers, BytesNone DEF Over, Spent, NoBytes
<1>3. Arriving = 0 /\ remaining = 0
  BY <1>2 DEF Over, Spent, Arriving
<1>4. count + 0 + 0 = total /\ count \in Nat
  BY <1>1, <1>3, Numbers DEF StreamInv, Conserved
<1> QED
  BY <1>3, <1>4

\* The flow is started anew only before the sound begins or when it is over.
LEMMA StartFrames ==
  ASSUME NEW F, Frames(F), StreamInv, ReadInFrames(F), ServeState, StartElement
  PROVE  ReadInFrames(F)'
<1>1. F \in Nat \ {0} /\ state = "Stop"
  BY DEF Frames, StartElement
<1>2. toServer # <<>> /\ Head(toServer).op = "Start"
  <2>1. state' = "Pause"
    BY StreamAssumption DEF StartElement
  <2>2. CASE NoChange(Head(toServer).op)
    <3>1. state' = state
      BY <2>2 DEF ServeState, vars
    <3> QED
      BY <1>1, <2>1, <3>1
  <2>3. CASE ~NoChange(Head(toServer).op)
    BY <1>1, <2>1, <2>3 DEF ServeState, SetElementState, PauseElement, StopElement
  <2> QED
    BY <2>2, <2>3 DEF ServeState
<1>3. ~NoStart(toServer)
  <2>1. toServer \in Seq(StreamRequests) /\ Len(toServer) \in Nat /\ Len(toServer) # 0
    BY <1>2 DEF StreamInv, StreamTyped
  <2>2. 1 \in 1 .. Len(toServer) /\ Head(toServer) = toServer[1]
    BY <1>2, <2>1
  <2> QED
    BY <1>2, <2>2 DEF NoStart
<1>4. Multiple(F, count) /\ count \in Int
  <2>1. CASE Fresh
    <3>1. count \in Int /\ currentSize = 0 /\ count - 0 = count
      BY <2>1 DEF Fresh, StreamInv, IInv, TypeOK
    <3> QED
      BY <3>1 DEF ReadInFrames
  <2>2. CASE Over
    <3>1. count = total /\ count \in Nat
      BY <2>2, OverCounts
    <3>2. <<total, latency>> \in Cases
      BY DEF StreamInv, StreamTyped
    <3>3. Multiple(F, <<total, latency>>[1])
      BY <3>2 DEF Frames
    <3> QED
      BY <3>1, <3>3
  <2> QED
    BY <1>1, <1>3, <2>1, <2>2 DEF StreamInv, Stopped
<1>5. read' = 0 /\ currentSize' = 0 /\ count' = count
  BY StreamAssumption DEF StartElement
<1>6. Multiple(F, 0) /\ count - 0 = count
  BY <1>1, <1>4 DEF Multiple
<1> QED
  BY <1>4, <1>5, <1>6 DEF ReadInFrames

LEMMA FramesKept ==
  ASSUME NEW F, Frames(F), StreamInv, Copies, ReadInFrames(F), [StreamNext]_allVars
  PROVE  ReadInFrames(F)'
<1>1. CASE Interrupt
  BY <1>1, ReadClientFrames DEF Interrupt, StreamInv
<1>2. CASE ServeState /\ StartElement
  BY <1>2, StartFrames
<1>3. CASE CommitWrite
  <2>1. req.numBytes \in Int /\ count \in Int /\ currentSize \in Int
    BY DEF StreamInv, IInv, TypeOK, Requests
  <2>2. /\ read' = read /\ currentSize' = currentSize + req.numBytes
        /\ count' = count + req.numBytes
    BY <1>3 DEF CommitWrite
  <2>3. count' - currentSize' = count - currentSize
    BY <2>1, <2>2
  <2> QED
    BY <2>2, <2>3 DEF ReadInFrames
<1>4. ASSUME UNCHANGED <<read, currentSize, count>>
      PROVE  ReadInFrames(F)'
  BY <1>4 DEF ReadInFrames
<1>5. CASE UNCHANGED allVars
  BY <1>4, <1>5 DEF allVars, vars, ring
<1>6. CASE ServeWrite
  BY <1>4, <1>6 DEF ServeWrite, BeginWrite, RefuseWrite, vars, ring
<1>7. CASE ServeState /\ ~StartElement
  BY <1>4, <1>7 DEF ServeState, SetElementState, vars, ring
<1>8. CASE FinishWrite /\ ~CommitWrite
  BY <1>4, <1>8 DEF FinishWrite, WriteStep, CopyBytes, MarkEnd, ClearIncoming, RestartPaused, ring
<1>9. CASE Client
  BY <1>4, <1>9 DEF Client, HandleDataEvent, HandleUserPause, HandleStop, ring
<1>10. CASE \E s \in UserOps : UserRequest(s)
  BY <1>4, <1>10 DEF UserRequest, vars, ring
<1> QED
  BY <1>1, <1>2, <1>3, <1>5, <1>6, <1>7, <1>8, <1>9, <1>10 DEF StreamNext

\* The flow has stopped because of EOF and the client was not told yet.
Ended == \E i \in 1 .. Len(events) : events[i].state = "Stop" /\ events[i].reason = "EOF"

\* Then nothing is left, on its way or in the port.
EofEmpty == Ended => Over /\ currentSize = 0

\* Other events end nothing.
LEMMA EndedAppend ==
  ASSUME events \in Seq(Events), NEW e \in Events, events' = Append(events, e), Ended'
  PROVE  Ended \/ (e.state = "Stop" /\ e.reason = "EOF")
<1>1. /\ Len(events') = Len(events) + 1 /\ Len(events) \in Nat
      /\ \A i \in 1 .. Len(events) : events'[i] = events[i]
      /\ events'[Len(events) + 1] = e
  BY SequenceAppended
<1>2. \A i \in 1 .. Len(events) + 1 : i \in 1 .. Len(events) \/ i = Len(events) + 1
  BY <1>1
<1> QED
  BY <1>1, <1>2 DEF Ended

LEMMA EndedTail ==
  ASSUME events \in Seq(Events), events # <<>>, events' = Tail(events), Ended'
  PROVE  Ended
<1>1. /\ Len(events') = Len(events) - 1 /\ Len(events) \in Nat
      /\ \A i \in 1 .. Len(events) - 1 : events'[i] = events[i + 1]
  BY SequenceTail
<1>2. \A i \in 1 .. Len(events) - 1 : i + 1 \in 1 .. Len(events)
  BY <1>1
<1> QED
  BY <1>1, <1>2 DEF Ended

\* The interrupt stops the flow with the last byte, and reads no more after it.
LEMMA InterruptEnds ==
  ASSUME NEW F, Frames(F), ReadInFrames(F), StreamInv, EofEmpty, Copies, Interrupt
  PROVE  EofEmpty'
<1> SUFFICES ASSUME Ended' PROVE Over' /\ currentSize' = 0
  BY DEF EofEmpty
<1>1. ReadClient /\ UNCHANGED streamVars
  BY DEF Interrupt
<1>2. IInv /\ StreamTyped
  BY DEF StreamInv
<1>3. state = "Start" /\ Live /\ ~Fresh
  BY <1>1 DEF StreamInv, Fresh, ReadClient
<1>4. /\ eof' = eof /\ UNCHANGED <<count, writer>>
      /\ currentSize' \in Nat /\ currentSize' < currentSize
      /\ \/ UNCHANGED <<state, incoming, events>>
         \/ \E kind \in {"State", "LowWater"}, reason \in {"Underrun", "EOF", "Watermark"} :
              /\ Notify(kind, reason, state', currentSize', incoming)
              /\ state' \in {"Stop", "Pause", "Start"}
              /\ kind = "State" \/ state' # "Stop"
              /\ state' = "Stop" => eof
              /\ reason = "EOF" => currentSize' = currentSize - WholeSamples(currentSize)
  BY <1>1, <1>2, <1>3, ReadTakes DEF Live
<1>5. currentSize # 0 /\ currentSize \in Nat /\ currentSize \in 0 .. DataSize
  BY <1>2, <1>4, Numbers
<1>6. ~Ended
  BY <1>5 DEF EofEmpty
<1>7. ~UNCHANGED <<state, incoming, events>>
  BY <1>6 DEF Ended
<1>8. PICK kind \in {"State", "LowWater"}, reason \in {"Underrun", "EOF", "Watermark"} :
           /\ Notify(kind, reason, state', currentSize', incoming)
           /\ state' \in {"Stop", "Pause", "Start"}
           /\ kind = "State" \/ state' # "Stop"
           /\ state' = "Stop" => eof
           /\ reason = "EOF" => currentSize' = currentSize - WholeSamples(currentSize)
  BY <1>4, <1>7
<1>9. PICK size \in Nat, new \in {"Stop", "Pause", "Start"} : size = currentSize' /\ new = state'
  BY <1>4, <1>8
<1>10. /\ currentSize + incoming <= DataSize /\ size <= currentSize
       /\ kind = "State" \/ new # "Stop"
       /\ Notify(kind, reason, new, size, incoming)
       /\ reason \in {"User", "Underrun", "EOF", "Watermark"}
  BY <1>2, <1>3, <1>4, <1>8, <1>9, Numbers DEF Live
<1>11. PICK e \in Events :
            events' = Append(events, e) /\ e.reason = reason /\ e.state = new
  <2>1. \E e \in Events : /\ events' = Append(events, e)
                          /\ e.kind = kind /\ e.reason = reason /\ e.state = new
                          /\ e.numBytes = DataSize - size - incoming
    BY <1>2, <1>10, CreditPosted
  <2> QED
    BY <2>1
<1>12. new = "Stop" /\ reason = "EOF"
  <2>1. events \in Seq(Events)
    BY <1>2, Numbers
  <2> QED
    BY <1>6, <1>11, <2>1, EndedAppend
<1>13. Over
  BY <1>3, <1>8, <1>9, <1>12 DEF StreamInv, EofOver
<1>14. currentSize' = 0
  <2>1. F \in Nat \ {0} /\ WholeSamples(currentSize) = currentSize - (currentSize % F)
    BY <1>5 DEF Frames
  <2>2. Multiple(F, count) /\ count \in Nat
    <3>1. count = total /\ count \in Nat
      BY <1>13, OverCounts
    <3>2. Multiple(F, <<total, latency>>[1])
      BY DEF StreamInv, StreamTyped, Frames
    <3> QED
      BY <3>1, <3>2
  <2>3. Multiple(F, count - (count - currentSize))
    BY <1>5, <2>1, <2>2, MultiplesAdd DEF ReadInFrames
  <2>4. count - (count - currentSize) = currentSize
    BY <1>5, <2>2
  <2>5. currentSize % F = 0
    BY <2>3, <2>4 DEF Multiple
  <2>6. WholeSamples(currentSize) = currentSize
    BY <1>5, <2>1, <2>5
  <2> QED
    BY <1>5, <1>8, <1>12, <2>6
<1>15. Over'
  BY <1>1, <1>4, <1>13 DEF Over, Spent, streamVars, writer
<1> QED
  BY <1>14, <1>15

\* A state change that is asked for ends no sound, and puts nothing in the port.
LEMMA StateRequestEnds ==
  ASSUME StreamInv, ServeState
  PROVE  (Ended' => Ended) /\ (currentSize' = currentSize \/ currentSize' = 0)
<1> DEFINE first == Head(toServer)
<1>1. IF NoChange(first.op) THEN UNCHANGED vars ELSE SetElementState(first.op)
  BY DEF ServeState
<1>2. IInv /\ StreamTyped
  BY DEF StreamInv
<1>3. events \in Seq(Events) /\ DataSize \in Nat \ {0} /\ 0 + 0 <= DataSize /\ 0 \in Nat
  BY <1>2, Numbers
<1>4. CASE UNCHANGED vars
  <2>1. UNCHANGED <<events, currentSize>>
    BY <1>4 DEF vars, ring
  <2> QED
    BY <2>1 DEF Ended
<1>5. CASE StartElement
  <2>1. Notify("State", "Underrun", "Pause", 0, 0) /\ currentSize' = 0
    BY <1>5, StreamAssumption DEF StartElement
  <2>2. PICK e \in Events : events' = Append(events, e) /\ e.reason = "Underrun"
    BY <1>3, <2>1, Posted
  <2>3. Ended' => Ended
    BY <1>3, <2>2, EndedAppend
  <2> QED
    BY <2>1, <2>3
<1>6. CASE ResumeElement /\ UNCHANGED ring
  BY <1>6 DEF ResumeElement, ring, Ended
<1>7. ASSUME NEW new \in {"Pause", "Stop"}, UNCHANGED ring, ~NoChange(first.op),
             first.op = new, Notify("State", "User", new, currentSize, incoming)
      PROVE  Ended' => Ended
  <2>1. PICK inc \in Nat, size \in Nat :
             inc = incoming /\ size = currentSize /\ size <= DataSize
    BY <1>2, Numbers
  <2>2. [kind |-> "State", reason |-> "User", state |-> new,
         numBytes |-> Wanted(currentSize, incoming)] \in Events
    <3>1. size \in Int /\ inc \in Int
      BY <2>1
    <3>2. Wanted(size, inc) \in 0 .. Word - 1
      BY <3>1, WantedRange
    <3> QED
      BY <2>1, <3>2 DEF Events
  <2>3. PICK e \in Events : events' = Append(events, e) /\ e.reason = "User"
    BY <1>7, <2>2 DEF Notify
  <2> QED
    BY <1>3, <2>3, EndedAppend
<1>8. CASE PauseElement(currentSize, "User") /\ UNCHANGED ring /\ ~NoChange(first.op)
           /\ first.op = "Pause"
  BY <1>7, <1>8 DEF PauseElement, ring
<1>9. CASE StopElement(currentSize, "User") /\ UNCHANGED ring /\ ~NoChange(first.op)
           /\ first.op = "Stop"
  BY <1>7, <1>9 DEF StopElement, ring
<1> QED
  BY <1>1, <1>4, <1>5, <1>6, <1>8, <1>9 DEF SetElementState

\* When the sound is over, a write in progress stores nothing more.
LEMMA WriteEnds ==
  ASSUME StreamInv, EofEmpty, FinishWrite, Ended'
  PROVE  Over' /\ currentSize' = 0
<1>1. WriteStep /\ UNCHANGED <<toServer, remaining>>
  BY DEF FinishWrite, streamVars
<1>2. events' = events
  BY <1>1 DEF WriteStep, CopyBytes, CommitWrite, MarkEnd, ClearIncoming, RestartPaused,
     ResumeElement
<1>3. Over /\ currentSize = 0
  BY <1>2 DEF EofEmpty, Ended
<1>4. MarkEnd \/ ClearIncoming \/ RestartPaused
  BY <1>1, <1>3 DEF WriteStep, CopyBytes, CommitWrite, Over
<1>5. currentSize' = currentSize /\ pc' \notin {"copy", "commit"}
  BY <1>4 DEF MarkEnd, ClearIncoming, RestartPaused, ring
<1> QED
  BY <1>1, <1>3, <1>5 DEF Over, Spent

LEMMA EofEmptyKeeps ==
  ASSUME NEW F, Frames(F), ReadInFrames(F), StreamInv, EofEmpty, Copies,
         [StreamNext]_allVars
  PROVE  EofEmpty'
<1>1. events \in Seq(Events)
  BY Numbers DEF StreamInv
<1>2. CASE UNCHANGED allVars
  BY <1>2 DEF EofEmpty, Ended, Over, Spent, allVars, vars, ring, writer, streamVars
<1>3. CASE ServeWrite
  <2>1. events' = events /\ currentSize' = currentSize
    BY <1>3 DEF ServeWrite, BeginWrite, RefuseWrite, ring, vars
  <2> QED
    BY <1>3, <2>1, ServeWriteKeeps DEF EofEmpty, Ended
<1>4. CASE ServeState
  BY <1>4, ServeStateKeeps, StateRequestEnds DEF EofEmpty
<1>5. CASE FinishWrite
  BY <1>5, WriteEnds DEF EofEmpty
<1>6. CASE HandleDataEvent
  <2>1. events # <<>> /\ events' = Tail(events) /\ currentSize' = currentSize
    BY <1>6 DEF HandleDataEvent, ring
  <2>2. Ended' => Ended
    BY <1>1, <2>1, EndedTail
  <2> QED
    BY <1>6, <2>1, <2>2, HandleDataKeeps DEF EofEmpty
<1>7. CASE HandleUserPause \/ HandleStop
  <2>1. events # <<>> /\ events' = Tail(events) /\ currentSize' = currentSize
    BY <1>7 DEF HandleUserPause, HandleStop, ring
  <2>2. Ended' => Ended
    BY <1>1, <2>1, EndedTail
  <2> QED
    BY <1>7, <2>1, <2>2, HandleOtherKeeps DEF EofEmpty
<1>8. ASSUME NEW s \in UserOps, UserRequest(s) PROVE EofEmpty'
  <2>1. events' = events /\ currentSize' = currentSize
    BY <1>8 DEF UserRequest, vars, ring
  <2> QED
    BY <1>8, <2>1, UserRequestKeeps DEF EofEmpty, Ended
<1>9. CASE Interrupt
  BY <1>9, InterruptEnds
<1> QED
  BY <1>2, <1>3, <1>4, <1>5, <1>6, <1>7, <1>8, <1>9 DEF StreamNext, Client

-----------------------------------------------------------------------------
\* Whatever the interleaving, and whatever the application does to the flow, the
\* writes of a client that answers the server's events fit into the port:
\* WriteElement does not refuse them with BadValue (audispatch.c:1273).
THEOREM WritesAlwaysFit == ASSUME Copies PROVE StreamSpec => []WritesFit
<1>1. ASSUME StreamInv PROVE WritesFit
  <2>1. IInv /\ StreamTyped
    BY <1>1 DEF StreamInv
  <2>2. StreamTypeOK
    BY <2>1 DEF IInv, StreamTyped, StreamTypeOK
  <2>3. CASE Fresh
    <3>1. BytesIn(toServer) = 0
      BY <2>1, <2>3, Numbers, BytesNone DEF Fresh, NoBytes
    <3>2. Arriving = 0 /\ currentSize = 0
      BY <2>3, <3>1 DEF Fresh, Arriving
    <3> QED
      BY <2>1, <2>2, <3>2, Numbers DEF WritesFit
  <2>4. CASE Live
    <3>1. Arriving <= DataSize - currentSize
      BY <2>1, <2>4, Numbers DEF Live
    <3> QED
      BY <2>2, <3>1 DEF WritesFit
  <2> QED
    BY <1>1, <2>3, <2>4 DEF StreamInv
<1> QED
  BY <1>1, StreamInvariance, PTL

\* While the sound has more, "incoming" covers what the client was asked for and
\* did not deliver: auevents.c:88 never asks twice for the same room.
THEOREM IncomingAlwaysCovers == ASSUME Copies PROVE StreamSpec => []IncomingCoversOwed
<1>1. ASSUME StreamInv PROVE IncomingCoversOwed
  <2>1. ASSUME state # "Stop", remaining > 0 PROVE incoming >= Owed
    <3>1. Live
      BY <1>1, <2>1 DEF StreamInv, Fresh
    <3>2. incoming \in Nat /\ Owed \in Nat
      BY <1>1, Numbers DEF StreamInv, Owed
    <3> QED
      BY <2>1, <3>1, <3>2 DEF Live
  <2> QED
    BY <2>1 DEF IncomingCoversOwed
<1> QED
  BY <1>1, StreamInvariance, PTL

\* When readClient stops the flow because of EOF (auprocess.c:539), every byte of
\* the sound was sent by the library, stored in the port and read from it; with
\* sample frames of any size, split by the requests of the library at any byte.
THEOREM SoundPlayedToTheEnd ==
  ASSUME NEW CONSTANT F, Frames(F), Copies
  PROVE  StreamSpec => []PlayedToTheEnd
<1>1. StreamInit => EofEmpty /\ ReadInFrames(F)
  <2> SUFFICES ASSUME StreamInit PROVE EofEmpty /\ ReadInFrames(F)
    OBVIOUS
  <2>1. Len(<<>>) = 0
    OBVIOUS
  <2>2. EofEmpty
    BY <2>1 DEF StreamInit, Init, EofEmpty, Ended
  <2>3. read = 0 /\ count - currentSize = 0
    BY DEF StreamInit, Init
  <2>4. Multiple(F, 0)
    BY DEF Frames, Multiple
  <2> QED
    BY <2>2, <2>3, <2>4 DEF ReadInFrames
<1>2. /\ StreamInv /\ EofEmpty /\ ReadInFrames(F) /\ [StreamNext]_allVars
      => EofEmpty' /\ ReadInFrames(F)'
  BY EofEmptyKeeps, FramesKept
<1>3. ASSUME StreamInv, EofEmpty PROVE PlayedToTheEnd
  <2>1. ASSUME Ended PROVE remaining = 0 /\ count = total /\ currentSize = 0
    BY <1>3, <2>1, OverCounts DEF EofEmpty
  <2> QED
    BY <2>1 DEF Ended, PlayedToTheEnd
<1> QED
  BY <1>1, <1>2, <1>3, StreamInvariance, PTL DEF StreamSpec
=============================================================================

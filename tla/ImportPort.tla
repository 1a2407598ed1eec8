----------------------------- MODULE ImportPort -----------------------------
(* An ImportClient element and its port: the ring buffer that WriteElement   *)
(* requests fill (server/dia/audispatch.c) and that the audio interrupt      *)
(* drains (readClient of server/dia/auprocess.c), the state of the element   *)
(* under its default actions, and the events it posts, which ask the client  *)
(* for data and count what they asked for in "incoming"                      *)
(* (server/dia/auevents.c).                                                  *)
(*                                                                           *)
(* The client is arbitrary here: it may write any amount at any time and     *)
(* change the state of the element as it likes.  SoundStream adds the client *)
(* of the library, which answers the events.                                 *)
(*                                                                           *)
(* The interrupt may run between any two actions; what AuBlockAudio protects *)
(* is one action.  Sizes are in bytes.                                       *)
EXTENDS Integers, Sequences

CONSTANTS DataSize,        \* dataSize of the port
          LowWater,        \* lowWaterMark
          Chunk,           \* minibufChunk: what one interrupt wants
          Word,            \* 2^32, the modulus of AuUint32
          Discard,         \* the port is cleared when the element is started
          Resample,        \* the rate converter is not rcNull
          WholeSamples(_), \* n & ~(bytesPerSample - 1)
          MaxBytes,        \* bound on the bytes written
          MaxEvents        \* bound on the events waiting in the queue

ASSUME PortAssumption ==
    /\ DataSize \in Nat \ {0} /\ Chunk \in Nat \ {0} /\ LowWater \in Nat
    /\ Word \in Nat /\ DataSize < Word
    /\ Discard \in BOOLEAN /\ Resample \in BOOLEAN
    /\ MaxBytes \in Nat /\ MaxEvents \in Nat
    /\ \A n \in 0 .. DataSize : WholeSamples(n) \in 0 .. n

VARIABLES data,          \* the bytes of the ring, numbered as they are written
          read, write,   \* offsets of the read and write pointers in the ring
          currentSize, incoming, eof,
          state,         \* el->state
          events,        \* the element events queued for the client
          count,         \* how many bytes were written so far (history)
          glitch,        \* the last read left its minibuffer partly filled
          pc, req, d     \* WriteElement: its position, the request, its pointer

ring == <<data, read, write, currentSize, count>>
writer == <<pc, req, d>>
vars == <<ring, incoming, eof, state, events, glitch, writer>>

Requests == [numBytes : 0 .. MaxBytes, state : {"Ready", "Pending", "End"}]
Idle == [numBytes |-> 0, state |-> "Ready"]

\* createPort: incoming and eof are not initialised.
Init == /\ data = [i \in 0 .. DataSize - 1 |-> 0]
        /\ read = 0 /\ write = 0 /\ currentSize = 0
        /\ incoming \in 0 .. Word - 1
        /\ eof \in BOOLEAN
        /\ state = "Stop"
        /\ events = <<>>
        /\ count = 0 /\ glitch = FALSE
        /\ pc = "idle" /\ req = Idle /\ d = 0

-----------------------------------------------------------------------------
Least(a, b) == IF a < b THEN a ELSE b
Wrap(i) == IF i >= DataSize THEN i - DataSize ELSE i

\* Mutant: what was asked for before is asked for again.
WantedAgain(size, inc) == (DataSize - size) % Word

\* fillInEvent: the free space that was not asked for yet.
Wanted(size, inc) == (DataSize - size - inc) % Word

\* Mutant: what is asked for is not counted as incoming.
NotifyUncounted(kind, reason, newState, size, inc) ==
    /\ Len(events) < MaxEvents
    /\ events' = Append(events, [kind |-> kind, reason |-> reason, state |-> newState,
                                 numBytes |-> Wanted(size, inc)])
    /\ incoming' = inc

\* AuRequestElementNotifyEvent; the request counts unless the element stopped.
Notify(kind, reason, newState, size, inc) ==
    /\ Len(events) < MaxEvents
    /\ events' = Append(events, [kind |-> kind, reason |-> reason, state |-> newState,
                                 numBytes |-> Wanted(size, inc)])
    /\ incoming' = IF newState = "Stop" THEN inc ELSE (inc + Wanted(size, inc)) % Word

\* AuChangeElementState on this element, with the default actions of an
\* ImportClient, in a port that holds size bytes.
PauseElement(size, reason) ==
    /\ state = "Start"
    /\ state' = "Pause"
    /\ Notify("State", reason, "Pause", size, incoming)
    /\ UNCHANGED eof

StopElement(size, reason) ==
    /\ state # "Stop"
    /\ state' = "Stop"
    /\ Notify("State", reason, "Stop", size, incoming)
    /\ UNCHANGED eof

ResumeElement ==
    /\ state = "Pause"
    /\ state' = "Start"
    /\ UNCHANGED <<incoming, eof, events>>

\* Mutant: the write pointer of a cleared port is not reset.
StartElementKeepingWrite ==
    /\ state = "Stop"
    /\ eof' = FALSE /\ state' = "Pause"
    /\ read' = 0 /\ currentSize' = 0
    /\ Notify("State", "Underrun", "Pause", 0, 0)
    /\ UNCHANGED <<data, write, count>>

\* From Stop to Start: a port with discard is emptied, and is paused before
\* anything gets going, which asks the client for a full port.
StartElement ==
    /\ state = "Stop"
    /\ eof' = FALSE
    /\ IF Discard
         THEN /\ read' = 0 /\ write' = 0 /\ currentSize' = 0
              /\ state' = "Pause"
              /\ Notify("State", "Underrun", "Pause", 0, 0)
         ELSE /\ state' = "Start"
              /\ UNCHANGED <<read, write, currentSize, incoming, events>>
    /\ UNCHANGED <<data, count>>

-----------------------------------------------------------------------------
\* What a rate converter may read of avail bytes and produce of the want it is
\* asked for: rcNull copies, the others stop when either side is exhausted.
RateConvert(want, avail) ==
    IF Resample
      THEN {c \in [in : 0 .. avail, out : 0 .. want] : c.in = avail \/ c.out = want}
      ELSE {[in |-> Least(want, avail), out |-> Least(want, avail)]}

Nothing == [in |-> 0, out |-> 0]

\* Mutant: the read ends where the ring wraps.
PassesOnce(size) == {<<c, Nothing>> : c \in RateConvert(Chunk, Least(DataSize - read, size))}

\* The pairs of conversions of one readClient: up to the end of the ring, then
\* from its beginning if more can be read.
Passes(size) ==
    LET pass1 == Least(DataSize - read, size)
        Second(c) == IF c.out < Least(size, Chunk) /\ pass1 < size
                       THEN RateConvert(Chunk - c.out,
                                        Least(DataSize - Wrap(read + c.in), size - c.in))
                       ELSE {Nothing}
    IN UNION {{<<c, c2>> : c2 \in Second(c)} : c \in RateConvert(Chunk, pass1)}

\* readClient, called by the interrupt for a started element.
ReadClient ==
    /\ state = "Start"
    /\ WholeSamples(currentSize) # 0
    /\ \E c \in Passes(WholeSamples(currentSize)) :
         LET taken == c[1].in + c[2].in
             prevSize == WholeSamples(currentSize)
             newSize == prevSize - taken
         IN /\ read' = Wrap(read + c[1].in) + c[2].in
            /\ currentSize' = currentSize - taken
            /\ glitch' = (newSize # 0 /\ c[1].out + c[2].out < Chunk)
            /\ \/ newSize = 0 /\ eof /\ StopElement(currentSize', "EOF")
               \/ newSize = 0 /\ ~eof /\ PauseElement(currentSize', "Underrun")
               \/ /\ newSize # 0 /\ newSize <= LowWater /\ ~eof
                  /\ prevSize > LowWater \/ incoming = 0
                  /\ Notify("LowWater", "Watermark", state, currentSize', incoming)
                  /\ UNCHANGED <<state, eof>>
               \/ /\ newSize # 0
                  /\ newSize > LowWater \/ eof \/ (prevSize <= LowWater /\ incoming # 0)
                  /\ UNCHANGED <<state, eof, incoming, events>>
    /\ UNCHANGED <<data, write, count, writer>>

-----------------------------------------------------------------------------
\* ProcAuWriteElement reads currentSize under the block; more than fits is
\* refused with BadValue.
BeginWrite(r) ==
    /\ pc = "idle"
    /\ r.numBytes <= DataSize - currentSize
    /\ count + r.numBytes <= MaxBytes
    /\ req' = r
    /\ d' = write
    /\ pc' = IF r.numBytes = 0 THEN "mark" ELSE "copy"
    /\ UNCHANGED <<ring, incoming, eof, state, events, glitch>>

RefuseWrite(r) ==
    /\ pc = "idle"
    /\ r.numBytes > DataSize - currentSize
    /\ UNCHANGED vars

\* Mutant: the second bcopy, to the beginning of the ring, is missing.
CopyBytesUnwrapped ==
    /\ pc = "copy"
    /\ data' = [i \in 0 .. DataSize - 1 |->
                  IF i >= d /\ i < d + req.numBytes THEN count + 1 + i - d ELSE data[i]]
    /\ d' = Wrap(d + req.numBytes)
    /\ pc' = "commit"
    /\ UNCHANGED <<read, write, currentSize, count, incoming, eof, state, events, glitch, req>>

\* The bytes are copied to the ring outside of the block.
CopyBytes ==
    /\ pc = "copy"
    /\ data' = [i \in 0 .. DataSize - 1 |->
                  IF i >= d /\ i < d + req.numBytes THEN count + 1 + i - d
                  ELSE IF i < d /\ i + DataSize < d + req.numBytes
                         THEN count + 1 + i + DataSize - d
                  ELSE data[i]]
    /\ d' = Wrap(d + req.numBytes)
    /\ pc' = "commit"
    /\ UNCHANGED <<read, write, currentSize, count, incoming, eof, state, events, glitch, req>>

\* Mutant: what arrived is still expected.
CommitWriteKeepingIncoming ==
    /\ pc = "commit"
    /\ write' = d
    /\ currentSize' = currentSize + req.numBytes
    /\ count' = count + req.numBytes
    /\ pc' = "mark"
    /\ UNCHANGED <<data, read, incoming, eof, state, events, glitch, req, d>>

\* write, currentSize and incoming are updated in one blocked section.
CommitWrite ==
    /\ pc = "commit"
    /\ write' = d
    /\ currentSize' = currentSize + req.numBytes
    /\ count' = count + req.numBytes
    /\ incoming' = (incoming - req.numBytes) % Word
    /\ pc' = "mark"
    /\ UNCHANGED <<data, read, eof, state, events, glitch, req, d>>

\* Mutant: any piece of a split write may set eof.
MarkEndEarly ==
    /\ pc = "mark"
    /\ eof' = (eof \/ req.state # "Ready")
    /\ pc' = CASE req.state = "Pending" -> "idle"
               [] req.state = "End" -> "clear"
               [] OTHER -> "restart"
    /\ UNCHANGED <<ring, incoming, state, events, glitch, req, d>>

\* eof is set before the block is taken; a Pending transfer ends here.
MarkEnd ==
    /\ pc = "mark"
    /\ eof' = (eof \/ req.state = "End")
    /\ pc' = CASE req.state = "Pending" -> "idle"
               [] req.state = "End" -> "clear"
               [] OTHER -> "restart"
    /\ UNCHANGED <<ring, incoming, state, events, glitch, req, d>>

ClearIncoming ==
    /\ pc = "clear"
    /\ incoming' = 0
    /\ pc' = "restart"
    /\ UNCHANGED <<ring, eof, state, events, glitch, req, d>>

\* Mutant: the last write does not start a paused port.
RestartPausedUnlessEnd ==
    /\ pc = "restart"
    /\ IF req.numBytes # 0 /\ req.state = "Ready" /\ state = "Pause"
         THEN ResumeElement
         ELSE UNCHANGED <<incoming, eof, state, events>>
    /\ pc' = "idle"
    /\ UNCHANGED <<ring, glitch, req, d>>

\* "if the port is paused and we got some data then start the port back up"
RestartPaused ==
    /\ pc = "restart"
    /\ IF req.numBytes # 0 /\ state = "Pause"
         THEN ResumeElement
         ELSE UNCHANGED <<incoming, eof, state, events>>
    /\ pc' = "idle"
    /\ UNCHANGED <<ring, glitch, req, d>>

\* SetElementStates from a client, with reason User.
SetElementState(s) ==
    /\ pc = "idle"
    /\ \/ s = "Start" /\ StartElement
       \/ s = "Start" /\ ResumeElement /\ UNCHANGED ring
       \/ s = "Pause" /\ PauseElement(currentSize, "User") /\ UNCHANGED ring
       \/ s = "Stop" /\ StopElement(currentSize, "User") /\ UNCHANGED ring
    /\ UNCHANGED <<glitch, writer>>

\* The dispatch loop takes the next event to its client.
TakeEvent ==
    /\ pc = "idle"
    /\ events # <<>>
    /\ events' = Tail(events)
    /\ UNCHANGED <<ring, incoming, eof, state, glitch, writer>>

WriteStep == CopyBytes \/ CommitWrite \/ MarkEnd \/ ClearIncoming \/ RestartPaused

Next == \/ ReadClient
        \/ \E r \in Requests : BeginWrite(r) \/ RefuseWrite(r)
        \/ WriteStep
        \/ \E s \in {"Start", "Pause", "Stop"} : SetElementState(s)
        \/ TakeEvent

Spec == Init /\ [][Next]_vars

-----------------------------------------------------------------------------
Events == [kind : {"State", "LowWater"}, reason : {"User", "Underrun", "EOF", "Watermark"},
           state : {"Stop", "Pause", "Start"}, numBytes : 0 .. Word - 1]

\* The variables keep their types; in particular the pointers stay inside the
\* ring and currentSize never exceeds dataSize, whatever the client sends.
TypeOK == /\ data \in [0 .. DataSize - 1 -> 0 .. MaxBytes]
          /\ read \in 0 .. DataSize - 1 /\ write \in 0 .. DataSize - 1
          /\ currentSize \in 0 .. DataSize
          /\ incoming \in 0 .. Word - 1
          /\ eof \in BOOLEAN /\ glitch \in BOOLEAN
          /\ state \in {"Stop", "Pause", "Start"}
          /\ events \in Seq(Events)
          /\ count \in 0 .. MaxBytes
          /\ pc \in {"idle", "copy", "commit", "mark", "clear", "restart"}
          /\ req \in Requests
          /\ d \in 0 .. DataSize - 1

\* The write pointer is always currentSize bytes ahead of the read pointer,
\* although WriteElement advances it from a pointer it took earlier.
PointersAgree == write = Wrap(read + currentSize)

\* Both: the port is sound whatever the client sends (audispatch.c:1268-1294).
PortSound == TypeOK /\ PointersAgree

\* The port holds exactly the last currentSize bytes that were written, in
\* order: the bytes copied outside the block never touch a byte that is still
\* to be read (audispatch.c:1276-1294, auprocess.c:475-530).
RingHoldsStream ==
    \A i \in 0 .. currentSize - 1 : data[Wrap(read + i)] = count - currentSize + 1 + i

\* A minibuffer is filled completely unless the port ran dry ("have we read
\* all we can?", auprocess.c:513).
MinibufFilled == ~glitch
=============================================================================

----------------------------- MODULE ExportPort -----------------------------
(* An ExportClient element and its port, recorded into by the audio interrupt *)
(* (writeClient, server/dia/auprocess.c) and read by the library's client     *)
(* with ReadElement requests (server/dia/audispatch.c), as AuSoundRecord of   *)
(* lib/audio/soundlib.c sets it up: an ImportDevice that stops the element    *)
(* after a given number of samples, and an event handler that reads what each *)
(* event announces.                                                           *)
(*                                                                            *)
(* The element has discard set and no rate conversion.  Sizes are in bytes.   *)
EXTENDS Integers, Sequences

CONSTANTS DataSize,    \* dataSize of the port
          HighWater,   \* highWaterMark
          Chunk,       \* what one interrupt writes
          Word,        \* 2^32, the modulus of AuUint32
          Totals,      \* how much the device records before it stops
          InTime,      \* the port always has room when the interrupt writes
          MaxEvents    \* bound on the events waiting for the client

ASSUME ExportAssumption ==
    /\ DataSize \in Nat \ {0} /\ Chunk \in 1 .. DataSize /\ HighWater \in Nat
    /\ Word \in Nat /\ 2 * DataSize < Word
    /\ Totals \subseteq Nat /\ InTime \in BOOLEAN /\ MaxEvents \in Nat

VARIABLES data,          \* the bytes of the ring, numbered as they are recorded
          read, write,   \* offsets of the read and write pointers in the ring
          currentSize, outgoing,
          state,         \* el->state
          events,        \* the element events queued for the client
          total,         \* how much the device records; never changes
          count,         \* how much was recorded so far
          pc, n, p,      \* ReadElement: its position, totalBytes, its pointer
          toServer,      \* the requests on their way to the server
          waiting,       \* the client is blocked in AuReadElement
          handling,      \* the event handler is registered
          received,      \* how much the client received
          intact         \* and whether it was the recording, in order

ring == <<data, read, write, currentSize, outgoing>>
reader == <<pc, n, p>>
client == <<toServer, waiting, handling>>
result == <<received, intact>>
vars == <<ring, state, events, total, count, reader, client, result>>

StateRequest(s) == [op |-> s, numBytes |-> 0]
ReadRequest(size) == [op |-> "Read", numBytes |-> size]

Init == /\ data = [i \in 0 .. DataSize - 1 |-> 0]
        /\ read = 0 /\ write = 0 /\ currentSize = 0
        /\ outgoing \in {0, Word - 1}
        /\ state = "Stop"
        /\ events = <<>>
        /\ total \in Totals /\ count = 0
        /\ pc = "idle" /\ n = 0 /\ p = 0
        /\ toServer = <<StateRequest("Start")>>
        /\ waiting = FALSE /\ handling = TRUE
        /\ received = 0 /\ intact = TRUE

-----------------------------------------------------------------------------
Least(a, b) == IF a < b THEN a ELSE b
Wrap(i) == IF i >= DataSize THEN i - DataSize ELSE i
Free(size) == (DataSize - size) % Word

\* fillInEvent announces what the port holds and was not announced before.
Announced(q, kind, reason, newState, size) ==
    [events |-> Append(q.events, [kind |-> kind, reason |-> reason, state |-> newState,
                                  numBytes |-> (size - q.outgoing) % Word]),
     outgoing |-> (q.outgoing + (size - q.outgoing)) % Word]

queue == [events |-> events, outgoing |-> outgoing]

\* Mutant: the second pass continues at the end of the ring.
PassesUnwrapped ==
    LET pass1 == Least(DataSize - write, Free(currentSize))
        first == Least(pass1, Chunk)
        from == Least(write + first, DataSize - 1)
        second == IF pass1 < Chunk THEN Least(Chunk - pass1, DataSize - from) ELSE 0
    IN [first |-> first, from |-> from, second |-> Least(second, Chunk - first)]

\* Where writeClient puts its bytes: up to the end of the ring or of the free
\* space, then from where that ended if anything is left.
Passes ==
    LET pass1 == Least(DataSize - write, Free(currentSize))
        first == Least(pass1, Chunk)
        from == IF write + first = DataSize THEN 0 ELSE write + first
        second == IF pass1 < Chunk THEN Least(Chunk - pass1, DataSize - from) ELSE 0
    IN [first |-> first, from |-> from, second |-> Least(second, Chunk - first)]

\* Mutant: the client is asked to read only when the mark is crossed.
AtHighWaterOnce(prev, announced, size) == prev < HighWater /\ size >= HighWater

AtHighWater(prev, announced, size) ==
    (prev < HighWater \/ announced = 0) /\ size >= HighWater

\* writeClient, after the events q, with the element in state s: it overruns
\* what is not read yet if there is no room, and then pauses the element.
WriteClient(q, s) ==
    LET w == Passes
        size == (currentSize + w.first + w.second) % Word
        overrun == Chunk > Free(currentSize)
        after == IF overrun /\ s = "Start"
                   THEN Announced(q, "State", "Overrun", "Pause", size)
                 ELSE IF ~overrun /\ AtHighWater(currentSize, q.outgoing, size)
                   THEN Announced(q, "HighWater", "Watermark", s, size)
                 ELSE q
    IN /\ data' = [i \in 0 .. DataSize - 1 |->
                     IF i >= w.from /\ i < w.from + w.second
                       THEN count + w.first + 1 + i - w.from
                     ELSE IF i >= write /\ i < write + w.first THEN count + 1 + i - write
                     ELSE data[i]]
       /\ write' = w.from + w.second
       /\ currentSize' = size
       /\ state' = IF overrun /\ s = "Start" THEN "Pause" ELSE s
       /\ events' = after.events /\ outgoing' = after.outgoing
       /\ count' = count + Chunk
       /\ UNCHANGED <<read, total, reader, client, result>>

CanWrite == /\ state = "Start" /\ Len(events) + 2 <= MaxEvents
            /\ InTime => currentSize + Chunk <= DataSize

\* AuProcessFlow, while the device has samples left for an interrupt.
Record ==
    /\ CanWrite /\ count + Chunk <= total
    /\ WriteClient(queue, "Start")

\* readDevice stops the device with EOF, and its action stops the ExportClient;
\* AuProcessFlow still writes it, having read its state before (outputState).
RecordLast ==
    /\ CanWrite /\ count + Chunk > total
    /\ WriteClient(Announced(queue, "State", "EOF", "Stop", currentSize), "Stop")

-----------------------------------------------------------------------------
\* SetElementStates for this element: the port is cleared when it starts.
ServeState ==
    /\ pc = "idle" /\ toServer # <<>> /\ Head(toServer).op # "Read"
    /\ toServer' = Tail(toServer)
    /\ LET s == Head(toServer).op
       IN \/ /\ s = "Start" /\ state = "Stop"
             /\ state' = "Start"
             /\ read' = 0 /\ write' = 0 /\ currentSize' = 0 /\ outgoing' = 0
             /\ UNCHANGED <<data, events>>
          \/ /\ s = "Stop" /\ state # "Stop"
             /\ Len(events) + 2 <= MaxEvents
             /\ state' = "Stop"
             /\ LET q == Announced(queue, "State", "User", "Stop", currentSize)
                IN events' = q.events /\ outgoing' = q.outgoing
             /\ UNCHANGED <<data, read, write, currentSize>>
          \/ s = state /\ UNCHANGED <<ring, state, events>>
    /\ UNCHANGED <<total, count, reader, waiting, handling, result>>

\* ProcAuReadElement takes the size under the block and writes its header.
BeginRead ==
    /\ pc = "idle" /\ toServer # <<>> /\ Head(toServer).op = "Read"
    /\ toServer' = Tail(toServer)
    /\ n' = Least(Head(toServer).numBytes, currentSize)
    /\ pc' = "copy"
    /\ UNCHANGED <<ring, state, events, total, count, p, waiting, handling, result>>

\* The amounts given to WriteToClient for a read of size bytes at offset from:
\* a read that wraps is split so that all but the last are multiples of 4.
Split(from, size) ==
    LET left == DataSize - from
        odd == left % 4
        rest == size - (left - odd)
        top == Least(rest, 4 - odd)
    IN IF from + size <= DataSize THEN [end |-> 0, across |-> 0, last |-> size]
       ELSE IF odd = 0 THEN [end |-> left, across |-> 0, last |-> size - left]
       ELSE [end |-> left - odd, across |-> odd + top, last |-> (rest - (odd + top)) % Word]

Written(from, size) ==
    LET s == Split(from, size) IN s.end + s.across + s.last

\* Where the pointer ends up: each piece advances it, in 32-bit arithmetic.
Advance(from, size) ==
    Wrap(IF from + size <= DataSize THEN from + Written(from, size)
         ELSE (from + Written(from, size) - DataSize) % Word)

\* The reply is copied from the ring outside of the block.
CopyReply ==
    /\ pc = "copy"
    /\ p' = Advance(read, n)
    /\ intact' = (/\ intact /\ Written(read, n) = n
                  /\ \A i \in 0 .. n - 1 : data[Wrap(read + i)] = received + 1 + i)
    /\ received' = received + n
    /\ pc' = "commit"
    /\ UNCHANGED <<ring, state, events, total, count, n, client>>

\* outgoing, currentSize and read are updated in one blocked section.
CommitRead ==
    /\ pc = "commit"
    /\ outgoing' = (outgoing - n) % Word
    /\ currentSize' = currentSize - n
    /\ read' = p
    /\ pc' = "restart"
    /\ UNCHANGED <<data, write, state, events, total, count, n, p, client, result>>

\* "if the port was paused and we read some data, start it back up"
RestartPaused ==
    /\ pc = "restart"
    /\ state' = IF state = "Pause" THEN "Start" ELSE state
    /\ pc' = "idle"
    /\ waiting' = FALSE
    /\ UNCHANGED <<ring, events, total, count, n, p, toServer, handling, result>>

-----------------------------------------------------------------------------
\* Mutant: what is left in the port when the flow stops is not read.
HandleEventDroppingStop ==
    /\ handling /\ ~waiting /\ events # <<>>
    /\ handling' = (Head(events).state # "Stop")
    /\ toServer' = IF handling' THEN Append(toServer, ReadRequest(Head(events).numBytes))
                   ELSE toServer
    /\ waiting' = handling'
    /\ events' = Tail(events)
    /\ UNCHANGED <<ring, state, total, count, reader, result>>

\* EventHandler reads what the event announces (receiveData, receiveFile) and
\* blocks until the reply is there; after a Stop it is unregistered.
HandleEvent ==
    /\ handling /\ ~waiting /\ events # <<>>
    /\ toServer' = Append(toServer, ReadRequest(Head(events).numBytes))
    /\ waiting' = TRUE
    /\ handling' = (Head(events).state # "Stop")
    /\ events' = Tail(events)
    /\ UNCHANGED <<ring, state, total, count, reader, result>>

\* The application calls AuStopFlow, once.
UserStops ==
    /\ handling /\ ~waiting
    /\ \A i \in 1 .. Len(toServer) : toServer[i].op # "Stop"
    /\ toServer' = Append(toServer, StateRequest("Stop"))
    /\ UNCHANGED <<ring, state, events, total, count, reader, waiting, handling, result>>

Interrupt == Record \/ RecordLast
Server == ServeState \/ BeginRead \/ CopyReply \/ CommitRead \/ RestartPaused

Next == Interrupt \/ Server \/ HandleEvent \/ UserStops

\* The timer keeps ticking, the server serves and the client handles events.
Spec == Init /\ [][Next]_vars /\ WF_vars(Interrupt) /\ WF_vars(Server) /\ WF_vars(HandleEvent)

-----------------------------------------------------------------------------
Events == [kind : {"State", "HighWater"}, reason : {"User", "Overrun", "EOF", "Watermark"},
           state : {"Stop", "Pause", "Start"}, numBytes : 0 .. Word - 1]

\* The variables keep their types; the bound on the events is not reached.
TypeOK == /\ data \in [0 .. DataSize - 1 -> Nat]
          /\ read \in 0 .. DataSize - 1 /\ write \in 0 .. DataSize
          /\ currentSize \in 0 .. Word - 1 /\ outgoing \in 0 .. Word - 1
          /\ state \in {"Stop", "Pause", "Start"}
          /\ events \in Seq(Events) /\ Len(events) + 2 <= MaxEvents
          /\ total \in Totals /\ count \in 0 .. total + Chunk
          /\ pc \in {"idle", "copy", "commit", "restart"}
          /\ n \in 0 .. Word - 1 /\ p \in 0 .. DataSize - 1
          /\ waiting \in BOOLEAN /\ handling \in BOOLEAN
          /\ received \in 0 .. count /\ intact \in BOOLEAN

\* The client receives the recording, every byte once and in order, although
\* the reply is copied outside of the block while the interrupt writes the ring
\* (ProcAuReadElement, audispatch.c:1379-1412; writeClient, auprocess.c:607-645).
ReadsInOrder == TypeOK /\ intact

\* When the client has handled the Stop event it has all the samples asked for,
\* or all that were recorded if the application stopped the flow before: nothing
\* is left in the port (EventHandler, soundlib.c:434-438; fillInEvent).
NothingLeftBehind == ~handling /\ ~waiting => received = Least(total, count)

\* A recording comes to its end: the port is always announced again before it
\* is full, so the client goes on reading until it gets the Stop event
\* (writeClient, auprocess.c:655-658; EventHandler).
RecordingEnds == <>(~handling /\ ~waiting)
=============================================================================

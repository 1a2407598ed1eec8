----------------------------- MODULE SoundStream -----------------------------
(* A sound played by the library (lib/audio/soundlib.c) through an           *)
(* ImportPort: AuSoundPlay starts the flow, and EventHandler answers each     *)
(* event that asks for data with WriteElement requests until the sound is    *)
(* finished.  The connection is reliable and ordered; the events the server   *)
(* has queued and those on their way are one queue, "events".                *)
(*                                                                           *)
(* The application may pause, resume and stop the flow while it plays.       *)
EXTENDS ImportPort

CONSTANTS Cases,        \* lengths of sounds, each with when the interrupt may run
          MaxRequest,   \* the most bytes one WriteElement request carries
          UserOps,      \* what the application may ask of the flow
          MaxUserOps    \* bound on how often it does

Latencies == {"any", "mark", "none"}

ASSUME StreamAssumption ==
    /\ Cases \subseteq (0 .. MaxBytes) \X Latencies
    /\ MaxRequest \in Nat \ {0}
    /\ UserOps \subseteq {"Start", "Pause", "Stop"} /\ MaxUserOps \in Nat
    /\ Discard

VARIABLES total,      \* the length of the sound
          latency,    \* when the interrupt may run, see InTime; never changes
          remaining,  \* priv->numBytes: what was not sent yet
          toServer,   \* the requests on their way to the server
          handling,   \* the event handler is registered
          userOps     \* how many operations the application has left

streamVars == <<total, latency, remaining, toServer, handling, userOps>>
allVars == <<vars, streamVars>>

StateRequest(s) == [op |-> s, numBytes |-> 0, state |-> "Ready"]
WriteRequest(n, s) == [op |-> "Write", numBytes |-> n, state |-> s]

\* AuSoundPlay: a new flow with its elements, and the request to start it.
StreamInit ==
    /\ Init
    /\ \E c \in Cases : total = c[1] /\ latency = c[2]
    /\ remaining = total
    /\ toServer = <<StateRequest("Start")>>
    /\ handling = TRUE
    /\ userOps = MaxUserOps

-----------------------------------------------------------------------------
\* AuWriteElement splits what exceeds a request; all but the last are Pending.
WriteElement(n, final) ==
    LET pieces == IF n = 0 THEN 1 ELSE (n + MaxRequest - 1) \div MaxRequest
    IN [i \in 1 .. pieces |->
          IF i < pieces THEN WriteRequest(MaxRequest, "Pending")
          ELSE WriteRequest(n - (pieces - 1) * MaxRequest, final)]

\* sendData, sendFile: as much of the sound as was asked for.  It is the last
\* write if the sound could not fill it, or if nothing was left.
SendData(numBytes) ==
    LET n == Least(numBytes, remaining)
    IN /\ toServer' = toServer \o
            WriteElement(n, IF n = 0 \/ n # numBytes THEN "End" ELSE "Ready")
       /\ remaining' = remaining - n

AsksForData(ev) == \/ ev.kind = "LowWater"
                   \/ ev.state = "Pause" /\ ev.reason # "User"

\* EventHandler, for the next event of the flow.
HandleDataEvent ==
    /\ handling /\ events # <<>> /\ AsksForData(Head(events))
    /\ SendData(Head(events).numBytes)
    /\ events' = Tail(events)
    /\ UNCHANGED <<ring, incoming, eof, state, glitch, writer, total, latency, handling, userOps>>

HandleUserPause ==
    /\ handling /\ events # <<>>
    /\ Head(events).state = "Pause" /\ Head(events).reason = "User"
    /\ events' = Tail(events)
    /\ UNCHANGED <<ring, incoming, eof, state, glitch, writer, streamVars>>

\* The sound is over: the handler is unregistered and the flow released.
HandleStop ==
    /\ handling /\ events # <<>> /\ Head(events).state = "Stop"
    /\ handling' = FALSE
    /\ events' = Tail(events)
    /\ UNCHANGED <<ring, incoming, eof, state, glitch, writer, total, latency, remaining,
                   toServer, userOps>>

\* The application calls AuStartFlow, AuPauseFlow or AuStopFlow.
UserRequest(s) ==
    /\ handling /\ userOps > 0
    /\ userOps' = IF s = "Stop" THEN 0 ELSE userOps - 1
    /\ toServer' = Append(toServer, StateRequest(s))
    /\ UNCHANGED <<vars, total, latency, remaining, handling>>

-----------------------------------------------------------------------------
\* Dispatch of the next request; the rest of the library's state stays.
Serve(r) ==
    /\ pc = "idle" /\ toServer # <<>> /\ r = Head(toServer)
    /\ toServer' = Tail(toServer)
    /\ UNCHANGED <<total, latency, remaining, handling, userOps>>

\* WriteElement, which fails with BadValue when the bytes do not fit.
ServeWrite ==
    /\ toServer # <<>> /\ Head(toServer).op = "Write"
    /\ Serve(Head(toServer))
    /\ LET r == [numBytes |-> Head(toServer).numBytes, state |-> Head(toServer).state]
       IN IF r.numBytes <= DataSize - currentSize THEN BeginWrite(r) ELSE RefuseWrite(r)

\* SetElementStates; asking for the state it is in, or for a pause of a
\* stopped element, changes nothing.
NoChange(s) == s = state \/ (s = "Pause" /\ state = "Stop")

ServeState ==
    /\ toServer # <<>> /\ Head(toServer).op # "Write"
    /\ Serve(Head(toServer))
    /\ IF NoChange(Head(toServer).op) THEN UNCHANGED vars
       ELSE SetElementState(Head(toServer).op)

\* "any": the interrupt may run at any time.  "mark": not in the few
\* instructions between the commit of a write and its eof flag.  "none":
\* client and server have always done their part before the next interrupt.
InTime == CASE latency = "any"  -> TRUE
            [] latency = "mark" -> pc # "mark"
            [] latency = "none" -> pc = "idle" /\ events = <<>> /\ toServer = <<>>

Interrupt == /\ InTime
             /\ ReadClient
             /\ UNCHANGED streamVars

FinishWrite == WriteStep /\ UNCHANGED streamVars

Client == HandleDataEvent \/ HandleUserPause \/ HandleStop

StreamNext == \/ Interrupt
              \/ ServeWrite \/ ServeState \/ FinishWrite
              \/ Client
              \/ \E s \in UserOps : UserRequest(s)

\* The timer keeps ticking, the server serves, the client handles its events;
\* the application need not do anything.
StreamSpec == /\ StreamInit /\ [][StreamNext]_allVars
              /\ WF_allVars(Interrupt)
              /\ WF_allVars(ServeWrite \/ ServeState \/ FinishWrite)
              /\ WF_allVars(Client)

-----------------------------------------------------------------------------
StreamRequests == [op : {"Start", "Pause", "Stop", "Write"}, numBytes : 0 .. MaxRequest,
                   state : {"Ready", "Pending", "End"}]

\* The variables keep their types.
StreamTypeOK == /\ TypeOK
                /\ <<total, latency>> \in Cases /\ remaining \in 0 .. total
                /\ toServer \in Seq(StreamRequests)
                /\ handling \in BOOLEAN /\ userOps \in 0 .. MaxUserOps

SumOf(s) == LET upTo[i \in 0 .. Len(s)] == IF i = 0 THEN 0 ELSE upTo[i - 1] + s[i]
          IN upTo[Len(s)]

\* What some events ask for, and what some requests carry.
AskedIn(evs) == SumOf([i \in 1 .. Len(evs) |-> IF AsksForData(evs[i]) THEN evs[i].numBytes ELSE 0])
BytesIn(requests) == SumOf([i \in 1 .. Len(requests) |-> requests[i].numBytes])

\* What is on its way to the port, or being copied to it.
Arriving == BytesIn(toServer) + IF pc \in {"copy", "commit"} THEN req.numBytes ELSE 0

\* What the client was asked for and did not send, or what is on its way.
Owed == AskedIn(events) + Arriving

\* The writes on their way fit into the room that is left: a client that only
\* answers the server's events is never refused with BadValue
\* (audispatch.c:1273, auevents.c:88).
WritesFit == StreamTypeOK /\ Arriving <= DataSize - currentSize

\* While the sound has more, "incoming" (au.h:186, how much data the server is
\* expecting) is never less than what the client was asked for and has not
\* delivered, whatever the application does to the flow: the server never asks
\* twice for the same room.
IncomingCoversOwed == state # "Stop" /\ remaining > 0 => incoming >= Owed

\* When the flow stops because of EOF the whole sound was sent, stored and read:
\* in particular no event has asked for no data, which the library would have
\* answered with the end of the sound (soundlib.c:336).
PlayedToTheEnd ==
    (\E i \in 1 .. Len(events) : events[i].state = "Stop" /\ events[i].reason = "EOF")
       => remaining = 0 /\ count = total /\ currentSize = 0

\* A sound that the application leaves alone comes to its end, however late the
\* client and the server are within "latency": the library's handler gets the
\* event that the flow stopped, calls the callback and releases the flow.  No
\* event is held back on the way by the bound on their queue.
SoundEnds == /\ [](Len(events) < MaxEvents)
             /\ latency # "any" /\ [](userOps = MaxUserOps) => <>~handling
=============================================================================

------------------------------ MODULE Buckets -------------------------------
(* Buckets: sounds that are kept in the server.  The library fills, reads,   *)
(* plays and records buckets over a small pool of scratch flows, and         *)
(* remembers their attributes in a cache.  A call of the library is a        *)
(* sequence of round trips, between which other clients and the interrupt    *)
(* go on; a sound that plays or is recorded ends with an event that its      *)
(* handler awaits, while the application makes further calls.  Buckets are   *)
(* created with all access and nobody disconnects; a client has at most as   *)
(* many flows at a time as the pool holds; calls return their status, which  *)
(* makes them wait for the server, but for AuStopFlow.                       *)
(*                                                                           *)
(* Sample i of the sound that created a bucket is i, sample i of a recording *)
(* into it is Size + i, and memory that was never written is 0.              *)
EXTENDS Naturals, Sequences, SequencesExt, FiniteSetsExt

CONSTANTS Clients,
          ScratchFlows,       \* the scratch flows of each client: 1, 2, ...
          Buckets,     \* the ids of buckets in the order of their creation
          Size,        \* samples in a bucket
          MaxRequest,  \* samples in a WriteElement or ReadElement request
          Counts,      \* the loop counts that applications ask for
          Behind,      \* ends of a loop that its client may have to answer still
          MaxCalls     \* bound on the calls of all applications together

NoOne == "no client"

ASSUME BucketsAssumption ==
    /\ NoOne \notin Clients
    /\ Size \in Nat \ {0} /\ MaxRequest \in Nat \ {0}
    /\ ScratchFlows \subseteq Nat \ {0} /\ Buckets \subseteq Nat \ {0}
    /\ Counts \subseteq Nat \ {0} /\ Behind \in Nat /\ MaxCalls \in Nat

VARIABLES created,    \* created[b]: the client that created the bucket
          resolves,   \* the bucket ids that LookupIDByType finds
          destroyed,  \* the components marked by ProcAuDestroyBucket
          data,       \* data[b]: the memory of the component, <<>> when it is freed
          flow,       \* flow[c][f]: elements and state of a flow in the server
          stops,      \* AuStopFlow requests on their way to the server
          events,     \* Stop events on their way to, and queued in, the library
          cache,      \* the buckets in the library's cache
          inuse,      \* aud->scratch_flows.flows[i].inuse
          handler,    \* handler[c][f]: the priv of a registered EventHandler
          call,       \* what the application's thread is doing
          calls,      \* calls that are left
          made,       \* history: buckets whose creation has returned
          answer,     \* history: what the last read of a client returned
          cut         \* history: handlers that ended before their sound

serverVars == <<created, resolves, destroyed, data, flow>>
libraryVars == <<cache, inuse, handler, call, calls>>
history == <<made, answer, cut>>
bucketVars == <<serverVars, stops, events, libraryVars, history>>

NoElements == [kind |-> "none"]
NoHandler == [loopCount |-> 0, want |-> 0, asked |-> FALSE]
Idle == [kind |-> "idle"]

BucketsInit ==
    /\ created = [b \in Buckets |-> NoOne]
    /\ resolves = {} /\ destroyed = {}
    /\ data = [b \in Buckets |-> <<>>]
    /\ flow = [c \in Clients |-> [f \in ScratchFlows |-> NoElements]]
    /\ stops = [c \in Clients |-> <<>>] /\ events = [c \in Clients |-> <<>>]
    /\ cache = [c \in Clients |-> {}] /\ inuse = [c \in Clients |-> {}]
    /\ handler = [c \in Clients |-> [f \in ScratchFlows |-> NoHandler]]
    /\ call = [c \in Clients |-> Idle] /\ calls = MaxCalls
    /\ made = {}
    /\ answer = [c \in Clients |-> [whole |-> FALSE, data |-> <<>>]]
    /\ cut = {}

-----------------------------------------------------------------------------
(* The server.                                                               *)

Refers(fl, b) == fl.kind # "none" /\ fl.bucket = b
Started(fl) == fl.kind \in {"play", "record"} /\ fl.started

\* AuFreeComponent: the memory goes with the last id and the last element.
Collect(mem, ids, fls) ==
    [b \in Buckets |->
        IF b \in ids \/ \E c \in Clients, f \in ScratchFlows : Refers(fls[c][f], b)
          THEN mem[b] ELSE <<>>]

\* Mutant: only memory that is freed is no longer listed.
ListedUntilFreed == {b \in Buckets : data[b] # <<>>}

\* The buckets that ProcAuListBuckets writes to a client that may list all.
Listed == {b \in Buckets : data[b] # <<>> /\ b \notin destroyed}

\* A client that waits for a reply that never comes reads no events.
Stuck(c) == call[c].kind = "stuck"
Post(evs, c, f, reason) ==
    IF Stuck(c) THEN evs
    ELSE [evs EXCEPT ![c] = Append(@, [flow |-> f, reason |-> reason])]

\* AuFreeFlowElements: a flow that still runs is stopped, and says so.
FreeElements(evs, c, f) ==
    IF Started(flow[c][f]) THEN Post(evs, c, f, "user") ELSE evs

\* ProcAuSetElements for the flows that the library builds.  An id that does
\* not resolve leaves the flow without elements.
Elements(kind, b, loop) ==
    IF b \notin resolves THEN NoElements
    ELSE [kind |-> kind, bucket |-> b, count |-> 0, loop |-> loop,
          started |-> FALSE, played |-> 0]

\* ProcAuSetElementStates with AuStateStop for all elements.
ExecuteStop(c) ==
    /\ stops[c] # <<>>
    /\ LET f == Head(stops[c])
       IN  IF Started(flow[c][f])
             THEN /\ flow' = [flow EXCEPT ![c][f].started = FALSE]
                  /\ events' = Post(events, c, f, "user")
             ELSE UNCHANGED <<flow, events>>
    /\ stops' = [stops EXCEPT ![c] = Tail(@)]
    /\ UNCHANGED <<created, resolves, destroyed, data, libraryVars, history>>

\* readBucket and writeBucket: at the last sample the element of a playing
\* bucket stops and, if it is to loop, its action starts it again; a
\* recording stops when it finds no room.  Plays are counted up to one more
\* than can be asked for.
Ends(fl) == Started(fl) /\ fl.count = (IF fl.kind = "play" THEN Size - 1 ELSE Size)
Ticked(fl) ==
    IF Ends(fl) THEN [fl EXCEPT !.count = 0, !.started = fl.loop,
                                !.played = Min({@ + 1, Max(Counts) + 1})]
    ELSE IF Started(fl) THEN [fl EXCEPT !.count = @ + 1]
    ELSE fl

\* The ends of a loop that its client has not answered.
Unanswered(c, f) ==
    Len(SelectSeq(events[c], LAMBDA e : e.flow = f))
    + (IF f \in inuse[c] /\ handler[c][f].want > 1 /\ handler[c][f].loopCount = 0 THEN 1 ELSE 0)

\* The interrupt, once for all flows.  Loops are so long that their client
\* answers all but Behind of their ends in time.
Tick ==
    /\ \E c \in Clients, f \in ScratchFlows : Started(flow[c][f])
    /\ \A c \in Clients, f \in ScratchFlows :
           Ends(flow[c][f]) /\ flow[c][f].loop /\ ~Stuck(c) => Unanswered(c, f) <= Behind
    /\ flow' = [c \in Clients |-> [f \in ScratchFlows |-> Ticked(flow[c][f])]]
    /\ events' = [c \in Clients |->
           IF Stuck(c) THEN events[c]
           ELSE events[c] \o
                LET ended == {f \in ScratchFlows : Ends(flow[c][f])}
                IN  [i \in 1 .. Cardinality(ended) |->
                        [flow |-> SetToSortSeq(ended, <)[i], reason |-> "eof"]]]
    /\ data' = [b \in Buckets |->
           [i \in DOMAIN data[b] |->
               IF \E c \in Clients, f \in ScratchFlows :
                      /\ Started(flow[c][f]) /\ flow[c][f].kind = "record"
                      /\ flow[c][f].bucket = b /\ flow[c][f].count + 1 = i
                 THEN Size + i ELSE data[b][i]]]
    /\ UNCHANGED <<created, resolves, destroyed, stops, libraryVars, history>>

-----------------------------------------------------------------------------
(* The library: one action for each round trip.                              *)

\* Requests are executed in order: those of earlier AuStopFlow calls first.
RoundTrip(c) == stops[c] = <<>>
Begin(c) == call[c] = Idle /\ calls > 0 /\ calls' = calls - 1
Doing(c, kind, step) == call[c].kind = kind /\ call[c].step = step /\ RoundTrip(c)
Goto(c, step) == call' = [call EXCEPT ![c].step = step]
Return(c) == call' = [call EXCEPT ![c] = Idle]
Hang(c) == call' = [call EXCEPT ![c] = [kind |-> "stuck"]]

\* bcache.c: an entry stays until its own client destroys the bucket.
InCache(c, b) == b \in cache[c]
AddToCache(c, bs) == cache' = [cache EXCEPT ![c] = @ \cup bs]
RemoveFromCache(c, b) == cache' = [cache EXCEPT ![c] = @ \ {b}]

\* AuWriteElement and AuSoundCreateFileFromBucket divide what is to be sent or
\* read into requests.
Portion(c) == Min({MaxRequest, call[c].left})

\* AuGetScratchFlow, AuReleaseScratchFlow.
FreeFlow(c) == Min(ScratchFlows \ inuse[c])
Take(c, f) == inuse' = [inuse EXCEPT ![c] = @ \cup {f}]
Release(c, f) == inuse' = [inuse EXCEPT ![c] = @ \ {f}]

\* AuCreateBucket, the first request of AuSoundCreateBucketFromData.
CreateBucket(c) ==
    /\ Begin(c) /\ RoundTrip(c) /\ ScratchFlows \ inuse[c] # {}
    /\ \E b \in Buckets :
           /\ created[b] = NoOne /\ \A x \in Buckets : x < b => created[x] # NoOne
           /\ created' = [created EXCEPT ![b] = c]
           /\ resolves' = resolves \cup {b}
           /\ data' = [data EXCEPT ![b] = [i \in 1 .. Size |-> 0]]
           /\ call' = [call EXCEPT ![c] = [kind |-> "create", step |-> "attributes",
                                           bucket |-> b, left |-> Size]]
    /\ UNCHANGED <<destroyed, flow, stops, events, cache, inuse, handler, history>>

\* A call that uses a bucket: applications know those that they have listed.
\* AuSoundCreateFileFromBucket, AuSoundPlayFromBucket, AuSoundRecordToBucket.
UseBucket(c) ==
    /\ Begin(c) /\ ScratchFlows \ inuse[c] # {}
    /\ \E b \in cache[c], kind \in {"read", "play", "record"} :
           \E n \in IF kind = "play" THEN Counts ELSE {1} :
               /\ call' = [call EXCEPT ![c] = [kind |-> kind, step |-> "attributes",
                                               bucket |-> b, left |-> Size, count |-> n]]
               /\ answer' = [answer EXCEPT ![c] = [whole |-> kind = "read" /\ b \in made,
                                                   data |-> <<>>]]
    /\ UNCHANGED <<serverVars, stops, events, cache, inuse, handler, made, cut>>

\* AuGetBucketAttributes: from the cache or from the server.  The library
\* reads the attributes even when the reply is an error (GetBucAttr.c:48).
GetAttributes(c) ==
    /\ call[c].kind \in {"create", "read", "play", "record"}
    /\ call[c].step = "attributes"
    /\ LET b == call[c].bucket
       IN  \/ InCache(c, b) /\ Goto(c, "elements") /\ UNCHANGED cache
           \/ /\ ~InCache(c, b) /\ RoundTrip(c)
              /\ IF b \in resolves
                   THEN AddToCache(c, {b}) /\ Goto(c, "elements")
                   ELSE Hang(c) /\ UNCHANGED cache
    /\ UNCHANGED <<serverVars, stops, events, inuse, handler, calls, history>>

\* AuSetElements on a scratch flow and, for a sound that plays or is
\* recorded, AuRegisterEventHandler.  Nobody looks at the status.
SetElements(c) ==
    /\ call[c].kind \in {"create", "read", "play", "record"}
    /\ Doing(c, call[c].kind, "elements")
    /\ LET f == FreeFlow(c)
           kind == call[c].kind
           loop == kind = "play" /\ call[c].count > 1
           fls == [flow EXCEPT ![c][f] = Elements(kind, call[c].bucket, loop)]
       IN  /\ Take(c, f)
           /\ flow' = fls /\ data' = Collect(data, resolves, fls)
           /\ events' = FreeElements(events, c, f)
           /\ call' = [call EXCEPT ![c] =
                  [kind |-> kind, bucket |-> @.bucket, left |-> @.left, flow |-> f,
                   step |-> IF kind \in {"create", "read"} THEN "transfer" ELSE "start"]]
           /\ handler' = IF kind \notin {"play", "record"} THEN handler
                         ELSE [handler EXCEPT ![c][f] =
                                  [loopCount |-> IF loop THEN call[c].count ELSE 0,
                                   want |-> call[c].count, asked |-> FALSE]]
    /\ UNCHANGED <<created, resolves, destroyed, stops, cache, calls, history>>

\* AuStartFlow: a call returns, its sound goes on.
StartFlow(c) ==
    /\ call[c].kind \in {"play", "record"} /\ Doing(c, call[c].kind, "start")
    /\ flow' = [flow EXCEPT ![c][call[c].flow] =
           IF @.kind = "none" THEN @ ELSE [@ EXCEPT !.started = TRUE, !.count = 0]]
    /\ Return(c)
    /\ UNCHANGED <<created, resolves, destroyed, data, stops, events,
                   cache, inuse, handler, calls, history>>

\* AuWriteElement, request by request: a trivial flow copies to the bucket.
WriteElement(c) ==
    /\ Doing(c, "create", "transfer")
    /\ LET f == call[c].flow
           fl == flow[c][f]
           n == Portion(c)
           done == Size - call[c].left
           fits == fl.kind # "none" /\ fl.count + n <= Size
       IN  /\ IF fits
                THEN /\ data' = [data EXCEPT ![fl.bucket] =
                            [i \in 1 .. Size |->
                                IF i \in fl.count + 1 .. fl.count + n
                                  THEN done + i - fl.count ELSE @[i]]]
                     /\ flow' = [flow EXCEPT ![c][f].count =
                            IF n = call[c].left THEN 0 ELSE @ + n]
                ELSE UNCHANGED <<data, flow>>
           /\ IF fits /\ n < call[c].left
                THEN /\ call' = [call EXCEPT ![c].left = @ - n] /\ UNCHANGED <<inuse, made>>
                ELSE /\ Return(c) /\ Release(c, f)
                     /\ made' = made \cup {call[c].bucket}
    /\ UNCHANGED <<created, resolves, destroyed, stops, events, cache, handler, calls, answer, cut>>

\* AuReadElement, until all is there or nothing more comes.  After an error
\* the number of bytes in the reply is whatever was there (ReadEl.c:53).
ReadElement(c) ==
    /\ Doing(c, "read", "transfer")
    /\ LET f == call[c].flow
           fl == flow[c][f]
           n == Min({Portion(c), Size - fl.count})
       IN  IF fl.kind = "none"
             THEN /\ \/ Hang(c) /\ UNCHANGED inuse
                     \/ Return(c) /\ Release(c, f)
                  /\ answer' = [answer EXCEPT ![c].whole = FALSE]
                  /\ UNCHANGED flow
             ELSE /\ answer' = [answer EXCEPT ![c].data =
                         @ \o SubSeq(data[fl.bucket], fl.count + 1, fl.count + n)]
                  /\ flow' = [flow EXCEPT ![c][f].count = @ + n]
                  /\ IF n > 0 /\ n < call[c].left
                       THEN call' = [call EXCEPT ![c].left = @ - n] /\ UNCHANGED inuse
                       ELSE Return(c) /\ Release(c, f)
    /\ UNCHANGED <<created, resolves, destroyed, data, stops, events,
                   cache, handler, calls, made, cut>>

\* AuListBuckets: what is listed is added to the cache.
ListBuckets(c) ==
    /\ Begin(c) /\ RoundTrip(c)
    /\ AddToCache(c, Listed)
    /\ UNCHANGED <<serverVars, stops, events, inuse, handler, call, history>>

\* AuDestroyBucket: flows that refer to the component keep its memory.
DestroyBucket(c) ==
    /\ Begin(c) /\ RoundTrip(c)
    /\ \E b \in cache[c] :
           /\ RemoveFromCache(c, b)
           /\ IF b \in resolves
                THEN /\ destroyed' = destroyed \cup {b}
                     /\ resolves' = resolves \ {b}
                     /\ data' = Collect(data, resolves \ {b}, flow)
                ELSE UNCHANGED <<destroyed, resolves, data>>
    /\ UNCHANGED <<created, flow, stops, events, inuse, handler, call, history>>

\* The application stops its sound.
AskStop(c) ==
    /\ Begin(c)
    /\ \E f \in inuse[c] :
           /\ handler[c][f].want > 0 /\ ~handler[c][f].asked
           /\ handler' = [handler EXCEPT ![c][f].asked = TRUE]
           /\ stops' = [stops EXCEPT ![c] = Append(@, f)]
    /\ UNCHANGED <<serverVars, events, cache, inuse, call, history>>

\* Mutant: a sound that its user stops counts as one more loop.
ContinuesAnyway(h, e) == h.loopCount > 0

\* The end of a loop and not of the sound.
Continues(h, e) == h.loopCount > 0 /\ e.reason = "eof"

\* EventHandler for a Stop event.
HandleEvent(c) ==
    /\ call[c] = Idle /\ events[c] # <<>>
    /\ events' = [events EXCEPT ![c] = Tail(@)]
    /\ LET e == Head(events[c])
           f == e.flow
           h == handler[c][f]
       IN  CASE h.want = 0 -> UNCHANGED <<handler, stops, inuse, cut>>
             [] h.want > 0 /\ Continues(h, e) ->
                  /\ handler' = [handler EXCEPT ![c][f].loopCount = @ - 1]
                  /\ stops' = IF h.loopCount = 1 THEN [stops EXCEPT ![c] = Append(@, f)] ELSE stops
                  /\ UNCHANGED <<inuse, cut>>
             [] OTHER ->
                  /\ handler' = [handler EXCEPT ![c][f] = NoHandler]
                  /\ Release(c, f)
                  /\ cut' = IF h.asked \/ flow[c][f].played = h.want THEN cut
                             ELSE cut \cup {<<c, f>>}
                  /\ UNCHANGED stops
    /\ UNCHANGED <<serverVars, cache, call, calls, made, answer>>

Step(c) == \/ GetAttributes(c) \/ SetElements(c) \/ StartFlow(c)
           \/ WriteElement(c) \/ ReadElement(c)
Application(c) == \/ CreateBucket(c) \/ UseBucket(c) \/ ListBuckets(c)
                  \/ DestroyBucket(c) \/ AskStop(c)

BucketsNext == \/ Tick
               \/ \E c \in Clients : Application(c) \/ Step(c) \/ HandleEvent(c) \/ ExecuteStop(c)

\* The timer ticks while a flow runs, the server executes what it has got, and
\* applications return to their event loop.
Fairness == /\ WF_bucketVars(Tick)
            /\ \A c \in Clients : /\ WF_bucketVars(ExecuteStop(c))
                                  /\ WF_bucketVars(Step(c)) /\ WF_bucketVars(HandleEvent(c))

BucketsSpec == BucketsInit /\ [][BucketsNext]_bucketVars /\ Fairness

-----------------------------------------------------------------------------
(* What buckets promise.                                                     *)

\* Nothing is ever stored at another place than its own, whatever flow carried
\* it and however it was divided; a bucket is complete when the call that
\* created it returns.
BucketsInPlace ==
    \A b \in Buckets : \A i \in DOMAIN data[b] :
        data[b][i] \in {i, Size + i} \cup (IF b \in made \cap resolves THEN {} ELSE {0})

\* Who reads a complete bucket gets all of it, although it may be recorded
\* into, and destroyed by its owner, while it is read.
ReadsWhole ==
    \A c \in Clients : call[c].kind # "read" /\ answer[c].whole =>
        /\ Len(answer[c].data) = Size
        /\ \A i \in 1 .. Size : answer[c].data[i] \in {i, Size + i}

\* Buckets that are listed can be used, although the memory of others is
\* still there for the flows that play them.
ListedResolve == Listed \subseteq resolves

\* The three parts about what is kept (audispatch.c:1342, 1243, 374).
SoundsKept == BucketsInPlace /\ ReadsWhole /\ ListedResolve

\* A sound that was started is played as often as was asked for, unless its
\* application stops it, and then its handler is told, unless the client hangs:
\* no handler takes an event that was meant for an earlier sound of the same
\* scratch flow (soundlib.c:449).
SoundsPlayOut ==
    /\ [](cut = {})
    /\ \A c \in Clients, f \in ScratchFlows :
           handler[c][f].want > 0 /\ flow[c][f].kind # "none"
               ~> handler[c][f].want = 0 \/ Stuck(c)
=============================================================================

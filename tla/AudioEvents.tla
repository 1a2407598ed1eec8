----------------------------- MODULE AudioEvents -----------------------------
(* The audio event queue (server/dia/auevents.c): a doubly linked list with  *)
(* a head and a tail pointer, appended to by the audio interrupt and by the  *)
(* request handlers, emptied by the dispatch loop (server/dia/dispatch.c),   *)
(* which sleeps in select() (server/os/WaitFor.c) between rounds.            *)
(*                                                                           *)
(* Every action of the main program is one stretch of code that the audio    *)
(* interrupt cannot enter: a section between AuBlockAudio and AuUnBlockAudio *)
(* or a step that touches nothing the interrupt uses.  The interrupt may run *)
(* between any two of them.                                                  *)
EXTENDS Naturals, Sequences, FiniteSets, SequencesExt

CONSTANTS Cells,       \* the memory the queue records are allocated from
          Flows,
          Posting,     \* the flows with elements that notify their client
          Destroyable, \* the flows that clients may destroy
          MaxPosts,    \* bound on the events posted in a behaviour
          NULL

ASSUME EventsAssumption == /\ Destroyable \subseteq Flows /\ Posting \subseteq Flows
                           /\ NULL \notin Cells
                           /\ MaxPosts \in Nat
                           /\ IsFiniteSet(Cells) /\ Cardinality(Cells) >= MaxPosts

VARIABLES next, prev,  \* the links of every record, freed ones included
          event,       \* the number of the event a record carries
          allocated,   \* the records that are allocated
          head, tail,  \* AuEventQueue, AuEventQueueTail
          log,         \* log[s]: the flow of event number s (history)
          written,     \* the events written to clients (history)
          running,     \* flows whose elements may post from the interrupt
          gone,        \* flows that were destroyed
          pc, after,   \* where the main program is; what follows its event round
          p, nx,       \* the local variables of the two queue walks
          doomed,      \* flows a request still has to destroy
          victim,      \* the flow that is being destroyed
          eintr        \* a signal arrived while select() was blocking

queueVars == <<next, prev, event, allocated, head, tail>>
walkVars == <<p, nx>>
flowVars == <<running, gone, doomed, victim>>
mainVars == <<pc, after>>
vars == <<queueVars, log, written, flowVars, mainVars, walkVars, eintr>>

Init == /\ next = [c \in Cells |-> NULL] /\ prev = [c \in Cells |-> NULL]
        /\ event = [c \in Cells |-> 0]
        /\ allocated = {}
        /\ head = NULL /\ tail = NULL
        /\ log = <<>> /\ written = <<>>
        /\ running = {} /\ gone = {}
        /\ pc = "process" /\ after = "wait"
        /\ p = NULL /\ nx = NULL
        /\ doomed = {} /\ victim = NULL
        /\ eintr = FALSE

-----------------------------------------------------------------------------
\* Mutant: the record is put at the head, as AddToLinkedList of au.h does.
AddToEventQueueHead(e) ==
    /\ next' = [next EXCEPT ![e] = head]
    /\ prev' = [c \in Cells |-> IF c = e THEN NULL
                               ELSE IF c = head THEN e ELSE prev[c]]
    /\ head' = e
    /\ tail' = IF tail = NULL THEN e ELSE tail

\* The macro AddToEventQueue on a record e that was just allocated.
AddToEventQueue(e) ==
    /\ IF tail # NULL
         THEN /\ next' = [next EXCEPT ![tail] = e, ![e] = NULL]
              /\ prev' = [prev EXCEPT ![e] = tail]
              /\ head' = head
         ELSE /\ next' = [next EXCEPT ![e] = NULL]
              /\ prev' = [prev EXCEPT ![e] = NULL]
              /\ head' = e
    /\ tail' = e

\* AuRequestElementNotifyEvent: the record is taken from the free memory.
AuRequestElementNotifyEvent(f) ==
    /\ Len(log) < MaxPosts
    /\ \E e \in Cells \ allocated :
          /\ allocated' = allocated \cup {e}
          /\ event' = [event EXCEPT ![e] = Len(log) + 1]
          /\ AddToEventQueue(e)
    /\ log' = Append(log, f)

\* RemoveFromLinkedList(AuEventQueue, c), then the tail is reset if the queue
\* became empty: one blocked section in both walks.
RemoveFromQueue(c) ==
    /\ prev' = IF next[c] # NULL THEN [prev EXCEPT ![next[c]] = prev[c]] ELSE prev
    /\ next' = IF prev[c] # NULL THEN [next EXCEPT ![prev[c]] = next[c]] ELSE next
    /\ head' = IF prev[c] # NULL THEN head ELSE next[c]
    /\ tail' = IF head' = NULL THEN NULL ELSE tail
    /\ UNCHANGED event

-----------------------------------------------------------------------------
\* The SIGALRM handler: an element of a running flow may post an event (a
\* watermark or a state change), and the flow may stop on its own.
Interrupt ==
    /\ \/ /\ \E f \in running \cap Posting :
                /\ AuRequestElementNotifyEvent(f)
                /\ running' \in {running, running \ {f}}
       \/ UNCHANGED <<queueVars, log, running>>
    /\ eintr' = (pc = "select" \/ eintr)
    /\ UNCHANGED <<written, gone, doomed, victim, mainVars, walkVars>>

-----------------------------------------------------------------------------
\* ProcessAudioEvents takes the head under the block.
ProcessAudioEvents ==
    /\ pc = "process"
    /\ p' = head
    /\ pc' = IF head = NULL THEN after ELSE "write"
    /\ UNCHANGED <<queueVars, log, written, flowVars, after, nx, eintr>>

WriteAuEventsToClient ==
    /\ pc = "write"
    /\ written' = Append(written, event[p])
    /\ pc' = "remove"
    /\ UNCHANGED <<queueVars, log, flowVars, after, walkVars, eintr>>

RemoveWritten ==
    /\ pc = "remove"
    /\ RemoveFromQueue(p)
    /\ nx' = next[p]
    /\ pc' = "free"
    /\ UNCHANGED <<allocated, log, written, flowVars, after, p, eintr>>

FreeWritten ==
    /\ pc = "free"
    /\ allocated' = allocated \ {p}
    /\ p' = nx
    /\ pc' = IF nx = NULL THEN after ELSE "write"
    /\ UNCHANGED <<next, prev, event, head, tail, log, written, flowVars, after,
                   nx, eintr>>

-----------------------------------------------------------------------------
\* WaitForSomething, up to the call of select(): it does not look at the queue.
WaitForSomething ==
    /\ pc = "wait"
    /\ pc' = "select"
    /\ eintr' = FALSE
    /\ UNCHANGED <<queueVars, log, written, flowVars, after, walkVars>>

\* Mutant: WaitForSomething does not look at the queue when a signal wakes it.
SelectInterruptedIgnoringQueue ==
    /\ pc = "select" /\ eintr
    /\ pc' = "wait"
    /\ eintr' = FALSE
    /\ UNCHANGED <<queueVars, log, written, flowVars, after, walkVars>>

\* select() fails with EINTR: return to the dispatcher only if an event waits.
SelectInterrupted ==
    /\ pc = "select" /\ eintr
    /\ pc' = IF head # NULL THEN "process" ELSE "wait"
    /\ eintr' = FALSE
    /\ UNCHANGED <<queueVars, log, written, flowVars, after, walkVars>>

\* A client is readable: its request is read after another event round.
SelectReady ==
    /\ pc = "select"
    /\ pc' = "process" /\ after' = "request"
    /\ eintr' = FALSE
    /\ UNCHANGED <<queueVars, log, written, flowVars, walkVars>>

-----------------------------------------------------------------------------
\* A request that destroys nothing; it may start a flow.  The client may be
\* given another request, or the dispatcher goes back to waiting.
OtherRequest ==
    /\ pc = "request"
    /\ running' \in {running} \cup {running \cup {f} : f \in Flows \ gone}
    /\ pc' = "process"
    /\ after' \in {"request", "wait"}
    /\ UNCHANGED <<queueVars, log, written, gone, doomed, victim, walkVars, eintr>>

\* DestroyFlow frees one flow, CloseDownClient all the flows of a client.
DestroyRequest ==
    /\ pc = "request"
    /\ doomed' \in (SUBSET (Destroyable \ gone)) \ {{}}
    /\ pc' = "freeflow"
    /\ after' = "wait"
    /\ UNCHANGED <<queueVars, log, written, running, gone, victim, walkVars, eintr>>

\* Mutant: the events are dequeued from a flow that was not stopped.
StopVictimWithoutStopping ==
    /\ pc = "freeflow"
    /\ \E f \in doomed : victim' = f /\ doomed' = doomed \ {f}
    /\ pc' = "dequeue"
    /\ UNCHANGED <<queueVars, log, running, written, gone, after, walkVars, eintr>>

\* freeFlow: AuFreeFlowElements stops a running flow; its Stop notification,
\* if the element has that action, is posted from here.
StopVictim ==
    /\ pc = "freeflow"
    /\ \E f \in doomed :
          /\ victim' = f
          /\ doomed' = doomed \ {f}
          /\ running' = running \ {f}
          /\ \/ f \in running \cap Posting /\ AuRequestElementNotifyEvent(f)
             \/ UNCHANGED <<queueVars, log>>
    /\ pc' = "dequeue"
    /\ UNCHANGED <<written, gone, after, walkVars, eintr>>

\* AuDequeueEvents takes the head under the block.
AuDequeueEvents ==
    /\ pc = "dequeue"
    /\ p' = head
    /\ pc' = IF head = NULL THEN "freed" ELSE "peek"
    /\ UNCHANGED <<queueVars, log, written, flowVars, after, nx, eintr>>

\* next = p->next has a blocked section of its own.
PeekNext ==
    /\ pc = "peek"
    /\ nx' = next[p]
    /\ pc' = "match"
    /\ UNCHANGED <<queueVars, log, written, flowVars, after, p, eintr>>

DequeueMatching ==
    /\ pc = "match" /\ log[event[p]] = victim
    /\ RemoveFromQueue(p)
    /\ pc' = "freerecord"
    /\ UNCHANGED <<allocated, log, written, flowVars, after, walkVars, eintr>>

SkipOther ==
    /\ pc = "match" /\ log[event[p]] # victim
    /\ p' = nx
    /\ pc' = IF nx = NULL THEN "freed" ELSE "peek"
    /\ UNCHANGED <<queueVars, log, written, flowVars, after, nx, eintr>>

FreeDequeued ==
    /\ pc = "freerecord"
    /\ allocated' = allocated \ {p}
    /\ p' = nx
    /\ pc' = IF nx = NULL THEN "freed" ELSE "peek"
    /\ UNCHANGED <<next, prev, event, head, tail, log, written, flowVars, after,
                   nx, eintr>>

\* aufree(flow); the next flow of the request, or the next event round.
FlowFreed ==
    /\ pc = "freed"
    /\ gone' = gone \cup {victim}
    /\ victim' = NULL
    /\ pc' = IF doomed = {} THEN "process" ELSE "freeflow"
    /\ UNCHANGED <<queueVars, log, written, running, doomed, after, walkVars, eintr>>

Main == \/ ProcessAudioEvents \/ WriteAuEventsToClient \/ RemoveWritten \/ FreeWritten
        \/ WaitForSomething \/ SelectInterrupted
        \/ OtherRequest \/ DestroyRequest \/ StopVictim
        \/ AuDequeueEvents \/ PeekNext \/ DequeueMatching \/ SkipOther \/ FreeDequeued
        \/ FlowFreed

Next == Main \/ SelectReady \/ Interrupt

\* The program keeps running and the interval timer keeps ticking (intervalProc
\* arms it again on every tick); nothing says that a client is ever readable.
Spec == Init /\ [][Next]_vars /\ WF_vars(Main) /\ WF_<<eintr>>(Interrupt)

-----------------------------------------------------------------------------
\* The records reached from c through the links, at most one visit of each.
ListFrom(links, c) ==
    LET walk[k \in 0 .. Cardinality(Cells)] ==
          IF k = 0 THEN IF c = NULL THEN <<>> ELSE <<c>>
          ELSE LET w == walk[k - 1]
               IN IF w = <<>> \/ links[Last(w)] = NULL THEN w ELSE Append(w, links[Last(w)])
    IN walk[Cardinality(Cells)]

Queue == ListFrom(next, head)

Pc == {"process", "write", "remove", "free", "wait", "select", "request",
       "freeflow", "dequeue", "peek", "match", "freerecord", "freed"}

\* The variables keep their types, and neither walk dereferences NULL.
TypeOK == /\ next \in [Cells -> Cells \cup {NULL}]
          /\ prev \in [Cells -> Cells \cup {NULL}]
          /\ event \in [Cells -> 0 .. MaxPosts]
          /\ allocated \subseteq Cells
          /\ head \in Cells \cup {NULL} /\ tail \in Cells \cup {NULL}
          /\ log \in Seq(Flows) /\ written \in Seq(1 .. MaxPosts)
          /\ running \subseteq Flows /\ gone \subseteq Flows
          /\ doomed \subseteq Destroyable /\ victim \in Destroyable \cup {NULL}
          /\ pc \in Pc /\ after \in {"wait", "request"}
          /\ p \in Cells \cup {NULL} /\ nx \in Cells \cup {NULL}
          /\ eintr \in BOOLEAN
          /\ pc \in {"write", "remove", "free", "peek", "match", "freerecord"} => p # NULL

\* Whatever interleaving of the interrupt with the two walks: the list is
\* acyclic, linked the same way in both directions, made of allocated records
\* only, and AuEventQueueTail is its last record (auevents.c:52-70, 141-146,
\* 244-247).  No event refers to a freed flow, and the records in the queue plus
\* the one in hand are all that is allocated: AuDequeueEvents leaks nothing.
QueueWellFormed ==
    LET q == Queue
    IN /\ TypeOK
       /\ IsInjective(q)
       /\ ToSet(q) \subseteq allocated
       /\ \A i \in DOMAIN q : prev[q[i]] = IF i = 1 THEN NULL ELSE q[i - 1]
       /\ tail = IF q = <<>> THEN NULL ELSE Last(q)
       /\ \A c \in ToSet(q) : log[event[c]] \notin gone
       /\ allocated = ToSet(q) \cup (IF pc \in {"free", "freerecord"} THEN {p} ELSE {})

\* The queue as its specification sees it: an event leaves it when written.
Waiting == LET q == [i \in DOMAIN Queue |-> event[Queue[i]]]
           IN IF pc = "remove" THEN Tail(q) ELSE q

Fifo == INSTANCE AudioEventFifo WITH waiting <- Waiting, purged <- gone

\* The linked list implements the queue: events are written once, in the order
\* of posting, and are dropped only while their own flow is destroyed.
ImplementsFifo == Fifo!Spec

\* Every event is written to its client unless its flow is destroyed first,
\* although WaitForSomething calls select() without looking at the queue.
EveryEventIsHandled ==
    \A s \in 1 .. MaxPosts :
        Len(log) >= s ~> (s \in ToSet(written) \/ (Len(log) >= s /\ log[s] \in gone))
=============================================================================

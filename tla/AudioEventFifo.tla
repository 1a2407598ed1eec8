--------------------------- MODULE AudioEventFifo ---------------------------
(* What the audio event queue of server/dia/auevents.c promises: an event    *)
(* that is posted for a flow waits in one queue, is written to its client in *)
(* the order of posting, and is dropped only with the flow it belongs to.    *)
EXTENDS Naturals, Sequences, SequencesExt

CONSTANT Flows

VARIABLES log,       \* log[s] is the flow that event number s was posted for
          waiting,   \* the numbers of the events not yet written, in order
          written,   \* the numbers of the events written to their clients
          purged     \* the flows whose events may no longer be posted

vars == <<log, waiting, written, purged>>

Init == /\ log = <<>>
        /\ waiting = <<>>
        /\ written = <<>>
        /\ purged = {}

Post(f) == /\ f \notin purged
           /\ log' = Append(log, f)
           /\ waiting' = Append(waiting, Len(log) + 1)
           /\ UNCHANGED <<written, purged>>

Write == /\ waiting # <<>>
         /\ written' = Append(written, Head(waiting))
         /\ waiting' = Tail(waiting)
         /\ UNCHANGED <<log, purged>>

\* The events of a flow that is being destroyed leave the queue one by one.
Drop(f) == /\ \E i \in DOMAIN waiting : /\ log[waiting[i]] = f
                                        /\ waiting' = RemoveAt(waiting, i)
           /\ UNCHANGED <<log, written, purged>>

Purge(f) == /\ \A i \in DOMAIN waiting : log[waiting[i]] # f
            /\ purged' = purged \cup {f}
            /\ UNCHANGED <<log, waiting, written>>

Next == \/ Write
        \/ \E f \in Flows : Post(f) \/ Drop(f) \/ Purge(f)

Spec == Init /\ [][Next]_vars
=============================================================================

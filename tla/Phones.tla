------------------------------- MODULE Phones -------------------------------
(* Telephones (clients/audio/auphone/auphone.c): each phone is a client of   *)
(* its own audio server and, while it calls or talks, of the server of the   *)
(* other phone.  The phones never talk to each other directly; they signal   *)
(* through objects that they leave on each other's server:                   *)
(*                                                                           *)
(*   - a BUSY bucket on a server says that its phone is engaged, and names   *)
(*     the server and the flow of the phone that created it (caller id);     *)
(*   - a callee answers by stopping the flow that rings on its own server,   *)
(*     and either party hangs up by stopping the flow of the other there:    *)
(*     the owner of the flow gets a Stop event from that server.             *)
(*                                                                           *)
(* Servers execute requests when they come to them, and notice late that a   *)
(* connection was closed; until then its flow and bucket stay.  A flow is    *)
(* named by the slot of its client's connection: it is the first id that     *)
(* the connection allocates, and ids follow from slots (ServerClients).      *)
(* The user of a phone may press an enabled button at any time.              *)
EXTENDS Integers, Sequences, SequencesExt, FiniteSetsExt

CONSTANTS Phones,    \* each stands for a phone and for the server it runs on
          Dials,     \* who may call whom: pairs of phones
          Careful,   \* users answer only while they hear their phone ring
          Slots,     \* bound on the connections of other phones to a server
          MaxCalls,  \* bound on how often each phone calls
          NoConn, NoRemote

VARIABLES conn,      \* conn[s][x]: a connection to server s and its flow there
          busy,      \* the slots with a BUSY bucket on a server, newest first
          stops,     \* the flows that a phone has asked its own server to stop
          remote,    \* r->aud and r->flow: the server and slot that p is connected to
          callback,  \* r->callback: what the next Stop event from there means
          volFlow,   \* l->volFlow: the flow to stop on hanging up, or 0
          mode,      \* which buttons are enabled, and why
          pc,        \* where a phone is in call(), answer(), remoteAnswered()
          caller,    \* what answer() found in the bucket: server and flow
          hangups,   \* how many doHangup work procedures are registered
          failed,    \* phones with an error of their server on its way
          exited,    \* phones that have called exit()
          calls      \* how many calls a phone may still make

serverVars == <<conn, busy, stops>>
phoneVars == <<remote, callback, volFlow, mode, pc, caller, hangups>>
vars == <<serverVars, phoneVars, failed, exited, calls>>

SlotNums == 1 .. Slots
Connections == [owner : Phones, closed : BOOLEAN,
                todo : {"none", "ring", "answer", "talk"},  \* requests on their way
                flow : {"absent", "stop", "ring", "talk"},  \* what plays
                events : Nat,                               \* Stop events for the owner
                answered : BOOLEAN]                         \* history: by the callee
Remotes == [server : Phones, slot : SlotNums]

ASSUME PhonesAssumption == /\ Dials \subseteq {d \in Phones \X Phones : d[1] # d[2]}
                           /\ Careful \in BOOLEAN
                           /\ Slots \in Nat /\ MaxCalls \in Nat
                           /\ NoConn \notin Connections /\ NoRemote \notin Remotes

Init ==
    /\ conn = [s \in Phones |-> [x \in SlotNums |-> NoConn]]
    /\ busy = [s \in Phones |-> <<>>] /\ stops = [p \in Phones |-> <<>>]
    /\ remote = [p \in Phones |-> NoRemote] /\ callback = [p \in Phones |-> "none"]
    /\ volFlow = [p \in Phones |-> 0] /\ mode = [p \in Phones |-> "idle"]
    /\ pc = [p \in Phones |-> "loop"] /\ caller = [p \in Phones |-> NoRemote]
    /\ hangups = [p \in Phones |-> 0]
    /\ failed = {} /\ exited = {}
    /\ calls = [p \in Phones |-> MaxCalls]

-----------------------------------------------------------------------------
FreeSlots(s) == {x \in SlotNums : conn[s][x] = NoConn}
NextSlot(s) == Min(FreeSlots(s))
NewConn(p, todo, flow) == [owner |-> p, closed |-> FALSE, todo |-> todo, flow |-> flow,
                           events |-> 0, answered |-> FALSE]

\* The connection of phone p to the server that it is connected to.
Mine(p) == conn[remote[p].server][remote[p].slot]
SetMine(p, c) == conn' = [conn EXCEPT ![remote[p].server][remote[p].slot] = c]

\* The phone is in its event loop and its user or the library may act.
InLoop(p) == p \notin exited /\ pc[p] = "loop"

\* A request that waits for its reply from the phone's own server: what was
\* sent before is executed first, and an error that is on its way is read.
RoundTrip(p) == p \notin exited \cup failed /\ stops[p] = <<>>

\* AuCloseServer, which synchronizes: the server has executed all requests.
CloseRemote(p) ==
    /\ Mine(p).todo = "none"
    /\ SetMine(p, [Mine(p) EXCEPT !.closed = TRUE, !.events = 0])
    /\ remote' = [remote EXCEPT ![p] = NoRemote]

-----------------------------------------------------------------------------
(* call(): a connection to the callee's server and a flow there.  If it has  *)
(* a BUSY bucket the connection is closed again and the busy signal plays.   *)
Call(p, q) ==
    /\ InLoop(p) /\ mode[p] = "idle" /\ calls[p] > 0
    /\ <<p, q>> \in Dials /\ FreeSlots(q) # {}
    /\ calls' = [calls EXCEPT ![p] = @ - 1]
    /\ LET x == NextSlot(q)
           c == NewConn(p, "none", "stop")
       IN  IF busy[q] = <<>>
             THEN /\ conn' = [conn EXCEPT ![q][x] = c]
                  /\ remote' = [remote EXCEPT ![p] = [server |-> q, slot |-> x]]
                  /\ pc' = [pc EXCEPT ![p] = "ring"]
                  /\ UNCHANGED mode
             ELSE /\ conn' = [conn EXCEPT ![q][x] = [c EXCEPT !.closed = TRUE]]
                  /\ mode' = [mode EXCEPT ![p] = "busy"]
                  /\ UNCHANGED <<remote, pc>>
    /\ UNCHANGED <<busy, stops, callback, volFlow, caller, hangups, failed, exited>>

(* ringRemote(), ringLocal(): without a RINGIN bucket there the callee is    *)
(* not available; with one, it rings and gets a BUSY bucket.                 *)
Ring(p) ==
    /\ p \notin exited /\ pc[p] = "ring"
    /\ volFlow' = [volFlow EXCEPT ![p] = 0]
    /\ pc' = [pc EXCEPT ![p] = "loop"]
    /\ IF remote[p].server \in exited
         THEN CloseRemote(p) /\ UNCHANGED <<callback, mode>>
         ELSE /\ SetMine(p, [Mine(p) EXCEPT !.todo = "ring"])
              /\ callback' = [callback EXCEPT ![p] = "answered"]
              /\ mode' = [mode EXCEPT ![p] = "ringing"]
              /\ UNCHANGED remote
    /\ UNCHANGED <<busy, stops, caller, hangups, failed, exited, calls>>

\* answer(): the newest BUSY bucket on the phone's own server is the caller's.
Answer(p) ==
    /\ Careful => \E x \in SlotNums : conn[p][x] # NoConn /\ conn[p][x].flow = "ring"
    /\ InLoop(p) /\ mode[p] = "idle" /\ RoundTrip(p)
    /\ volFlow' = [volFlow EXCEPT ![p] = 0]
    /\ IF busy[p] = <<>> THEN UNCHANGED <<caller, pc>>
       ELSE /\ LET x == Head(busy[p])
               IN  caller' = [caller EXCEPT ![p] = [server |-> conn[p][x].owner, slot |-> x]]
            /\ pc' = [pc EXCEPT ![p] = "connect"]
    /\ UNCHANGED <<serverVars, remote, callback, mode, hangups, failed, exited, calls>>

\* History: q's call to p is answered, if its connection is still there.
Answered(q, p, x) ==
    IF conn[p][x] # NoConn /\ conn[p][x].owner = q
      THEN [conn EXCEPT ![p][x].answered = TRUE] ELSE conn

\* Mutant: answer() leaves no BUSY bucket on the caller's server.
ConnectSilently(p) ==
    /\ p \notin exited /\ pc[p] = "connect"
    /\ LET q == caller[p].server
           x == NextSlot(q)
       IN  /\ FreeSlots(q) # {}
           /\ conn' = [Answered(q, p, caller[p].slot) EXCEPT ![q][x] = NewConn(p, "talk", "absent")]
           /\ remote' = [remote EXCEPT ![p] = [server |-> q, slot |-> x]]
    /\ callback' = [callback EXCEPT ![p] = "hangup"]
    /\ volFlow' = [volFlow EXCEPT ![p] = caller[p].slot]
    /\ stops' = [stops EXCEPT ![p] = Append(@, caller[p].slot)]
    /\ mode' = [mode EXCEPT ![p] = "talk"]
    /\ pc' = [pc EXCEPT ![p] = "loop"]
    /\ caller' = [caller EXCEPT ![p] = NoRemote]
    /\ UNCHANGED <<busy, hangups, failed, exited, calls>>

(* answer() goes on: a connection to the server named in the bucket, with a  *)
(* flow and a BUSY bucket there; then the ringing is to stop here.           *)
Connect(p) ==
    /\ p \notin exited /\ pc[p] = "connect"
    /\ LET q == caller[p].server
           x == NextSlot(q)
       IN  /\ FreeSlots(q) # {}
           /\ conn' = [Answered(q, p, caller[p].slot) EXCEPT ![q][x] = NewConn(p, "answer", "absent")]
           /\ remote' = [remote EXCEPT ![p] = [server |-> q, slot |-> x]]
    /\ callback' = [callback EXCEPT ![p] = "hangup"]
    /\ volFlow' = [volFlow EXCEPT ![p] = caller[p].slot]
    /\ stops' = [stops EXCEPT ![p] = Append(@, caller[p].slot)]
    /\ mode' = [mode EXCEPT ![p] = "talk"]
    /\ pc' = [pc EXCEPT ![p] = "loop"]
    /\ caller' = [caller EXCEPT ![p] = NoRemote]
    /\ UNCHANGED <<busy, hangups, failed, exited, calls>>

(* EventHandler() gets a Stop event from the other server: remoteAnswered()  *)
(* or remoteHangup(), which leaves the work to a work procedure.             *)
HandleStop(p) ==
    /\ InLoop(p) /\ remote[p] # NoRemote /\ Mine(p).events > 0
    /\ SetMine(p, [Mine(p) EXCEPT !.events = @ - 1])
    /\ callback' = [callback EXCEPT ![p] = "hangup"]
    /\ IF callback[p] = "answered"
         THEN pc' = [pc EXCEPT ![p] = "wait"] /\ UNCHANGED <<volFlow, hangups>>
         ELSE /\ volFlow' = [volFlow EXCEPT ![p] = 0]
              /\ hangups' = [hangups EXCEPT ![p] = @ + 1]
              /\ UNCHANGED pc
    /\ UNCHANGED <<busy, stops, remote, mode, caller, failed, exited, calls>>

(* remoteAnswered() lists the buckets of its server until there is a BUSY    *)
(* one, takes its flow for the callee's, and makes the phone of its own.     *)
CallerFound(p) ==
    /\ pc[p] = "wait" /\ RoundTrip(p)
    /\ busy[p] # <<>>
    /\ volFlow' = [volFlow EXCEPT ![p] = Head(busy[p])]
    /\ SetMine(p, [Mine(p) EXCEPT !.todo = "talk"])
    /\ mode' = [mode EXCEPT ![p] = "talk"]
    /\ pc' = [pc EXCEPT ![p] = "loop"]
    /\ UNCHANGED <<busy, stops, remote, callback, caller, hangups, failed, exited, calls>>

\* Mutant: the other party is not told.
HangUpSilently(p) ==
    /\ IF remote[p] # NoRemote THEN CloseRemote(p) ELSE UNCHANGED <<conn, remote>>
    /\ mode' = [mode EXCEPT ![p] = "idle"]
    /\ UNCHANGED <<busy, stops, callback, volFlow, pc, caller, calls>>

(* doHangup(): the connection is closed and, if there is another party, its  *)
(* flow on this phone's server is to stop.  volFlow keeps its value.         *)
DoHangup(p) ==
    /\ IF remote[p] # NoRemote THEN CloseRemote(p) ELSE UNCHANGED <<conn, remote>>
    /\ stops' = IF volFlow[p] = 0 THEN stops
                ELSE [stops EXCEPT ![p] = Append(@, volFlow[p])]
    /\ mode' = [mode EXCEPT ![p] = "idle"]
    /\ UNCHANGED <<busy, callback, volFlow, pc, caller, calls>>

\* The Hangup button.
Hangup(p) ==
    /\ InLoop(p) /\ mode[p] # "idle"
    /\ DoHangup(p)
    /\ UNCHANGED <<hangups, failed, exited>>

\* The work procedure that remoteHangup() registered, when nothing else is due.
HangupWorkProc(p) ==
    /\ InLoop(p) /\ hangups[p] > 0
    /\ hangups' = [hangups EXCEPT ![p] = @ - 1]
    /\ DoHangup(p)
    /\ UNCHANGED <<failed, exited>>

\* quit() hangs up first, if connected.
Quit(p) ==
    /\ InLoop(p)
    /\ IF remote[p] # NoRemote THEN DoHangup(p)
       ELSE UNCHANGED <<serverVars, remote, callback, volFlow, mode, pc, caller, calls>>
    /\ exited' = exited \cup {p}
    /\ UNCHANGED <<hangups, failed>>

\* _AuDefaultError: the error of a request without a status ends the program.
ExitOnError(p) ==
    /\ p \in failed \ exited
    /\ exited' = exited \cup {p}
    /\ IF remote[p] = NoRemote THEN UNCHANGED conn
       ELSE SetMine(p, [Mine(p) EXCEPT !.closed = TRUE, !.events = 0])
    /\ UNCHANGED <<busy, stops, phoneVars, failed, calls>>

-----------------------------------------------------------------------------
(* A server executes the requests that a connection has sent: a flow starts  *)
(* ringing, with a BUSY bucket, or carries the voice; who answers leaves a   *)
(* bucket too.                                                               *)
Execute(s, x) ==
    /\ conn[s][x] # NoConn /\ conn[s][x].todo # "none"
    /\ LET c == conn[s][x]
       IN  /\ conn' = [conn EXCEPT ![s][x] =
                         [c EXCEPT !.todo = "none",
                                   !.flow = IF c.todo = "ring" THEN "ring" ELSE "talk"]]
           /\ busy' = IF c.todo \in {"ring", "answer"}
                        THEN [busy EXCEPT ![s] = <<x>> \o @] ELSE busy
    /\ UNCHANGED <<stops, phoneVars, failed, exited, calls>>

(* AuStopFlow from the server's own phone.  The owner of a flow that stops   *)
(* is notified; a flow that is not there is an error.                        *)
StopFlow(s) ==
    /\ stops[s] # <<>>
    /\ stops' = [stops EXCEPT ![s] = Tail(@)]
    /\ LET x == Head(stops[s])
           c == conn[s][x]
       IN  IF c = NoConn \/ c.flow = "absent"
             THEN failed' = failed \cup {s} /\ UNCHANGED conn
             ELSE /\ conn' = [conn EXCEPT ![s][x] =
                                [c EXCEPT !.flow = "stop",
                                          !.events = IF c.flow = "stop" \/ c.closed THEN @
                                                     ELSE @ + 1]]
                  /\ UNCHANGED failed
    /\ UNCHANGED <<busy, phoneVars, exited, calls>>

\* Mutant: all buckets of the client go, those of its next connection too.
ReapAllBuckets(s, x) ==
    /\ conn[s][x] # NoConn /\ conn[s][x].closed
    /\ conn' = [conn EXCEPT ![s][x] = NoConn]
    /\ busy' = [busy EXCEPT ![s] = SelectSeq(@, LAMBDA y : conn[s][y].owner # conn[s][x].owner)]
    /\ UNCHANGED <<stops, phoneVars, failed, exited, calls>>

\* A closed connection is noticed: its flow, its bucket and its slot are freed.
Reap(s, x) ==
    /\ conn[s][x] # NoConn /\ conn[s][x].closed
    /\ conn' = [conn EXCEPT ![s][x] = NoConn]
    /\ busy' = [busy EXCEPT ![s] = RemoveFirst(@, x)]
    /\ UNCHANGED <<stops, phoneVars, failed, exited, calls>>

User(p) == \/ \E q \in Phones : Call(p, q)
           \/ Answer(p) \/ Hangup(p) \/ Quit(p)

Phone(p) == \/ Ring(p) \/ Connect(p) \/ HandleStop(p) \/ CallerFound(p)
            \/ HangupWorkProc(p) \/ ExitOnError(p)

Server(s) == StopFlow(s) \/ \E x \in SlotNums : Execute(s, x) \/ Reap(s, x)

Next == \E p \in Phones : User(p) \/ Phone(p) \/ Server(p)

\* Servers and phones go on; the users need not do anything.
Spec == /\ Init /\ [][Next]_vars
        /\ \A p \in Phones : WF_vars(Phone(p)) /\ WF_vars(Server(p))

-----------------------------------------------------------------------------
TypeOK ==
    /\ \A s \in Phones : \A x \in SlotNums :
         conn[s][x] = NoConn \/ (conn[s][x] \in Connections /\ conn[s][x].events <= 1)
    /\ \A s \in Phones : ToSet(busy[s]) \subseteq {x \in SlotNums : conn[s][x] # NoConn}
    /\ \A p \in Phones : ToSet(stops[p]) \subseteq SlotNums
    /\ \A p \in Phones : remote[p] # NoRemote => p \in exited \/ Mine(p).owner = p
    /\ callback \in [Phones -> {"none", "answered", "hangup"}]
    /\ volFlow \in [Phones -> 0 .. Slots] /\ hangups \in [Phones -> Nat]
    /\ mode \in [Phones -> {"idle", "busy", "ringing", "talk"}]
    /\ pc \in [Phones -> {"loop", "ring", "connect", "wait"}]
    /\ calls \in [Phones -> 0 .. MaxCalls]

\* p talks to q: its voice plays on q's server.
Talks(p, q) == /\ p \notin exited /\ mode[p] = "talk"
               /\ remote[p] # NoRemote /\ remote[p].server = q /\ Mine(p).flow = "talk"

InConversation(p, q) == Talks(p, q) /\ Talks(q, p)

(* While two phones talk to each other there is a BUSY bucket of each on the *)
(* server of the other: whoever calls one of them gets the busy signal, and  *)
(* both know whom to disconnect (call, auphone.c:712-716).                   *)
BusyWhileTalking ==
    /\ TypeOK
    /\ \A p, q \in Phones : InConversation(p, q) => remote[p].slot \in ToSet(busy[q])

\* p waits for the bucket of its callee, which has answered and is still there.
AwaitsAnswerer(p) ==
    /\ pc[p] = "wait" /\ p \notin exited \cup failed
    /\ LET q == remote[p].server
       IN  mode[q] = "talk" /\ remote[q] # NoRemote /\ remote[q].server = p

(* remoteAnswered() does not wait in vain (auphone.c:489): once its callee   *)
(* has answered and stays, the caller gets out of the loop.                  *)
AnswerCompletes == \A p \in Phones : []<>~AwaitsAnswerer(p)

(* A conversation in which each side knows the flow of the other, and no     *)
(* signal or error of an earlier call is left.                               *)
Settled(p, q) ==
    /\ InConversation(p, q) /\ volFlow[p] = remote[q].slot
    /\ stops[p] = <<>> /\ Mine(p).events = 0 /\ hangups[p] = 0 /\ p \notin failed

(* "To disconnect, click on the Hangup button" (auphone.man:37): when one of *)
(* two phones in a settled conversation hangs up or quits, the other one     *)
(* disconnects too.                                                          *)
HangupReachesOther ==
    \A p, q \in Phones :
      [](Settled(p, q) /\ Settled(q, p) => \/ []InConversation(p, q)
                                          \/ (<>~Talks(q, p) /\ <>~Talks(p, q)))

(* A phone that takes its call for answered was answered.                    *)
AnsweredByCallee ==
    \A p \in Phones : pc[p] = "wait" /\ p \notin exited => Mine(p).answered
=============================================================================

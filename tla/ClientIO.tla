------------------------------- MODULE ClientIO -------------------------------
(* Requests and replies between the sockets and Dispatch: the input and      *)
(* output buffers of the connections (server/os/io.c), WaitForSomething      *)
(* (server/os/WaitFor.c), the rounds of Dispatch (server/dia/dispatch.c) and *)
(* the end of a connection (server/os/connection.c).                         *)
(*                                                                           *)
(* Data is counted in units of 4 bytes, the size of a request's header and   *)
(* what every reply is padded to.  A unit is <<c, n>>, the n-th that client  *)
(* c sends; <<c, 0>> is the header that the server puts in front of it.      *)
EXTENDS Naturals, FiniteSets, SequencesExt, FiniteSetsExt

CONSTANTS Clients,
          Prefix,     \* sz_auConnClientPrefix
          Auth,       \* Auth[c]: the size of the authorization that c sends
          Requests,   \* Requests[c]: what c sends, each with its length and
                      \* with the pieces of the reply it gets
          SetupReply, \* the pieces of the reply to a connection
          InSize,     \* BUFSIZE for input
          InMark,     \* BUFWATERMARK for input
          OutSize,    \* BUFSIZE for output
          Room,       \* what a socket takes that its client does not read
          MaxTimes,   \* MAX_TIMES_PER
          NoClient

ASSUME IOAssumption ==
    /\ {Prefix, InSize, OutSize, Room, MaxTimes} \subseteq Nat \ {0}
    /\ InMark \in Nat /\ InMark >= InSize
    /\ Auth \in [Clients -> Nat]
    /\ Requests \in [Clients -> Seq([len : Nat \ {0}, reply : Seq(Nat)])]
    /\ SetupReply \in Seq(Nat)
    /\ NoClient \notin Clients

-----------------------------------------------------------------------------
(* What a client sends, and how the server finds the requests in it.         *)

\* The length of request i of client c; request 0 is the connection setup.
Length(c, i) == IF i = 0 THEN 1 + Prefix + Auth[c] ELSE Requests[c][i].len

RequestNumbers(c) == 0 .. Len(Requests[c])

\* Where it begins.
Start(c, i) ==
    LET start[k \in 0 .. Len(Requests[c]) + 1] ==
          IF k = 0 THEN 0 ELSE start[k - 1] + Length(c, k - 1)
    IN  start[i]

Total(c) == Start(c, Len(Requests[c]) + 1) - 1
Units(c, from, to) == [k \in 1 .. to - from + 1 |-> <<c, from + k - 1>>]
RequestUnits(c, i) == Units(c, Start(c, i), Start(c, i + 1) - 1)

\* The request that a unit is the header of, if it is one.
HeaderOf(u) == {i \in RequestNumbers(u[1]) : Start(u[1], i) = u[2]}

\* The pieces of the reply to request i; unit k of piece j is <<c, i, j, k>>.
Pieces(c, i) ==
    LET sizes == IF i = 0 THEN SetupReply ELSE Requests[c][i].reply
    IN  [j \in DOMAIN sizes |-> [k \in 1 .. sizes[j] |-> <<c, i, j, k>>]]
Reply(c, i) == FlattenSeq(Pieces(c, i))

-----------------------------------------------------------------------------
VARIABLES phase,       \* the connection of each client
          sent,        \* what each client has sent
          arrived,     \* what the server has read of it
          hungUp,      \* clients that have closed their end
          input,       \* oc->input: units before bufptr, those from bufptr on,
                       \* lenLastReq and the buffer's size
          freeInputs,  \* FreeInputs
          available,   \* AvailableInput
          withInput,   \* ClientsWithInput
          times,       \* timesThisConnection
          output,      \* oc->output: its data, and its size; 0 without buffer
          socket,      \* what was written and the client has not read
          pending,     \* OutputPending
          newPending,  \* NewOutputPending
          blocked,     \* ClientsWriteBlocked
          broken,      \* connections closed because a write failed
          pc, work,    \* the connections that the queued work proc will accept
          ready, current, yield,
          handled,     \* handled[c]: the requests that were served (history)
          received     \* received[c]: what c has read (history)

inVars == <<arrived, input, freeInputs, available, withInput, times>>
outVars == <<output, socket, pending, newPending, blocked, broken>>
roundVars == <<pc, work, ready, current, yield>>
clientVars == <<sent, hungUp, received>>
vars == <<phase, inVars, outVars, roundVars, clientVars, handled>>

NoBuffer == [before |-> 0, rest |-> <<>>, last |-> 0, size |-> 0]
NewBuffer == [NoBuffer EXCEPT !.size = InSize]
NoOutput == [data |-> <<>>, size |-> 0]

Init == /\ phase = [c \in Clients |-> "none"]
        /\ sent = [c \in Clients |-> 0] /\ arrived = [c \in Clients |-> 0]
        /\ hungUp = {}
        /\ input = [c \in Clients |-> NoBuffer]
        /\ freeInputs = <<>> /\ available = NoClient
        /\ withInput = {} /\ times = 0
        /\ output = [c \in Clients |-> NoOutput]
        /\ socket = [c \in Clients |-> <<>>]
        /\ pending = {} /\ newPending = FALSE
        /\ blocked = {} /\ broken = {}
        /\ pc = "wait" /\ work = {} /\ ready = {} /\ current = NoClient /\ yield = FALSE
        /\ handled = [c \in Clients |-> <<>>]
        /\ received = [c \in Clients |-> <<>>]

Open(c) == phase[c] \notin {"none", "closed"}

\* get_req_len: the header put in front of a connection first covers the
\* prefix only, see ProcInitialConnection.
RequestLength(u) ==
    IF u[2] = 0 /\ phase[u[1]] \in {"none", "initial"} THEN 1 + Prefix
    ELSE IF HeaderOf(u) = {} THEN 0
    ELSE LET i == CHOOSE i \in HeaderOf(u) : TRUE IN Start(u[1], i + 1) - Start(u[1], i)

-----------------------------------------------------------------------------
(* Clients: sending, reading replies, closing.                               *)

ClientSends(c) ==
    /\ c \notin hungUp
    /\ sent[c] < Total(c)
    /\ sent' = [sent EXCEPT ![c] = @ + 1]
    /\ UNCHANGED <<phase, inVars, outVars, roundVars, hungUp, received, handled>>

ClientReads(c) ==
    /\ c \notin hungUp /\ socket[c] # <<>>
    /\ received' = [received EXCEPT ![c] = @ \o socket[c]]
    /\ socket' = [socket EXCEPT ![c] = <<>>]
    /\ UNCHANGED <<phase, inVars, output, pending, newPending, blocked, broken,
                   roundVars, sent, hungUp, handled>>

ClientHangsUp(c) ==
    /\ Open(c) /\ c \notin hungUp
    /\ hungUp' = hungUp \cup {c}
    /\ UNCHANGED <<phase, inVars, outVars, roundVars, sent, received, handled>>

-----------------------------------------------------------------------------
(* Output.  The state of one connection's output: FlushClient and            *)
(* WriteToClient are functions of it.                                        *)

OutputOf(c) == [client |-> c, data |-> output[c].data, size |-> output[c].size,
                socket |-> socket[c], pending |-> c \in pending, new |-> newPending,
                blocked |-> c \in blocked, broken |-> c \in broken]
Outputs == [c \in Clients |-> OutputOf(c)]

Drop(s, n) == SubSeq(s, n + 1, Len(s))

\* Mutant: what the socket has taken of a write is buffered as well.
FlushClientAgain(o, extra) ==
    LET all == o.data \o extra
        n == Min({Len(all), Room - Len(o.socket)})
    IN  IF o.size = 0 THEN o
        ELSE IF all # <<>> /\ (o.broken \/ o.client \in hungUp)
        THEN [o EXCEPT !.data = <<>>, !.broken = TRUE]
        ELSE IF n = Len(all)
        THEN [o EXCEPT !.data = <<>>, !.size = 0, !.socket = @ \o all, !.blocked = FALSE]
        ELSE [o EXCEPT !.data = all, !.socket = @ \o SubSeq(all, 1, n),
                       !.blocked = TRUE, !.size = Max({@, Len(all) + OutSize})]

(* FlushClient: as much as the socket takes; the rest stays buffered, in a   *)
(* larger buffer if need be, and select() is to wait for the socket.         *)
FlushClient(o, extra) ==
    LET all == o.data \o extra
        n == Min({Len(all), Room - Len(o.socket)})
        left == Len(all) - n
    IN  IF o.size = 0 THEN o
        ELSE IF all # <<>> /\ (o.broken \/ o.client \in hungUp)
        THEN [o EXCEPT !.data = <<>>, !.broken = TRUE]
        ELSE IF left = 0
        THEN [o EXCEPT !.data = <<>>, !.size = 0, !.socket = @ \o all, !.blocked = FALSE]
        ELSE [o EXCEPT !.data = Drop(all, n), !.socket = @ \o SubSeq(all, 1, n),
                       !.blocked = TRUE, !.size = IF left > @ THEN left + OutSize ELSE @]

(* Into the buffer; what does not fit is flushed together with it.           *)
WriteToClient(o, piece) ==
    LET b == IF o.size = 0 THEN [o EXCEPT !.size = OutSize] ELSE o
    IN  IF piece = <<>> THEN o
        ELSE IF Len(b.data) + Len(piece) > b.size
        THEN FlushClient([b EXCEPT !.pending = FALSE, !.new = FALSE], piece)
        ELSE [b EXCEPT !.pending = TRUE, !.new = TRUE, !.data = @ \o piece]

\* Member or not.
Put(S, c, b) == IF b THEN S \cup {c} ELSE S \ {c}

\* The whole reply, piece by piece; the buffer may overflow at any of them.
WriteReply(c, pieces) ==
    LET written[j \in 0 .. Len(pieces)] ==
          IF j = 0 THEN OutputOf(c) ELSE WriteToClient(written[j - 1], pieces[j])
    IN  written[Len(pieces)]

\* Mutant: clients whose input is not used up are dropped from OutputPending.
StillPendingNone == {}

\* FlushAllOutput leaves out those that still have requests in their buffer.
StillPending == pending \cap withInput

FlushAllOutput ==
    LET flushed == {c \in pending \ withInput : Open(c)}
        after(c) == IF c \in flushed THEN FlushClient(OutputOf(c), <<>>) ELSE OutputOf(c)
    IN  IF ~newPending THEN UNCHANGED outVars
        ELSE /\ output' = [c \in Clients |-> [data |-> after(c).data, size |-> after(c).size]]
             /\ socket' = [c \in Clients |-> after(c).socket]
             /\ blocked' = {c \in Clients : after(c).blocked}
             /\ broken' = {c \in Clients : after(c).broken}
             /\ pending' = StillPending
             /\ newPending' = (StillPending # {})
-----------------------------------------------------------------------------
(* Input: a buffer in which all requests are served is AvailableInput; it    *)
(* goes to whoever needs one next.                                           *)

\* AvailableInput becomes a free buffer, unless it is c's own or too large.
Released(c) == IF available \in {NoClient, c} \/ input[available].size > InMark THEN freeInputs
               ELSE <<input[available]>> \o freeInputs

\* bufptr += lenLastReq
Advanced(b) == [b EXCEPT !.before = @ + b.last, !.rest = Drop(@, b.last), !.last = 0]

\* The buffer that c goes on with, and the free ones that are left.
BufferFor(c) == Advanced(IF input[c].size > 0 THEN input[c]
                         ELSE IF Released(c) # <<>> THEN Head(Released(c)) ELSE NewBuffer)

StillFree(c) == IF input[c].size = 0 /\ Released(c) # <<>> THEN Tail(Released(c))
                ELSE Released(c)

\* The buffers when c has got b.
Taken(c, b) == [d \in Clients |-> IF d = c THEN b
                                  ELSE IF d = available THEN NoBuffer ELSE input[d]]

TakeBuffer(c, b) == input' = Taken(c, b) /\ freeInputs' = StillFree(c)

\* Room at bufptr for a request of this length.
MakeRoom(b, needed) ==
    IF b.rest = <<>> \/ b.before + needed > b.size
    THEN [b EXCEPT !.before = 0, !.size = Max({@, needed})]
    ELSE b

\* What read() adds, and the return to a small buffer after a large request.
Filled(c, b, needed) ==
    LET n == Min({b.size - b.before - Len(b.rest), sent[c] - arrived[c]})
        f == [b EXCEPT !.rest = @ \o Units(c, arrived[c] + 1, arrived[c] + n)]
    IN  IF f.size > InMark /\ f.before + Len(f.rest) < InSize /\ needed < InSize
        THEN [f EXCEPT !.size = InSize] ELSE f

\* The length of the request at bufptr, or of a header if there is none yet.
Needed(b) == IF b.rest = <<>> THEN 1 ELSE RequestLength(b.rest[1])

WholeRequest(s) == s # <<>> /\ Len(s) >= RequestLength(s[1])

\* YieldControl, YieldControlNoInput.
YieldControl == yield' = TRUE /\ times' = 0
YieldControlNoInput(c) == YieldControl /\ withInput' = withInput \ {c}

-----------------------------------------------------------------------------
(* The end of connections: CloseDownConnection for the clients of C, given   *)
(* the buffers of all.  Buffered output is flushed first; the input buffer   *)
(* is kept if no other one is free.                                          *)
CloseDown(C, in, free, out) ==
    LET last(c) == IF c \in C /\ out[c].data # <<>> THEN FlushClient(out[c], <<>>) ELSE out[c]
        owners == {c \in C : in[c].size > 0}
    IN  /\ phase' = [c \in Clients |-> IF c \in C THEN "closed" ELSE phase[c]]
        /\ input' = [c \in Clients |-> IF c \in C THEN NoBuffer ELSE in[c]]
        /\ IF free # <<>> \/ owners = {} THEN freeInputs' = free
           ELSE \E c \in owners : freeInputs' = <<[NoBuffer EXCEPT !.size = in[c].size]>>
        /\ withInput' = withInput \ C
        /\ output' = [c \in Clients |-> IF c \in C THEN NoOutput
                                        ELSE [data |-> last(c).data, size |-> last(c).size]]
        /\ socket' = [c \in Clients |-> last(c).socket]
        /\ pending' = {c \in Clients \ C : last(c).pending}
        /\ blocked' = {c \in Clients \ C : last(c).blocked}
        /\ broken' = broken \ C

-----------------------------------------------------------------------------
(* ReadRequestFromClient, and what Dispatch does with its result.            *)

\* Mutant: part of a request counts as a whole one.
AnyBehind(c, behind) == Put(withInput, c, behind # <<>>)

\* ClientsWithInput after a request of c, with this behind it in the buffer.
WholeBehind(c, behind) == Put(withInput, c, WholeRequest(behind))

\* A request is there: is there another whole one behind it?
ReturnRequest(c, b) ==
    LET needed == Max({1, Needed(b)})     \* an empty request counts as a header
        behind == Drop(b.rest, needed)
        t == 1 + IF WholeRequest(behind) THEN times ELSE 0
    IN  /\ TakeBuffer(c, [b EXCEPT !.last = needed])
        /\ available' = IF behind = <<>> THEN c ELSE NoClient
        /\ withInput' = WholeBehind(c, behind)
        /\ times' = IF t >= MaxTimes THEN 0 ELSE t
        /\ yield' = (yield \/ ~WholeRequest(behind) \/ t >= MaxTimes)
        /\ pc' = "handle"

\* Not a whole one: the round goes on with the next client.
NotAllHere(c, b) ==
    /\ TakeBuffer(c, b)
    /\ available' = NoClient
    /\ YieldControlNoInput(c)
    /\ pc' = "flush"

(* Either a whole request is buffered, or select() has reported the socket   *)
(* and read() gets something or the end of the connection.                   *)
ReadRequest ==
    LET c == current
        b == BufferFor(c)
        room == MakeRoom(b, Needed(b))
        full == Filled(c, room, Needed(b))
        n == Len(full.rest) - Len(b.rest)
    IN  /\ pc = "read"
        /\ \/ /\ Len(b.rest) >= Needed(b)
              /\ ReturnRequest(c, b)
              /\ UNCHANGED <<phase, arrived, outVars>>
           \/ /\ Len(b.rest) < Needed(b) /\ c \notin broken /\ n > 0
              /\ arrived' = [arrived EXCEPT ![c] = @ + n]
              /\ IF WholeRequest(full.rest) THEN ReturnRequest(c, full) ELSE NotAllHere(c, full)
              /\ UNCHANGED <<phase, outVars>>
           \/ /\ Len(b.rest) < Needed(b) /\ (c \in broken \/ (n = 0 /\ c \in hungUp))
              /\ CloseDown({c}, Taken(c, room), StillFree(c), Outputs)
              /\ available' = NoClient
              /\ times' = 0
              /\ pc' = "flush"
              /\ UNCHANGED <<arrived, newPending, yield>>
        /\ UNCHANGED <<work, ready, current, clientVars, handled>>

-----------------------------------------------------------------------------
(* Serving the request that was read.                                        *)

Request(c) == SubSeq(input[c].rest, 1, input[c].last)

\* Mutant: the buffer with the request to be read again stays available.
StillAvailable(c) == available

\* A buffer whose request is to be read again is not available.
NotAvailable(c) == IF available = c THEN NoClient ELSE available

(* ProcInitialConnection makes the request longer by the authorization, and  *)
(* ResetCurrentRequest has it read again.                                    *)
InitialConnection ==
    LET c == current
    IN  /\ pc = "handle" /\ phase[c] = "initial"
        /\ phase' = [phase EXCEPT ![c] = "establish"]
        /\ available' = NotAvailable(c)
        /\ input' = [input EXCEPT ![c].last = 0]
        /\ YieldControl
        /\ withInput' = Put(withInput, c, Len(input[c].rest) >= 1 + Prefix + Auth[c])
        /\ pc' = "flush"
        /\ UNCHANGED <<arrived, freeInputs, outVars, work, ready, current, clientVars, handled>>

(* Any other request, ProcEstablishConnection included: its reply is written *)
(* piece by piece.  After a failed write the connection is closed.           *)
HandleRequest ==
    LET c == current
        pieces == UNION {{Pieces(c, i)} : i \in HeaderOf(Request(c)[1])}
        o == IF pieces = {} THEN OutputOf(c) ELSE WriteReply(c, CHOOSE p \in pieces : TRUE)
    IN  /\ pc = "handle" /\ phase[c] # "initial"
        /\ handled' = [handled EXCEPT ![c] = Append(@, Request(c))]
        /\ newPending' = o.new
        /\ IF o.broken /\ pieces # {<<>>}
           THEN /\ CloseDown({c}, input, freeInputs, [Outputs EXCEPT ![c] = o])
                /\ available' = NotAvailable(c)
                /\ pc' = "flush"
           ELSE /\ phase' = [phase EXCEPT ![c] = "open"]
                /\ output' = [output EXCEPT ![c] = [data |-> o.data, size |-> o.size]]
                /\ socket' = [socket EXCEPT ![c] = o.socket]
                /\ pending' = Put(pending, c, o.pending)
                /\ blocked' = Put(blocked, c, o.blocked)
                /\ broken' = Put(broken, c, o.broken)
                /\ pc' = IF yield THEN "flush" ELSE "read"
                /\ UNCHANGED <<input, freeInputs, available, withInput>>
        /\ UNCHANGED <<arrived, times, work, ready, current, yield, clientVars>>

-----------------------------------------------------------------------------
(* WaitForSomething and the rounds of Dispatch.                              *)

\* A full request is left in a buffer: no select().
ServeBuffered ==
    /\ pc = "wait" /\ work = {} /\ withInput # {}
    /\ ready' = withInput
    /\ pc' = "round"
    /\ UNCHANGED <<phase, inVars, outVars, work, current, yield, clientVars, handled>>

\* Everything is written before the server sleeps.
FlushAndSelect ==
    /\ pc = "wait" /\ work = {} /\ withInput = {}
    /\ FlushAllOutput
    /\ pc' = "select"
    /\ UNCHANGED <<phase, inVars, work, ready, current, yield, clientVars, handled>>

Readable == {c \in Clients : Open(c) /\ (sent[c] > arrived[c] \/ c \in hungUp)}
Writable == {c \in blocked : Len(socket[c]) < Room \/ c \in hungUp}

\* Connections that wait for accept().
Waiting == {c \in Clients : phase[c] = "none"}

Select ==
    /\ pc = "select" /\ broken = {}
    /\ \E new \in SUBSET Waiting :
          /\ Readable \cup Writable \cup new # {}
          /\ work' = new
    /\ ready' = Readable
    /\ newPending' = (newPending \/ Writable # {})
    /\ pending' = pending \cup Writable
    /\ blocked' = blocked \ Writable
    /\ pc' = IF Readable = {} THEN "wait" ELSE "round"
    /\ UNCHANGED <<phase, inVars, output, socket, broken, current, yield, clientVars, handled>>

\* EBADF: CheckConnections closes the clients whose socket is closed.
CheckConnections ==
    /\ pc = "select" /\ broken # {}
    /\ CloseDown(broken, input, freeInputs, Outputs)
    /\ available' = IF available \in broken THEN NoClient ELSE available
    /\ pc' = "wait"
    /\ UNCHANGED <<arrived, times, newPending, work, ready, current, yield, clientVars, handled>>

(* EstablishNewConnections, which select() has queued: the new client's      *)
(* buffer gets the header of a request (InsertFakeRequest).                  *)
Accept(c) ==
    LET b == BufferFor(c)
        header == [b EXCEPT !.before = Max({0, @ - 1}), !.rest = <<<<c, 0>>>> \o @,
                            !.size = Max({@, Len(b.rest) + 1})]
    IN  /\ pc = "wait" /\ c \in work
        /\ work' = work \ {c}
        /\ phase' = [phase EXCEPT ![c] = "initial"]
        /\ TakeBuffer(c, header)
        /\ available' = NoClient
        /\ YieldControlNoInput(c)      \* a header alone is no whole request
        /\ UNCHANGED <<arrived, outVars, pc, ready, current, clientVars, handled>>

NextClient ==
    /\ pc = "round"
    /\ IF ready = {} THEN pc' = "wait" /\ UNCHANGED <<ready, current, yield>>
       ELSE \E c \in ready : /\ ready' = ready \ {c} /\ current' = c
                             /\ yield' = FALSE
                             /\ pc' = "read"
    /\ UNCHANGED <<phase, inVars, outVars, work, clientVars, handled>>

FlushRound ==
    /\ pc = "flush"
    /\ FlushAllOutput
    /\ pc' = "round"
    /\ UNCHANGED <<phase, inVars, work, ready, current, yield, clientVars, handled>>

Server == \/ ServeBuffered \/ FlushAndSelect \/ Select \/ CheckConnections
          \/ \E c \in Clients : Accept(c)
          \/ NextClient \/ ReadRequest \/ InitialConnection \/ HandleRequest \/ FlushRound

Next == \/ Server
        \/ \E c \in Clients : ClientSends(c) \/ ClientReads(c) \/ ClientHangsUp(c)

\* ENABLED Server: it only ever sleeps in select().
ServerCanStep == \/ pc # "select" \/ broken # {}
                 \/ Readable \cup Writable \cup Waiting # {}

(* The server's loop runs, and clients read their replies.  The first        *)
(* conjunct is WF_vars(Server).                                              *)
Spec == /\ Init /\ [][Next]_vars
        /\ []<>~ServerCanStep \/ []<><<Server>>_vars
        /\ \A c \in Clients : WF_vars(ClientReads(c))

-----------------------------------------------------------------------------
\* Types; a buffer never holds more than its size.
TypeOK ==
    /\ phase \in [Clients -> {"none", "initial", "establish", "open", "closed"}]
    /\ \A c \in Clients : /\ arrived[c] <= sent[c] /\ sent[c] <= Total(c)
                          /\ input[c].before + Len(input[c].rest) <= input[c].size
                          /\ input[c].last <= Len(input[c].rest)
                          /\ Len(output[c].data) <= output[c].size
                          /\ Len(socket[c]) <= Room
    /\ {hungUp, withInput, pending, blocked, broken, work, ready} \subseteq SUBSET Clients
    /\ available \in Clients \cup {NoClient} /\ current \in Clients \cup {NoClient}
    /\ times \in 0 .. MaxTimes - 1
    /\ pc \in {"wait", "select", "round", "read", "handle", "flush"}

(* What Dispatch is given are the client's requests, whole, in order and     *)
(* untouched, however they arrive in pieces and whichever buffer they are    *)
(* in, although buffers pass from client to client: a buffer that another    *)
(* client may be given (FreeInputs, AvailableInput) has no request or part   *)
(* of one left in it.                                                        *)
RequestsIntact ==
    /\ TypeOK
    /\ \A i \in DOMAIN freeInputs : Len(freeInputs[i].rest) = freeInputs[i].last
    /\ available # NoClient =>
          /\ Open(available) /\ input[available].size > 0
          /\ Len(input[available].rest) = input[available].last
    /\ \A c \in Clients : \A i \in DOMAIN handled[c] : handled[c][i] = RequestUnits(c, i - 1)

(* The replies reach the client whole and in order, whatever the socket took *)
(* of each write and however the buffer grew meanwhile.                      *)
RepliesInOrder ==
    \A c \in Clients : Open(c) /\ c \notin hungUp \cup broken =>
       received[c] \o socket[c] \o output[c].data
          = FlattenSeq([i \in DOMAIN handled[c] |-> Reply(c, i - 1)])

(* The set ClientsWithInput tells which clients have a full request left in  *)
(* their buffer (io.c:133); select() would not report those.                 *)
InputNoticed ==
    pc \in {"wait", "select"} => \A c \in Clients : Open(c) =>
       (c \in withInput <=> WholeRequest(Drop(input[c].rest, input[c].last)))

(* WriteToClient clears NewOutputPending when a buffer is full, whoever else *)
(* has output pending: the server may then sleep without flushing it.        *)
Forgotten(c) == c \in pending /\ ~newPending /\ pc = "select"

\* What c is to read for the requests that it has sent whole.
Owed(c) == LET whole == {i \in RequestNumbers(c) : Start(c, i + 1) - 1 <= sent[c]}
           IN  FlattenSeq([k \in 1 .. Cardinality(whole) |-> Reply(c, k - 1)])

(* Every request that a client has sent whole is answered, unless the client *)
(* leaves or its output is forgotten: buffering a reply, a partial write and *)
(* requests left in a buffer never make the server sleep for good.           *)
EveryRequestAnswered ==
    \A c \in Clients : []<>(received[c] = Owed(c) \/ c \in hungUp \/ Forgotten(c))
=============================================================================

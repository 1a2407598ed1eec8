---------------------------- MODULE ClientLibrary ----------------------------
(* The client library's connection (lib/audio/Alibint.c and the calls on top *)
(* of it): requests are put into a buffer and sent when it is full, or when  *)
(* the program waits; replies, errors and events come back in one stream,    *)
(* and whoever waits for one kind has to keep or deliver the others.         *)
(*                                                                           *)
(*   - a request is numbered, but packets carry only the low bits of the     *)
(*     number of the last request executed (SequenceNumbers);                *)
(*   - a call with a status sends another request that has a reply and       *)
(*     catches the errors that come before it; other errors go to a handler; *)
(*   - events are queued for AuNextEvent, AuScanEvents and AuHandleEvents;   *)
(*   - in an Xt program the main loop handles events when the connection is  *)
(*     readable, and in work procedures what a wait for a reply has queued.  *)
(*                                                                           *)
(* Each call is a sequence of steps; its thread's todo list is what is left  *)
(* of it, so a call that runs inside another one (a flush, an event handler) *)
(* comes before the rest of that one.  Packets are read whole, as long as    *)
(* nobody takes them for something else (astray).  The server is reduced to  *)
(* what it sends to the connection.                                          *)
EXTENDS SequenceNumbers, Sequences, SequencesExt, FiniteSetsExt

CONSTANTS Threads,
          Programs,     \* calls: what each thread may call; locks: whether it is built
                        \* with mutexes; xt: whether it has an Xt main loop;
                        \* room: the requests that fit into the socket
          BufferSize,   \* the requests that fit into the buffer
          MaxData,      \* the packets that a call may take for the data of its reply
          MaxRequests, MaxCalls, MaxEvents,  \* bounds
          NoThread

VARIABLES prog,        \* the program, one of Programs
          aud,         \* the AuServer structure
          todo,        \* todo[t]: the steps that thread t has yet to take
          lock, rev,   \* who holds _serv_mutex and _rev_mutex
          toServer, fromServer,      \* what the socket carries
          executed, posted, raised,  \* the server: requests, events, unasked errors
          syncDue, enqDue,           \* the work procedures that Xt is to call
          taken, discarded,          \* history: the events that the program has got, or not
          answers,     \* history: the replies that calls took, and the errors they were told
          astray,      \* history: packets have been taken for the data of a reply
          status,      \* the error in the *ret_status of the call that waits, or 0
          calls        \* how many calls have been made

serverVars == <<toServer, fromServer, executed, posted, raised>>
xtVars == <<syncDue, enqDue>>
history == <<taken, discarded, answers, astray, status>>
vars == <<prog, aud, todo, lock, rev, serverVars, xtVars, history, calls>>

Requests == {"quiet", "fail",        \* sent without a status: it succeeds, or not
             "good", "bad",          \* with a status
             "get", "badget",        \* with a reply and a status
             "sync"}                 \* with a reply, without a status
Fails == {"fail", "bad", "badget"}
Calls == Requests \cup {"next", "scan", "handle"}

\* Threads share a connection only if the library is built with mutexes.
ASSUME LibraryAssumption ==
    /\ BufferSize \in Nat \ {0} /\ MaxData \in Nat /\ NoThread \notin Threads
    /\ \A p \in Programs :
         /\ p.calls \in [Threads -> SUBSET Calls]
         /\ p.locks \in BOOLEAN /\ p.xt \in BOOLEAN /\ p.room \in Nat
         /\ p.locks \/ \A t, u \in Threads : p.calls[t] # {} /\ p.calls[u] # {} => t = u

Init ==
    /\ prog \in Programs
    /\ aud = [buffer |-> <<>>, request |-> 0, last_request_read |-> 0, queue |-> <<>>,
              async_handlers |-> {}, errors |-> {}, dropped |-> {}]
    /\ todo = [t \in Threads |-> <<>>] /\ lock = NoThread /\ rev = NoThread
    /\ toServer = <<>> /\ fromServer = <<>> /\ executed = 0 /\ posted = 0 /\ raised = 0
    /\ syncDue = FALSE /\ enqDue = FALSE
    /\ taken = <<>> /\ discarded = {} /\ answers = {} /\ calls = 0
    /\ astray = FALSE /\ status = 0

-----------------------------------------------------------------------------
\* The server: the response to a request, with its number, and events of its own.
Packet(type, id, kind) == [type |-> type, seq |-> id % Wrap, id |-> id, kind |-> kind, n |-> 0]

Execute ==
    /\ toServer # <<>>
    /\ LET r == Head(toServer)
           Response == CASE r.kind \in Fails           -> <<Packet("error", r.id, r.kind)>>
                         [] r.kind \in {"get", "sync"} -> <<Packet("reply", r.id, r.kind)>>
                         [] OTHER                      -> <<>>
       IN  /\ fromServer' = fromServer \o Response
           /\ executed' = r.id
           /\ raised' = IF r.kind = "fail" THEN raised + 1 ELSE raised
    /\ toServer' = Tail(toServer)
    /\ UNCHANGED <<prog, aud, todo, lock, rev, posted, xtVars, history, calls>>

PostEvent ==
    /\ posted < MaxEvents
    /\ posted' = posted + 1
    /\ fromServer' = Append(fromServer, [Packet("event", executed, "event") EXCEPT !.n = posted + 1])
    /\ UNCHANGED <<prog, aud, todo, lock, rev, toServer, executed, raised, xtVars, history, calls>>

-----------------------------------------------------------------------------
(* _AuError: an error goes to the call that watches for the errors of its    *)
(* request (_AuAsyncErrorHandler), or to the program's error handler.        *)
Delivered(a, p) ==
    LET serial == a.last_request_read
        Watches(h) == h.seq = serial
    IN  IF \E h \in a.async_handlers : Watches(h)
          THEN [a EXCEPT !.async_handlers =
                   {IF Watches(h) THEN [h EXCEPT !.failed = p.id] ELSE h : h \in @}]
          ELSE [a EXCEPT !.errors = @ \cup {[serial |-> serial, id |-> p.id, kind |-> p.kind]}]

(* A packet that was read while not waiting for a reply: an event is put     *)
(* into the queue, and a reply is dropped (_AuAsyncReply).                   *)
Received(a, p) ==
    LET serial == Widened(a.last_request_read, a.request, p.seq)
        b == [a EXCEPT !.last_request_read = serial]
    IN  CASE p.type = "event" -> [b EXCEPT !.queue = Append(@, [serial |-> serial, id |-> p.id, n |-> p.n])]
          [] p.type = "error" -> Delivered(b, p)
          [] p.type = "reply" -> [b EXCEPT !.dropped = @ \cup {p.id}]

ReadAll ==
    LET after[i \in 0 .. Len(fromServer)] ==
            IF i = 0 THEN aud ELSE Received(after[i - 1], fromServer[i])
    IN  aud' = after[Len(fromServer)] /\ fromServer' = <<>>
ReadAvailable == IF fromServer = <<>> THEN UNCHANGED <<aud, fromServer>> ELSE ReadAll

-----------------------------------------------------------------------------
(* Calls as sequences of steps.                                              *)
Step(op, n, what) == [op |-> op, n |-> n, what |-> what]
Do(op) == Step(op, 0, "")

Locked(steps) == IF prog.locks THEN <<Do("lock")>> \o steps \o <<Do("unlock")>> ELSE steps

\* After a request, _AuSyncHandle calls the sync handlers: an Xt program has one.
Requesting(steps) == Locked(steps) \o (IF prog.xt THEN <<Do("synchandle")>> ELSE <<>>)

Body(call) ==
    CASE call \in {"quiet", "fail"} -> Requesting(<<Step("put", 0, call)>>)
      [] call \in {"good", "bad"}   -> Requesting(<<Step("put", 0, call), Step("roundtrip", 0, call)>>)
      [] call \in {"get", "badget"} -> Requesting(<<Step("put", 0, call), Step("reply", 0, call)>>)
      [] call = "sync"   -> Locked(<<Step("put", 0, "sync"), Step("reply", 0, "sync"), Do("discard")>>)
      [] call = "next"   -> IF prog.locks THEN <<Do("lock"), Do("next")>> ELSE <<Do("next")>>
      [] call = "scan"   -> Locked(<<Step("scan", 0, "already")>>)
      [] call = "handle" -> <<Step("handle", 0, "first")>>

\* The request counter is bounded; and a client reads some packet before it has
\* sent Wrap more requests (nothing in the library sees to that).
MayRequest == /\ aud.request + 2 <= MaxRequests
              /\ aud.request + 2 - aud.last_request_read < Wrap
MayCall(t, call) ==
    /\ calls < MaxCalls /\ call \in prog.calls[t]
    /\ call \in Requests => MayRequest

Start(t, call) ==
    /\ todo[t] = <<>> /\ MayCall(t, call)
    /\ todo' = [todo EXCEPT ![t] = Body(call)]
    /\ calls' = calls + 1
    /\ UNCHANGED <<prog, aud, lock, rev, serverVars, xtVars, history>>

At(t, op) == todo[t] # <<>> /\ Head(todo[t]).op = op
Now(t) == Head(todo[t])
Continue(t, steps) == todo' = [todo EXCEPT ![t] = steps \o Tail(@)]
Done(t) == Continue(t, <<>>)
Room == prog.room - Len(toServer)

\* Put(t) appends a request to the buffer, which is flushed first if it is full.
Put(t) ==
    /\ At(t, "put")
    /\ IF Len(aud.buffer) = BufferSize
         THEN Continue(t, <<Do("flush"), Now(t)>>) /\ UNCHANGED aud
         ELSE /\ aud' = [aud EXCEPT !.request = @ + 1,
                                    !.buffer = Append(@, [id |-> aud.request + 1, kind |-> Now(t).what])]
              /\ Done(t)
    /\ UNCHANGED <<lock, rev, serverVars, xtVars, history>>

\* _AuFlush: written until all of the buffer is, with waits when nothing fits.
Flush(t) ==
    /\ At(t, "flush")
    /\ LET n == Min({Room, Len(aud.buffer)})
       IN  IF aud.buffer = <<>> THEN Done(t) /\ UNCHANGED <<aud, toServer>>
           ELSE /\ toServer' = toServer \o SubSeq(aud.buffer, 1, n)
                /\ aud' = [aud EXCEPT !.buffer = SubSeq(@, n + 1, Len(@))]
                /\ Continue(t, IF n = 0 THEN <<Do("wait"), Now(t)>>
                               ELSE IF n = Len(aud.buffer) THEN <<>> ELSE <<Now(t)>>)
    /\ UNCHANGED <<lock, rev, fromServer, executed, posted, raised, xtVars, history>>

\* _AuWaitForWritable: reads what comes, until something can be written.
WaitForWritable(t) ==
    /\ At(t, "wait") /\ (fromServer # <<>> \/ Room > 0)
    /\ ReadAvailable
    /\ IF Room > 0 THEN Done(t) ELSE UNCHANGED todo
    /\ UNCHANGED <<lock, rev, toServer, executed, posted, raised, xtVars, history>>

\* Mutant: the errors of the request before the one just made are caught.
RoundTripTooEarly(t) ==
    /\ At(t, "roundtrip")
    /\ aud' = [aud EXCEPT !.async_handlers = @ \cup {[seq |-> aud.request - 1, failed |-> 0]}]
    /\ Continue(t, <<Step("put", 0, "sync"), Step("reply", 0, "sync"),
                     Step("dequeue", aud.request - 1, Now(t).what)>>)
    /\ UNCHANGED <<lock, rev, serverVars, xtVars, history>>

(* _AuForceRoundTrip: catches the errors of the request just made until the  *)
(* reply to another one has come.                                            *)
RoundTrip(t) ==
    /\ At(t, "roundtrip")
    /\ aud' = [aud EXCEPT !.async_handlers = @ \cup {[seq |-> aud.request, failed |-> 0]}]
    /\ Continue(t, <<Step("put", 0, "sync"), Step("reply", 0, "sync"),
                     Step("dequeue", aud.request, Now(t).what)>>)
    /\ UNCHANGED <<lock, rev, serverVars, xtVars, history>>

Told(id, kind, reply, error) ==
    answers' = answers \cup {[id |-> id, kind |-> kind, reply |-> reply, error |-> error]}

DequeueHandler(t) ==
    /\ At(t, "dequeue")
    /\ LET mine == CHOOSE h \in aud.async_handlers : h.seq = Now(t).n
       IN  /\ aud' = [aud EXCEPT !.async_handlers = @ \ {mine}]
           /\ Told(Now(t).n, Now(t).what, 0, mine.failed)
    /\ Done(t)
    /\ UNCHANGED <<lock, rev, serverVars, xtVars, taken, discarded, astray, status>>

\* _AuReply: flushes, and waits for the reply to the last request made.
Reply(t) ==
    /\ At(t, "reply")
    /\ status' = 0
    /\ Continue(t, <<Do("flush"), Step("await", aud.request, Now(t).what)>>)
    /\ UNCHANGED <<aud, lock, rev, serverVars, xtVars, taken, discarded, answers, astray>>

\* Mutant: the event handlers of Xt do not hear of it.
EnqueuedUnheard == UNCHANGED enqDue

\* _AuEventEnqueued, for events read during a reply: Xt calls a work procedure.
Enqueued == enqDue' = (enqDue \/ prog.xt)

(* The packets that come before the reply are handled.  Each error is put    *)
(* into *ret_status, whichever request it is about, and the reply does not   *)
(* take it out again.  The caller's own error ends the wait, but not the     *)
(* call, which reads on for the data of the reply that it has not got: some  *)
(* 40 bytes, or as many as the fields of the error say.  _AuForceRoundTrip   *)
(* and AuSync pass no status.                                                *)
Await(t) ==
    /\ At(t, "await") /\ fromServer # <<>>
    /\ LET p == Head(fromServer)
           cur == Now(t).n
           what == Now(t).what
           serial == IF p.type = "reply" /\ p.seq = cur % Wrap THEN cur
                     ELSE Widened(aud.last_request_read, aud.request, p.seq)
           read == [aud EXCEPT !.last_request_read = serial]
       IN  \/ /\ p.type = "reply"
              /\ aud' = read /\ Done(t)
              /\ Told(cur, what, p.id, IF what = "sync" THEN 0 ELSE status)
              /\ UNCHANGED <<enqDue, status>>
           \/ /\ p.type = "error"
              /\ status' = p.id
              /\ IF serial = cur /\ what # "sync"
                   THEN /\ aud' = read /\ Told(cur, what, 0, p.id)
                        /\ \E n \in 0 .. MaxData : Continue(t, <<Step("readon", n, "")>>)
                   ELSE /\ aud' = Delivered(read, p) /\ UNCHANGED answers
                        /\ IF serial = cur THEN Done(t) ELSE UNCHANGED todo
              /\ UNCHANGED enqDue
           \/ /\ p.type = "event"
              /\ aud' = Received(aud, p) /\ Enqueued
              /\ UNCHANGED <<todo, answers, status>>
    /\ fromServer' = Tail(fromServer)
    /\ UNCHANGED <<lock, rev, toServer, executed, posted, raised, syncDue, taken, discarded, astray>>

(* A call that has been told its own error reads on: the next n packets are  *)
(* its data.  It rarely takes whole packets: those that follow are out of    *)
(* step, and nothing is said of them.                                        *)
ReadOn(t) ==
    /\ At(t, "readon")
    /\ IF Now(t).n = 0 THEN Done(t) /\ UNCHANGED <<fromServer, astray>>
       ELSE /\ fromServer # <<>> /\ fromServer' = Tail(fromServer) /\ astray' = TRUE
            /\ Continue(t, <<Step("readon", Now(t).n - 1, "")>>)
    /\ UNCHANGED <<aud, lock, rev, toServer, executed, posted, raised, xtVars,
                   taken, discarded, answers, status>>

\* AuSync(aud, AuTrue): the queue is thrown away.
Discard(t) ==
    /\ At(t, "discard")
    /\ aud' = [aud EXCEPT !.queue = <<>>]
    /\ discarded' = discarded \cup {aud.queue[i].n : i \in DOMAIN aud.queue}
    /\ Done(t)
    /\ UNCHANGED <<lock, rev, serverVars, xtVars, taken, answers, astray, status>>

-----------------------------------------------------------------------------
(* AuNextEvent: with an empty queue it gives up the lock and reads.          *)
NextEvent(t) ==
    /\ At(t, "next")
    /\ LET Taking == IF prog.locks THEN <<Do("take"), Do("unlock")>> ELSE <<Do("take")>>
           Reading == IF prog.locks THEN <<Do("unlock"), Do("revlock"), Step("read", 0, ""), Do("lock")>>
                      ELSE <<Step("read", 0, "")>>
       IN  Continue(t, IF aud.queue # <<>> THEN Taking ELSE Reading \o Taking)
    /\ UNCHANGED <<aud, lock, rev, serverVars, xtVars, history>>

\* It takes the head of the queue; if there is none any more, it follows a null pointer.
Take(t) ==
    /\ At(t, "take")
    /\ IF aud.queue = <<>> THEN Continue(t, <<Do("crash")>>) /\ UNCHANGED <<aud, taken>>
       ELSE /\ aud' = [aud EXCEPT !.queue = Tail(@)]
            /\ taken' = Append(taken, Head(aud.queue).n)
            /\ Done(t)
    /\ UNCHANGED <<lock, rev, serverVars, xtVars, discarded, answers, astray, status>>

\* Mutant: waits for events without sending the requests that may bring them.
ReadEventsUnsent(t) ==
    /\ At(t, "read")
    /\ IF fromServer # <<>>
         THEN ReadAll /\ Continue(t, <<Step("more", Now(t).n, "")>>)
         ELSE Continue(t, <<Do("block")>>) /\ UNCHANGED <<aud, fromServer>>
    /\ UNCHANGED <<lock, rev, toServer, executed, posted, raised, xtVars, history>>

(* _AuReadEvents: what there is, or after a flush the next packet.           *)
ReadEvents(t) ==
    /\ At(t, "read")
    /\ IF fromServer # <<>>
         THEN ReadAll /\ Continue(t, <<Step("more", Now(t).n, "")>>)
         ELSE /\ Continue(t, IF Now(t).n = 0
                               THEN <<Do("flush"), Step("flushed", Len(aud.queue), "")>>
                               ELSE <<Do("block")>>)
              /\ UNCHANGED <<aud, fromServer>>
    /\ UNCHANGED <<lock, rev, toServer, executed, posted, raised, xtVars, history>>

\* If the flush has queued events, _AuReadEvents returns: with _rev_mutex locked.
Flushed(t) ==
    /\ At(t, "flushed")
    /\ Continue(t, IF Len(aud.queue) # Now(t).n THEN <<>> ELSE <<Do("block")>>)
    /\ UNCHANGED <<aud, lock, rev, serverVars, xtVars, history>>

Block(t) ==
    /\ At(t, "block") /\ fromServer # <<>>
    /\ aud' = Received(aud, Head(fromServer)) /\ fromServer' = Tail(fromServer)
    /\ Continue(t, <<Step("more", 1, "")>>)
    /\ UNCHANGED <<lock, rev, toServer, executed, posted, raised, xtVars, history>>

More(t) ==
    /\ At(t, "more")
    /\ IF aud.queue = <<>> THEN Continue(t, <<Step("read", Now(t).n, "")>>) /\ UNCHANGED rev
       ELSE Done(t) /\ rev' = NoThread
    /\ UNCHANGED <<aud, lock, serverVars, xtVars, history>>

(* AuScanEvents for an event with an odd number: in the queue, then in what  *)
(* can be read, then in what a flush has brought.                            *)
Scan(t) ==
    /\ At(t, "scan")
    /\ LET hits == {i \in DOMAIN aud.queue : i > Now(t).n /\ aud.queue[i].n % 2 = 1}
           Again(what) == Step("scan", Len(aud.queue), what)
       IN  IF hits # {}
             THEN /\ aud' = [aud EXCEPT !.queue = RemoveAt(@, Min(hits))]
                  /\ taken' = Append(taken, aud.queue[Min(hits)].n)
                  /\ Done(t)
             ELSE /\ Continue(t, CASE Now(t).what = "already" -> <<Do("gather"), Again("reading")>>
                                   [] Now(t).what = "reading" -> <<Do("flush"), Again("flush")>>
                                   [] Now(t).what = "flush"   -> <<>>)
                  /\ UNCHANGED <<aud, taken>>
    /\ UNCHANGED <<lock, rev, serverVars, xtVars, discarded, answers, astray, status>>

\* _AuEventsQueued, without flushing: all packets that have arrived.
Gather(t) ==
    /\ At(t, "gather") /\ ReadAvailable /\ Done(t)
    /\ UNCHANGED <<lock, rev, toServer, executed, posted, raised, xtVars, history>>

\* The same after a flush: only if the queue is still empty.
Poll(t) ==
    /\ At(t, "poll") /\ Done(t)
    /\ IF aud.queue = <<>> THEN ReadAvailable ELSE UNCHANGED <<aud, fromServer>>
    /\ UNCHANGED <<lock, rev, toServer, executed, posted, raised, xtVars, history>>

(* AuHandleEvents: reads what there is, flushes and reads, reads again, and  *)
(* dispatches as many events as are in the queue, until there are none.      *)
HandleEvents(t) ==
    /\ At(t, "handle")
    /\ Continue(t, IF Now(t).what = "first" THEN <<Do("gather"), Step("handle", 0, "look")>>
                   ELSE IF aud.queue # <<>>  THEN <<Step("dispatch", Len(aud.queue), "")>>
                   ELSE IF Now(t).what = "look"
                          THEN <<Do("flush"), Do("poll"), Do("gather"), Step("handle", 0, "last")>>
                   ELSE <<>>)
    /\ UNCHANGED <<aud, lock, rev, serverVars, xtVars, history>>

Dispatch(t) ==
    /\ At(t, "dispatch")
    /\ Continue(t, IF Now(t).n = 0 THEN <<Step("handle", 0, "first")>>
                   ELSE Body("next") \o <<Do("callback"), Step("dispatch", Now(t).n - 1, "")>>)
    /\ UNCHANGED <<aud, lock, rev, serverVars, xtVars, history>>

\* An event handler of the program: it may make a call.
Callback(t) ==
    /\ At(t, "callback")
    /\ \/ Done(t) /\ UNCHANGED calls
       \/ \E call \in Requests \ {"sync"} :
            /\ MayCall(t, call)
            /\ Continue(t, Body(call))
            /\ calls' = calls + 1
    /\ UNCHANGED <<aud, lock, rev, serverVars, xtVars, history>>

-----------------------------------------------------------------------------
\* The mutexes; a thread that locks one it holds waits forever.
Lock(t) == /\ At(t, "lock") /\ lock = NoThread /\ lock' = t /\ Done(t)
           /\ UNCHANGED <<aud, rev, serverVars, xtVars, history>>
Unlock(t) == /\ At(t, "unlock") /\ lock' = NoThread /\ Done(t)
             /\ UNCHANGED <<aud, rev, serverVars, xtVars, history>>
RevLock(t) == /\ At(t, "revlock") /\ rev = NoThread /\ rev' = t /\ Done(t)
              /\ UNCHANGED <<aud, lock, serverVars, xtVars, history>>

\* Xtutil.c: the sync handler asks for a work procedure that flushes.
SyncHandle(t) ==
    /\ At(t, "synchandle") /\ syncDue' = TRUE /\ Done(t)
    /\ UNCHANGED <<aud, lock, rev, serverVars, enqDue, history>>

WorkDone(t) ==
    /\ At(t, "workdone") /\ Done(t)
    /\ IF Now(t).what = "sync" THEN syncDue' = FALSE /\ UNCHANGED enqDue
       ELSE enqDue' = FALSE /\ UNCHANGED syncDue
    /\ UNCHANGED <<aud, lock, rev, serverVars, history>>

\* A thread that has crashed ends the program.
Running == \A t \in Threads : ~At(t, "crash")

ThreadStep(t) ==
    \/ /\ UNCHANGED <<prog, calls>>
       /\ \/ Put(t) \/ Flush(t) \/ WaitForWritable(t) \/ RoundTrip(t) \/ DequeueHandler(t)
          \/ Reply(t) \/ Await(t) \/ ReadOn(t) \/ Discard(t) \/ NextEvent(t) \/ Take(t) \/ ReadEvents(t)
          \/ Flushed(t) \/ Block(t) \/ More(t) \/ Scan(t) \/ Gather(t) \/ Poll(t)
          \/ HandleEvents(t) \/ Dispatch(t) \/ Lock(t) \/ Unlock(t) \/ RevLock(t)
          \/ SyncHandle(t) \/ WorkDone(t)
    \/ Callback(t) /\ UNCHANGED prog

\* The Xt main loop: the connection is readable, or a work procedure is due.
XtLoop(t) ==
    /\ prog.xt /\ prog.calls[t] # {} /\ todo[t] = <<>>
    /\ \/ fromServer # <<>> /\ todo' = [todo EXCEPT ![t] = Body("handle")]
       \/ syncDue /\ todo' = [todo EXCEPT ![t] = Locked(<<Do("flush")>>) \o <<Step("workdone", 0, "sync")>>]
       \/ enqDue /\ todo' = [todo EXCEPT ![t] = Body("handle") \o <<Step("workdone", 0, "enq")>>]
    /\ UNCHANGED <<prog, aud, lock, rev, serverVars, xtVars, history, calls>>

Next == \/ Execute \/ PostEvent
        \/ \E t \in Threads : Running /\ (ThreadStep(t) \/ XtLoop(t))
        \/ \E t \in Threads : \E call \in Calls : Running /\ Start(t, call)

\* The server executes requests, and a thread goes on with its call; the program
\* need not call, nor the server post events.
Spec == Init /\ [][Next]_vars /\ WF_vars(Execute)
        /\ \A t \in Threads : WF_vars(Running /\ ThreadStep(t)) /\ WF_vars(Running /\ XtLoop(t))

-----------------------------------------------------------------------------
\* Packets are read before Wrap more requests have been made: nothing in the
\* library sees to that, and the numbers of packets are lost without it.
HeardInTime == aud.request - aud.last_request_read < Wrap

TypeOK ==
    /\ Len(aud.buffer) <= BufferSize /\ Len(toServer) <= prog.room
    /\ executed \in 0 .. aud.request /\ posted \in 0 .. MaxEvents
    /\ aud.last_request_read <= executed
    /\ lock \in Threads \cup {NoThread} /\ rev \in Threads \cup {NoThread}
    /\ syncDue \in BOOLEAN /\ enqDue \in BOOLEAN /\ calls \in 0 .. MaxCalls
    /\ HeardInTime    \* within the bounds of the programs

Unreported == {i \in DOMAIN fromServer : fromServer[i].kind = "fail"}

(* Who asked gets the answer to its own request, whatever errors, replies    *)
(* and events lie between (_AuReply, _AuForceRoundTrip): its own reply, and  *)
(* its own error exactly if it failed.  A call that has a reply may be told  *)
(* the error of an earlier request as well, but no error is told only so:    *)
(* that of a request that nobody asked about goes to the error handler once, *)
(* with its number, and no other error does (_AuError); no reply is dropped. *)
(* All this until a call reads on after an error.                            *)
AnswersReachAskers ==
    /\ TypeOK
    /\ ~astray =>
         /\ \A a \in answers :
              /\ a.kind \in {"get", "sync"} => a.reply = a.id
              /\ a.kind \in Fails <=> a.error = a.id
              /\ a.kind # "get" => a.error \in {0, a.id}
              /\ a.error \notin {0, a.id} => \E e \in aud.errors : e.id = a.error
         /\ \A e \in aud.errors : e.serial = e.id /\ e.kind = "fail"
         /\ Cardinality(aud.errors) + Cardinality(Unreported) = raised
         /\ aud.dropped = {}

(* "flush the output buffer and return the status from the server"           *)
(* (doc/man/lib/AuListB.man:55): that of the call's own request (_AuReply).  *)
StatusIsOwn == \A a \in answers : a.error \in {0, a.id}

(* The program gets each event that it has not thrown away, those that match *)
(* and those that do not each in the order posted, and with the number of    *)
(* the request before it, whichever call had read it (_AuEnq), until a call  *)
(* reads on after an error and takes events for its data.                    *)
EventsInOrder ==
    LET queued == [i \in DOMAIN aud.queue |-> aud.queue[i].n]
        coming == [i \in DOMAIN fromServer |-> fromServer[i].n]  \* 0: not an event
        stream == taken \o queued \o coming
    IN  ~astray =>
        /\ \A i, j \in DOMAIN stream :
             i < j /\ stream[j] # 0 /\ stream[i] % 2 = stream[j] % 2 => stream[i] < stream[j]
        /\ (ToSet(stream) \ {0}) \cup discarded = 1 .. posted
        /\ \A i \in DOMAIN aud.queue : aud.queue[i].serial = aud.queue[i].id

\* A thread waits for an event, and none is to come: all requests are executed.
NothingToRead(t) == At(t, "block") /\ aud.buffer = <<>> /\ toServer = <<>> /\ fromServer = <<>>

\* A call waits for the data of a reply that has not come, or has taken other packets.
ReadingOn == astray \/ \E t \in Threads : At(t, "readon")

(* Every call returns, unless it waits for an event that nothing sent so far *)
(* can bring, or a call reads on after its error: the library never waits    *)
(* with requests unsent, nor stops reading while it cannot write             *)
(* (_AuReadEvents, _AuWaitForWritable).                                      *)
CallsReturn == \A t \in Threads : []<>(todo[t] = <<>> \/ NothingToRead(t) \/ ReadingOn)

(* An Xt program need not flush or look for events: requests are sent and    *)
(* events are handled in time (AuXtAppAddAudioHandler), also those that were *)
(* read while it waited for a reply.                                         *)
XtKeepsUp == [](prog.xt => <>(aud.buffer = <<>> /\ aud.queue = <<>>))

(* "will use it's own lock to prevent deadlock situations" (NextEvent.c:61): *)
(* no thread waits for a mutex that it holds itself.                         *)
NoSelfDeadlock ==
    \A t \in Threads : ~(At(t, "revlock") /\ rev = t) /\ ~(At(t, "lock") /\ lock = t)
=============================================================================

--------------------------- MODULE MCClientLibrary ---------------------------
(* ClientLibrary for kinds of programs.                                      *)
EXTENDS ClientLibrary

CONSTANTS ann, bob

Program(a, b, locks, xt, room) ==
    [calls |-> [t \in Threads |-> IF t = ann THEN a ELSE b], locks |-> locks, xt |-> xt, room |-> room]

\* One thread that waits for events itself, without mutexes and with them; two
\* threads that share the connection, of which none waits for events; an Xt program.
Waiting == Program({"quiet", "fail", "bad", "get", "sync", "next"}, {}, FALSE, FALSE, 1)
WaitingLocked == Program({"quiet", "bad", "next"}, {}, TRUE, FALSE, 4)
Sharing == Program({"fail", "bad"}, {"badget", "scan"}, TRUE, FALSE, 1)
InXt == Program({"quiet", "bad", "get"}, {}, FALSE, TRUE, 4)
Kinds == {Waiting, WaitingLocked, Sharing, InXt}

\* One thread of a program that is built with mutexes waits for events.
WaitsTwice == {Program({"quiet", "next"}, {}, TRUE, FALSE, 1)}

\* An Xt program whose socket is full at times.
XtFull == {Program({"quiet", "get"}, {}, FALSE, TRUE, 1)}
=============================================================================

---------------------------- MODULE ServerClients ----------------------------
(* The clients of the server (server/dia/dispatch.c), the ids they own       *)
(* (server/dia/resource.c) and the reference counts of the components that   *)
(* their flows use (server/dia/auutil.c), through closing, retaining,        *)
(* killing and the server's reset (server/dia/main.c).                       *)
(*                                                                           *)
(* The server has one thread.  An action is one connection it accepts, one   *)
(* request it serves or one pass of Dispatch's loops; only the signal        *)
(* handler AutoResetServer comes in between.                                 *)
EXTENDS Integers, FiniteSets, FiniteSetsExt

CONSTANTS MaxClients,  \* MAXCLIENTS: the slots are 1 .. MaxClients - 1
          Components,  \* the memory buckets are allocated from (bound)
          NoClient, NoComponent, NoFlow, Empty,
          Happens      \* what the environment does besides sending requests

Modes == {"Destroy", "RetainPermanent", "RetainTemporary"}
Clients == [mode : Modes, gone : BOOLEAN, established : BOOLEAN]

ASSUME ClientsAssumption ==
    /\ MaxClients \in Nat \ {0, 1}
    /\ IsFiniteSet(Components) /\ Components # {}
    /\ {NoComponent, NoFlow, Empty} \cap Components = {} /\ NoClient \notin Clients
    /\ Happens \subseteq {"refused", "hangup of retaining clients", "kill of a ready client"}

Slots == 1 .. MaxClients - 1
Owners == 0 .. MaxClients - 1     \* 0 is the server itself

VARIABLES clients,           \* the client in each slot
          nClients, nextFreeClientID, currentMaxClients,
          exception,         \* dispatchException asks for a reset
          ready, current,    \* the rest of this round; the client being served
          component,         \* component[i]: what the bucket id of i refers to
                             \* (component[0]: the output device)
          flow,              \* flow[i]: the flow with the id of i: none, one
                             \* without elements, or the component it uses
          refCnt             \* of every component; -1 when it is freed

clientVars == <<clients, nClients, nextFreeClientID, currentMaxClients, exception>>
resourceVars == <<component, flow, refCnt>>
vars == <<clientVars, ready, current, resourceVars>>

Connected(i) == clients[i] # NoClient /\ ~clients[i].gone
Established(i) == Connected(i) /\ clients[i].established

NewClient == [mode |-> "Destroy", gone |-> FALSE, established |-> FALSE]

\* aualloc: a component that is not in use.
FreeComponents == {c \in Components : refCnt[c] = -1}

Init == /\ clients = [i \in Slots |-> NoClient]
        /\ nClients = 0 /\ nextFreeClientID = 1 /\ currentMaxClients = 1
        /\ exception = FALSE
        /\ ready = {} /\ current = 0
        /\ flow = [i \in Slots |-> NoFlow]
        /\ \E device \in Components :
              /\ component = [i \in Owners |-> IF i = 0 THEN device ELSE NoComponent]
              /\ refCnt = [c \in Components |-> IF c = device THEN 0 ELSE -1]

-----------------------------------------------------------------------------
(* Freeing resources: a flow gives up the component it uses, an id the       *)
(* component it names, and AuFreeComponent frees what nothing else holds.    *)

\* Mutant: freeCompiledFlow leaves the components to the ids.
ReferencesOfIds(c, ids, flows) == Cardinality({i \in ids : component[i] = c})

References(c, ids, flows) == Cardinality({i \in ids : component[i] = c})
                             + Cardinality({i \in flows : flow[i] = c})

\* FreeResource and FreeClientResources of the ids and flows of these owners.
FreeResources(ids, flows) ==
    /\ component' = [i \in Owners |-> IF i \in ids THEN NoComponent ELSE component[i]]
    /\ flow' = [i \in Slots |-> IF i \in flows THEN NoFlow ELSE flow[i]]
    /\ refCnt' = [c \in Components |-> refCnt[c] - References(c, ids, flows)]

-----------------------------------------------------------------------------
(* CloseDownClient for each client of C.                                     *)

\* Gone already, or in mode Destroy: the client and its resources are freed.
Freed(C) == {i \in C : clients[i].gone \/ clients[i].mode = "Destroy"}

\* The others keep their slot until they are closed a second time.
ClosedDown(C) ==
    [i \in Slots |-> IF i \in Freed(C) THEN NoClient
                     ELSE IF i \in C THEN [clients[i] EXCEPT !.gone = TRUE]
                     ELSE clients[i]]

\* Mutants: the slot of every closed client, or of those never retained.
NextFreeOfAll(C) == Min({nextFreeClientID} \cup C)
NextFreeOfOpen(C) == Min({nextFreeClientID} \cup {i \in Freed(C) : ~clients[i].gone})

NextFree(C) == Min({nextFreeClientID} \cup Freed(C))

\* Mutant: a retained client is counted down again when it is freed.
StillConnectedTwice(C) == nClients - Cardinality(C)

StillConnected(C) == nClients - Cardinality({i \in C : Connected(i)})

\* while (!clients[currentMaxClients - 1]) currentMaxClients--
LastSlot(table) ==
    1 + Max({0} \cup {i \in 1 .. currentMaxClients - 1 : table[i] # NoClient})

CloseDown(C) ==
    /\ clients' = ClosedDown(C)
    /\ nClients' = StillConnected(C)
    /\ nextFreeClientID' = NextFree(C)
    /\ currentMaxClients' = LastSlot(ClosedDown(C))
    /\ exception' = (exception \/ /\ StillConnected(C) = 0
                                  /\ \E i \in C : /\ Established(i)
                                                  /\ clients[i].mode = "Destroy")
    /\ FreeResources(Freed(C), Freed(C))

-----------------------------------------------------------------------------
(* Connections: EstablishNewConnections and NextAvailableClient, called from *)
(* WaitForSomething between two rounds.                                      *)

Accept ==
    /\ current = 0 /\ ready = {} /\ ~exception
    /\ \E stragglers \in SUBSET {i \in 1 .. currentMaxClients - 1 :
                                    Connected(i) /\ ~Established(i)} :
          /\ stragglers # {} => "refused" \in Happens /\ nClients > -MaxClients
          /\ LET i == NextFree(stragglers)
                 last == LastSlot(ClosedDown(stragglers))
                 table == [ClosedDown(stragglers) EXCEPT ![i] = NewClient]
             IN  /\ i < MaxClients
                 /\ clients' = table
                 /\ currentMaxClients' = IF i = last THEN last + 1 ELSE last
                 /\ nextFreeClientID' =
                       Min({MaxClients} \cup {j \in i .. MaxClients - 1 : table[j] = NoClient})
          /\ nClients' = StillConnected(stragglers)
          /\ FreeResources(stragglers, stragglers)
    /\ UNCHANGED <<exception, ready, current>>

(* WaitForSomething returns the connections with input.                      *)
Wait == /\ current = 0 /\ ready = {} /\ ~exception
        /\ ready' \in SUBSET {i \in Slots : Connected(i)}
        /\ UNCHANGED <<clientVars, current, resourceVars>>

(* Dispatch takes the next one; its client may have been killed meanwhile.   *)
Take == /\ current = 0 /\ ~exception
        /\ \E i \in ready : /\ ready' = ready \ {i}
                            /\ current' = IF clients[i] = NoClient THEN 0 ELSE i
        /\ UNCHANGED <<clientVars, resourceVars>>

\* isItTimeToYield, or no whole request is left.
Yield == /\ current # 0
         /\ current' = 0
         /\ UNCHANGED <<clientVars, ready, resourceVars>>

\* The connection was closed at the other end, or a request was malformed.
Disconnect == /\ current # 0 /\ Connected(current)
              /\ \/ Established(current)
                 \/ "refused" \in Happens /\ nClients > -MaxClients
              /\ CloseDown({current})
              /\ current' = 0
              /\ UNCHANGED ready

(* ProcInitialConnection and ProcEstablishConnection for a client that is    *)
(* authorized; one that is not is closed like one that disconnects.          *)
EstablishConnection ==
    /\ current # 0 /\ Connected(current) /\ ~Established(current)
    /\ clients' = [clients EXCEPT ![current].established = TRUE]
    /\ nClients' = nClients + 1
    /\ UNCHANGED <<nextFreeClientID, currentMaxClients, exception, ready, current, resourceVars>>

-----------------------------------------------------------------------------
(* Requests of the client being served.                                      *)

\* The signal ends the loop over the requests of a client, isItTimeToYield, if
\* it does not come before Dispatch resets that.
Serving == /\ current # 0 /\ Established(current)
           /\ ~exception \/ "hangup of retaining clients" \in Happens

SetCloseDownMode(mode) ==
    /\ Serving
    /\ clients' = [clients EXCEPT ![current].mode = mode]
    /\ UNCHANGED <<nClients, nextFreeClientID, currentMaxClients, exception,
                   ready, current, resourceVars>>

\* AuKillClient(AuCloseDownDestroy): CloseDownRetainedResources.
KillRetained ==
    /\ Serving
    /\ CloseDown({i \in 1 .. currentMaxClients - 1 :
                     /\ clients[i] # NoClient /\ clients[i].gone
                     /\ clients[i].mode = "RetainTemporary"})
    /\ UNCHANGED <<ready, current>>

\* Mutant: Dispatch goes on reading from a client that has killed itself.
StillServedAnyway(i) == current

\* A client that kills itself yields.
StillServed(i) == IF i = current THEN 0 ELSE current

\* The owner of a resource is closed, whether it is connected or retained.
KillClient(i) ==
    /\ Serving
    /\ component[i] # NoComponent \/ flow[i] # NoFlow
    /\ clients[i] # NoClient /\ clients[i].established
    /\ \/ i = current \/ i \notin ready \/ clients[i].mode = "Destroy"
       \/ "kill of a ready client" \in Happens
    /\ CloseDown({i})
    /\ current' = StillServed(i)
    /\ UNCHANGED ready

\* A client uses fresh ids; there is one bucket id and one flow id for each.
CreateBucket ==
    /\ Serving
    /\ component[current] = NoComponent
    /\ \E c \in FreeComponents :
          /\ component' = [component EXCEPT ![current] = c]
          /\ refCnt' = [refCnt EXCEPT ![c] = 0]
    /\ UNCHANGED <<clientVars, ready, current, flow>>

\* Its own, or one whose access lets others destroy it.
DestroyBucket(i) ==
    /\ Serving
    /\ component[i] # NoComponent
    /\ FreeResources({i}, {})
    /\ UNCHANGED <<clientVars, ready, current>>

CreateFlow ==
    /\ Serving
    /\ flow[current] = NoFlow
    /\ flow' = [flow EXCEPT ![current] = Empty]
    /\ UNCHANGED <<clientVars, ready, current, component, refCnt>>

DestroyFlow(i) ==
    /\ Serving
    /\ flow[i] # NoFlow
    /\ FreeResources({}, {i})
    /\ UNCHANGED <<clientVars, ready, current>>

(* ProcAuSetElements frees the elements of flow i and compiles new ones that *)
(* use the component with the id of owner o, if there is one.                *)
SetElements(i, o) ==
    LET old == flow[i]
        new == component[o]
    IN  /\ Serving
        /\ old # NoFlow
        /\ flow' = [flow EXCEPT ![i] = IF new = NoComponent THEN Empty ELSE new]
        /\ refCnt' = [c \in Components |-> refCnt[c] - (IF c = old THEN 1 ELSE 0)
                                                     + (IF c = new THEN 1 ELSE 0)]
        /\ UNCHANGED <<clientVars, ready, current, component>>

Request == \/ \E mode \in Modes : SetCloseDownMode(mode)
           \/ KillRetained
           \/ CreateBucket \/ CreateFlow
           \/ \E i \in Slots : \/ KillClient(i) \/ DestroyBucket(i) \/ DestroyFlow(i)
                               \/ \E o \in Owners : SetElements(i, o)

-----------------------------------------------------------------------------
(* The reset: SIGHUP or the last client's end sets dispatchException.        *)

Hangup == /\ ~exception
          /\ \/ \A i \in Slots : Connected(i) => clients[i].mode = "Destroy"
             \/ "hangup of retaining clients" \in Happens
          /\ exception' = TRUE
          /\ UNCHANGED <<clients, nClients, nextFreeClientID, currentMaxClients,
                         ready, current, resourceVars>>

\* Mutant: the last one is forgotten.
ListedButLast == {i \in 1 .. currentMaxClients - 2 : clients[i] # NoClient}

\* KillAllClients goes through the slots below currentMaxClients.
Listed == {i \in 1 .. currentMaxClients - 1 : clients[i] # NoClient}

(* The loops of Dispatch end, KillAllClients and FreeAllResources leave      *)
(* nothing in the slots they know of, and main starts over with one device.  *)
Reset ==
    /\ exception /\ current = 0
    /\ clients' = ClosedDown(Listed)
    /\ LET kept == {i \in Slots : i >= currentMaxClients}
           left == [c \in Components |-> refCnt[c] - References(c, Owners \ kept, Slots \ kept)]
       IN  \E device \in {c \in Components : left[c] = -1} :
              /\ component' = [i \in Owners |-> IF i = 0 THEN device
                                                ELSE IF i \in kept THEN component[i]
                                                ELSE NoComponent]
              /\ flow' = [i \in Slots |-> IF i \in kept THEN flow[i] ELSE NoFlow]
              /\ refCnt' = [left EXCEPT ![device] = 0]
    /\ nClients' = 0 /\ nextFreeClientID' = 1 /\ currentMaxClients' = 1
    /\ exception' = FALSE
    /\ ready' = {} /\ UNCHANGED current

Next == \/ Accept \/ Wait \/ Take \/ Yield \/ Disconnect \/ EstablishConnection
        \/ Request \/ Hangup \/ Reset

Spec == Init /\ [][Next]_vars

-----------------------------------------------------------------------------
\* The slots, counters and references are in range.
TypeOK == /\ clients \in [Slots -> Clients \cup {NoClient}]
          /\ nClients \in -2 * MaxClients .. MaxClients
          /\ nextFreeClientID \in 1 .. MaxClients
          /\ currentMaxClients \in 1 .. MaxClients
          /\ exception \in BOOLEAN
          /\ ready \subseteq Slots /\ current \in Slots \cup {0}
          /\ component \in [Owners -> Components \cup {NoComponent}]
          /\ flow \in [Slots -> Components \cup {NoFlow, Empty}]
          /\ refCnt \in [Components -> -1 .. 2 * MaxClients]

(* nextFreeClientID is "always MIN free client ID", and every loop over the  *)
(* clients below currentMaxClients sees all of them.  Only the client in a   *)
(* slot owns ids there: no flow and no bucket outlives its client, unless    *)
(* the client is retained.                                                   *)
SlotsAccountedFor ==
    /\ TypeOK
    /\ nextFreeClientID = Min({MaxClients} \cup {i \in Slots : clients[i] = NoClient})
    /\ \A i \in Slots : clients[i] # NoClient => i < currentMaxClients
    /\ \A i \in Slots : (component[i] # NoComponent \/ flow[i] # NoFlow) => clients[i] # NoClient

(* The server resets itself, and so closes every connection, only when no    *)
(* established client is connected: nClients is the "number active clients". *)
(* (Hangup changes no client.)                                               *)
ResetOnlyWhenIdle ==
    [][~exception /\ exception' /\ clients' # clients
          => \A i \in Slots : ~Established(i)']_vars

(* Dispatch reads requests only from a client that still has its connection: *)
(* one that another client killed earlier in the round is passed over.       *)
ServedClientConnected == current # 0 => Connected(current)

(* A component lives exactly as long as an id or a compiled flow refers to   *)
(* it, whichever of them, and of the clients that own them, goes first.      *)
ComponentsCounted ==
    \A c \in Components : refCnt[c] + 1 = Cardinality({i \in Owners : component[i] = c})
                                           + Cardinality({i \in Slots : flow[i] = c})

(* "the resources associated with the client are retained until the server   *)
(* is reset or AuKillClient is called": the slot of a retained client, and   *)
(* with it its id base, never passes to a new connection directly; it is     *)
(* given up in a request of another client or in a reset.                    *)
RetainedStay ==
    [][\A i \in Slots :
          clients[i] # NoClient /\ clients[i].gone /\ clients'[i] # clients[i]
             => clients'[i] = NoClient /\ (exception \/ current # 0)]_vars

(* A reset leaves no client, no flow and no bucket behind.                   *)
ResetFreesAll ==
    [][exception /\ ~exception' =>
          /\ \A i \in Slots : clients'[i] = NoClient /\ flow'[i] = NoFlow
          /\ \A i \in Slots : component'[i] = NoComponent
          /\ \E c \in Components : \A d \in Components : refCnt'[d] # -1 => d = c]_vars
=============================================================================

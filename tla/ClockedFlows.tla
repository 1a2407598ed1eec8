---------------------------- MODULE ClockedFlows ----------------------------
(* The states of flows and their elements, the actions that state changes     *)
(* trigger, the compiled flow that the audio interrupt runs                   *)
(* (server/dia/auutil.c, auprocess.c, audispatch.c), and with it the driver.  *)
(*                                                                            *)
(* The server's requests and the interrupt run the same functions.  Each has  *)
(* a stack of frames, what its calls have left to do; the interrupt's runs to *)
(* its end before the server goes on.  AuBlockAudio masks the signal, and     *)
(* AuUnBlockAudio unmasks it however often it was blocked.                    *)
(*                                                                            *)
(* A flow has an input element "in" and an output element "out".              *)
EXTENDS SoundCard, Sequences, SequencesExt, FiniteSetsExt

CONSTANTS Flows, NoFlow,  \* the flows, and the null pointer
          OutputOf,       \* the component of each flow's output
          Clients,        \* the flows whose input is an ImportClient with discard
          Actions,        \* the actions of each flow's input, in order
          RateOf,         \* the highest sample rate of each flow's elements
          Mortal,         \* the flows that are destroyed, set up again or in error
          Outcomes,       \* how SetElements may end: "ok", "compile", "parse"
          Preempted,      \* the frames of the server before which a tick may come
          Hurried,        \* a reset may come before the tick that ends the last flow
          MaxChanges,     \* bound on the changes of one SetElementStates
          MaxDepth        \* bound on the stacks

States == {"Stop", "Start", "Pause"}
Ends == {"in", "out"}
Reasons == {"User", "EOF", "Underrun"}

ASSUME FlowsAssumption ==
    /\ NoFlow \notin Flows /\ Clients \subseteq Flows /\ Mortal \subseteq Flows
    /\ RateOf \in [Flows -> MinRate .. MaxRate] /\ Hurried \in BOOLEAN
    /\ Outcomes \subseteq {"ok", "compile", "parse"}
    /\ Actions \in [Flows -> Seq([state : States \cup {"Any"}, prev : States \cup {"Any"},
                                 reason : Reasons \cup {"Any"}, flow : Flows, new : States])]
    /\ MaxChanges \in Nat

VARIABLES head, next, prev,  \* auClockedFlows, and the links of every flow
          elems,         \* the flows that have elements
          el, was, flag, \* state, prevState and stateChange of the elements
          state, pending,\* state and pendingState of the flows
          processed,     \* the output components with the processed flag
          auFlow,        \* the outputs of the running compiled flow
          enabled,       \* processFlowEnabled of auprocess.c
          card,          \* the driver; card.enabled is its own processFlowEnabled
          rate,          \* auCurrentSampleRate
          masked,        \* SIGALRM is blocked
          stack          \* what the server and the tick have left to do

links == <<head, next, prev>>
elements == <<el, was, flag>>
device == <<enabled, card, rate>>
flowVars == <<links, elems, elements, state, pending, processed, auFlow, device, masked, stack>>

FlowsInit == /\ head = NoFlow /\ next = [f \in Flows |-> NoFlow] /\ prev = next
             /\ elems = {}
             /\ el = [f \in Flows |-> [e \in Ends |-> "Stop"]] /\ was = el /\ flag = {}
             /\ state = [f \in Flows |-> "Stop"] /\ pending = state
             /\ processed = {}
             /\ auFlow = <<>> /\ enabled = FALSE
             /\ card \in {NewCard(setup) : setup \in Setups} /\ rate = 0
             /\ masked = FALSE
             /\ stack = [t \in {"server", "tick"} |-> <<>>]

-----------------------------------------------------------------------------
\* The frames of the stacks: a call, or the rest of one.
Change(f, es, new, process, reason) ==
    [op |-> "change", flow |-> f, es |-> es, new |-> new, process |-> process,
     reason |-> reason]
Check(f, e, process, reason) ==
    [op |-> "check", flow |-> f, e |-> e, process |-> process, reason |-> reason]
Store(f, new) == [op |-> "store", flow |-> f, new |-> new]
OnFlow(op, f) == [op |-> op, flow |-> f]
Unblock == [op |-> "unblock"]
Process == [op |-> "process"]
Find(f, new) == [op |-> "find", flow |-> f, compiled |-> new]
Gather(f, g, groups, new) ==
    [op |-> "gather", flow |-> f, at |-> g, groups |-> groups, compiled |-> new]
Update(f, new) == [op |-> "update", flow |-> f, compiled |-> new]
Setup(new) == [op |-> "setup", compiled |-> new]
Swap(new) == [op |-> "swap", compiled |-> new]
Enable(started) == [op |-> "enable", started |-> started]
Mark(started) == [op |-> "mark", started |-> started]
Rearm == [op |-> "rearm"]
Read(f, new, reason) == [op |-> "read", flow |-> f, new |-> new, reason |-> reason]
Install(f, outcome) == [op |-> "install", flow |-> f, outcome |-> outcome]

\* The interrupt runs until it is done; the top frame is the next step.
Running == IF stack["tick"] # <<>> THEN "tick" ELSE "server"
Top == Head(stack[Running])
At(op) == stack[Running] # <<>> /\ Top.op = op
Continue(frames) == stack' = [stack EXCEPT ![Running] = frames \o Tail(@)]
If(c, frames) == IF c THEN frames ELSE <<>>

-----------------------------------------------------------------------------
\* The elements that change; "changing from stopped to paused is not allowed".
Changed(f, es, new) == {e \in es : /\ f \in elems /\ new # el[f][e]
                                   /\ ~(new = "Pause" /\ el[f][e] = "Stop")}

\* AuChangeElementState: under the block, every element whose state changes is
\* flagged; then their actions are checked and the state of the flow is set.
ChangeStates ==
    /\ At("change")
    /\ LET f == Top.flow
           changed == Changed(f, Top.es, Top.new)
           check(e) == If(e \in Top.es, <<Check(f, e, Top.process, Top.reason)>>)
       IN /\ el' = [el EXCEPT ![f] = [e \in Ends |-> IF e \in changed THEN Top.new ELSE @[e]]]
          /\ was' = [was EXCEPT ![f] = [e \in Ends |-> IF e \in changed THEN el[f][e] ELSE @[e]]]
          /\ flag' = flag \cup {<<f, e>> : e \in changed}
          /\ Continue(check("in") \o check("out")
                        \o If(changed # {}, <<OnFlow("count", f)>>) \o <<Unblock>>
                        \o If(Top.process, <<OnFlow("compare", f)>>))
    /\ masked' = TRUE
    /\ UNCHANGED <<links, elems, state, pending, processed, auFlow, device>>

\* Mutant: an action that requires a previous state is never triggered.
TriggeredAnyPrev(f, s, p, reason) ==
    FlattenSeq([i \in 1 .. Len(Actions[f]) |->
        LET a == Actions[f][i]
        IN If(a.state = s /\ a.prev = "Any" /\ a.reason \in {reason, "Any"}, <<a>>)])

\* The actions of input f that a change from state p to s for this reason fires.
Triggered(f, s, p, reason) ==
    FlattenSeq([i \in 1 .. Len(Actions[f]) |->
        LET a == Actions[f][i]
        IN If(/\ a.state \in {s, "Any"} /\ a.prev \in {p, "Any"}
              /\ a.reason \in {reason, "Any"}, <<a>>)])

\* checkForTriggeredActions for a flagged element.  An ImportClient that starts
\* from stop is paused first, "before anything gets going".
CheckActions ==
    /\ At("check")
    /\ LET f == Top.flow
           e == Top.e
           pause == /\ e = "in" /\ f \in Clients
                    /\ was[f][e] = "Stop" /\ el[f][e] = "Start"
           s == IF pause THEN "Pause" ELSE el[f][e]
           p == IF pause THEN "Start" ELSE was[f][e]
           reason == IF pause THEN "Underrun" ELSE Top.reason
           fired == IF e = "in" THEN Triggered(f, s, p, reason) ELSE <<>>
       IN IF <<f, e>> \in flag
            THEN /\ flag' = flag \ {<<f, e>>}
                 /\ el' = [el EXCEPT ![f][e] = s]
                 /\ was' = [was EXCEPT ![f][e] = p]
                 /\ Continue([i \in 1 .. Len(fired) |->
                                Change(fired[i].flow, Ends, fired[i].new, Top.process, reason)])
            ELSE Continue(<<>>) /\ UNCHANGED elements
    /\ UNCHANGED <<links, elems, state, pending, processed, auFlow, device, masked>>

\* setFlowState counts the elements, and then stores what they amount to.
CountStates ==
    /\ At("count")
    /\ LET ss == {el[Top.flow][e] : e \in Ends}
       IN Continue(<<Store(Top.flow, IF "Start" \in ss THEN "Start"
                                     ELSE IF "Pause" \in ss THEN "Pause" ELSE "Stop")>>)
    /\ UNCHANGED <<links, elems, elements, state, pending, processed, auFlow, device, masked>>

StoreState ==
    /\ At("store")
    /\ pending' = [pending EXCEPT ![Top.flow] = Top.new]
    /\ Continue(<<>>)
    /\ UNCHANGED <<links, elems, elements, state, processed, auFlow, device, masked>>

\* AuUnBlockAudio, however many calls that blocked are still to return.
UnblockAudio ==
    /\ At("unblock")
    /\ masked' = FALSE
    /\ Continue(<<>>)
    /\ UNCHANGED <<links, elems, elements, state, pending, processed, auFlow, device>>

\* The end of AuChangeElementState with processFlow.
CompareState ==
    /\ At("compare")
    /\ Continue(If(state[Top.flow] # pending[Top.flow], <<Process>>))
    /\ UNCHANGED <<links, elems, elements, state, pending, processed, auFlow, device, masked>>

-----------------------------------------------------------------------------
\* Mutant: the processed flags are not cleared.
ClearNothing ==
    /\ At("process")
    /\ Continue(<<Find(head, <<>>)>>)
    /\ UNCHANGED <<links, elems, elements, state, pending, processed, auFlow, device, masked>>

\* AuProcessClockedFlows: AuProcessFlows clears the processed flags, ...
ClearProcessed ==
    /\ At("process")
    /\ processed' = processed \ {OutputOf[f] : f \in elems}
    /\ Continue(<<Find(head, <<>>)>>)
    /\ UNCHANGED <<links, elems, elements, state, pending, auFlow, device, masked>>

\* ... looks for the flows whose output is not processed yet, ...
FindOutput ==
    /\ At("find")
    /\ LET f == Top.flow
       IN Continue(<<IF f = NoFlow THEN Update(head, Top.compiled)
                     ELSE IF \/ f \notin elems \/ pending[f] # "Start"
                             \/ OutputOf[f] \in processed
                       THEN Find(next[f], Top.compiled)
                     ELSE Gather(f, head, <<>>, Top.compiled)>>)
    /\ UNCHANGED <<links, elems, elements, state, pending, processed, auFlow, device, masked>>

\* ... gathers the inputs of all started flows with that output, with the
\* output element of the first.  If the tick has stopped them all meanwhile the
\* server divides by zero: 1 << 16 by the number of groups.  Then it ...
GatherInputs ==
    /\ At("gather")
    /\ LET f == Top.flow
           g == Top.at
           belongs == g \in elems /\ pending[g] = "Start" /\ OutputOf[g] = OutputOf[f]
       IN \/ /\ g = NoFlow /\ Top.groups # <<>>
             /\ Continue(<<Find(next[f], Append(Top.compiled,
                                                [lead |-> f, groups |-> Top.groups]))>>)
             /\ processed' = processed \cup {OutputOf[f]}
          \/ /\ g # NoFlow /\ belongs
             /\ Continue(<<Gather(f, next[g], Append(Top.groups, g), Top.compiled)>>)
             /\ processed' = processed \cup {OutputOf[g]}
          \/ /\ g # NoFlow /\ ~belongs
             /\ Continue(<<Gather(f, next[g], Top.groups, Top.compiled)>>)
             /\ UNCHANGED processed
    /\ UNCHANGED <<links, elems, elements, state, pending, auFlow, device, masked>>

\* Mutant: only the flows that are compiled get their pending state.
UpdateStartedState ==
    /\ At("update")
    /\ LET f == Top.flow
       IN IF f = NoFlow
            THEN Continue(<<Setup(Top.compiled)>>) /\ UNCHANGED state
            ELSE /\ state' = IF pending[f] = "Start" THEN [state EXCEPT ![f] = "Start"] ELSE state
                 /\ Continue(<<Update(next[f], Top.compiled)>>)
    /\ UNCHANGED <<links, elems, elements, pending, processed, auFlow, device, masked>>

\* ... makes the pending states of all flows their states, and then ...
UpdateState ==
    /\ At("update")
    /\ LET f == Top.flow
       IN IF f = NoFlow
            THEN Continue(<<Setup(Top.compiled)>>) /\ UNCHANGED state
            ELSE /\ state' = [state EXCEPT ![f] = pending[f]]
                 /\ Continue(<<Update(next[f], Top.compiled)>>)
    /\ UNCHANGED <<links, elems, elements, pending, processed, auFlow, device, masked>>

FlowsOf(compiled) == UNION {ToSet(compiled[i].groups) : i \in 1 .. Len(compiled)}

\* ... AuSetupCompiledFlow sets the card to the highest rate and prepares the
\* conversions of all inputs and outputs for what the card makes of it.
SetupCompiledFlow ==
    /\ At("setup")
    /\ LET wanted == Max({MinRate} \cup {RateOf[f] : f \in FlowsOf(Top.compiled)})
       IN IF rate = wanted THEN UNCHANGED <<card, rate, masked>>
          ELSE /\ card' = SetSampleRate(card, wanted)
               /\ rate' = card'.outRate
               /\ masked' = FALSE
    /\ Continue(<<Swap(Top.compiled)>>)
    /\ UNCHANGED <<links, elems, elements, state, pending, processed, auFlow, enabled>>

\* AuStartFlow replaces the compiled flow under the block, and then ...
SwapFlow ==
    /\ At("swap")
    /\ auFlow' = Top.compiled
    /\ masked' = FALSE
    /\ Continue(<<Enable(Top.compiled # <<>>)>>)
    /\ UNCHANGED <<links, elems, elements, state, pending, processed, device>>

\* ... has the driver enabled or disabled, unless it is already, ...
EnableInterrupt ==
    /\ At("enable")
    /\ LET started == Top.started
       IN IF started = enabled THEN Continue(<<>>) /\ UNCHANGED card
          ELSE /\ started \/ Closes(card)
               /\ card' = IF started THEN EnableProcessFlow(card) ELSE DisableProcessFlow(card)
               /\ Continue(<<Mark(started)>>)
    /\ UNCHANGED <<links, elems, elements, state, pending, processed, auFlow, enabled, rate, masked>>

\* ... and remembers it.
MarkEnabled ==
    /\ At("mark")
    /\ enabled' = Top.started
    /\ Continue(<<>>)
    /\ UNCHANGED <<links, elems, elements, state, pending, processed, auFlow, card, rate, masked>>

-----------------------------------------------------------------------------
InputFlows == FlattenSeq([i \in 1 .. Len(auFlow) |-> auFlow[i].groups])

\* intervalProc and AuProcessData: the interrupt stops the timer and reads the
\* inputs of the compiled flow; any of them may be at its end, and an
\* ImportClient may have run dry.  Without a compiled flow it disables the driver.
Tick ==
    /\ stack["tick"] = <<>> /\ card.armed /\ card.enabled /\ ~masked
    /\ stack["server"] # <<>> => Head(stack["server"]).op \in Preempted
    /\ IF auFlow = <<>>
         THEN /\ enabled /\ enabled' = FALSE /\ Closes(card)
              /\ card' = DisableProcessFlow(card)
              /\ UNCHANGED stack
         ELSE /\ \E ends \in SUBSET ToSet(InputFlows), dry \in SUBSET Clients :
                   /\ ends # {} \/ dry # {}
                   /\ dry \subseteq ToSet(InputFlows) \ ends
                   /\ stack' = [stack EXCEPT !["tick"] =
                        FlattenSeq([i \in 1 .. Len(InputFlows) |->
                           LET f == InputFlows[i]
                           IN If(f \in ends, <<Read(f, "Stop", "EOF")>>)
                              \o If(f \in dry, <<Read(f, "Pause", "Underrun")>>)]) \o <<Rearm>>]
              /\ card' = StopTimer(card)
              /\ UNCHANGED enabled
    /\ UNCHANGED <<links, elems, elements, state, pending, processed, auFlow, rate, masked>>

\* The end of intervalProc.
RearmTimer ==
    /\ At("rearm")
    /\ card' = StartTimer(card)
    /\ Continue(<<>>)
    /\ UNCHANGED <<links, elems, elements, state, pending, processed, auFlow, enabled, rate, masked>>

\* readInput: a started input changes its state at its end, and the caller notes
\* whether its flow has to be processed.
ReadInput ==
    /\ At("read")
    /\ Continue(If(el[Top.flow]["in"] = "Start",
                   <<Change(Top.flow, {"in"}, Top.new, FALSE, Top.reason),
                     OnFlow("note", Top.flow)>>))
    /\ UNCHANGED <<links, elems, elements, state, pending, processed, auFlow, device, masked>>

\* After all inputs, the interrupt processes the flows if one of them changed.
NoteChange ==
    /\ At("note")
    /\ LET rest == Tail(stack["tick"])
       IN stack' = [stack EXCEPT !["tick"] =
                      IF state[Top.flow] # pending[Top.flow] /\ Process \notin ToSet(rest)
                        THEN Front(rest) \o <<Process, Rearm>> ELSE rest]
    /\ UNCHANGED <<links, elems, elements, state, pending, processed, auFlow, device, masked>>

-----------------------------------------------------------------------------
Idle == stack["server"] = <<>> /\ stack["tick"] = <<>>
Serve(frames) == /\ Idle /\ stack' = [stack EXCEPT !["server"] = frames]
                 /\ UNCHANGED <<links, elems, elements, state, pending, processed, auFlow,
                                device, masked>>

\* SetElementStates: the changes in order, and then AuProcessClockedFlows.
SetElementStates ==
    \E k \in 1 .. MaxChanges : \E fs \in [1 .. k -> elems], ss \in [1 .. k -> States] :
      Serve([i \in 1 .. k |-> Change(fs[i], Ends, ss[i], FALSE, "User")] \o <<Process>>)

\* WriteElement starts a paused ImportClient again.
WriteElement ==
    \E f \in Clients \cap elems : /\ el[f]["in"] = "Pause"
                                  /\ Serve(<<Change(f, {"in"}, "Start", TRUE, "User")>>)

\* SetElements frees the elements the flow has, and installs new ones.
SetElements ==
    \E f \in Flows, outcome \in Outcomes :
      /\ f \in Mortal \/ (f \notin elems /\ outcome = "ok")
      /\ Serve(<<OnFlow("free", f), Install(f, outcome)>>)

DestroyFlow == \E f \in Mortal : Serve(<<OnFlow("free", f), OnFlow("destroy", f)>>)

\* The server resets itself when the last flow is gone (main, AuInitDevice).
Reset == /\ Idle /\ elems = {} /\ (Hurried \/ ~enabled) /\ Closes(card)
         /\ card' = ResetCard(card) /\ rate' = 0
         /\ UNCHANGED <<links, elems, elements, state, pending, processed, auFlow, enabled,
                        masked, stack>>

\* Mutant: the elements are freed without stopping them.
FreeRunningElements ==
    /\ At("free")
    /\ Continue(If(Top.flow \in elems, <<OnFlow("unlink", Top.flow)>>))
    /\ UNCHANGED <<links, elems, elements, state, pending, processed, auFlow, device, masked>>

\* AuFreeFlowElements: "stop the flow if it's running".
FreeElements ==
    /\ At("free")
    /\ LET f == Top.flow
       IN Continue(If(f \in elems /\ state[f] # "Stop",
                      <<Change(f, Ends, "Stop", TRUE, "User")>>)
                   \o If(f \in elems, <<OnFlow("unlink", f)>>))
    /\ UNCHANGED <<links, elems, elements, state, pending, processed, auFlow, device, masked>>

\* RemoveFromLinkedList, and the elements are freed.
Unlink ==
    /\ At("unlink")
    /\ LET f == Top.flow
       IN /\ prev' = IF next[f] = NoFlow THEN prev ELSE [prev EXCEPT ![next[f]] = prev[f]]
          /\ next' = IF prev[f] = NoFlow THEN next ELSE [next EXCEPT ![prev[f]] = next[f]]
          /\ head' = IF prev[f] = NoFlow THEN next[f] ELSE head
          /\ elems' = elems \ {f}
          /\ flag' = flag \ {<<f, e>> : e \in Ends}
    /\ Continue(<<>>)
    /\ UNCHANGED <<el, was, state, pending, processed, auFlow, device, masked>>

\* The elements are new and stopped.  The flow is linked before it is compiled,
\* but after its actions are checked ("parse"); an error frees the elements.
InstallElements ==
    /\ At("install")
    /\ LET f == Top.flow
           listed == Top.outcome # "parse"
       IN /\ el' = [el EXCEPT ![f] = [e \in Ends |-> "Stop"]]
          /\ was' = [was EXCEPT ![f] = [e \in Ends |-> "Stop"]]
          /\ flag' = flag \ {<<f, e>> : e \in Ends}
          /\ state' = [state EXCEPT ![f] = "Stop"]
          /\ elems' = elems \cup {f}
          /\ next' = IF listed THEN [next EXCEPT ![f] = head] ELSE next
          /\ prev' = IF listed THEN [g \in Flows |-> IF g = f THEN NoFlow
                                                     ELSE IF g = head THEN f ELSE prev[g]]
                     ELSE prev
          /\ head' = IF listed THEN f ELSE head
          /\ Continue(If(Top.outcome # "ok", <<OnFlow("free", f)>>))
    /\ UNCHANGED <<pending, processed, auFlow, device, masked>>

\* freeFlow; a flow that is created later starts out cleared.
FreeFlow ==
    /\ At("destroy")
    /\ LET f == Top.flow
       IN /\ next' = [next EXCEPT ![f] = NoFlow] /\ prev' = [prev EXCEPT ![f] = NoFlow]
          /\ state' = [state EXCEPT ![f] = "Stop"] /\ pending' = [pending EXCEPT ![f] = "Stop"]
    /\ Continue(<<>>)
    /\ UNCHANGED <<head, elems, elements, processed, auFlow, device, masked>>

-----------------------------------------------------------------------------
ChangeElementState == \/ ChangeStates \/ CheckActions \/ CountStates \/ StoreState
                      \/ UnblockAudio \/ CompareState
ProcessClockedFlows == \/ ClearProcessed \/ FindOutput \/ GatherInputs \/ UpdateState
                       \/ SetupCompiledFlow \/ SwapFlow \/ EnableInterrupt \/ MarkEnabled
Interrupt == Tick \/ ReadInput \/ NoteChange \/ RearmTimer
Request == SetElementStates \/ WriteElement \/ SetElements \/ DestroyFlow \/ Reset
FlowChange == FreeElements \/ Unlink \/ InstallElements \/ FreeFlow

FlowsNext == ChangeElementState \/ ProcessClockedFlows \/ Interrupt \/ Request \/ FlowChange

FlowsSpec == FlowsInit /\ [][FlowsNext]_flowVars

-----------------------------------------------------------------------------
Pointers == Flows \cup {NoFlow}
Ops == {"change", "check", "count", "store", "unblock", "compare", "process", "find", "gather",
        "update", "setup", "swap", "enable", "mark", "rearm", "read", "note", "free", "unlink", "install", "destroy"}

\* The variables keep their types, and the calls their depth: an action that
\* triggers others (AuChangeElementState and checkForTriggeredActions call each
\* other) comes to an end, because an element that is in the state already does
\* not change again.
FlowsTypeOK == /\ head \in Pointers
               /\ next \in [Flows -> Pointers] /\ prev \in [Flows -> Pointers]
               /\ elems \subseteq Flows
               /\ el \in [Flows -> [Ends -> States]] /\ was \in [Flows -> [Ends -> States]]
               /\ flag \subseteq Flows \X Ends
               /\ state \in [Flows -> States] /\ pending \in [Flows -> States]
               /\ processed \subseteq {OutputOf[f] : f \in Flows}
               /\ \A i \in 1 .. Len(auFlow) : /\ auFlow[i].lead \in Flows
                                              /\ ToSet(auFlow[i].groups) \subseteq Flows
               /\ enabled \in BOOLEAN /\ card \in Cards /\ rate \in Nat /\ masked \in BOOLEAN
               /\ \A t \in {"server", "tick"} :
                    /\ Len(stack[t]) <= MaxDepth
                    /\ \A i \in 1 .. Len(stack[t]) : stack[t][i].op \in Ops

\* The interrupt never runs a flow whose elements are freed: "stop the flow if
\* it's running" (AuFreeFlowElements, auutil.c:126) takes it out of auFlow.
RunningFlowsExist == \A i \in 1 .. Len(auFlow) :
                       {auFlow[i].lead} \cup ToSet(auFlow[i].groups) \subseteq elems

\* Between two requests a flow is started if any element is started, paused if
\* none is and any is paused, and stopped if all are (auutil.c:935-942), and
\* nothing is pending.  At any time the variables have their types and the calls
\* their depth.
FlowStateAgrees ==
    /\ FlowsTypeOK
    /\ Idle => \A f \in elems :
         /\ state[f] = pending[f]
         /\ state[f] = "Start" <=> \E e \in Ends : el[f][e] = "Start"
         /\ state[f] = "Stop" <=> \A e \in Ends : el[f][e] = "Stop"

\* Between two requests the started flows, and no others, are in the compiled
\* flow, each once, and the interrupt is enabled to run them (AuProcessFlows,
\* AuStartFlow).
StartedFlowsRun ==
    Idle => /\ ToSet(InputFlows) = {f \in elems : state[f] = "Start"}
            /\ \A i, j \in 1 .. Len(InputFlows) : i # j => InputFlows[i] # InputFlows[j]
            /\ auFlow # <<>> => enabled /\ card.enabled /\ card.armed

\* A flow whose elements are started is heard: the output element that stands
\* for its output in the compiled flow, which may be another flow's, is started
\* too (AuProcessFlow, auprocess.c:940, 965).
StartedFlowsHeard ==
    Idle => \A i \in 1 .. Len(auFlow) : \A f \in ToSet(auFlow[i].groups) :
              (\A e \in Ends : el[f][e] = "Start") => el[auFlow[i].lead]["out"] = "Start"

\* Between two requests the devices are at the disposal of the flows: what runs
\* has an open output and an input of its own, both at the rate for which the
\* flows were compiled, and when nothing runs the driver is disabled, or the
\* next tick disables it; then it has released the devices if it is to
\* ("whenever it has finished playing a sound", nasd.man:18).
DeviceFollowsFlows ==
    Idle => /\ auFlow # <<>> => /\ card.open
                                /\ card.input = IF card.setup.shared THEN "out" ELSE "own"
                                /\ rate = card.outRate /\ rate = card.inRate
            /\ auFlow = <<>> => \/ card.armed /\ card.enabled /\ enabled
                                \/ ~card.enabled /\ ~enabled /\ (card.setup.release => ~card.open)

\* The interrupt is not interrupted: "turn off the timer here so that a
\* potential race is avoided" (intervalProc, auvoxware.c:1142).
TimerOffInHandler == At("rearm") \/ (stack["tick"] # <<>> => ~card.armed \/ masked)
=============================================================================

--------------------------- MODULE MCClockedFlows ---------------------------
(* Three flows for TLC: A plays from a client into the speaker, B and C play  *)
(* from buckets, B into the same speaker and C into another output.  All have *)
(* the default actions of their kind; the end of C also starts B.             *)
EXTENDS ClockedFlows

MCFlows == {"A", "B", "C"}
MCTwoFlows == {"A", "B"}
MCOutputOf == [f \in Flows |-> IF f = "C" THEN "line" ELSE "speaker"]

MCAction(s, p, reason, f, new) ==
    [state |-> s, prev |-> p, reason |-> reason, flow |-> f, new |-> new]

\* numDefaultActions, and the actions SetElements fills in.
MCDefaultBucket(f) == <<MCAction("Stop", "Any", "Any", f, "Stop")>>
MCDefaultClient(f) == <<MCAction("Pause", "Any", "Any", f, "Pause"),
                        MCAction("Start", "Pause", "Any", f, "Start"),
                        MCAction("Stop", "Any", "Any", f, "Stop")>>

MCActions == [f \in Flows |->
    CASE f = "A" -> MCDefaultClient(f)
      [] f = "B" -> MCDefaultBucket(f)
      [] f = "C" -> Append(MCDefaultBucket(f), MCAction("Stop", "Any", "EOF", "B", "Start"))]

\* Where a tick may come: anywhere that the signal is not masked, or not while
\* AuProcessFlows goes through the flows, setFlowState counts the elements, and
\* AuStartFlow has enabled the driver and not yet noted that it did.
MCAnywhere == Ops
MCBetweenSteps == Ops \ {"store", "find", "gather", "update", "setup", "swap", "mark"}

\* The flow into the line has another rate.
MCRateOf == [f \in Flows |-> IF f = "C" THEN 22 ELSE 8]

\* A card with two devices that are released and take any rate, and one with
\* one device that is kept and knows only some rates.
MCSetups == {[release |-> TRUE, shared |-> FALSE, exact |-> TRUE],
             [release |-> FALSE, shared |-> TRUE, exact |-> FALSE]}
MCNearest == [r \in MinRate .. MaxRate |-> IF r < 11 THEN 11 ELSE r]
=============================================================================

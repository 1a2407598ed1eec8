SPECIFICATION FlowsSpec
CONSTANTS
    Flows <- MCFlows
    NoFlow = NoFlow
    OutputOf <- MCOutputOf
    Clients = {"A"}
    Actions <- MCActions
    Mortal = {"A", "C"}
    Outcomes = {"ok", "compile"}
    Preempted <- MCBetweenSteps
    RateOf <- MCRateOf
    MinRate = 4
    MaxRate = 44
    Nearest <- MCNearest
    Setups <- MCSetups
    Hurried = FALSE
    MaxChanges = 1
    MaxDepth = 16
INVARIANTS RunningFlowsExist FlowStateAgrees StartedFlowsRun StartedFlowsHeard DeviceFollowsFlows

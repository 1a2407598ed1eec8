SPECIFICATION Spec
CONSTANTS
    ann = ann
    bob = bob
    cid = cid
    Phones = {ann, bob}
    Dials <- BothWays
    Careful = TRUE
    Slots = 2
    MaxCalls = 1
    NoConn = NoConn
    NoRemote = NoRemote
INVARIANTS BusyWhileTalking
PROPERTIES AnswerCompletes HangupReachesOther
CHECK_DEADLOCK FALSE

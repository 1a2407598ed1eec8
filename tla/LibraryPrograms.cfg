SPECIFICATION Spec
CONSTANTS
    ann = ann
    bob = bob
    Threads = {ann, bob}
    Programs <- Kinds
    BufferSize = 2
    Wrap = 4
    MaxRequests = 6
    MaxData = 2
    MaxCalls = 4
    MaxEvents = 2
    NoThread = NoThread
INVARIANTS AnswersReachAskers EventsInOrder
PROPERTIES CallsReturn XtKeepsUp
CHECK_DEADLOCK FALSE

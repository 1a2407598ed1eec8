SPECIFICATION Spec
CONSTANTS
    asker = asker
    quiet = quiet
    Clients = {asker, quiet}
    Prefix = 1
    Auth <- Auths
    Requests <- Asked
    SetupReply <- Answer
    InSize = 6
    InMark = 6
    OutSize = 2
    Room = 3
    MaxTimes = 2
    NoClient = NoClient
INVARIANTS RequestsIntact RepliesInOrder InputNoticed
PROPERTIES EveryRequestAnswered
CHECK_DEADLOCK FALSE

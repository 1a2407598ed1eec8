SPECIFICATION Spec
CONSTANTS
    DataSize = 10
    HighWater = 4
    Chunk = 2
    Word = 32
    Totals = {2, 6, 14, 22, 30}
    InTime = TRUE
    MaxEvents = 14
INVARIANTS ReadsInOrder NothingLeftBehind
PROPERTIES RecordingEnds
CHECK_DEADLOCK FALSE

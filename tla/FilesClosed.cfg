SPECIFICATION Spec
CONSTANTS
    Formats <- AllFormats
    Rates = {8000, 44100}
    Comments = {0, 1, 2}
    Chunks = {1, 2, 3}
    LongSize = 8
    MaxData = 5
    MayCrash <- CrashFormats
    Sized <- SizedFormats
    Placed <- PlacedFormats
INVARIANTS ReadsBack TellLocatesAudio NothingInvented
CHECK_DEADLOCK FALSE

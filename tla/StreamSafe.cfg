SPECIFICATION StreamSpec
CONSTANTS
    DataSize = 8
    LowWater = 2
    Chunk = 2
    Word = 32
    Discard = TRUE
    Resample = FALSE
    Bps = 2
    MaxBytes = 18
    MaxEvents = 12
    Totals = {4, 8, 14, 18}
    Short = {2, 6, 12}
    Long = {4, 8, 10, 16, 18}
    MaxRequest = 3
    UserOps = {"Start", "Pause", "Stop"}
    MaxUserOps = 3
    WholeSamples <- MCWholeSamples
    Cases <- MCCases
INVARIANTS WritesFit IncomingCoversOwed PlayedToTheEnd
PROPERTIES SoundEnds
CHECK_DEADLOCK FALSE

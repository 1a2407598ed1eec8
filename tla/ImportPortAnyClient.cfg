SPECIFICATION Spec
CONSTANTS
    DataSize = 4
    LowWater = 1
    Chunk = 2
    Word = 8
    Discard = TRUE
    Resample = FALSE
    Bps = 1
    WholeSamples <- MCWholeSamples
    MaxBytes = 6
    MaxEvents = 2
INVARIANTS PortSound RingHoldsStream MinibufFilled

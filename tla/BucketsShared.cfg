SPECIFICATION BucketsSpec
CONSTANTS
    ann = ann
    bob = bob
    Clients = {ann, bob}
    ScratchFlows = {1, 2}
    Buckets = {1, 2}
    Size = 3
    MaxRequest = 2
    Counts = {1, 2}
    Behind = 0
    MaxCalls = 4
INVARIANTS SoundsKept
PROPERTIES SoundsPlayOut
CHECK_DEADLOCK FALSE

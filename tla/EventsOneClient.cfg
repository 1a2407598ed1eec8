SPECIFICATION Spec
CONSTANTS
    Cells = {c1, c2, c3}
    Flows = {f1, f2}
    Posting = {f1}
    Destroyable = {f1, f2}
    MaxPosts = 3
    NULL = NULL
INVARIANTS QueueWellFormed
PROPERTIES ImplementsFifo EveryEventIsHandled

SPECIFICATION Spec
CONSTANTS
    MaxClients = 4
    Components = {c1, c2, c3}
    NoClient = NoClient
    NoComponent = NoComponent
    NoFlow = NoFlow
    Empty = Empty
    Happens = {}
SYMMETRY MCSymmetry
INVARIANTS SlotsAccountedFor ServedClientConnected ComponentsCounted
PROPERTIES ResetOnlyWhenIdle RetainedStay ResetFreesAll

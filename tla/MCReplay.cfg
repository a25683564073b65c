SPECIFICATION Spec
CONSTANTS
    x = x
    xx = xx
    y = y
    yy = yy
    MaxId = 4
    Updates <- MCUpdates
    Units <- MCUnits
    Times = {0}
    MaxSnapshots = 2
    MaxEvents = 4
    NoId = NoId
    NoEvent = NoEvent
SYMMETRY UpdatesSymmetry
INVARIANTS
    TypeOK
    BookAtStreamHead
    CursorAhead
    GapsNeverTrusted
    IntervalsSeparated
    StreamCovered
PROPERTIES
    GapIsRecorded
    BridgeIsUsed
    VerifierAgrees
    ReferenceAgrees
CHECK_DEADLOCK FALSE

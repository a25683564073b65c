SPECIFICATION FairSpec
CONSTANTS
    MaxId = 3
    Attempts = 2
    MaxFrames = 3
    MaxDrops = 1
    MaxFailures = 1
    None = None
INVARIANTS
    TypeOK
    HolesLedgered
    BreaksLedgered
PROPERTIES
    AsksAnswered
CHECK_DEADLOCK FALSE

SPECIFICATION FairSpec
CONSTANTS
    QueueSize = 2
    MaxFrames = 5
    MaxDay = 2
    MaxFailures = 2
    NoRecord = NoRecord
    Stop = Stop
INVARIANTS
    TypeOK
    DrainedAtDetach
    WrittenInOrder
    CleanExit
PROPERTIES
    StopCompletes
    DaysFinalized
CHECK_DEADLOCK FALSE

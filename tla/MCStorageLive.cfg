SPECIFICATION FairSpec
CONSTANTS
    depth = depth
    trade = trade
    Streams <- OneStream
    NumHours = 4
    HoursPerDay = 2
    MaxRecords = 2
    MaxFaults = 1
    MaxShort = 0
    FaultStages <- StagesBeforeUnlink
    BootRace = FALSE
    NoFile = NoFile
    Damaged = Damaged
    NoKey = NoKey
PROPERTIES
    PastDaysFinalized
    RecoveryCompletes

SPECIFICATION FairSpec
CONSTANTS
    depth = depth
    trade = trade
    Streams <- OneStream
    NumHours = 4
    HoursPerDay = 2
    MaxRecords = 2
    MaxFaults = 0
    MaxShort = 0
    FaultStages <- StagesBeforeUnlink
    BootRace = TRUE
    NoFile = NoFile
    Damaged = Damaged
    NoKey = NoKey
PROPERTIES
    PastDaysFinalized

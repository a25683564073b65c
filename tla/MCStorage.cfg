SPECIFICATION Spec
CONSTANTS
    depth = depth
    trade = trade
    Streams <- MCStreams
    NumHours = 3
    HoursPerDay = 2
    MaxRecords = 2
    MaxFaults = 2
    MaxShort = 1
    FaultStages <- AllStages
    BootRace = FALSE
    NoFile = NoFile
    Damaged = Damaged
    NoKey = NoKey
SYMMETRY StreamSymmetry
INVARIANTS
    TypeOK
    Durable
    OneOwner
    OneActiveHour
    ManifestComplete
PROPERTIES
    ArchiveRefined

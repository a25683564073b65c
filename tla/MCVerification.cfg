SPECIFICATION VerifySpec
CONSTANTS
    a = a
    b = b
    Updates <- MCUpdates
    NumSources = 2
    NumIds = 4
    MaxEvents = 2
    None = None
SYMMETRY UpdatesSymmetry
INVARIANTS
    CoverageHolds
    ConflictsFound
    GapsMatchCoverage
CHECK_DEADLOCK FALSE

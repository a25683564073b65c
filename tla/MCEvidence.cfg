SPECIFICATION Spec
CONSTANTS
    v1 = v1
    v2 = v2
    e1 = e1
    e2 = e2
    c1 = c1
    c2 = c2
    Symbols = {s1, s2}
    Exported = s1
    Verifications <- MCVerifications
    Exports <- MCExports
    Contents <- MCContents
    NumEvents = 2
    Intervals = {1, 2}
    Summary = Summary
    Empty = Empty
    None = None
SYMMETRY EvidenceSymmetry
INVARIANTS
    LedgerMatchesReports
    EvidenceHolds
CHECK_DEADLOCK FALSE

SPECIFICATION Spec
CONSTANTS
    o1 = o1
    o2 = o2
    o3 = o3
    o4 = o4
    OrderId <- MCIds
    MaxPrice = 2
    MaxQuantity = 2
    Nothing = Nothing
SYMMETRY IdSymmetry
INVARIANTS
    IndexAgrees
    NeverCrossed
PROPERTIES
    PriceTimePriority
CHECK_DEADLOCK FALSE

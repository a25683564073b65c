SPECIFICATION Spec
CONSTANTS
    MaxPrice = 3
    Quantity = {1, 2}
    MaxId = 2
INVARIANTS
    TrustCounted
PROPERTIES
    AsHistoricalBook

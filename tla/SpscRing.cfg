CONSTANTS
    Capacity = 4
    NoItem = NoItem
    Items = {a, b, c}
SPECIFICATION FairSpec
INVARIANTS
    NoDataRace
PROPERTIES
    ImplementsFifo
    Delivered

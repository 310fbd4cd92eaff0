SPECIFICATION Spec
SYMMETRY Symmetry
CHECK_DEADLOCK FALSE
CONSTANTS
    LastEpoch = 2
    Locations = {l1, l2}
    Quantities = {1, 2}
    MaxLots = 4
INVARIANTS
    LoopIsProfile
    LineageAccounts
PROPERTIES
    OldestFirst

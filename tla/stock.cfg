SPECIFICATION Spec
SYMMETRY Symmetry
CHECK_DEADLOCK FALSE
CONSTANTS
    None = None
    Products = {p1}
    Warehouses = {w1}
    Locations = {l1, l2}
    Requests = {c1, c2}
    Reservations = {r1}
    Quantities = {1, 2}
    Capacities = {1, 2}
    PatchedVolumes = {}
    LastEpoch = 2
    MaxIncoming = 2
INVARIANTS
    TypeOK
    NoOversell
    NoLeakedHold
    LotsMatchAggregate
    UnitsReconcile
PROPERTIES
    TransferFits
    ReceiptsFitTogether
    AgesConserved
    VolumeFollowsStock
    ImplementsLedger

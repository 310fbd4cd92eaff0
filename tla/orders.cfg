SPECIFICATION OrdersSpec
SYMMETRY Symmetry
CHECK_DEADLOCK FALSE
CONSTANTS
    None = None
    Products = {p1}
    Warehouses = {w1}
    Locations = {l1}
    Requests = {}
    Reservations = {}
    Quantities = {1, 2}
    Capacities = {3, 4}
    PatchedVolumes = {0}
    LastEpoch = 1
    MaxIncoming = 4
    Clerks = {k1, k2}
    Lines = {a, b}
    MaxEntries = 2
INVARIANTS
    ApprovedBeforeReceived
    ReceivedMeansComplete
PROPERTIES
    CompletionNoticed
    LinesFollowStock
    OrderReceiptFits
    OverReceiptNeedsOverlap

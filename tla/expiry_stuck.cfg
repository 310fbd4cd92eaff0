SPECIFICATION ExpirySpec
CHECK_DEADLOCK FALSE
CONSTANTS
    None = None
    Worker = worker
    Limit = 1
    Products = {p1}
    Warehouses = {w1}
    Locations = {l1}
    Requests = {c1, worker}
    Reservations = {r1, r2}
    Quantities = {1}
    Capacities = {2}
    PatchedVolumes = {}
    LastEpoch = 1
    MaxIncoming = 2
PROPERTIES
    EveryReservationEnds

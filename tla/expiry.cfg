SPECIFICATION ExpirySpec
CHECK_DEADLOCK FALSE
CONSTANTS
    None = None
    Worker = worker
    Limit = 2
    Products = {p1}
    Warehouses = {w1}
    Locations = {l1}
    Requests = {c1, worker}
    Reservations = {r1, r2, r3}
    Quantities = {1}
    Capacities = {3}
    PatchedVolumes = {}
    LastEpoch = 1
    MaxIncoming = 3
PROPERTIES
    BackedReservationsEnd

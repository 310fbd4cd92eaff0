SPECIFICATION DecaySpec
CHECK_DEADLOCK FALSE
CONSTANTS
    Lots = {1, 2}
    Companies = {{1}, {2}}
    Calls = {a, b}
    Daily = {a}
    Threshold = 1
    Thresholds = {1, 2}
    Window = 2
    Cap = 50
    Limit = 1
    Discounts = {0, 50}
    MaxTime = 3
INVARIANTS
    OncePerWindow
PROPERTIES
    StaleLotsDecay

CONSTANTS
    t1 = t1
    t2 = t2
    c1 = c1
    Tabs = {t1, t2}
    Calls <- MCCalls
    Signing = {t1}
    Users = {u1, u2}
    MaxPairs = 2
    None = None
SPECIFICATION Spec
CHECK_DEADLOCK FALSE
INVARIANTS
    NoSelfRace
    PageShowsItsSession
PROPERTIES
    CallsEnd

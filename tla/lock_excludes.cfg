SPECIFICATION Spec
CHECK_DEADLOCK FALSE
CONSTANTS
    None = None
    Calls = {c1, c2}
    Keys = {1, 2}
INVARIANTS
    MutualExclusion

SPECIFICATION Spec
CHECK_DEADLOCK FALSE
CONSTANTS
    Jobs = {j1, j2, j3}
    Workers = {w1, w2}
    MaxAttempts = 3
INVARIANTS
    OnePlace
    AttemptsBounded
PROPERTIES
    EndIsFinal
    HeldJobsEnd

CONSTANTS
    Ids = {1, 2, 3, 5}
    Times = {1, 2}
    None = None
    Viewers <- MCViewers
    Colleagues <- MCColleagues
    Wanted <- MCWanted
    Meanwhile <- MCMeanwhile
    Start <- MCStart
    PageSize = 1
    MaxOwn = 1
    MaxOther = 1
    MaxVisits = 3
SPECIFICATION Spec
CHECK_DEADLOCK FALSE
INVARIANTS
    EveryRowOnce
    OwnChangesShow
    PagesFitApi
PROPERTIES
    HistoryKept

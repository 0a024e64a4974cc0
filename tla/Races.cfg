SPECIFICATION RacesSpec
CONSTANTS
    w0 = w0
    w1 = w1
    w2 = w2
    Workers = {w0, w1, w2}
    Does <- Jobs
    AllLists <- TwoLists
    HomeOf <- ThreeBuckets
    LimitOf <- Limit3
    Solo = w0
    MaxList = 2
    MaxTask = 3
    MaxIndex = 5
INVARIANTS  IndexUnique
PROPERTIES LimitOnlyBypassed RunsAsKanban
CHECK_DEADLOCK FALSE

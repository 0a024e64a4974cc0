SPECIFICATION Spec
CONSTANTS
    MaxList = 2
    MaxBucket = 3
    MaxTask = 2
    MaxIndex = 2
    Limits = {1}
    Positions = {0}
    Afters = {FALSE, TRUE}
    Months = {FALSE}
    UrlListMatches = TRUE
INVARIANTS
    RowsFit
    
PROPERTIES
    LimitOnlyBypassed
    DoneOnEntry
    
    
CHECK_DEADLOCK FALSE

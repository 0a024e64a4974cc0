SPECIFICATION FairSpec
CONSTANTS
    u1 = u1
    Users = {u1}
    HourLen = 2
    Day = 8
    MaxLate = 2
    MaxTokens = 1
INVARIANTS DeletedAsAsked 
PROPERTY DeletedInTheEnd

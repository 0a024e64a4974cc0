SPECIFICATION FairSpec
CONSTANTS
    u1 = u1
    u2 = u2
    Users = {u1, u2}
    Authors = {u1}
    Subscribers = {u2}
    Texts <- SomeTexts
    MaxRetries = 1
    QueueLen = 1
    MaxRequests = 2
    MaxFaults = 1
INVARIANTS TypeOK  
PROPERTIES SubscriberTold BusSettles
CHECK_DEADLOCK FALSE

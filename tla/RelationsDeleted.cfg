SPECIFICATION RelationsSpec
CONSTANTS
    c1 = c1
    Clients = {c1}
    Kinds <- Both
    Deletes <- Both
    MaxTask = 2
    MaxCopies = 2
INVARIANT Balanced
CHECK_DEADLOCK FALSE

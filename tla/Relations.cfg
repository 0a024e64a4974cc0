SPECIFICATION RelationsSpec
CONSTANTS
    c1 = c1
    Clients = {c1}
    Kinds <- Both
    Deletes <- Undirected
    MaxTask = 4
    MaxCopies = 2
INVARIANTS RowsSound Balanced
CONSTRAINT FewRelations
CHECK_DEADLOCK FALSE

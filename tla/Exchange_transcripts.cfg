SPECIFICATION Spec
CONSTANTS
    Server = {A, B}
    NoServer = none
    MaxRow = 4
    MaxSends = 1
    MaxCrashes = 1
    Kinds = {"transcript", "request", "document"}
    DocIds = {0, 1, 2}
SYMMETRY Symmetry
INVARIANTS IInv AcceptedMeansStored
PROPERTIES RowsKeepTheirDocument
CHECK_DEADLOCK FALSE

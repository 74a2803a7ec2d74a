SPECIFICATION Spec
CONSTANTS
    Server = {A, B}
    NoServer = none
    MaxRow = 3
    MaxSends = 1
    MaxCrashes = 0
    Kinds = {"transcript"}
    DocIds = {1, 2}
INVARIANTS AckNamesSenderTransaction
CHECK_DEADLOCK FALSE

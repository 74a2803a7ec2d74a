SPECIFICATION Spec
CONSTANTS
    Server = {A, B}
    NoServer = none
    MaxRow = 3
    MaxSends = 1
    MaxCrashes = 0
    Kinds = {"document"}
    DocIds = {0}
INVARIANTS DeliveredIsStored
CHECK_DEADLOCK FALSE

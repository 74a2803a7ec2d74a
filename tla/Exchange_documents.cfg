SPECIFICATION Spec
CONSTANTS
    Server = {A}
    NoServer = none
    MaxRow = 4
    MaxSends = 2
    MaxCrashes = 1
    Kinds = {"request"}
    DocIds = {0}
INVARIANTS TypeOK StoredOnce AnsweredIsRecorded SuccessMeansStored VerdictKept
PROPERTIES Delivers
CHECK_DEADLOCK FALSE

SPECIFICATION FairSpec
CONSTANTS
    Server = {A}
    NoServer = none
    MaxRow = 5
    MaxSends = 1
    MaxCrashes = 0
    Kinds = {"transcript", "request"}
    DocIds = {0}
PROPERTIES PostedIsAcknowledged ThreadsEnd
CHECK_DEADLOCK FALSE

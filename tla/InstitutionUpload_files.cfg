CONSTANTS
    u1 = u1
    u2 = u2
    c1 = c1
    c2 = c2
    bad = bad
    Upload = {u1, u2}
    Code = {c1, c2}
    BadCode = bad
    TypeOf <- Types
    Files <- LongFiles
    Providers = 2
    MaxOrg = 4
    MaxEdits = 0
    MaxCrashes = 1
SPECIFICATION FairSpec
INVARIANTS LinesAreAnswered
PROPERTIES UploadsEnd UploadsProgress
CHECK_DEADLOCK FALSE

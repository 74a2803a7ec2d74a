CONSTANTS
    u1 = u1
    u2 = u2
    c1 = c1
    c2 = c2
    bad = bad
    Upload = {u1, u2}
    Code = {c1, c2}
    BadCode = bad
    TypeOf <- Types
    Files <- ShortFiles
    Providers = 2
    MaxOrg = 4
    MaxEdits = 2
    MaxCrashes = 0
SPECIFICATION Spec
SYMMETRY Symmetry
INVARIANTS CodesAreUnique SuccessMeansServed ErrorLeavesNothing ReferencesExist UploadInv
CHECK_DEADLOCK FALSE

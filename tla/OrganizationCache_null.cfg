SPECIFICATION Spec
CONSTANTS
    local = local  other = other  t1 = t1  t2 = t2
    Organization = {local, other}
    Local = local
    Thread = {t1, t2}
    MaxEntries = 1
    Expire = 2
    MaxVersion = 3
SYMMETRY Symmetry
INVARIANTS PageHasOrganization
CHECK_DEADLOCK FALSE

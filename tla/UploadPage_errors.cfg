SPECIFICATION Spec
CONSTANTS
    u1 = u1  u2 = u2  q1 = q1  q2 = q2  q3 = q3
    Upload = {u1}
    Query = {q1, q2}
    MaxRows = 2
    MaxResults = 2
SYMMETRY Symmetry
INVARIANTS ErrorsAreDisplayed
CHECK_DEADLOCK FALSE

SPECIFICATION Spec
CONSTANTS
    p1 = p1  p2 = p2  a = a  b = b  q1 = q1  q2 = q2  q3 = q3  q4 = q4
    Page = {p1, p2}
    Data = {a, b}
    Operations <- AllOperations
    Reopens = {"post", "put"}
    Request = {q1, q2, q3}
    MaxRows = 2
    MaxId = 2
SYMMETRY Symmetry
INVARIANTS TypeOK ClosedRowIsStored OneRecordPerRow
CHECK_DEADLOCK FALSE

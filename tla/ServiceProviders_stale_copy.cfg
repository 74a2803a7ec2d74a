SPECIFICATION Spec
CONSTANTS
    p1 = p1  p2 = p2  x1 = x1  x2 = x2  q1 = q1  q2 = q2  q3 = q3
    Page = {p1, p2}
    Provider = {x1, x2}
    Request = {q1, q2, q3}
    MaxVersion = 1
SYMMETRY Symmetry
PROPERTIES ProvidersKeepTheirData
CHECK_DEADLOCK FALSE

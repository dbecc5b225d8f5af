\* A payment and a refund, then a second refund overlapped by a release
CONSTANTS
    Orders = {o1}
    Requests = {r1, r2, r3, r4}
    Connections = {c1, c2}
    NoOrder = NoOrder
    NoConnection = NoConnection
SPECIFICATION Spec
SYMMETRY Symmetry
INVARIANTS
    RefundedIsReturned
CHECK_DEADLOCK FALSE

\* One request at a time: a pool of one connection
CONSTANTS
    Orders = {o1}
    Requests = {r1, r2, r3, r4}
    Connections = {c1}
    NoOrder = NoOrder
    NoConnection = NoConnection
SPECIFICATION Spec
SYMMETRY Symmetry
INVARIANTS
    SettledOrderAgrees
PROPERTIES
    ImplementsStrictLedger
CHECK_DEADLOCK FALSE

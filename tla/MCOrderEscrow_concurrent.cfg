\* Four requests on one order, three of them at a time
CONSTANTS
    Orders = {o1}
    Requests = {r1, r2, r3, r4}
    Connections = {c1, c2, c3}
    NoOrder = NoOrder
    NoConnection = NoConnection
SPECIFICATION Spec
SYMMETRY Symmetry
INVARIANTS
    RefundLeavesNoHolding
    EscrowIffEverPaid
PROPERTIES
    ImplementsLedger
CHECK_DEADLOCK FALSE

\* Two events, two deliveries of them, and one request of the API on one order
CONSTANTS
    Orders = {o1}
    Requests = {d1, d2, r1}
    Deliveries = {d1, d2}
    Events = {e1, e2}
    Types = {"payment_intent.succeeded", "payment_intent.canceled", "payment_intent.payment_failed",
             "charge.refunded"}
    Connections = {c1, c2}
    NoOrder = NoOrder
    NoConnection = NoConnection
    NoEvent = NoEvent
SPECIFICATION WebhookSpec
SYMMETRY Symmetry
CHECK_DEADLOCK FALSE
INVARIANTS
    AckedIsApplied
    HeldMoneyHasASource

\* One event tried twice, beside a request of the API, on two connections
CONSTANTS
    Orders = {o1}
    Requests = {d1, d2, r1}
    Deliveries = {d1, d2}
    Events = {e1}
    Types = {"charge.succeeded", "charge.refunded", "payment_intent.processing"}
    Connections = {c1, c2}
    NoOrder = NoOrder
    NoConnection = NoConnection
    NoEvent = NoEvent
SPECIFICATION FairWebhookSpec
PROPERTIES
    EventuallyAcked
    EveryTransactionEnds
    WebhookImplementsOrders
CHECK_DEADLOCK FALSE

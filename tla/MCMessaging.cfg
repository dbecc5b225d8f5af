SPECIFICATION FairSpec
CONSTANTS
    Users = {u1, u2}
    Messages = {m1}
    Handlers = {h1, h2}
    NoMessage = NoMessage
    Nobody = Nobody
INVARIANTS StatusIsEarned SettledStatus
PROPERTIES ImplementsReceipts EventuallyRead
CHECK_DEADLOCK FALSE

\* Two requests that overlap each other and the scans of one worker
CONSTANTS
    Listings = {l1}
    Requests = {r1, r2}
    Workers = {w1}
    Texts = {"clean", "banned"}
    Edits <- Ordinary
    MaxAttempts = 2
    NoListing = NoListing
    NoWorker = NoWorker
SPECIFICATION FairSpec
CHECK_DEADLOCK FALSE
INVARIANTS
    SettledIsScored
    AdverseIsNotPublic
    SettledIsRecorded
PROPERTIES
    ImplementsPublication
    EventuallyDecided
    SerialPublicIsScored

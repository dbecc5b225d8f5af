\* A decision on an older text, applied last
CONSTANTS
    Listings = {l1}
    Requests = {r1, r2}
    Workers = {w1, w2}
    Texts = {"clean", "banned"}
    Edits <- Ordinary
    MaxAttempts = 2
    NoListing = NoListing
    NoWorker = NoWorker
SPECIFICATION Spec
CHECK_DEADLOCK FALSE
SYMMETRY Symmetry
INVARIANTS
    SettledPublicIsScored

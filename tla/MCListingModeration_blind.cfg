\* A status behind an empty location
CONSTANTS
    Listings = {l1}
    Requests = {r1, r2}
    Workers = {w1}
    Texts = {"clean", "sensitive", "banned"}
    Edits <- Blind
    MaxAttempts = 2
    NoListing = NoListing
    NoWorker = NoWorker
SPECIFICATION Spec
CHECK_DEADLOCK FALSE
SYMMETRY Symmetry
INVARIANTS
    FlaggedIsPaused

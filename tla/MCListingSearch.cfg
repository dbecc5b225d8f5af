SPECIFICATION FairSpec
CONSTANTS
    l1 = l1
    l2 = l2
    Listings = {l1, l2}
    Calls = {c1, c2}
    Rows <- MCRows
    Tables <- MCTables
    Asks <- MCAsks
    Operators = {"&"}
    PAGE_SIZE = 1
    CACHE_TTL = 0
    MAX_WRITES = 1
INVARIANTS ShownWasThere QuietAnswersAreExact
PROPERTY Converges
CHECK_DEADLOCK FALSE

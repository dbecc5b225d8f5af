SPECIFICATION Spec
CONSTANTS
    MockTabs = {t1}
    Server = server
    None = none
    MaxWrites = 2
    Keywords = {"", "lamp"}
    NoKeyword = ""
    PageCount <- MCPageCount
    MaxEdits = 2
    MaxCalls = 3
    MaxSignIns = 2
    MaxLoads = 2
    MaxReplies = 2
    Tabs = {t1, t2}
    Accounts = {ann, bob}
    Nobody = nobody
    Labels = {"red"}
    Files = {1, 2}
    Places = {lagos}
    NoPlace = noplace
    MaxListings = 2
    MaxSubmits = 2
    Visits <- MCVisits
    MaxChanges <- MCMaxChanges
INVARIANTS
    
    StorageAgrees
    DemoIsAnnounced
    SavedFormsAreComplete
    OwnChangesAreShown
PROPERTIES
    RepliesSurvive
    ListConverges
CHECK_DEADLOCK FALSE

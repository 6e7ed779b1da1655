CONSTANTS
    None = None
    NoEntry = NoEntry
    r1 = r1
    r2 = r2
    Types = {"switch"}
    Keys = {"lamp"}
    Values = {"on", "off"}
    Descriptions = {"", "porch"}
    Requests = {r1, r2}
    Overlap = TRUE
    Faults = {"get", "set_failed", "set_lost", "publish", "flow", "restart"}
SPECIFICATION Spec
SYMMETRY RequestSymmetry
INVARIANTS
    TypeOK
    SubscribersAgree
    RepliesShowOwnWrite
PROPERTIES
    WritesHonourRequests
    ImplementsFeed

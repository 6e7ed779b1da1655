CONSTANTS
    None = None
    NoEntry = NoEntry
    r1 = r1
    r2 = r2
    Types = {"switch", "heater"}
    Keys = {"lamp", "fan", ""}
    Values = {"on", "off", "dim"}
    Descriptions = {"", "porch"}
    Requests = {r1}
    Overlap = FALSE
    Faults = {"get", "set_failed", "set_lost", "publish", "flow", "restart"}
SPECIFICATION FairSpec
INVARIANTS
    StoreWellFormed
PROPERTIES
    RequestsAnswered

CONSTANTS
    None = None
    NoEntry = NoEntry
    Types = {"switch", "heater"}
    Keys = {"lamp", "fan"}
    Values = {"on", "off"}
    Descriptions = {""}
    Requests = {r1}
    Overlap = FALSE
    Faults = {"get", "publish", "restart"}
    BatchLength = 2
SPECIFICATION ListingSpec
INVARIANTS
    ListingTypeOK
PROPERTIES
    ListingsShowOneMoment

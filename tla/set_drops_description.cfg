CONSTANTS
    None = None
    NoEntry = NoEntry
    r1 = r1
    r2 = r2
    Types = {"switch"}
    Keys = {"lamp"}
    Values = {"on", "off"}
    Descriptions = {"", "porch"}
    Requests = {r1}
    Overlap = FALSE
    Faults = {"get"}
SPECIFICATION Spec
PROPERTIES
    SetKeepsDescription

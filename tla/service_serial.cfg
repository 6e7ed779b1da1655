CONSTANTS
    None = None
    NoEntry = NoEntry
    r1 = r1
    r2 = r2
    Types = {"switch"}
    Keys = {"lamp", "fan"}
    Values = {"on", "off", "dim"}
    Descriptions = {"", "porch"}
    Requests = {r1, r2}
    Overlap = FALSE
    Faults = {"set_failed", "flow"}
SPECIFICATION Spec
SYMMETRY RequestSymmetry
PROPERTIES
    ImplementsRegistry

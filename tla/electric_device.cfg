CONSTANTS
    None = None
    Switches = {"lamp"}
    OtherNames = {"fan"}
    Writers = {w1, w2}
    DefaultInterval = 3
    BackoffInterval = 1
    MaxBackoffInterval = 2
    Wrap = 6
    MaxChanges = 2
    MaxFaults = 2
SPECIFICATION FairSpec
INVARIANTS
    TypeOK
    SwitchesFollow
PROPERTIES
    PollsInTime
    SwitchesConverge

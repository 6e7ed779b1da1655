CONSTANTS
    HttpConns = {h1, h2}
    McpConns = {m1}
    Prober = h1
SPECIFICATION HealthFairSpec
CHECK_DEADLOCK FALSE
INVARIANTS
    HealthTypeOK
    RequestsKeepDependencies
    CleanExit
    VerdictsWereTrue
    NeverReadyAgain
PROPERTIES
    EndsOnceAsked

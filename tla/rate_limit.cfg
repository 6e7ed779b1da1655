CONSTANTS
    c1 = c1
    c2 = c2
    Clients = {c1, c2}
    Rate = 2
    Interval = 3
    MaxBurst = 3
    CleanupAge = 4
    MaxTime = 12
    NoBucket = NoBucket
SPECIFICATION Spec
SYMMETRY ClientSymmetry
INVARIANTS
    TypeOK
    NeverOverAdmits
PROPERTIES
    ForgottenAreFull

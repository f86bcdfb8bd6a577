SPECIFICATION Spec
CONSTANTS
    MaxLogins = 2
    MaxTime = 3
    Buffer = 1
    Lifetimes <- MCLifetimes
    Runs <- MCRuns
INVARIANTS
    OneRefresh
    SessionIsWanted
    Consistent
    RefreshPlanned

SPECIFICATION Spec
CONSTANTS
    desktop = desktop
    mcp = mcp
    oauth = oauth
    apiKey = apiKey
    Absent = Absent
    AnyValue = AnyValue
    Procs <- MCProcs
    Creds <- MCCreds
    v1 = v1
    v2 = v2
    Vals <- MCVals
    Critical <- MCCritical
    Protocol <- MCProtocol
    MaxGen = 2
    MaxCalls = 3
SYMMETRY ValsAlike
INVARIANTS
    KeysUsable
    NoLegacyLeft
PROPERTY
    ImplementsMap
\* the calls of a behaviour are bounded
CHECK_DEADLOCK FALSE

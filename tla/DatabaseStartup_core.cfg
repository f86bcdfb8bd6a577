CONSTANTS
    app1 = app1
    app2 = app2
    mcp = mcp
    Procs <- MCProcs
    Apps <- MCApps
    None = None
    Absent = Absent
    SoloRecovery = TRUE
    Orderly = TRUE
    FailAt <- MCFailAt
    NumBackups = 2
    MaxBackups = 1
SPECIFICATION Spec
INVARIANTS MutualExclusion RestoresAlone
PROPERTIES ImplementsDurable StartsSettle
CHECK_DEADLOCK FALSE

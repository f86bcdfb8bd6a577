CONSTANTS
    app1 = app1
    app2 = app2
    mcp = mcp
    Procs <- MCProcs
    Apps <- MCApps
    None = None
    Absent = Absent
    SoloRecovery = FALSE
    Orderly = TRUE
    FailAt <- MCFailAt
    NumBackups = 2
    MaxBackups = 1
SPECIFICATION Spec
INVARIANTS MutualExclusion
CHECK_DEADLOCK FALSE

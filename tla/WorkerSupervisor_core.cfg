SPECIFICATION Spec
CONSTANTS
    r1 = r1
    r2 = r2
    a1 = a1
    Requests <- MCRequests
    Artifacts <- MCArtifacts
    MaxQueued = 1
INVARIANT
    ArtifactsAgree
PROPERTIES
    AnswerIsFinal
    RemovalWaits
    
\* answered requests and a finished shutdown are a legal end
CHECK_DEADLOCK FALSE

\* Two processes, crashes, stale claims and a lock that changes.
SPECIFICATION Spec
CONSTANTS
  desktop = desktop
  server = server
  Nobody = Nobody
  Procs <- MCProcs
  Outside = {"default"}
  MaxJobs = 3
  MaxLocks = 2
  MaxCrashes = 1
SYMMETRY Symmetry
INVARIANTS
  Exclusion
  PublishedIsSound
PROPERTIES
  LostChangesNothing
  MarkerKept
\* every job ended and none left to ask for is a legal end
CHECK_DEADLOCK FALSE

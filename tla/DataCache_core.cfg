\* Two callers, skipped chunks, failures, a crash; only full downloads are preempted.
SPECIFICATION CacheSpec
CONSTANTS
  c1 = c1
  c2 = c2
  Calls = {c1, c2}
  LastDay = 4
  Provided = {1, 2, 4}
  Requests <- Ranges
  MinPercent = 60
  PreemptedIn = {"full"}
  MaxCalls = 3
  MaxCrashes = 1
INVARIANT
  RecordIsTrue
PROPERTIES
  
  HealsOnce
  EveryCallEnds
\* no call in progress and none left is a legal end
CHECK_DEADLOCK FALSE

SPECIFICATION Spec
CONSTANTS
  p1 = p1
  p2 = p2
  r1 = r1
  r2 = r2
  Procs = {p1, p2}
  Repos = {r1, r2}
  MaxTag = 1
  MaxVer = 1
  MaxTime = 1
  MaxCalls = 3
  TTLOf <- MCTTLOf
  Fleets <- MCFleets
  None = None
INVARIANTS TypeOK NoTraceOfFailure WithinTTL OfflineWorks
CHECK_DEADLOCK FALSE

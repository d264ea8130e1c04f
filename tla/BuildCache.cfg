SPECIFICATION Spec
CONSTANTS
  Procs = {p1, p2}
  Kust = kust
  Files = {dir}
  Listings = {dir}
  Urls = {u1}
  Scanned = {u1}
  Pinned = {}
  MaxVer = 1
  MaxEdits = 2
  MaxTime = 2
  MaxBuilds = 2
  BuildTTL = 1
  RemoteTTL = 1
  MaxEntries = 1
  None = None
INVARIANTS TypeOK ServedIsCurrent CopySurvivesFailure FloatingIsFresh
SYMMETRY ProcSymmetry
CHECK_DEADLOCK FALSE

SPECIFICATION FairSpec
CONSTANTS
  Kinds = {deploy, svc, job, crd}
  SkipKinds = {}
  Local = {crd}
  Flux = {}
  Workers = {w1, w2}
  Retries = 1
  MaxRuns = 2
  NoKind = NoKind
INVARIANTS TypeOK EveryKindAccounted CacheNeverPoisons
PROPERTY EveryRunEnds
CHECK_DEADLOCK FALSE

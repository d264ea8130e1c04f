SPECIFICATION FairSpec

CONSTANTS
  root = root
  app = app
  appOff = appOff
  ext = ext
  peer = peer
  kRoot = kRoot
  kApp = kApp
  kExt = kExt
  kPeer = kPeer
  p1 = p1
  p2 = p2
  p3 = p3
  upstream = upstream
  NoPath = NoPath
  NoRepo = NoRepo
  Below <- MCBelow
  Decls <- MCDecls
  Keys <- MCKeys
  KeyOf <- MCKeyOf
  Suspended <- MCSuspended
  Paths <- MCPaths
  PathOf <- MCPathOf
  Repos <- MCRepos
  RepoOf <- MCRepoOf
  Worlds <- MCWorlds
  Listed <- MCListed
  MaxDepth = 3
  Modes = {"build", "validate"}

INVARIANTS
  TypeOK
  ShallowNeverDropped
  BareIsAccounted
  GateSound

PROPERTIES
  ImplementsWalk
  Terminates

\* a finished command takes no further step
CHECK_DEADLOCK FALSE

SPECIFICATION Spec

CONSTANTS
  root = root
  app = app
  appOff = appOff
  ext = ext
  peer = peer
  kRoot = kRoot
  kApp = kApp
  kExt = kExt
  kPeer = kPeer
  p1 = p1
  p2 = p2
  p3 = p3
  upstream = upstream
  NoPath = NoPath
  NoRepo = NoRepo
  Below <- MCBelow
  Decls <- MCDecls
  Keys <- MCKeys
  KeyOf <- MCKeyOf
  Suspended <- MCSuspended
  Paths <- MCPaths
  PathOf <- MCPathOf
  Repos <- MCRepos
  RepoOf <- MCRepoOf
  Worlds <- MCWorlds
  Listed <- MCListedAll
  MaxDepth = 2
  Modes = {"build"}

INVARIANTS
  SourceFirst

\* a finished command takes no further step
CHECK_DEADLOCK FALSE

SPECIFICATION AllSpec
CONSTANTS
  a = a
  b = b
  web = web
  db = db
  old = old
  new = new
  None = None
  Placeholder = Placeholder
  MaxMyersInputSize = 8
  Home = a
  Names <- MCNames
  Lists <- MCLists
  Comparisons <- MCComparisons
  Walks <- MCWalks
  Releases <- MCReleases
  PostBuilds <- MCPostBuilds
  Fetches <- MCFetches
  Handshakes <- MCHandshakes
INVARIANT CycleKeepsOrder
CHECK_DEADLOCK FALSE

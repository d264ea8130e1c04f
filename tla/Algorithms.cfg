SPECIFICATION AllSpec
CONSTANTS
  a = a
  b = b
  web = web
  db = db
  old = old
  new = new
  None = None
  Placeholder = Placeholder
  MaxMyersInputSize = 8
  Home = a
  Names <- MCNames
  Lists <- MCLists
  Comparisons <- MCComparisons
  Walks <- MCWalks
  Releases <- MCReleases
  PostBuilds <- MCPostBuilds
  Fetches <- MCFetches
  Handshakes <- MCHandshakes
INVARIANTS DependenciesFirst ScriptIsMinimal HunksShowChanges BuiltOnce ValuesAreLayered CredentialsFit
CHECK_DEADLOCK FALSE

SPECIFICATION Spec
CONSTANTS
  a = a
  b = b
  x = x
  web = web
  db = db
  vault = vault
  g1 = g1
  g2 = g2
  Namespaces = {a, b}
  Names = {x, web, db, vault}
  Kinds = {vault}
  Groups = {g1, g2}
  Versions <- MCVersions
  Worlds <- MCWorlds
  None = None
INVARIANTS TypeOK ChangesAreReal NoChangeIsLost EachObjectOnce
CHECK_DEADLOCK FALSE

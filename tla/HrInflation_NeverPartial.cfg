SPECIFICATION Spec
CONSTANTS
  a = a
  b = b
  k1 = k1
  k2 = k2
  flux = flux
  app = app
  http = http
  oci = oci
  Releases = {a, b}
  Kustomizations = {k1, k2}
  Namespaces = {flux, app}
  Names = {http, oci}
  TypeOf <- MCTypeOf
  Contents = {1, 2}
  Worlds <- MCWorlds
  Bounded = TRUE
  None = None
INVARIANT NeverPartial

CHECK_DEADLOCK FALSE

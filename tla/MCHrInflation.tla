---------------------------- MODULE MCHrInflation ----------------------------
(* Two releases, of an HTTP and of an OCI repository, in two Kustomizations*)
(* that also emit the repositories; the trees differ from a base tree by   *)
(* one edit each.                                                          *)
EXTENDS HrInflation

CONSTANTS a, b, k1, k2, flux, app, http, oci

Release(k, chart, name, ns, deps) ==
  [ks |-> k, chart |-> chart, source |-> <<flux, name>>, suspend |-> FALSE,
   ns |-> ns, target |-> None, deps |-> deps, content |-> 1]

Base ==
  [exists |-> TRUE, kss |-> {k1, k2},
   hrs |-> [r \in Releases |-> IF r = a THEN Release(k1, "http", http, flux, {b})
                                        ELSE Release(k2, "oci", oci, app, {})],
   built |-> [k \in Kustomizations |-> IF k = k1 THEN {<<flux, http>>} ELSE {}],
   raw |-> {<<app, http>>, <<app, oci>>}, root |-> {<<flux, oci>>, <<app, http>>}]

(* Its raw sources come from the whole repository, all or those of OCI.    *)
Shared == [Base EXCEPT !.raw = {}]
Halved == [Base EXCEPT !.raw = {<<app, http>>}]

Bumped    == [Shared EXCEPT !.hrs[a].content = 2, !.hrs[a].deps = {}]
Moved     == [Shared EXCEPT !.hrs[a].target = app]
Suspended == [Shared EXCEPT !.hrs[b].suspend = TRUE, !.hrs[b].deps = {a}]
Vendored  == [Shared EXCEPT !.hrs[a].chart = "local", !.hrs[b].chart = "unsupported"]
Dropped   == [Shared EXCEPT !.hrs[b] = None]
Same      == [Shared EXCEPT !.hrs[b].chart = "http", !.hrs[b].source = <<flux, http>>]
Bare      == [Shared EXCEPT !.kss = {}]
Missing   == [Bare EXCEPT !.exists = FALSE]

Trees == {Base, Shared, Halved, Bumped, Moved, Suspended, Vendored, Dropped, Same, Bare}

Pairs == {<<t, Shared>> : t \in Trees} \cup {<<Shared, t>> : t \in {Bumped, Dropped, Bare, Missing}}

MCTypeOf == [n \in {http, oci} |-> IF n = http THEN "http" ELSE "oci"]

MCWorlds ==
  {[cmd |-> c, filter |-> f, name |-> n, disabled |-> d,
    tree |-> [s \in Sides |-> IF s = "current" THEN p[1] ELSE p[2]]] :
   c \in {"build", "diff"}, f \in {None, app}, n \in {None, b}, d \in BOOLEAN, p \in Pairs}
=============================================================================

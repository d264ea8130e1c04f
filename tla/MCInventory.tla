----------------------------- MODULE MCInventory -----------------------------
(* Two releases of one name in two namespaces; the trees differ from a base*)
(* tree by an edit or two.                                                 *)
EXTENDS Inventory

CONSTANTS a, b, x, web, db, vault, g1, g2

MCVersions == <<"v1", "v2">>

CRDoc(g, n, v) == [group |-> g, api |-> "v1", kind |-> vault, ns |-> a, name |-> n, version |-> v]
Deploy(n, app, v) == [kind |-> "Deployment", ns |-> None, name |-> n, app |-> app, version |-> v, label |-> None]
Job(n, app, v)    == [kind |-> "Job", ns |-> a, name |-> n, app |-> app, version |-> None, label |-> v]

Chart(ns, v, crs, workloads) ==
  [ns |-> ns, name |-> x, suspend |-> FALSE, version |-> v, crs |-> crs, workloads |-> workloads]

Umbrella(v) == <<Job(1, None, "v1"), Deploy(2, web, v), Job(3, web, None)>>
Single      == <<Deploy(1, web, "v1")>>

(* The first Kustomization holds the release of namespace a, the second the*)
(* other one, the operators and half of the component db.                  *)
Base ==
  [exists |-> TRUE,
   ks |-> <<[frail |-> FALSE,
             releases |-> <<Chart(a, "v1", <<CRDoc(g1, web, "v1")>>, Umbrella("v1"))>>,
             crs |-> <<CRDoc(g1, vault, "v1")>>,
             workloads |-> <<Job(1, db, "v1"), Deploy(3, None, None)>>,
             crds |-> <<[group |-> g1, label |-> None]>>],
            [frail |-> FALSE,
             releases |-> <<Chart(b, "v1", <<CRDoc(g1, db, None)>>, Single)>>,
             crs |-> <<CRDoc(g2, x, "v1")>>,
             workloads |-> <<[Deploy(2, db, "v2") EXCEPT !.ns = a]>>,
             crds |-> <<[group |-> g2, label |-> "v1"], [group |-> g2, label |-> "v2"]>>]>>,
   pins |-> <<[tag |-> None, groups |-> {g1}], [tag |-> "v1", groups |-> {g1}], [tag |-> "v2", groups |-> {g1, g2}]>>]

Bumped    == [Base EXCEPT !.ks[1].releases[1].version = "v2", !.ks[1].releases[1].workloads = Umbrella("v2"),
                          !.ks[1].releases[1].crs = <<CRDoc(g1, web, "v2")>>]
Joined    == [Base EXCEPT !.ks[1].releases[1].workloads = Single, !.ks[2].releases[1].version = None]
Suspended == [Base EXCEPT !.ks[1].releases[1].suspend = TRUE]
Dropped   == [Base EXCEPT !.ks[1].releases = <<>>]
Shadowed  == [Base EXCEPT !.ks[1].crs = Append(@, CRDoc(g1, web, "v2"))]
Shared    == [Base EXCEPT !.ks[2].releases[1].crs =
                <<CRDoc(g1, web, "v1"), [CRDoc(g1, web, "v1") EXCEPT !.api = "v1beta1"], CRDoc(g1, web, "v1")>>]
Clashing  == [Base EXCEPT !.ks[1].crs = Append(@, [CRDoc(g1, vault, "v2") EXCEPT !.api = "v1beta1"]),
                          !.ks[2].crs = <<CRDoc(g2, vault, "v2")>>]
Unlabelled == [Base EXCEPT !.ks[2].crds[1].label = None, !.ks[2].crds[2].label = None, !.ks[2].workloads = <<>>]
Frail(t, i) == [t EXCEPT !.ks[i].frail = TRUE]
Bare      == [Base EXCEPT !.ks = <<>>]
Missing   == [Bare EXCEPT !.exists = FALSE]

Pairs == {<<t, Base>> : t \in {Base, Bumped, Joined, Suspended, Dropped, Shadowed, Shared, Clashing, Unlabelled, Bare, Missing}}
         \cup {<<Base, t>> : t \in {Shadowed, Dropped, Joined, Bare, Missing}} \cup {<<Clashing, Clashing>>}
         \cup {<<Frail(Bumped, 2), Base>>, <<Bumped, Frail(Base, 1)>>, <<Frail(Shadowed, 1), Frail(Shared, 2)>>}

MCWorlds ==
  {[rules |-> {<<g1, vault>>}, allCRs |-> s, split |-> s, diff |-> TRUE, filter |-> IF s THEN None ELSE b,
    tree |-> [sd \in Sides |-> IF sd = "current" THEN p[1] ELSE p[2]]] : s \in BOOLEAN, p \in Pairs}
    \cup {[rules |-> {<<g1, vault>>}, allCRs |-> FALSE, split |-> TRUE, diff |-> FALSE, filter |-> None,
           tree |-> [sd \in Sides |-> Base]]}
=============================================================================

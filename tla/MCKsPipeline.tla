---------------------------- MODULE MCKsPipeline ----------------------------
(***************************************************************************)
(* A small fleet: `root` is listed, with a namesake of `app` that is       *)
(* suspended; `ext` and `peer` name the external repository.  The worlds   *)
(* vary what the root emits, whether the GitRepository is declared by an   *)
(* output, what each location holds and which paths are native overlays.   *)
(***************************************************************************)
EXTENDS KsPipeline

CONSTANTS root, app, appOff, ext, peer, kRoot, kApp, kExt, kPeer,
          p1, p2, p3, upstream

MCDecls == {root, app, appOff, ext, peer}
MCKeys == {kRoot, kApp, kExt, kPeer}
MCKeyOf == [d \in MCDecls |->
  CASE d = root -> kRoot [] d = app -> kApp [] d = appOff -> kApp
    [] d = ext -> kExt [] OTHER -> kPeer]
MCSuspended == {appOff}
MCPaths == {p1, p2, p3}
MCPathOf == [d \in MCDecls |->
  CASE d = root -> p1 [] d = app -> p2 [] d \in {appOff, ext} -> p3
    [] OTHER -> NoPath]
MCBelow == {<<p3, p1>>}
MCRepos == {upstream}
MCRepoOf == [d \in MCDecls |-> IF d \in {ext, peer} THEN upstream ELSE NoRepo]
MCListed == {root, appOff}
MCListedRoot == {root}
MCListedAll == {root, appOff, ext}

Absent == [kind |-> "missing", emits |-> {}, sources |-> {}]

(* rootKind, appKind: the local trees; extKind: the upstream's directory;  *)
(* localKind: a local directory with the same name.                        *)
Place(rootTree, appTree, extTree, localKind) ==
  [l \in (MCRepos \cup {NoRepo}) \X MCPaths |->
     CASE l = <<NoRepo, p1>> -> rootTree
       [] l = <<NoRepo, p2>> -> appTree
       [] l = <<NoRepo, p3>> -> [Absent EXCEPT !.kind = localKind]
       [] l = <<upstream, p3>> -> extTree
       [] OTHER -> Absent]

Holding(emitted, declared) ==
  [kind : {"built"}, emits : emitted, sources : declared]

NotBuilt(kinds) == [kind : kinds, emits : {{}}, sources : {{}}]

RootTrees == Holding({{app}, {app, appOff, ext}, {app, peer}}, {{}, MCRepos})
               \cup [kind : {"partial"}, emits : {{app, ext}}, sources : {{}}]
               \cup [kind : {"gathered"}, emits : {{app, appOff}}, sources : {MCRepos}]
               \cup NotBuilt({"broken"})
AppTrees  == Holding({{root}, {ext}}, {{}, MCRepos})
               \cup NotBuilt({"missing", "unreadable"})
ExtTrees  == Holding({{}, {app, peer}}, {{}}) \cup NotBuilt({"missing", "broken"})

MCWorlds ==
  {w \in [tree : {Place(r, a, e, k) : r \in RootTrees, a \in AppTrees,
                                      e \in ExtTrees, k \in {"missing", "built"}},
          known : {{}, MCRepos},
          overlays : {{}, {p2}, {p1, p2, p3}},
          badPatches : {{ext}}] :
     \A p \in w.overlays : w.tree[<<NoRepo, p>>].kind \in {"built", "broken"}}
=============================================================================

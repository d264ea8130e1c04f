------------------------------ MODULE KsPipeline ------------------------------
(***************************************************************************)
(* The Flux Kustomization pipeline of one fluxview command: the            *)
(* breadth-first walk of buildAllKustomizations (internal/cli/diff.go),    *)
(* the native overlays that buildKSContent appends, the anomaly report and *)
(* the gate that `validate` puts on it (internal/cli/validate.go).         *)
(*                                                                         *)
(* A declaration is one Flux Kustomization document.  Two declarations may *)
(* carry the same namespace/name key.  The documents of a queue and of a   *)
(* build output come in an order that is data of the repository, so the    *)
(* queues are sets and the walk takes their members in any order.          *)
(***************************************************************************)
EXTENDS Naturals

CONSTANTS
  Decls,        (* Kustomization documents                                 *)
  Keys,         (* "namespace/name"                                        *)
  KeyOf,        (* the key of a document                                   *)
  Suspended,    (* the documents with spec.suspend                         *)
  Paths,        (* resolved spec.path values                               *)
  NoPath,       (* an empty spec.path                                      *)
  Below,        (* <<p, q>>: the path p lies in the directory q            *)
  PathOf,       (* the path of a document                                  *)
  Repos,        (* GitRepositories whose URL is not the local origin       *)
  NoRepo,       (* the local checkout; every source that is not in Repos   *)
  RepoOf,       (* what the sourceRef of a document names                  *)
  Listed,       (* the documents the cluster path scan selected            *)
  MaxDepth,     (* maxDepth, 10 in the code                                *)
  Modes,        (* the commands considered, within "build" and "validate"  *)
  Worlds        (* the repository contents considered                      *)

Sources   == Repos \cup {NoRepo}
Locations == Sources \X Paths

(***************************************************************************)
(* What a location holds.  "broken": kustomize fails on it.  "gathered" and*)
(* "partial": a directory without a kustomization file, whose              *)
(* subdirectories are built one by one; kustomize fails on one of them, if *)
(* partial.  "unreadable": a file or a tree that cannot be read - an error *)
(* that does not go through the build memo.                                *)
(***************************************************************************)
Gathered  == {"gathered", "partial"}
TreeKinds == Gathered \cup {"missing", "built", "broken", "unreadable"}

(* emits: Kustomizations in the build output; sources: its GitRepositories *)
Tree == [kind : TreeKinds, emits : SUBSET Decls, sources : SUBSET Repos]

(***************************************************************************)
(* known: the GitRepositories the cluster path declares.  overlays: the    *)
(* paths below it that are native kustomize directories.  badPatches: the  *)
(* documents whose patches do not apply.                                   *)
(***************************************************************************)
World == [tree : [Locations -> Tree], known : SUBSET Repos,
          overlays : SUBSET Paths, badPatches : SUBSET Decls]

ASSUME ConstantsAssumption ==
  /\ KeyOf \in [Decls -> Keys]
  /\ Suspended \subseteq Decls
  /\ NoPath \notin Paths
  /\ Below \subseteq Paths \X Paths
  /\ PathOf \in [Decls -> Paths \cup {NoPath}]
  /\ NoRepo \notin Repos
  /\ RepoOf \in [Decls -> Sources]
  /\ Listed \subseteq Decls
  /\ MaxDepth \in Nat \ {0}
  /\ Modes \subseteq {"build", "validate"}
  /\ Worlds \subseteq World

VARIABLES
  world,        (* the repository, fixed for the run                       *)
  mode,         (* the command                                             *)
  pc,           (* the stage of the run                                    *)
  cancelled,    (* SIGINT or SIGTERM has cancelled the context             *)
  depth,        (* the loop variable of buildAllKustomizations             *)
  queue,        (* what is left of the current level                       *)
  discovered,   (* discoveredKS: the next level                            *)
  seen,         (* keys already processed                                  *)
  knownRepos,   (* GitRepositories known so far                            *)
  allowed,      (* clones the builder may read (AllowRoot)                 *)
  results,      (* what each processed document became                     *)
  failed,       (* buildCache.failedDirs                                   *)
  missingPaths, (* report.missingPaths, by key                             *)
  fetchErrors,  (* report.fetchErrors, by key                              *)
  overlaid,     (* overlay directories appended after the walk             *)
  exit          (* "none" while running                                    *)

repoVars   == <<world, mode>>
walkVars   == <<depth, queue, discovered, seen>>
buildVars  == <<knownRepos, allowed, results, failed>>
reportVars == <<missingPaths, fetchErrors>>
vars == <<repoVars, pc, cancelled, walkVars, buildVars, reportVars,
          overlaid, exit>>

(* "bare": the Kustomization resource alone, without its content; "cut": a *)
(* part of its content.  emits: the Kustomizations of its output.          *)
Forms  == {"rendered", "untransformed", "bare", "cut"}
Result == [decl : Decls, src : Sources, form : Forms, depth : Nat, emits : SUBSET Decls]

TypeOK ==
  /\ world \in World
  /\ mode \in Modes
  /\ pc \in {"sources", "walk", "overlays", "report", "done"}
  /\ cancelled \in BOOLEAN
  /\ depth \in 0 .. MaxDepth - 1
  /\ queue \subseteq Decls
  /\ discovered \subseteq Decls
  /\ seen \subseteq Keys
  /\ knownRepos \subseteq Repos
  /\ allowed \subseteq Repos
  /\ results \subseteq Result
  /\ failed \subseteq Locations
  /\ missingPaths \subseteq Keys
  /\ fetchErrors \subseteq Keys
  /\ overlaid \subseteq Paths
  /\ exit \in {"none", "ok", "error"}

Init ==
  /\ world \in Worlds
  /\ mode \in Modes
  /\ pc = "sources"
  /\ cancelled = FALSE
  /\ depth = 0
  /\ queue = Listed
  /\ discovered = {}
  /\ seen = {}
  /\ knownRepos = world.known
  /\ allowed = {}
  /\ results = {}
  /\ failed = {}
  /\ missingPaths = {}
  /\ fetchErrors = {}
  /\ overlaid = {}
  /\ exit = "none"

(***************************************************************************)
(* resolveConfigMaps and resolveSecrets build every native overlay below   *)
(* the cluster path before the walk, through the same memo: a directory    *)
(* that fails here stays failed.  A cancelled context fails any of them.   *)
(***************************************************************************)
BrokenOverlays ==
  {l \in {NoRepo} \X world.overlays : world.tree[l].kind = "broken"}

ResolveSources ==
  /\ pc = "sources"
  /\ \E aborted \in SUBSET ({NoRepo} \X world.overlays) :
       /\ aborted # {} => cancelled
       /\ failed' = BrokenOverlays \cup aborted
  /\ pc' = "walk"
  /\ UNCHANGED <<repoVars, cancelled, walkVars, knownRepos, allowed, results,
                 reportVars, overlaid, exit>>

(* The run's signal handler cancels the context at any moment.             *)
Cancel ==
  /\ ~cancelled
  /\ pc # "done"
  /\ cancelled' = TRUE
  /\ UNCHANGED <<repoVars, pc, walkVars, buildVars, reportVars, overlaid,
                 exit>>

Skip_MarksSuspended(d) ==
  /\ pc = "walk"
  /\ d \in queue
  /\ KeyOf[d] \in seen \/ d \in Suspended
  /\ queue' = queue \ {d}
  /\ seen' = seen \cup {KeyOf[d]}
  /\ UNCHANGED <<repoVars, pc, cancelled, depth, discovered, buildVars,
                 reportVars, overlaid, exit>>

(* A suspended document is dropped without being marked as seen.           *)
Skip(d) ==
  /\ pc = "walk"
  /\ d \in queue
  /\ KeyOf[d] \in seen \/ d \in Suspended
  /\ queue' = queue \ {d}
  /\ UNCHANGED <<repoVars, pc, cancelled, depth, discovered, seen, buildVars,
                 reportVars, overlaid, exit>>

(* Neither suspended nor processed under another document of its key.      *)
Due_IgnoresSuspend(d) == pc = "walk" /\ d \in queue /\ KeyOf[d] \notin seen
Due(d) == pc = "walk" /\ d \in queue /\ KeyOf[d] \notin seen /\ d \notin Suspended

(***************************************************************************)
(* lookupExternal: the clone, when the GitRepository is among those known  *)
(* so far, else the checkout.                                              *)
(***************************************************************************)
IsExternal(d) == RepoOf[d] \in knownRepos
SourceOf(d)   == IF IsExternal(d) THEN RepoOf[d] ELSE NoRepo
LocationOf(d) == <<SourceOf(d), PathOf[d]>>

Record(d, src, form, emits) ==
  /\ results' = results \cup {[decl |-> d, src |-> src, form |-> form,
                               depth |-> depth, emits |-> emits]}
  /\ seen' = seen \cup {KeyOf[d]}
  /\ queue' = queue \ {d}

RecordBare(d, src) == Record(d, src, "bare", {})

(* The GitRepositories and the unseen Kustomizations of an output join the *)
(* walk.                                                                   *)
Discover(emits, sources) ==
  /\ knownRepos' = knownRepos \cup sources
  /\ discovered' = discovered \cup {e \in emits : KeyOf[e] \notin seen'}

(* spec.path is empty: nothing to build, and nothing is reported.          *)
NothingToBuild(d) ==
  /\ Due(d) /\ ~cancelled
  /\ PathOf[d] = NoPath
  /\ RecordBare(d, NoRepo)
  /\ UNCHANGED <<repoVars, pc, cancelled, depth, discovered, knownRepos,
                 allowed, failed, reportVars, overlaid, exit>>

FetchFails_Silent(d) ==
  /\ Due(d) /\ ~cancelled
  /\ PathOf[d] # NoPath /\ IsExternal(d)
  /\ RecordBare(d, RepoOf[d])
  /\ UNCHANGED <<repoVars, pc, cancelled, depth, discovered, knownRepos,
                 allowed, failed, reportVars, overlaid, exit>>

(* The upstream cannot be cloned, or fetching is switched off.             *)
FetchFails(d) ==
  /\ Due(d) /\ ~cancelled
  /\ PathOf[d] # NoPath /\ IsExternal(d)
  /\ RecordBare(d, RepoOf[d])
  /\ fetchErrors' = fetchErrors \cup {KeyOf[d]}
  /\ UNCHANGED <<repoVars, pc, cancelled, depth, discovered, knownRepos,
                 allowed, failed, missingPaths, overlaid, exit>>

(* A successful fetch opens the clone to the builder.                      *)
AllowClone(d) ==
  allowed' = IF IsExternal(d) THEN allowed \cup {RepoOf[d]} ELSE allowed

PathMissing(d) ==
  /\ Due(d) /\ ~cancelled
  /\ PathOf[d] # NoPath
  /\ world.tree[LocationOf(d)].kind = "missing"
  /\ AllowClone(d)
  /\ RecordBare(d, SourceOf(d))
  /\ missingPaths' = missingPaths \cup {KeyOf[d]}
  /\ UNCHANGED <<repoVars, pc, cancelled, depth, discovered, knownRepos,
                 failed, fetchErrors, overlaid, exit>>

(***************************************************************************)
(* What rendering a location amounts to: the builder refuses a clone it    *)
(* has not been given, and a directory that failed once is not retried.    *)
(***************************************************************************)
Outcome(l, roots) ==
  IF (l[1] # NoRepo /\ l[1] \notin roots)
       \/ (l \in failed /\ world.tree[l].kind = "built")
  THEN "broken" ELSE world.tree[l].kind

BuildFails(d) ==
  /\ Due(d) /\ ~cancelled
  /\ PathOf[d] # NoPath
  /\ AllowClone(d)
  /\ Outcome(LocationOf(d), allowed') \in {"broken", "unreadable"}
  /\ failed' = IF Outcome(LocationOf(d), allowed') = "broken"
               THEN failed \cup {LocationOf(d)} ELSE failed
  /\ RecordBare(d, SourceOf(d))
  /\ UNCHANGED <<repoVars, pc, cancelled, depth, discovered, knownRepos,
                 reportVars, overlaid, exit>>

(***************************************************************************)
(* The build works.  Patches that do not apply leave the output as         *)
(* kustomize rendered it.                                                  *)
(***************************************************************************)
Build(d) ==
  /\ Due(d) /\ ~cancelled
  /\ PathOf[d] # NoPath
  /\ AllowClone(d)
  /\ Outcome(LocationOf(d), allowed') \in Gathered \cup {"built"}
  /\ failed' = IF Outcome(LocationOf(d), allowed') = "partial"
               THEN failed \cup {LocationOf(d)} ELSE failed
  /\ LET tree == world.tree[LocationOf(d)] IN
       /\ Record(d, SourceOf(d),
                 IF d \in world.badPatches THEN "untransformed" ELSE "rendered",
                 tree.emits)
       /\ Discover(tree.emits, tree.sources)
  /\ UNCHANGED <<repoVars, pc, cancelled, depth, reportVars, overlaid, exit>>

(***************************************************************************)
(* The context is cancelled after the check at the top of                  *)
(* buildOneKustomization: the clone or the kustomize build it is in fails, *)
(* and the failure is recorded like any other.                             *)
(***************************************************************************)
CancelledInside(d) ==
  /\ Due(d) /\ ~cancelled
  /\ PathOf[d] # NoPath
  /\ cancelled' = TRUE
  /\ RecordBare(d, SourceOf(d))
  /\ \/ /\ IsExternal(d)
        /\ fetchErrors' = fetchErrors \cup {KeyOf[d]}
        /\ UNCHANGED <<allowed, failed>>
     \/ /\ world.tree[LocationOf(d)].kind \in {"built", "broken"}
        /\ AllowClone(d)
        /\ failed' = failed \cup {LocationOf(d)}
        /\ UNCHANGED fetchErrors
  /\ UNCHANGED <<repoVars, pc, depth, discovered, knownRepos, missingPaths,
                 overlaid, exit>>

(***************************************************************************)
(* The same in a directory without a kustomization file.  If the walk that *)
(* looks for its subdirectories is cut off, the reading of every file that *)
(* takes its place is too, and nothing records it; later the builds of the *)
(* subdirectories fail one by one, and what was built before and the loose *)
(* files are the output.                                                   *)
(***************************************************************************)
CancelledGathering(d) ==
  /\ Due(d) /\ ~cancelled
  /\ PathOf[d] # NoPath
  /\ world.tree[LocationOf(d)].kind \in Gathered
  /\ cancelled' = TRUE
  /\ AllowClone(d)
  /\ \/ /\ RecordBare(d, SourceOf(d))
        /\ UNCHANGED <<discovered, knownRepos, failed>>
     \/ /\ \E emits \in SUBSET world.tree[LocationOf(d)].emits,
              sources \in SUBSET world.tree[LocationOf(d)].sources :
             Record(d, SourceOf(d), "cut", emits) /\ Discover(emits, sources)
        /\ failed' = failed \cup {LocationOf(d)}
  /\ UNCHANGED <<repoVars, pc, depth, reportVars, overlaid, exit>>

(* CheckInterrupted at the top of buildOneKustomization.                   *)
Interrupted(d) ==
  /\ Due(d) /\ cancelled
  /\ pc' = "done"
  /\ exit' = "error"
  /\ UNCHANGED <<repoVars, cancelled, walkVars, buildVars, reportVars,
                 overlaid>>

EndLevel_OffByOne ==
  /\ pc = "walk"
  /\ queue = {}
  /\ IF discovered = {} \/ depth = MaxDepth
     THEN pc' = "overlays" /\ UNCHANGED walkVars
     ELSE /\ depth' = depth + 1
          /\ queue' = discovered
          /\ discovered' = {}
          /\ UNCHANGED <<pc, seen>>
  /\ UNCHANGED <<repoVars, cancelled, buildVars, reportVars, overlaid, exit>>

EndLevel_HoistedSlice ==
  /\ pc = "walk"
  /\ queue = {}
  /\ IF discovered = {}
     THEN pc' = "overlays" /\ UNCHANGED walkVars
     ELSE queue' = discovered /\ UNCHANGED <<pc, depth, discovered, seen>>
  /\ UNCHANGED <<repoVars, cancelled, buildVars, reportVars, overlaid, exit>>

(* The next level, or the end: nothing was discovered, or maxDepth.        *)
EndLevel ==
  /\ pc = "walk"
  /\ queue = {}
  /\ IF discovered = {} \/ depth + 1 = MaxDepth
     THEN pc' = "overlays" /\ UNCHANGED walkVars
     ELSE /\ depth' = depth + 1
          /\ queue' = discovered
          /\ discovered' = {}
          /\ UNCHANGED <<pc, seen>>
  /\ UNCHANGED <<repoVars, cancelled, buildVars, reportVars, overlaid, exit>>

(***************************************************************************)
(* buildKSContent appends the native overlays below the cluster path,      *)
(* leaving out the paths of the listed Kustomizations and all below them.  *)
(***************************************************************************)
ExcludedPaths ==
  {p \in Paths : \E d \in Listed : p = PathOf[d] \/ <<p, PathOf[d]>> \in Below}

AppendOverlays ==
  /\ pc = "overlays"
  /\ overlaid' = IF Listed = {} THEN {}
                 ELSE {p \in world.overlays \ ExcludedPaths :
                         <<NoRepo, p>> \notin failed}
  /\ pc' = "report"
  /\ UNCHANGED <<repoVars, cancelled, walkVars, buildVars, reportVars, exit>>

(***************************************************************************)
(* `build` prints what it has; `validate` refuses a partial build, and     *)
(* stops on a cancelled context once there is something to validate.       *)
(***************************************************************************)
GatePasses_IgnoresMissing == failed = {}

GatePasses == failed = {} /\ missingPaths = {}
NoOutput   == results = {} /\ overlaid = {}

Finish ==
  /\ pc = "report"
  /\ exit' = IF mode = "validate" /\ (~GatePasses \/ (cancelled /\ ~NoOutput))
             THEN "error" ELSE "ok"
  /\ pc' = "done"
  /\ UNCHANGED <<repoVars, cancelled, walkVars, buildVars, reportVars,
                 overlaid>>

Process(d) ==
  \/ Skip(d)
  \/ NothingToBuild(d)
  \/ FetchFails(d)
  \/ PathMissing(d)
  \/ BuildFails(d)
  \/ Build(d)
  \/ CancelledInside(d)
  \/ CancelledGathering(d)
  \/ Interrupted(d)

Run ==
  \/ ResolveSources
  \/ \E d \in Decls : Process(d)
  \/ EndLevel
  \/ AppendOverlays
  \/ Finish

Next == Run \/ Cancel

Spec     == Init /\ [][Next]_vars
FairSpec == Spec /\ WF_vars(Run)
-----------------------------------------------------------------------------
(* The Kustomizations a result brought into the walk.                      *)
Emitted(r) == r.emits

Declared  == Listed \cup UNION {Emitted(r) : r \in results}
Processed == {r.decl : r \in results}

(***************************************************************************)
(* However often and from wherever a key is declared, and even when the    *)
(* declarations form a cycle, it is built once (the seen map of            *)
(* buildAllKustomizations).                                                *)
(***************************************************************************)
OneResultPerKey ==
  \A r, s \in results : KeyOf[r.decl] = KeyOf[s.decl] => r = s

(***************************************************************************)
(* When the walk ends without an interruption, every active Kustomization  *)
(* that is listed, or is emitted above the last level, has been processed: *)
(* neither a suspended namesake nor the level switch loses one.            *)
(***************************************************************************)
ShallowNeverDropped ==
  pc \in {"overlays", "report"} =>
    \A d \in Decls \ Suspended :
      \/ d \in Listed
      \/ \E r \in results : d \in Emitted(r) /\ r.depth + 1 < MaxDepth
      => \E r \in results : KeyOf[r.decl] = KeyOf[d]

(* All or a part of the content is missing from what a result is made of.  *)
TreeOf(r)     == world.tree[<<r.src, PathOf[r.decl]>>].kind
Incomplete(r) == r.form \in {"bare", "cut"} \/ TreeOf(r) = "partial"
Accounted(r)  ==
  \/ PathOf[r.decl] = NoPath
  \/ KeyOf[r.decl] \in fetchErrors \cup missingPaths
  \/ <<r.src, PathOf[r.decl]>> \in failed
  \/ TreeOf(r) = "unreadable"
  \/ cancelled /\ r.form = "bare" /\ TreeOf(r) \in Gathered

(***************************************************************************)
(* Every Kustomization whose content is, wholly or in part, absent from the*)
(* output is explained by the report or by the build memo; the exceptions  *)
(* the code makes are an empty path, a tree it cannot read and a directory *)
(* scan cut off by a cancellation.                                         *)
(***************************************************************************)
BareIsAccounted == \A r \in results : Incomplete(r) => Accounted(r)

(***************************************************************************)
(* A green `validate` checked all the content of every Kustomization it    *)
(* processed, but for the sources it could not fetch, which it names, and  *)
(* empty paths and unreadable trees (gatePartialBuild); an interrupted one *)
(* is not green.                                                           *)
(***************************************************************************)
GateSound ==
  mode = "validate" /\ exit = "ok" =>
    \A r \in results : Incomplete(r) =>
      \/ PathOf[r.decl] = NoPath
      \/ KeyOf[r.decl] \in fetchErrors
      \/ TreeOf(r) = "unreadable"

(***************************************************************************)
(* A Kustomization of a GitRepository the cluster path declares never      *)
(* falls back to a same-named local directory, whatever is fetched or      *)
(* discovered meanwhile (resolveKSSource).                                 *)
(***************************************************************************)
KnownSourceIsNeverLocal ==
  \A r \in results :
    RepoOf[r.decl] \in world.known /\ PathOf[r.decl] # NoPath
      => r.src = RepoOf[r.decl]

(* Every run ends, on cyclic declarations too (maxDepth and seen).         *)
Terminates == <>(pc = "done")

-----------------------------------------------------------------------------
(* What a doc or a comment says and the code does not do.                  *)

(***************************************************************************)
(* README.md:119: the path of an external source always resolves against   *)
(* the upstream clone, even when a same-name directory exists locally; the *)
(* sources are the GitRepositories the run has come to know.               *)
(***************************************************************************)
SourceFirst ==
  \A r \in results :
    r.form # "bare" /\ RepoOf[r.decl] \in knownRepos => r.src = RepoOf[r.decl]

(***************************************************************************)
(* overlays.go:20: the contents of a Flux Kustomization's spec.path do not *)
(* leak into the native-overlay output (where they replace, being last,    *)
(* what the Kustomization rendered).                                       *)
(***************************************************************************)
OverlayNeverShadows ==
  \A r \in results : r.form = "rendered" /\ r.src = NoRepo
    => PathOf[r.decl] \notin overlaid

-----------------------------------------------------------------------------
(* The walk as the abstract exploration of module KsWalk.                  *)
Walk == INSTANCE KsWalk WITH declared <- Declared, processed <- Processed,
                             over <- pc \notin {"sources", "walk"}

ImplementsWalk == Walk!Spec
=============================================================================

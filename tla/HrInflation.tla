------------------------------ MODULE HrInflation ------------------------------
(***************************************************************************)
(* `build hr` and `diff hr` (internal/cli: hr_inflation.go, diff.go): the  *)
(* HelmReleases of a tree are discovered in the output of its              *)
(* Kustomizations, selected, and inflated one by one; diff does so for the *)
(* working tree and for a checkout of another revision, and compares.  The *)
(* user may cancel at any time; a chart repository may fail or never       *)
(* answer.                                                                 *)
(*                                                                         *)
(* A Kustomization is built or lost as a whole (KsPipeline has the detail),*)
(* a release renders to one resource, and what it renders to is fixed: the *)
(* caches behind the chart lookup are HelmCache's subject.                 *)
(***************************************************************************)
EXTENDS FiniteSets

CONSTANTS
  Releases,        (* HelmReleases, by namespace and name                  *)
  Kustomizations,
  Namespaces,
  Names,           (* of HelmRepositories and OCIRepositories              *)
  TypeOf,          (* which of the two: a name stands for one of one type  *)
  Contents,        (* what a release can render to                         *)
  Worlds,          (* commands and trees to explore                        *)
  Bounded,         (* --helm-download-timeout is not 0                     *)
  None

Sides  == {"current", "compare"}
Source == Namespaces \X Names
Charts == {"http", "oci", "local", "unsupported"}

Decl ==
  [ks : Kustomizations, chart : Charts, source : Source, suspend : BOOLEAN,
   ns : Namespaces, target : Namespaces \cup {None}, deps : SUBSET Releases,
   content : Contents]

(* hrs: the releases the Kustomizations declare once built; built, raw,    *)
(* root: the chart sources in their output, in the files under the cluster *)
(* path, and in those of the whole repository.                             *)
Tree ==
  [exists : BOOLEAN, kss : SUBSET Kustomizations,
   hrs : [Releases -> Decl \cup {None}],
   built : [Kustomizations -> SUBSET Source],
   raw : SUBSET Source, root : SUBSET Source]

(* disabled: --helm-cache-dir=disabled.                                    *)
World ==
  [cmd : {"build", "diff"}, filter : Namespaces \cup {None},
   name : Releases \cup {None}, disabled : BOOLEAN, tree : [Sides -> Tree]]

ASSUME ConstantsAssumption ==
  /\ TypeOf \in [Names -> {"http", "oci"}]
  /\ Worlds \subseteq World
  /\ Bounded \in BOOLEAN
  /\ None \notin Decl \cup Namespaces \cup Releases

VARIABLES
  world,      (* the command line and the two trees; it never changes      *)
  cancelled,  (* the context                                               *)
  pc, side,
  kss,        (* Kustomizations to build on this side                      *)
  lost,       (* those that were not, of both sides (history)              *)
  todo,       (* releases to inflate on this side                          *)
  hr,         (* the one being inflated                                    *)
  known,      (* chart sources registered by this side's Inflater          *)
  failures,   (* releases that could not be inflated on this side          *)
  outputs,    (* the resources rendered on this side                       *)
  result,     (* what buildHRInflation returned for each side              *)
  worktree,   (* the checkout of the revision is on disk                   *)
  temp,       (* the temporary Helm cache of a disabled run is on disk     *)
  straggler,  (* a download nobody waits for: "none", "running", "wrote"   *)
  exit,       (* the exit code                                             *)
  shown       (* the resources printed, or the differences                 *)

local == <<kss, lost, todo, hr, known, failures, outputs, result>>
disk  == <<worktree, temp, straggler>>
ended == <<exit, shown>>
vars  == <<world, cancelled, pc, side, local, disk, ended>>

Resources == Releases \X Namespaces \X Contents
Status    == {"added", "removed", "modified"}

TypeOK ==
  /\ world \in Worlds
  /\ cancelled \in BOOLEAN
  /\ pc \in {"start", "scan", "build", "select", "inflate", "index", "chart",
             "return", "abort", "checkout", "report", "done"}
  /\ side \in Sides
  /\ kss \in SUBSET Kustomizations /\ lost \in SUBSET (Sides \X Kustomizations)
  /\ todo \in SUBSET Releases
  /\ hr \in Releases \cup {None}
  /\ (pc \in {"index", "chart"} => hr # None)
  /\ known \in SUBSET Source
  /\ failures \in SUBSET Releases
  /\ outputs \in SUBSET Resources
  /\ result \in [Sides -> SUBSET Resources]
  /\ worktree \in BOOLEAN /\ temp \in BOOLEAN
  /\ straggler \in {"none", "running", "wrote"}
  /\ exit \in {"none", "ok", "changed", "error"}
  /\ shown \in SUBSET (Status \X (Releases \X Namespaces))

Init ==
  /\ world \in Worlds
  /\ cancelled = FALSE
  /\ pc = "start" /\ side = "current"
  /\ kss = {} /\ lost = {} /\ todo = {} /\ hr = None /\ known = {}
  /\ failures = {} /\ outputs = {}
  /\ result = [s \in Sides |-> {}]
  /\ worktree = FALSE /\ temp = FALSE /\ straggler = "none"
  /\ exit = "none" /\ shown = {}

Here    == world.tree[side]
Strict  == world.cmd = "diff"
Running == exit = "none"

Cancel ==
  /\ Running
  /\ cancelled' = TRUE /\ ~cancelled
  /\ UNCHANGED <<world, pc, side, local, disk, ended>>

(* The command returns: the deferred RemoveWorktree ignores the context.   *)
Exit_KeepsWorktree(code, what) ==
  /\ pc' = "done" /\ exit' = code /\ shown' = what
  /\ worktree' = (worktree /\ cancelled)
  /\ UNCHANGED <<world, cancelled, side, local, temp, straggler>>

Exit(code, what) ==
  /\ pc' = "done" /\ exit' = code /\ shown' = what
  /\ worktree' = FALSE
  /\ UNCHANGED <<world, cancelled, side, local, temp, straggler>>

-----------------------------------------------------------------------------
(* runBuildHR, runDiffHR up to the first side.  Resolving the revision     *)
(* needs the context; the cluster path must exist and hold Kustomizations. *)
Start ==
  /\ pc = "start"
  /\ IF ~Here.exists \/ Here.kss = {} \/ (Strict /\ cancelled)
     THEN Exit("error", {})
     ELSE /\ pc' = "scan"
          /\ UNCHANGED <<world, cancelled, side, local, disk, ended>>

(* discoverHelmFleet takes any error of the scan - nothing found, an       *)
(* unreadable directory, the cancellation - for a tree without Flux.       *)
Scan ==
  /\ pc = "scan"
  /\ \/ /\ ~cancelled /\ Here.kss # {}
        /\ pc' = "build" /\ kss' = Here.kss
        /\ UNCHANGED lost
     \/ /\ pc' = "return" /\ kss' = {}
        /\ lost' = lost \cup ({side} \X Here.kss)
  /\ UNCHANGED <<world, cancelled, side, todo, hr, known, failures, outputs,
                 result, disk, ended>>

(* buildKSContent: a Kustomization that does not build only warns.         *)
BuildKs(k) ==
  /\ pc = "build"
  /\ k \in kss
  /\ ~cancelled
  /\ kss' = kss \ {k}
  /\ lost' \in {lost, lost \cup {<<side, k>>}}
  /\ pc' = IF kss' = {} THEN "select" ELSE "build"
  /\ UNCHANGED <<world, cancelled, side, todo, hr, known, failures, outputs,
                 result, disk, ended>>

BuildInterrupted ==
  /\ pc = "build"
  /\ cancelled
  /\ Exit("error", {})

Fleet == {r \in Releases : /\ Here.hrs[r] # None
                           /\ Here.hrs[r].ks \in Here.kss
                           /\ <<side, Here.hrs[r].ks>> \notin lost}

TargetOf(d) == IF d.target = None THEN d.ns ELSE d.target

Resource(s, r) ==
  LET d == world.tree[s].hrs[r] IN <<r, TargetOf(d), d.content>>

(* filterHelmReleasesByNamespace.                                          *)
Selected(r) ==
  \/ world.filter = None
  \/ world.filter \in {Here.hrs[r].ns, TargetOf(Here.hrs[r])}

(* buildHRInflation: the releases to inflate, and the Inflater.  One asked *)
(* for by name may be new, so the comparison side is then empty.           *)
Select ==
  /\ pc = "select"
  /\ LET fleet == IF world.name = None THEN Fleet ELSE Fleet \cap {world.name}
         hrs   == {r \in fleet : Selected(r)} IN
     IF fleet = {} /\ world.name # None /\ side = "current"
     THEN Exit("error", {})
     ELSE IF hrs = {}
     THEN /\ pc' = "return"
          /\ UNCHANGED <<world, cancelled, side, local, disk, ended>>
     ELSE \/ /\ pc' = "inflate" /\ todo' = hrs /\ known' = {} /\ failures' = {}
             /\ outputs' = {} /\ temp' = world.disabled
             /\ UNCHANGED <<world, cancelled, side, kss, lost, hr, result,
                            worktree, straggler, ended>>
          \/ Exit("error", {})

-----------------------------------------------------------------------------
(* inflateHelmReleasesShared.                                              *)

(* parseWithRootFallback: of a type the files under the cluster path have  *)
(* none of, those of the whole repository.                                 *)
RawSources ==
  Here.raw \cup {s \in Here.root : \A r \in Here.raw : TypeOf[r[2]] # TypeOf[s[2]]}

(* mergeSources: the output's sources, and the raw ones of other names.    *)
Merged ==
  LET built == UNION {Here.built[k] : k \in {j \in Here.kss : <<side, j>> \notin lost}} IN
  built \cup {s \in RawSources : \A b \in built : b[2] # s[2]}

(* TopologicalSortHelmReleases, over the fleet; with a cycle any order.    *)
Cyclic == \E S \in SUBSET Fleet : /\ S # {}
                                  /\ \A r \in S : Here.hrs[r].deps \cap S # {}

InOrder(r) == Cyclic \/ Here.hrs[r].deps \cap todo = {}

Skipped(d) == d.suspend \/ d.chart = "unsupported"

Resolved(d) == d.chart = "local" \/ d.source \in Merged

(* A failure is recorded: diff will report all of them, build has warned.  *)
Fail_Forgotten(r) ==
  /\ pc' = "inflate" /\ hr' = None
  /\ failures' = failures

Fail(r) ==
  /\ pc' = "inflate" /\ hr' = None
  /\ failures' = failures \cup {r}

Take(r) ==
  /\ pc = "inflate"
  /\ r \in todo /\ InOrder(r)
  /\ ~cancelled
  /\ todo' = todo \ {r}
  /\ LET d == Here.hrs[r] IN
     \/ /\ Skipped(d)
        /\ UNCHANGED <<pc, hr, failures>>
     \/ /\ ~Skipped(d)
        /\ ~Resolved(d)
        /\ Fail(r)
     \/ /\ ~Skipped(d)
        /\ Resolved(d)
        /\ hr' = r
        /\ pc' = IF d.chart = "http" /\ d.source \notin known THEN "index" ELSE "chart"
        /\ UNCHANGED failures
  /\ UNCHANGED <<world, cancelled, side, kss, lost, known, outputs, result, disk, ended>>

Index_ForgetsRelease ==
  /\ pc = "index"
  /\ known' = known \cup {Here.hrs[hr].source}
  /\ IF cancelled THEN Fail(hr)
     ELSE pc' = "chart" /\ hr' = None /\ failures' = failures
  /\ UNCHANGED <<world, cancelled, side, kss, lost, todo, outputs, result, disk, ended>>

(* registerRepo is not wrapped in cancellation; a failed refresh of the    *)
(* index may still find a cached copy.                                     *)
Index ==
  /\ pc = "index"
  /\ known' = known \cup {Here.hrs[hr].source}
  /\ IF cancelled THEN Fail(hr)
     ELSE /\ pc' = "chart"
          /\ UNCHANGED <<hr, failures>>
  /\ UNCHANGED <<world, cancelled, side, kss, lost, todo, outputs, result, disk, ended>>

IndexFails ==
  /\ pc = "index"
  /\ Fail(hr)
  /\ UNCHANGED <<world, cancelled, side, kss, lost, todo, known, outputs, result,
                 disk, ended>>

(* The chart is located and rendered.                                      *)
Inflate ==
  /\ pc = "chart"
  /\ outputs' = outputs \cup {Resource(side, hr)}
  /\ pc' = "inflate" /\ hr' = None
  /\ UNCHANGED <<world, cancelled, side, kss, lost, todo, known, failures, result,
                 disk, ended>>

InflateFails ==
  /\ pc = "chart"
  /\ Fail(hr)
  /\ UNCHANGED <<world, cancelled, side, kss, lost, todo, known, outputs, result,
                 disk, ended>>

(* locateHTTPChartCancelable and the others: the download is left behind.  *)
GiveUp_HttpOnly ==
  /\ pc = "chart"
  /\ cancelled
  /\ Here.hrs[hr].chart # "oci"
  /\ Fail(hr)
  /\ straggler' = IF Here.hrs[hr].chart = "local" THEN straggler ELSE "running"
  /\ UNCHANGED <<world, cancelled, side, kss, lost, todo, known, outputs, result,
                 worktree, temp, ended>>

GiveUp ==
  /\ pc = "chart"
  /\ cancelled
  /\ Fail(hr)
  /\ straggler' = IF Here.hrs[hr].chart = "local" THEN straggler ELSE "running"
  /\ UNCHANGED <<world, cancelled, side, kss, lost, todo, known, outputs, result,
                 worktree, temp, ended>>

(* It may still create directories in the cache, even one that was removed.*)
Straggle ==
  /\ Running
  /\ straggler = "running"
  /\ world.disabled /\ ~temp
  /\ straggler' = "wrote" /\ temp' = TRUE
  /\ UNCHANGED <<world, cancelled, pc, side, local, worktree, ended>>

(* The end of the loop, and of inflateAllHelmReleases; the deferred Close  *)
(* removes the temporary cache.  An empty output is nil before the context *)
(* is looked at, and an interrupted loop looks at nothing else.            *)
Incomplete == \/ cancelled /\ (todo # {} \/ outputs # {})
              \/ Strict /\ failures # {}

EndSide ==
  /\ pc = "inflate"
  /\ todo = {} \/ cancelled
  /\ temp' = FALSE
  /\ IF Incomplete
     THEN pc' = "abort" /\ result' = result
     ELSE pc' = "return" /\ result' = [result EXCEPT ![side] = outputs]
  /\ outputs' = {}
  /\ UNCHANGED <<world, cancelled, side, kss, lost, todo, hr, known, failures,
                 worktree, straggler, ended>>

Abort ==
  /\ pc = "abort"
  /\ Exit("error", {})

Return ==
  /\ pc = "return"
  /\ pc' = IF Strict /\ side = "current" THEN "checkout" ELSE "report"
  /\ UNCHANGED <<world, cancelled, side, local, disk, ended>>

-----------------------------------------------------------------------------
(* runDiffHR: CloneToDir, and the cluster path may be missing there.       *)
Checkout ==
  /\ pc = "checkout"
  /\ ~cancelled
  /\ worktree' = TRUE
  /\ side' = "compare"
  /\ pc' = IF world.tree["compare"].exists THEN "scan" ELSE "report"
  /\ UNCHANGED <<world, cancelled, local, temp, straggler, ended>>

CheckoutFails ==
  /\ pc = "checkout"
  /\ Exit("error", {})

(* buildResourceMap: the resources of the namespace, by kind and name.     *)
Mapped(resources) == {x \in resources : world.filter \in {None, x[2]}}

Difference(orig, mod) ==
  LET keys(S) == {<<x[1], x[2]>> : x \in S} IN
  ({"added"} \X (keys(mod) \ keys(orig)))
    \cup ({"removed"} \X (keys(orig) \ keys(mod)))
    \cup ({"modified"} \X {k \in keys(orig) \cap keys(mod) :
                            \E x \in orig \ mod : <<x[1], x[2]>> = k})

Report ==
  /\ pc = "report"
  /\ IF ~Strict
     THEN Exit("ok", Difference({}, result["current"]))
     ELSE IF cancelled
     THEN Exit("error", {})
     ELSE LET d == Difference(Mapped(result["compare"]), Mapped(result["current"])) IN
          Exit(IF d = {} THEN "ok" ELSE "changed", d)

(* What fluxview does on its own, and what waits for the network.          *)
Step ==
  \/ Start \/ Scan \/ BuildInterrupted \/ Select
  \/ \E k \in Kustomizations : BuildKs(k)
  \/ \E r \in Releases : Take(r)
  \/ GiveUp \/ EndSide \/ Abort \/ Return \/ Checkout \/ CheckoutFails \/ Report

Answer == Index \/ IndexFails \/ Inflate \/ InflateFails

Next == Cancel \/ Step \/ Answer \/ Straggle

Spec == Init /\ [][Next]_vars

(* A request for an index ends with its timeout, if it has one; no chart   *)
(* need ever arrive.                                                       *)
FairSpec ==
  /\ Spec
  /\ WF_vars(Step)
  /\ Bounded => WF_vars(IndexFails)

-----------------------------------------------------------------------------
(* What a side renders to if nothing goes wrong.                           *)
Rendered(s) ==
  LET tree == world.tree[s] IN
  {Resource(s, r) : r \in {q \in Releases : /\ tree.exists
                                          /\ tree.hrs[q] # None
                                          /\ tree.hrs[q].ks \in tree.kss
                                          /\ world.name \in {None, q}
                                          /\ ~Skipped(tree.hrs[q])}}

Truth ==
  IF Strict THEN Difference(Mapped(Rendered("compare")), Mapped(Rendered("current")))
  ELSE Difference({}, {x \in Rendered("current") :
         world.filter \in {None, x[2], world.tree["current"].hrs[x[1]].ns}})

(* A side that cannot inflate fails the diff (the comment of runDiffHR):   *)
(* what is reported is what the trees say, however the command was         *)
(* cancelled and whatever failed - but for what the discovery lost, and    *)
(* what build warned about.                                                *)
ReportIsTruthful ==
  exit \in {"ok", "changed"} /\ lost = {} /\ (Strict \/ failures = {}) =>
    /\ shown = Truth
    /\ Strict => (exit = "changed") = (shown # {})

(* docs/caching.md: what a run creates is removed when the command returns,*)
(* Ctrl-C or not - but for what a download left behind writes.             *)
CleanedUp == ~Running => ~worktree /\ (temp => straggler = "wrote")

(* docs/caching.md: Ctrl-C ends the command, a registry that hangs or not. *)
CancelEnds == cancelled ~> ~Running

(* README.md: "if a HelmRelease cannot be built on either side [...] the   *)
(* diff fails with exit code 2 instead of producing a partial comparison". *)
NeverPartial == Strict /\ exit \in {"ok", "changed"} => shown = Truth
=============================================================================

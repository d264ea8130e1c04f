------------------------------- MODULE Inventory -------------------------------
(***************************************************************************)
(* `inventory [--branch-orig rev]` (internal/cli/inventory.go and          *)
(* internal/inventory): one row per HelmRelease, custom resource, plain    *)
(* workload and group of CRDs of a tree, each with its version.  What only *)
(* a rendered chart shows - its custom resources and, under                *)
(* --split-umbrella, its applications - is added release by release, and   *)
(* any render may fail.  With --branch-orig the same is done for a checkout*)
(* of the revision and the two lists are compared.  Discovery is quiet: a  *)
(* Kustomization that cannot be built or fetched is left out of a side with*)
(* all that it carries.                                                    *)
(*                                                                         *)
(* What a chart renders to is fixed by the tree (HelmCache and HrInflation *)
(* have the ways to get it); columns nobody compares (images, operators,   *)
(* paths, warnings) and the order of the printed rows are left out.        *)
(***************************************************************************)
EXTENDS SequencesExt, FiniteSetsExt, Integers, TLC

CONSTANTS
  Namespaces, Names,
  Kinds, Groups,      (* of custom resources and of CRDs                   *)
  Versions,           (* a sequence, from the lowest to the highest        *)
  Worlds,             (* command lines and trees to explore                *)
  None

Sides   == {"current", "compare"}
Version == ToSet(Versions)
Opt(S)  == S \cup {None}

(* Documents.  A workload's name is its rank in the alphabet and its app   *)
(* the label app.kubernetes.io/name, or part-of; its version is what its   *)
(* main container says (workloadImageVersion), its label the version label,*)
(* which counts only when no container of the group says anything.         *)
CR       == [group : Groups, api : {"v1", "v1beta1"}, kind : Kinds, ns : Opt(Namespaces), name : Names, version : Opt(Version)]
Workload == [kind : {"Deployment", "StatefulSet", "DaemonSet", "CronJob", "Job"},
             ns : Opt(Namespaces), name : Nat, app : Opt(Names), version : Opt(Version), label : Opt(Version)]
CRD      == [group : Groups, label : Opt(Version)]

(* A release of the fleet: version is its chart's appVersion, the rest what*)
(* the chart renders.  A pin is a GitRepository of the tree, in the order  *)
(* of names: its tag, if it is external and has one, and the groups of the *)
(* CRDs in its clone.                                                      *)
Release(r) == /\ r.ns \in Namespaces /\ r.name \in Names /\ r.suspend \in BOOLEAN
              /\ r.version \in Opt(Version)
              /\ ToSet(r.crs) \subseteq CR /\ ToSet(r.workloads) \subseteq Workload
Pin == [tag : Opt(Version), groups : SUBSET Groups]

(* What one Flux Kustomization carries: its releases, in dependency order, *)
(* and the custom resources, workloads and CRDs of its output.  A frail one*)
(* may fail to be fetched or built.                                        *)
Kustomization(k) ==
  /\ k.frail \in BOOLEAN
  /\ \A i \in DOMAIN k.releases : Release(k.releases[i])
  /\ ToSet(k.crs) \subseteq CR /\ ToSet(k.workloads) \subseteq Workload /\ ToSet(k.crds) \subseteq CRD

(* The fleet of a tree t without the Kustomizations lost.                  *)
Found(t, lost) ==
  LET of(field) == FlattenSeq([i \in DOMAIN t.ks |-> IF i \in lost THEN <<>> ELSE t.ks[i][field]])
  IN  [exists |-> t.exists, flux |-> t.ks # <<>>, pins |-> t.pins, releases |-> of("releases"),
       crs |-> of("crs"), workloads |-> of("workloads"), crds |-> of("crds")]

(* No release is declared twice: DedupDocs and discoverHelmFleet keep one. *)
Tree(t) ==
  /\ t.exists \in BOOLEAN /\ ToSet(t.pins) \subseteq Pin
  /\ \A i \in DOMAIN t.ks : Kustomization(t.ks[i])
  /\ LET rs == Found(t, {}).releases IN
       \A i, j \in DOMAIN rs : i # j => <<rs[i].ns, rs[i].name>> # <<rs[j].ns, rs[j].name>>

(* rules: the kinds with an extraction rule; diff: --branch-orig is given; *)
(* filter: -n.                                                             *)
ASSUME ConstantsAssumption ==
  \A w \in Worlds : /\ w.rules \subseteq Groups \X Kinds
                    /\ {w.allCRs, w.split, w.diff} \subseteq BOOLEAN
                    /\ w.filter \in Opt(Namespaces)
                    /\ \A s \in Sides : Tree(w.tree[s])

VARIABLES
  world,      (* the command line and the trees; it never changes          *)
  cancelled,  (* the context                                               *)
  pc, side,
  lost,       (* the Kustomizations that yielded nothing, of each side     *)
  next,       (* the release to look at                                    *)
  renderable, (* indices of the releases of this side whose chart resolved *)
  comps,      (* the components of this side                               *)
  seen,       (* chart-rendered CRs of this side, by API identity          *)
  known,      (* CRs already collected on this side, by kind and name      *)
  failed,     (* releases that did not render, of both sides               *)
  splits,     (* releases replaced by their applications, of both sides    *)
  current,    (* the components of the working tree                        *)
  worktree,   (* the checkout of the revision is on disk                   *)
  exit,       (* the exit code                                             *)
  listed,     (* the compared rows, before the filter                      *)
  shown,      (* the rows printed                                          *)
  unread,     (* releases whose chart did not resolve on a side (history)  *)
  unpinned,   (* groups whose clone failed on a side (history)             *)
  blind,      (* a failed scan passed for an empty revision (history)      *)
  ideal       (* what each side holds when nothing fails (history)         *)

here    == <<next, renderable, comps, seen, known>>
both    == <<lost, failed, splits, current>>
outcome == <<exit, listed, shown>>
history == <<unread, unpinned, blind, ideal>>
vars    == <<world, cancelled, pc, side, here, both, worktree, outcome, history>>

Here     == Found(world.tree[side], lost[side])
Key(r)   == <<r.ns, r.name>>

-----------------------------------------------------------------------------
(* Rows.                                                                   *)
Row(source, kind, ns, name, version, parent) ==
  [source |-> source, kind |-> kind, ns |-> ns, name |-> name,
   version |-> version, parent |-> parent, change |-> <<>>]

(* diff.go: identity.                                                      *)
Identity(c) == <<c.source, c.ns, c.name, c.kind>>

(* The documents of s that are the first of their identity.                *)
FirstOf(s, Id(_)) ==
  FoldLeft(LAMBDA acc, d : IF \E e \in ToSet(acc) : Id(e) = Id(d) THEN acc ELSE Append(acc, d), <<>>, s)

(* Documents by identity, in the order the identities first appear.        *)
GroupsBy(s, Id(_)) ==
  LET firsts == FirstOf(s, Id)
  IN  [i \in DOMAIN firsts |-> SelectSeq(s, LAMBDA d : Id(d) = Id(firsts[i]))]

HasRule(d)    == <<d.group, d.kind>> \in world.rules
CRIdentity(d) == <<d.group, d.api, d.ns, d.kind, d.name>>
KnownAs(d)    == <<d.kind, d.ns, d.name>>

CRRow(d, parent) ==
  Row("cr", d.kind, d.ns, d.name,
      IF ~HasRule(d) THEN "unknown" ELSE IF d.version = None THEN "default" ELSE d.version, parent)

(* collectCRComponents: the first document of an identity counts; kinds    *)
(* without a rule only under --all-crs.                                    *)
FleetCRs(t) ==
  LET docs == FirstOf(SelectSeq(t.crs, LAMBDA d : world.allCRs \/ HasRule(d)), CRIdentity)
  IN  [i \in DOMAIN docs |-> CRRow(docs[i], None)]

(* manifest.go: the workloads of a component, first of all those of the    *)
(* kinds that decide its version.                                          *)
WorkloadKinds == <<"Deployment", "StatefulSet", "DaemonSet", "CronJob", "Job">>
KindRank(k)   == CHOOSE i \in DOMAIN WorkloadKinds : WorkloadKinds[i] = k
ByPriority(docs) ==
  SortSeq(docs, LAMBDA v, w : \/ KindRank(v.kind) < KindRank(w.kind)
                              \/ v.kind = w.kind /\ v.name < w.name)
GroupVersion(docs, otherwise) ==
  LET tagged   == SelectSeq(ByPriority(docs), LAMBDA w : w.version # None)
      labelled == SelectSeq(ByPriority(docs), LAMBDA w : w.label # None)
  IN  IF tagged # <<>> THEN tagged[1].version
      ELSE IF labelled # <<>> THEN labelled[1].label ELSE otherwise

ComponentName(w) == IF w.app # None THEN w.app ELSE w.name
ManifestRows(t) ==
  LET comp == GroupsBy(t.workloads, LAMBDA w : <<w.ns, ComponentName(w)>>)
  IN  [i \in DOMAIN comp |->
         LET main == ByPriority(comp[i])[1]
         IN  Row("manifest", main.kind, main.ns, ComponentName(main), GroupVersion(comp[i], ""), None)]

(* umbrellaChildren: one row per application the workloads are labelled    *)
(* with; those without a label are the release's own.                      *)
Children(r) ==
  LET apps == GroupsBy(r.workloads, LAMBDA w : IF w.app # None THEN w.app ELSE r.name)
      Child(docs) ==
        LET placed == SelectSeq(docs, LAMBDA w : w.ns # None)
            app    == IF docs[1].app # None THEN docs[1].app ELSE r.name
        IN  Row("helm", ByPriority(docs)[1].kind, IF placed = <<>> THEN r.ns ELSE placed[1].ns,
                <<r.name, app>>, GroupVersion(docs, "unknown"), Key(r))
  IN  [i \in DOMAIN apps |-> Child(apps[i])]

(* crd.go: a group's row has the highest of the versions its CRDs have by  *)
(* label or by the first pinned clone that ships the group.                *)
Highest(S) == Versions[Max({i \in DOMAIN Versions : Versions[i] \in S})]
CRDRows(t, fetched) ==
  LET pinned(g)  == SelectSeq([i \in DOMAIN t.pins |-> [t.pins[i] EXCEPT !.groups = IF i \in fetched THEN @ ELSE {}]],
                              LAMBDA p : p.tag # None /\ g \in p.groups)
      version(d) == IF d.label # None THEN d.label
                    ELSE IF pinned(d.group) # <<>> THEN pinned(d.group)[1].tag ELSE None
      groups     == GroupsBy(SelectSeq(t.crds, LAMBDA d : version(d) # None), LAMBDA d : d.group)
  IN  [i \in DOMAIN groups |->
         Row("crd", "CustomResourceDefinition", None, <<groups[i][1].group, Len(groups[i])>>,
             Highest({version(d) : d \in ToSet(groups[i])}), None)]

(* collectHelmComponents: without its chart's metadata a row shows "-".    *)
HelmRow(r, ok) == Row("helm", "HelmRelease", r.ns, r.name, IF ok /\ r.version # None THEN r.version ELSE "-", None)

Active(t) == SelectSeq([i \in DOMAIN t.releases |-> i], LAMBDA i : ~t.releases[i].suspend)

(* collectFleetComponents.                                                 *)
Collected(t, resolved, fetched) ==
  [i \in DOMAIN Active(t) |-> HelmRow(t.releases[Active(t)[i]], Active(t)[i] \in resolved)]
    \o FleetCRs(t) \o ManifestRows(t) \o CRDRows(t, fetched)

(* chartCRs: what the build output holds wins over what a chart renders,   *)
(* and the first chart over the others.                                    *)
AddCR_Always(st, d, r) ==
  IF HasRule(d) THEN [st EXCEPT !.comps = Append(@, CRRow(d, Key(r)))] ELSE st

AddCR(st, d, r) ==
  IF ~HasRule(d) \/ CRIdentity(d) \in st.seen THEN st
  ELSE IF KnownAs(d) \in st.known THEN [st EXCEPT !.seen = @ \cup {CRIdentity(d)}]
  ELSE [comps |-> Append(st.comps, CRRow(d, Key(r))),
        seen  |-> st.seen \cup {CRIdentity(d)}, known |-> st.known \cup {KnownAs(d)}]

SplitsUp(r) == world.split /\ Len(Children(r)) > 1

(* enrichOneHelmRow, when the chart renders.                               *)
Enriched(st, r) ==
  LET with   == FoldLeft(LAMBDA acc, d : AddCR(acc, d, r), st, r.crs)
      own(c) == c.source = "helm" /\ <<c.ns, c.name>> = Key(r)
  IN  IF SplitsUp(r) THEN [with EXCEPT !.comps = SelectSeq(@, LAMBDA c : ~own(c)) \o Children(r)] ELSE with

KnownCRs(cs) == {KnownAs(c) : c \in {d \in ToSet(cs) : d.source = "cr"}}

(* What a side holds when nothing fails, before and after its charts are   *)
(* rendered.                                                               *)
Fleet(t) ==
  IF t.exists /\ t.flux THEN Collected(t, ToSet(Active(t)), DOMAIN t.pins) ELSE <<>>

Ideal(t) ==
  IF Fleet(t) = <<>> THEN <<>>
  ELSE FoldLeft(LAMBDA st, i : Enriched(st, t.releases[i]),
                [comps |-> Fleet(t), seen |-> {}, known |-> KnownCRs(Fleet(t))], Active(t)).comps

-----------------------------------------------------------------------------
(* The comparison.  Of several rows with one identity the last counts.     *)
LastOf(cs, c) == cs[Max({i \in DOMAIN cs : Identity(cs[i]) = Identity(c)})]
In(cs, c)     == \E d \in ToSet(cs) : Identity(d) = Identity(c)

Marker(before, c) ==
  IF ~In(before, c) THEN <<"+">>
  ELSE IF LastOf(before, c).version # c.version THEN <<"~", LastOf(before, c).version, c.version>>
  ELSE <<>>

DiffComponents(before, after) ==
  LET gone == SelectSeq(before, LAMBDA c : ~In(after, c))
  IN  [i \in DOMAIN after |-> [after[i] EXCEPT !.change = Marker(before, after[i])]]
        \o [i \in DOMAIN gone |-> [gone[i] EXCEPT !.change = <<"-">>]]

(* dropChartDerived: what one side could not render goes from both, and so *)
(* does the row of a release that failed on one side and was split on the  *)
(* other.                                                                  *)
Derived_ByName(c) == c.parent # None /\ \E k \in failed : k[2] = c.parent[2]
Derived(c)        == c.parent # None /\ c.parent \in failed

ShapeDiffers_Never(c) == FALSE
ShapeDiffers(c) ==
  c.source = "helm" /\ c.parent = None /\ <<c.ns, c.name>> \in failed \cap splits

Compared(before, after) ==
  SelectSeq(DiffComponents(before, after), LAMBDA c : ~Derived(c) /\ ~ShapeDiffers(c))

Filter(cs) == SelectSeq(cs, LAMBDA c : world.filter \in {None, c.ns})

-----------------------------------------------------------------------------
Init ==
  /\ world \in Worlds /\ cancelled = FALSE
  /\ pc = "start" /\ side = "current"
  /\ lost = [s \in Sides |-> {}]
  /\ next = 1 /\ renderable = {} /\ comps = <<>> /\ seen = {} /\ known = {}
  /\ failed = {} /\ splits = {} /\ current = <<>>
  /\ worktree = FALSE
  /\ exit = "none" /\ listed = <<>> /\ shown = <<>>
  /\ unread = {} /\ unpinned = {} /\ blind = FALSE
  /\ ideal = [s \in Sides |-> LET t == Found(world.tree[s], {}) IN [plain |-> Fleet(t), rendered |-> Ideal(t)]]

Running == exit = "none"

Cancel ==
  /\ Running /\ ~cancelled
  /\ cancelled' = TRUE
  /\ UNCHANGED <<world, pc, side, here, both, worktree, outcome, history>>

(* The command returns; a checkout is removed by the deferred call.        *)
Exit_KeepsWorktree(code, all) ==
  /\ pc' = "done" /\ exit' = code
  /\ listed' = all /\ shown' = Filter(all)
  /\ worktree' = (worktree /\ code = "error")
  /\ UNCHANGED <<world, cancelled, side>>

Exit(code, all) ==
  /\ pc' = "done" /\ exit' = code
  /\ listed' = all /\ shown' = Filter(all)
  /\ worktree' = FALSE
  /\ UNCHANGED <<world, cancelled, side>>

Fail == Exit("error", <<>>) /\ UNCHANGED <<here, both, history>>

(* CheckInterrupted, at each release or at each that is to be rendered.    *)
Interrupted ==
  /\ cancelled
  /\ \/ pc = "metadata" /\ next \in DOMAIN Here.releases
     \/ pc = "render" /\ next \in renderable
  /\ Fail

(* runInventory up to the discovery of the working tree; the path, the     *)
(* repository, the Inflater and the rules may each be an error.            *)
Start ==
  /\ pc = "start" /\ Here.exists
  /\ pc' = "scan"
  /\ UNCHANGED <<world, cancelled, side, here, both, worktree, outcome, history>>

StartFails == pc = "start" /\ Fail

(* The last lines of runInventory, with the components of the revision.    *)
Report(before, after, compared) ==
  LET all == IF compared THEN Compared(before, after) ELSE after
  IN  Exit(IF \E c \in ToSet(all) : c.change # <<>> THEN "changed" ELSE "ok", all)

HasFleet == Here.exists /\ Here.flux

(* discoverHelmFleet has no fleet when the scan finds no Kustomization, and*)
(* none when it fails - on the files or because of a cancellation, here at *)
(* any time: an error for the working tree, an empty list for the revision,*)
(* like a path that does not exist there.                                  *)
NoFleet ==
  /\ pc = "scan"
  /\ IF side = "current" THEN Fail
     ELSE /\ Report(<<>>, current, TRUE)
          /\ blind' = HasFleet
          /\ UNCHANGED <<here, both, unread, unpinned, ideal>>

(* A cancellation that the build of the Kustomizations meets is an error.  *)
BuildInterrupted ==
  /\ pc = "scan" /\ cancelled /\ HasFleet
  /\ Fail

(* buildKSContent, quiet: a Kustomization whose source cannot be fetched or*)
(* whose path does not build yields its own document only.                 *)
Scan ==
  /\ pc = "scan" /\ HasFleet /\ ~cancelled
  /\ LET ks == world.tree[side].ks IN
       \E gone \in SUBSET {i \in DOMAIN ks : ks[i].frail} : lost' = [lost EXCEPT ![side] = gone]
  /\ pc' = "metadata"
  /\ UNCHANGED <<world, cancelled, side, here, failed, splits, current, worktree, outcome, history>>

(* collectHelmComponents, one release; a chart that cannot be resolved     *)
(* leaves a row that nothing renders.                                      *)
Resolve(ok) ==
  /\ pc = "metadata" /\ next \in DOMAIN Here.releases
  /\ ~cancelled
  /\ LET r == Here.releases[next] IN
       /\ renderable' = IF ok /\ ~r.suspend THEN renderable \cup {next} ELSE renderable
       /\ unread' = IF ok \/ r.suspend THEN unread ELSE unread \cup {Key(r)}
  /\ next' = next + 1
  /\ UNCHANGED <<world, cancelled, pc, side, comps, seen, known, both, worktree, outcome, unpinned, blind, ideal>>

(* The rest of collectFleetComponents and the start of enrichHelmRows;     *)
(* every clone of a pinned source may fail.                                *)
Collect ==
  /\ pc = "metadata" /\ next \notin DOMAIN Here.releases
  /\ \E fetched \in SUBSET {i \in DOMAIN Here.pins : Here.pins[i].tag # None} :
       LET cs == Collected(Here, renderable, fetched) IN
         /\ comps' = cs /\ known' = KnownCRs(cs) /\ seen' = {}
         /\ unpinned' = unpinned \cup UNION {Here.pins[i].groups : i \in
                          {j \in DOMAIN Here.pins : Here.pins[j].tag # None} \ fetched}
  /\ pc' = "render" /\ next' = 1
  /\ UNCHANGED <<world, cancelled, side, renderable, both, worktree, outcome, unread, blind, ideal>>

(* enrichHelmRows passes over the rows without a chart before it asks      *)
(* whether the run was cancelled.                                          *)
PassOver ==
  /\ pc = "render" /\ next \in DOMAIN Here.releases \ renderable
  /\ next' = next + 1
  /\ UNCHANGED <<world, cancelled, pc, side, renderable, comps, seen, known, both, worktree, outcome, history>>

(* enrichOneHelmRow: any error of the render, a cancellation that arrives  *)
(* during it included, is a warning.                                       *)
RenderFails ==
  /\ pc = "render" /\ next \in renderable /\ ~cancelled
  /\ failed' = failed \cup {Key(Here.releases[next])}
  /\ next' = next + 1
  /\ UNCHANGED <<world, cancelled, pc, side, renderable, comps, seen, known, lost, splits, current, worktree, outcome, history>>

Render ==
  /\ pc = "render" /\ next \in renderable /\ ~cancelled
  /\ LET r  == Here.releases[next]
         st == Enriched([comps |-> comps, seen |-> seen, known |-> known], r)
     IN  /\ comps' = st.comps /\ seen' = st.seen /\ known' = st.known
         /\ splits' = IF SplitsUp(r) THEN splits \cup {Key(r)} ELSE splits
  /\ next' = next + 1
  /\ UNCHANGED <<world, cancelled, pc, side, renderable, lost, failed, current, worktree, outcome, history>>

(* collectAtRevision: the checkout asks for the context itself, and may    *)
(* fail for reasons of its own.                                            *)
Compare ==
  /\ pc = "render" /\ next \notin DOMAIN Here.releases
  /\ side = "current" /\ world.diff

Checkout ==
  /\ Compare /\ ~cancelled
  /\ current' = comps /\ side' = "compare" /\ worktree' = TRUE
  /\ pc' = "scan" /\ next' = 1
  /\ renderable' = {} /\ comps' = <<>> /\ seen' = {} /\ known' = {}
  /\ UNCHANGED <<world, cancelled, lost, failed, splits, outcome, history>>

CheckoutFails == Compare /\ Fail

(* A run that is cancelled after its last render reports all the same.     *)
Finish ==
  /\ pc = "render" /\ next \notin DOMAIN Here.releases
  /\ side = "compare" \/ ~world.diff
  /\ Report(comps, IF side = "compare" THEN current ELSE comps, world.diff)
  /\ UNCHANGED <<here, both, history>>

Next ==
  \/ Cancel \/ Interrupted \/ Start \/ StartFails \/ NoFleet \/ BuildInterrupted \/ Scan
  \/ \E ok \in BOOLEAN : Resolve(ok)
  \/ Collect \/ PassOver \/ RenderFails \/ Render \/ Checkout \/ CheckoutFails \/ Finish

Spec == Init /\ [][Next]_vars

-----------------------------------------------------------------------------
RowOK(c) ==
  /\ c.source \in {"helm", "cr", "manifest", "crd"}
  /\ c.parent \in Opt(Namespaces \X Names)
  /\ c.version \in Version \cup {"-", "", "default", "unknown"}

(* Types; the list a side starts from is that of its fleet, only the rows  *)
(* of a comparison carry markers, and the checkout lives only while the    *)
(* revision is collected.                                                  *)
TypeOK ==
  /\ world \in Worlds /\ cancelled \in BOOLEAN /\ side \in Sides
  /\ pc \in {"start", "scan", "metadata", "render", "done"}
  /\ \A s \in Sides : lost[s] \subseteq {i \in DOMAIN world.tree[s].ks : world.tree[s].ks[i].frail}
  /\ next \in Nat /\ renderable \subseteq DOMAIN Here.releases
  /\ \A c \in ToSet(comps \o current) : RowOK(c) /\ c.change = <<>>
  /\ \A c \in ToSet(listed) : RowOK(c) /\ (c.change # <<>> => world.diff)
  /\ {failed, splits, unread} \subseteq SUBSET (Namespaces \X Names)
  /\ unpinned \subseteq Groups /\ blind \in BOOLEAN
  /\ exit \in {"none", "ok", "changed", "error"}
  /\ ToSet(shown) \subseteq ToSet(listed)
  /\ worktree = (side = "compare" /\ pc # "done")

Before == ideal["compare"].rendered
After  == ideal["current"].rendered

(* Two objects of a tree share an identity when only their API groups or   *)
(* versions, or the releases their applications belong to, tell them apart.*)
Ambiguous(c) ==
  \E cs \in {Before, After} : \E i, j \in DOMAIN cs :
    i # j /\ Identity(cs[i]) = Identity(c) /\ Identity(cs[j]) = Identity(c)

(* What the Kustomizations of the two trees carry, and what those carry    *)
(* that yielded nothing on their side.                                     *)
Carried(field, Ks(_)) ==
  UNION {UNION {ToSet(world.tree[s].ks[i][field]) : i \in Ks(s)} : s \in Sides}
Declared(field) == Carried(field, LAMBDA s : DOMAIN world.tree[s].ks)
Lost(field)     == Carried(field, LAMBDA s : lost[s])

(* The releases whose chart renders the custom resource c, in any tree.    *)
RowKey(c)    == <<c.kind, c.ns, c.name>>
Suppliers(c) == {Key(r) : r \in {q \in Declared("releases") : \E d \in ToSet(q.crs) : KnownAs(d) = RowKey(c)}}

(* The releases that decide whether a side lists c at all, or with which   *)
(* version: the row's own, its parent, or those that may render it.        *)
Behind(c) ==
  IF c.source = "helm" THEN IF c.parent # None THEN {c.parent} ELSE {<<c.ns, c.name>>}
  ELSE IF c.source = "cr" THEN Suppliers(c) ELSE {}

(* A side did not see the object of row c, or a part of it: discovery lost *)
(* the Kustomization that carries it or the release it comes from.         *)
Unseen(c) ==
  \/ Behind(c) \cap {Key(r) : r \in Lost("releases")} # {}
  \/ c.source = "cr" /\ \E d \in Lost("crs") : KnownAs(d) = RowKey(c)
  \/ c.source = "manifest" /\ \E d \in Lost("workloads") : <<d.ns, ComponentName(d)>> = <<c.ns, c.name>>
  \/ c.source = "crd" /\ \E d \in Lost("crds") : d.group = c.name[1]

(* What the code does not make up for: a Kustomization lost on a side, a   *)
(* chart that did not resolve, a custom resource that another release would*)
(* have rendered, a clone that failed.                                     *)
Excused(c) ==
  \/ Ambiguous(c) \/ Unseen(c)
  \/ Behind(c) \cap unread # {}
  \/ c.source = "cr" /\ (Behind(c) \ {c.parent}) \cap failed # {}
  \/ c.source = "crd" /\ c.name[1] \in unpinned

Between(before, after, c) ==
  IF In(after, c) THEN Marker(before, LastOf(after, c))
  ELSE IF In(before, c) THEN <<"-">> ELSE <<>>

IdealMarker(c) == Between(Before, After, c)

(* A release that comes or goes may be shown by its own row where it would *)
(* have been split.                                                        *)
Real(c) == c.change \in {<<>>, IdealMarker(c), Between(ideal["compare"].plain, ideal["current"].plain, c)}

Compares == exit \in {"ok", "changed"} /\ world.diff /\ ~blind

(* Every marker of a comparison is a difference of the two trees, but for  *)
(* what discovery did not see on a side: a release that does not render on *)
(* one side adds no row and no version change, and a lost Kustomization    *)
(* changes the rows of what it carries and no other.                       *)
ChangesAreReal == Compares => \A c \in ToSet(listed) : Real(c) \/ Excused(c)

(* No difference of the two trees is lost, but those that discovery did not*)
(* see and those of releases that did not render; a namesake in another    *)
(* namespace loses nothing.                                                *)
NoChangeIsLost ==
  Compares =>
    \A c \in ToSet(Before \o After) :
      \/ IdealMarker(c) = <<>> \/ Excused(c) \/ Behind(c) \cap failed # {}
      \/ \E d \in ToSet(listed) : Identity(d) = Identity(c) /\ d.change = IdealMarker(c)

(* An active release found in the working tree has its own row or, split,  *)
(* those of its applications, never both; and a custom resource that the   *)
(* build output holds is not listed as a chart's, nor twice.               *)
EachObjectOnce ==
  exit \in {"ok", "changed"} =>
    /\ \A i \in ToSet(Active(Found(world.tree["current"], lost["current"]))) :
         LET k    == Key(Found(world.tree["current"], lost["current"]).releases[i])
             own  == \E c \in ToSet(listed) : c.source = "helm" /\ <<c.ns, c.name>> = k /\ c.change # <<"-">>
             kids == \E c \in ToSet(listed) : c.source = "helm" /\ c.parent = k /\ c.change # <<"-">>
         IN  (own # kids) \/ (k \in failed \cap splits /\ ~own /\ ~kids)
    /\ \A i, j \in DOMAIN listed :
         (/\ i < j /\ listed[i].source = "cr"
          /\ Identity(listed[i]) = Identity(listed[j])) => listed[i].parent = None /\ listed[j].parent = None
=============================================================================

# TLA+ models of fluxview

fluxview renders, compares and validates Flux CD repositories offline: it builds
the Kustomizations of a cluster path, inflates the HelmReleases in their output,
compares two revisions and validates the result against schemas. It is a
command-line program, so most of what can go wrong over time is in four places:
the **pipelines** that walk data they discover as they go and may be cancelled,
the **caches on disk** that concurrent fluxview processes share and that outlive
crashes, the **worker pool** that downloads schemas, and the **comparisons** of two
sides of which one may have failed in part.

- [Inventory](#inventory) - the parts, their state and what is hard about them
- [Modules](#modules) - what each module models and how it corresponds to the code
- [Runs](#runs) - what TLC checks, in which bounds
- [Fairness](#fairness) - what liveness rests on
- [Proofs](#proofs) - what TLAPS proves, from what, and along which argument
- [Divergences](#divergences-between-code-and-documentation) - where code and docs disagree
- [Not modelled](#not-modelled) and [Plan](#plan)

Paths are relative to `src/`; Go packages are under `src/internal`.

## Inventory

| Part | State | Operations | Hard behaviours |
|---|---|---|---|
| Kustomization pipeline (`cli/diff.go`, `build.go`, `external.go`, `overlays.go`) | queue of a level, `seen`, known GitRepositories, build memo, report | walk level by level, resolve a source, build, discover, append overlays | duplicate and cyclic declarations, sources discovered late, partial failures, cancellation |
| validate gate (`cli/validate.go`) | report, failed directories | `gatePartialBuild`, exit | a green result that checked nothing |
| External git sources (`gitsource`) | `data/` clones, `refs/` pointers, `inflight` map | `Ensure`: pointer, ls-remote, clone, publish, repair | several calls and processes, pushes in between, crashes |
| Kustomize builder (`kustomize`) | remote copies, build entries with manifests | `prepare`, `lookup`, `verify`, run, `store`, `sweep` | inputs edited at any moment, TTLs, offline fallback |
| HelmRelease inflation, `diff hr` (`cli/hr_inflation.go`) | the fleet, failures, outputs, the checkout, the temporary cache | discover, select, inflate, compare, clean up | one side failing, cancellation, downloads that cannot be cancelled |
| Helm chart cache (`helm/inflater.go`) | index files, `repositories.yaml`, `oci-digests`, `oci-tags`, tarballs; copies in memory | register a repository, refresh an index, select a tag, resolve a digest, pull | whole files written from memory by several processes, TTLs, stale fallbacks |
| CRD conversion (`validate/crd.go`) | schema files, `meta.json` | walk, convert, sweep, save | a death between any two writes, edits during the walk |
| Schema prefetch (`validate/prefetch.go`) | schema cache, work channel, results | plan, fetch, retry, write, rename, join, validate | workers stopping early, cancellation, bad bodies, a death while writing |
| Resource comparison (`cli/resourcediff.go`) | two keyed maps | build, filter, compare | pure, but its inputs come from the two sides |
| Component inventory (`cli/inventory.go`, `inventory`) | rows of a side, CRs seen and known, failed and split releases | discover, collect, render, dedup, split, compare with a revision | a Kustomization that builds or a chart that renders on one side only, one object from several places |
| Flux parser, dependency order, substitution (`flux`) | a snapshot per scan | walk, decode, choose directories, sort, layer values | cycles, duplicates, mutual references |
| Text diff (`diff`) | none | edit script, hunks | boundaries: ties, empty sides, context that meets |
| Git credentials (`gitsource/auth.go`) | outcome per host, host keys trusted on first use | parse netrc, choose a method, verify a host key | a kept outcome meets another URL, credentials meet a host they are not for |
| Revision checkout (`git`) | a temporary directory | `CloneToDir`, `RemoveWorktree` | cancellation, cleanup |
| Patches (`kustomize/patch.go`), YAML helpers (`yamlutil`), flags and output | none over time | - | pure data |

How they interact: a command builds one `ksBuildEnv` and walks the Kustomizations;
every Kustomization with an external source calls `gitsource.Fetcher.Ensure`, every
directory goes through `kustomize.Builder.Build` (remote cache, then build cache,
then kustomize). `build hr` and `diff hr` parse the walk's output for HelmReleases
and chart sources and hand them one by one to a `helm.Inflater`; `diff` does all of
it twice, and so does `inventory --branch-orig`, which stops at the metadata and the
rendered documents of each release. `validate` takes the walk's output through the gate, converts CRDs,
prefetches schemas and validates. The processes of a machine meet only on disk.

What makes each part correct:

- pipeline: nothing is built twice, nothing active is dropped, content that is absent is accounted for;
- gate: a green `validate` checked everything it does not name as unchecked;
- clones: published atomically, final, never older than what they are filed under;
- build cache: a hit was verified against the files as they are, and is young enough;
- inflation: a report tells the truth about both trees, or the command fails; it cleans up, and Ctrl-C ends it;
- chart cache: bounded staleness, offline use, no trace of a failed registration;
- CRD conversion: the schemas validated against are those of the files;
- prefetch: fails closed, never leaves a file in the cache that a later run cannot read, terminates;
- inventory: a reported change is a difference of the two trees and none is lost, whatever
  failed to render on either side, but for what discovery lost there; every object is listed once;
- algorithms: their result is what a definition by sets says it must be.

`PROJECT.json` lists the hazards behind these, each at its line.

## Modules

`MCx.tla` gives `x.tla` its constants; `x_proofs.tla` holds its theorems.

**KsPipeline** (with **KsWalk**). One command over one repository (`World`: what each
location holds, which GitRepositories the cluster path declares, which paths are native
overlays). A *declaration* is one Kustomization document; several may carry the same
`namespace/name`. `Process(d)` is `buildOneKustomization` with `resolveKSSource` and
`renderKSContent`: its disjuncts are the outcomes - nothing to build, fetch failed, path
missing, build failed, built, interrupted; a directory without a kustomization file
(`Gathered`) is built piece by piece, and a failure or a cancellation can leave a part of it
(`CancelledGathering`). `EndLevel` is the switch of queues,
`AppendOverlays` the overlays of `buildKSContent`, `Finish` the gate and the exit. The
order of documents within a level is repository data, so a level is a set and its members
are taken in any order. `known`/`knownRepos`, `seen`, `failed` (the build memo),
`missingPaths` and `fetchErrors` are the code's variables of those names. KsWalk is the
promise: process declared, active Kustomizations, each key once, nothing undeclared.

**GitSource**. `dirs` is `<cache>/data`, `ptrs` is `<cache>/refs`, `inflight` the map of each
process's `Fetcher`, `caller` one `Ensure` call. A call reads the pointer or asks the
remote (`ReadPointer`, `LsRemote`), checks the seed file, becomes leader or follower
(`Lead`, `Follow`), clones into a temporary directory (`CloneOnce`), and publishes by
rename, with the three outcomes of `cloneAtomic`: published, somebody else's directory is
whole, or it is damaged and is removed (`StartEvict`, `EndEvict`) and replaced. `Damaged`
names directories left without a seed by an interrupted copy. The upstream pushes and tags
at any moment; a process may die at any moment. Pinned refs have no pointer. **CloneStore** is the
promise: a key has no tree until, in one step and for good, it has one that the upstream
holds for it at that moment. `Trees` is the refinement mapping: the directories outside
`Damaged`, one without a seed counting as a torn tree, which the store never holds.

**BuildCache**. One directory with a kustomization file, other files and listings, and
remote resources. Files change at any moment. Reads happen one by one, as does the
verification of a hit. `reads` is the manifest of an entry, `got` what the output was made
from; the manifest hashes the kustomization file and lists directories when the build has
ended (`Snapshot`), as the code does, so it may name something else than what was read. A sweep
removes any entries older than the one stored (the limits are a number and a size), and a store
may fail.
`during` is history: what each file has held since the verification began.

**SchemaPrefetch**. `Plan` computes the kinds to fetch, workers take them from the queue,
retry with back-off and record; `Join` waits for all; `Validate` decides every kind. The
registry is fixed per kind (a pinned version), a schema or none; what a request brings is the
document, one cut short, an error page (`Delivered`), a 404 or a failure. A body that passes
`Verified` is written to a temporary file (`Write`) and renamed (`Rename`), and either may fail.
`files` is the cache: it outlives the run, so the process may be killed anywhere (`Die`) and the
command be run again (`Rerun`). `Elsewhere` is another process filling the cache.

**CRDCache**. The user writes and deletes CRD files; a call walks them, compares stamps,
converts file by file - every schema is truncated, then written - forgets unseen claims,
sweeps and saves `meta.json`. `Exit` is the end or death of the process at any point.
`Overlaps` allows two files to define one schema.

**HelmCache**. A process stands for one `Inflater`, with `ociDigests` and `ociTags` as it
loaded them. HTTP: load the registry, refresh the index if it is not fresh, write it,
persist the entry, locate. OCI: choose a tag, resolve its digest, pull. Every request may
fail. `past` is history: what each source held at each time, for the staleness bound.

**HrInflation**. `build hr` and `diff hr`. A tree holds Kustomizations, the HelmReleases they
declare, and chart sources (`built`: in the output; `raw`, `root`: in files). `Scan` and
`BuildKs` are the discovery (KsPipeline in one step per Kustomization); `Select` the
filters and `NewInflater`; `Take`, `Index`, `Inflate`, `GiveUp` the loop of
`inflateHelmReleasesShared`; `EndSide`, `Checkout`, `Report` the two sides of `diff`.
`RawSources` falls back to the whole repository type by type; `Straggle` is the goroutine of an abandoned download. `lost` is history: the Kustomizations
a side did not get to see. A release renders to one resource.

**Inventory**. `inventory`, alone or with `--branch-orig`. A tree is a sequence of
Kustomizations, each with the releases it declares and what their charts would render, its
custom resources, workloads and CRDs; and the pinned GitRepositories. `Scan` is the discovery,
which is quiet: each *frail* Kustomization may fail to be fetched or built on either side, and what
it carries is then missing from the side's fleet (`Found`). A scan that fails for any reason is
`NoFleet`: an error for the working tree, an empty list for the revision. What is left
is collected as `collectFleetComponents` does: `Resolve`
reads the metadata of one release, `Collect` builds the rows of all sources and clones the
pinned ones for CRD versions. `Render`, `RenderFails` and `PassOver` are one turn of the loop
of `enrichHelmRows`, `Enriched` the dedup of chart-rendered custom resources and the split of
an umbrella chart. `Checkout` starts the other side (`CheckoutFails`: the repository cannot be
opened or the revision not be checked out), `Report` is `DiffComponents` with
`dropChartDerived`, the exit code and the filter. `seen`, `known`, `failed` and `splits` are
the maps and lists of the code. `ideal` (what each side holds when nothing fails), `unread`,
`unpinned` and `blind` are history, for the properties only; `lost` is what `Scan` chose.

**Algorithms** applies the pure operators of four modules to families of inputs, one action
per algorithm, and compares the results with definitions that share nothing with them:

- **DependencyOrder**, Kahn's algorithm of `topologicalSortGeneric` with its index map and edge
  counts, and what `discoverHelmFleet` and `runBuildKS` make of a cycle. `DependenciesFirst`
  speaks of the dependency relation (`DependsOn`) and of sets closed under it (`HasCycle`).
- **TextDiff**, `computeEditScript` - Myers forward with its trace, the backtracking, the greedy
  script - and `groupIntoHunks`/`buildHunk`; `ScriptIsMinimal` compares with the length of the
  longest common subsequence, `HunksShowChanges` with the lines near a change.
- **KustomizeDirs**, the entries of the walk and `selectBuildDirs` over them; `BuiltOnce` speaks
  of what a build takes in: the least set of directories closed under references.
- **GitCredentials**, the endpoint the code makes of a URL (`ParseGitEndpoint`: scheme, scp and
  path forms, the userinfo cut off at the last `@` wherever that is), netrc stanzas, HTTP and SSH
  resolution, the outcome kept per host, host keys. `CredentialsFit` compares every answer with
  that of a process that asks only once, and holds what is sent against the host that the URL
  itself names (`StaysHome`), which is the one a clone contacts.

**Layering** extends Algorithms with the fifth, **Substitution**: the choice of a ConfigMap or
Secret for a reference, redaction, and the layers of values and variables. `ValuesAreLayered`
speaks of leaves and of who has the last word. It is a module of its own because `MergeMaps` is
defined by recursion on documents, which the prover cannot follow; the runs check both together
(`AllSpec`).

## Runs

| Run | Distinct states | Question |
|---|---|---|
| `KsPipeline` | 202,002 (1,664 worlds, every order) | the walk, the report, the gate, refinement of KsWalk, termination |
| `KsPipeline_SourceFirst` | until violated | see Divergences |
| `GitSource` | 1,565,447 | atomic and final publication (refinement of CloneStore), freshness, no lost wake-up |
| `BuildCache` | 786,485 | hits are verified and young; offline copies; fresh floating resources |
| `SchemaPrefetch` | 757,440 | fails closed, a cache that no run poisons, termination |
| `CRDCache` | 167,261 | schemas are whole and those of the files |
| `HelmCache` | 2,907,477 | staleness bound, offline use, no trace of a failure |
| `HrInflation` | 52,879 | truthful report, cleanup, Ctrl-C |
| `HrInflation_NeverPartial` | until violated | see Divergences |
| `Inventory` | 230,462 (41 worlds) | changes are real, none is lost (what discovery saw), each object once |
| `Algorithms` | 338,118 (169,059 inputs) | order, diff, directories, layers, credentials against definitions |
| `Algorithms_CycleKeepsOrder` | until violated | see Divergences |

Deadlock checking is off in every run: a command that has returned, and a world whose
bounded budget of calls, edits and releases is spent, take no further step. Termination is
checked as a liveness property where the code promises it.

### Bounds and why they are enough

- **KsPipeline**: five declarations with four keys, three paths, one external repository,
  `MaxDepth` 3 (10 in the code). That is one suspended namesake, one cycle, one external
  source declared at once or discovered late, and a level more than needed to lose
  something at the switch. The worlds combine the kinds of tree (built, gathered, partly
  broken, missing, broken, unreadable) with what they emit. The proofs lift the result to any
  declarations, worlds and depth.
- **GitSource**: two processes, one of them with two calls at once; two commits, one tag;
  TTL 1 and 0 with one tick; three calls. Races need two parties, the repair of a damaged
  directory needs two processes, a follower needs a leader in its process. Everything but
  the liveness of waiting is proved for any number of each.
- **BuildCache**: two interchangeable processes, a kustomization file, one listing (a file
  hashed when it is read behaves like `Kust` without the second hash), one remote
  resource; two versions, two edits, two ticks, TTLs 1, one entry kept at most so that
  sweeping happens. A version that changes and changes back is included (`MaxVer` 1). With two
  builds in all (`MaxBuilds`) no process sweeps or overwrites an entry while another one is
  verifying it; a third build does not fit the time of a run. That case rests on the theorem
  `HitsAreVerified`, which holds for any number of builds and processes.
- **SchemaPrefetch**: three kinds to fetch, two workers, one retry, a kind with a local
  schema; a third kind remains in the queue when both workers stop. The cache is empty at first
  and the command is run twice (`MaxRuns`), so a second run reads what a first one left, however
  it ended; a third would find nothing a second could not.
- **CRDCache**: two files, two schema names, three changes (create, edit, delete).
- **HelmCache**: two processes with TTL 1 and 0, two repositories or one tag and a
  constraint over it, one push, one tick, three resolutions. HTTP and OCI charts are kept
  in separate files and share no state, so the fleets have one kind each.
- **HrInflation**: two releases with a dependency, on an HTTP and an OCI source; 14 pairs of
  trees, one edit apart (content, target namespace, suspension, local chart, dropped, other
  source, no Flux, no such path); no filter or one namespace, all releases or one by name,
  temporary or persistent cache.

- **Inventory**: two releases of one name in two namespaces, one an umbrella of three
  applications (one of them its own), each with a custom resource; two API groups, one with a
  rule; a plain application of two workloads; CRDs with and without a version label and three
  GitRepositories. The other tree differs by an edit or two: versions, shape of the charts,
  suspended or dropped releases, a custom resource that two charts or a chart and the build
  output share, objects of one name in two groups, no Flux, no path; in some pairs one or both of
  two Kustomizations are frail. Every chart, render, clone, checkout and scan may fail on either
  side, and a cancellation may come at every step.
- **Algorithms**: lists of up to three items over three identities, duplicates included, and of
  four distinct items, each with six dependency lists (repeated, unknown and self references
  included); pairs of texts of up to five lines over two letters, with context 0 to 2, the
  greedy script above 8 lines (50,000 in the code); four directories, nested and siblings, each
  absent, not native or with up to two references, with and without a root file; up to two
  objects, two references and two-level documents; two of eleven URLs (every family, ports, users,
  an `@` in a path) one after the other; three handshakes. The algorithms compare positions only with neighbours, so small inputs meet
  every branch; ties on diagonals need four lines, a base after its overlay three directories.

## Fairness

- `KsPipeline!FairSpec`: weak fairness of the pipeline's own steps. The walk is one
  goroutine with no wait but network calls, which end or fail; nothing is assumed of the
  user's cancellation.
- `SchemaPrefetch!FairSpec`: weak fairness of the main goroutine's steps and of each worker, and
  none of a death or a rerun: `EveryRunEnds` says that a run that has begun comes to an end.
  A worker waits for a request only, and requests have a timeout (a run with
  `--schema-download-timeout` 0 is outside this assumption).
- `HrInflation!FairSpec`: weak fairness of what fluxview does by itself; charts need *never*
  arrive. Downloading an index is not wrapped in cancellation, so `CancelEnds` needs it to
  end, which holds with a `--helm-download-timeout` (`Bounded`). With `Bounded = FALSE`
  TLC refutes `CancelEnds`.
- Inventory and Algorithms are sequential and state safety only. GitSource, BuildCache, CRDCache
  and HelmCache do so too: a process may die at any
  point, and the absence of lost wake-ups is stated as the invariant `WaiterHasLeader`.

## Proofs

TLAPS checks the theorems for every value of the constants that meets the `ASSUME`s of
the module (which TLC evaluates in every run).

**KsPipeline_proofs**. `WalkInv` relates the queues, `seen` and the results: a key is in
`seen` exactly when a result carries it; what results emit is in the next queue, was
processed, or is below the depth bound; the listed documents are queued or done. Neither
`OneResultPerKey` nor `ShallowNeverDropped` is inductive without it, since they say nothing of
the queues. `ReportInv` adds that a result without all its content has left its trace in the
report or in the memo (which only grow: `ReportInvKept`), but for a directory scan that a
cancellation cut off - and that a cancelled run is not green if it has anything to validate, that a green exit of `validate`
passed the gate, and that the known sources include the declared ones. From the two follow
`TypeCorrect`, `KeysBuiltOnce`, `NothingShallowDropped`, `MissingContentIsAccounted`,
`GreenGateIsSound`, `DeclaredSourceStaysExternal`, and `WalkRefinement`: initial states map to
initial states of KsWalk and every step is a `Process`, an `End` or a stutter.

**GitSource_proofs**. `LockInv`: an entry of `inflight` is the key of exactly one leading call
of that process, and a waiting call's entry belongs to a leader - hence `ClonesAreExclusive`
and `NoLostWakeup`. `DiskInv`: a call about to publish holds a whole tree, only damaged keys are ever
evicted, and a directory found occupied is still there (`SoundCall`) - hence `PublicationIsAtomic` and `PublicationIsFinal`.
`TreeInv`: what a call has resolved and fetched is admissible for its key and stays so as the
upstream moves - hence `TreesAreCurrent`. From `DiskInv` and `TreeInv` follows `StoreRefinement`: a step
of a call touches one directory (`StepTouchesOne`), and an undamaged one that appears is a `File`
of CloneStore, since it is whole and admissible for its key (`AppearsFiled`); all else stutters. `CurrentInv`: with a zero TTL the key of a call was
resolved after the call began, as no pointer is from the future - hence `ZeroTTLReadsCurrent`.

**SchemaPrefetch_proofs**. `PoolInv`: a kind to fetch is queued, in the hands of one worker,
cached, marked missing by a 404, or an error is recorded; a stopped worker implies a
recorded error; attempts count requests; what a worker is about to write or rename has passed the
check, and every file of the cache is whole (`Whole`) - between any two steps, so a death anywhere
leaves it so. `GateFailsClosed`, `NoRunIsPoisoned`, `RequestsAreBounded` and `WorkersDoNotShare`
follow, for any number of runs.

**HrInflation_proofs**. `CleanInv`: the temporary cache is on disk only inside the loop or by a
straggler, the checkout never after the return - `NothingLeftBehind`. `TruthInv`: inside the
loop, as long as nothing was lost or failed, the outputs are exactly what is due minus what is
pending (`LoopInv`); between the sides, a finished side holds exactly what is due (`SideInv`).
`ReportsTheTruth` needs both, because `Report` sees only `result`; that the namespace filter
before inflation and the one in the resource map agree is the lemma `MappedDue`.

**BuildCache_proofs**. `ServedIsCurrent` speaks of a hit only, so `ServeInv` follows an entry
from the build that stores it to the hit. `Recorded`: while kustomize runs, what it got of a
recorded file is on the manifest - a second record of another content (`Snapshot`) may be there
too, and then the entry never verifies. `Covered`: so it is for every stored entry, whoever swept
or overwrote what (`ManifestsCover`). `Verifying`: a verification holds what was on disk since it
began, and what it is done with was there. No stamp is of the future, or the TTL would bound
nothing. `RemoteInv` says that what the scan is done with is young or failed, and that no copy is
ever taken away (`CopiesAreKept`, an action property) - hence `CopiesSurviveFailure` and
`FloatingCopiesAreFresh`.

**CRDCache_proofs**. The heart of `CacheInv` is `Honest`: a claim of the manifest that has its
file's stamp is true - the file decodes and its schemas are on disk, whole and made from it. It
holds of the manifest on disk *and* of the one in memory, at every step, so a death anywhere
leaves an honest manifest behind (`ManifestIsHonest`). That needs `ConvertInv` (a schema is
truncated only when no claim that matches names it), `Knows` (matching claims are those loaded),
`Whole`, `SweepInv` (what is on disk at the end is claimed or about to be swept) and `Steady`
(without edits the walk meets every file). Both theorems suppose `~Overlaps`: two files that
define one schema really do break it - the claim of the one vouches for a schema the other has
torn, which TLC shows with `Overlaps = TRUE`. The types hold with overlaps too.

**HelmCache_proofs**. `IndexInv`: what a process has read from the registry, and what it is
about to add, has an index file, and index files are never removed. `OfflineInv`: until a
server answers a process, it can still resolve all that was cached when it began; its digests
are its own copy, and tarballs stay. `AgeInv`: an entry with stamp `at` is not older than what its
source held before `at` (`Backed`), in memory and on disk, whoever wrote it last and with
whatever TTL; so an entry that a process finds young is within *its* TTL.

**Algorithms_proofs**. `Answered` is the invariant of the specification; the rest is about the
operators. They are folds, and the definition of a fold is a recursive function on subsets of
positions, so the proofs first show that such a function exists (`FoldExists`, extending it by
one position at a time) and that its values on 1..m are the stages of a loop (`Stages`).
Induction is over the set of stages at which an invariant holds (`UpTo`).
  - `SortsRespectDependencies` (with `EveryListIsOrdered`, which says it of the operators alone): the invariant of
    Kahn's loop says that what is sorted and queued is distinct, that `inDegree` counts the
    entries whose requirement is not sorted yet, and that it is 0 exactly for what is sorted or
    queued. If the loop stops early, what is left is a set in which each depends on another
    (`CycleFound`); without such a set everything is sorted.
  - `DirectoriesAreBuiltOnce`: what is chosen so far is no reference's target and not below one
    another; a directory that is passed over is referenced or below a chosen one. The assumption
    that a walk meets a directory before those below it is `filepath.WalkDir`'s.
  - `PlainURLsFit`: every kept outcome, and every answer, is what *some* URL asked before
    gets on its own, with the same `authMapKey` (`ResolvedIs`); two such URLs differ in the user
    only (`DirectAlike`). A URL without an `@` in its path is read for what it is, so what is allowed
    for the host read is allowed for the host contacted. For ~/.netrc, a stanza has the word that opened it, and its login comes
    after that word with nothing but logins and passwords between (`NetrcInv`). For host keys, of
    two accepted keys of one host both are in known_hosts (`PinInv`, `OneKeyPerHost`).
  - `ScriptsAreMinimal`, for texts of any length: the table of common lengths says how many steps
    other than kept lines each cell of the edit grid is away from the origin (`Edits`,
    `EditsExist`). After round d Myers' `v` holds, on each diagonal of d's parity, the furthest
    cell at distance at most d (`Furthest`; `AdvanceIs`, `RoundIs`, `SearchIs`), so the search
    ends in the round of the distance and the way back through the snapshots follows a path
    with one deletion or insertion a round (`BackKeeps`, `MyersIs`). That no other script keeps more lines is
    `NoScriptIsShorter`: along any script the distance grows by at most one for each deletion or
    insertion. Above the threshold the greedy script still turns one text into the other
    (`GreedyIs`).
  - `HunksShowEveryChange`: the groups so far are disjoint stretches of the script, more than
    `2 * ctxLines` operations apart, that begin and end with a change and contain every change met
    (`GroupsMore`); a hunk widens its group by at most `ctxLines` on either side (`HunkIs`), so
    hunks neither overlap nor leave a change out (`HunksAre`).

Eleven of the theorems state invariants that no run has in its cfg, since the proof says more:
`KeysBuiltOnce`, `DeclaredSourceStaysExternal`, `ClonesAreExclusive`, `PublicationIsFinal` (which
`StoreRefinement` implies), `RequestsAreBounded`,
`WorkersDoNotShare`, `ManifestsCover`, `CopiesAreKept`, `ManifestIsHonest`,
`EveryListIsOrdered` and `NoScriptIsShorter`. The inductive invariants of BuildCache, CRDCache and HelmCache were checked
by TLC too, on the instances of the runs.

Only model-checked:

- all liveness (`Terminates`, `EveryRunEnds`, `CancelEnds`): fairness and ENABLED are outside the prover's reach;
- Inventory: its rows are built with folds over trees, sorts and `SelectSeq`, whose library
  definitions the provers do not unfold;
- `ValuesAreLayered`: `MergeMaps` is a recursive operator.

## Divergences between code and documentation

Each of these has a run that TLC finds violated, listed under `findings`:

1. `SourceFirst` - a Kustomization processed before the GitRepository it names is discovered
   is rendered from a same-named local directory (`cli/diff.go:551`, README.md:119).
2. `NeverPartial` - what discovery loses on one side of `diff hr` shows up as added or removed
   (`cli/hr_inflation.go:178`, `cli/diff.go:640`, README.md:81).
3. `CycleKeepsOrder` - when the dependencies of Kustomizations are circular, `build ks` warns
   "processing in original order" and processes nothing: the nil list that comes with the error
   has replaced the one it was made from (`cli/build.go:145`). `build hr` restores its list.

These are stated by an operator of their module, and a cfg with the component's constants and
that operator as its INVARIANT shows the trace:

4. `OverlayNeverShadows` (KsPipeline) - the directory of a *discovered* Kustomization is also
   built as a native overlay, and its raw resources come last (`cli/diff.go:413`,
   `cli/overlays.go:20`).
5. `ContentAddressed` (GitSource) - a push between ls-remote and the clone by branch name files
   a newer tree under the older commit (`gitsource/gitsource.go:498`, comment at 481).
6. `ReadersSeeWhole` (GitSource) - two processes repairing the same damaged directory: the
   second removes the clone the first is reading (`gitsource/gitsource.go:469`, comment at 22).

Met while modelling, without a run of their own:

- a URL with an `@` in its path is read with the host that follows it, while the client contacts
  the one before the path: credentials listed for the former go to the latter
  (`gitsource/auth.go:115`; docs/caching.md:86, comment at 325). `CredentialsAlwaysFit`
  (Algorithms) states the promise for every URL and TLC refutes it; `CredentialsFit` keeps it to
  URLs without such a path;
- a URL kustomize fetched itself is in no manifest, so the build cache can serve an output
  older than a refresh the remote cache has just made (`kustomize/buildcache.go:314`; the
  comment of `Builder.Build`, docs/caching.md:76);
- `repositories.yaml` is written from a copy read before the download, so the later of two
  processes drops the entry of the other (`helm/inflater.go:367`; comment at 282);
- an abandoned download may recreate directories of the temporary Helm cache after it was
  removed (`helm/inflater.go:713`, 1217; docs/caching.md:31);
- an interrupted `build hr` that has rendered nothing yet prints that there are no
  HelmReleases and exits 0 (`cli/diff.go:817`, `cli/build.go:218`);
- a release that is suspended, or has a Bucket source, on one side only shows up as removed or
  added (README.md:81: such skips "affect both sides equally");
- with two CRD files that define the same schema, the content of a removed one survives under
  the claim of the other (`validate/crd.go:154`; docs/caching.md:125);
- with `--helm-download-timeout=0`, Ctrl-C does not end a command that is downloading an index
  (`helm/inflater.go:295`);
- `inventory --branch-orig`: when the metadata of a chart cannot be read on one side, the version
  of its row changes to or from "-" and its chart-derived rows are added or removed
  (`cli/inventory.go:919`; only render failures are made up for, comment at 609); so do the
  version of a CRD group whose clone fails on one side and a custom resource that another
  release renders on the side where the first one fails. `ChangesAreReal` and `NoChangeIsLost`
  except these by name (`Excused`);
- the identity of a row has no API group, so two custom resources of one kind and name in two
  groups count as one in a comparison (`inventory/diff.go:13`); the row of a CRD group carries
  the number of its CRDs in its name, so another count is a row removed and one added
  (`inventory/crd.go:89`);
- the exit code of `inventory` is computed before `-n` and `--source` filter the rows
  (`cli/inventory.go:237`);
- any error of the scan of a revision - a file it cannot read, a cancellation - passes for an empty
  revision, and everything shows as added (`cli/hr_inflation.go:178`, `cli/inventory.go:333`);
  both properties leave such a run out (`blind`). A cancellation during the last render is a
  render warning (`cli/inventory.go:555`);
- a Kustomization that cannot be fetched or built on one side only is left out of it without a
  word (discovery is quiet, `cli/hr_inflation.go:186`), and what it carries shows as added or
  removed, or not as a change where it is one; `ChangesAreReal` and `NoChangeIsLost` except exactly
  the rows of what was lost, and what it supplies to others (`Unseen`);
- a cancellation that meets the scan of a directory without a kustomization file leaves the
  Kustomization without content and no trace in report or memo (`cli/overlays.go:206`);
  `BareIsAccounted` names it, and `GateSound` shows that it never makes `validate` green;
- a base that only a skipped overlay references, or two that reference each other, are built by
  nobody, and references from Components do not count (`flux/kustomize_discovery.go:146`);
- the SSH user of the first URL of a host is used for its later URLs
  (`gitsource/auth.go:304`; `CredentialsFit` allows it);
- a difference in the newline at the end of a text only is shown by no hunk (`diff/diff.go:391`);
- docs/caching.md:21 and three comments say `validate` fails on sources it cannot fetch; it
  warns (`cli/validate.go:416`).

## Not modelled

- The text of documents: decoding, `$`-expressions, patches, reordering, report formats, hunk
  headers. They are pure functions of data; where their *outcome* matters (a build fails, a
  patch does not apply, a file does not decode) it is a choice.
- The spelling of URLs and of netrc files (case, macros, comments); flags and
  cache-directory rules; in the inventory: images, operators, warnings, sorting, tables, and the
  field paths of rules.
- Two processes in one CRD conversion directory; disabled caches of git sources.
- A schema body that is JSON and yet no schema: `json.Valid` takes it, and so do all later runs.
- Failures to remove files of a cache of one's own: the sweep of the CRD conversion ignores them
  (`validate/crd.go:165`), and an orphan would be validated against.
- In the inventory: a release or object declared by two Kustomizations (one of them is kept, so
  nothing is lost if the other one is), and values from a ConfigMap of a lost Kustomization,
  which change what a chart of another one renders.
- Times within one clock unit: a download takes less than a unit, so a TTL is never spent
  during one.
- The order of output documents, which no property here is about.

## Plan

Written, in this order: KsPipeline and KsWalk (the core of every command), GitSource and CloneStore,
BuildCache, SchemaPrefetch, CRDCache, HelmCache, HrInflation (which composes the chart lookup
and the pipeline's outcome), Inventory, Algorithms with its four modules, and Layering. Proved
are the safety properties of all of them but Inventory and Layering.

1. `EachObjectOnce` of Inventory (the invariant: `known` holds every listed custom resource and
   `splits` the releases without a row).
2. An abstract specification of `diff hr`, a one-shot "report or fail", that HrInflation implements.
3. Two processes in CRDCache.

------------------------------- MODULE HelmCache -------------------------------
(***************************************************************************)
(* The on-disk chart cache of the Helm inflater (internal/helm), shared by *)
(* the fluxview processes of a machine: registration of an HTTP repository *)
(* in repositories.yaml with its index, and the resolution of an OCI chart *)
(* through the cached tag selection and digest, each with its TTL and the  *)
(* stale copy as a fallback.  A process stands for one Inflater; it works  *)
(* through its HelmReleases one after the other.                           *)
(*                                                                         *)
(* The upstream is a set of sources whose content only moves on: the index *)
(* of a repository (its value: the newest chart version), the tag list of  *)
(* the one OCI repository (the highest tag) and what a tag points to (the  *)
(* number of times it was pushed).  Any request may fail.                  *)
(***************************************************************************)
EXTENDS Naturals

CONSTANTS
  Procs,      (* fluxview processes                                        *)
  Repos,      (* HTTP repositories                                         *)
  MaxTag,     (* highest tag of the OCI repository                         *)
  MaxVer,     (* bound on the versions of an index and the pushes of a tag *)
  MaxTime,    (* bound on the clock                                        *)
  MaxCalls,   (* bound on the charts resolved                              *)
  TTLOf,      (* --helm-index-ttl of a process, in clock units             *)
  Fleets,     (* the charts each process has releases of, by choice        *)
  None

Tags    == 1 .. MaxTag
TagList == 0   \* as a source; the tags are numbered from 1
Sources == Repos \cup Tags \cup {TagList}
Times   == 0 .. MaxTime
Values  == 0 .. (IF MaxTag > MaxVer THEN MaxTag ELSE MaxVer)
Entry   == [val : Values, at : Times]

Http     == {"http"} \X Repos   \* the newest version in the index
Pinned   == {"tag"} \X Tags     \* a tag, resolved to its digest
Floating == {<<"any", 0>>}      \* a constraint, resolved to the highest tag
Charts   == Http \cup Pinned \cup Floating

ASSUME ConstantsAssumption ==
  /\ MaxTag \in Nat /\ MaxVer \in Nat /\ MaxTime \in Nat /\ MaxCalls \in Nat
  /\ Repos \cap (Tags \cup {TagList}) = {}
  /\ TTLOf \in [Procs -> Nat]
  /\ Fleets \subseteq [Procs -> SUBSET Charts]
  /\ None \notin Entry

VARIABLES
  fleet,      (* what this machine's processes resolve; it never changes   *)
  now,        (* the clock                                                 *)
  past,       (* what each source held at the end of a clock unit (history)*)
  index,      (* repository/<name>-index.yaml, with its mtime              *)
  registry,   (* the entries of repositories.yaml                          *)
  digests,    (* oci-digests.yaml                                          *)
  choice,     (* oci-tags.yaml                                             *)
  content,    (* content/: the tarballs, named by source and value         *)
  proc,       (* the processes                                             *)
  calls       (* how many charts were resolved                             *)

upstream == <<fleet, now, past>>
disk     == <<index, registry, digests, choice, content>>
vars     == <<upstream, disk, proc, calls>>

Value(s) == past[s][now]

Stages == {"down", "idle", "load", "refresh", "write", "persist", "locate",
           "select", "digest", "pull", "done", "failed"}

(***************************************************************************)
(* registered, digests, choice: of the Inflater, the latter two as loaded  *)
(* by NewInflater and kept up since; loaded: repositories.yaml as read by  *)
(* registerRepo; got: the index downloaded; tag: the tag to resolve; chart *)
(* the tarball to load.  History: begun, asked, the times of NewInflater   *)
(* and of the call; stale, the sources a failed refresh left at their old  *)
(* copy; answered, the OCI registry answered the process; kept, the OCI    *)
(* charts that were on disk, digest and tarball, when it began.            *)
(***************************************************************************)
Process ==
  [pc : Stages, want : Charts, registered : SUBSET Repos,
   digests : [Tags -> Entry \cup {None}], choice : Entry \cup {None},
   loaded : SUBSET Repos, got : Values,
   tag : 0 .. MaxTag, chart : Sources \X Values,
   begun : Times, asked : Times, stale : SUBSET Sources, answered : BOOLEAN,
   kept : SUBSET Charts]

TypeOK ==
  /\ fleet \in Fleets
  /\ now \in Times
  /\ past \in [Sources -> [Times -> Values]]
  /\ index \in [Repos -> Entry \cup {None}]
  /\ registry \in SUBSET Repos
  /\ digests \in [Tags -> Entry \cup {None}]
  /\ choice \in Entry \cup {None}
  /\ content \in SUBSET (Sources \X Values)
  /\ proc \in [Procs -> Process]
  /\ calls \in 0 .. MaxCalls

NoDigests == [t \in Tags |-> None]

Down == [pc |-> "down", want |-> <<"any", 0>>, registered |-> {},
         digests |-> NoDigests, choice |-> None, loaded |-> {}, got |-> 0,
         tag |-> 0, chart |-> <<TagList, 0>>, begun |-> 0, asked |-> 0,
         stale |-> {}, answered |-> FALSE, kept |-> {}]

Init ==
  /\ fleet \in Fleets
  /\ now = 0
  /\ past = [s \in Sources |-> [t \in Times |-> 0]]
  /\ index = [r \in Repos |-> None]
  /\ registry = {}
  /\ digests = NoDigests
  /\ choice = None
  /\ content = {}
  /\ proc = [p \in Procs |-> Down]
  /\ calls = 0

At(p, stage)   == proc[p].pc = stage
Set(p, record) == proc' = [proc EXCEPT ![p] = record]
Goto(p, stage) == Set(p, [proc[p] EXCEPT !.pc = stage])

-----------------------------------------------------------------------------
(* The world around the cache.  A download takes less than a clock unit.   *)
Tick ==
  /\ now < MaxTime
  /\ \A p \in Procs : ~At(p, "write")
  /\ now' = now + 1
  /\ UNCHANGED <<fleet, past, disk, proc, calls>>

Last(s) == IF s = TagList THEN MaxTag ELSE MaxVer

(* What the fleet may ask.                                                 *)
Asked == LET charts == UNION {fleet[p] : p \in Procs} IN
  {r \in Repos : <<"http", r>> \in charts}
    \cup IF charts \subseteq Http THEN {} ELSE Tags \cup {TagList}

(* A chart version, a tag, or a push of a tag that exists.                 *)
Publish(s) ==
  /\ s \in Asked
  /\ Value(s) < Last(s)
  /\ s \in Tags => s <= Value(TagList)
  /\ past' = [past EXCEPT ![s] =
               [t \in Times |-> IF t >= now THEN @[t] + 1 ELSE @[t]]]
  /\ UNCHANGED <<fleet, now, disk, proc, calls>>

-----------------------------------------------------------------------------
(* NewInflater.                                                            *)
OnDisk(t) == digests[t] # None /\ <<t, digests[t].val>> \in content

Kept == {<<"tag", t>> : t \in {u \in Tags : OnDisk(u)}}
          \cup {w \in Floating : choice # None /\ OnDisk(choice.val)}

Start(p) ==
  /\ At(p, "down")
  /\ calls < MaxCalls
  /\ Set(p, [Down EXCEPT !.pc = "idle", !.begun = now, !.digests = digests,
                         !.choice = choice, !.kept = Kept])
  /\ UNCHANGED <<upstream, disk, calls>>

(* The end of a process, or its death or cancellation at any point.        *)
Exit(p) ==
  /\ ~At(p, "down")
  /\ Set(p, Down)
  /\ UNCHANGED <<upstream, disk, calls>>

(* resolveChart.                                                           *)
Resolve(p, w) ==
  /\ proc[p].pc \in {"idle", "done", "failed"}
  /\ calls < MaxCalls
  /\ calls' = calls + 1
  /\ Set(p, [proc[p] EXCEPT
         !.want = w, !.asked = now,
         !.tag = IF w \in Pinned THEN w[2] ELSE 0,
         !.pc = CASE w \in Pinned -> "digest"
                  [] w \in Floating -> "select"
                  [] w[2] \in proc[p].registered -> "locate"
                  [] OTHER -> "load"])
  /\ UNCHANGED <<upstream, disk>>

-----------------------------------------------------------------------------
(* registerRepo.                                                           *)
Fresh_Always(p, entry) == entry # None

Fresh(p, entry) == entry # None /\ now < entry.at + TTLOf[p]

Stamped_Expiry(v) == [val |-> v, at |-> now + 1]

Stamped(v) == [val |-> v, at |-> now]

LoadRegistry(p) ==
  /\ At(p, "load")
  /\ Set(p, [proc[p] EXCEPT !.loaded = registry,
         !.pc = IF Fresh(p, index[proc[p].want[2]]) THEN "persist" ELSE "refresh"])
  /\ UNCHANGED <<upstream, disk, calls>>

DownloadIndex(p) ==
  /\ At(p, "refresh")
  /\ Set(p, [proc[p] EXCEPT !.pc = "write", !.got = Value(proc[p].want[2])])
  /\ UNCHANGED <<upstream, disk, calls>>

WriteIndex(p) ==
  /\ At(p, "write")
  /\ index' = [index EXCEPT ![proc[p].want[2]] = Stamped(proc[p].got)]
  /\ Set(p, [proc[p] EXCEPT !.pc = "persist", !.got = 0])
  /\ UNCHANGED <<upstream, registry, digests, choice, content, calls>>

RefreshFails_Registers(p) ==
  /\ At(p, "refresh")
  /\ Set(p, [proc[p] EXCEPT !.pc = "persist", !.stale = @ \cup {proc[p].want[2]}])
  /\ UNCHANGED <<upstream, disk, calls>>

(* A cached copy will do, however old.  A URL that NewChartRepository      *)
(* refuses fails here as well: it never gets a copy.                       *)
RefreshFails(p) ==
  /\ At(p, "refresh")
  /\ IF index[proc[p].want[2]] # None
     THEN Set(p, [proc[p] EXCEPT !.pc = "persist",
                                 !.stale = @ \cup {proc[p].want[2]}])
     ELSE Goto(p, "failed")
  /\ UNCHANGED <<upstream, disk, calls>>

(* persistRepoEntry: the registry as it was loaded, with the entry added.  *)
PersistEntry(p) ==
  /\ At(p, "persist")
  /\ LET r == proc[p].want[2] IN
     \/ /\ registry' = IF r \in proc[p].loaded THEN registry
                       ELSE proc[p].loaded \cup {r}
        /\ Set(p, [proc[p] EXCEPT !.pc = "locate", !.loaded = {},
                                  !.registered = @ \cup {r}])
     \/ /\ r \notin proc[p].loaded   \* it cannot be written
        /\ registry' = registry
        /\ Goto(p, "failed")
  /\ UNCHANGED <<upstream, index, digests, choice, content, calls>>

(* locateHTTPChart: the SDK looks the name up in repositories.yaml and the *)
(* version up in the index.                                                *)
Locate(p) ==
  /\ At(p, "locate")
  /\ LET r == proc[p].want[2] IN
     IF r \in registry /\ index[r] # None
     THEN Set(p, [proc[p] EXCEPT !.pc = "pull", !.chart = <<r, index[r].val>>])
     ELSE Goto(p, "failed")
  /\ UNCHANGED <<upstream, disk, calls>>

-----------------------------------------------------------------------------
(* resolveOCIDigest.  The choice of a constraint and the digests are saved *)
(* whole, from memory; a save that fails is only warned about.             *)
CachedTag(p) ==
  /\ At(p, "select")
  /\ Fresh(p, proc[p].choice)
  /\ Set(p, [proc[p] EXCEPT !.pc = "digest", !.tag = proc[p].choice.val])
  /\ UNCHANGED <<upstream, disk, calls>>

SelectTag(p) ==
  /\ At(p, "select")
  /\ ~Fresh(p, proc[p].choice)
  /\ IF Value(TagList) = 0   \* no tag matches
     THEN Goto(p, "failed") /\ choice' = choice
     ELSE LET entry == Stamped(Value(TagList)) IN
          /\ Set(p, [proc[p] EXCEPT !.pc = "digest", !.tag = entry.val,
                       !.choice = entry, !.answered = TRUE, !.stale = @ \ {TagList}])
          /\ choice' \in {entry, choice}
  /\ UNCHANGED <<upstream, index, registry, digests, content, calls>>

TagsFail(p) ==
  /\ At(p, "select")
  /\ ~Fresh(p, proc[p].choice)
  /\ IF proc[p].choice # None
     THEN Set(p, [proc[p] EXCEPT !.pc = "digest", !.tag = proc[p].choice.val,
                                 !.stale = @ \cup {TagList}])
     ELSE Goto(p, "failed")
  /\ UNCHANGED <<upstream, disk, calls>>

CachedDigest(p) ==
  LET t == proc[p].tag IN
  /\ At(p, "digest")
  /\ Fresh(p, proc[p].digests[t])
  /\ Set(p, [proc[p] EXCEPT !.pc = "pull", !.tag = 0,
                               !.chart = <<t, proc[p].digests[t].val>>])
  /\ UNCHANGED <<upstream, disk, calls>>

ResolveDigest(p) ==
  LET t     == proc[p].tag
      entry == Stamped(Value(t))
      known == [proc[p].digests EXCEPT ![t] = entry] IN
  /\ At(p, "digest")
  /\ ~Fresh(p, proc[p].digests[t])
  /\ t <= Value(TagList)   \* the tag exists
  /\ Set(p, [proc[p] EXCEPT !.pc = "pull", !.tag = 0, !.chart = <<t, entry.val>>,
               !.digests = known, !.answered = TRUE, !.stale = @ \ {t}])
  /\ digests' \in {known, digests}
  /\ UNCHANGED <<upstream, index, registry, choice, content, calls>>

ResolveFails_Forgets(p) ==
  /\ At(p, "digest")
  /\ ~Fresh(p, proc[p].digests[proc[p].tag])
  /\ Goto(p, "failed")
  /\ UNCHANGED <<upstream, disk, calls>>

ResolveFails(p) ==
  LET t == proc[p].tag IN
  /\ At(p, "digest")
  /\ ~Fresh(p, proc[p].digests[t])
  /\ IF proc[p].digests[t] # None
     THEN Set(p, [proc[p] EXCEPT !.pc = "pull", !.tag = 0, !.stale = @ \cup {t},
                                 !.chart = <<t, proc[p].digests[t].val>>])
     ELSE Goto(p, "failed")
  /\ UNCHANGED <<upstream, disk, calls>>

-----------------------------------------------------------------------------
(* The tarball, from the content cache or the network: pullOCIDigest, and  *)
(* the downloader of the SDK.                                              *)
Cached(p) ==
  /\ At(p, "pull")
  /\ proc[p].chart \in content
  /\ Goto(p, "done")
  /\ UNCHANGED <<upstream, disk, calls>>

Pull(p) ==
  /\ At(p, "pull")
  /\ proc[p].chart \notin content
  /\ \/ content' = content \cup {proc[p].chart} /\ Goto(p, "done")
     \/ content' = content /\ Goto(p, "failed")
  /\ UNCHANGED <<upstream, index, registry, digests, choice, calls>>

Step(p) ==
  \/ Start(p) \/ Exit(p)
  \/ \E w \in fleet[p] : Resolve(p, w)
  \/ LoadRegistry(p) \/ DownloadIndex(p) \/ WriteIndex(p) \/ RefreshFails(p)
  \/ PersistEntry(p) \/ Locate(p)
  \/ CachedTag(p) \/ SelectTag(p) \/ TagsFail(p)
  \/ CachedDigest(p) \/ ResolveDigest(p) \/ ResolveFails(p)
  \/ Cached(p) \/ Pull(p)

Next ==
  \/ Tick
  \/ \E s \in Sources : Publish(s)
  \/ \E p \in Procs : Step(p)

Spec == Init /\ [][Next]_vars

-----------------------------------------------------------------------------
(* A failed registration leaves no trace (registerRepo): a repository in   *)
(* repositories.yaml has an index, though the file is written from a copy  *)
(* read before the download, by processes that overwrite each other.       *)
NoTraceOfFailure == \A r \in registry : index[r] # None

(* What a source held a TTL before the process came to trust its cached    *)
(* copy: for an index that is once per Inflater, for OCI once per call.    *)
Trusted(p, s) == IF s \in Repos THEN proc[p].begun ELSE proc[p].asked

Held(p, s) ==
  LET age == IF TTLOf[p] = 0 THEN 1 ELSE TTLOf[p] IN
  IF age > Trusted(p, s) THEN 0 ELSE past[s][Trusted(p, s) - age]

(* docs/caching.md: a chart version, an OCI tag selection and a digest are *)
(* at most TTL stale, but for a source whose refresh failed - through      *)
(* entries other processes wrote, overwrote with older ones or lost.       *)
WithinTTL ==
  \A p \in Procs : At(p, "done") =>
    LET s == proc[p].chart[1] IN
    /\ s \notin proc[p].stale => proc[p].chart[2] >= Held(p, s)
    /\ proc[p].want \in Floating /\ TagList \notin proc[p].stale
         => s >= Held(p, TagList)

(* Offline fallback: as long as the registry never answers, an OCI chart   *)
(* whose digest and tarball were cached when the process began resolves,   *)
(* whatever its age and whatever other processes do to the cache files.    *)
OfflineWorks ==
  \A p \in Procs : At(p, "failed") /\ proc[p].want \in proc[p].kept
                     => proc[p].answered
=============================================================================

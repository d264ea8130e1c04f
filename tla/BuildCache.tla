------------------------------ MODULE BuildCache ------------------------------
(***************************************************************************)
(* kustomize.Builder.Build for one directory, run by several processes on  *)
(* shared caches: the remote resource cache is brought up to date, the     *)
(* build cache is looked up and verified input by input, and on a miss     *)
(* kustomize runs, its reads are recorded and the output is stored         *)
(* (internal/kustomize: builder, remotecache, buildcache, recordingfs).    *)
(* The files change under it: a checkout, an editor, another process.      *)
(***************************************************************************)
EXTENDS Naturals, FiniteSets

CONSTANTS
  Procs,      (* fluxview processes, one build each                        *)
  Kust,       (* the kustomization file                                    *)
  Files,      (* the other files and directory listings it reads           *)
  Listings,   (* the listings: recorded when the build has ended           *)
  Urls,       (* the http(s) resources it names                            *)
  Scanned,    (* those under resources:, which the remote cache looks for  *)
  Pinned,     (* those with an immutable version marker                    *)
  MaxVer,     (* bound: versions 0 .. MaxVer of a file                     *)
  MaxEdits,   (* bound on the changes of local files                       *)
  MaxTime,    (* bound on the clock                                        *)
  MaxBuilds,  (* bound on the calls of Build                               *)
  BuildTTL, RemoteTTL,
  MaxEntries, (* maxBuildCacheEntries                                      *)
  None        (* nothing there                                             *)

Locals == {Kust} \cup Files
Inputs == Locals \cup Urls
Vers   == 0 .. MaxVer
Times  == 0 .. MaxTime

(* reads: the input manifest; got: the contents the output was built from. *)
Entry  == [reads : SUBSET (Inputs \X Vers), got : [Inputs -> Vers], at : Times]
Remote == [ver : Vers, at : Times]

ASSUME ConstantsAssumption ==
  /\ Kust \notin Files /\ Urls \cap Locals = {} /\ Listings \subseteq Files
  /\ Scanned \subseteq Urls /\ Pinned \subseteq Urls
  /\ {MaxVer, MaxEdits, MaxTime, MaxBuilds, BuildTTL, RemoteTTL} \subseteq Nat
  /\ MaxEntries \in Nat \ {0}
  /\ None \notin Vers \cup Entry \cup Remote

VARIABLES
  upstream, (* the version each URL serves                                 *)
  content,  (* the version each local file holds                           *)
  edits,    (* how often one of them changed                               *)
  now,      (* wall clock                                                  *)
  remote,   (* <remote-cache-dir>: the copy of each URL                    *)
  entries,  (* <kustomize-build-cache-dir>: by version of Kust             *)
  build,    (* what each process is doing                                  *)
  calls     (* of Build, so far                                            *)

world  == <<upstream, content, edits, now>>
caches == <<remote, entries>>
vars   == <<world, caches, build, calls>>

Stages == {"idle", "prepare", "fetched", "lookup", "expired", "verify", "run",
           "built", "hit"}

(***************************************************************************)
(* todo: what the stage still has to do; url, body: the URL in download    *)
(* and the answer; resolved: remoteCache.resolved; stored: buildCache's    *)
(* flag; kust: the version of Kust that was hashed; entry: the loaded      *)
(* entry; reads: the recording; got: what kustomize read.  History: start  *)
(* of the process; had, failed: the URLs with a copy when the scan began   *)
(* and those not downloaded, until it ends; fresh: the versions downloaded *)
(* and, while an entry is verified, during: what was on disk.              *)
(***************************************************************************)
Build == [pc : Stages, todo : SUBSET Inputs,
          url : Urls \cup {None}, body : Vers \cup {None},
          resolved : SUBSET Urls, stored : BOOLEAN,
          kust : Vers, entry : Entry \cup {None},
          reads : SUBSET (Inputs \X Vers), got : [Inputs -> Vers \cup {None}],
          during : SUBSET (Inputs \X Vers),
          had : SUBSET Urls, failed : SUBSET Urls,
          fresh : [Urls -> Vers \cup {None}], start : Times]

Nothing == [i \in Inputs |-> None]

Idle == [pc |-> "idle", todo |-> {}, url |-> None, body |-> None,
         resolved |-> {}, stored |-> FALSE, kust |-> 0, entry |-> None, reads |-> {},
         got |-> Nothing, during |-> {}, had |-> {}, failed |-> {}, fresh |-> [u \in Urls |-> None], start |-> 0]

TypeOK ==
  /\ upstream \in [Urls -> Vers]
  /\ content \in [Locals -> Vers]
  /\ edits \in 0 .. MaxEdits
  /\ now \in Times
  /\ remote \in [Urls -> Remote \cup {None}]
  /\ entries \in [Vers -> Entry \cup {None}]
  /\ build \in [Procs -> Build]
  /\ calls \in 0 .. MaxBuilds

Init ==
  /\ upstream = [u \in Urls |-> 0]
  /\ content = [f \in Locals |-> 0]
  /\ edits = 0
  /\ now = 0
  /\ remote = [u \in Urls |-> None]
  /\ entries = [v \in Vers |-> None]
  /\ build = [p \in Procs |-> Idle]
  /\ calls = 0

At(p, stage) == build[p].pc = stage

(* The history of what the disk held is extended by every write.           *)
Noting(b, i, v) ==
  [p \in Procs |-> IF b[p].pc = "verify"
                   THEN [b[p] EXCEPT !.during = @ \cup {<<i, v>>}] ELSE b[p]]

Copied == {u \in Urls : remote[u] # None}
OnDisk == {<<f, content[f]>> : f \in Locals} \cup {<<u, remote[u].ver>> : u \in Copied}

-----------------------------------------------------------------------------
(* The world.                                                              *)
Edit(f, v) ==
  /\ edits < MaxEdits
  /\ v # content[f]
  /\ edits' = edits + 1
  /\ content' = [content EXCEPT ![f] = v]
  /\ build' = Noting(build, f, v)
  /\ UNCHANGED <<upstream, now, caches, calls>>

Release(u) ==
  /\ u \notin Pinned
  /\ upstream[u] < MaxVer
  /\ upstream' = [upstream EXCEPT ![u] = @ + 1]
  /\ UNCHANGED <<content, edits, now, caches, build, calls>>

Tick ==
  /\ now < MaxTime
  /\ now' = now + 1
  /\ UNCHANGED <<upstream, content, edits, caches, build, calls>>

-----------------------------------------------------------------------------
(* remoteCache.prepare: each scanned URL in turn.                          *)
Start(p) ==
  /\ At(p, "idle")
  /\ calls < MaxBuilds
  /\ calls' = calls + 1
  /\ build' = [build EXCEPT ![p] =
       [Idle EXCEPT !.pc = "prepare", !.todo = Scanned,
                    !.had = Copied, !.start = now]]
  /\ UNCHANGED <<world, caches>>

Usable_IgnoresAge(u) == remote[u] # None

(* usable: a floating copy must be younger than the TTL.                   *)
Usable(u) == remote[u] # None /\ (u \in Pinned \/ now < remote[u].at + RemoteTTL)

UseCopy(p, u) ==
  /\ At(p, "prepare")
  /\ u \in build[p].todo
  /\ Usable(u)
  /\ build' = [build EXCEPT ![p].todo = @ \ {u}, ![p].resolved = @ \cup {u}]
  /\ UNCHANGED <<world, caches, calls>>

Download(p, u) ==
  /\ At(p, "prepare")
  /\ u \in build[p].todo
  /\ ~Usable(u)
  /\ build' = [build EXCEPT ![p].pc = "fetched", ![p].todo = @ \ {u},
                            ![p].url = u, ![p].body = upstream[u]]
  /\ UNCHANGED <<world, caches, calls>>

StoreCopy(p) ==
  /\ At(p, "fetched")
  /\ LET u == build[p].url  v == build[p].body IN
     /\ remote' = [remote EXCEPT ![u] = [ver |-> v, at |-> now]]
     /\ build' = Noting([build EXCEPT ![p] =
          [build[p] EXCEPT !.pc = "prepare", !.url = None, !.body = None,
                           !.resolved = @ \cup {u}, !.fresh[u] = v]], u, v)
  /\ UNCHANGED <<world, entries, calls>>

DownloadFails_DropsCopy(p, u) ==
  /\ At(p, "prepare")
  /\ u \in build[p].todo
  /\ ~Usable(u)
  /\ build' = [build EXCEPT ![p].todo = @ \ {u}, ![p].failed = @ \cup {u}]
  /\ UNCHANGED <<world, caches, calls>>

DownloadFails_Resolves(p, u) ==
  /\ At(p, "prepare")
  /\ u \in build[p].todo
  /\ ~Usable(u)
  /\ build' = [build EXCEPT ![p].todo = @ \ {u}, ![p].failed = @ \cup {u},
                            ![p].resolved = @ \cup {u}]
  /\ UNCHANGED <<world, caches, calls>>

(* A copy that could not be refreshed is used as it is.                    *)
DownloadFails(p, u) ==
  /\ At(p, "prepare")
  /\ u \in build[p].todo
  /\ ~Usable(u)
  /\ build' = [build EXCEPT ![p].todo = @ \ {u}, ![p].failed = @ \cup {u},
                 ![p].resolved = IF remote[u] # None THEN @ \cup {u} ELSE @]
  /\ UNCHANGED <<world, caches, calls>>

(* The end of the scan, or its interruption: the build goes on either way. *)
Prepared(p) ==
  /\ At(p, "prepare")
  /\ build' = [build EXCEPT ![p].pc = "lookup", ![p].todo = {},
                            ![p].had = {}, ![p].failed = {}]
  /\ UNCHANGED <<world, caches, calls>>

-----------------------------------------------------------------------------
(* kustomize runs, with everything to read.                                *)
Cold(b) ==
  [b EXCEPT !.pc = "run", !.todo = Inputs, !.entry = None, !.during = {},
            !.kust = 0, !.fresh = Idle.fresh]

Expired(e) == now - e.at > BuildTTL

(* buildCache.lookup.                                                      *)
Lookup(p) ==
  /\ At(p, "lookup")
  /\ LET v == content[Kust]
         e == entries[v]
         b == [build[p] EXCEPT !.kust = v] IN
     build' = [build EXCEPT ![p] =
       IF BuildTTL = 0 \/ e = None THEN Cold(b)
       ELSE IF Expired(e) THEN [b EXCEPT !.pc = "expired"]
       ELSE [b EXCEPT !.pc = "verify", !.entry = e, !.during = OnDisk,
                      !.todo = {r[1] : r \in e.reads}]]
  /\ UNCHANGED <<world, caches, calls>>

(* The expired file is removed by name: it may have been replaced.         *)
RemoveExpired(p) ==
  /\ At(p, "expired")
  /\ entries' = [entries EXCEPT ![build[p].kust] = None]
  /\ build' = [build EXCEPT ![p] = Cold(@)]
  /\ UNCHANGED <<world, remote, calls>>

Disk(i) == IF i \in Locals THEN content[i]
           ELSE IF remote[i] = None THEN None ELSE remote[i].ver

Matches_KustOnly(e, i) == i = Kust => <<i, Disk(i)>> \in e.reads

(* Every record of the path has the content the path has now.              *)
Matches(e, i) == \A r \in e.reads : r[1] = i => r[2] = Disk(i)

(* verifyBuildInputs.                                                      *)
Verify(p, i) ==
  /\ At(p, "verify")
  /\ i \in build[p].todo
  /\ build' = [build EXCEPT ![p] =
       IF Matches(build[p].entry, i) THEN [build[p] EXCEPT !.todo = @ \ {i}]
       ELSE Cold(build[p])]
  /\ UNCHANGED <<world, caches, calls>>

Hit(p) ==
  /\ At(p, "verify")
  /\ build[p].todo = {}
  /\ build' = [build EXCEPT ![p].pc = "hit", ![p].got = build[p].entry.got,
                            ![p].reads = build[p].entry.reads]
  /\ UNCHANGED <<world, caches, calls>>

-----------------------------------------------------------------------------
(* kustomize reads an input through the recording filesystem ...           *)
Record(b, i, v) ==
  [b EXCEPT !.todo = @ \ {i}, !.got[i] = v,
            !.reads = IF i \in Listings THEN @ ELSE @ \cup {<<i, v>>}]

Read(p, i) ==
  /\ At(p, "run")
  /\ i \in build[p].todo \cap (Locals \cup build[p].resolved)
  /\ i = Kust \/ Kust \notin build[p].todo
  /\ build' = [build EXCEPT ![p] = Record(@, i, Disk(i))]
  /\ UNCHANGED <<world, caches, calls>>

(* ... or fetches a URL by itself, which no layer records ...              *)
FetchItself(p, u) ==
  /\ At(p, "run")
  /\ u \in (build[p].todo \cap Urls) \ build[p].resolved
  /\ Kust \notin build[p].todo
  /\ build' = [build EXCEPT ![p].todo = @ \ {u}, ![p].got[u] = upstream[u]]
  /\ UNCHANGED <<world, caches, calls>>

(* ... or fails, and nothing is stored.                                    *)
RunFails(p) ==
  /\ At(p, "run")
  /\ build' = [build EXCEPT ![p] = Idle]
  /\ UNCHANGED <<world, caches, calls>>

Stored(es) == {v \in Vers : es[v] # None}

(* sweep: the oldest entries go while there are too many, or too many bytes*)
(* in them: any number may.                                                *)
Swept(es) ==
  {[v \in Vers |-> IF v \in kept THEN es[v] ELSE None] :
     kept \in {k \in SUBSET Stored(es) :
        /\ Cardinality(k) <= MaxEntries
        /\ \A v \in Stored(es) \ k, w \in k : es[v].at <= es[w].at}}

(* buildCache.store: the directories are listed and Kust is hashed again;  *)
(* the entry is filed under that hash.  A process sweeps once.  An entry   *)
(* that is too large or cannot be written is not stored: the build works.  *)
Snapshot(reads) == reads \cup {<<i, content[i]>> : i \in Listings \cup {Kust}}

Store(p) ==
  /\ At(p, "run")
  /\ build[p].todo = {}
  /\ \E ok \in BOOLEAN :
       /\ LET e == [reads |-> Snapshot(build[p].reads), got |-> build[p].got, at |-> now]
              es == [entries EXCEPT ![content[Kust]] = e] IN
          entries' \in IF ~ok THEN {entries} ELSE IF build[p].stored THEN {es} ELSE Swept(es)
       /\ build' = [build EXCEPT ![p].pc = "built", ![p].stored = @ \/ ok,
                                 ![p].reads = {}, ![p].got = Nothing]
  /\ UNCHANGED <<world, remote, calls>>

(* The same Builder builds the directory once more: prepare returns at     *)
(* once.                                                                   *)
BuildAgain(p) ==
  /\ At(p, "built") \/ At(p, "hit")
  /\ calls < MaxBuilds
  /\ calls' = calls + 1
  /\ build' = [build EXCEPT ![p] =
       [@ EXCEPT !.pc = "lookup", !.entry = None, !.reads = {}, !.got = Nothing,
                 !.during = {}]]
  /\ UNCHANGED <<world, caches>>

(* The process ends.                                                       *)
Exit(p) ==
  /\ At(p, "built") \/ At(p, "hit")
  /\ build' = [build EXCEPT ![p] = Idle]
  /\ UNCHANGED <<world, caches, calls>>

Step(p) ==
  \/ Start(p) \/ Prepared(p) \/ StoreCopy(p)
  \/ \E u \in Urls : UseCopy(p, u) \/ Download(p, u) \/ DownloadFails(p, u)
  \/ Lookup(p) \/ RemoveExpired(p) \/ Hit(p)
  \/ \E i \in Inputs : Verify(p, i) \/ Read(p, i)
  \/ \E u \in Urls : FetchItself(p, u)
  \/ RunFails(p) \/ Store(p) \/ BuildAgain(p) \/ Exit(p)

Next ==
  \/ \E f \in Locals, v \in Vers : Edit(f, v)
  \/ \E u \in Urls : Release(u)
  \/ Tick
  \/ \E p \in Procs : Step(p)

Spec == Init /\ [][Next]_vars

-----------------------------------------------------------------------------
(* A hit is verified, and verification means something.  Every input the   *)
(* entry's manifest names had its recorded content on disk at some moment  *)
(* of this verification, and what kustomize had read of a file when the    *)
(* entry was made is that content: edits before, during and after the      *)
(* build that stored it, a kustomization file replaced between its read    *)
(* and its second hash, and a swept or overwritten entry included.  And the*)
(* TTL bounds what a hit can be: its entry was stored less than the TTL    *)
(* before the process started, or after.                                   *)
ServedIsCurrent ==
  \A p \in Procs : At(p, "hit") =>
    /\ build[p].reads \subseteq build[p].during
    /\ \A r \in build[p].reads : r[1] \notin Listings =>
          <<r[1], build[p].got[r[1]]>> \in build[p].during
    /\ build[p].start <= build[p].entry.at + BuildTTL

(* Working offline: a resource whose refresh failed is built from its      *)
(* cached copy whenever there was one, never left to kustomize.            *)
CopySurvivesFailure ==
  \A p \in Procs : build[p].failed \cap build[p].had \subseteq build[p].resolved

(* A floating resource taken from the cache without a failure is younger   *)
(* than its TTL, counted from the start of the process.                    *)
FloatingIsFresh ==
  \A p \in Procs : At(p, "prepare") =>
    \A u \in (build[p].resolved \ build[p].failed) \ Pinned :
      \/ remote[u].at + RemoteTTL > build[p].start
      \/ build[p].fresh[u] # None
=============================================================================

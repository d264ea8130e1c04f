---------------------------- MODULE BuildCache_proofs ----------------------------
(***************************************************************************)
(* Proofs about the build cache and the remote resource cache, for every   *)
(* number of processes, files and URLs, every TTL, and edits, upstream     *)
(* releases and failures between any two steps.                            *)
(***************************************************************************)
EXTENDS BuildCache, TLAPS

(* What the stages of a build rely on, beyond the types.                   *)
Shaped(b) ==
  /\ b.pc = "fetched" => b.url \in Urls /\ b.body \in Vers
  /\ b.pc \in {"verify", "hit"} => b.entry \in Entry
  /\ b.pc = "run" => \A i \in Inputs \ b.todo : b.got[i] \in Vers
  /\ b.resolved \cup b.had \subseteq Copied

TypeInv == TypeOK /\ \A p \in Procs : Shaped(build[p])

-----------------------------------------------------------------------------
(* A manifest covers what was read: what kustomize got of a file that was  *)
(* recorded is recorded, whatever else is recorded of it.                  *)
Covered(reads, got) ==
  \A r \in reads : r[1] \notin Listings => <<r[1], got[r[1]]>> \in reads

Recorded(b) ==
  /\ Covered(b.reads, b.got)
  /\ \A r \in b.reads : r[1] \notin b.todo
  /\ \A i \in (Locals \ Listings) \ b.todo : <<i, b.got[i]>> \in b.reads

(* No stamp is of the future.                                              *)
Stamps ==
  /\ \A v \in Vers : entries[v] # None => entries[v].at <= now
  /\ \A u \in Urls : remote[u] # None => remote[u].at <= now
  /\ \A p \in Procs : build[p].start <= now

(* A verification keeps track of the disk, and what it is done with was on *)
(* the disk.                                                               *)
Verifying(b) ==
  /\ b.pc = "verify" => OnDisk \subseteq b.during
  /\ b.pc = "verify" => \A r \in b.entry.reads : r[1] \in b.todo \/ r \in b.during
  /\ b.pc = "hit" => /\ b.entry.reads \subseteq b.during
                     /\ b.reads = b.entry.reads /\ b.got = b.entry.got
  /\ b.pc \in {"verify", "hit"} => /\ Covered(b.entry.reads, b.entry.got)
                                   /\ b.start <= b.entry.at + BuildTTL

(* Nothing is recorded before kustomize runs.                              *)
Blank(b) == b.pc \in {"prepare", "fetched", "lookup", "expired", "verify"} => b.reads = {}

Sound(b) == (b.pc = "run" => Recorded(b)) /\ Verifying(b) /\ Blank(b)

ServeInv ==
  /\ Stamps
  /\ \A v \in Vers : entries[v] # None => Covered(entries[v].reads, entries[v].got)
  /\ \A p \in Procs : Sound(build[p])

-----------------------------------------------------------------------------
(* A resource the scan is done with, and did not fail on, is young.        *)
Young(b) ==
  b.pc \in {"prepare", "fetched"} =>
    \A u \in (b.resolved \ b.failed) \ Pinned :
      remote[u].at + RemoteTTL > b.start \/ b.fresh[u] # None

RemoteInv ==
  /\ Stamps
  /\ CopySurvivesFailure
  /\ \A p \in Procs : Young(build[p])

-----------------------------------------------------------------------------
(* The constants.                                                          *)
LEMMA Bounds ==
  /\ MaxVer \in Nat /\ MaxEdits \in Nat /\ MaxTime \in Nat /\ MaxBuilds \in Nat
  /\ BuildTTL \in Nat /\ RemoteTTL \in Nat
  /\ \A t \in Times : t \in Nat
  /\ \A v \in Vers : v \in Nat
  /\ 0 \in Times /\ 0 \in Vers
  /\ \A f \in Locals : f \in Inputs /\ f \notin Urls
  /\ \A u \in Urls : u \in Inputs /\ u \notin Locals
  /\ \A i \in Inputs : i \in Locals \/ i \in Urls
  /\ Kust \in Locals /\ Kust \in Inputs /\ Kust \notin Listings
  /\ Listings \subseteq Locals /\ Scanned \subseteq Urls
  /\ None \notin Vers /\ None \notin Entry /\ None \notin Remote
BY ConstantsAssumption DEF ConstantsAssumption, Times, Vers, Inputs, Locals

LEMMA BuildTyped ==
  ASSUME NEW b \in Build
  PROVE  /\ b.pc \in Stages /\ b.todo \in SUBSET Inputs
         /\ b.url \in Urls \cup {None} /\ b.body \in Vers \cup {None}
         /\ b.resolved \in SUBSET Urls /\ b.stored \in BOOLEAN
         /\ b.kust \in Vers /\ b.entry \in Entry \cup {None}
         /\ b.reads \in SUBSET (Inputs \X Vers) /\ b.got \in [Inputs -> Vers \cup {None}]
         /\ b.during \in SUBSET (Inputs \X Vers)
         /\ b.had \in SUBSET Urls /\ b.failed \in SUBSET Urls
         /\ b.fresh \in [Urls -> Vers \cup {None}] /\ b.start \in Times
BY DEF Build

LEMMA IdleTyped == Idle \in Build /\ Shaped(Idle)
<1>1. /\ Nothing \in [Inputs -> Vers \cup {None}]
      /\ [u \in Urls |-> None] \in [Urls -> Vers \cup {None}]
      /\ "idle" \in Stages
  BY DEF Nothing, Stages
<1>2. Idle \in Build
  BY <1>1, Bounds DEF Idle, Build
<1>3. QED
  BY <1>2 DEF Idle, Shaped

LEMMA DiskTyped ==
  ASSUME TypeOK
  PROVE  /\ OnDisk \in SUBSET (Inputs \X Vers)
         /\ \A i \in Inputs : Disk(i) \in Vers \cup {None}
         /\ \A i \in Locals \cup Copied : Disk(i) \in Vers /\ <<i, Disk(i)>> \in OnDisk
         /\ Copied \in SUBSET Urls
<1>1. /\ content \in [Locals -> Vers] /\ remote \in [Urls -> Remote \cup {None}]
      /\ \A r \in Remote : r.ver \in Vers /\ r.at \in Times
  BY DEF TypeOK, Remote
<1>2. \A i \in Locals : Disk(i) = content[i] /\ content[i] \in Vers
  BY <1>1 DEF Disk
<1>3. \A u \in Copied : Disk(u) = remote[u].ver /\ remote[u].ver \in Vers /\ u \in Urls
  BY <1>1, Bounds DEF Disk, Copied
<1>4. \A u \in Urls \ Copied : Disk(u) = None
  BY <1>1, Bounds DEF Disk, Copied
<1>5. QED
  BY <1>2, <1>3, <1>4, Bounds DEF OnDisk, Copied

(* The history of a verification is all that a write adds.                 *)
LEMMA NotingTyped ==
  ASSUME NEW b \in [Procs -> Build], NEW i \in Inputs, NEW v \in Vers
  PROVE  Noting(b, i, v) \in [Procs -> Build]
<1>1. ASSUME NEW p \in Procs
      PROVE  (IF b[p].pc = "verify"
              THEN [b[p] EXCEPT !.during = @ \cup {<<i, v>>}] ELSE b[p]) \in Build
  <2>1. b[p] \in Build
    OBVIOUS
  <2>2. b[p].during \cup {<<i, v>>} \in SUBSET (Inputs \X Vers)
    BY <2>1, BuildTyped
  <2>3. [b[p] EXCEPT !.during = @ \cup {<<i, v>>}] \in Build
    BY <2>1, <2>2 DEF Build
  <2>4. QED
    BY <2>1, <2>3
<1>2. QED
  BY <1>1 DEF Noting

SameButHistory(x, y) ==
  /\ y.pc = x.pc /\ y.todo = x.todo /\ y.url = x.url /\ y.body = x.body
  /\ y.resolved = x.resolved /\ y.stored = x.stored /\ y.kust = x.kust /\ y.entry = x.entry
  /\ y.reads = x.reads /\ y.got = x.got /\ y.had = x.had /\ y.failed = x.failed
  /\ y.fresh = x.fresh /\ y.start = x.start /\ x.during \subseteq y.during

LEMMA NotingKeeps ==
  ASSUME NEW b \in [Procs -> Build], NEW i \in Inputs, NEW v \in Vers, NEW p \in Procs
  PROVE  /\ SameButHistory(b[p], Noting(b, i, v)[p])
         /\ b[p].pc = "verify" => <<i, v>> \in Noting(b, i, v)[p].during
<1>1. b[p] \in Build
  OBVIOUS
<1>2. CASE b[p].pc = "verify"
  <2>1. Noting(b, i, v)[p] = [b[p] EXCEPT !.during = b[p].during \cup {<<i, v>>}]
    BY <1>2 DEF Noting
  <2>2. QED
    BY <1>1, <2>1 DEF Build, SameButHistory
<1>3. CASE b[p].pc # "verify"
  <2>1. Noting(b, i, v)[p] = b[p]
    BY <1>3 DEF Noting
  <2>2. QED
    BY <1>3, <2>1 DEF SameButHistory
<1>4. QED
  BY <1>2, <1>3

-----------------------------------------------------------------------------
(* The effect of each action on the record of the build.                   *)
KeepsScan(x, y)  == /\ y.resolved = x.resolved /\ y.had = x.had
                    /\ y.failed = x.failed /\ y.fresh = x.fresh
KeepsRun(x, y)   == y.reads = x.reads /\ y.got = x.got
KeepsEntry(x, y) == y.entry = x.entry /\ y.during = x.during
KeepsSelf(x, y)  == y.start = x.start /\ y.stored = x.stored

(* Only the build of p changes, to a record of its type.                   *)
Alone(p) ==
  /\ build' \in [Procs -> Build]
  /\ \A q \in Procs : q # p => build'[q] = build[q]

LEMMA BuildEffect ==
  ASSUME TypeOK, NEW p \in Procs, NEW y \in Build, build' = [build EXCEPT ![p] = y]
  PROVE  build'[p] = y /\ Alone(p)
BY DEF TypeOK, Alone

LEMMA UseCopyEffect ==
  ASSUME TypeOK, NEW p \in Procs, NEW u \in Urls, UseCopy(p, u)
  PROVE  LET x == build[p]  y == build'[p] IN
         /\ Alone(p)
         /\ y.todo = x.todo \ {u}
         /\ y.resolved = x.resolved \cup {u}
         /\ y.had = x.had
         /\ y.failed = x.failed
         /\ y.fresh = x.fresh
         /\ KeepsRun(x, y)
         /\ KeepsEntry(x, y)
         /\ KeepsSelf(x, y)
         /\ y.pc = x.pc
<1> DEFINE x == build[p]
           z == [x EXCEPT !.todo = x.todo \ {u}, !.resolved = x.resolved \cup {u}]
<1>1. x \in Build
  BY DEF TypeOK
<1>2. x.todo \ {u} \in SUBSET Inputs /\ x.resolved \cup {u} \in SUBSET Urls
  BY <1>1, BuildTyped
<1>3. z \in Build
  BY <1>1, <1>2 DEF Build
<1>4. build' = [build EXCEPT ![p] = z]
  BY DEF TypeOK, UseCopy
<1>5. build'[p] = z /\ Alone(p)
  BY <1>3, <1>4, BuildEffect
<1>6. QED
  BY <1>1, <1>5 DEF Build, KeepsScan, KeepsRun, KeepsEntry, KeepsSelf

LEMMA DownloadEffect ==
  ASSUME TypeOK, NEW p \in Procs, NEW u \in Urls, Download(p, u)
  PROVE  LET x == build[p]  y == build'[p] IN
         /\ Alone(p)
         /\ y.pc = "fetched"
         /\ y.todo = x.todo \ {u}
         /\ y.url = u
         /\ y.body = upstream[u]
         /\ KeepsScan(x, y)
         /\ KeepsRun(x, y)
         /\ KeepsEntry(x, y)
         /\ KeepsSelf(x, y)
<1> DEFINE x == build[p]
           z == [x EXCEPT !.pc = "fetched", !.todo = x.todo \ {u}, !.url = u, !.body = upstream[u]]
<1>1. x \in Build
  BY DEF TypeOK
<1>2. x.todo \ {u} \in SUBSET Inputs /\ upstream[u] \in Vers /\ "fetched" \in Stages
  BY <1>1, BuildTyped DEF TypeOK, Stages
<1>3. z \in Build
  BY <1>1, <1>2 DEF Build
<1>4. build' = [build EXCEPT ![p] = z]
  BY DEF TypeOK, Download
<1>5. build'[p] = z /\ Alone(p)
  BY <1>3, <1>4, BuildEffect
<1>6. QED
  BY <1>1, <1>5 DEF Build, KeepsScan, KeepsRun, KeepsEntry, KeepsSelf

LEMMA DownloadFailsEffect ==
  ASSUME TypeOK, NEW p \in Procs, NEW u \in Urls, DownloadFails(p, u)
  PROVE  LET x == build[p]  y == build'[p] IN
         /\ Alone(p)
         /\ y.todo = x.todo \ {u}
         /\ y.failed = x.failed \cup {u}
         /\ y.resolved = (IF remote[u] # None THEN x.resolved \cup {u} ELSE x.resolved)
         /\ y.had = x.had
         /\ y.fresh = x.fresh
         /\ KeepsRun(x, y)
         /\ KeepsEntry(x, y)
         /\ KeepsSelf(x, y)
         /\ y.pc = x.pc
<1> DEFINE x == build[p]
           z == [x EXCEPT !.todo = x.todo \ {u}, !.failed = x.failed \cup {u},
                          !.resolved = (IF remote[u] # None THEN x.resolved \cup {u}
                                        ELSE x.resolved)]
<1>1. x \in Build
  BY DEF TypeOK
<1>2. x.todo \ {u} \in SUBSET Inputs /\ x.failed \cup {u} \in SUBSET Urls
      /\ (IF remote[u] # None THEN x.resolved \cup {u} ELSE x.resolved) \in SUBSET Urls
  BY <1>1, BuildTyped
<1>3. z \in Build
  BY <1>1, <1>2 DEF Build
<1>4. build' = [build EXCEPT ![p] = z]
  BY DEF TypeOK, DownloadFails
<1>5. build'[p] = z /\ Alone(p)
  BY <1>3, <1>4, BuildEffect
<1>6. QED
  BY <1>1, <1>5 DEF Build, KeepsScan, KeepsRun, KeepsEntry, KeepsSelf

LEMMA PreparedEffect ==
  ASSUME TypeOK, NEW p \in Procs, Prepared(p)
  PROVE  LET x == build[p]  y == build'[p] IN
         /\ Alone(p)
         /\ y.pc = "lookup"
         /\ y.todo = {}
         /\ y.had = {}
         /\ y.failed = {}
         /\ y.resolved = x.resolved
         /\ y.fresh = x.fresh
         /\ KeepsRun(x, y)
         /\ KeepsEntry(x, y)
         /\ KeepsSelf(x, y)
<1> DEFINE x == build[p]
           z == [x EXCEPT !.pc = "lookup", !.todo = {}, !.had = {}, !.failed = {}]
<1>1. x \in Build
  BY DEF TypeOK
<1>2. "lookup" \in Stages
  BY <1>1, BuildTyped DEF Stages
<1>3. z \in Build
  BY <1>1, <1>2 DEF Build
<1>4. build' = [build EXCEPT ![p] = z]
  BY DEF TypeOK, Prepared
<1>5. build'[p] = z /\ Alone(p)
  BY <1>3, <1>4, BuildEffect
<1>6. QED
  BY <1>1, <1>5 DEF Build, KeepsScan, KeepsRun, KeepsEntry, KeepsSelf

LEMMA HitEffect ==
  ASSUME TypeOK, NEW p \in Procs, Hit(p), build[p].entry \in Entry
  PROVE  LET x == build[p]  y == build'[p] IN
         /\ Alone(p)
         /\ y.pc = "hit"
         /\ y.got = x.entry.got
         /\ y.reads = x.entry.reads
         /\ KeepsScan(x, y)
         /\ KeepsEntry(x, y)
         /\ KeepsSelf(x, y)
         /\ y.todo = x.todo
<1> DEFINE x == build[p]
           z == [x EXCEPT !.pc = "hit", !.got = x.entry.got, !.reads = x.entry.reads]
<1>1. x \in Build
  BY DEF TypeOK
<1>2. x.entry.got \in [Inputs -> Vers \cup {None}] /\ x.entry.reads \in SUBSET (Inputs \X Vers)
      /\ "hit" \in Stages
  BY <1>1, BuildTyped DEF Stages, Entry
<1>3. z \in Build
  BY <1>1, <1>2 DEF Build
<1>4. build' = [build EXCEPT ![p] = z]
  BY DEF TypeOK, Hit
<1>5. build'[p] = z /\ Alone(p)
  BY <1>3, <1>4, BuildEffect
<1>6. QED
  BY <1>1, <1>5 DEF Build, KeepsScan, KeepsRun, KeepsEntry, KeepsSelf

LEMMA ReadEffect ==
  ASSUME TypeOK, NEW p \in Procs, NEW i \in Inputs, Read(p, i), Disk(i) \in Vers
  PROVE  LET x == build[p]  y == build'[p] IN
         /\ Alone(p)
         /\ y.todo = x.todo \ {i}
         /\ y.got = [x.got EXCEPT ![i] = Disk(i)]
         /\ y.reads = (IF i \in Listings THEN x.reads ELSE x.reads \cup {<<i, Disk(i)>>})
         /\ KeepsScan(x, y)
         /\ KeepsEntry(x, y)
         /\ KeepsSelf(x, y)
         /\ y.pc = x.pc
<1> DEFINE x == build[p]
           z == [x EXCEPT !.todo = x.todo \ {i}, !.got = [x.got EXCEPT ![i] = Disk(i)],
                          !.reads = (IF i \in Listings THEN x.reads
                                     ELSE x.reads \cup {<<i, Disk(i)>>})]
<1>1. x \in Build
  BY DEF TypeOK
<1>2. x.todo \ {i} \in SUBSET Inputs
      /\ [x.got EXCEPT ![i] = Disk(i)] \in [Inputs -> Vers \cup {None}]
      /\ (IF i \in Listings THEN x.reads
          ELSE x.reads \cup {<<i, Disk(i)>>}) \in SUBSET (Inputs \X Vers)
  BY <1>1, BuildTyped, DiskTyped
<1>3. z \in Build
  BY <1>1, <1>2 DEF Build
<1>4. build' = [build EXCEPT ![p] = z]
  BY DEF TypeOK, Read, Record
<1>5. build'[p] = z /\ Alone(p)
  BY <1>3, <1>4, BuildEffect
<1>6. QED
  BY <1>1, <1>5 DEF Build, KeepsScan, KeepsRun, KeepsEntry, KeepsSelf

LEMMA FetchItselfEffect ==
  ASSUME TypeOK, NEW p \in Procs, NEW u \in Urls, FetchItself(p, u)
  PROVE  LET x == build[p]  y == build'[p] IN
         /\ Alone(p)
         /\ y.todo = x.todo \ {u}
         /\ y.got = [x.got EXCEPT ![u] = upstream[u]]
         /\ KeepsScan(x, y)
         /\ y.reads = x.reads
         /\ KeepsEntry(x, y)
         /\ KeepsSelf(x, y)
         /\ y.pc = x.pc
<1> DEFINE x == build[p]
           z == [x EXCEPT !.todo = x.todo \ {u}, !.got = [x.got EXCEPT ![u] = upstream[u]]]
<1>1. x \in Build
  BY DEF TypeOK
<1>2. x.todo \ {u} \in SUBSET Inputs
      /\ [x.got EXCEPT ![u] = upstream[u]] \in [Inputs -> Vers \cup {None}]
  BY <1>1, BuildTyped, Bounds DEF TypeOK
<1>3. z \in Build
  BY <1>1, <1>2 DEF Build
<1>4. build' = [build EXCEPT ![p] = z]
  BY DEF TypeOK, FetchItself
<1>5. build'[p] = z /\ Alone(p)
  BY <1>3, <1>4, BuildEffect
<1>6. QED
  BY <1>1, <1>5 DEF Build, KeepsScan, KeepsRun, KeepsEntry, KeepsSelf

LEMMA StoreEffect ==
  ASSUME TypeOK, NEW p \in Procs, Store(p)
  PROVE  LET x == build[p]  y == build'[p] IN
         /\ Alone(p)
         /\ y.pc = "built"
         /\ y.stored \in BOOLEAN
         /\ y.reads = {}
         /\ y.got = Nothing
         /\ KeepsScan(x, y)
         /\ KeepsEntry(x, y)
         /\ y.start = x.start
         /\ y.todo = x.todo
<1> PICK ok \in BOOLEAN :
      build' = [build EXCEPT ![p].pc = "built", ![p].stored = @ \/ ok,
                             ![p].reads = {}, ![p].got = Nothing]
  BY DEF Store
<1> DEFINE x == build[p]
           z == [x EXCEPT !.pc = "built", !.stored = @ \/ ok, !.reads = {}, !.got = Nothing]
<1>1. x \in Build
  BY DEF TypeOK
<1>2. "built" \in Stages /\ Nothing \in [Inputs -> Vers \cup {None}]
  BY <1>1, BuildTyped DEF Stages, Nothing
<1>3. z \in Build
  BY <1>1, <1>2 DEF Build
<1>4. build' = [build EXCEPT ![p] = z]
  BY DEF TypeOK, Store
<1>5. build'[p] = z /\ Alone(p)
  BY <1>3, <1>4, BuildEffect
<1>6. z.stored \in BOOLEAN
  BY <1>3, BuildTyped
<1>7. z.pc = "built" /\ z.reads = {} /\ z.got = Nothing /\ z.start = x.start /\ z.todo = x.todo
  BY <1>1 DEF Build
<1>8. KeepsScan(x, z) /\ KeepsEntry(x, z)
  BY <1>1 DEF Build, KeepsScan, KeepsEntry
<1>9. QED
  BY <1>5, <1>6, <1>7, <1>8

LEMMA BuildAgainEffect ==
  ASSUME TypeOK, NEW p \in Procs, BuildAgain(p)
  PROVE  LET x == build[p]  y == build'[p] IN
         /\ Alone(p)
         /\ y.pc = "lookup"
         /\ y.entry = None
         /\ y.reads = {}
         /\ y.got = Nothing
         /\ y.during = {}
         /\ KeepsScan(x, y)
         /\ KeepsSelf(x, y)
         /\ y.todo = x.todo
<1> DEFINE x == build[p]
           z == [x EXCEPT !.pc = "lookup", !.entry = None, !.reads = {}, !.got = Nothing,
                          !.during = {}]
<1>1. x \in Build
  BY DEF TypeOK
<1>2. "lookup" \in Stages /\ Nothing \in [Inputs -> Vers \cup {None}]
  BY <1>1, BuildTyped DEF Stages, Nothing
<1>3. z \in Build
  BY <1>1, <1>2 DEF Build
<1>4. build' = [build EXCEPT ![p] = z]
  BY DEF TypeOK, BuildAgain
<1>5. build'[p] = z /\ Alone(p)
  BY <1>3, <1>4, BuildEffect
<1>6. QED
  BY <1>1, <1>5 DEF Build, KeepsScan, KeepsRun, KeepsEntry, KeepsSelf

LEMMA StartEffect ==
  ASSUME TypeOK, NEW p \in Procs, Start(p)
  PROVE  LET y == build'[p] IN
         /\ Alone(p)
         /\ y.pc = "prepare" /\ y.resolved = {} /\ y.had = Copied /\ y.failed = {}
         /\ y.start = now /\ y.entry = None /\ y.reads = {}
<1> DEFINE z == [Idle EXCEPT !.pc = "prepare", !.todo = Scanned, !.had = Copied, !.start = now]
<1>1. Scanned \in SUBSET Inputs /\ Copied \in SUBSET Urls /\ now \in Times /\ "prepare" \in Stages
  BY Bounds, DiskTyped DEF TypeOK, Stages
<1>2. z \in Build
  BY <1>1, IdleTyped DEF Build
<1>3. build'[p] = z /\ Alone(p)
  BY <1>2, BuildEffect DEF Start
<1>4. QED
  BY <1>3 DEF Idle

LEMMA EndEffect ==
  ASSUME TypeOK, NEW p \in Procs, RunFails(p) \/ Exit(p)
  PROVE  build'[p] = Idle /\ Alone(p)
BY IdleTyped, BuildEffect DEF RunFails, Exit

(* kustomize is to run: with everything to read, and nothing read.         *)
Runs(x, y) ==
  /\ y.pc = "run" /\ y.todo = Inputs /\ y.entry = None
  /\ y.resolved = x.resolved /\ y.had = x.had /\ y.failed = x.failed
  /\ KeepsRun(x, y) /\ KeepsSelf(x, y)

LEMMA ColdTyped ==
  ASSUME NEW b \in Build
  PROVE  Cold(b) \in Build /\ Runs(b, Cold(b))
<1>1. Idle.fresh \in [Urls -> Vers \cup {None}] /\ "run" \in Stages
  BY IdleTyped, BuildTyped DEF Stages
<1>2. Cold(b) \in Build
  BY <1>1, Bounds DEF Cold, Build
<1>3. QED
  BY <1>2 DEF Cold, Build, Runs, KeepsRun, KeepsSelf

LEMMA RemoveExpiredEffect ==
  ASSUME TypeOK, NEW p \in Procs, RemoveExpired(p)
  PROVE  Alone(p) /\ Runs(build[p], build'[p])
<1>1. build[p] \in Build
  BY DEF TypeOK
<1>2. QED
  BY <1>1, ColdTyped, BuildEffect DEF RemoveExpired

LEMMA LookupEffect ==
  ASSUME TypeOK, NEW p \in Procs, Lookup(p)
  PROVE  LET x == build[p]  y == build'[p]  e == entries[content[Kust]] IN
         /\ Alone(p)
         /\ \/ Runs(x, y)
            \/ /\ y.pc = "expired"
               /\ KeepsScan(x, y) /\ KeepsRun(x, y) /\ KeepsEntry(x, y) /\ KeepsSelf(x, y)
            \/ /\ y.pc = "verify"
               /\ e \in Entry /\ ~Expired(e)
               /\ y.entry = e /\ y.during = OnDisk /\ y.todo = {r[1] : r \in e.reads}
               /\ KeepsScan(x, y) /\ KeepsRun(x, y) /\ KeepsSelf(x, y)
<1> DEFINE x == build[p]
           v == content[Kust]
           e == entries[v]
           b == [x EXCEPT !.kust = v]
<1>1. x \in Build /\ v \in Vers /\ e \in Entry \cup {None}
  BY Bounds DEF TypeOK
<1>2. b \in Build /\ KeepsScan(x, b) /\ KeepsRun(x, b) /\ KeepsEntry(x, b) /\ KeepsSelf(x, b)
  BY <1>1 DEF Build, KeepsScan, KeepsRun, KeepsEntry, KeepsSelf
<1> HIDE DEF b
<1>3. CASE BuildTTL = 0 \/ e = None
  <2>1. build' = [build EXCEPT ![p] = Cold(b)]
    BY <1>3 DEF Lookup, b
  <2>2. Cold(b) \in Build /\ Runs(b, Cold(b))
    BY <1>2, ColdTyped
  <2>3. build'[p] = Cold(b) /\ Alone(p)
    BY <2>1, <2>2, BuildEffect
  <2>4. Runs(x, Cold(b))
    BY <1>2, <2>2 DEF Runs, KeepsScan, KeepsRun, KeepsSelf
  <2>5. QED
    BY <2>3, <2>4
<1>4. CASE ~(BuildTTL = 0 \/ e = None) /\ Expired(e)
  <2> DEFINE z == [b EXCEPT !.pc = "expired"]
  <2>1. build' = [build EXCEPT ![p] = z]
    BY <1>4 DEF Lookup, b
  <2>2. z \in Build
    BY <1>2 DEF Build, Stages
  <2>3. /\ z.pc = "expired"
        /\ KeepsScan(b, z) /\ KeepsRun(b, z) /\ KeepsEntry(b, z) /\ KeepsSelf(b, z)
    BY <1>2 DEF Build, KeepsScan, KeepsRun, KeepsEntry, KeepsSelf
  <2> HIDE DEF z
  <2>4. build'[p] = z /\ Alone(p)
    BY <2>1, <2>2, BuildEffect
  <2>5. QED
    BY <1>2, <2>3, <2>4 DEF KeepsScan, KeepsRun, KeepsEntry, KeepsSelf
<1>5. CASE ~(BuildTTL = 0 \/ e = None) /\ ~Expired(e)
  <2> DEFINE paths == {r[1] : r \in e.reads}
             z == [b EXCEPT !.pc = "verify", !.entry = e, !.during = OnDisk, !.todo = paths]
  <2>1. build' = [build EXCEPT ![p] = z]
    BY <1>5 DEF Lookup, b
  <2>2. e \in Entry /\ paths \in SUBSET Inputs /\ OnDisk \in SUBSET (Inputs \X Vers)
    BY <1>1, <1>5, DiskTyped DEF Entry
  <2> HIDE DEF paths
  <2>3. z \in Build
    BY <1>2, <2>2 DEF Build, Stages
  <2>4. /\ z.pc = "verify" /\ z.entry = e /\ z.during = OnDisk /\ z.todo = paths
        /\ KeepsScan(b, z) /\ KeepsRun(b, z) /\ KeepsSelf(b, z)
    BY <1>2 DEF Build, KeepsScan, KeepsRun, KeepsSelf
  <2> HIDE DEF z
  <2>5. build'[p] = z /\ Alone(p)
    BY <2>1, <2>3, BuildEffect
  <2>6. QED
    BY <1>2, <1>5, <2>2, <2>4, <2>5 DEF KeepsScan, KeepsRun, KeepsSelf, paths
<1>6. QED
  BY <1>3, <1>4, <1>5

LEMMA VerifyEffect ==
  ASSUME TypeOK, NEW p \in Procs, NEW i \in Inputs, Verify(p, i)
  PROVE  LET x == build[p]  y == build'[p] IN
         /\ Alone(p)
         /\ \/ Runs(x, y)
            \/ /\ Matches(x.entry, i)
               /\ y.todo = x.todo \ {i} /\ y.pc = x.pc
               /\ KeepsScan(x, y) /\ KeepsRun(x, y) /\ KeepsEntry(x, y) /\ KeepsSelf(x, y)
<1> DEFINE x == build[p]
           z == [x EXCEPT !.todo = x.todo \ {i}]
<1>1. x \in Build
  BY DEF TypeOK
<1> DEFINE step == IF Matches(x.entry, i) THEN z ELSE Cold(x)
<1>5. build' = [build EXCEPT ![p] = step]
  BY DEF Verify
<1>2. CASE Matches(x.entry, i)
  <2>1. build' = [build EXCEPT ![p] = z]
    BY <1>2, <1>5
  <2>2. x.todo \ {i} \in SUBSET Inputs
    BY <1>1, BuildTyped
  <2>3. z \in Build
    BY <1>1, <2>2 DEF Build
  <2>4. /\ z.todo = x.todo \ {i} /\ z.pc = x.pc
        /\ KeepsScan(x, z) /\ KeepsRun(x, z) /\ KeepsEntry(x, z) /\ KeepsSelf(x, z)
    BY <1>1 DEF Build, KeepsScan, KeepsRun, KeepsEntry, KeepsSelf
  <2> HIDE DEF z
  <2>5. build'[p] = z /\ Alone(p)
    BY <2>1, <2>3, BuildEffect
  <2>6. QED
    BY <1>2, <2>4, <2>5
<1>3. CASE ~Matches(x.entry, i)
  <2>1. build' = [build EXCEPT ![p] = Cold(x)]
    BY <1>3, <1>5
  <2>2. QED
    BY <1>1, <2>1, ColdTyped, BuildEffect
<1>4. QED
  BY <1>2, <1>3

(* A download that is stored: the verifications under way take note.       *)
LEMMA StoreCopyEffect ==
  ASSUME TypeOK, NEW p \in Procs, StoreCopy(p), build[p].url \in Urls, build[p].body \in Vers
  PROVE  LET x == build[p]  y == build'[p] IN
         /\ build' \in [Procs -> Build]
         /\ \A q \in Procs : q # p =>
              /\ SameButHistory(build[q], build'[q])
              /\ build[q].pc = "verify" => <<x.url, x.body>> \in build'[q].during
         /\ y.pc = "prepare" /\ y.resolved = x.resolved \cup {x.url}
         /\ y.fresh = [x.fresh EXCEPT ![x.url] = x.body]
         /\ y.had = x.had /\ y.failed = x.failed /\ y.start = x.start /\ y.reads = x.reads
<1> DEFINE x == build[p]
           z == [x EXCEPT !.pc = "prepare", !.url = None, !.body = None,
                          !.resolved = x.resolved \cup {x.url},
                          !.fresh = [x.fresh EXCEPT ![x.url] = x.body]]
           b == [build EXCEPT ![p] = z]
<1>1. x \in Build
  BY DEF TypeOK
<1>2. /\ x.resolved \cup {x.url} \in SUBSET Urls /\ "prepare" \in Stages
      /\ [x.fresh EXCEPT ![x.url] = x.body] \in [Urls -> Vers \cup {None}]
  BY <1>1, BuildTyped DEF Stages
<1>3. z \in Build
  BY <1>1, <1>2 DEF Build
<1>4. build' = Noting(b, x.url, x.body)
  <2> DEFINE c == [x EXCEPT !.pc = "prepare", !.url = None, !.body = None,
                            !.resolved = @ \cup {x.url}, !.fresh[x.url] = x.body]
  <2>1. build' = Noting([build EXCEPT ![p] = c], x.url, x.body)
    BY DEF StoreCopy
  <2>2. c = z
    BY <1>1 DEF Build
  <2>3. QED
    BY <2>1, <2>2
<1>5. /\ z.pc = "prepare" /\ z.resolved = x.resolved \cup {x.url}
      /\ z.fresh = [x.fresh EXCEPT ![x.url] = x.body]
      /\ z.had = x.had /\ z.failed = x.failed /\ z.start = x.start /\ z.reads = x.reads
  BY <1>1 DEF Build
<1> HIDE DEF z
<1>6. b \in [Procs -> Build] /\ b[p] = z /\ \A q \in Procs : q # p => b[q] = build[q]
  BY <1>3 DEF TypeOK
<1> HIDE DEF b
<1>7. x.url \in Inputs
  BY Bounds
<1>8. build' \in [Procs -> Build]
  BY <1>4, <1>6, <1>7, NotingTyped
<1>9. \A q \in Procs : /\ SameButHistory(b[q], build'[q])
                       /\ b[q].pc = "verify" => <<x.url, x.body>> \in build'[q].during
  BY <1>4, <1>6, <1>7, NotingKeeps
<1>10. QED
  BY <1>5, <1>6, <1>8, <1>9 DEF SameButHistory

LEMMA EditEffect ==
  ASSUME TypeOK, NEW f \in Locals, NEW v \in Vers, Edit(f, v)
  PROVE  /\ build' \in [Procs -> Build]
         /\ \A q \in Procs :
              /\ SameButHistory(build[q], build'[q])
              /\ build[q].pc = "verify" => <<f, v>> \in build'[q].during
<1>1. build' = Noting(build, f, v) /\ build \in [Procs -> Build] /\ f \in Inputs
  BY Bounds DEF Edit, TypeOK
<1>2. QED
  BY <1>1, NotingTyped, NotingKeeps

(* What a step of p leaves of the other builds, and of everything else.    *)
LEMMA Others ==
  ASSUME TypeInv, NEW p \in Procs, Step(p)
  PROVE  /\ build' \in [Procs -> Build]
         /\ \A q \in Procs : q # p => SameButHistory(build[q], build'[q])
<1>1. TypeOK /\ Shaped(build[p])
  BY DEF TypeInv
<1>2. Alone(p) => /\ build' \in [Procs -> Build]
                  /\ \A q \in Procs : q # p => SameButHistory(build[q], build'[q])
  BY DEF Alone, SameButHistory
<1>3. CASE StoreCopy(p)
  BY <1>1, <1>3, StoreCopyEffect DEF Shaped, StoreCopy, At
<1>4. CASE Start(p) \/ Prepared(p) \/ RunFails(p) \/ Exit(p) \/ Store(p) \/ BuildAgain(p)
  BY <1>1, <1>2, <1>4, StartEffect, PreparedEffect, EndEffect, StoreEffect, BuildAgainEffect
<1>5. ASSUME NEW u \in Urls,
             UseCopy(p, u) \/ Download(p, u) \/ DownloadFails(p, u) \/ FetchItself(p, u)
      PROVE  Alone(p)
  BY <1>1, <1>5, UseCopyEffect, DownloadEffect, DownloadFailsEffect, FetchItselfEffect
<1>6. CASE Lookup(p) \/ RemoveExpired(p)
  BY <1>1, <1>2, <1>6, LookupEffect, RemoveExpiredEffect
<1>7. CASE Hit(p)
  BY <1>1, <1>2, <1>7, HitEffect DEF Shaped, Hit, At
<1>8. ASSUME NEW i \in Inputs, Verify(p, i) PROVE Alone(p)
  BY <1>1, <1>8, VerifyEffect
<1>9. ASSUME NEW i \in Inputs, Read(p, i) PROVE Disk(i) \in Vers /\ Alone(p)
  <2>1. i \in Locals \cup Copied
    BY <1>1, <1>9 DEF Read, Shaped
  <2>2. Disk(i) \in Vers
    BY <1>1, <2>1, DiskTyped
  <2>3. QED
    BY <1>1, <1>9, <2>2, ReadEffect
<1>10. QED
  BY <1>2, <1>3, <1>4, <1>5, <1>6, <1>7, <1>8, <1>9 DEF Step

LEMMA CacheStep ==
  ASSUME NEW p \in Procs, Step(p)
  PROVE  /\ UNCHANGED world
         /\ remote' = remote \/ StoreCopy(p)
         /\ entries' = entries \/ RemoveExpired(p) \/ Store(p)
         /\ calls' = calls \/ (calls < MaxBuilds /\ calls' = calls + 1)
<1>1. CASE Start(p) \/ Prepared(p) \/ StoreCopy(p) \/ Lookup(p) \/ RemoveExpired(p) \/ Hit(p)
  BY <1>1 DEF Start, Prepared, StoreCopy, Lookup, RemoveExpired, Hit, caches
<1>2. CASE RunFails(p) \/ Store(p) \/ BuildAgain(p) \/ Exit(p)
  BY <1>2 DEF RunFails, Store, BuildAgain, Exit, caches
<1>3. ASSUME NEW u \in Urls,
             UseCopy(p, u) \/ Download(p, u) \/ DownloadFails(p, u) \/ FetchItself(p, u)
      PROVE  UNCHANGED <<world, caches, calls>>
  BY <1>3 DEF UseCopy, Download, DownloadFails, FetchItself
<1>4. ASSUME NEW i \in Inputs, Verify(p, i) \/ Read(p, i) PROVE UNCHANGED <<world, caches, calls>>
  BY <1>4 DEF Verify, Read
<1>5. QED
  BY <1>1, <1>2, <1>3, <1>4 DEF Step, caches

(* What is stored is an entry; a sweep only drops entries.                 *)
New(p) == [reads |-> Snapshot(build[p].reads), got |-> build[p].got, at |-> now]

LEMMA StoreEntries ==
  ASSUME TypeInv, NEW p \in Procs, Store(p)
  PROVE  /\ New(p) \in Entry
         /\ entries' \in [Vers -> Entry \cup {None}]
         /\ \A v \in Vers : entries'[v] \in {entries[v], New(p), None}
<1> DEFINE x == build[p]
           es == [entries EXCEPT ![content[Kust]] = New(p)]
<1>1. TypeOK /\ x \in Build /\ Shaped(x) /\ x.pc = "run" /\ x.todo = {} /\ content[Kust] \in Vers
  BY Bounds DEF TypeInv, TypeOK, Store, At
<1>2. x.got \in [Inputs -> Vers]
  BY <1>1, BuildTyped DEF Shaped
<1>3. Snapshot(x.reads) \in SUBSET (Inputs \X Vers)
  BY <1>1, BuildTyped, Bounds DEF Snapshot, TypeOK
<1>4. New(p) \in Entry
  BY <1>1, <1>2, <1>3 DEF New, Entry, TypeOK
<1>5. es \in [Vers -> Entry \cup {None}] /\ \A v \in Vers : es[v] \in {entries[v], New(p), None}
  BY <1>1, <1>4 DEF TypeOK
<1>6. entries' \in {entries, es} \cup Swept(es)
  BY DEF Store, New
<1>7. ASSUME NEW k \in SUBSET Vers
      PROVE  LET f == [v \in Vers |-> IF v \in k THEN es[v] ELSE None] IN
             /\ f \in [Vers -> Entry \cup {None}]
             /\ \A v \in Vers : f[v] \in {entries[v], New(p), None}
  BY <1>5
<1>8. Stored(es) \in SUBSET Vers
  BY DEF Stored
<1> HIDE DEF es
<1>9. CASE entries' \in Swept(es)
  <2>1. \E k \in SUBSET Stored(es) : entries' = [v \in Vers |-> IF v \in k THEN es[v] ELSE None]
    BY <1>9, Zenon DEF Swept
  <2>2. PICK k \in SUBSET Vers : entries' = [v \in Vers |-> IF v \in k THEN es[v] ELSE None]
    BY <1>8, <2>1
  <2>3. QED
    BY <1>4, <1>7, <2>2
<1>10. CASE entries' = entries
  BY <1>1, <1>4, <1>10 DEF TypeOK
<1>11. QED
  BY <1>4, <1>5, <1>6, <1>9, <1>10

-----------------------------------------------------------------------------
(* The types.                                                              *)
LEMMA TypeInit == Init => TypeInv
BY IdleTyped, Bounds DEF Init, TypeInv, TypeOK

LEMMA CopiesStay ==
  ASSUME TypeInv, NEW p \in Procs, Step(p)
  PROVE  /\ remote' \in [Urls -> Remote \cup {None}]
         /\ Copied \subseteq Copied'
<1>1. TypeOK /\ Shaped(build[p])
  BY DEF TypeInv
<1>2. CASE remote' = remote
  BY <1>1, <1>2 DEF TypeOK, Copied
<1>3. CASE StoreCopy(p)
  <2> DEFINE copy == [ver |-> build[p].body, at |-> now]
  <2>1. build[p].url \in Urls /\ build[p].body \in Vers
    BY <1>1, <1>3 DEF Shaped, StoreCopy, At
  <2>2. copy \in Remote /\ copy # None
    BY <1>1, <2>1, Bounds DEF TypeOK, Remote
  <2>3. remote' = [remote EXCEPT ![build[p].url] = copy]
    BY <1>3 DEF StoreCopy
  <2> HIDE DEF copy
  <2>4. QED
    BY <1>1, <2>1, <2>2, <2>3 DEF TypeOK, Copied
<1>4. QED
  BY <1>2, <1>3, CacheStep

LEMMA TypeNext == TypeInv /\ [Next]_vars => TypeInv'
<1> SUFFICES ASSUME TypeInv, [Next]_vars PROVE TypeInv'
  OBVIOUS
<1>1. TypeOK /\ \A q \in Procs : Shaped(build[q])
  BY DEF TypeInv
<1>2. CASE UNCHANGED vars
  BY <1>1, <1>2 DEF vars, world, caches, TypeInv, TypeOK, Shaped, Copied
<1>3. CASE Tick \/ \E u \in Urls : Release(u)
  <2>1. UNCHANGED <<content, edits, remote, entries, build, calls>>
    BY <1>3 DEF Tick, Release, caches
  <2>2. now' \in Times /\ upstream' \in [Urls -> Vers]
    <3>1. CASE Tick
      BY <1>1, <3>1, Bounds DEF Tick, TypeOK, Times
    <3>2. ASSUME NEW u \in Urls, Release(u) PROVE now' \in Times /\ upstream' \in [Urls -> Vers]
      <4>1. upstream[u] \in Vers /\ upstream[u] < MaxVer
        BY <1>1, <3>2 DEF Release, TypeOK
      <4>2. upstream[u] + 1 \in Vers
        BY <4>1, Bounds DEF Vers
      <4>3. QED
        BY <1>1, <3>2, <4>2 DEF Release, TypeOK
    <3>3. QED
      BY <1>3, <3>1, <3>2
  <2>3. QED
    BY <1>1, <2>1, <2>2 DEF TypeInv, TypeOK, Shaped, Copied
<1>4. ASSUME NEW f \in Locals, NEW v \in Vers, Edit(f, v) PROVE TypeInv'
  <2>1. UNCHANGED <<upstream, now, remote, entries, calls>>
    BY <1>4 DEF Edit, caches
  <2>2. content' \in [Locals -> Vers] /\ edits' \in 0 .. MaxEdits
    BY <1>1, <1>4, Bounds DEF Edit, TypeOK
  <2>3. build' \in [Procs -> Build] /\ \A q \in Procs : SameButHistory(build[q], build'[q])
    BY <1>1, <1>4, EditEffect
  <2>4. Copied \subseteq Copied'
    BY <2>1 DEF Copied
  <2>5. \A q \in Procs : Shaped(build[q])'
    BY <1>1, <2>3, <2>4 DEF Shaped, SameButHistory
  <2>6. QED
    BY <1>1, <2>1, <2>2, <2>3, <2>5 DEF TypeInv, TypeOK
<1>5. ASSUME NEW p \in Procs, Step(p) PROVE TypeInv'
  <2> DEFINE x == build[p]  y == build'[p]
  <2>1. /\ build' \in [Procs -> Build]
        /\ remote' \in [Urls -> Remote \cup {None}] /\ Copied \subseteq Copied'
        /\ UNCHANGED world
    BY <1>5, Others, CopiesStay, CacheStep
  <2>2. entries' \in [Vers -> Entry \cup {None}]
    <3>1. CASE RemoveExpired(p)
      BY <1>1, <3>1 DEF RemoveExpired, TypeOK
    <3>2. QED
      BY <1>1, <1>5, <3>1, CacheStep, StoreEntries DEF TypeOK
  <2>3. calls' \in 0 .. MaxBuilds
    BY <1>1, <1>5, CacheStep, Bounds DEF TypeOK
  <2>4. TypeOK'
    BY <1>1, <2>1, <2>2, <2>3 DEF TypeOK, world
  <2>5. \A q \in Procs : q # p => Shaped(build[q])'
    BY <1>1, <1>5, <2>1, Others DEF Shaped, SameButHistory
  <2>6. x \in Build /\ Shaped(x) /\ x.resolved \cup x.had \subseteq Copied'
    BY <1>1, <2>1 DEF TypeOK, Shaped
  <2>7. Shaped(build[p])'
    <3>1. ASSUME y.pc \notin {"fetched", "verify", "hit", "run"},
                 y.resolved \cup y.had \subseteq Copied'
          PROVE  Shaped(build[p])'
      BY <3>1 DEF Shaped
    <3>2. Runs(x, y) => Shaped(build[p])'
      BY <2>6 DEF Runs, Shaped
    <3>3. CASE Start(p) \/ RunFails(p) \/ Exit(p)
      <4>1. Idle.pc = "idle" /\ Idle.resolved = {} /\ Idle.had = {}
        BY DEF Idle
      <4>2. QED
        BY <1>1, <2>1, <3>1, <3>3, <4>1, StartEffect, EndEffect
    <3>4. CASE Prepared(p) \/ BuildAgain(p) \/ Store(p)
      BY <1>1, <2>6, <3>1, <3>4, PreparedEffect, BuildAgainEffect, StoreEffect DEF KeepsScan
    <3>5. CASE StoreCopy(p)
      <4> DEFINE u == x.url
      <4>1. u \in Urls /\ x.body \in Vers
        BY <2>6, <3>5 DEF StoreCopy, At, Shaped
      <4>2. y.pc = "prepare" /\ y.resolved = x.resolved \cup {u} /\ y.had = x.had
        BY <1>1, <3>5, <4>1, StoreCopyEffect
      <4>3. remote'[u] # None
        <5> DEFINE copy == [ver |-> x.body, at |-> now]
        <5>1. copy \in Remote
          BY <1>1, <4>1 DEF TypeOK, Remote
        <5>2. remote' = [remote EXCEPT ![u] = copy]
          BY <3>5 DEF StoreCopy
        <5>3. QED
          BY <1>1, <4>1, <5>1, <5>2, Bounds DEF TypeOK
      <4>4. u \in Copied'
        BY <4>1, <4>3 DEF Copied
      <4>5. QED
        BY <2>6, <3>1, <4>2, <4>4
    <3>6. ASSUME NEW u \in Urls, UseCopy(p, u) PROVE Shaped(build[p])'
      <4>1. u \in Copied
        BY <3>6 DEF UseCopy, Usable, Copied
      <4>2. x.pc = "prepare" /\ y.pc = x.pc /\ y.resolved = x.resolved \cup {u} /\ y.had = x.had
        BY <1>1, <3>6, UseCopyEffect DEF UseCopy, At
      <4>3. QED
        BY <2>1, <2>6, <3>1, <4>1, <4>2
    <3>7. ASSUME NEW u \in Urls, Download(p, u) PROVE Shaped(build[p])'
      <4>1. upstream[u] \in Vers
        BY <1>1 DEF TypeOK
      <4>2. y.pc = "fetched" /\ y.url = u /\ y.body = upstream[u] /\ KeepsScan(x, y)
        BY <1>1, <3>7, DownloadEffect
      <4>3. QED
        BY <2>6, <4>1, <4>2 DEF Shaped, KeepsScan
    <3>8. ASSUME NEW u \in Urls, DownloadFails(p, u) PROVE Shaped(build[p])'
      <4>1. /\ x.pc = "prepare" /\ y.pc = x.pc /\ y.had = x.had
            /\ y.resolved = IF remote[u] # None THEN x.resolved \cup {u} ELSE x.resolved
        BY <1>1, <3>8, DownloadFailsEffect DEF DownloadFails, At
      <4>2. y.resolved \subseteq Copied'
        BY <2>1, <2>6, <4>1 DEF Copied
      <4>3. QED
        BY <2>6, <3>1, <4>1, <4>2
    <3>9. CASE Lookup(p) \/ RemoveExpired(p)
      <4>1. \/ Runs(x, y)
            \/ KeepsScan(x, y) /\ (y.pc = "expired" \/ (y.pc = "verify" /\ y.entry \in Entry))
        BY <1>1, <3>9, LookupEffect, RemoveExpiredEffect
      <4>2. QED
        BY <2>6, <3>2, <4>1 DEF Shaped, KeepsScan
    <3>10. CASE Hit(p)
      <4>1. x.entry \in Entry
        BY <2>6, <3>10 DEF Hit, At, Shaped
      <4>2. y.pc = "hit" /\ KeepsScan(x, y) /\ KeepsEntry(x, y)
        BY <1>1, <3>10, <4>1, HitEffect
      <4>3. QED
        BY <2>6, <4>1, <4>2 DEF Shaped, KeepsScan, KeepsEntry
    <3>11. ASSUME NEW i \in Inputs, Verify(p, i) PROVE Shaped(build[p])'
      <4>1. \/ Runs(x, y)
            \/ x.pc = "verify" /\ y.pc = x.pc /\ KeepsScan(x, y) /\ KeepsEntry(x, y)
        BY <1>1, <3>11, VerifyEffect DEF Verify, At
      <4>2. QED
        BY <2>6, <3>2, <4>1 DEF Shaped, KeepsScan, KeepsEntry
    <3>12. ASSUME NEW i \in Inputs, Read(p, i) PROVE Shaped(build[p])'
      <4>1. Disk(i) \in Vers
        BY <1>1, <2>6, <3>12, DiskTyped DEF Read, Shaped
      <4>2. /\ x.pc = "run" /\ y.pc = x.pc /\ KeepsScan(x, y)
            /\ y.todo = x.todo \ {i} /\ y.got = [x.got EXCEPT ![i] = Disk(i)]
        BY <1>1, <3>12, <4>1, ReadEffect DEF Read, At
      <4>3. \A j \in Inputs \ y.todo : y.got[j] \in Vers
        BY <2>6, <4>1, <4>2, BuildTyped DEF Shaped
      <4>4. QED
        BY <2>6, <4>2, <4>3 DEF Shaped, KeepsScan
    <3>13. ASSUME NEW u \in Urls, FetchItself(p, u) PROVE Shaped(build[p])'
      <4>1. upstream[u] \in Vers
        BY <1>1 DEF TypeOK
      <4>2. /\ x.pc = "run" /\ y.pc = x.pc /\ KeepsScan(x, y)
            /\ y.todo = x.todo \ {u} /\ y.got = [x.got EXCEPT ![u] = upstream[u]]
        BY <1>1, <3>13, FetchItselfEffect DEF FetchItself, At
      <4>3. \A j \in Inputs \ y.todo : y.got[j] \in Vers
        BY <2>6, <4>1, <4>2, BuildTyped DEF Shaped
      <4>4. QED
        BY <2>6, <4>2, <4>3 DEF Shaped, KeepsScan
    <3>14. QED
      BY <1>5, <3>3, <3>4, <3>5, <3>6, <3>7, <3>8, <3>9, <3>10, <3>11, <3>12, <3>13 DEF Step
  <2>8. QED
    BY <2>4, <2>5, <2>7 DEF TypeInv
<1>6. QED
  BY <1>2, <1>3, <1>4, <1>5 DEF Next

(* TypeCorrect: the types hold in every reachable state; an output that is *)
(* stored was made from the content of every input (Builder.Build).        *)
THEOREM TypeCorrect == Spec => []TypeOK
<1>1. TypeInv => TypeOK
  BY DEF TypeInv
<1>2. QED
  BY <1>1, TypeInit, TypeNext, PTL DEF Spec

-----------------------------------------------------------------------------
(* The stamps.                                                             *)
LEMMA StartKept ==
  ASSUME TypeInv, NEW p \in Procs, Step(p)
  PROVE  build'[p].start \in {build[p].start, now, 0}
<1> DEFINE x == build[p]  y == build'[p]
<1>1. TypeOK /\ Shaped(x)
  BY DEF TypeInv
<1>2. CASE Start(p) \/ RunFails(p) \/ Exit(p)
  BY <1>1, <1>2, StartEffect, EndEffect DEF Idle
<1>3. CASE Prepared(p) \/ BuildAgain(p) \/ Store(p)
  BY <1>1, <1>3, PreparedEffect, BuildAgainEffect, StoreEffect DEF KeepsSelf
<1>4. CASE StoreCopy(p)
  BY <1>1, <1>4, StoreCopyEffect DEF StoreCopy, At, Shaped
<1>5. ASSUME NEW u \in Urls,
             UseCopy(p, u) \/ Download(p, u) \/ DownloadFails(p, u) \/ FetchItself(p, u)
      PROVE  y.start = x.start
  BY <1>1, <1>5, UseCopyEffect, DownloadEffect, DownloadFailsEffect, FetchItselfEffect DEF KeepsSelf
<1>6. CASE Lookup(p) \/ RemoveExpired(p)
  BY <1>1, <1>6, LookupEffect, RemoveExpiredEffect DEF KeepsSelf, Runs
<1>7. CASE Hit(p)
  BY <1>1, <1>7, HitEffect DEF Hit, At, Shaped, KeepsSelf
<1>8. ASSUME NEW i \in Inputs, Verify(p, i) PROVE y.start = x.start
  BY <1>1, <1>8, VerifyEffect DEF KeepsSelf, Runs
<1>9. ASSUME NEW i \in Inputs, Read(p, i) PROVE y.start = x.start
  <2>1. Disk(i) \in Vers
    BY <1>1, <1>9, DiskTyped DEF Read, Shaped
  <2>2. QED
    BY <1>1, <1>9, <2>1, ReadEffect DEF KeepsSelf
<1>10. QED
  BY <1>2, <1>3, <1>4, <1>5, <1>6, <1>7, <1>8, <1>9 DEF Step

LEMMA StampsNext == TypeInv /\ Stamps /\ [Next]_vars => Stamps'
<1> SUFFICES ASSUME TypeInv, Stamps, [Next]_vars PROVE Stamps'
  OBVIOUS
<1>1. /\ TypeOK /\ now \in Nat
      /\ \A v \in Vers : entries[v] # None => entries[v] \in Entry
      /\ \A u \in Urls : remote[u] # None => remote[u] \in Remote
      /\ \A e \in Entry : e.at \in Nat
      /\ \A r \in Remote : r.at \in Nat
      /\ \A q \in Procs : build[q].start \in Nat
  BY Bounds, BuildTyped DEF TypeInv, TypeOK, Entry, Remote
<1>2. CASE UNCHANGED vars
  BY <1>2 DEF vars, world, caches, Stamps
<1>3. CASE Tick \/ \E u \in Urls : Release(u)
  <2>1. UNCHANGED <<remote, entries, build>> /\ (now' = now \/ now' = now + 1)
    BY <1>3 DEF Tick, Release, caches
  <2>2. QED
    BY <1>1, <2>1 DEF Stamps
<1>4. ASSUME NEW f \in Locals, NEW v \in Vers, Edit(f, v) PROVE Stamps'
  <2>1. UNCHANGED <<remote, entries, now>>
    BY <1>4 DEF Edit, caches
  <2>2. \A q \in Procs : build'[q].start = build[q].start
    BY <1>1, <1>4, EditEffect DEF SameButHistory
  <2>3. QED
    BY <2>1, <2>2 DEF Stamps
<1>5. ASSUME NEW p \in Procs, Step(p) PROVE Stamps'
  <2>1. now' = now
    BY <1>5, CacheStep DEF world
  <2>2. \A v \in Vers : entries'[v] # None => entries'[v].at <= now
    <3>1. CASE RemoveExpired(p)
      BY <1>1, <3>1 DEF RemoveExpired, TypeOK, Stamps
    <3>2. CASE Store(p)
      <4>1. New(p).at <= now
        BY <1>1 DEF New
      <4>2. \A v \in Vers : entries'[v] \in {entries[v], New(p), None}
        BY <3>2, StoreEntries
      <4>3. QED
        BY <4>1, <4>2 DEF Stamps
    <3>3. QED
      BY <1>5, <3>1, <3>2, CacheStep DEF Stamps
  <2>3. \A u \in Urls : remote'[u] # None => remote'[u].at <= now
    <3>1. CASE StoreCopy(p)
      BY <1>1, <3>1 DEF StoreCopy, TypeOK, Stamps
    <3>2. QED
      BY <1>5, <3>1, CacheStep DEF Stamps
  <2>4. \A q \in Procs : build'[q].start <= now
    <3>1. \A q \in Procs : q # p => build'[q].start = build[q].start
      BY <1>5, Others DEF SameButHistory
    <3>2. QED
      BY <1>1, <1>5, <3>1, StartKept DEF Stamps
  <2>5. QED
    BY <2>1, <2>2, <2>3, <2>4 DEF Stamps
<1>6. QED
  BY <1>2, <1>3, <1>4, <1>5 DEF Next

-----------------------------------------------------------------------------
(* What is served.                                                         *)
LEMMA SnapshotCovers ==
  ASSUME TypeOK, NEW p \in Procs, Recorded(build[p]), build[p].todo = {}
  PROVE  Covered(New(p).reads, New(p).got)
<1> DEFINE x == build[p]
<1>1. New(p).reads = Snapshot(x.reads) /\ New(p).got = x.got /\ x.reads \subseteq Snapshot(x.reads)
  BY DEF New, Snapshot
<1>2. ASSUME NEW r \in Snapshot(x.reads), r[1] \notin Listings
      PROVE  <<r[1], x.got[r[1]]>> \in x.reads
  <2>1. CASE r \in x.reads
    BY <1>2, <2>1 DEF Recorded, Covered
  <2>2. CASE r \notin x.reads
    <3>1. r[1] = Kust
      BY <1>2, <2>2 DEF Snapshot
    <3>2. QED
      BY <3>1, Bounds DEF Recorded
  <2>3. QED
    BY <2>1, <2>2
<1>3. QED
  BY <1>1, <1>2 DEF Covered

LEMMA EntriesCovered ==
  ASSUME TypeInv, ServeInv, NEW p \in Procs, Step(p)
  PROVE  \A v \in Vers : entries'[v] # None => Covered(entries'[v].reads, entries'[v].got)
<1>1. CASE RemoveExpired(p)
  BY <1>1 DEF RemoveExpired, TypeInv, TypeOK, ServeInv
<1>2. CASE Store(p)
  <2>1. Recorded(build[p]) /\ build[p].todo = {} /\ TypeOK
    BY <1>2 DEF Store, At, ServeInv, Sound, TypeInv
  <2>2. Covered(New(p).reads, New(p).got)
    BY <2>1, SnapshotCovers
  <2>3. QED
    BY <1>2, <2>2, StoreEntries DEF ServeInv
<1>3. QED
  BY <1>1, <1>2, CacheStep DEF ServeInv

(* A build of which only the history grows stays sound, as long as the     *)
(* history keeps up with the disk.                                         *)
LEMMA KeepsSound ==
  ASSUME NEW q \in Procs, SameButHistory(build[q], build'[q]), Sound(build[q]),
         build[q].pc = "verify" => OnDisk' \subseteq build'[q].during
  PROVE  Sound(build[q])'
<1> DEFINE x == build[q]  y == build'[q]
<1>1. (x.pc = "run" => Recorded(x)) => (y.pc = "run" => Recorded(y))
  BY DEF SameButHistory, Recorded
<1>2. Blank(x) => Blank(y)
  BY DEF SameButHistory, Blank
<1>3. Verifying(build[q])'
  BY DEF SameButHistory, Sound, Verifying
<1>4. QED
  BY <1>1, <1>2, <1>3 DEF Sound, Recorded, Covered, Blank

(* kustomize starts with nothing read ...                                  *)
LEMMA RunsSound ==
  ASSUME NEW p \in Procs, build[p].reads = {}, Runs(build[p], build'[p])
  PROVE  Sound(build[p])'
<1> DEFINE y == build'[p]
<1>1. y.pc = "run" /\ y.todo = Inputs /\ y.reads = {}
  BY DEF Runs, KeepsRun
<1>2. Recorded(y)
  BY <1>1, Bounds DEF Recorded, Covered
<1>3. QED
  BY <1>1, <1>2 DEF Sound, Verifying, Blank, Recorded, Covered

(* ... and keeps track of what it reads, once each.                        *)
LEMMA ReadsSound ==
  ASSUME NEW x \in Build, Recorded(x), NEW y \in Build, NEW i \in x.todo, NEW v \in Vers,
         y.todo = x.todo \ {i}, y.got = [x.got EXCEPT ![i] = v],
         \/ i \notin Listings /\ y.reads = x.reads \cup {<<i, v>>}
         \/ i \in Listings \cup Urls /\ y.reads = x.reads
  PROVE  Recorded(y)
<1>1. /\ x.got \in [Inputs -> Vers \cup {None}] /\ i \in Inputs
      /\ x.reads \in SUBSET (Inputs \X Vers)
  BY BuildTyped
<1>2. y.got[i] = v /\ \A j \in Inputs : j # i => y.got[j] = x.got[j]
  BY <1>1
<1>3. Covered(y.reads, y.got)
  <2> SUFFICES ASSUME NEW r \in y.reads, r[1] \notin Listings
               PROVE  <<r[1], y.got[r[1]]>> \in y.reads
    BY DEF Covered
  <2>1. CASE r \in x.reads
    <3>1. r[1] # i /\ r[1] \in Inputs /\ <<r[1], x.got[r[1]]>> \in x.reads
      BY <1>1, <2>1 DEF Recorded, Covered
    <3>2. QED
      BY <1>2, <3>1
  <2>2. CASE r \notin x.reads
    BY <1>2, <2>2
  <2>3. QED
    BY <2>1, <2>2
<1>4. \A r \in y.reads : r[1] \notin y.todo
  BY <1>1 DEF Recorded
<1>5. ASSUME NEW j \in (Locals \ Listings) \ y.todo PROVE <<j, y.got[j]>> \in y.reads
  <2>1. CASE j = i
    BY <1>2, <1>5, <2>1, Bounds
  <2>2. CASE j # i
    BY <1>2, <1>5, <2>2, Bounds DEF Recorded
  <2>3. QED
    BY <2>1, <2>2
<1>6. QED
  BY <1>3, <1>4, <1>5 DEF Recorded

(* A file that matches has the recorded content, on disk.                  *)
LEMMA MatchedOnDisk ==
  ASSUME TypeOK, NEW e \in Entry, NEW i \in Inputs, Matches(e, i), NEW r \in e.reads, r[1] = i
  PROVE  r \in OnDisk
<1>1. e.reads \in SUBSET (Inputs \X Vers)
  BY DEF Entry
<1>2. r[2] = Disk(i) /\ r[2] \in Vers /\ r = <<r[1], r[2]>>
  BY <1>1 DEF Matches
<1>3. CASE i \in Locals \cup Copied
  BY <1>2, <1>3, DiskTyped
<1>4. CASE i \notin Locals \cup Copied
  <2>1. Disk(i) = None
    BY <1>4, Bounds DEF Disk, Copied
  <2>2. QED
    BY <1>2, <2>1, Bounds
<1>5. QED
  BY <1>3, <1>4

(* A verification starts with an entry within its TTL, what it covers, and *)
(* what is on disk now.                                                    *)
LEMMA LookupSound ==
  ASSUME TypeInv, ServeInv, NEW p \in Procs, Lookup(p)
  PROVE  Sound(build[p])'
<1> DEFINE x == build[p]  y == build'[p]  e == entries[content[Kust]]
<1>1. TypeOK /\ Sound(x) /\ x.pc = "lookup" /\ x.reads = {} /\ x.start \in Nat /\ now \in Nat
  BY Bounds, BuildTyped DEF TypeInv, TypeOK, ServeInv, Lookup, At, Sound, Blank
<1>2. CASE Runs(x, y)
  BY <1>1, <1>2, RunsSound
<1>3. CASE y.pc = "expired" /\ KeepsRun(x, y)
  BY <1>1, <1>3 DEF Sound, Verifying, Blank, KeepsRun
<1>4. CASE /\ y.pc = "verify" /\ e \in Entry /\ ~Expired(e)
           /\ y.entry = e /\ y.during = OnDisk /\ y.todo = {r[1] : r \in e.reads}
           /\ KeepsRun(x, y) /\ KeepsSelf(x, y)
  <2>1. content[Kust] \in Vers /\ e # None
    BY <1>1, <1>4, Bounds DEF TypeOK
  <2>2. Covered(e.reads, e.got) /\ e.at <= now /\ x.start <= now
    BY <2>1 DEF ServeInv, Stamps
  <2>3. e.at \in Nat /\ now - e.at <= BuildTTL
    BY <1>1, <1>4, Bounds DEF Entry, Expired
  <2>4. y.start <= e.at + BuildTTL
    BY <1>1, <1>4, <2>2, <2>3, Bounds DEF KeepsSelf
  <2>5. UNCHANGED <<content, remote>>
    BY DEF Lookup, world, caches
  <2>6. OnDisk' \subseteq y.during
    BY <1>4, <2>5 DEF OnDisk, Copied
  <2>7. \A r \in y.entry.reads : r[1] \in y.todo
    BY <1>4
  <2>8. Verifying(build[p])'
    BY <1>4, <2>2, <2>4, <2>6, <2>7 DEF Verifying
  <2>9. y.reads = {}
    BY <1>1, <1>4 DEF KeepsRun
  <2>10. QED
    BY <1>4, <2>8, <2>9 DEF Sound, Blank
<1>5. QED
  BY <1>1, <1>2, <1>3, <1>4, LookupEffect

LEMMA VerifySound ==
  ASSUME TypeInv, ServeInv, NEW p \in Procs, NEW i \in Inputs, Verify(p, i)
  PROVE  Sound(build[p])'
<1> DEFINE x == build[p]  y == build'[p]
<1>1. TypeOK /\ Sound(x) /\ x.pc = "verify" /\ x.reads = {} /\ x.entry \in Entry
  BY DEF TypeInv, Shaped, ServeInv, Verify, At, Sound, Blank
<1>2. CASE Runs(x, y)
  BY <1>1, <1>2, RunsSound
<1>3. CASE /\ Matches(x.entry, i) /\ y.todo = x.todo \ {i} /\ y.pc = x.pc
           /\ KeepsRun(x, y) /\ KeepsEntry(x, y) /\ KeepsSelf(x, y)
  <2>1. /\ OnDisk \subseteq x.during /\ \A r \in x.entry.reads : r[1] \in x.todo \/ r \in x.during
        /\ Covered(x.entry.reads, x.entry.got) /\ x.start <= x.entry.at + BuildTTL
    BY <1>1 DEF Sound, Verifying
  <2>2. UNCHANGED <<content, remote>>
    BY DEF Verify, world, caches
  <2>3. OnDisk' \subseteq y.during
    BY <1>3, <2>1, <2>2 DEF OnDisk, Copied, KeepsEntry
  <2>4. ASSUME NEW r \in x.entry.reads PROVE r[1] \in y.todo \/ r \in x.during
    BY <1>1, <1>3, <2>1, MatchedOnDisk
  <2>5. y.entry = x.entry /\ y.during = x.during /\ y.start = x.start /\ y.reads = {}
        /\ y.pc = "verify"
    BY <1>1, <1>3 DEF KeepsEntry, KeepsSelf, KeepsRun
  <2>6. Verifying(build[p])'
    BY <2>1, <2>3, <2>4, <2>5 DEF Verifying
  <2>7. QED
    BY <2>5, <2>6 DEF Sound, Blank
<1>4. QED
  BY <1>1, <1>2, <1>3, VerifyEffect

LEMMA HitSound ==
  ASSUME TypeInv, ServeInv, NEW p \in Procs, Hit(p)
  PROVE  Sound(build[p])'
<1> DEFINE x == build[p]  y == build'[p]
<1>1. TypeOK /\ Sound(x) /\ x.pc = "verify" /\ x.entry \in Entry /\ x.todo = {}
  BY DEF TypeInv, Shaped, ServeInv, Hit, At
<1>2. /\ \A r \in x.entry.reads : r \in x.during
      /\ Covered(x.entry.reads, x.entry.got) /\ x.start <= x.entry.at + BuildTTL
  BY <1>1 DEF Sound, Verifying
<1>3. /\ y.pc = "hit" /\ y.got = x.entry.got /\ y.reads = x.entry.reads
      /\ y.entry = x.entry /\ y.during = x.during /\ y.start = x.start
  BY <1>1, HitEffect DEF KeepsEntry, KeepsSelf
<1>4. Verifying(build[p])'
  BY <1>2, <1>3 DEF Verifying
<1>5. QED
  BY <1>3, <1>4 DEF Sound, Blank

LEMMA RunSound ==
  ASSUME TypeInv, TypeInv', ServeInv, NEW p \in Procs, NEW i \in Inputs,
         Read(p, i) \/ (i \in Urls /\ FetchItself(p, i))
  PROVE  Sound(build[p])'
<1> DEFINE x == build[p]  y == build'[p]
<1>1. TypeOK /\ Shaped(x) /\ x \in Build /\ y \in Build /\ x.pc = "run" /\ Recorded(x)
      /\ i \in x.todo
  BY DEF TypeInv, TypeOK, ServeInv, Sound, Read, FetchItself, At
<1>2. Recorded(y) => Sound(build[p])' \/ y.pc # "run"
  BY DEF Sound, Verifying, Blank, Recorded, Covered
<1>3. CASE Read(p, i)
  <2>1. Disk(i) \in Vers
    BY <1>1, <1>3, DiskTyped DEF Read, Shaped
  <2>2. /\ y.todo = x.todo \ {i} /\ y.got = [x.got EXCEPT ![i] = Disk(i)] /\ y.pc = x.pc
        /\ y.reads = IF i \in Listings THEN x.reads ELSE x.reads \cup {<<i, Disk(i)>>}
    BY <1>1, <1>3, <2>1, ReadEffect
  <2>3. Recorded(y)
    BY <1>1, <2>1, <2>2, ReadsSound
  <2>4. QED
    BY <1>1, <1>2, <2>2, <2>3
<1>4. CASE i \in Urls /\ FetchItself(p, i)
  <2>1. upstream[i] \in Vers
    BY <1>1, <1>4 DEF TypeOK
  <2>2. /\ y.todo = x.todo \ {i} /\ y.got = [x.got EXCEPT ![i] = upstream[i]] /\ y.pc = x.pc
        /\ y.reads = x.reads
    BY <1>1, <1>4, FetchItselfEffect
  <2>3. Recorded(y)
    BY <1>1, <1>4, <2>1, <2>2, ReadsSound
  <2>4. QED
    BY <1>1, <1>2, <2>2, <2>3
<1>5. QED
  BY <1>3, <1>4

(* The other stages verify nothing.                                        *)
LEMMA ElseSound ==
  ASSUME NEW p \in Procs,
         \/ build'[p].pc \in {"idle", "built"}
         \/ build'[p].pc \in {"prepare", "fetched", "lookup", "expired"} /\ build'[p].reads = {}
  PROVE  Sound(build[p])'
BY DEF Sound, Verifying, Blank

LEMMA OthersSound ==
  ASSUME TypeInv, ServeInv, NEW p \in Procs, Step(p), NEW q \in Procs, q # p
  PROVE  Sound(build[q])'
<1> DEFINE x == build[q]  y == build'[q]
<1>1. TypeOK /\ Sound(x) /\ SameButHistory(x, y) /\ content' = content
  BY Others, CacheStep DEF TypeInv, ServeInv, world
<1>2. x.pc = "verify" => OnDisk \subseteq y.during
  BY <1>1 DEF Sound, Verifying, SameButHistory
<1>3. x.pc = "verify" => OnDisk' \subseteq y.during
  <2>1. CASE remote' = remote
    BY <1>1, <1>2, <2>1 DEF OnDisk, Copied
  <2>2. CASE StoreCopy(p)
    <3> DEFINE u == build[p].url  v == build[p].body
               copy == [ver |-> v, at |-> now]
    <3>1. u \in Urls /\ v \in Vers
      BY <2>2 DEF TypeInv, Shaped, StoreCopy, At
    <3>2. x.pc = "verify" => <<u, v>> \in y.during
      BY <1>1, <2>2, <3>1, StoreCopyEffect
    <3>3. remote' = [remote EXCEPT ![u] = copy] /\ copy.ver = v
      BY <2>2 DEF StoreCopy
    <3> HIDE DEF copy
    <3>4. remote'[u].ver = v /\ \A w \in Urls : w # u => remote'[w] = remote[w]
      BY <1>1, <3>1, <3>3 DEF TypeOK
    <3>5. OnDisk' \subseteq OnDisk \cup {<<u, v>>}
      BY <1>1, <3>4 DEF OnDisk, Copied
    <3>6. QED
      BY <1>2, <3>2, <3>5
  <2>3. QED
    BY <2>1, <2>2, CacheStep
<1>4. QED
  BY <1>1, <1>3, KeepsSound

LEMMA StepSound ==
  ASSUME TypeInv, TypeInv', ServeInv, NEW p \in Procs, Step(p)
  PROVE  Sound(build[p])'
<1> DEFINE x == build[p]  y == build'[p]
<1>1. TypeOK /\ Shaped(x) /\ Sound(x)
  BY DEF TypeInv, ServeInv
<1>2. CASE Start(p) \/ RunFails(p) \/ Exit(p)
  BY <1>1, <1>2, StartEffect, EndEffect, ElseSound DEF Idle
<1>3. CASE Store(p) \/ BuildAgain(p)
  BY <1>1, <1>3, StoreEffect, BuildAgainEffect, ElseSound
<1>4. CASE Prepared(p)
  <2>1. x.reads = {}
    BY <1>1, <1>4 DEF Prepared, At, Sound, Blank
  <2>2. QED
    BY <1>1, <1>4, <2>1, PreparedEffect, ElseSound DEF KeepsRun
<1>5. CASE StoreCopy(p)
  <2>1. x.reads = {} /\ x.url \in Urls /\ x.body \in Vers
    BY <1>1, <1>5 DEF StoreCopy, At, Sound, Blank, Shaped
  <2>2. y.pc = "prepare" /\ y.reads = x.reads
    BY <1>1, <1>5, <2>1, StoreCopyEffect
  <2>3. QED
    BY <2>1, <2>2, ElseSound
<1>6. ASSUME NEW u \in Urls, UseCopy(p, u) \/ Download(p, u) \/ DownloadFails(p, u)
      PROVE  Sound(build[p])'
  <2>1. x.pc = "prepare" /\ x.reads = {}
    BY <1>1, <1>6 DEF UseCopy, Download, DownloadFails, At, Sound, Blank
  <2>2. y.pc \in {"prepare", "fetched"} /\ y.reads = x.reads
    BY <1>1, <1>6, <2>1, UseCopyEffect, DownloadEffect, DownloadFailsEffect DEF KeepsRun
  <2>3. QED
    BY <2>1, <2>2, ElseSound
<1>7. CASE RemoveExpired(p)
  <2>1. x.reads = {}
    BY <1>1, <1>7 DEF RemoveExpired, At, Sound, Blank
  <2>2. QED
    BY <1>1, <1>7, <2>1, RemoveExpiredEffect, RunsSound
<1>8. CASE Lookup(p) \/ Hit(p)
  BY <1>8, LookupSound, HitSound
<1>9. ASSUME NEW i \in Inputs, Verify(p, i) \/ Read(p, i) PROVE Sound(build[p])'
  BY <1>9, VerifySound, RunSound
<1>10. ASSUME NEW u \in Urls, FetchItself(p, u) PROVE Sound(build[p])'
  BY <1>10, RunSound, Bounds
<1>11. QED
  BY <1>2, <1>3, <1>4, <1>5, <1>6, <1>7, <1>8, <1>9, <1>10 DEF Step

LEMMA ServeNext == TypeInv /\ TypeInv' /\ ServeInv /\ [Next]_vars => ServeInv'
<1> SUFFICES ASSUME TypeInv, TypeInv', ServeInv, [Next]_vars PROVE ServeInv'
  OBVIOUS
<1>1. TypeOK /\ Stamps' /\ \A q \in Procs : Sound(build[q])
  BY StampsNext DEF TypeInv, ServeInv
<1>2. CASE UNCHANGED <<content, remote, entries, build>>
  <2>1. OnDisk' = OnDisk
    BY <1>2 DEF OnDisk, Copied
  <2>2. \A q \in Procs : SameButHistory(build[q], build'[q])
    BY <1>2 DEF SameButHistory
  <2>3. \A q \in Procs : build[q].pc = "verify" => OnDisk' \subseteq build'[q].during
    BY <1>1, <1>2, <2>1 DEF Sound, Verifying
  <2>4. \A q \in Procs : Sound(build[q])'
    BY <1>1, <2>2, <2>3, KeepsSound
  <2>5. QED
    BY <1>1, <1>2, <2>4 DEF ServeInv
<1>3. ASSUME NEW f \in Locals, NEW v \in Vers, Edit(f, v) PROVE ServeInv'
  <2>1. /\ UNCHANGED <<remote, entries>> /\ content' = [content EXCEPT ![f] = v]
        /\ content \in [Locals -> Vers]
    BY <1>1, <1>3 DEF Edit, caches, TypeOK
  <2>2. OnDisk' \subseteq OnDisk \cup {<<f, v>>}
    BY <2>1 DEF OnDisk, Copied
  <2>3. \A q \in Procs : /\ SameButHistory(build[q], build'[q])
                         /\ build[q].pc = "verify" => <<f, v>> \in build'[q].during
    BY <1>1, <1>3, EditEffect
  <2>4. \A q \in Procs : build[q].pc = "verify" => OnDisk' \subseteq build'[q].during
    BY <1>1, <2>2, <2>3 DEF Sound, Verifying, SameButHistory
  <2>5. \A q \in Procs : Sound(build[q])'
    BY <1>1, <2>3, <2>4, KeepsSound
  <2>6. QED
    BY <1>1, <2>1, <2>5 DEF ServeInv
<1>4. ASSUME NEW p \in Procs, Step(p) PROVE ServeInv'
  <2>1. \A q \in Procs : Sound(build[q])'
    BY <1>4, OthersSound, StepSound
  <2>2. \A v \in Vers : entries'[v] # None => Covered(entries'[v].reads, entries'[v].got)
    BY <1>4, EntriesCovered
  <2>3. QED
    BY <1>1, <2>1, <2>2 DEF ServeInv
<1>5. Tick \/ (\E u \in Urls : Release(u)) \/ UNCHANGED vars =>
        UNCHANGED <<content, remote, entries, build>>
  BY DEF Tick, Release, vars, world, caches
<1>6. QED
  BY <1>2, <1>3, <1>4, <1>5 DEF Next

(* A build that the cache answers is one the disk would give: every input  *)
(* the manifest names, and all that kustomize had read of a recorded file, *)
(* was on disk during the verification, and the entry is within the TTL    *)
(* (buildCache.lookup, verifyBuildInputs, buildCache.store).               *)
THEOREM HitsAreVerified == Spec => []ServedIsCurrent
<1>1. Init => ServeInv
  BY Bounds DEF Init, Idle, Stamps, ServeInv, Sound, Verifying, Blank
<1>2. TypeInv /\ ServeInv => ServedIsCurrent
  <2> SUFFICES ASSUME TypeInv, ServeInv, NEW p \in Procs, build[p].pc = "hit"
               PROVE  /\ build[p].reads \subseteq build[p].during
                      /\ \A r \in build[p].reads : r[1] \notin Listings =>
                            <<r[1], build[p].got[r[1]]>> \in build[p].during
                      /\ build[p].start <= build[p].entry.at + BuildTTL
    BY DEF ServedIsCurrent, At
  <2>1. Verifying(build[p])
    BY DEF ServeInv, Sound
  <2>2. QED
    BY <2>1 DEF Verifying, Covered
<1>3. QED
  BY <1>1, <1>2, TypeInit, TypeNext, ServeNext, PTL DEF Spec

-----------------------------------------------------------------------------
(* The remote resource cache.                                              *)
Survives(b) == b.failed \cap b.had \subseteq b.resolved

(* The stages that follow the scan have forgotten its failures, or keep    *)
(* what it resolved.                                                       *)
LEMMA ScanOver ==
  ASSUME NEW q \in Procs,
         LET x == build[q]  y == build'[q] IN
         /\ Survives(x)
         /\ y.pc \notin {"prepare", "fetched"}
         /\ \/ y.failed = {}
            \/ y.failed = x.failed /\ y.had = x.had /\ y.resolved = x.resolved
  PROVE  Survives(build'[q]) /\ Young(build[q])'
BY DEF Survives, Young

(* A copy is replaced by a younger one.                                    *)
LEMMA CopiesRejuvenate ==
  ASSUME TypeInv, Stamps, NEW p \in Procs, Step(p), NEW u \in Copied
  PROVE  /\ remote[u].at \in Nat /\ remote'[u].at \in Nat
         /\ remote[u].at <= remote'[u].at
<1>1. TypeOK /\ u \in Urls /\ remote[u] \in Remote /\ now \in Nat /\ remote[u].at <= now
  BY Bounds DEF TypeInv, TypeOK, Copied, Stamps
<1>2. remote[u].at \in Nat
  BY <1>1, Bounds DEF Remote
<1>3. remote'[u] = remote[u] \/ remote'[u].at = now
  <2>1. CASE remote' = remote
    BY <2>1
  <2>2. CASE StoreCopy(p)
    BY <1>1, <2>2 DEF StoreCopy, TypeOK
  <2>3. QED
    BY <2>1, <2>2, CacheStep
<1>4. QED
  BY <1>1, <1>2, <1>3

(* So what was young stays young, whoever replaces it.                     *)
LEMMA KeepsYoung ==
  ASSUME TypeInv, RemoteInv, NEW p \in Procs, Step(p), NEW q \in Procs,
         NEW u \in build[q].resolved,
         \/ remote[u].at + RemoteTTL > build[q].start
         \/ build[q].fresh[u] # None
  PROVE  \/ remote'[u].at + RemoteTTL > build[q].start
         \/ build[q].fresh[u] # None
<1>1. u \in Copied /\ build[q].start \in Nat
  BY BuildTyped, Bounds DEF TypeInv, TypeOK, Shaped
<1>2. QED
  BY <1>1, CopiesRejuvenate, Bounds DEF RemoteInv

LEMMA OthersRemote ==
  ASSUME TypeInv, RemoteInv, NEW p \in Procs, Step(p), NEW q \in Procs, q # p
  PROVE  Survives(build'[q]) /\ Young(build[q])'
<1> DEFINE x == build[q]  y == build'[q]
<1>1. SameButHistory(x, y) /\ Survives(x) /\ Young(x)
  BY Others DEF RemoteInv, CopySurvivesFailure, Survives
<1>2. Survives(y)
  BY <1>1 DEF SameButHistory, Survives
<1>3. Young(build[q])'
  <2> SUFFICES ASSUME y.pc \in {"prepare", "fetched"},
                      NEW u \in (y.resolved \ y.failed) \ Pinned
               PROVE  remote'[u].at + RemoteTTL > y.start \/ y.fresh[u] # None
    BY DEF Young
  <2>1. u \in x.resolved /\ (remote[u].at + RemoteTTL > x.start \/ x.fresh[u] # None)
    BY <1>1 DEF SameButHistory, Young
  <2>2. QED
    BY <1>1, <2>1, KeepsYoung DEF SameButHistory
<1>4. QED
  BY <1>2, <1>3

LEMMA StepRemote ==
  ASSUME TypeInv, TypeInv', RemoteInv, NEW p \in Procs, Step(p)
  PROVE  Survives(build'[p]) /\ Young(build[p])'
<1> DEFINE x == build[p]  y == build'[p]
<1>1. /\ TypeOK /\ Shaped(x) /\ Survives(x) /\ Young(x) /\ x \in Build
      /\ x.start \in Nat /\ now \in Nat /\ x.start <= now
  BY BuildTyped, Bounds DEF TypeInv, TypeOK, RemoteInv, CopySurvivesFailure, Survives, Stamps
<1>2. CASE Start(p)
  BY <1>1, <1>2, StartEffect DEF Survives, Young
<1>3. CASE RunFails(p) \/ Exit(p)
  BY <1>1, <1>3, EndEffect DEF Idle, Survives, Young
<1>4. CASE Prepared(p)
  BY <1>1, <1>4, PreparedEffect, ScanOver
<1>5. CASE Store(p) \/ BuildAgain(p)
  BY <1>1, <1>5, StoreEffect, BuildAgainEffect, ScanOver DEF KeepsScan
<1>6. CASE Lookup(p) \/ RemoveExpired(p)
  BY <1>1, <1>6, LookupEffect, RemoveExpiredEffect, ScanOver DEF KeepsScan, Runs
<1>7. CASE Hit(p)
  <2>1. x.entry \in Entry
    BY <1>1, <1>7 DEF Hit, At, Shaped
  <2>2. y.pc = "hit" /\ KeepsScan(x, y)
    BY <1>1, <1>7, <2>1, HitEffect
  <2>3. QED
    BY <1>1, <2>2, ScanOver DEF KeepsScan
<1>8. ASSUME NEW i \in Inputs, Verify(p, i) PROVE Survives(y) /\ Young(build[p])'
  <2>1. \/ Runs(x, y)
        \/ x.pc = "verify" /\ y.pc = x.pc /\ KeepsScan(x, y)
    BY <1>1, <1>8, VerifyEffect DEF Verify, At
  <2>2. QED
    BY <1>1, <2>1, ScanOver DEF KeepsScan, Runs
<1>9. ASSUME NEW i \in Inputs, Read(p, i) \/ (i \in Urls /\ FetchItself(p, i))
      PROVE  Survives(y) /\ Young(build[p])'
  <2>1. Read(p, i) => Disk(i) \in Vers
    BY <1>1, DiskTyped DEF Read, Shaped
  <2>2. x.pc = "run" /\ y.pc = x.pc /\ KeepsScan(x, y)
    BY <1>1, <1>9, <2>1, ReadEffect, FetchItselfEffect DEF Read, FetchItself, At
  <2>3. QED
    BY <1>1, <2>2, ScanOver DEF KeepsScan
<1>10. ASSUME NEW u \in Urls, Download(p, u) PROVE Survives(y) /\ Young(build[p])'
  <2>1. x.pc = "prepare" /\ UNCHANGED remote
    BY <1>10 DEF Download, At, caches
  <2>2. KeepsScan(x, y) /\ KeepsSelf(x, y)
    BY <1>1, <1>10, DownloadEffect
  <2>3. QED
    BY <1>1, <2>1, <2>2 DEF KeepsScan, KeepsSelf, Survives, Young
<1>11. ASSUME NEW u \in Urls, UseCopy(p, u) PROVE Survives(y) /\ Young(build[p])'
  <2>1. x.pc = "prepare" /\ UNCHANGED remote /\ remote[u] \in Remote
        /\ (u \in Pinned \/ now < remote[u].at + RemoteTTL)
    BY <1>1, <1>11 DEF UseCopy, Usable, At, caches, TypeOK
  <2>2. /\ y.resolved = x.resolved \cup {u} /\ y.had = x.had /\ y.failed = x.failed
        /\ y.fresh = x.fresh /\ y.start = x.start
    BY <1>1, <1>11, UseCopyEffect DEF KeepsSelf
  <2>3. u \in Pinned \/ remote[u].at + RemoteTTL > x.start
    <3>1. remote[u].at \in Nat
      BY <2>1, Bounds DEF Remote
    <3>2. QED
      BY <1>1, <2>1, <3>1, Bounds
  <2>4. QED
    BY <1>1, <2>1, <2>2, <2>3 DEF Survives, Young
<1>12. ASSUME NEW u \in Urls, DownloadFails(p, u) PROVE Survives(y) /\ Young(build[p])'
  <2>1. x.pc = "prepare" /\ UNCHANGED remote
    BY <1>12 DEF DownloadFails, At, caches
  <2>2. /\ y.failed = x.failed \cup {u} /\ y.had = x.had /\ y.fresh = x.fresh /\ y.start = x.start
        /\ y.resolved = IF remote[u] # None THEN x.resolved \cup {u} ELSE x.resolved
    BY <1>1, <1>12, DownloadFailsEffect DEF KeepsSelf
  <2>3. u \in x.had => remote[u] # None
    BY <1>1 DEF Shaped, Copied
  <2>4. QED
    BY <1>1, <2>1, <2>2, <2>3 DEF Survives, Young
<1>13. CASE StoreCopy(p)
  <2> DEFINE u == x.url  v == x.body
  <2>1. u \in Urls /\ v \in Vers /\ v # None /\ x.pc = "fetched"
    BY <1>1, <1>13, Bounds DEF StoreCopy, At, Shaped
  <2>2. /\ y.resolved = x.resolved \cup {u} /\ y.had = x.had /\ y.failed = x.failed
        /\ y.fresh = [x.fresh EXCEPT ![u] = v] /\ y.start = x.start
    BY <1>1, <1>13, <2>1, StoreCopyEffect
  <2>3. y.fresh[u] = v /\ \A w \in Urls : w # u => y.fresh[w] = x.fresh[w]
    BY <1>1, <2>1, <2>2, BuildTyped
  <2>4. ASSUME NEW w \in (y.resolved \ y.failed) \ Pinned
        PROVE  remote'[w].at + RemoteTTL > y.start \/ y.fresh[w] # None
    <3>1. CASE w = u
      BY <2>1, <2>3, <3>1
    <3>2. CASE w # u
      <4>1. w \in (x.resolved \ x.failed) \ Pinned /\ w \in Urls
        BY <1>1, <2>2, <3>2, BuildTyped
      <4>2. remote[w].at + RemoteTTL > x.start \/ x.fresh[w] # None
        BY <1>1, <2>1, <4>1 DEF Young
      <4>3. remote'[w].at + RemoteTTL > x.start \/ x.fresh[w] # None
        BY <1>13, <4>1, <4>2, KeepsYoung
      <4>4. QED
        BY <2>2, <2>3, <3>2, <4>1, <4>3
    <3>3. QED
      BY <3>1, <3>2
  <2>5. Young(build[p])'
    BY <2>4 DEF Young
  <2>6. QED
    BY <1>1, <2>2, <2>5 DEF Survives
<1>14. QED
  BY <1>2, <1>3, <1>4, <1>5, <1>6, <1>7, <1>8, <1>9, <1>10, <1>11, <1>12, <1>13, Bounds DEF Step

LEMMA RemoteNext == TypeInv /\ TypeInv' /\ RemoteInv /\ [Next]_vars => RemoteInv'
<1> SUFFICES ASSUME TypeInv, TypeInv', RemoteInv, [Next]_vars PROVE RemoteInv'
  OBVIOUS
<1>1. TypeOK /\ Stamps' /\ \A q \in Procs : Survives(build[q]) /\ Young(build[q])
  BY StampsNext DEF TypeInv, RemoteInv, CopySurvivesFailure, Survives
<1>2. ASSUME \A q \in Procs : Survives(build'[q]) /\ Young(build[q])' PROVE RemoteInv'
  BY <1>1, <1>2 DEF RemoteInv, CopySurvivesFailure, Survives
<1>3. CASE UNCHANGED <<remote, build>>
  BY <1>1, <1>2, <1>3 DEF Young
<1>4. ASSUME NEW f \in Locals, NEW v \in Vers, Edit(f, v) PROVE RemoteInv'
  <2>1. UNCHANGED remote /\ \A q \in Procs : SameButHistory(build[q], build'[q])
    BY <1>1, <1>4, EditEffect DEF Edit, caches
  <2>2. \A q \in Procs : Survives(build'[q])
    BY <1>1, <2>1 DEF SameButHistory, Survives
  <2>3. \A q \in Procs : Young(build[q])'
    BY <1>1, <2>1 DEF SameButHistory, Young
  <2>4. QED
    BY <1>2, <2>2, <2>3
<1>5. ASSUME NEW p \in Procs, Step(p) PROVE RemoteInv'
  BY <1>2, <1>5, OthersRemote, StepRemote
<1>6. Tick \/ (\E u \in Urls : Release(u)) \/ UNCHANGED vars => UNCHANGED <<remote, build>>
  BY DEF Tick, Release, vars, world, caches
<1>7. QED
  BY <1>3, <1>4, <1>5, <1>6 DEF Next

LEMMA RemoteInit == Init => RemoteInv
BY Bounds DEF Init, Idle, Stamps, RemoteInv, CopySurvivesFailure, Young

(* A resource whose refresh fails is built from the copy there was when    *)
(* the scan began: no other process takes it away, and a failure never     *)
(* forgets it (remoteCache.ensure).                                        *)
THEOREM CopiesSurviveFailure == Spec => []CopySurvivesFailure
<1>1. RemoteInv => CopySurvivesFailure
  BY DEF RemoteInv
<1>2. QED
  BY <1>1, RemoteInit, TypeInit, TypeNext, RemoteNext, PTL DEF Spec

(* A floating resource taken from the cache is younger than its TTL when   *)
(* the process starts, unless it was just downloaded: the age is read from *)
(* a file that other processes replace meanwhile (remoteCache.usable).     *)
THEOREM FloatingCopiesAreFresh == Spec => []FloatingIsFresh
<1>1. RemoteInv => FloatingIsFresh
  BY DEF RemoteInv, Young, FloatingIsFresh, At
<1>2. QED
  BY <1>1, RemoteInit, TypeInit, TypeNext, RemoteNext, PTL DEF Spec

-----------------------------------------------------------------------------
(* What is stored is whole: the manifest of every entry names, with what   *)
(* kustomize got of it, every recorded file but the listings - whatever    *)
(* was edited during the build, and whichever process swept, expired or    *)
(* overwrote it (recordingFS, buildCache.store).                           *)
THEOREM ManifestsCover ==
  Spec => [](\A v \in Vers : entries[v] # None => Covered(entries[v].reads, entries[v].got))
<1> DEFINE Whole == \A v \in Vers : entries[v] # None => Covered(entries[v].reads, entries[v].got)
<1>1. Init => ServeInv
  BY Bounds DEF Init, Idle, Stamps, ServeInv, Sound, Verifying, Blank
<1>2. ServeInv => Whole
  BY DEF ServeInv
<1>3. QED
  BY <1>1, <1>2, TypeInit, TypeNext, ServeNext, PTL DEF Spec

(* No step of any process or of the world loses the copy of a resource:    *)
(* it is replaced, never removed, so a build that finds one offline still  *)
(* finds one later (remoteCache.ensure).                                   *)
THEOREM CopiesAreKept == Spec => [][Copied \subseteq Copied']_remote
<1>1. TypeInv /\ [Next]_vars => [Copied \subseteq Copied']_remote
  <2> SUFFICES ASSUME TypeInv, Next, remote' # remote PROVE Copied \subseteq Copied'
    BY DEF vars, caches
  <2>1. PICK p \in Procs : Step(p)
    BY DEF Next, Edit, Release, Tick, caches
  <2>2. QED
    BY <2>1, CopiesStay
<1>2. QED
  BY <1>1, TypeInit, TypeNext, PTL DEF Spec
=============================================================================

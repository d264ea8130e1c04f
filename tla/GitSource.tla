------------------------------ MODULE GitSource ------------------------------
(***************************************************************************)
(* The on-disk cache of upstream clones (internal/gitsource), shared by    *)
(* the fluxview processes of a machine: resolution of a ref through its    *)
(* pointer file or an ls-remote, the clone into a temporary directory, its *)
(* publication by rename, the repair of a damaged directory, and the       *)
(* in-process deduplication of concurrent Ensure calls.  One repository    *)
(* URL.  The upstream only gains commits and tags.                         *)
(***************************************************************************)
EXTENDS Naturals

CONSTANTS
  Procs,       (* fluxview processes                                       *)
  Callers,     (* concurrent Ensure calls                                  *)
  ProcOf,      (* the process of a caller                                  *)
  MaxCommit,   (* bound: commits 1 .. MaxCommit, in the order of the pushes*)
  Tags,        (* release tags, in version order                           *)
  Wants,       (* the refs the manifests of a caller ask for               *)
  Damaged,     (* directories an interrupted copy left without a seed      *)
  MaxTime,     (* bound on the clock                                       *)
  MaxCalls,    (* bound on the number of calls                             *)
  TTLOf,       (* the TTL flag of a process                                *)
  Absent,      (* no such directory                                        *)
  NoPtr        (* no such pointer file                                     *)

Commits  == 1 .. MaxCommit
Keys     == ({"commit"} \X Commits) \cup ({"tag"} \X Tags)
Branch   == <<"branch", 0>>
Head     == <<"HEAD", 0>>
Semver   == <<"semver", 0>>
Floating == {Branch, Head, Semver}
Refs     == Floating \cup Keys   \* a key stands for the ref pinned to it

Torn == 0   \* what is left of a tree that is incomplete

(* seed: the directory has its .fluxview-source.json                       *)
Dir     == [seed : BOOLEAN, tree : Commits \cup {Torn}]
Pointer == [key : Keys, at : 0 .. MaxTime]

ASSUME ConstantsAssumption ==
  /\ ProcOf \in [Callers -> Procs]
  /\ MaxCommit \in Nat \ {0}
  /\ Tags \subseteq Nat \ {0}
  /\ Wants \in [Callers -> SUBSET Refs]
  /\ Damaged \subseteq Keys
  /\ MaxTime \in Nat
  /\ MaxCalls \in Nat
  /\ TTLOf \in [Procs -> Nat]
  /\ Absent \notin Dir
  /\ NoPtr \notin Pointer

VARIABLES
  tip,      (* upstream: the commit of the branch (and of HEAD)            *)
  tags,     (* upstream: the commit of each tag, 0 while there is none     *)
  now,      (* wall clock                                                  *)
  dirs,     (* <cacheDir>/data                                             *)
  ptrs,     (* <cacheDir>/refs                                             *)
  inflight, (* each process's Fetcher.inflight                             *)
  caller,   (* the Ensure call each caller is in                           *)
  calls     (* how many calls were made                                    *)

upstream == <<tip, tags, now>>
disk     == <<dirs, ptrs>>
vars     == <<upstream, disk, inflight, caller, calls>>

Stages == {"idle", "pointer", "resolve", "check", "sync", "wait", "woken",
           "clone", "publish", "occupied", "evict", "evicting", "republish",
           "remember", "reading"}

Leading == {"clone", "publish", "occupied", "evict", "evicting", "republish"}

(***************************************************************************)
(* want: the ref asked for; key: its resolved form; byName: a branch is    *)
(* cloned by name (cloneRef is set); fresh: the resolution came from the   *)
(* pointer; tmp: the tree in the temporary directory; asked: the branch    *)
(* tip at the time of the call (history).                                  *)
(***************************************************************************)
Call == [pc : Stages, want : Refs, key : Keys, byName : BOOLEAN,
         fresh : BOOLEAN, tmp : Commits \cup {Torn}, asked : Commits]

Idle == [pc |-> "idle", want |-> Branch, key |-> <<"commit", 1>>,
         byName |-> FALSE, fresh |-> FALSE, tmp |-> Torn, asked |-> 1]

TypeOK ==
  /\ tip \in Commits
  /\ tags \in [Tags -> 0 .. MaxCommit]
  /\ now \in 0 .. MaxTime
  /\ dirs \in [Keys -> Dir \cup {Absent}]
  /\ ptrs \in [Floating -> Pointer \cup {NoPtr}]
  /\ inflight \in [Procs -> SUBSET Keys]
  /\ caller \in [Callers -> Call]
  /\ calls \in 0 .. MaxCalls

Init ==
  /\ tip = 1
  /\ tags = [t \in Tags |-> 0]
  /\ now = 0
  /\ dirs = [k \in Keys |->
               IF k \in Damaged THEN [seed |-> FALSE, tree |-> Torn] ELSE Absent]
  /\ ptrs = [r \in Floating |-> NoPtr]
  /\ inflight = [p \in Procs |-> {}]
  /\ caller = [c \in Callers |-> Idle]
  /\ calls = 0

(* seedValid                                                               *)
Seeded(k) == dirs[k] # Absent /\ dirs[k].seed

At(c, stage)   == caller[c].pc = stage
Goto(c, stage) == caller' = [caller EXCEPT ![c].pc = stage]
Leave(c)       == caller' = [caller EXCEPT ![c] = Idle]

-----------------------------------------------------------------------------
(* The world around the cache.                                             *)
Push ==
  /\ tip < MaxCommit
  /\ tip' = tip + 1
  /\ UNCHANGED <<tags, now, disk, inflight, caller, calls>>

TagRelease(t) ==
  /\ tags[t] = 0
  /\ tags' = [tags EXCEPT ![t] = tip]
  /\ UNCHANGED <<tip, now, disk, inflight, caller, calls>>

Tick ==
  /\ now < MaxTime
  /\ now' = now + 1
  /\ UNCHANGED <<tip, tags, disk, inflight, caller, calls>>

(* A process dies; what it had on disk stays.  It may be started again.    *)
Crash(p) ==
  /\ caller' = [c \in Callers |-> IF ProcOf[c] = p THEN Idle ELSE caller[c]]
  /\ inflight' = [inflight EXCEPT ![p] = {}]
  /\ UNCHANGED <<upstream, disk, calls>>

-----------------------------------------------------------------------------
(* Ensure: resolution.                                                     *)
Ensure(c, r) ==
  /\ At(c, "idle")
  /\ calls < MaxCalls
  /\ calls' = calls + 1
  /\ caller' = [caller EXCEPT ![c] =
       IF r \in Floating
       THEN [Idle EXCEPT !.pc = "pointer", !.want = r, !.asked = tip]
       ELSE [Idle EXCEPT !.pc = "check", !.want = r, !.key = r, !.asked = tip]]
  /\ UNCHANGED <<upstream, disk, inflight>>

FreshPointer_IgnoresTTL(c, r) == ptrs[r] # NoPtr

FreshPointer(c, r) == ptrs[r] # NoPtr /\ now < ptrs[r].at + TTLOf[ProcOf[c]]

ReadPointer(c) ==
  /\ At(c, "pointer")
  /\ LET r == caller[c].want IN
     IF FreshPointer(c, r)
     THEN caller' = [caller EXCEPT ![c] =
                       [@ EXCEPT !.pc = "check", !.fresh = TRUE, !.key = ptrs[r].key]]
     ELSE Goto(c, "resolve")
  /\ UNCHANGED <<upstream, disk, inflight, calls>>

(***************************************************************************)
(* resolveFloating.  HEAD is cloned by name only when the server hides its *)
(* hash.  The highest release wins a semver range.                         *)
(***************************************************************************)
Released == {t \in Tags : tags[t] # 0}
Winners  == {t \in Released : \A u \in Released : u <= t}

Resolution(r) ==
  CASE r = Branch -> [key : {<<"commit", tip>>}, byName : {TRUE}]
    [] r = Head   -> [key : {<<"commit", tip>>}, byName : BOOLEAN]
    [] r = Semver -> [key : {"tag"} \X Winners, byName : {FALSE}]

LsRemote(c) ==
  /\ At(c, "resolve")
  /\ \E r \in Resolution(caller[c].want) :
       caller' = [caller EXCEPT ![c] =
                    [@ EXCEPT !.pc = "check", !.key = r.key, !.byName = r.byName]]
  /\ UNCHANGED <<upstream, disk, inflight, calls>>

ResolveFails(c) ==
  /\ At(c, "resolve")
  /\ Leave(c)
  /\ UNCHANGED <<upstream, disk, inflight, calls>>

-----------------------------------------------------------------------------
(* Ensure: the clone directory.  cloneSynced checks the seed again when it *)
(* was made to wait.                                                       *)
CheckSeed(c) ==
  /\ At(c, "check") \/ At(c, "woken")
  /\ Goto(c, IF Seeded(caller[c].key) THEN "remember" ELSE "sync")
  /\ UNCHANGED <<upstream, disk, inflight, calls>>

(* The first caller of a process clones, the others wait for it.           *)
Lead(c) ==
  /\ At(c, "sync")
  /\ caller[c].key \notin inflight[ProcOf[c]]
  /\ inflight' = [inflight EXCEPT ![ProcOf[c]] = @ \cup {caller[c].key}]
  /\ Goto(c, "clone")
  /\ UNCHANGED <<upstream, disk, calls>>

Follow(c) ==
  /\ At(c, "sync")
  /\ caller[c].key \in inflight[ProcOf[c]]
  /\ Goto(c, "wait")
  /\ UNCHANGED <<upstream, disk, inflight, calls>>

(* The context of a waiting caller is cancelled.                           *)
GiveUp(c) ==
  /\ At(c, "wait")
  /\ Leave(c)
  /\ UNCHANGED <<upstream, disk, inflight, calls>>

Waiting(d, c) ==
  d # c /\ At(d, "wait") /\ ProcOf[d] = ProcOf[c] /\ caller[d].key = caller[c].key

Return_NoClose(c, next) ==
  /\ caller' = [caller EXCEPT ![c] = next]
  /\ inflight' = [inflight EXCEPT ![ProcOf[c]] = @ \ {caller[c].key}]

(* The leader leaves cloneSynced: the entry goes, the channel is closed.   *)
Return(c, next) ==
  /\ caller' = [d \in Callers |->
        IF d = c THEN next
        ELSE IF Waiting(d, c) THEN [caller[d] EXCEPT !.pc = "woken"] ELSE caller[d]]
  /\ inflight' = [inflight EXCEPT ![ProcOf[c]] = @ \ {caller[c].key}]

Cloned(c) == [caller[c] EXCEPT !.pc = "remember", !.tmp = Torn]

Fetched_TagByBranch(k, named) == IF named \/ k[1] = "tag" THEN tip ELSE k[2]

(* cloneOnce: a branch by name, a tag by name, or a checkout of the commit.*)
Fetched(k, named) ==
  IF named THEN tip ELSE IF k[1] = "tag" THEN tags[k[2]] ELSE k[2]

CloneOnce(c) ==
  /\ At(c, "clone")
  /\ LET t == Fetched(caller[c].key, caller[c].byName) IN
     /\ t \in 1 .. tip
     /\ caller' = [caller EXCEPT ![c] = [@ EXCEPT !.pc = "publish", !.tmp = t]]
  /\ UNCHANGED <<upstream, disk, inflight, calls>>

CloneFails(c) ==
  /\ At(c, "clone")
  /\ Return(c, Idle)
  /\ UNCHANGED <<upstream, disk, calls>>

Place_Overwrites(c) ==
  /\ dirs' = [dirs EXCEPT ![caller[c].key] = [seed |-> TRUE, tree |-> caller[c].tmp]]
  /\ Return(c, Cloned(c))

Place_WithoutSeed(c) ==
  /\ dirs[caller[c].key] = Absent
  /\ dirs' = [dirs EXCEPT ![caller[c].key] = [seed |-> FALSE, tree |-> caller[c].tmp]]
  /\ Return(c, Cloned(c))

(* The rename onto a directory succeeds when there is none.                *)
Place(c) ==
  /\ dirs[caller[c].key] = Absent
  /\ dirs' = [dirs EXCEPT ![caller[c].key] = [seed |-> TRUE, tree |-> caller[c].tmp]]
  /\ Return(c, Cloned(c))

(* cloneAtomic: the temporary clone is renamed ...                         *)
Publish(c) ==
  /\ At(c, "publish")
  /\ Place(c)
  /\ UNCHANGED <<upstream, ptrs, calls>>

RenameFails(c) ==
  /\ At(c, "publish")
  /\ dirs[caller[c].key] # Absent
  /\ Goto(c, "occupied")
  /\ UNCHANGED <<upstream, disk, inflight, calls>>

(* ... the loser of a race takes the winner's directory ...                *)
Occupied(c) ==
  /\ At(c, "occupied")
  /\ IF Seeded(caller[c].key) THEN Return(c, Cloned(c))
     ELSE Goto(c, "evict") /\ UNCHANGED inflight
  /\ UNCHANGED <<upstream, disk, calls>>

(* ... and a damaged directory is removed, file by file, and replaced.     *)
StartEvict(c) ==
  /\ At(c, "evict")
  /\ LET k == caller[c].key IN
     IF dirs[k] = Absent THEN UNCHANGED dirs
     ELSE \E seed \in {FALSE, dirs[k].seed} :
            dirs' = [dirs EXCEPT ![k] = [seed |-> seed, tree |-> Torn]]
  /\ Goto(c, "evicting")
  /\ UNCHANGED <<upstream, ptrs, inflight, calls>>

EndEvict(c) ==
  /\ At(c, "evicting")
  /\ dirs' = [dirs EXCEPT ![caller[c].key] = Absent]
  /\ Goto(c, "republish")
  /\ UNCHANGED <<upstream, ptrs, inflight, calls>>

Republish(c) ==
  /\ At(c, "republish")
  /\ \/ Place(c)
     \/ dirs[caller[c].key] # Absent /\ Return(c, Idle) /\ UNCHANGED dirs
  /\ UNCHANGED <<upstream, ptrs, calls>>

Stamped_Expiry(c) == [key |-> caller[c].key, at |-> now + TTLOf[ProcOf[c]]]

(* rememberPointer, stamped with the time of the write.                    *)
Stamped(c) == [key |-> caller[c].key, at |-> now]

Remember(c) ==
  /\ At(c, "remember")
  /\ LET r == caller[c].want IN
     ptrs' = IF r \in Floating /\ ~caller[c].fresh
             THEN [ptrs EXCEPT ![r] = Stamped(c)] ELSE ptrs
  /\ Goto(c, "reading")
  /\ UNCHANGED <<upstream, dirs, inflight, calls>>

(* The command has built from the clone.                                   *)
Release(c) ==
  /\ At(c, "reading")
  /\ Leave(c)
  /\ UNCHANGED <<upstream, disk, inflight, calls>>

Step(c) ==
  \/ ReadPointer(c) \/ LsRemote(c) \/ ResolveFails(c)
  \/ CheckSeed(c) \/ Lead(c) \/ Follow(c) \/ GiveUp(c)
  \/ CloneOnce(c) \/ CloneFails(c)
  \/ Publish(c) \/ RenameFails(c) \/ Occupied(c)
  \/ StartEvict(c) \/ EndEvict(c) \/ Republish(c)
  \/ Remember(c) \/ Release(c)

Next ==
  \/ Push \/ Tick
  \/ \E t \in Tags : TagRelease(t)
  \/ \E p \in Procs : Crash(p)
  \/ \E c \in Callers :
       Step(c) \/ \E r \in Wants[c] : Ensure(c, r)

Spec == Init /\ [][Next]_vars
-----------------------------------------------------------------------------
(***************************************************************************)
(* A process never sees a partial clone where no foreign hand left one:    *)
(* whatever races, fails or dies, a directory is absent or holds the seed  *)
(* and a whole tree (the temporary sibling and the rename of cloneAtomic). *)
(***************************************************************************)
UndamagedIsWhole ==
  \A k \in Keys \ Damaged :
    dirs[k] # Absent => dirs[k].seed /\ dirs[k].tree # Torn

(***************************************************************************)
(* What a build reads is not pulled away or rewritten under it: a clone    *)
(* directory, once published, stays as it is.                              *)
(***************************************************************************)
PublishedStays ==
  [][\A k \in Keys \ Damaged : dirs[k] # Absent => dirs'[k] = dirs[k]]_vars

(***************************************************************************)
(* A clone is never older than the ref it is filed under, and exactly the  *)
(* release for a tag, whichever of the racing clones was published.        *)
(***************************************************************************)
NeverOlderThanRef ==
  \A k \in Keys : dirs[k] # Absent /\ dirs[k].tree # Torn =>
    IF k[1] = "tag" THEN dirs[k].tree = tags[k[2]]
    ELSE dirs[k].tree \in k[2] .. tip

(* A process never clones the same directory twice at a time.              *)
OneCloneAtATime ==
  \A c, d \in Callers :
    /\ c # d /\ ProcOf[c] = ProcOf[d]
    /\ caller[c].pc \in Leading /\ caller[d].pc \in Leading
    => caller[c].key # caller[d].key

(***************************************************************************)
(* With a zero TTL a build of a branch reads a commit that was its tip at  *)
(* the call or later, even when another process has left a pointer.        *)
(***************************************************************************)
ZeroTTLIsCurrent ==
  \A c \in Callers :
    /\ At(c, "reading")
    /\ caller[c].want \in {Branch, Head}
    /\ TTLOf[ProcOf[c]] = 0
    => caller[c].key[2] >= caller[c].asked

(***************************************************************************)
(* A caller that waits always has someone to wake it: another caller of    *)
(* its process that is still cloning the directory.                        *)
(***************************************************************************)
WaiterHasLeader ==
  \A c \in Callers : At(c, "wait") =>
    \E d \in Callers : caller[d].pc \in Leading /\ Waiting(c, d)

-----------------------------------------------------------------------------
(* The directories that no foreign hand has damaged, as the store of       *)
(* module CloneStore: a directory without its seed is no tree of any ref.  *)
Trees ==
  [k \in Keys \ Damaged |->
     IF dirs[k] = Absent THEN Absent
     ELSE IF dirs[k].seed THEN dirs[k].tree ELSE Torn]

Store == INSTANCE CloneStore WITH Keys <- Keys \ Damaged, NoTree <- Absent, trees <- Trees

(***************************************************************************)
(* The cache is such a store: calls that race for a directory, find it     *)
(* occupied, fail, die or are cancelled between any two of its steps look  *)
(* to a reader like one that files a tree at once and for good.            *)
(***************************************************************************)
ImplementsStore == Store!Spec

-----------------------------------------------------------------------------
(* What a comment says and the code does not do.                           *)

(***************************************************************************)
(* gitsource.go:482: cloning the tip by name yields the tree of the        *)
(* resolved commit, "the content-addressed key is unchanged".              *)
(***************************************************************************)
ContentAddressed ==
  \A k \in Keys : k[1] = "commit" /\ dirs[k] # Absent /\ dirs[k].tree # Torn
    => dirs[k].tree = k[2]

(***************************************************************************)
(* gitsource.go:24: concurrent processes never observe a partial directory *)
(* - a build's clone directory is whole while it reads from it.            *)
(***************************************************************************)
ReadersSeeWhole ==
  \A c \in Callers : At(c, "reading") =>
    dirs[caller[c].key] # Absent /\ dirs[caller[c].key].tree # Torn
=============================================================================

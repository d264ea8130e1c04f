---------------------------- MODULE HelmCache_proofs ----------------------------
(***************************************************************************)
(* Proofs about the chart cache, for every number of processes and         *)
(* repositories, every history of the upstream, every TTL, and requests,   *)
(* writes and processes that fail at any point.                            *)
(***************************************************************************)
EXTENDS HelmCache, TLAPS

Age(p) == IF TTLOf[p] = 0 THEN 1 ELSE TTLOf[p]

Registering == {"load", "refresh", "write", "persist", "locate"}

(* What the stages of a process rely on, beyond the types: a tag that was  *)
(* selected exists.                                                        *)
Chosen(e) == e # None => e.val \in Tags

Shaped(x) ==
  /\ x.pc \in Registering => x.want \in Http
  /\ x.pc = "select" => x.want \in Floating
  /\ x.pc = "digest" => x.tag \in Tags
  /\ Chosen(x.choice)

Shapes == Chosen(choice) /\ \A p \in Procs : Shaped(proc[p])

(* The upstream only moves on, and its future is not known yet.            *)
History ==
  \A s \in Sources :
    /\ \A t \in Times : past[s][t] <= Last(s)
    /\ \A t, u \in Times : t <= u => past[s][t] <= past[s][u]
    /\ \A t \in Times : t >= now => past[s][t] = Value(s)

TypeInv == TypeOK /\ Shapes /\ History

-----------------------------------------------------------------------------
(* Whatever is about to be registered, or was read from the registry, has  *)
(* an index.                                                               *)
Indexed(x) ==
  /\ \A r \in x.loaded \cup x.registered : index[r] # None
  /\ x.pc \in {"persist", "locate"} => index[x.want[2]] # None

IndexInv ==
  /\ NoTraceOfFailure
  /\ \A p \in Procs : Indexed(proc[p])

-----------------------------------------------------------------------------
(* A cached entry is not older than its stamp says.                        *)
Backed(s, e) ==
  e # None => /\ e.at <= now
              /\ \A u \in Times : u < e.at => past[s][u] <= e.val

(* The value v of s is at most a TTL of p older than time.                 *)
Recent(p, s, v, time) == \A u \in Times : u + Age(p) <= time => past[s][u] <= v

Young(p, time, e) == e # None /\ time < e.at + Age(p)

BackedDisk ==
  /\ \A r \in Repos : Backed(r, index[r])
  /\ \A t \in Tags : Backed(t, digests[t])
  /\ Backed(TagList, choice)

Remembers(x) ==
  /\ x.begun <= now /\ x.asked <= now
  /\ \A t \in Tags : Backed(t, x.digests[t])
  /\ Backed(TagList, x.choice)
  /\ x.pc = "write" => \A u \in Times : u < now => past[x.want[2]][u] <= x.got

Registered(p, x) ==
  /\ \A r \in x.registered \ x.stale : Young(p, x.begun, index[r])
  /\ x.pc \in {"persist", "locate"} /\ x.want[2] \notin x.stale
       => Young(p, x.begun, index[x.want[2]])

Since(x, s) == IF s \in Repos THEN x.begun ELSE x.asked

Selected(p, x) ==
  /\ x.pc = "digest" /\ x.want \in Floating /\ TagList \notin x.stale
       => Recent(p, TagList, x.tag, x.asked)
  /\ x.pc \in {"pull", "done"} =>
       /\ x.want \in Floating => x.chart[1] \in Tags
       /\ x.chart[1] \notin x.stale
            => Recent(p, x.chart[1], x.chart[2], Since(x, x.chart[1]))
       /\ x.want \in Floating /\ TagList \notin x.stale
            => Recent(p, TagList, x.chart[1], x.asked)

AgeInv ==
  /\ BackedDisk
  /\ \A p \in Procs : /\ Remembers(proc[p])
                     /\ Registered(p, proc[p])
                     /\ Selected(p, proc[p])

-----------------------------------------------------------------------------
(* What a process knew when it began stays good until it is answered.      *)
Ready(x, t) == x.digests[t] # None /\ <<t, x.digests[t].val>> \in content

Holds(x) ==
  /\ x.kept \cap Http = {}
  /\ ~x.answered =>
       /\ \A t \in Tags : <<"tag", t>> \in x.kept => Ready(x, t)
       /\ <<"any", 0>> \in x.kept => x.choice # None /\ Ready(x, x.choice.val)
       /\ x.want \in x.kept =>
            /\ x.pc # "failed"
            /\ x.pc = "digest" => Ready(x, x.tag)
            /\ x.pc = "pull" => x.chart \in content

(* A tag was selected from a list that is never empty again.               *)
Tagged(e) == e # None => Value(TagList) > 0

OfflineInv ==
  /\ Tagged(choice)
  /\ \A p \in Procs : Holds(proc[p]) /\ Tagged(proc[p].choice)
-----------------------------------------------------------------------------
(* The constants.                                                          *)
LEMMA Bounds ==
  /\ MaxTag \in Nat /\ MaxVer \in Nat /\ MaxTime \in Nat /\ MaxCalls \in Nat
  /\ \A t \in Times : t \in Nat
  /\ \A v \in Values : v \in Nat
  /\ \A t \in Tags : t \in Nat /\ t \in Sources /\ t \in Values /\ t \notin Repos /\ t # TagList
                      /\ t \in 0 .. MaxTag
  /\ \A r \in Repos : r \in Sources /\ r \notin Tags /\ r # TagList
  /\ TagList \in Sources /\ TagList \notin Repos /\ TagList \notin Tags
  /\ \A s \in Sources : Last(s) \in Nat /\ \A v \in Nat : v <= Last(s) => v \in Values
  /\ \A e \in Entry \cup {None} : e # None => e \in Entry /\ e.val \in Values /\ e.at \in Times
  /\ None \notin Entry
BY ConstantsAssumption DEF ConstantsAssumption, Times, Values, Tags, Sources, TagList,
   Last, Entry

LEMMA ChartFacts ==
  /\ \A w \in Pinned : w[1] = "tag" /\ w[2] \in Tags /\ w \in Charts /\ w \notin Http
     /\ w \notin Floating
                       /\ w = <<"tag", w[2]>>
  /\ \A w \in Http : w[1] = "http" /\ w[2] \in Repos /\ w \in Charts /\ w \notin Pinned
     /\ w \notin Floating
  /\ \A w \in Floating : w = <<"any", 0>> /\ w \in Charts /\ w \notin Pinned /\ w \notin Http
  /\ \A w \in Charts : w \in Http \/ w \in Pinned \/ w \in Floating
  /\ \A t \in Tags : <<"tag", t>> \in Pinned
  /\ <<"any", 0>> \in Floating
BY DEF Http, Pinned, Floating, Charts

LEMMA FleetFacts == fleet \in Fleets => \A p \in Procs : \A w \in fleet[p] : w \in Charts
BY ConstantsAssumption DEF ConstantsAssumption

LEMMA ProcessTyped ==
  ASSUME NEW x \in Process
  PROVE  /\ x.pc \in Stages /\ x.want \in Charts /\ x.registered \in SUBSET Repos
         /\ x.digests \in [Tags -> Entry \cup {None}] /\ x.choice \in Entry \cup {None}
         /\ x.loaded \in SUBSET Repos /\ x.got \in Values
         /\ x.tag \in 0 .. MaxTag /\ x.chart \in Sources \X Values
         /\ x.begun \in Times /\ x.asked \in Times /\ x.stale \in SUBSET Sources
         /\ x.answered \in BOOLEAN /\ x.kept \in SUBSET Charts
BY DEF Process

LEMMA DownTyped == Down \in Process /\ Shaped(Down)
<1>1. 0 \in Times /\ 0 \in Values /\ 0 \in 0 .. MaxTag
  BY ConstantsAssumption DEF ConstantsAssumption, Times, Values
<1>2. NoDigests \in [Tags -> Entry \cup {None}] /\ <<"any", 0>> \in Charts
      /\ <<TagList, 0>> \in Sources \X Values /\ "down" \in Stages
  BY <1>1, Bounds, ChartFacts DEF NoDigests, Stages
<1>3. Down \in Process
  BY <1>1, <1>2 DEF Down, Process
<1>4. QED
  BY <1>3 DEF Down, Shaped, Registering, Chosen

-----------------------------------------------------------------------------
(* The types, and the history.                                             *)
LEMMA TypeInit == Init => TypeInv
<1> SUFFICES ASSUME Init PROVE TypeInv
  OBVIOUS
<1>1. 0 \in Times /\ 0 \in Values /\ 0 \in 0 .. MaxCalls
  BY ConstantsAssumption DEF ConstantsAssumption, Times, Values
<1>2. TypeOK
  BY <1>1, DownTyped DEF Init, TypeOK, NoDigests
<1>3. Shapes
  BY DownTyped DEF Init, Shapes, Chosen
<1>4. History
  BY <1>1, Bounds DEF Init, History, Value
<1>5. QED
  BY <1>2, <1>3, <1>4 DEF TypeInv

(* The step of one process leaves the upstream alone.                      *)
LEMMA StepWorld == ASSUME NEW p \in Procs, Step(p) PROVE UNCHANGED upstream
<1>1. CASE Start(p) \/ Exit(p) \/ \E w \in fleet[p] : Resolve(p, w)
  BY <1>1 DEF Start, Exit, Resolve
<1>2. CASE LoadRegistry(p) \/ DownloadIndex(p) \/ WriteIndex(p) \/ RefreshFails(p)
  BY <1>2 DEF LoadRegistry, DownloadIndex, WriteIndex, RefreshFails
<1>3. CASE PersistEntry(p) \/ Locate(p) \/ CachedTag(p) \/ SelectTag(p) \/ TagsFail(p)
  BY <1>3 DEF PersistEntry, Locate, CachedTag, SelectTag, TagsFail
<1>4. CASE CachedDigest(p) \/ ResolveDigest(p) \/ ResolveFails(p) \/ Cached(p) \/ Pull(p)
  BY <1>4 DEF CachedDigest, ResolveDigest, ResolveFails, Cached, Pull
<1>5. QED
  BY <1>1, <1>2, <1>3, <1>4 DEF Step

LEMMA HistoryNext == TypeInv /\ [Next]_vars => History'
<1> SUFFICES ASSUME TypeInv, [Next]_vars PROVE History'
  OBVIOUS
<1> USE Bounds DEF TypeInv, TypeOK, History, Value
<1>1. CASE UNCHANGED upstream
  BY <1>1 DEF upstream, Last
<1>2. CASE Tick
  <2>1. now' = now + 1 /\ past' = past
    BY <1>2 DEF Tick
  <2>2. now \in Times /\ now' \in Times
    BY <1>2 DEF Tick, Times
  <2>3. QED
    BY <2>1, <2>2 DEF Last
<1>3. ASSUME NEW s \in Sources, Publish(s) PROVE History'
  <2>1. past' = [past EXCEPT ![s] =
                   [t \in Times |-> IF t >= now THEN past[s][t] + 1 ELSE past[s][t]]]
        /\ now' = now /\ past[s][now] < Last(s) /\ now \in Times
    BY <1>3 DEF Publish
  <2>2. \A t \in Times : past'[s][t] = IF t >= now THEN past[s][now] + 1 ELSE past[s][t]
    BY <2>1
  <2>3. \A r \in Sources \ {s} : past'[r] = past[r]
    BY <2>1
  <2>4. \A t \in Times : past[s][t] \in Nat
    OBVIOUS
  <2>5. ASSUME NEW r \in Sources
        PROVE  /\ \A t \in Times : past'[r][t] <= Last(r)
               /\ \A t, u \in Times : t <= u => past'[r][t] <= past'[r][u]
               /\ \A t \in Times : t >= now => past'[r][t] = past'[r][now]
    <3>1. CASE r = s
      BY <3>1, <2>1, <2>2, <2>4
    <3>2. CASE r # s
      BY <3>2, <2>3
    <3>3. QED
      BY <3>1, <3>2
  <2>6. QED
    BY <2>1, <2>5 DEF Last
<1>4. QED
  BY <1>1, <1>2, <1>3, StepWorld DEF Next, vars

LEMMA ValueTyped == TypeInv => \A s \in Sources : Value(s) \in Values /\ Value(s) <= Last(s)
BY Bounds DEF TypeInv, TypeOK, Value, History

LEMMA TypeNext == TypeInv /\ [Next]_vars => TypeInv'
<1> SUFFICES ASSUME TypeInv, [Next]_vars PROVE TypeInv'
  OBVIOUS
<1>0. History'
  BY HistoryNext
<1> SUFFICES TypeOK' /\ Shapes'
  BY <1>0 DEF TypeInv
<1> USE DEF TypeInv, TypeOK, Shapes
<1>1. CASE UNCHANGED vars
  BY <1>1 DEF vars, upstream, disk
<1>2. CASE Tick
  BY <1>2, Bounds DEF Tick, disk, Times
<1>3. ASSUME NEW s \in Sources, Publish(s) PROVE TypeOK' /\ Shapes'
  <2>1. \A t \in Times : past[s][t] \in Nat
    BY Bounds
  <2>2. \A t \in Times : t >= now => past[s][t] + 1 \in Values
    BY <1>3, <2>1, Bounds DEF Publish, History
  <2>3. [t \in Times |-> IF t >= now THEN past[s][t] + 1 ELSE past[s][t]] \in [Times -> Values]
    BY <2>2
  <2>4. QED
    BY <1>3, <2>3 DEF Publish, disk
<1>4. ASSUME NEW p \in Procs, Step(p) PROVE TypeOK' /\ Shapes'
  <2> DEFINE x == proc[p]
  <2>1. /\ fleet' = fleet /\ now' = now /\ past' = past
    BY <1>4, StepWorld DEF upstream
  <2>2. x \in Process /\ Shaped(x)
    OBVIOUS
  <2>3. ASSUME NEW y \in Process, Shaped(y), Set(p, y)
        PROVE  proc' \in [Procs -> Process] /\ \A q \in Procs : Shaped(proc'[q])
    BY <2>3 DEF Set
  <2>4. ASSUME NEW s \in Stages \ (Registering \cup {"select", "digest"}), Goto(p, s)
        PROVE  proc' \in [Procs -> Process] /\ \A q \in Procs : Shaped(proc'[q])
    <3> DEFINE y == [x EXCEPT !.pc = s]
    <3>1. y \in Process /\ Shaped(y)
      BY <2>2 DEF Process, Shaped
    <3>2. QED
      BY <2>3, <2>4, <3>1 DEF Goto
  <2>5. CASE Start(p)
    <3> DEFINE y == [Down EXCEPT !.pc = "idle", !.begun = now, !.digests = digests,
                                 !.choice = choice, !.kept = Kept]
    <3>1. Kept \in SUBSET Charts
      BY ChartFacts DEF Kept
    <3>2. y \in Process
      BY <3>1, DownTyped DEF Process, Stages
    <3>3. Shaped(y)
      BY DEF Down, Shaped, Registering
    <3>4. QED
      BY <2>1, <2>3, <2>5, <3>2, <3>3 DEF Start, disk
  <2>6. CASE Exit(p)
    BY <2>1, <2>3, <2>6, DownTyped DEF Exit, disk
  <2>7. ASSUME NEW w \in fleet[p], Resolve(p, w) PROVE TypeOK' /\ Shapes'
    <3> DEFINE next == CASE w \in Pinned -> "digest"
                         [] w \in Floating -> "select"
                         [] w[2] \in x.registered -> "locate"
                         [] OTHER -> "load"
               tag  == IF w \in Pinned THEN w[2] ELSE 0
               y    == [x EXCEPT !.want = w, !.asked = now, !.tag = tag, !.pc = next]
    <3>1. w \in Charts
      BY FleetFacts
    <3>2. /\ w \in Pinned => next = "digest" /\ tag \in Tags
          /\ w \in Floating => next = "select" /\ tag = 0
          /\ w \in Http => next \in {"locate", "load"} /\ tag = 0
      <4>1. CASE w \in Pinned
        <5>1. w \notin Floating /\ w \notin Http /\ w[2] \in Tags
          BY <4>1, ChartFacts
        <5> w[2] \notin x.registered
          BY <2>2, <5>1, Bounds, ProcessTyped
        <5>2. QED
          BY <4>1, <5>1
      <4>2. CASE w \in Floating
        <5>1. w \notin Pinned /\ w \notin Http
          BY <4>2, ChartFacts
        <5> w[2] \notin x.registered
          BY <2>2, <4>2, ChartFacts, Bounds, ProcessTyped DEF TagList
        <5>2. QED
          BY <4>2, <5>1
      <4>3. CASE w \in Http
        <5>1. w \notin Pinned /\ w \notin Floating
          BY <4>3, ChartFacts
        <5>2. QED
          BY <4>3, <5>1
      <4>4. QED
        BY <4>1, <4>2, <4>3
    <3>3. next \in Stages /\ tag \in 0 .. MaxTag
      BY <3>1, <3>2, ChartFacts, Bounds DEF Stages
    <3> HIDE DEF next, tag
    <3>4. y \in Process
      BY <2>2, <3>1, <3>3 DEF Process
    <3>5. y.pc = next /\ y.want = w /\ y.tag = tag /\ y.choice = x.choice
      BY <2>2 DEF Process
    <3>6. Shaped(y)
      BY <2>2, <3>1, <3>2, <3>5, ChartFacts DEF Shaped, Registering
    <3>7. Set(p, y) /\ UNCHANGED disk /\ calls' \in 0 .. MaxCalls
      BY <2>7, Bounds DEF Resolve, next, tag
    <3>8. QED
      BY <2>1, <2>3, <3>4, <3>6, <3>7 DEF disk
  <2>8. CASE LoadRegistry(p)
    <3> DEFINE next == IF Fresh(p, index[x.want[2]]) THEN "persist" ELSE "refresh"
               y == [x EXCEPT !.loaded = registry, !.pc = next]
    <3>1. y \in Process /\ Shaped(y)
      BY <2>2, <2>8 DEF Process, Stages, Shaped, Registering, LoadRegistry, At
    <3>2. QED
      BY <2>1, <2>3, <2>8, <3>1 DEF LoadRegistry, disk
  <2>9. CASE DownloadIndex(p)
    <3> DEFINE y == [x EXCEPT !.pc = "write", !.got = Value(x.want[2])]
    <3>1. Value(x.want[2]) \in Values
      BY <2>2, <2>9, ValueTyped, ChartFacts, Bounds DEF DownloadIndex, At, Shaped, Registering
    <3>2. y \in Process /\ Shaped(y)
      BY <2>2, <2>9, <3>1 DEF Process, Stages, Shaped, Registering, DownloadIndex, At
    <3>3. QED
      BY <2>1, <2>3, <2>9, <3>2 DEF DownloadIndex, disk
  <2>10. CASE WriteIndex(p)
    <3> DEFINE y == [x EXCEPT !.pc = "persist", !.got = 0]
    <3>1. 0 \in Values
      BY Bounds DEF Values
    <3>2. y \in Process /\ Shaped(y)
      BY <2>2, <2>10, <3>1 DEF Process, Stages, Shaped, Registering, WriteIndex, At
    <3>3. Stamped(x.got) \in Entry
      BY <2>2, ProcessTyped DEF Stamped, Entry
    <3>4. index' \in [Repos -> Entry \cup {None}]
      BY <2>10, <3>3 DEF WriteIndex
    <3>5. QED
      BY <2>1, <2>3, <2>10, <3>2, <3>4 DEF WriteIndex
  <2>11. CASE RefreshFails(p)
    <3> DEFINE y == [x EXCEPT !.pc = "persist", !.stale = @ \cup {x.want[2]}]
    <3>1. x.want[2] \in Sources
      BY <2>2, <2>11, ChartFacts, Bounds DEF RefreshFails, At, Shaped, Registering
    <3>2. y \in Process /\ Shaped(y)
      BY <2>2, <2>11, <3>1 DEF Process, Stages, Shaped, Registering, RefreshFails, At
    <3>3. Set(p, y) \/ Goto(p, "failed")
      BY <2>11 DEF RefreshFails
    <3>4. QED
      BY <2>1, <2>3, <2>4, <2>11, <3>2, <3>3 DEF RefreshFails, disk, Stages, Registering
  <2>12. CASE PersistEntry(p)
    <3> DEFINE r == x.want[2]
               y == [x EXCEPT !.pc = "locate", !.loaded = {}, !.registered = @ \cup {r}]
    <3>1. r \in Repos
      BY <2>2, <2>12, ChartFacts DEF PersistEntry, At, Shaped, Registering
    <3>2. y \in Process /\ Shaped(y)
      BY <2>2, <2>12, <3>1 DEF Process, Stages, Shaped, Registering, PersistEntry, At
    <3>3. registry' \in SUBSET Repos
      BY <2>2, <2>12, <3>1, ProcessTyped DEF PersistEntry
    <3>4. Set(p, y) \/ Goto(p, "failed")
      BY <2>12 DEF PersistEntry
    <3>5. QED
      BY <2>1, <2>3, <2>4, <2>12, <3>2, <3>3, <3>4 DEF PersistEntry, Stages, Registering
  <2>13. CASE Locate(p)
    <3> DEFINE r == x.want[2]
               y == [x EXCEPT !.pc = "pull", !.chart = <<r, index[r].val>>]
    <3>1. r \in Repos
      BY <2>2, <2>13, ChartFacts DEF Locate, At, Shaped, Registering
    <3>2. CASE index[r] # None
      <4>1. <<r, index[r].val>> \in Sources \X Values
        BY <3>1, <3>2, Bounds
      <4>2. y \in Process /\ Shaped(y)
        BY <2>2, <4>1 DEF Process, Stages, Shaped, Registering
      <4>3. Set(p, y) \/ Goto(p, "failed")
        BY <2>13 DEF Locate
      <4>4. QED
        BY <2>1, <2>3, <2>4, <2>13, <4>2, <4>3 DEF Locate, disk, Stages, Registering
    <3>3. CASE index[r] = None
      BY <2>1, <2>4, <2>13, <3>3 DEF Locate, disk, Stages, Registering
    <3>4. QED
      BY <3>2, <3>3
  <2>14. CASE CachedTag(p)
    <3> DEFINE y == [x EXCEPT !.pc = "digest", !.tag = x.choice.val]
    <3>1. x.choice.val \in Tags
      BY <2>2, <2>14 DEF CachedTag, Fresh, Shaped, Chosen
    <3>2. y \in Process /\ Shaped(y)
      BY <2>2, <3>1, Bounds DEF Process, Stages, Shaped, Registering
    <3>3. QED
      BY <2>1, <2>3, <2>14, <3>2 DEF CachedTag, disk
  <2>15. CASE SelectTag(p)
    <3> DEFINE entry == Stamped(Value(TagList))
               y == [x EXCEPT !.pc = "digest", !.tag = entry.val, !.choice = entry,
                              !.answered = TRUE, !.stale = @ \ {TagList}]
    <3>1. CASE Value(TagList) = 0
      BY <2>1, <2>4, <2>15, <3>1 DEF SelectTag, Stages, Registering
    <3>2. CASE Value(TagList) # 0
      <4>1. Value(TagList) \in Values /\ Value(TagList) \in Tags
        BY <3>2, ValueTyped, Bounds DEF Last, Tags
      <4>2. entry \in Entry /\ entry.val \in Tags
        BY <4>1 DEF Stamped, Entry
      <4>3. y \in Process /\ Shaped(y)
        BY <2>2, <4>2, Bounds DEF Process, Stages, Shaped, Registering, Chosen
      <4>4. Set(p, y) /\ choice' \in {entry, choice}
        BY <2>15, <3>2 DEF SelectTag
      <4>5. QED
        BY <2>1, <2>3, <2>15, <4>2, <4>3, <4>4 DEF SelectTag, Chosen
    <3>3. QED
      BY <3>1, <3>2
  <2>16. CASE TagsFail(p)
    <3> DEFINE y == [x EXCEPT !.pc = "digest", !.tag = x.choice.val, !.stale = @ \cup {TagList}]
    <3>1. CASE x.choice # None
      <4>1. x.choice.val \in Tags
        BY <2>2, <3>1 DEF Shaped, Chosen
      <4>2. y \in Process /\ Shaped(y)
        BY <2>2, <4>1, Bounds DEF Process, Stages, Shaped, Registering
      <4>3. QED
        BY <2>1, <2>3, <2>16, <3>1, <4>2 DEF TagsFail, disk
    <3>2. CASE x.choice = None
      BY <2>1, <2>4, <2>16, <3>2 DEF TagsFail, disk, Stages, Registering
    <3>3. QED
      BY <3>1, <3>2
  <2>17. CASE CachedDigest(p)
    <3> DEFINE t == x.tag
               y == [x EXCEPT !.pc = "pull", !.tag = 0, !.chart = <<t, x.digests[t].val>>]
    <3>1. t \in Tags /\ x.digests[t] # None
      BY <2>2, <2>17 DEF CachedDigest, Fresh, At, Shaped
    <3>2. <<t, x.digests[t].val>> \in Sources \X Values /\ 0 \in 0 .. MaxTag
      BY <2>2, <3>1, Bounds, ProcessTyped
    <3>3. y \in Process /\ Shaped(y)
      BY <2>2, <3>2 DEF Process, Stages, Shaped, Registering
    <3>4. QED
      BY <2>1, <2>3, <2>17, <3>3 DEF CachedDigest, disk
  <2>18. CASE ResolveDigest(p)
    <3> DEFINE t     == x.tag
               entry == Stamped(Value(t))
               known == [x.digests EXCEPT ![t] = entry]
               y     == [x EXCEPT !.pc = "pull", !.tag = 0, !.chart = <<t, entry.val>>,
                                  !.digests = known, !.answered = TRUE, !.stale = @ \ {t}]
    <3>1. t \in Tags /\ Value(t) \in Values
      BY <2>2, <2>18, ValueTyped, Bounds DEF ResolveDigest, At, Shaped
    <3>2. entry \in Entry
      BY <3>1 DEF Stamped, Entry
    <3>3. <<t, entry.val>> \in Sources \X Values /\ 0 \in 0 .. MaxTag
      BY <3>1, <3>2, Bounds DEF Entry
    <3>4. known \in [Tags -> Entry \cup {None}]
      BY <2>2, <3>1, <3>2, ProcessTyped
    <3> HIDE DEF known, entry
    <3>5. y \in Process /\ Shaped(y)
      BY <2>2, <3>3, <3>4 DEF Process, Stages, Shaped, Registering
    <3>6. Set(p, y) /\ digests' \in {known, digests}
      BY <2>18 DEF ResolveDigest, known, entry
    <3>7. QED
      BY <2>1, <2>3, <2>18, <3>4, <3>5, <3>6 DEF ResolveDigest
  <2>19. CASE ResolveFails(p)
    <3> DEFINE t == x.tag
               y == [x EXCEPT !.pc = "pull", !.tag = 0, !.stale = @ \cup {t},
                              !.chart = <<t, x.digests[t].val>>]
    <3>1. t \in Tags
      BY <2>2, <2>19 DEF ResolveFails, At, Shaped
    <3>2. CASE x.digests[t] # None
      <4>1. <<t, x.digests[t].val>> \in Sources \X Values /\ 0 \in 0 .. MaxTag
        BY <2>2, <3>1, <3>2, Bounds, ProcessTyped
      <4>2. y \in Process /\ Shaped(y)
        BY <2>2, <3>1, <4>1, Bounds DEF Process, Stages, Shaped, Registering
      <4>3. QED
        BY <2>1, <2>3, <2>19, <3>2, <4>2 DEF ResolveFails, disk
    <3>3. CASE x.digests[t] = None
      BY <2>1, <2>4, <2>19, <3>3 DEF ResolveFails, disk, Stages, Registering
    <3>4. QED
      BY <3>2, <3>3
  <2>20. CASE Cached(p)
    BY <2>1, <2>4, <2>20 DEF Cached, disk, Stages, Registering
  <2>21. CASE Pull(p)
    <3>1. content' \in SUBSET (Sources \X Values)
      BY <2>2, <2>21, ProcessTyped DEF Pull
    <3>2. QED
      BY <2>1, <2>4, <2>21, <3>1 DEF Pull, Stages, Registering
  <2>22. QED
    BY <1>4, <2>5, <2>6, <2>7, <2>8, <2>9, <2>10, <2>11, <2>12, <2>13, <2>14, <2>15,
       <2>16, <2>17, <2>18, <2>19, <2>20, <2>21 DEF Step
<1>5. QED
  BY <1>1, <1>2, <1>3, <1>4 DEF Next

(* TypeCorrect: the types hold in every reachable state; a tag that was    *)
(* selected is one of the repository's, so its digest can be looked up     *)
(* (resolveOCIDigest).                                                     *)
THEOREM TypeCorrect == Spec => []TypeOK
<1>1. TypeInv => TypeOK
  BY DEF TypeInv
<1>2. QED
  BY <1>1, TypeInit, TypeNext, PTL DEF Spec

-----------------------------------------------------------------------------
(* The effect of each action on the record of the process.                 *)
KeepsCall(x, y)   == y.want = x.want /\ y.asked = x.asked /\ y.begun = x.begun /\ y.kept = x.kept
KeepsRepos(x, y)  == y.registered = x.registered /\ y.loaded = x.loaded
KeepsMemory(x, y) == y.digests = x.digests /\ y.choice = x.choice /\ y.answered = x.answered
Failed(x, y) ==
  /\ y.pc = "failed"
  /\ KeepsCall(x, y) /\ KeepsRepos(x, y) /\ KeepsMemory(x, y)
  /\ y.stale = x.stale

LEMMA SetEffect ==
  ASSUME TypeOK, NEW p \in Procs, NEW y, Set(p, y)
  PROVE  proc'[p] = y /\ \A q \in Procs : q # p => proc'[q] = proc[q]
BY DEF Set, TypeOK

LEMMA GotoEffect ==
  ASSUME TypeOK, NEW p \in Procs, NEW s, Goto(p, s)
  PROVE  /\ proc'[p].pc = s
         /\ KeepsCall(proc[p], proc'[p]) /\ KeepsRepos(proc[p], proc'[p])
         /\ KeepsMemory(proc[p], proc'[p])
         /\ proc'[p].stale = proc[p].stale /\ proc'[p].chart = proc[p].chart
         /\ \A q \in Procs : q # p => proc'[q] = proc[q]
<1>1. proc[p] \in Process
  BY DEF TypeOK
<1>2. proc'[p] = [proc[p] EXCEPT !.pc = s] /\ \A q \in Procs : q # p => proc'[q] = proc[q]
  BY SetEffect DEF Goto
<1>3. QED
  BY <1>1, <1>2 DEF Process, KeepsCall, KeepsRepos, KeepsMemory

LEMMA LoadRegistryEffect ==
  ASSUME TypeOK, NEW p \in Procs, LoadRegistry(p)
  PROVE  LET x == proc[p]  y == proc'[p] IN
         /\ y.loaded = registry
         /\ y.pc = (IF Fresh(p, index[x.want[2]]) THEN "persist" ELSE "refresh")
         /\ KeepsCall(x, y)
         /\ y.registered = x.registered
         /\ KeepsMemory(x, y)
         /\ y.stale = x.stale
<1> DEFINE x == proc[p]  y == proc'[p]
<1>1. proc[p] \in Process
  BY DEF TypeOK
<1>2. proc'[p] = [x EXCEPT !.loaded = registry,
                           !.pc = IF Fresh(p, index[x.want[2]]) THEN "persist" ELSE "refresh"]
  BY SetEffect DEF LoadRegistry, Stamped
<1>3. QED
  BY <1>1, <1>2 DEF Process, KeepsCall, KeepsRepos, KeepsMemory

LEMMA DownloadIndexEffect ==
  ASSUME TypeOK, NEW p \in Procs, DownloadIndex(p)
  PROVE  LET x == proc[p]  y == proc'[p] IN
         /\ y.pc = "write"
         /\ y.got = Value(x.want[2])
         /\ KeepsCall(x, y)
         /\ KeepsRepos(x, y)
         /\ KeepsMemory(x, y)
         /\ y.stale = x.stale
<1> DEFINE x == proc[p]  y == proc'[p]
<1>1. proc[p] \in Process
  BY DEF TypeOK
<1>2. proc'[p] = [x EXCEPT !.pc = "write", !.got = Value(x.want[2])]
  BY SetEffect DEF DownloadIndex, Stamped
<1>3. QED
  BY <1>1, <1>2 DEF Process, KeepsCall, KeepsRepos, KeepsMemory

LEMMA WriteIndexEffect ==
  ASSUME TypeOK, NEW p \in Procs, WriteIndex(p)
  PROVE  LET x == proc[p]  y == proc'[p] IN
         /\ y.pc = "persist"
         /\ y.got = 0
         /\ KeepsCall(x, y)
         /\ KeepsRepos(x, y)
         /\ KeepsMemory(x, y)
         /\ y.stale = x.stale
<1> DEFINE x == proc[p]  y == proc'[p]
<1>1. proc[p] \in Process
  BY DEF TypeOK
<1>2. proc'[p] = [x EXCEPT !.pc = "persist", !.got = 0]
  BY SetEffect DEF WriteIndex, Stamped
<1>3. QED
  BY <1>1, <1>2 DEF Process, KeepsCall, KeepsRepos, KeepsMemory

LEMMA RefreshFailsEffect ==
  ASSUME TypeOK, NEW p \in Procs, RefreshFails(p)
  PROVE  LET x == proc[p]  y == proc'[p] IN
         IF index[x.want[2]] # None
         THEN /\ y.pc = "persist"
              /\ y.stale = x.stale \cup {x.want[2]}
              /\ KeepsCall(x, y)
              /\ KeepsRepos(x, y)
              /\ KeepsMemory(x, y)
         ELSE Failed(x, y)
<1> DEFINE x == proc[p]  y == proc'[p]
<1>1. proc[p] \in Process
  BY DEF TypeOK
<1>2. CASE ~(index[x.want[2]] # None)
  BY <1>2, GotoEffect DEF Failed, RefreshFails
<1>3. CASE index[x.want[2]] # None
  <2>1. proc'[p] = [x EXCEPT !.pc = "persist", !.stale = x.stale \cup {x.want[2]}]
    BY <1>3, SetEffect DEF RefreshFails, Stamped
  <2>2. QED
    BY <1>1, <1>3, <2>1 DEF Process, KeepsCall, KeepsRepos, KeepsMemory
<1>4. QED
  BY <1>2, <1>3

LEMMA PersistEntryEffect ==
  ASSUME TypeOK, NEW p \in Procs, PersistEntry(p)
  PROVE  LET x == proc[p]  y == proc'[p] IN
         \/ /\ y.pc = "locate"
            /\ y.loaded = {}
            /\ y.registered = x.registered \cup {x.want[2]}
            /\ KeepsCall(x, y)
            /\ KeepsMemory(x, y)
            /\ y.stale = x.stale
         \/ Failed(x, y)
<1> DEFINE x == proc[p]  y == proc'[p]
<1>1. proc[p] \in Process
  BY DEF TypeOK
<1>2. CASE Goto(p, "failed")
  BY <1>2, GotoEffect DEF Failed
<1>3. CASE ~Goto(p, "failed")
  <2>1. proc'[p] = [x EXCEPT !.pc = "locate", !.loaded = {},
                             !.registered = x.registered \cup {x.want[2]}]
    BY <1>3, SetEffect DEF PersistEntry, Stamped
  <2>2. QED
    BY <1>1, <2>1 DEF Process, KeepsCall, KeepsRepos, KeepsMemory
<1>4. QED
  BY <1>2, <1>3

LEMMA LocateEffect ==
  ASSUME TypeOK, NEW p \in Procs, Locate(p)
  PROVE  LET x == proc[p]  y == proc'[p] IN
         IF x.want[2] \in registry /\ index[x.want[2]] # None
         THEN /\ y.pc = "pull"
              /\ y.chart = <<x.want[2], index[x.want[2]].val>>
              /\ KeepsCall(x, y)
              /\ KeepsRepos(x, y)
              /\ KeepsMemory(x, y)
              /\ y.stale = x.stale
         ELSE Failed(x, y)
<1> DEFINE x == proc[p]  y == proc'[p]
<1>1. proc[p] \in Process
  BY DEF TypeOK
<1>2. CASE ~(x.want[2] \in registry /\ index[x.want[2]] # None)
  BY <1>2, GotoEffect DEF Failed, Locate
<1>3. CASE x.want[2] \in registry /\ index[x.want[2]] # None
  <2>1. proc'[p] = [x EXCEPT !.pc = "pull", !.chart = <<x.want[2], index[x.want[2]].val>>]
    BY <1>3, SetEffect DEF Locate, Stamped
  <2>2. QED
    BY <1>1, <1>3, <2>1 DEF Process, KeepsCall, KeepsRepos, KeepsMemory
<1>4. QED
  BY <1>2, <1>3

LEMMA CachedTagEffect ==
  ASSUME TypeOK, NEW p \in Procs, CachedTag(p)
  PROVE  LET x == proc[p]  y == proc'[p] IN
         /\ y.pc = "digest"
         /\ y.tag = x.choice.val
         /\ KeepsCall(x, y)
         /\ KeepsRepos(x, y)
         /\ KeepsMemory(x, y)
         /\ y.stale = x.stale
<1> DEFINE x == proc[p]  y == proc'[p]
<1>1. proc[p] \in Process
  BY DEF TypeOK
<1>2. proc'[p] = [x EXCEPT !.pc = "digest", !.tag = x.choice.val]
  BY SetEffect DEF CachedTag, Stamped
<1>3. QED
  BY <1>1, <1>2 DEF Process, KeepsCall, KeepsRepos, KeepsMemory

LEMMA SelectTagEffect ==
  ASSUME TypeOK, NEW p \in Procs, SelectTag(p)
  PROVE  LET x == proc[p]  y == proc'[p] IN
         IF Value(TagList) # 0
         THEN /\ y.pc = "digest"
              /\ y.tag = Value(TagList)
              /\ y.choice = Stamped(Value(TagList))
              /\ y.answered = TRUE
              /\ y.stale = x.stale \ {TagList}
              /\ KeepsCall(x, y)
              /\ KeepsRepos(x, y)
              /\ y.digests = x.digests
         ELSE Failed(x, y)
<1> DEFINE x == proc[p]  y == proc'[p]
<1>1. proc[p] \in Process
  BY DEF TypeOK
<1>2. CASE ~(Value(TagList) # 0)
  BY <1>2, GotoEffect DEF Failed, SelectTag
<1>3. CASE Value(TagList) # 0
  <2>1. proc'[p] = [x EXCEPT !.pc = "digest", !.tag = Value(TagList),
                             !.choice = Stamped(Value(TagList)), !.answered = TRUE,
                             !.stale = x.stale \ {TagList}]
    BY <1>3, SetEffect DEF SelectTag, Stamped
  <2>2. QED
    BY <1>1, <1>3, <2>1 DEF Process, KeepsCall, KeepsRepos, KeepsMemory
<1>4. QED
  BY <1>2, <1>3

LEMMA TagsFailEffect ==
  ASSUME TypeOK, NEW p \in Procs, TagsFail(p)
  PROVE  LET x == proc[p]  y == proc'[p] IN
         IF x.choice # None
         THEN /\ y.pc = "digest"
              /\ y.tag = x.choice.val
              /\ y.stale = x.stale \cup {TagList}
              /\ KeepsCall(x, y)
              /\ KeepsRepos(x, y)
              /\ KeepsMemory(x, y)
         ELSE Failed(x, y)
<1> DEFINE x == proc[p]  y == proc'[p]
<1>1. proc[p] \in Process
  BY DEF TypeOK
<1>2. CASE ~(x.choice # None)
  BY <1>2, GotoEffect DEF Failed, TagsFail
<1>3. CASE x.choice # None
  <2>1. proc'[p] = [x EXCEPT !.pc = "digest", !.tag = x.choice.val,
                             !.stale = x.stale \cup {TagList}]
    BY <1>3, SetEffect DEF TagsFail, Stamped
  <2>2. QED
    BY <1>1, <1>3, <2>1 DEF Process, KeepsCall, KeepsRepos, KeepsMemory
<1>4. QED
  BY <1>2, <1>3

LEMMA CachedDigestEffect ==
  ASSUME TypeOK, NEW p \in Procs, CachedDigest(p)
  PROVE  LET x == proc[p]  y == proc'[p] IN
         /\ y.pc = "pull"
         /\ y.tag = 0
         /\ y.chart = <<x.tag, x.digests[x.tag].val>>
         /\ KeepsCall(x, y)
         /\ KeepsRepos(x, y)
         /\ KeepsMemory(x, y)
         /\ y.stale = x.stale
<1> DEFINE x == proc[p]  y == proc'[p]
<1>1. proc[p] \in Process
  BY DEF TypeOK
<1>2. proc'[p] = [x EXCEPT !.pc = "pull", !.tag = 0, !.chart = <<x.tag, x.digests[x.tag].val>>]
  BY SetEffect DEF CachedDigest, Stamped
<1>3. QED
  BY <1>1, <1>2 DEF Process, KeepsCall, KeepsRepos, KeepsMemory

LEMMA ResolveDigestEffect ==
  ASSUME TypeOK, NEW p \in Procs, ResolveDigest(p)
  PROVE  LET x == proc[p]  y == proc'[p] IN
         /\ y.pc = "pull"
         /\ y.tag = 0
         /\ y.chart = <<x.tag, Value(x.tag)>>
         /\ y.digests = [x.digests EXCEPT ![x.tag] = Stamped(Value(x.tag))]
         /\ y.answered = TRUE
         /\ y.stale = x.stale \ {x.tag}
         /\ KeepsCall(x, y)
         /\ KeepsRepos(x, y)
         /\ y.choice = x.choice
<1> DEFINE x == proc[p]  y == proc'[p]
<1>1. proc[p] \in Process
  BY DEF TypeOK
<1>2. proc'[p] = [x EXCEPT !.pc = "pull", !.tag = 0, !.chart = <<x.tag, Value(x.tag)>>,
                           !.digests = [x.digests EXCEPT ![x.tag] = Stamped(Value(x.tag))],
                           !.answered = TRUE, !.stale = x.stale \ {x.tag}]
  BY SetEffect DEF ResolveDigest, Stamped
<1>3. QED
  BY <1>1, <1>2 DEF Process, KeepsCall, KeepsRepos, KeepsMemory

LEMMA ResolveFailsEffect ==
  ASSUME TypeOK, NEW p \in Procs, ResolveFails(p)
  PROVE  LET x == proc[p]  y == proc'[p] IN
         IF x.digests[x.tag] # None
         THEN /\ y.pc = "pull"
              /\ y.tag = 0
              /\ y.stale = x.stale \cup {x.tag}
              /\ y.chart = <<x.tag, x.digests[x.tag].val>>
              /\ KeepsCall(x, y)
              /\ KeepsRepos(x, y)
              /\ KeepsMemory(x, y)
         ELSE Failed(x, y)
<1> DEFINE x == proc[p]  y == proc'[p]
<1>1. proc[p] \in Process
  BY DEF TypeOK
<1>2. CASE ~(x.digests[x.tag] # None)
  BY <1>2, GotoEffect DEF Failed, ResolveFails
<1>3. CASE x.digests[x.tag] # None
  <2>1. proc'[p] = [x EXCEPT !.pc = "pull", !.tag = 0, !.stale = x.stale \cup {x.tag},
                             !.chart = <<x.tag, x.digests[x.tag].val>>]
    BY <1>3, SetEffect DEF ResolveFails, Stamped
  <2>2. QED
    BY <1>1, <1>3, <2>1 DEF Process, KeepsCall, KeepsRepos, KeepsMemory
<1>4. QED
  BY <1>2, <1>3

LEMMA ResolveEffect ==
  ASSUME TypeInv, NEW p \in Procs, NEW w \in fleet[p], Resolve(p, w)
  PROVE  LET x == proc[p]  y == proc'[p] IN
         /\ w \in Charts /\ y.want = w /\ y.asked = now /\ y.begun = x.begun /\ y.kept = x.kept
         /\ KeepsRepos(x, y) /\ KeepsMemory(x, y) /\ y.stale = x.stale
         /\ w \in Pinned => y.pc = "digest" /\ y.tag = w[2]
         /\ w \in Floating => y.pc = "select"
         /\ w \in Http => y.pc = "load" \/ (y.pc = "locate" /\ w[2] \in x.registered)
<1> DEFINE x == proc[p]  y == proc'[p]
<1>1. proc[p] \in Process /\ w \in Charts
  BY FleetFacts DEF TypeInv, TypeOK
<1> DEFINE next == CASE w \in Pinned -> "digest"
                     [] w \in Floating -> "select"
                     [] w[2] \in x.registered -> "locate"
                     [] OTHER -> "load"
           tag  == IF w \in Pinned THEN w[2] ELSE 0
<1>2. w \in Pinned => next = "digest" /\ tag = w[2]
  <2> SUFFICES ASSUME w \in Pinned PROVE next = "digest" /\ tag = w[2]
    OBVIOUS
  <2>1. w \notin Floating /\ w[2] \notin x.registered
    BY <1>1, ChartFacts, Bounds, ProcessTyped
  <2>2. QED
    BY <2>1
<1>3. w \in Floating => next = "select"
  <2> SUFFICES ASSUME w \in Floating PROVE next = "select"
    OBVIOUS
  <2>1. w \notin Pinned /\ w[2] \notin x.registered
    BY <1>1, ChartFacts, Bounds, ProcessTyped DEF TagList
  <2>2. QED
    BY <2>1
<1>4. w \in Http => next = "load" \/ (next = "locate" /\ w[2] \in x.registered)
  <2> SUFFICES ASSUME w \in Http
               PROVE  next = "load" \/ (next = "locate" /\ w[2] \in x.registered)
    OBVIOUS
  <2>1. w \notin Pinned /\ w \notin Floating
    BY ChartFacts
  <2>2. QED
    BY <2>1
<1>5. y = [x EXCEPT !.want = w, !.asked = now, !.tag = tag, !.pc = next]
  BY SetEffect DEF Resolve, TypeInv
<1> HIDE DEF next, tag
<1>6. QED
  BY <1>1, <1>2, <1>3, <1>4, <1>5 DEF Process, KeepsRepos, KeepsMemory

LEMMA StartEffect ==
  ASSUME TypeOK, NEW p \in Procs, Start(p)
  PROVE  LET y == proc'[p] IN
         /\ y.pc = "idle" /\ y.begun = now /\ y.asked = 0 /\ y.want = <<"any", 0>>
         /\ y.digests = digests /\ y.choice = choice /\ y.kept = Kept
         /\ y.registered = {} /\ y.loaded = {} /\ y.stale = {} /\ y.answered = FALSE
<1> DEFINE fresh == [Down EXCEPT !.pc = "idle", !.begun = now, !.digests = digests,
                                 !.choice = choice, !.kept = Kept]
<1>1. proc'[p] = fresh
  BY SetEffect DEF Start
<1>2. /\ fresh.pc = "idle" /\ fresh.begun = now /\ fresh.asked = 0 /\ fresh.want = <<"any", 0>>
      /\ fresh.digests = digests /\ fresh.choice = choice /\ fresh.kept = Kept
      /\ fresh.registered = {} /\ fresh.loaded = {} /\ fresh.stale = {} /\ fresh.answered = FALSE
  BY DEF Down
<1>3. QED
  BY <1>1, <1>2

LEMMA ExitEffect ==
  ASSUME TypeOK, NEW p \in Procs, Exit(p)
  PROVE  proc'[p] = Down
BY SetEffect DEF Exit

LEMMA PullEffect ==
  ASSUME TypeOK, NEW p \in Procs, Cached(p) \/ Pull(p)
  PROVE  LET x == proc[p]  y == proc'[p] IN
         /\ KeepsCall(x, y) /\ KeepsRepos(x, y) /\ KeepsMemory(x, y)
         /\ y.stale = x.stale /\ y.chart = x.chart
         /\ y.pc \in {"done", "failed"}
         /\ y.pc = "failed" => Pull(p)
<1>1. CASE Goto(p, "done")
  BY <1>1, GotoEffect
<1>2. CASE Goto(p, "failed") /\ Pull(p)
  BY <1>2, GotoEffect
<1>3. QED
  BY <1>1, <1>2 DEF Cached, Pull

(* The other processes stay where they are.                                *)
LEMMA Others ==
  ASSUME TypeOK, NEW p \in Procs, Step(p)
  PROVE  \A q \in Procs : q # p => proc'[q] = proc[q]
<1>1. ASSUME NEW y, Set(p, y) PROVE \A q \in Procs : q # p => proc'[q] = proc[q]
  BY <1>1, SetEffect
<1>2. ASSUME NEW s, Goto(p, s) PROVE \A q \in Procs : q # p => proc'[q] = proc[q]
  BY <1>2, GotoEffect
<1>3. CASE Start(p) \/ Exit(p) \/ \E w \in fleet[p] : Resolve(p, w)
  BY <1>1, <1>3 DEF Start, Exit, Resolve
<1>4. CASE LoadRegistry(p) \/ DownloadIndex(p) \/ WriteIndex(p) \/ RefreshFails(p)
  BY <1>1, <1>2, <1>4 DEF LoadRegistry, DownloadIndex, WriteIndex, RefreshFails
<1>5. CASE PersistEntry(p) \/ Locate(p) \/ CachedTag(p) \/ SelectTag(p) \/ TagsFail(p)
  BY <1>1, <1>2, <1>5 DEF PersistEntry, Locate, CachedTag, SelectTag, TagsFail
<1>6. CASE CachedDigest(p) \/ ResolveDigest(p) \/ ResolveFails(p) \/ Cached(p) \/ Pull(p)
  BY <1>1, <1>2, <1>6 DEF CachedDigest, ResolveDigest, ResolveFails, Cached, Pull
<1>7. QED
  BY <1>3, <1>4, <1>5, <1>6 DEF Step

(* The disk: entries are replaced by newer ones and never deleted; only    *)
(* the processes that register, select, resolve or pull write to it.       *)
LEMMA DiskStep ==
  ASSUME TypeInv, NEW p \in Procs, Step(p)
  PROVE  /\ \/ index' = index
            \/ /\ WriteIndex(p)
               /\ proc[p].want[2] \in Repos
               /\ index' = [index EXCEPT ![proc[p].want[2]] = Stamped(proc[p].got)]
         /\ registry' = registry \/ PersistEntry(p)
         /\ digests' = digests \/ ResolveDigest(p)
         /\ choice' = choice \/ SelectTag(p)
         /\ content \subseteq content'
<1>1. proc[p].pc = "write" => proc[p].want[2] \in Repos
  BY ChartFacts DEF TypeInv, Shapes, Shaped, Registering
<1>2. CASE Start(p) \/ Exit(p) \/ \E w \in fleet[p] : Resolve(p, w)
  BY <1>2 DEF Start, Exit, Resolve, disk
<1>3. CASE LoadRegistry(p) \/ DownloadIndex(p) \/ WriteIndex(p) \/ RefreshFails(p)
  BY <1>1, <1>3 DEF LoadRegistry, DownloadIndex, WriteIndex, RefreshFails, At, disk
<1>4. CASE PersistEntry(p) \/ Locate(p) \/ CachedTag(p) \/ SelectTag(p) \/ TagsFail(p)
  BY <1>4 DEF PersistEntry, Locate, CachedTag, SelectTag, TagsFail, disk
<1>5. CASE CachedDigest(p) \/ ResolveDigest(p) \/ ResolveFails(p) \/ Cached(p) \/ Pull(p)
  BY <1>5 DEF CachedDigest, ResolveDigest, ResolveFails, Cached, Pull, disk
<1>6. QED
  BY <1>2, <1>3, <1>4, <1>5 DEF Step

-----------------------------------------------------------------------------
(* The registry and the indexes.                                           *)
LEMMA IndexInit == Init => IndexInv
BY DEF Init, IndexInv, NoTraceOfFailure, Indexed, Down

LEMMA IndexStays ==
  ASSUME TypeInv, NEW p \in Procs, Step(p), NEW r \in Repos, index[r] # None
  PROVE  index'[r] # None
<1>1. Stamped(proc[p].got) # None
  BY ProcessTyped, Bounds DEF TypeInv, TypeOK, Stamped, Entry
<1>2. QED
  BY <1>1, DiskStep DEF TypeInv, TypeOK

LEMMA IndexNext == TypeInv /\ IndexInv /\ [Next]_vars => IndexInv'
<1> SUFFICES ASSUME TypeInv, IndexInv, [Next]_vars PROVE IndexInv'
  OBVIOUS
<1>1. CASE UNCHANGED <<index, registry, proc>>
  BY <1>1 DEF Indexed, IndexInv, NoTraceOfFailure
<1>2. ASSUME NEW p \in Procs, Step(p) PROVE IndexInv'
  <2> DEFINE x == proc[p]  y == proc'[p]
  <2>1. \A q \in Procs : /\ proc[q] \in Process /\ Shaped(proc[q]) /\ Indexed(proc[q])
                         /\ proc[q].pc \in Registering => proc[q].want[2] \in Repos
                         /\ proc[q].loaded \in SUBSET Repos /\ proc[q].registered \in SUBSET Repos
    BY ChartFacts, ProcessTyped DEF TypeInv, TypeOK, Shapes, Shaped, IndexInv
  <2>2. TypeOK /\ \A r \in registry : r \in Repos /\ index[r] # None
    BY DEF TypeInv, TypeOK, IndexInv, NoTraceOfFailure
  <2>3. \A r \in Repos : index[r] # None => index'[r] # None
    BY <1>2, IndexStays
  <2>4. \A q \in Procs : q # p => Indexed(proc[q])'
    BY <1>2, <2>1, <2>2, <2>3, Others DEF Indexed, Registering
  <2>18. Indexed(proc[p])'
    (* p itself.                                                             *)
    <3>5. ASSUME KeepsRepos(x, y), y.pc \notin {"persist", "locate"} PROVE Indexed(proc[p])'
      BY <2>1, <2>3, <3>5 DEF Indexed, KeepsRepos
    <3>6. Failed(x, y) => Indexed(proc[p])'
      BY <3>5 DEF Failed
    <3>7. CASE Start(p) \/ Exit(p)
      <4>1. y.loaded = {} /\ y.registered = {} /\ y.pc \in {"idle", "down"}
        <5>1. Down.loaded = {} /\ Down.registered = {} /\ Down.pc = "down"
          BY DEF Down
        <5>2. QED
          BY <2>2, <3>7, <5>1, StartEffect, ExitEffect
      <4>2. QED
        BY <4>1 DEF Indexed
    <3>8. ASSUME NEW w \in fleet[p], Resolve(p, w) PROVE Indexed(proc[p])'
      <4>1. KeepsRepos(x, y) /\ y.want = w /\ (y.pc = "locate" => w[2] \in x.registered)
            /\ y.pc # "persist"
        BY <3>8, ResolveEffect, ChartFacts
      <4>2. QED
        BY <2>1, <2>3, <4>1 DEF Indexed, KeepsRepos
    <3>9. CASE LoadRegistry(p)
      <4>1. y.loaded = registry /\ y.registered = x.registered /\ y.want = x.want
            /\ (y.pc # "refresh" => index[x.want[2]] # None) /\ x.pc = "load"
        BY <2>2, <3>9, LoadRegistryEffect DEF Fresh, LoadRegistry, At, KeepsCall
      <4>2. QED
        BY <2>1, <2>2, <2>3, <3>9, <4>1, LoadRegistryEffect DEF Indexed, Registering
    <3>10. CASE DownloadIndex(p)
      BY <2>2, <3>5, <3>10, DownloadIndexEffect
    <3>11. CASE WriteIndex(p)
      <4>1. KeepsRepos(x, y) /\ y.want = x.want /\ y.pc = "persist"
        BY <2>2, <3>11, WriteIndexEffect DEF KeepsCall
      <4>2. Stamped(x.got) # None
        BY <2>1, <2>2, ProcessTyped, Bounds DEF TypeOK, Stamped, Entry
      <4>3. x.want[2] \in Repos
        BY <2>1, <3>11 DEF WriteIndex, At, Registering
      <4>4. index'[x.want[2]] # None
        BY <2>2, <3>11, <4>2, <4>3 DEF WriteIndex, TypeOK
      <4>5. QED
        BY <2>1, <2>3, <4>1, <4>4 DEF Indexed, KeepsRepos
    <3>12. CASE RefreshFails(p)
      <4>1. x.want[2] \in Repos
        BY <2>1, <3>12 DEF RefreshFails, At, Registering
      <4>2. CASE index[x.want[2]] # None
        <5>1. KeepsRepos(x, y) /\ y.want = x.want
          BY <2>2, <3>12, <4>2, RefreshFailsEffect DEF KeepsCall
        <5>2. QED
          BY <2>1, <2>3, <4>1, <4>2, <5>1 DEF Indexed, KeepsRepos
      <4>3. QED
        BY <2>2, <3>6, <3>12, <4>2, RefreshFailsEffect
    <3>13. CASE PersistEntry(p)
      <4>1. x.want[2] \in Repos /\ index[x.want[2]] # None
        BY <2>1, <3>13 DEF PersistEntry, At, Registering, Indexed
      <4>2. CASE y.loaded = {} /\ y.registered = x.registered \cup {x.want[2]} /\ KeepsCall(x, y)
        BY <2>1, <2>3, <4>1, <4>2 DEF Indexed, KeepsCall
      <4>3. QED
        BY <2>2, <3>6, <3>13, <4>2, PersistEntryEffect
    <3>14. CASE Locate(p)
      BY <2>2, <3>5, <3>6, <3>14, LocateEffect
    (* The OCI charts have nothing to do with it.                            *)
    <3>15. CASE CachedTag(p) \/ SelectTag(p) \/ TagsFail(p)
      BY <2>2, <3>5, <3>6, <3>15, CachedTagEffect, SelectTagEffect, TagsFailEffect
    <3>16. CASE CachedDigest(p) \/ ResolveDigest(p) \/ ResolveFails(p)
      BY <2>2, <3>5, <3>6, <3>16, CachedDigestEffect, ResolveDigestEffect, ResolveFailsEffect
    <3>17. CASE Cached(p) \/ Pull(p)
      BY <2>2, <3>5, <3>17, PullEffect
    <3>18. QED
      BY <1>2, <3>7, <3>8, <3>9, <3>10, <3>11, <3>12, <3>13, <3>14, <3>15, <3>16, <3>17 DEF Step
  <2>19. ASSUME NEW r \in registry' PROVE index'[r] # None
    <3>1. CASE registry' = registry
      BY <2>2, <2>3, <3>1
    <3>2. CASE PersistEntry(p)
      <4>1. index[x.want[2]] # None /\ x.want[2] \in Repos
        BY <2>1, <3>2 DEF PersistEntry, At, Registering, Indexed
      <4>2. r \in registry \cup x.loaded \cup {x.want[2]}
        BY <3>2 DEF PersistEntry
      <4>3. r \in Repos /\ index[r] # None
        BY <2>1, <2>2, <4>1, <4>2 DEF Indexed
      <4>4. QED
        BY <2>3, <4>3
    <3>3. QED
      BY <1>2, <3>1, <3>2, DiskStep
  <2>20. QED
    BY <2>4, <2>18, <2>19 DEF IndexInv, NoTraceOfFailure
<1>3. QED
  BY <1>1, <1>2 DEF Next, Tick, Publish, vars, disk

(* RegistryHasIndexes: for any processes, repositories.yaml never names a  *)
(* repository without an index, though each process writes the file from   *)
(* the copy it read before its download (registerRepo, persistRepoEntry).  *)
THEOREM RegistryHasIndexes == Spec => []NoTraceOfFailure
<1>1. IndexInv => NoTraceOfFailure
  BY DEF IndexInv
<1>2. QED
  BY <1>1, TypeInit, TypeNext, IndexInit, IndexNext, PTL DEF Spec

-----------------------------------------------------------------------------
(* Working offline.                                                        *)
LEMMA OfflineInit == Init => OfflineInv
BY DEF Init, OfflineInv, Holds, Tagged, Down

(* The list of tags only grows.                                            *)
LEMMA TagsGrow == TypeInv /\ [Next]_vars => Value(TagList) <= Value(TagList)'
<1> SUFFICES ASSUME TypeInv, [Next]_vars PROVE Value(TagList) <= Value(TagList)'
  OBVIOUS
<1>1. past \in [Sources -> [Times -> Values]] /\ now \in Times /\ History
      /\ past[TagList][now] \in Nat
  BY Bounds DEF TypeInv, TypeOK
<1>2. CASE UNCHANGED upstream
  BY <1>1, <1>2 DEF upstream, Value
<1>3. CASE Tick
  <2>1. now' \in Times /\ now <= now' /\ past' = past
    BY <1>1, <1>3, Bounds DEF Tick, Times
  <2>2. QED
    BY <1>1, <2>1, Bounds DEF History, Value
<1>4. ASSUME NEW s \in Sources, Publish(s) PROVE Value(TagList) <= Value(TagList)'
  <2>1. past[s][now] \in Nat
    BY <1>1, Bounds
  <2>2. now' = now /\ past'[TagList][now] = (IF s = TagList THEN past[s][now] + 1
                                              ELSE past[TagList][now])
    BY <1>1, <1>4, Bounds DEF Publish
  <2>3. QED
    BY <1>1, <2>1, <2>2 DEF Value
<1>5. QED
  BY <1>2, <1>3, <1>4, StepWorld DEF Next, vars

LEMMA OfflineNext == TypeInv /\ OfflineInv /\ [Next]_vars => OfflineInv'
<1> SUFFICES ASSUME TypeInv, OfflineInv, [Next]_vars PROVE OfflineInv'
  OBVIOUS
<1>0. Value(TagList) \in Nat /\ Value(TagList)' \in Nat /\ Value(TagList) <= Value(TagList)'
  <2>1. TypeInv'
    BY TypeNext
  <2>2. Value(TagList)' \in Values
    BY <2>1, Bounds DEF TypeInv, TypeOK, Value
  <2>3. QED
    BY <2>2, ValueTyped, TagsGrow, Bounds
<1>1. \A e : Tagged(e) => Tagged(e)'
  BY <1>0 DEF Tagged
<1>2. CASE UNCHANGED <<choice, content, proc>>
  BY <1>0, <1>2 DEF OfflineInv, Holds, Ready, Tagged
<1>3. ASSUME NEW p \in Procs, Step(p) PROVE OfflineInv'
  <2> DEFINE x == proc[p]  y == proc'[p]
  <2>1. TypeOK /\ x \in Process /\ Shaped(x) /\ Holds(x) /\ Tagged(x.choice) /\ Tagged(choice)
    BY DEF TypeInv, TypeOK, Shapes, OfflineInv
  <2>2. content \subseteq content' /\ Value(TagList)' = Value(TagList)
    BY <1>3, DiskStep, StepWorld DEF upstream, Value
  <2>3. \A q \in Procs : q # p => (Holds(proc[q]) /\ Tagged(proc[q].choice))'
    BY <1>3, <2>1, <2>2, Others DEF OfflineInv, Holds, Ready, Tagged
  <2>4. ASSUME KeepsCall(x, y), KeepsMemory(x, y),
               x.want \notin x.kept \/ x.answered
                 \/ (y.pc # "failed" /\ (y.pc = "digest" => Ready(y, y.tag))
                    /\ (y.pc = "pull" => y.chart \in content))
        PROVE  (Holds(proc[p]) /\ Tagged(proc[p].choice))'
    BY <2>1, <2>2, <2>4 DEF Holds, Ready, Tagged, KeepsCall, KeepsMemory
  <2>5. (Holds(proc[p]) /\ Tagged(proc[p].choice))'
    <3>1. ASSUME x.pc \in Registering, KeepsCall(x, y), KeepsMemory(x, y)
          PROVE  (Holds(proc[p]) /\ Tagged(proc[p].choice))'
      BY <2>1, <2>4, <3>1 DEF Shaped, Holds
    <3>2. CASE Start(p)
      <4>1. /\ y.pc = "idle" /\ y.digests = digests /\ y.choice = choice /\ y.kept = Kept
            /\ y.answered = FALSE
        BY <2>1, <3>2, StartEffect
      <4>2. Kept \cap Http = {}
        BY ChartFacts DEF Kept
      <4>3. \A t \in Tags : <<"tag", t>> \in Kept => OnDisk(t)
        BY ChartFacts DEF Kept
      <4>4. <<"any", 0>> \in Kept => choice # None /\ OnDisk(choice.val)
        BY ChartFacts DEF Kept
      <4>5. QED
        BY <2>1, <2>2, <4>1, <4>2, <4>3, <4>4 DEF Holds, Ready, OnDisk, Tagged
    <3>3. CASE Exit(p)
      BY <2>1, <3>3, ExitEffect DEF Down, Holds, Tagged
    <3>4. ASSUME NEW w \in fleet[p], Resolve(p, w)
          PROVE  (Holds(proc[p]) /\ Tagged(proc[p].choice))'
      <4>1. /\ y.want = w /\ y.kept = x.kept /\ KeepsMemory(x, y) /\ w \in Charts
            /\ y.pc \notin {"failed", "pull"}
            /\ y.pc = "digest" => w \in Pinned /\ y.tag = w[2]
        BY <3>4, ResolveEffect, ChartFacts
      <4>2. w \in Pinned => w = <<"tag", w[2]>> /\ w[2] \in Tags
        BY ChartFacts
      <4>3. y.pc = "digest" /\ w \in x.kept /\ ~x.answered => Ready(x, y.tag)
        BY <2>1, <4>1, <4>2 DEF Holds
      <4>4. QED
        BY <2>1, <2>2, <4>1, <4>3 DEF Holds, Ready, Tagged, KeepsMemory
    <3>5. CASE LoadRegistry(p) \/ DownloadIndex(p) \/ WriteIndex(p)
      BY <2>1, <3>1, <3>5, LoadRegistryEffect, DownloadIndexEffect, WriteIndexEffect
         DEF LoadRegistry, DownloadIndex, WriteIndex, At, Registering
    <3>6. CASE RefreshFails(p) \/ PersistEntry(p) \/ Locate(p)
      BY <2>1, <3>1, <3>6, RefreshFailsEffect, PersistEntryEffect, LocateEffect
         DEF RefreshFails, PersistEntry, Locate, At, Registering, Failed
    <3>7. x.pc = "select" /\ x.want \in x.kept /\ ~x.answered
            => x.choice # None /\ Ready(x, x.choice.val) /\ Value(TagList) > 0
      BY <2>1, ChartFacts DEF Shaped, Holds, Tagged
    <3>8. CASE CachedTag(p)
      <4>1. KeepsCall(x, y) /\ KeepsMemory(x, y) /\ y.pc = "digest" /\ y.tag = x.choice.val
            /\ x.pc = "select"
        BY <2>1, <3>8, CachedTagEffect DEF CachedTag, At
      <4>2. QED
        BY <2>4, <3>7, <4>1 DEF Ready, KeepsMemory
    <3>9. CASE SelectTag(p)
      <4>1. x.pc = "select"
        BY <3>9 DEF SelectTag, At
      <4>2. CASE Value(TagList) = 0
        BY <2>1, <2>4, <3>7, <3>9, <4>1, <4>2, SelectTagEffect DEF Failed
      <4>3. CASE Value(TagList) # 0
        <5>1. y.answered = TRUE /\ y.kept = x.kept
          BY <2>1, <3>9, <4>3, SelectTagEffect DEF KeepsCall
        <5>2. Value(TagList) > 0
          BY <1>0, <4>3
        <5>3. QED
          BY <2>1, <2>2, <5>1, <5>2 DEF Holds, Tagged
      <4>4. QED
        BY <4>2, <4>3
    <3>10. CASE TagsFail(p)
      <4>1. x.pc = "select"
        BY <3>10 DEF TagsFail, At
      <4>2. CASE x.choice = None
        BY <2>1, <2>4, <3>7, <3>10, <4>1, <4>2, TagsFailEffect DEF Failed
      <4>3. CASE x.choice # None
        <5>1. KeepsCall(x, y) /\ KeepsMemory(x, y) /\ y.pc = "digest" /\ y.tag = x.choice.val
          BY <2>1, <3>10, <4>3, TagsFailEffect
        <5>2. QED
          BY <2>4, <3>7, <4>1, <5>1 DEF Ready, KeepsMemory
      <4>4. QED
        BY <4>2, <4>3
    <3>11. x.pc = "digest" /\ x.want \in x.kept /\ ~x.answered => Ready(x, x.tag)
      BY <2>1 DEF Holds
    <3>12. CASE CachedDigest(p)
      <4>1. KeepsCall(x, y) /\ KeepsMemory(x, y) /\ y.pc = "pull" /\ x.pc = "digest"
            /\ y.chart = <<x.tag, x.digests[x.tag].val>>
        BY <2>1, <3>12, CachedDigestEffect DEF CachedDigest, At
      <4>2. QED
        BY <2>4, <3>11, <4>1 DEF Ready
    <3>13. CASE ResolveDigest(p)
      BY <2>1, <2>2, <3>13, ResolveDigestEffect DEF Holds, Tagged, KeepsCall
    <3>14. CASE ResolveFails(p)
      <4>1. x.pc = "digest"
        BY <3>14 DEF ResolveFails, At
      <4>2. CASE x.digests[x.tag] = None
        BY <2>1, <2>4, <3>11, <3>14, <4>1, <4>2, ResolveFailsEffect DEF Failed, Ready
      <4>3. CASE x.digests[x.tag] # None
        <5>1. KeepsCall(x, y) /\ KeepsMemory(x, y) /\ y.pc = "pull"
              /\ y.chart = <<x.tag, x.digests[x.tag].val>>
          BY <2>1, <3>14, <4>3, ResolveFailsEffect
        <5>2. QED
          BY <2>4, <3>11, <4>1, <5>1 DEF Ready
      <4>4. QED
        BY <4>2, <4>3
    <3>15. CASE Cached(p) \/ Pull(p)
      <4>1. KeepsCall(x, y) /\ KeepsMemory(x, y) /\ y.pc \in {"done", "failed"}
            /\ (y.pc = "failed" => Pull(p))
        BY <2>1, <3>15, PullEffect
      <4>2. Pull(p) => x.pc = "pull" /\ x.chart \notin content
        BY DEF Pull, At
      <4>3. Pull(p) => x.want \notin x.kept \/ x.answered
        BY <2>1, <4>2 DEF Holds
      <4>4. QED
        BY <2>4, <4>1, <4>3
    <3>16. QED
      BY <1>3, <3>2, <3>3, <3>4, <3>5, <3>6, <3>8, <3>9, <3>10, <3>12, <3>13, <3>14, <3>15 DEF Step
  <2>6. Tagged(choice)'
    <3>1. CASE SelectTag(p)
      <4>1. choice' = choice \/ Value(TagList) # 0
        BY <3>1 DEF SelectTag
      <4>2. QED
        BY <1>0, <2>1, <2>2, <4>1 DEF Tagged
    <3>2. QED
      BY <1>3, <2>1, <2>2, <3>1, DiskStep DEF Tagged
  <2>7. QED
    BY <2>3, <2>5, <2>6 DEF OfflineInv
<1>4. QED
  BY <1>2, <1>3 DEF Next, Tick, Publish, vars, disk

(* OfflineWorks: for any processes overwriting each other's cache files, a *)
(* chart whose digest and tarball were cached when a process began is      *)
(* resolved by it as long as the registry does not answer it, however old  *)
(* the entries are (resolveOCIDigest, pullOCIDigest).                      *)
THEOREM CachedChartsResolveOffline == Spec => []OfflineWorks
<1>1. OfflineInv => OfflineWorks
  BY DEF OfflineInv, OfflineWorks, Holds, At
<1>2. QED
  BY <1>1, TypeInit, TypeNext, OfflineInit, OfflineNext, PTL DEF Spec

-----------------------------------------------------------------------------
(* The time to live.                                                       *)
LEMMA AgeFacts ==
  ASSUME NEW p \in Procs
  PROVE  /\ Age(p) \in Nat /\ Age(p) >= 1 /\ TTLOf[p] \in Nat /\ Age(p) >= TTLOf[p]
BY ConstantsAssumption DEF ConstantsAssumption, Age

LEMMA Arithmetic ==
  ASSUME NEW u \in Nat, NEW a \in Nat, NEW b \in Nat, NEW c \in Nat, a >= 1
  PROVE  /\ u + a <= b /\ b <= c => u < c
         /\ u + a <= b /\ b < c + a => u < c
         /\ b <= c => b < c + a
OBVIOUS

LEMMA PastFixed ==
  TypeInv /\ [Next]_vars =>
    /\ now <= now'
    /\ \A s \in Sources, u \in Times : u < now => past'[s][u] = past[s][u]
<1> SUFFICES ASSUME TypeInv, [Next]_vars
             PROVE  /\ now <= now'
                    /\ \A s \in Sources, u \in Times : u < now => past'[s][u] = past[s][u]
  OBVIOUS
<1>1. now \in Nat /\ past \in [Sources -> [Times -> Values]] /\ \A u \in Times : u \in Nat
  BY Bounds DEF TypeInv, TypeOK
<1>2. CASE UNCHANGED upstream
  BY <1>1, <1>2 DEF upstream
<1>3. CASE Tick
  BY <1>1, <1>3 DEF Tick
<1>4. ASSUME NEW s \in Sources, Publish(s)
      PROVE  /\ now <= now'
             /\ \A r \in Sources, u \in Times : u < now => past'[r][u] = past[r][u]
  BY <1>1, <1>4 DEF Publish
<1>5. QED
  BY <1>2, <1>3, <1>4, StepWorld DEF Next, vars

(* The value of a source is at least what it held before.                  *)
LEMMA ValueIsLatest ==
  ASSUME TypeInv, NEW s \in Sources, NEW u \in Times, u <= now
  PROVE  past[s][u] <= Value(s)
BY DEF TypeInv, TypeOK, History, Value

LEMMA StampedBacked ==
  ASSUME TypeInv, NEW s \in Sources, NEW v, \A u \in Times : u < now => past[s][u] <= v
  PROVE  Backed(s, Stamped(v))
BY Bounds DEF TypeInv, TypeOK, Backed, Stamped

(* What is backed and young enough is recent.                              *)
LEMMA YoungIsRecent ==
  ASSUME TypeInv, NEW p \in Procs, NEW s \in Sources, NEW e \in Entry, NEW time \in Times,
         Backed(s, e), Young(p, time, e)
  PROVE  Recent(p, s, e.val, time)
<1>1. e # None /\ e.at \in Nat /\ time \in Nat
  BY Bounds DEF Entry
<1>2. ASSUME NEW u \in Times, u + Age(p) <= time PROVE past[s][u] <= e.val
  <2>1. u < e.at
    BY <1>1, <1>2, AgeFacts, Arithmetic, Bounds DEF Young
  <2>2. QED
    BY <1>1, <2>1 DEF Backed
<1>3. QED
  BY <1>2 DEF Recent

LEMMA FreshIsYoung ==
  ASSUME TypeInv, NEW p \in Procs, NEW e \in Entry \cup {None}, NEW time \in Times,
         time <= now, Fresh(p, e)
  PROVE  e \in Entry /\ Young(p, time, e)
<1>1. e \in Entry /\ e.at \in Nat /\ now \in Nat /\ time \in Nat /\ now < e.at + TTLOf[p]
  BY Bounds DEF Fresh, TypeInv, TypeOK
<1>2. QED
  BY <1>1, AgeFacts DEF Young, Fresh

LEMMA LatestIsRecent ==
  ASSUME TypeInv, NEW p \in Procs, NEW s \in Sources, NEW time \in Times, time <= now
  PROVE  Recent(p, s, Value(s), time)
<1>1. ASSUME NEW u \in Times, u + Age(p) <= time PROVE past[s][u] <= Value(s)
  <2>1. u <= now
    BY <1>1, AgeFacts, Bounds DEF TypeInv, TypeOK
  <2>2. QED
    BY <2>1, ValueIsLatest
<1>2. QED
  BY <1>1 DEF Recent

LEMMA AgeInit == Init => AgeInv
<1> SUFFICES ASSUME Init PROVE AgeInv
  OBVIOUS
<1>1. BackedDisk
  BY DEF Init, BackedDisk, Backed, NoDigests
<1>2. Down.digests = NoDigests /\ Down.choice = None /\ Down.begun = 0 /\ Down.asked = 0
      /\ Down.pc = "down" /\ Down.registered = {}
  BY DEF Down
<1>3. ASSUME NEW p \in Procs
      PROVE  Remembers(proc[p]) /\ Registered(p, proc[p]) /\ Selected(p, proc[p])
  <2>1. proc[p] = Down /\ now = 0
    BY DEF Init
  <2>2. QED
    BY <1>2, <2>1 DEF Remembers, Registered, Selected, Backed, NoDigests
<1>4. QED
  BY <1>1, <1>3 DEF AgeInv

(* The clock and the upstream take nothing away.                           *)
LEMMA AgeWorld ==
  ASSUME TypeInv, AgeInv, [Next]_vars, UNCHANGED <<disk, proc>>,
         now' = now \/ \A p \in Procs : proc[p].pc # "write"
  PROVE  AgeInv'
<1>0. now \in Nat /\ now <= now' /\ now' \in Nat
  <2>1. TypeInv'
    BY TypeNext
  <2>2. now' \in Times
    BY <2>1 DEF TypeInv, TypeOK
  <2>3. QED
    BY <2>2, PastFixed, Bounds DEF TypeInv, TypeOK
<1>1. \A s \in Sources, u \in Times : u < now => past'[s][u] = past[s][u]
  BY PastFixed
<1>2. ASSUME NEW s \in Sources, NEW e \in Entry \cup {None}, Backed(s, e) PROVE Backed(s, e)'
  <2>1. CASE e = None
    BY <2>1 DEF Backed
  <2>2. CASE e # None
    <3>1. e.at \in Nat /\ e.at <= now /\ \A u \in Times : u < e.at => past[s][u] <= e.val
      BY <1>2, <2>2, Bounds DEF Backed
    <3>2. \A u \in Times : u < e.at => past'[s][u] <= e.val
      BY <1>0, <1>1, <3>1, Bounds
    <3>3. QED
      BY <1>0, <3>1, <3>2 DEF Backed
  <2>3. QED
    BY <2>1, <2>2
<1>3. ASSUME NEW p \in Procs, NEW s \in Sources, NEW v, NEW time \in Times, time <= now,
             Recent(p, s, v, time)
      PROVE  Recent(p, s, v, time)'
  <2>1. ASSUME NEW u \in Times, u + Age(p) <= time PROVE past'[s][u] <= v
    <3>1. u < now
      BY <1>0, <1>3, <2>1, AgeFacts, Arithmetic, Bounds
    <3>2. QED
      BY <1>1, <1>3, <2>1, <3>1 DEF Recent
  <2>2. QED
    BY <2>1 DEF Recent, Age
<1>4. BackedDisk'
  BY <1>2, Bounds DEF AgeInv, BackedDisk, disk, TypeInv, TypeOK
<1>5. ASSUME NEW p \in Procs
      PROVE  (Remembers(proc[p]) /\ Registered(p, proc[p]) /\ Selected(p, proc[p]))'
  <2> DEFINE x == proc[p]
  <2>1. /\ proc'[p] = x /\ index' = index
        /\ x \in Process /\ Shaped(x)
        /\ Remembers(x) /\ Registered(p, x) /\ Selected(p, x)
    BY DEF AgeInv, disk, TypeInv, TypeOK, Shapes
  <2>2. x.begun <= now' /\ x.asked <= now'
    BY <1>0, <2>1, ProcessTyped, Bounds DEF Remembers
  <2>3. \A t \in Tags : Backed(t, x.digests[t])'
    BY <1>2, <2>1, ProcessTyped, Bounds DEF Remembers
  <2>4. Backed(TagList, x.choice)'
    BY <1>2, <2>1, ProcessTyped, Bounds DEF Remembers
  <2>5. x.pc = "write" => \A u \in Times : u < now' => past'[x.want[2]][u] <= x.got
    <3>1. SUFFICES ASSUME x.pc = "write", NEW u \in Times, u < now'
                   PROVE  past'[x.want[2]][u] <= x.got
      OBVIOUS
    <3>2. now' = now /\ x.want[2] \in Sources
      BY <2>1, <3>1, ChartFacts, Bounds DEF Shaped, Registering
    <3>3. QED
      BY <1>1, <2>1, <3>1, <3>2 DEF Remembers
  <2>6. Registered(p, x)'
    BY <2>1 DEF Registered, Young, Age
  <2>7. Selected(p, x)'
    <3>1. TagList \in Sources /\ x.chart[1] \in Sources /\ x.asked \in Times /\ x.begun \in Times
          /\ x.asked <= now /\ x.begun <= now
      BY <2>1, ProcessTyped, Bounds DEF Remembers
    <3>2. Since(x, x.chart[1]) \in Times /\ Since(x, x.chart[1]) <= now
      BY <3>1 DEF Since
    <3>3. QED
      BY <1>3, <2>1, <3>1, <3>2 DEF Selected
  <2>8. Remembers(x)'
    BY <2>2, <2>3, <2>4, <2>5 DEF Remembers
  <2>9. QED
    BY <2>1, <2>6, <2>7, <2>8
<1>6. QED
  BY <1>4, <1>5 DEF AgeInv

(* A process that takes a step reads the clock and the upstream only.      *)
LEMMA AgeDisk ==
  ASSUME TypeInv, AgeInv, NEW p \in Procs, Step(p)
  PROVE  /\ BackedDisk'
         /\ \A q \in Procs, time \in Times, r \in Repos :
              Young(q, time, index[r]) => Young(q, time, index'[r])
<1> DEFINE x == proc[p]
<1>1. TypeOK /\ x \in Process /\ Shaped(x) /\ Remembers(x) /\ BackedDisk
  BY DEF TypeInv, TypeOK, Shapes, AgeInv
<1>2. now' = now /\ past' = past
  BY StepWorld DEF upstream
<1>3. \A s, e : Backed(s, e) => Backed(s, e)'
  BY <1>2 DEF Backed
<1>4. CASE WriteIndex(p)
  <2> DEFINE r == x.want[2]
             stamp == Stamped(x.got)
  <2>1. r \in Repos /\ index' = [index EXCEPT ![r] = stamp]
    BY <1>1, <1>4, ChartFacts DEF WriteIndex, At, Shaped, Registering
  <2>2. Backed(r, stamp)
    <3>1. \A u \in Times : u < now => past[r][u] <= x.got
      BY <1>1, <1>4 DEF WriteIndex, At, Remembers
    <3>2. QED
      BY <2>1, <3>1, StampedBacked, Bounds
  <2>3. digests' = digests /\ choice' = choice
    BY <1>4 DEF WriteIndex
  <2>4. \A s \in Repos : Backed(s, index'[s])
    BY <1>1, <2>1, <2>2 DEF BackedDisk, TypeOK
  <2>5. BackedDisk'
    BY <1>1, <1>2, <2>3, <2>4 DEF BackedDisk, Backed
  <2>6. ASSUME NEW q \in Procs, NEW time \in Times, NEW s \in Repos, Young(q, time, index[s])
        PROVE  Young(q, time, index'[s])
    <3>1. CASE s # r
      BY <1>1, <2>1, <2>6, <3>1 DEF TypeOK
    <3>2. CASE s = r
      <4>1. index'[s] = stamp /\ stamp.at = now /\ stamp # None
        BY <1>1, <2>1, <3>2, ProcessTyped, Bounds DEF TypeOK, Stamped, Entry
      <4>2. index[s] # None /\ index[s].at \in Nat /\ index[s].at <= now /\ now \in Nat
            /\ time \in Nat
        BY <1>1, <2>6, Bounds DEF Young, BackedDisk, Backed, TypeOK
      <4>3. QED
        BY <2>6, <4>1, <4>2, AgeFacts DEF Young
    <3>3. QED
      BY <3>1, <3>2
  <2>7. QED
    BY <2>5, <2>6
<1>5. CASE ResolveDigest(p)
  <2> DEFINE t == x.tag
             stamp == Stamped(Value(t))
  <2>1. t \in Tags
    BY <1>1, <1>5 DEF ResolveDigest, At, Shaped
  <2>2. Backed(t, stamp)
    <3>1. \A u \in Times : u < now => past[t][u] <= Value(t)
      BY <1>1, <2>1, ValueIsLatest, Bounds DEF TypeOK
    <3>2. QED
      BY <2>1, <3>1, StampedBacked, Bounds
  <2>3. index' = index /\ choice' = choice
        /\ (digests' = digests \/ digests' = [x.digests EXCEPT ![t] = stamp])
    BY <1>5 DEF ResolveDigest
  <2>4. \A s \in Tags : Backed(s, digests'[s])
    BY <1>1, <2>1, <2>2, <2>3, ProcessTyped DEF BackedDisk, Remembers
  <2>5. QED
    BY <1>1, <1>2, <2>3, <2>4 DEF BackedDisk, Backed
<1>6. CASE SelectTag(p)
  <2> DEFINE stamp == Stamped(Value(TagList))
  <2>1. Backed(TagList, stamp)
    <3>1. \A u \in Times : u < now => past[TagList][u] <= Value(TagList)
      BY <1>1, ValueIsLatest, Bounds DEF TypeOK
    <3>2. QED
      BY <3>1, StampedBacked, Bounds
  <2>2. index' = index /\ digests' = digests /\ (choice' = choice \/ choice' = stamp)
    BY <1>6 DEF SelectTag
  <2>3. Backed(TagList, choice')
    BY <1>1, <2>1, <2>2 DEF BackedDisk
  <2>4. QED
    BY <1>1, <1>2, <2>2, <2>3 DEF BackedDisk, Backed
<1>7. CASE UNCHANGED <<index, digests, choice>>
  BY <1>1, <1>2, <1>7 DEF BackedDisk, Backed
<1>8. QED
  BY <1>4, <1>5, <1>6, <1>7, DiskStep

LEMMA AgeStep ==
  ASSUME TypeInv, AgeInv, NEW p \in Procs, Step(p)
  PROVE  AgeInv'
<1> DEFINE x == proc[p]  y == proc'[p]
<1>1. /\ TypeOK /\ x \in Process /\ Shaped(x) /\ BackedDisk
      /\ Remembers(x) /\ Registered(p, x) /\ Selected(p, x)
  BY DEF TypeInv, TypeOK, Shapes, AgeInv
<1>2. now' = now /\ past' = past /\ now \in Times
  BY <1>1, StepWorld DEF upstream, TypeOK
<1>3. /\ x.begun \in Times /\ x.asked \in Times /\ x.begun <= now /\ x.asked <= now
      /\ \A t \in Tags : x.digests[t] \in Entry \cup {None} /\ Backed(t, x.digests[t])
      /\ x.choice \in Entry \cup {None} /\ Backed(TagList, x.choice)
      /\ x.registered \in SUBSET Repos
      /\ \A r \in Repos : index[r] \in Entry \cup {None} /\ Backed(r, index[r])
  BY <1>1, ProcessTyped DEF Remembers, BackedDisk, TypeOK
<1>4. BackedDisk' /\ \A q \in Procs, time \in Times, r \in Repos :
                       Young(q, time, index[r]) => Young(q, time, index'[r])
  BY AgeDisk
<1>5. ASSUME NEW q \in Procs, q # p
      PROVE  (Remembers(proc[q]) /\ Registered(q, proc[q]) /\ Selected(q, proc[q]))'
  <2> DEFINE z == proc[q]
  <2>1. z \in Process /\ Shaped(z) /\ Remembers(z) /\ Registered(q, z) /\ Selected(q, z)
    BY DEF TypeInv, TypeOK, Shapes, AgeInv
  <2>2. proc'[q] = z
    BY <1>1, <1>5, Others
  <2>3. Remembers(z)' /\ Selected(q, z)'
    BY <1>2, <2>1, <2>2 DEF Remembers, Selected, Recent, Since, Backed, Age
  <2>4. z.begun \in Times /\ z.registered \in SUBSET Repos
        /\ (z.pc \in {"persist", "locate"} => z.want[2] \in Repos)
    BY <2>1, ProcessTyped, ChartFacts DEF Shaped, Registering
  <2>5. Registered(q, z)'
    BY <1>4, <2>1, <2>2, <2>4 DEF Registered, Young, Age
  <2>6. QED
    BY <2>3, <2>5
<1>6. x.pc \in Registering => x.want[2] \in Repos /\ x.want \in Http /\ x.want \notin Floating
  BY <1>1, ChartFacts DEF Shaped
(* What p remembers.                                                       *)
<1>7. ASSUME KeepsCall(x, y), y.digests = x.digests \/ ResolveDigest(p),
             y.choice = x.choice \/ SelectTag(p),
             y.pc = "write" => DownloadIndex(p)
      PROVE  Remembers(proc[p])'
  <2>1. y.begun <= now /\ y.asked <= now
    BY <1>3, <1>7 DEF KeepsCall
  <2>2. \A t \in Tags : Backed(t, y.digests[t])
    <3>1. CASE ResolveDigest(p)
      <4>1. x.tag \in Tags
        BY <1>1, <3>1 DEF ResolveDigest, At, Shaped
      <4>2. y.digests = [x.digests EXCEPT ![x.tag] = Stamped(Value(x.tag))]
        BY <1>1, <3>1, ResolveDigestEffect
      <4>3. Backed(x.tag, Stamped(Value(x.tag)))
        <5>1. \A u \in Times : u < now => past[x.tag][u] <= Value(x.tag)
          BY <1>2, <4>1, ValueIsLatest, Bounds
        <5>2. QED
          BY <4>1, <5>1, StampedBacked, Bounds
      <4>4. QED
        BY <1>1, <1>3, <4>1, <4>2, <4>3, ProcessTyped
    <3>2. QED
      BY <1>3, <1>7, <3>1
  <2>3. Backed(TagList, y.choice)
    <3>1. CASE SelectTag(p)
      <4>1. y.choice \in {x.choice, Stamped(Value(TagList))}
        BY <1>1, <3>1, SelectTagEffect DEF Failed, KeepsMemory
      <4>2. Backed(TagList, Stamped(Value(TagList)))
        <5>1. \A u \in Times : u < now => past[TagList][u] <= Value(TagList)
          BY <1>2, ValueIsLatest, Bounds
        <5>2. QED
          BY <5>1, StampedBacked, Bounds
      <4>3. QED
        BY <1>3, <4>1, <4>2
    <3>2. QED
      BY <1>3, <1>7, <3>1
  <2>4. y.pc = "write" => \A u \in Times : u < now => past[y.want[2]][u] <= y.got
    <3>1. SUFFICES ASSUME DownloadIndex(p), NEW u \in Times, u < now
                   PROVE  past[y.want[2]][u] <= y.got
      BY <1>7
    <3>2. y.got = Value(x.want[2]) /\ y.want = x.want /\ x.want[2] \in Sources
      BY <1>1, <1>6, <3>1, DownloadIndexEffect, Bounds DEF KeepsCall, DownloadIndex, At, Registering
    <3>3. QED
      BY <1>2, <3>1, <3>2, ValueIsLatest, Bounds
  <2>5. QED
    BY <1>2, <2>1, <2>2, <2>3, <2>4 DEF Remembers, Backed
(* What p registered.                                                      *)
<1>8. ASSUME y.begun = x.begun, y.stale \cap Repos = x.stale \cap Repos,
             y.registered = x.registered, y.pc \notin {"persist", "locate"}
      PROVE  Registered(p, proc[p])'
  BY <1>1, <1>3, <1>4, <1>8 DEF Registered, Young, Age
(* What p selected.                                                        *)
<1>9. ASSUME y.pc \notin {"digest", "pull", "done"} PROVE Selected(p, proc[p])'
  BY <1>9 DEF Selected
<1>10. Failed(x, y) => (Remembers(proc[p]) /\ Registered(p, proc[p]) /\ Selected(p, proc[p]))'
  BY <1>7, <1>8, <1>9 DEF Failed, KeepsMemory, KeepsRepos, KeepsCall
<1>11. (Remembers(proc[p]) /\ Registered(p, proc[p]) /\ Selected(p, proc[p]))'
  <2>1. CASE Start(p)
    <3>1. /\ y.pc = "idle" /\ y.begun = now /\ y.asked = 0 /\ y.digests = digests
          /\ y.choice = choice /\ y.registered = {}
      BY <1>1, <2>1, StartEffect
    <3>2. 0 <= now
      BY <1>2, Bounds
    <3>3. QED
      BY <1>1, <1>2, <3>1, <3>2, Bounds DEF Remembers, Registered, Selected, BackedDisk, Backed
  <2>2. CASE Exit(p)
    <3>1. y = Down
      BY <1>1, <2>2, ExitEffect
    <3>2. Down.digests = NoDigests /\ Down.choice = None /\ Down.begun = 0 /\ Down.asked = 0
          /\ Down.pc = "down" /\ Down.registered = {}
      BY DEF Down
    <3>3. 0 <= now
      BY <1>2, Bounds
    <3>4. QED
      BY <1>2, <3>1, <3>2, <3>3 DEF Remembers, Registered, Selected, Backed, NoDigests
  <2>3. ASSUME NEW w \in fleet[p], Resolve(p, w)
        PROVE  (Remembers(proc[p]) /\ Registered(p, proc[p]) /\ Selected(p, proc[p]))'
    <3>1. /\ w \in Charts /\ y.want = w /\ y.asked = now /\ y.begun = x.begun
          /\ KeepsRepos(x, y) /\ KeepsMemory(x, y) /\ y.stale = x.stale
          /\ w \in Pinned => y.pc = "digest" /\ w \notin Floating
          /\ w \in Floating => y.pc = "select"
          /\ w \in Http => y.pc = "load" \/ (y.pc = "locate" /\ w[2] \in x.registered)
      BY <2>3, ResolveEffect, ChartFacts
    <3>2. y.pc \in {"digest", "select", "load", "locate"} /\ (y.pc = "digest" => w \notin Floating)
          /\ (y.pc = "locate" => w[2] \in x.registered)
      BY <3>1, ChartFacts
    <3>3. Remembers(proc[p])'
      BY <1>2, <1>3, <3>1, <3>2, Bounds DEF Remembers, KeepsMemory, Backed
    <3>4. Registered(p, proc[p])'
      BY <1>1, <1>3, <1>4, <3>1, <3>2 DEF Registered, Young, Age, KeepsRepos
    <3>5. Selected(p, proc[p])'
      BY <3>1, <3>2 DEF Selected
    <3>6. QED
      BY <3>3, <3>4, <3>5
  <2>4. CASE LoadRegistry(p)
    <3>1. /\ y.registered = x.registered /\ KeepsCall(x, y) /\ KeepsMemory(x, y)
             /\ y.stale = x.stale
          /\ y.pc = IF Fresh(p, index[x.want[2]]) THEN "persist" ELSE "refresh"
      BY <1>1, <2>4, LoadRegistryEffect
    <3>2. x.want[2] \in Repos
      BY <1>6, <2>4 DEF LoadRegistry, At, Registering
    <3>3. y.pc = "persist" => Young(p, x.begun, index[x.want[2]])
      BY <1>3, <3>1, <3>2, FreshIsYoung
    <3>4. Registered(p, proc[p])'
      BY <1>1, <1>3, <1>4, <3>1, <3>2, <3>3 DEF Registered, Young, Age, KeepsCall
    <3>5. QED
      BY <1>7, <1>9, <3>1, <3>4 DEF KeepsMemory
  <2>5. CASE DownloadIndex(p)
    BY <1>1, <1>7, <1>8, <1>9, <2>5, DownloadIndexEffect DEF KeepsCall, KeepsRepos, KeepsMemory
  <2>6. CASE WriteIndex(p)
    <3>1. KeepsCall(x, y) /\ KeepsRepos(x, y) /\ KeepsMemory(x, y) /\ y.stale = x.stale
          /\ y.pc = "persist"
      BY <1>1, <2>6, WriteIndexEffect
    <3>2. x.want[2] \in Repos /\ index'[x.want[2]] = Stamped(x.got)
      BY <1>1, <1>6, <2>6 DEF WriteIndex, At, Registering, TypeOK
    <3>3. Young(p, x.begun, Stamped(x.got))
      <4>1. Stamped(x.got) # None /\ Stamped(x.got).at = now
        BY <1>1, <1>2, ProcessTyped, Bounds DEF Stamped, Entry
      <4>2. QED
        BY <1>2, <1>3, <4>1, AgeFacts, Bounds DEF Young
    <3>4. Registered(p, proc[p])'
      BY <1>1, <1>3, <1>4, <3>1, <3>2, <3>3 DEF Registered, Young, Age, KeepsCall, KeepsRepos
    <3>5. QED
      BY <1>7, <1>9, <3>1, <3>4 DEF KeepsMemory
  <2>7. CASE RefreshFails(p)
    <3>1. CASE index[x.want[2]] # None
      <4>1. KeepsCall(x, y) /\ KeepsRepos(x, y) /\ KeepsMemory(x, y)
            /\ y.stale = x.stale \cup {x.want[2]} /\ y.pc = "persist"
        BY <1>1, <2>7, <3>1, RefreshFailsEffect
      <4>2. Registered(p, proc[p])'
        BY <1>1, <1>3, <1>4, <4>1 DEF Registered, Young, Age, KeepsCall, KeepsRepos
      <4>3. QED
        BY <1>7, <1>9, <4>1, <4>2 DEF KeepsMemory
    <3>2. QED
      BY <1>1, <1>10, <2>7, <3>1, RefreshFailsEffect
  <2>8. CASE PersistEntry(p)
    <3>1. CASE /\ y.pc = "locate" /\ y.registered = x.registered \cup {x.want[2]}
               /\ KeepsCall(x, y) /\ KeepsMemory(x, y) /\ y.stale = x.stale
      <4>1. x.want[2] \in Repos /\ x.pc = "persist"
        BY <1>6, <2>8 DEF PersistEntry, At, Registering
      <4>2. Registered(p, proc[p])'
        BY <1>1, <1>3, <1>4, <3>1, <4>1 DEF Registered, Young, Age, KeepsCall
      <4>3. QED
        BY <1>7, <1>9, <3>1, <4>2 DEF KeepsMemory
    <3>2. QED
      BY <1>1, <1>10, <2>8, <3>1, PersistEntryEffect
  <2>9. CASE Locate(p)
    <3>1. CASE x.want[2] \in registry /\ index[x.want[2]] # None
      <4>1. y.pc = "pull" /\ y.chart = <<x.want[2], index[x.want[2]].val>>
            /\ KeepsCall(x, y) /\ KeepsRepos(x, y) /\ KeepsMemory(x, y) /\ y.stale = x.stale
        BY <1>1, <2>9, <3>1, LocateEffect
      <4>2. x.want[2] \in Repos /\ x.want \notin Floating /\ x.pc = "locate"
        BY <1>6, <2>9 DEF Locate, At, Registering
      <4>3. x.want[2] \notin x.stale => Recent(p, x.want[2], index[x.want[2]].val, x.begun)
        BY <1>1, <1>3, <3>1, <4>2, YoungIsRecent, Bounds DEF Registered
      <4>4. Selected(p, proc[p])'
        BY <1>2, <4>1, <4>2, <4>3 DEF Selected, Recent, Since, Age, KeepsCall
      <4>5. QED
        BY <1>7, <1>8, <4>1, <4>4 DEF KeepsCall, KeepsRepos, KeepsMemory
    <3>2. QED
      BY <1>1, <1>10, <2>9, <3>1, LocateEffect
  <2>10. CASE CachedTag(p)
    <3>1. y.pc = "digest" /\ y.tag = x.choice.val
          /\ KeepsCall(x, y) /\ KeepsRepos(x, y) /\ KeepsMemory(x, y) /\ y.stale = x.stale
      BY <1>1, <2>10, CachedTagEffect
    <3>2. Recent(p, TagList, x.choice.val, x.asked)
      BY <1>3, <2>10, FreshIsYoung, YoungIsRecent, Bounds DEF CachedTag
    <3>3. Selected(p, proc[p])'
      BY <1>2, <3>1, <3>2 DEF Selected, Recent, Age, KeepsCall
    <3>4. QED
      BY <1>7, <1>8, <3>1, <3>3 DEF KeepsCall, KeepsRepos, KeepsMemory
  <2>11. CASE SelectTag(p)
    <3>1. CASE Value(TagList) # 0
      <4>1. y.pc = "digest" /\ y.tag = Value(TagList) /\ y.digests = x.digests
            /\ KeepsCall(x, y) /\ KeepsRepos(x, y) /\ y.stale = x.stale \ {TagList}
        BY <1>1, <2>11, <3>1, SelectTagEffect
      <4>2. Recent(p, TagList, Value(TagList), x.asked)
        BY <1>3, LatestIsRecent, Bounds
      <4>3. Selected(p, proc[p])'
        BY <1>2, <4>1, <4>2 DEF Selected, Recent, Age, KeepsCall
      <4>4. QED
        BY <1>7, <1>8, <2>11, <4>1, <4>3, Bounds DEF KeepsCall, KeepsRepos
    <3>2. QED
      BY <1>1, <1>10, <2>11, <3>1, SelectTagEffect
  <2>12. CASE TagsFail(p)
    <3>1. CASE x.choice # None
      <4>1. y.pc = "digest" /\ KeepsCall(x, y) /\ KeepsRepos(x, y) /\ KeepsMemory(x, y)
            /\ y.stale = x.stale \cup {TagList}
        BY <1>1, <2>12, <3>1, TagsFailEffect
      <4>2. Selected(p, proc[p])'
        BY <4>1 DEF Selected
      <4>3. QED
        BY <1>7, <1>8, <4>1, <4>2, Bounds DEF KeepsCall, KeepsRepos, KeepsMemory
    <3>2. QED
      BY <1>1, <1>10, <2>12, <3>1, TagsFailEffect
  (* The digest: what is pulled is as recent as its entry.                 *)
  <2>13. ASSUME x.pc = "digest", x.tag \in Tags, y.pc = "pull", y.chart[1] = x.tag, KeepsCall(x, y),
                TagList \notin y.stale => TagList \notin x.stale,
                x.tag \notin y.stale => Recent(p, x.tag, y.chart[2], x.asked)
         PROVE  Selected(p, proc[p])'
    <3>1. Since(y, x.tag) = x.asked
      BY <2>13, Bounds DEF Since, KeepsCall
    <3>2. y.want \in Floating /\ TagList \notin y.stale => Recent(p, TagList, x.tag, x.asked)
      BY <1>1, <2>13 DEF Selected, KeepsCall
    <3>3. y.asked = x.asked /\ y.want = x.want
      BY <2>13 DEF KeepsCall
    <3>4. QED
      BY <1>2, <2>13, <3>1, <3>2, <3>3 DEF Selected, Recent, Age, Since
  <2>14. CASE CachedDigest(p)
    <3>1. y.pc = "pull" /\ y.chart = <<x.tag, x.digests[x.tag].val>>
          /\ KeepsCall(x, y) /\ KeepsRepos(x, y) /\ KeepsMemory(x, y) /\ y.stale = x.stale
      BY <1>1, <2>14, CachedDigestEffect
    <3>2. x.pc = "digest" /\ x.tag \in Tags /\ x.tag \in Sources
      BY <1>1, <2>14, Bounds DEF CachedDigest, At, Shaped
    <3>3. Recent(p, x.tag, x.digests[x.tag].val, x.asked)
      BY <1>3, <2>14, <3>2, FreshIsYoung, YoungIsRecent DEF CachedDigest
    <3>4. Selected(p, proc[p])'
      BY <2>13, <3>1, <3>2, <3>3
    <3>5. QED
      BY <1>7, <1>8, <3>1, <3>4 DEF KeepsCall, KeepsRepos, KeepsMemory
  <2>15. CASE ResolveDigest(p)
    <3>1. y.pc = "pull" /\ y.chart = <<x.tag, Value(x.tag)>>
          /\ KeepsCall(x, y) /\ KeepsRepos(x, y) /\ y.choice = x.choice
             /\ y.stale = x.stale \ {x.tag}
      BY <1>1, <2>15, ResolveDigestEffect
    <3>2. x.pc = "digest" /\ x.tag \in Tags /\ x.tag \in Sources /\ x.tag # TagList
          /\ x.tag \notin Repos
      BY <1>1, <2>15, Bounds DEF ResolveDigest, At, Shaped
    <3>3. Recent(p, x.tag, Value(x.tag), x.asked)
      BY <1>3, <3>2, LatestIsRecent
    <3>4. Selected(p, proc[p])'
      BY <2>13, <3>1, <3>2, <3>3
    <3>5. QED
      BY <1>7, <1>8, <2>15, <3>1, <3>2, <3>4 DEF KeepsCall, KeepsRepos
  <2>16. CASE ResolveFails(p)
    <3>1. CASE x.digests[x.tag] # None
      <4>1. y.pc = "pull" /\ y.chart = <<x.tag, x.digests[x.tag].val>>
            /\ KeepsCall(x, y) /\ KeepsRepos(x, y) /\ KeepsMemory(x, y)
               /\ y.stale = x.stale \cup {x.tag}
        BY <1>1, <2>16, <3>1, ResolveFailsEffect
      <4>2. x.pc = "digest" /\ x.tag \in Tags /\ x.tag \notin Repos
        BY <1>1, <2>16, Bounds DEF ResolveFails, At, Shaped
      <4>3. Selected(p, proc[p])'
        BY <2>13, <4>1, <4>2
      <4>4. QED
        BY <1>7, <1>8, <4>1, <4>2, <4>3 DEF KeepsCall, KeepsRepos, KeepsMemory
    <3>2. QED
      BY <1>1, <1>10, <2>16, <3>1, ResolveFailsEffect
  <2>17. CASE Cached(p) \/ Pull(p)
    <3>1. KeepsCall(x, y) /\ KeepsRepos(x, y) /\ KeepsMemory(x, y)
          /\ y.stale = x.stale /\ y.chart = x.chart /\ y.pc \in {"done", "failed"}
      BY <1>1, <2>17, PullEffect
    <3>2. x.pc = "pull"
      BY <2>17 DEF Cached, Pull, At
    <3>3. Selected(p, proc[p])'
      BY <1>1, <1>2, <3>1, <3>2 DEF Selected, Recent, Age, Since, KeepsCall
    <3>4. QED
      BY <1>7, <1>8, <3>1, <3>3 DEF KeepsCall, KeepsRepos, KeepsMemory
  <2>18. QED
    BY <2>1, <2>2, <2>3, <2>4, <2>5, <2>6, <2>7, <2>8, <2>9, <2>10, <2>11, <2>12, <2>14,
       <2>15, <2>16, <2>17 DEF Step
<1>12. QED
  BY <1>4, <1>5, <1>11 DEF AgeInv

LEMMA AgeNext == TypeInv /\ AgeInv /\ [Next]_vars => AgeInv'
<1> SUFFICES ASSUME TypeInv, AgeInv, [Next]_vars PROVE AgeInv'
  OBVIOUS
<1>1. CASE UNCHANGED vars
  BY <1>1, AgeWorld DEF vars, upstream
<1>2. CASE Tick
  BY <1>2, AgeWorld DEF Tick, At
<1>3. ASSUME NEW s \in Sources, Publish(s) PROVE AgeInv'
  BY <1>3, AgeWorld DEF Publish
<1>4. QED
  BY <1>1, <1>2, <1>3, AgeStep DEF Next

LEMMA RecentIsHeld ==
  ASSUME TypeInv, NEW p \in Procs, NEW s \in Sources, NEW v \in Nat,
         Trusted(p, s) \in Times, Recent(p, s, v, Trusted(p, s))
  PROVE  v >= Held(p, s)
<1> DEFINE time == Trusted(p, s)
<1>1. time \in Nat /\ time <= MaxTime /\ Age(p) \in Nat
  BY AgeFacts, Bounds DEF Times
<1> HIDE DEF time
<1>2. CASE Age(p) > time
  BY <1>1, <1>2 DEF Held, Age, time
<1>3. CASE ~(Age(p) > time)
  <2>1. time - Age(p) \in Times /\ (time - Age(p)) + Age(p) <= time
    BY <1>1, <1>3, Bounds DEF Times
  <2>2. past[s][time - Age(p)] <= v
    BY <2>1 DEF Recent, time
  <2>3. Held(p, s) = past[s][time - Age(p)]
    BY <1>3 DEF Held, Age, time
  <2>4. past[s][time - Age(p)] \in Nat
    BY <2>1, Bounds DEF TypeInv, TypeOK
  <2>5. QED
    BY <2>2, <2>3, <2>4
<1>4. QED
  BY <1>2, <1>3

(* WithinTTL: for any processes, TTLs and upstream history, a chart that   *)
(* was resolved without a failed refresh is at most the TTL of its process *)
(* behind its source, and so is the tag chosen for it, although the        *)
(* entries used may be another process's, with another TTL (fetchIndex,    *)
(* resolveOCIDigest).                                                      *)
THEOREM ChartsAreWithinTTL == Spec => []WithinTTL
<1>1. TypeInv /\ AgeInv => WithinTTL
  <2> SUFFICES ASSUME TypeInv, AgeInv, NEW p \in Procs, At(p, "done")
               PROVE  LET s == proc[p].chart[1] IN
                      /\ s \notin proc[p].stale => proc[p].chart[2] >= Held(p, s)
                      /\ proc[p].want \in Floating /\ TagList \notin proc[p].stale
                           => s >= Held(p, TagList)
    BY DEF WithinTTL
  <2> DEFINE x == proc[p]
             s == x.chart[1]
  <2>1. x \in Process /\ Selected(p, x)
    BY DEF TypeInv, TypeOK, AgeInv
  <2>2. /\ s \in Sources /\ x.chart[2] \in Nat
        /\ Trusted(p, s) = Since(x, s) /\ Trusted(p, s) \in Times
        /\ Trusted(p, TagList) = x.asked /\ x.asked \in Times
    BY <2>1, ProcessTyped, Bounds DEF Trusted, Since
  <2>3. s \notin x.stale => x.chart[2] >= Held(p, s)
    BY <2>1, <2>2, RecentIsHeld DEF Selected, At
  <2>4. x.want \in Floating /\ TagList \notin x.stale => s >= Held(p, TagList)
    BY <2>1, <2>2, RecentIsHeld, Bounds DEF Selected, At
  <2>5. QED
    BY <2>3, <2>4
<1>2. QED
  BY <1>1, TypeInit, TypeNext, AgeInit, AgeNext, PTL DEF Spec
=============================================================================

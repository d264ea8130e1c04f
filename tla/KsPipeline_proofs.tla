--------------------------- MODULE KsPipeline_proofs ---------------------------
(***************************************************************************)
(* Proofs about the Kustomization walk, for every fleet, every repository  *)
(* content and every depth bound.                                          *)
(***************************************************************************)
EXTENDS KsPipeline, TLAPS

(***************************************************************************)
(* TypeOK: in particular the depth never reaches maxDepth.                 *)
(***************************************************************************)
LEMMA TypeInit == Init => TypeOK
<1> SUFFICES ASSUME Init PROVE TypeOK
  OBVIOUS
<1>1. depth \in 0 .. MaxDepth - 1
  BY ConstantsAssumption DEF ConstantsAssumption, Init
<1>2. QED
  BY <1>1, ConstantsAssumption DEF ConstantsAssumption, World, Init, TypeOK

LEMMA TypeNext == TypeOK /\ [Next]_vars => TypeOK'
<1> SUFFICES ASSUME TypeOK, [Next]_vars PROVE TypeOK'
  OBVIOUS
<1> USE ConstantsAssumption DEF ConstantsAssumption, TypeOK
<1>1. CASE ResolveSources
  <2>1. {NoRepo} \X world.overlays \subseteq Locations
    BY DEF World, Locations, Sources
  <2>2. QED
    BY <1>1, <2>1 DEF ResolveSources, BrokenOverlays, repoVars, walkVars,
       reportVars
<1>2. CASE Cancel
  BY <1>2 DEF Cancel, repoVars, walkVars, buildVars, reportVars
<1>3. ASSUME NEW d \in Decls, Process(d) PROVE TypeOK'
  <2>1. CASE Skip(d)
    BY <2>1 DEF Skip, repoVars, buildVars, reportVars
  <2>2. CASE NothingToBuild(d)
    BY <2>2 DEF NothingToBuild, Due, RecordBare, Record, repoVars, reportVars,
       Result, Forms, Sources
  <2>3. CASE FetchFails(d)
    BY <2>3 DEF FetchFails, Due, RecordBare, Record, repoVars, Result, Forms,
       Sources, IsExternal
  <2>4. CASE PathMissing(d)
    BY <2>4 DEF PathMissing, Due, RecordBare, Record, repoVars, Result, Forms,
       Sources, IsExternal, SourceOf, AllowClone
  <2>5. CASE BuildFails(d)
    BY <2>5 DEF BuildFails, Due, RecordBare, Record, repoVars, reportVars,
       Result, Forms, Sources, IsExternal, SourceOf, AllowClone, LocationOf,
       Locations
  <2>t. PathOf[d] # NoPath => world.tree[LocationOf(d)] \in Tree
    BY DEF World, LocationOf, Locations, SourceOf, IsExternal, Sources
  <2>6. CASE Build(d)
    BY <2>6, <2>t DEF Build, Due, Record, Discover, repoVars, reportVars,
       Result, Forms, Sources, IsExternal, SourceOf, AllowClone, LocationOf,
       Locations, Tree
  <2>7. CASE CancelledInside(d)
    BY <2>7 DEF CancelledInside, Due, RecordBare, Record, repoVars, Result,
       Forms, Sources, IsExternal, SourceOf, AllowClone, LocationOf, Locations
  <2>8. CASE CancelledGathering(d)
    <3>1. CASE RecordBare(d, SourceOf(d)) /\ UNCHANGED <<discovered, knownRepos, failed>>
      BY <2>8, <3>1 DEF CancelledGathering, Due, RecordBare, Record, repoVars,
         reportVars, Result, Forms, Sources, IsExternal, SourceOf, AllowClone
    <3>2. ASSUME NEW emits \in SUBSET world.tree[LocationOf(d)].emits,
                 NEW sources \in SUBSET world.tree[LocationOf(d)].sources,
                 Record(d, SourceOf(d), "cut", emits), Discover(emits, sources),
                 failed' = failed \cup {LocationOf(d)}
          PROVE  TypeOK'
      <4>1. PathOf[d] # NoPath /\ emits \subseteq Decls /\ sources \subseteq Repos
        BY <2>8, <2>t DEF CancelledGathering, Tree
      <4>2. SourceOf(d) \in Sources /\ LocationOf(d) \in Locations
        BY <4>1 DEF SourceOf, IsExternal, Sources, LocationOf, Locations
      <4>3. results' \subseteq Result /\ seen' \subseteq Keys /\ queue' \subseteq Decls
        BY <3>2, <4>1, <4>2 DEF Record, Result, Forms
      <4>4. knownRepos' \subseteq Repos /\ discovered' \subseteq Decls
        BY <3>2, <4>1 DEF Discover
      <4>5. allowed' \subseteq Repos /\ failed' \subseteq Locations
        BY <2>8, <3>2, <4>2 DEF CancelledGathering, AllowClone, IsExternal
      <4>6. UNCHANGED <<world, mode, pc, depth, missingPaths, fetchErrors, overlaid, exit>>
              /\ cancelled' = TRUE
        BY <2>8 DEF CancelledGathering, repoVars, reportVars
      <4>7. QED
        BY <4>3, <4>4, <4>5, <4>6
    <3>3. QED
      BY <2>8, <3>1, <3>2 DEF CancelledGathering
  <2>9. CASE Interrupted(d)
    BY <2>9 DEF Interrupted, repoVars, walkVars, buildVars, reportVars
  <2>10. QED
    BY <1>3, <2>1, <2>2, <2>3, <2>4, <2>5, <2>6, <2>7, <2>8, <2>9 DEF Process
<1>4. CASE EndLevel
  BY <1>4 DEF EndLevel, repoVars, walkVars, buildVars, reportVars
<1>5. CASE AppendOverlays
  BY <1>5 DEF AppendOverlays, repoVars, walkVars, buildVars, reportVars,
     World
<1>6. CASE Finish
  BY <1>6 DEF Finish, repoVars, walkVars, buildVars, reportVars
<1>7. CASE UNCHANGED vars
  BY <1>7 DEF vars, repoVars, walkVars, buildVars, reportVars
<1>8. QED
  BY <1>1, <1>2, <1>3, <1>4, <1>5, <1>6, <1>7 DEF Next, Run

THEOREM TypeCorrect == Spec => []TypeOK
<1>1. QED
  BY TypeInit, TypeNext, PTL DEF Spec

-----------------------------------------------------------------------------
(***************************************************************************)
(* The inductive invariant of the walk.  A declared, active document is    *)
(* accounted for level by level: what was emitted above the current level  *)
(* is processed or in the queue, what the current level emitted is         *)
(* processed or in discovered.                                             *)
(***************************************************************************)
Frontier ==
  pc \in {"sources", "walk"} => \A d \in Decls \ Suspended :
    /\ d \in Listed => KeyOf[d] \in seen \/ d \in queue
    /\ \A r \in results : d \in Emitted(r) =>
         \/ KeyOf[d] \in seen
         \/ r.depth < depth /\ d \in queue
         \/ r.depth = depth /\ d \in discovered

WalkInv ==
  /\ seen = {KeyOf[r.decl] : r \in results}
  /\ OneResultPerKey
  /\ queue \cup discovered \subseteq Declared
  /\ Declared \subseteq Decls
  /\ \A r \in results : r.decl \in Declared \ Suspended
  /\ \A r \in results : r.depth <= depth
  /\ Frontier
  /\ ShallowNeverDropped

(***************************************************************************)
(* What the seven ways of processing a document have in common: one result   *)
(* for it, and the unseen part of what it emitted added to discovered.     *)
(***************************************************************************)
Records(d) ==
  /\ Due(d)
  /\ pc' = "walk" /\ world' = world /\ depth' = depth
  /\ seen' = seen \cup {KeyOf[d]}
  /\ queue' = queue \ {d}
  /\ \E n \in Result :
       /\ n.decl = d
       /\ n.depth = depth
       /\ Emitted(n) \subseteq Decls
       /\ results' = results \cup {n}
       /\ discovered' = discovered \cup {e \in Emitted(n) : KeyOf[e] \notin seen'}

Recording(d) ==
  \/ NothingToBuild(d) \/ FetchFails(d) \/ PathMissing(d)
  \/ BuildFails(d) \/ Build(d) \/ CancelledInside(d) \/ CancelledGathering(d)

LEMMA RecordingRecords ==
  ASSUME TypeOK, NEW d \in Decls, Recording(d) PROVE Records(d)
<1> USE ConstantsAssumption DEF ConstantsAssumption, TypeOK
<1>1. Due(d) /\ pc' = "walk" /\ world' = world /\ depth' = depth
  BY DEF Recording, NothingToBuild, FetchFails, PathMissing, BuildFails,
     Build, CancelledInside, CancelledGathering, Due, repoVars
<1>2. ASSUME NEW src \in Sources, NEW form \in Forms, NEW emits \in SUBSET Decls,
             Record(d, src, form, emits),
             discovered' = discovered \cup {e \in emits : KeyOf[e] \notin seen'}
      PROVE  Records(d)
  <2> DEFINE n == [decl |-> d, src |-> src, form |-> form, depth |-> depth,
                   emits |-> emits]
  <2>1. n \in Result /\ Emitted(n) = emits
    BY DEF Result, Emitted
  <2>2. results' = results \cup {n}
    BY <1>2 DEF Record
  <2>3. seen' = seen \cup {KeyOf[d]} /\ queue' = queue \ {d}
    BY <1>2 DEF Record
  <2>4. QED
    BY <1>1, <1>2, <2>1, <2>2, <2>3 DEF Records
<1>3. ASSUME NEW src \in Sources, RecordBare(d, src), discovered' = discovered
      PROVE  Records(d)
  BY <1>2, <1>3 DEF RecordBare, Forms
<1>4. SourceOf(d) \in Sources /\ NoRepo \in Sources /\ RepoOf[d] \in Sources
  BY DEF SourceOf, IsExternal, Sources
<1>5. PathOf[d] # NoPath => world.tree[LocationOf(d)].emits \subseteq Decls
  <2>1. PathOf[d] # NoPath => world.tree[LocationOf(d)] \in Tree
    BY <1>4 DEF World, LocationOf, Locations
  <2>2. QED
    BY <2>1 DEF Tree
<1>6. CASE Build(d)
  BY <1>2, <1>4, <1>5, <1>6 DEF Build, Discover, Forms
<1>7. CASE CancelledGathering(d)
  <2>1. CASE RecordBare(d, SourceOf(d)) /\ UNCHANGED <<discovered, knownRepos, failed>>
    BY <1>3, <1>4, <2>1
  <2>2. ASSUME NEW emits \in SUBSET world.tree[LocationOf(d)].emits,
               NEW sources, Record(d, SourceOf(d), "cut", emits),
               Discover(emits, sources)
        PROVE  Records(d)
    BY <1>2, <1>4, <1>5, <1>7, <2>2 DEF CancelledGathering, Discover, Forms
  <2>3. QED
    BY <1>7, <2>1, <2>2 DEF CancelledGathering
<1>8. CASE NothingToBuild(d)
  BY <1>3, <1>4, <1>8 DEF NothingToBuild
<1>9. CASE FetchFails(d)
  BY <1>3, <1>4, <1>9 DEF FetchFails
<1>10. CASE PathMissing(d)
  BY <1>3, <1>4, <1>10 DEF PathMissing
<1>11. CASE BuildFails(d)
  BY <1>3, <1>4, <1>11 DEF BuildFails
<1>12. CASE CancelledInside(d)
  BY <1>3, <1>4, <1>12 DEF CancelledInside
<1>13. QED
  BY <1>6, <1>7, <1>8, <1>9, <1>10, <1>11, <1>12 DEF Recording

-----------------------------------------------------------------------------
(* A step that leaves the walk's variables alone cannot disturb WalkInv,   *)
(* as long as it stays within the walk or within what follows it.          *)
LEMMA WalkInvKept ==
  ASSUME WalkInv, UNCHANGED <<world, walkVars, results>>,
         pc' \in {"overlays", "report"} => pc \in {"overlays", "report"},
         pc' \in {"sources", "walk"} => pc \in {"sources", "walk"}
  PROVE  WalkInv'
<1>1. \A r : Emitted(r)' = Emitted(r)
  BY DEF Emitted
<1>2. Declared' = Declared
  BY <1>1 DEF Declared
<1>3. QED
  BY <1>1, <1>2 DEF WalkInv, walkVars, OneResultPerKey, Frontier,
     ShallowNeverDropped

LEMMA WalkInvRecords ==
  ASSUME TypeOK, WalkInv, NEW d \in Decls, Records(d)
  PROVE  WalkInv'
<1> USE ConstantsAssumption DEF ConstantsAssumption, TypeOK
<1>1. PICK n \in Result :
        /\ n.decl = d
        /\ n.depth = depth
        /\ Emitted(n) \subseteq Decls
        /\ results' = results \cup {n}
        /\ discovered' = discovered \cup {e \in Emitted(n) : KeyOf[e] \notin seen'}
  BY DEF Records
<1>2. \A r : Emitted(r)' = Emitted(r)
  BY DEF Records, Emitted
<1>3. Declared' = Declared \cup Emitted(n)
  BY <1>1, <1>2 DEF Declared
<1>4. d \in queue /\ KeyOf[d] \notin seen /\ d \notin Suspended
  BY DEF Records, Due
<1>5. seen' = seen \cup {KeyOf[d]} /\ queue' = queue \ {d} /\ depth' = depth
  BY DEF Records
<1>6. (seen = {KeyOf[r.decl] : r \in results})'
  BY <1>1, <1>5 DEF WalkInv
<1>7. OneResultPerKey'
  BY <1>1, <1>4 DEF WalkInv, OneResultPerKey
<1>8. (queue \cup discovered \subseteq Declared /\ Declared \subseteq Decls)'
  BY <1>1, <1>3, <1>5 DEF WalkInv
<1>9. (\A r \in results : r.decl \in Declared \ Suspended)'
  BY <1>1, <1>3, <1>4 DEF WalkInv
<1>10. (\A r \in results : r.depth <= depth)'
  BY <1>1, <1>5 DEF WalkInv
<1>11. Frontier'
  <2> SUFFICES ASSUME NEW e \in Decls \ Suspended
               PROVE  /\ e \in Listed => KeyOf[e] \in seen' \/ e \in queue'
                      /\ \A r \in results' : e \in Emitted(r) =>
                           \/ KeyOf[e] \in seen'
                           \/ r.depth < depth' /\ e \in queue'
                           \/ r.depth = depth' /\ e \in discovered'
    BY <1>2 DEF Frontier
  <2>1. pc = "walk" /\ Frontier
    BY DEF Records, Due, WalkInv
  <2>2. e \in Listed => KeyOf[e] \in seen' \/ e \in queue'
    BY <1>5, <2>1 DEF Frontier
  <2>3. ASSUME NEW r \in results, e \in Emitted(r)
        PROVE  \/ KeyOf[e] \in seen'
               \/ r.depth < depth' /\ e \in queue'
               \/ r.depth = depth' /\ e \in discovered'
    BY <1>1, <1>5, <2>1, <2>3 DEF Frontier
  <2>4. e \in Emitted(n) => KeyOf[e] \in seen' \/ e \in discovered'
    BY <1>1
  <2>5. QED
    BY <1>1, <1>5, <2>2, <2>3, <2>4
<1>12. ShallowNeverDropped'
  BY DEF Records, ShallowNeverDropped
<1>13. QED
  BY <1>6, <1>7, <1>8, <1>9, <1>10, <1>11, <1>12 DEF WalkInv

LEMMA WalkInvSkip ==
  ASSUME TypeOK, WalkInv, NEW d \in Decls, Skip(d)
  PROVE  WalkInv'
<1>1. \A r : Emitted(r)' = Emitted(r)
  BY DEF Skip, repoVars, Emitted
<1>2. Declared' = Declared /\ results' = results
  BY <1>1 DEF Declared, Skip, buildVars
<1>3. Frontier'
  BY <1>1, <1>2 DEF WalkInv, Frontier, Skip
<1>4. QED
  BY <1>1, <1>2, <1>3 DEF WalkInv, OneResultPerKey, ShallowNeverDropped, Skip

LEMMA WalkInvEndLevel ==
  ASSUME TypeOK, WalkInv, EndLevel
  PROVE  WalkInv'
<1> USE ConstantsAssumption DEF ConstantsAssumption, TypeOK
<1>1. \A r : Emitted(r)' = Emitted(r)
  BY DEF EndLevel, repoVars, Emitted
<1>2. Declared' = Declared /\ results' = results
  BY <1>1 DEF Declared, EndLevel, buildVars
<1>3. \A r \in results : r \in Result /\ r.depth \in Nat
  BY DEF Result
<1>4. CASE discovered = {} \/ depth + 1 = MaxDepth
  <2>1. UNCHANGED walkVars /\ pc' = "overlays" /\ queue = {} /\ pc = "walk"
    BY <1>4 DEF EndLevel
  <2>2. ShallowNeverDropped'
    <3> SUFFICES ASSUME NEW d \in Decls \ Suspended,
                        \/ d \in Listed
                        \/ \E r \in results :
                              d \in Emitted(r) /\ r.depth + 1 < MaxDepth
                 PROVE  \E r \in results : KeyOf[r.decl] = KeyOf[d]
      BY <1>1, <1>2 DEF ShallowNeverDropped
    <3>1. KeyOf[d] \in seen
      BY <1>3, <1>4, <2>1 DEF WalkInv, Frontier
    <3>2. QED
      BY <3>1 DEF WalkInv
  <2>3. QED
    BY <1>1, <1>2, <2>1, <2>2 DEF WalkInv, walkVars, OneResultPerKey, Frontier
<1>5. CASE discovered # {} /\ depth + 1 # MaxDepth
  <2>1. /\ depth' = depth + 1 /\ queue' = discovered /\ discovered' = {}
        /\ pc' = pc /\ seen' = seen /\ queue = {} /\ pc = "walk"
    BY <1>5 DEF EndLevel
  <2>2. Frontier'
    BY <1>1, <1>2, <1>3, <2>1 DEF WalkInv, Frontier
  <2>3. (\A r \in results : r.depth <= depth)'
    BY <1>2, <1>3, <2>1 DEF WalkInv
  <2>4. QED
    BY <1>1, <1>2, <2>1, <2>2, <2>3 DEF WalkInv, OneResultPerKey,
       ShallowNeverDropped
<1>6. QED
  BY <1>4, <1>5

LEMMA WalkInvInit == Init => WalkInv
  BY ConstantsAssumption DEF ConstantsAssumption, Init, WalkInv, OneResultPerKey, Declared,
       Frontier, ShallowNeverDropped

LEMMA WalkInvNext == TypeOK /\ WalkInv /\ [Next]_vars => WalkInv'
<1> SUFFICES ASSUME TypeOK, WalkInv, [Next]_vars PROVE WalkInv'
  OBVIOUS
<1>1. ASSUME NEW d \in Decls, Process(d) PROVE WalkInv'
  <2>1. CASE Recording(d)
    BY <2>1, RecordingRecords, WalkInvRecords
  <2>2. CASE Skip(d)
    BY <2>2, WalkInvSkip
  <2>3. CASE Interrupted(d)
    BY <2>3, WalkInvKept DEF Interrupted, repoVars, walkVars, buildVars
  <2>4. QED
    BY <1>1, <2>1, <2>2, <2>3 DEF Process, Recording
<1>2. CASE EndLevel
  BY <1>2, WalkInvEndLevel
<1>3. CASE ResolveSources
  BY <1>3, WalkInvKept DEF ResolveSources, repoVars
<1>4. CASE Cancel
  BY <1>4, WalkInvKept DEF Cancel, repoVars, buildVars
<1>5. CASE AppendOverlays
  BY <1>5, WalkInvKept DEF AppendOverlays, repoVars, buildVars
<1>6. CASE Finish
  BY <1>6, WalkInvKept DEF Finish, repoVars, buildVars
<1>7. CASE UNCHANGED vars
  BY <1>7, WalkInvKept DEF vars, repoVars, buildVars
<1>8. QED
  BY <1>1, <1>2, <1>3, <1>4, <1>5, <1>6, <1>7 DEF Next, Run

(***************************************************************************)
(* A key is built at most once, whatever the repository declares.          *)
(***************************************************************************)
THEOREM KeysBuiltOnce == Spec => []OneResultPerKey
<1>1. WalkInv => OneResultPerKey
  BY DEF WalkInv
<1>2. QED
  BY <1>1, TypeInit, TypeNext, WalkInvInit, WalkInvNext, PTL DEF Spec

(***************************************************************************)
(* No active Kustomization declared above the last level is lost.          *)
(***************************************************************************)
THEOREM NothingShallowDropped == Spec => []ShallowNeverDropped
<1>1. WalkInv => ShallowNeverDropped
  BY DEF WalkInv
<1>2. QED
  BY <1>1, TypeInit, TypeNext, WalkInvInit, WalkInvNext, PTL DEF Spec

-----------------------------------------------------------------------------
(***************************************************************************)
(* The report: what is missing from the output is accounted for from the   *)
(* moment its result is recorded, and a green validation found neither a   *)
(* failed directory nor a missing path, and was not cancelled before it had*)
(* something to check.                                                     *)
(***************************************************************************)
ReportInv ==
  /\ BareIsAccounted
  /\ pc = "sources" => results = {}
  /\ exit = "ok" => pc = "done"
  /\ mode = "validate" /\ exit = "ok" => GatePasses /\ (cancelled => results = {})
  /\ world.known \subseteq knownRepos
  /\ KnownSourceIsNeverLocal

(* Recording a result keeps the reports of the earlier ones.               *)
LEMMA ReportInvRecords ==
  ASSUME TypeOK, ReportInv, NEW d \in Decls, Recording(d)
  PROVE  ReportInv'
<1> USE ConstantsAssumption DEF ConstantsAssumption, TypeOK
<1> USE DEF IsExternal, SourceOf, LocationOf
<1>w. world' = world
  BY DEF Recording, NothingToBuild, FetchFails, PathMissing, BuildFails, Build,
     CancelledInside, CancelledGathering, repoVars
<1> DEFINE Made(src, form, emits) ==
             [decl |-> d, src |-> src, form |-> form, depth |-> depth, emits |-> emits]
           Adds(n) == /\ results' = results \cup {n}
                      /\ n.decl = d
                      /\ n.src = SourceOf(d) \/ PathOf[d] = NoPath
                      /\ (Incomplete(n) => Accounted(n))'
<1>1. \E n : Adds(n)
  <2>0. NoRepo \in Sources /\ SourceOf(d) \in Sources /\ "bare" \in Forms
    BY DEF Sources, Forms
  <2>1. ASSUME NEW src, RecordBare(d, src), src = SourceOf(d) \/ PathOf[d] = NoPath,
               \/ PathOf[d] = NoPath
               \/ KeyOf[d] \in (fetchErrors \cup missingPaths)'
               \/ <<src, PathOf[d]>> \in failed'
               \/ world.tree[<<src, PathOf[d]>>].kind = "unreadable"
               \/ cancelled' /\ world.tree[<<src, PathOf[d]>>].kind \in Gathered
        PROVE  \E n : Adds(n)
    <3>1. PICK n : n = Made(src, "bare", {})
      OBVIOUS
    <3>2. results' = results \cup {n}
      BY <2>1, <3>1 DEF RecordBare, Record
    <3>3. Accounted(n)'
      BY <1>w, <2>1, <3>1 DEF Accounted, TreeOf
    <3>4. QED
      BY <2>1, <3>1, <3>2, <3>3
  <2>2. CASE NothingToBuild(d)
    BY <2>1, <2>2 DEF NothingToBuild
  <2>3. CASE FetchFails(d)
    BY <2>1, <2>3 DEF FetchFails
  <2>4. CASE PathMissing(d)
    BY <2>1, <2>4 DEF PathMissing
  <2>5. CASE BuildFails(d)
    BY <2>1, <2>5 DEF BuildFails, Outcome
  <2>6. CASE Build(d)
    <3>0. PICK n : n = Made(SourceOf(d),
                            IF d \in world.badPatches THEN "untransformed" ELSE "rendered",
                            world.tree[LocationOf(d)].emits)
      OBVIOUS
    <3>1. results' = results \cup {n} /\ ~(n.form \in {"bare", "cut"})
      BY <2>6, <3>0 DEF Build, Record
    <3>2. TreeOf(n) = "partial" => <<SourceOf(d), PathOf[d]>> \in failed'
      BY <2>6, <3>0 DEF Build, Outcome, TreeOf, Gathered
    <3>3. (Incomplete(n) => Accounted(n))'
      BY <1>w, <3>0, <3>1, <3>2 DEF Incomplete, Accounted, TreeOf
    <3>4. QED
      BY <3>0, <3>1, <3>3
  <2>7. CASE CancelledInside(d)
    BY <2>1, <2>7 DEF CancelledInside
  <2>8. CASE CancelledGathering(d)
    <3>1. CASE RecordBare(d, SourceOf(d))
      BY <2>1, <2>8, <3>1 DEF CancelledGathering
    <3>2. ASSUME NEW emits, Record(d, SourceOf(d), "cut", emits),
                 failed' = failed \cup {LocationOf(d)}
          PROVE  \E n : Adds(n)
      <4>1. PICK n : n = Made(SourceOf(d), "cut", emits)
        OBVIOUS
      <4>2. results' = results \cup {n}
        BY <3>2, <4>1 DEF Record
      <4>3. Accounted(n)'
        BY <3>2, <4>1 DEF Accounted
      <4>4. QED
        BY <4>1, <4>2, <4>3
    <3>3. QED
      BY <2>8, <3>1, <3>2 DEF CancelledGathering
  <2>9. QED
    BY <2>2, <2>3, <2>4, <2>5, <2>6, <2>7, <2>8 DEF Recording
<1>2. /\ failed \subseteq failed' /\ fetchErrors \subseteq fetchErrors'
      /\ missingPaths \subseteq missingPaths' /\ knownRepos \subseteq knownRepos'
      /\ cancelled => cancelled'
  BY DEF Recording, NothingToBuild, FetchFails, PathMissing, BuildFails, Build,
     CancelledInside, CancelledGathering, Discover, reportVars
<1>3. world' = world /\ mode' = mode /\ pc' = pc /\ exit' = exit /\ pc = "walk"
  BY DEF Recording, NothingToBuild, FetchFails, PathMissing, BuildFails, Build,
     CancelledInside, CancelledGathering, repoVars, Due
<1>4. \A r \in results : (Incomplete(r)' => Incomplete(r)) /\ (Accounted(r) => Accounted(r)')
  BY <1>2, <1>3 DEF TreeOf, Incomplete, Accounted
<1>5. PICK n : Adds(n)
  BY <1>1
<1>6. BareIsAccounted'
  BY <1>4, <1>5 DEF ReportInv, BareIsAccounted
<1>7. KnownSourceIsNeverLocal'
  <2>1. RepoOf[d] \in world.known /\ PathOf[d] # NoPath => n.src = RepoOf[d]
    BY <1>5 DEF ReportInv
  <2>2. QED
    BY <1>3, <1>5, <2>1 DEF ReportInv, KnownSourceIsNeverLocal
<1>8. QED
  BY <1>2, <1>3, <1>6, <1>7 DEF ReportInv

LEMMA ReportInvKept ==
  ASSUME ReportInv,
         UNCHANGED <<world, mode, results, failed, reportVars, knownRepos, exit>>,
         cancelled => cancelled',
         pc # "sources" => pc' # "sources",
         pc = "done" => pc' = "done" /\ cancelled' = cancelled
  PROVE  ReportInv'
  BY DEF ReportInv, BareIsAccounted, Incomplete, Accounted, TreeOf, KnownSourceIsNeverLocal,
     GatePasses, reportVars

LEMMA ReportInvNext == TypeOK /\ ReportInv /\ [Next]_vars => ReportInv'
<1> SUFFICES ASSUME TypeOK, ReportInv, [Next]_vars PROVE ReportInv'
  OBVIOUS
<1>1. ASSUME NEW d \in Decls, Process(d) PROVE ReportInv'
  <2>1. CASE Recording(d)
    BY <2>1, ReportInvRecords
  <2>2. CASE Skip(d)
    BY <2>2, ReportInvKept DEF Skip, repoVars, buildVars
  <2>3. CASE Interrupted(d)
    BY <2>3 DEF Interrupted, Due, ReportInv, BareIsAccounted, Incomplete,
       Accounted, TreeOf, KnownSourceIsNeverLocal, GatePasses, repoVars, buildVars,
       reportVars
  <2>4. QED
    BY <1>1, <2>1, <2>2, <2>3 DEF Process, Recording
<1>2. CASE EndLevel
  BY <1>2, ReportInvKept DEF EndLevel, repoVars, buildVars
<1>3. CASE ResolveSources
  BY <1>3 DEF ResolveSources, ReportInv, BareIsAccounted, Incomplete, Accounted, TreeOf,
     KnownSourceIsNeverLocal, repoVars, reportVars
<1>4. CASE Cancel
  BY <1>4, ReportInvKept DEF Cancel, repoVars, buildVars
<1>5. CASE AppendOverlays
  BY <1>5, ReportInvKept DEF AppendOverlays, repoVars, buildVars
<1>6. CASE Finish
  BY <1>6 DEF Finish, ReportInv, BareIsAccounted, Incomplete, Accounted, TreeOf,
     KnownSourceIsNeverLocal, GatePasses, NoOutput, repoVars, buildVars,
     reportVars
<1>7. CASE UNCHANGED vars
  BY <1>7, ReportInvKept DEF vars, repoVars, buildVars
<1>8. QED
  BY <1>1, <1>2, <1>3, <1>4, <1>5, <1>6, <1>7 DEF Next, Run

LEMMA ReportInvInit == Init => ReportInv
  BY ConstantsAssumption DEF ConstantsAssumption, World, Init, ReportInv,
     BareIsAccounted, KnownSourceIsNeverLocal

LEMMA ReportInvHolds == Spec => []ReportInv
  BY TypeInit, TypeNext, ReportInvInit, ReportInvNext, PTL DEF Spec

(***************************************************************************)
(* A green validation is missing the content of a Kustomization only if it *)
(* could not be fetched (and is named), has no path, or cannot be read;    *)
(* half of a directory is missing content, too.                            *)
(***************************************************************************)
THEOREM GreenGateIsSound == Spec => []GateSound
<1>1. ReportInv => GateSound
  BY DEF ReportInv, GateSound, BareIsAccounted, Accounted, GatePasses
<1>2. QED
  BY <1>1, ReportInvHolds, PTL

(* Nothing is missing from the output without a reason on record.          *)
THEOREM MissingContentIsAccounted == Spec => []BareIsAccounted
<1>1. ReportInv => BareIsAccounted
  BY DEF ReportInv
<1>2. QED
  BY <1>1, ReportInvHolds, PTL

(* An upstream declared by the cluster is never replaced by a local path.  *)
THEOREM DeclaredSourceStaysExternal == Spec => []KnownSourceIsNeverLocal
<1>1. ReportInv => KnownSourceIsNeverLocal
  BY DEF ReportInv
<1>2. QED
  BY <1>1, ReportInvHolds, PTL

-----------------------------------------------------------------------------
(***************************************************************************)
(* The pipeline implements the abstract walk.                              *)
(***************************************************************************)
LEMMA WalkStep ==
  ASSUME TypeOK, WalkInv, [Next]_vars
  PROVE  [Walk!Next]_<<Declared, Processed, pc \notin {"sources", "walk"}>>
<1> USE ConstantsAssumption DEF ConstantsAssumption, TypeOK
<1> DEFINE over == pc \notin {"sources", "walk"}
<1>1. ASSUME UNCHANGED <<world, results>>, over => over'
      PROVE  Walk!Next \/ UNCHANGED <<Declared, Processed, over>>
  <2>1. \A r : Emitted(r)' = Emitted(r)
    BY <1>1 DEF Emitted
  <2>2. Declared' = Declared /\ Processed' = Processed
    BY <1>1, <2>1 DEF Declared, Processed
  <2>3. CASE over' = over
    BY <2>2, <2>3
  <2>4. CASE over' # over
    BY <1>1, <2>2, <2>4 DEF Walk!End, Walk!Next
  <2>5. QED
    BY <2>3, <2>4
<1>2. ASSUME NEW d \in Decls, Recording(d)
      PROVE  Walk!Next
  <2>1. Records(d)
    BY <1>2, RecordingRecords
  <2>2. PICK n \in Result :
          n.decl = d /\ results' = results \cup {n} /\ Emitted(n) \subseteq Decls
    BY <2>1 DEF Records
  <2>3. \A r : Emitted(r)' = Emitted(r)
    BY <2>1 DEF Records, Emitted
  <2>4. Declared' = Declared \cup Emitted(n) /\ Processed' = Processed \cup {d}
    BY <2>2, <2>3 DEF Declared, Processed
  <2>5. d \in Declared \ Suspended
    BY <2>1 DEF Records, Due, WalkInv
  <2>6. \A e \in Processed : KeyOf[e] # KeyOf[d]
    BY <2>1 DEF Records, Due, WalkInv, Processed
  <2>7. ~over /\ ~over'
    BY <2>1 DEF Records, Due
  <2>8. Declared' \in SUBSET Decls
    BY <2>2, <2>4 DEF WalkInv
  <2>9. QED
    BY <2>4, <2>5, <2>6, <2>7, <2>8 DEF Walk!Next, Walk!Process
<1>3. ASSUME NEW d \in Decls, Process(d)
      PROVE  Walk!Next \/ UNCHANGED <<Declared, Processed, over>>
  <2>1. CASE Skip(d)
    BY <1>1, <2>1 DEF Skip, repoVars, buildVars
  <2>2. CASE Interrupted(d)
    BY <1>1, <2>2 DEF Interrupted, repoVars, buildVars
  <2>3. QED
    BY <1>2, <1>3, <2>1, <2>2 DEF Process, Recording
<1>4. CASE ResolveSources
  BY <1>1, <1>4 DEF ResolveSources, repoVars
<1>5. CASE Cancel
  BY <1>1, <1>5 DEF Cancel, repoVars, buildVars
<1>6. CASE EndLevel
  BY <1>1, <1>6 DEF EndLevel, repoVars, buildVars
<1>7. CASE AppendOverlays
  BY <1>1, <1>7 DEF AppendOverlays, repoVars, buildVars
<1>8. CASE Finish
  BY <1>1, <1>8 DEF Finish, repoVars, buildVars
<1>9. CASE UNCHANGED vars
  BY <1>1, <1>9 DEF vars, repoVars, buildVars
<1>10. QED
  BY <1>3, <1>4, <1>5, <1>6, <1>7, <1>8, <1>9 DEF Next, Run

THEOREM WalkRefinement == Spec => ImplementsWalk
<1>1. Init => Walk!Init
  BY DEF Init, Walk!Init, Declared, Processed
<1>2. TypeOK /\ WalkInv /\ [Next]_vars
        => [Walk!Next]_<<Declared, Processed, pc \notin {"sources", "walk"}>>
  BY WalkStep
<1>3. QED
  BY <1>1, <1>2, TypeInit, TypeNext, WalkInvInit, WalkInvNext, PTL
     DEF Spec, ImplementsWalk, Walk!Spec
=============================================================================

---------------------------- MODULE GitSource_proofs ----------------------------
(***************************************************************************)
(* Proofs about the git source cache, for every number of processes and    *)
(* concurrent calls, every upstream history, and crashes at any point.     *)
(***************************************************************************)
EXTENDS GitSource, TLAPS

Leads(c) == caller[c].pc \in Leading

LEMMA KeyFacts ==
  /\ \A k \in Keys : \/ k[1] = "commit" /\ k[2] \in Commits
                     \/ k[1] = "tag" /\ k[2] \in Tags
  /\ \A n \in Commits : <<"commit", n>> \in Keys
  /\ \A t \in Tags : <<"tag", t>> \in Keys
  /\ 1 \in Commits /\ Torn \notin Commits
  /\ Floating \cap Keys = {}
BY ConstantsAssumption DEF ConstantsAssumption, Keys, Commits, Torn, Floating,
   Branch, Head, Semver

LEMMA IdleTyped == Idle \in Call
BY KeyFacts, ConstantsAssumption DEF ConstantsAssumption, Idle, Call, Stages,
   Refs, Floating, Branch

-----------------------------------------------------------------------------
(* The types.                                                              *)
LEMMA TypeInit == Init => TypeOK
BY KeyFacts, IdleTyped, ConstantsAssumption DEF ConstantsAssumption, Init,
   TypeOK, Dir, Commits, Torn

LEMMA ResolutionTyped ==
  ASSUME TypeOK, NEW r \in Floating, NEW x \in Resolution(r)
  PROVE  /\ x.key \in Keys /\ x.byName \in BOOLEAN
         /\ x.byName \/ r # Semver => x.key = <<"commit", tip>>
<1>1. tip \in Commits
  BY DEF TypeOK
<1>2. ASSUME NEW S, NEW B, NEW y \in [key : S, byName : B]
      PROVE  y.key \in S /\ y.byName \in B
  BY <1>2
<1>3. CASE r = Branch
  <2>1. Resolution(r) = [key : {<<"commit", tip>>}, byName : {TRUE}]
    BY <1>3 DEF Resolution, Branch, Head, Semver
  <2>2. x.key = <<"commit", tip>> /\ x.byName = TRUE
    BY <1>2, <2>1
  <2>3. QED
    BY <1>1, <2>2, KeyFacts
<1>4. CASE r = Head
  <2>1. Resolution(r) = [key : {<<"commit", tip>>}, byName : BOOLEAN]
    BY <1>4 DEF Resolution, Branch, Head, Semver
  <2>2. x.key = <<"commit", tip>> /\ x.byName \in BOOLEAN
    BY <1>2, <2>1
  <2>3. QED
    BY <1>1, <2>2, KeyFacts
<1>5. CASE r = Semver
  <2>1. Resolution(r) = [key : {"tag"} \X Winners, byName : {FALSE}]
    BY <1>5 DEF Resolution, Branch, Head, Semver
  <2>2. ASSUME NEW S, NEW y \in [key : S, byName : {FALSE}]
        PROVE  y.key \in S /\ y.byName = FALSE
    BY <2>2
  <2>3. x.key \in {"tag"} \X Winners /\ x.byName = FALSE
    BY <2>1, <2>2
  <2>4. QED
    BY <1>5, <2>3 DEF Winners, Released, Keys
<1>6. QED
  BY <1>3, <1>4, <1>5 DEF Floating

(* Only a floating ref is looked up.                                       *)
LooksUpFloating ==
  \A c \in Callers : At(c, "pointer") \/ At(c, "resolve") => caller[c].want \in Floating

LEMMA LooksUpInit == Init => LooksUpFloating
BY DEF Init, LooksUpFloating, At, Idle

LEMMA LooksUpNext == TypeOK /\ LooksUpFloating /\ [Next]_vars => LooksUpFloating'
<1> SUFFICES ASSUME TypeOK, LooksUpFloating, [Next]_vars PROVE LooksUpFloating'
  OBVIOUS
<1>1. ASSUME UNCHANGED caller PROVE LooksUpFloating'
  BY <1>1 DEF LooksUpFloating, At
<1>2. ASSUME NEW p \in Procs, Crash(p) PROVE LooksUpFloating'
  BY <1>2 DEF Crash, LooksUpFloating, At, Idle
<1>3. ASSUME NEW c \in Callers, NEW r \in Wants[c], Ensure(c, r) PROVE LooksUpFloating'
  BY <1>3 DEF Ensure, LooksUpFloating, At, Idle, TypeOK
<1>4. ASSUME NEW c \in Callers, Step(c) PROVE LooksUpFloating'
  <2> USE DEF LooksUpFloating, TypeOK, At
  <2>1. ASSUME NEW next, Return(c, next), next.pc \notin {"pointer", "resolve"}
        PROVE  LooksUpFloating'
    BY <2>1 DEF Return, Call
  <2>2. Idle.pc = "idle" /\ Cloned(c).pc = "remember"
    BY DEF Idle, Cloned, Call
  <2>3. CASE ReadPointer(c)
    BY <2>3 DEF ReadPointer, Goto, Call
  <2>4. CASE LsRemote(c)
    BY <2>4 DEF LsRemote, Call
  <2>5. CASE ResolveFails(c) \/ GiveUp(c) \/ Release(c)
    BY <2>5, <2>2 DEF ResolveFails, GiveUp, Release, Leave
  <2>6. CASE CheckSeed(c) \/ Lead(c) \/ Follow(c) \/ RenameFails(c) \/ Remember(c)
    BY <2>6 DEF CheckSeed, Lead, Follow, RenameFails, Remember, Goto, Call
  <2>7. CASE StartEvict(c) \/ EndEvict(c)
    BY <2>7 DEF StartEvict, EndEvict, Goto, Call
  <2>10. CASE CloneOnce(c)
    <3>1. PICK t : caller' = [caller EXCEPT ![c] = [@ EXCEPT !.pc = "publish", !.tmp = t]]
      BY <2>10 DEF CloneOnce
    <3>2. QED
      BY <3>1 DEF Call
  <2>8. CASE CloneFails(c) \/ Publish(c) \/ Occupied(c) \/ Republish(c)
    BY <2>8, <2>1, <2>2 DEF CloneFails, Publish, Place, Occupied, Republish, Goto, Call
  <2>9. QED
    BY <1>4, <2>3, <2>4, <2>5, <2>6, <2>7, <2>8, <2>10 DEF Step
<1>5. QED
  BY <1>1, <1>2, <1>3, <1>4 DEF Next, Push, Tick, TagRelease, vars

LEMMA TypeNext == TypeOK /\ LooksUpFloating /\ [Next]_vars => TypeOK'
<1> SUFFICES ASSUME TypeOK, LooksUpFloating, [Next]_vars PROVE TypeOK'
  OBVIOUS
<1> USE ConstantsAssumption DEF ConstantsAssumption, TypeOK
<1>1. CASE Push \/ Tick \/ \E t \in Tags : TagRelease(t)
  BY <1>1 DEF Push, Tick, TagRelease, disk, Commits
<1>2. ASSUME NEW p \in Procs, Crash(p) PROVE TypeOK'
  BY <1>2, IdleTyped DEF Crash, upstream, disk
<1>3. ASSUME NEW c \in Callers, NEW r \in Wants[c], Ensure(c, r) PROVE TypeOK'
  <2>1. caller' \in [Callers -> Call]
    BY <1>3, IdleTyped DEF Ensure, Call, Stages, Refs
  <2>2. QED
    BY <1>3, <2>1 DEF Ensure, upstream, disk
<1>4. ASSUME NEW c \in Callers, Step(c) PROVE TypeOK'
  <2> USE DEF upstream, disk
  <2>1. ASSUME NEW s \in Stages, Goto(c, s) PROVE caller' \in [Callers -> Call]
    BY <2>1 DEF Goto, Call
  <2>0. ASSUME NEW x \in Call, caller' = [caller EXCEPT ![c] = x]
        PROVE  caller' \in [Callers -> Call]
    BY <2>0
  <2>2. ASSUME Leave(c) PROVE caller' \in [Callers -> Call]
    BY IdleTyped, <2>2 DEF Leave
  <2>3. ASSUME NEW next \in Call, Return(c, next)
        PROVE  /\ caller' \in [Callers -> Call]
               /\ inflight' \in [Procs -> SUBSET Keys]
    BY <2>3 DEF Return, Call, Stages
  <2>4. Cloned(c) \in Call
    <3>1. caller[c] \in Call
      OBVIOUS
    <3>2. QED
      BY <3>1 DEF Cloned, Call, Stages
  <2>5. CASE ReadPointer(c)
    <3> DEFINE r == caller[c].want
    <3>1. r \in Floating
      BY <2>5 DEF ReadPointer, LooksUpFloating
    <3>2. CASE ~FreshPointer(c, r)
      BY <2>1, <2>5, <3>2 DEF ReadPointer, Stages
    <3>3. CASE FreshPointer(c, r)
      <4>1. ptrs[r].key \in Keys
        BY <3>1, <3>3 DEF FreshPointer, Pointer
      <4> DEFINE x == [caller[c] EXCEPT !.pc = "check", !.fresh = TRUE, !.key = ptrs[r].key]
      <4>2. x \in Call
        BY <4>1 DEF Call, Stages
      <4>3. caller' = [caller EXCEPT ![c] = x]
        BY <2>5, <3>3 DEF ReadPointer
      <4>4. QED
        BY <2>0, <2>5, <4>2, <4>3 DEF ReadPointer
    <3>4. QED
      BY <3>2, <3>3
  <2>6. CASE LsRemote(c)
    <3>1. PICK x \in Resolution(caller[c].want) :
            caller' = [caller EXCEPT ![c] =
              [@ EXCEPT !.pc = "check", !.key = x.key, !.byName = x.byName]]
      BY <2>6 DEF LsRemote
    <3>2. x.key \in Keys /\ x.byName \in BOOLEAN
      BY <2>6, ResolutionTyped DEF LsRemote, LooksUpFloating
    <3> DEFINE y == [caller[c] EXCEPT !.pc = "check", !.key = x.key, !.byName = x.byName]
    <3>3. y \in Call
      BY <3>2 DEF Call, Stages
    <3>4. caller' = [caller EXCEPT ![c] = y]
      BY <3>1
    <3>5. QED
      BY <2>0, <2>6, <3>3, <3>4 DEF LsRemote
  <2>7. CASE ResolveFails(c) \/ GiveUp(c) \/ Release(c)
    BY <2>2, <2>7 DEF ResolveFails, GiveUp, Release
  <2>8. CASE CheckSeed(c) \/ Follow(c) \/ RenameFails(c)
    BY <2>1, <2>8 DEF CheckSeed, Follow, RenameFails, Stages
  <2>9. CASE Lead(c)
    <3>1. caller[c].key \in Keys
      BY DEF Call
    <3>2. QED
      BY <2>1, <2>9, <3>1 DEF Lead, Stages
  <2>10. CASE CloneOnce(c)
    <3>1. PICK t \in 1 .. tip :
            caller' = [caller EXCEPT ![c] = [@ EXCEPT !.pc = "publish", !.tmp = t]]
      BY <2>10 DEF CloneOnce
    <3>2. t \in Commits
      BY DEF Commits
    <3> DEFINE y == [caller[c] EXCEPT !.pc = "publish", !.tmp = t]
    <3>3. y \in Call
      BY <3>2 DEF Call, Stages
    <3>4. caller' = [caller EXCEPT ![c] = y]
      BY <3>1
    <3>5. QED
      BY <2>0, <2>10, <3>3, <3>4 DEF CloneOnce
  <2>11. CASE CloneFails(c)
    BY <2>3, <2>11, IdleTyped DEF CloneFails
  <2>12. ASSUME Place(c)
         PROVE  /\ caller' \in [Callers -> Call]
                /\ inflight' \in [Procs -> SUBSET Keys]
                /\ dirs' \in [Keys -> Dir \cup {Absent}]
    BY <2>3, <2>4, <2>12 DEF Place, Call, Dir
  <2>13. CASE Publish(c)
    BY <2>12, <2>13 DEF Publish
  <2>14. CASE Occupied(c)
    BY <2>1, <2>3, <2>4, <2>14 DEF Occupied, Stages
  <2>15. CASE StartEvict(c)
    <3>1. caller' \in [Callers -> Call]
      BY <2>1, <2>15 DEF StartEvict, Stages
    <3>2. dirs' \in [Keys -> Dir \cup {Absent}]
      <4> DEFINE k == caller[c].key
      <4>1. k \in Keys
        BY DEF Call
      <4>2. CASE dirs[k] = Absent
        BY <2>15, <4>2 DEF StartEvict
      <4>3. CASE dirs[k] # Absent
        <5>1. dirs[k].seed \in BOOLEAN
          BY <4>1, <4>3 DEF Dir
        <5>2. PICK seed \in {FALSE, dirs[k].seed} :
                dirs' = [dirs EXCEPT ![k] = [seed |-> seed, tree |-> Torn]]
          BY <2>15, <4>3 DEF StartEvict
        <5>3. [seed |-> seed, tree |-> Torn] \in Dir
          BY <5>1, <5>2 DEF Dir
        <5>4. QED
          BY <5>2, <5>3
      <4>4. QED
        BY <4>2, <4>3
    <3>3. QED
      BY <2>15, <3>1, <3>2 DEF StartEvict
  <2>16. CASE EndEvict(c)
    BY <2>1, <2>16 DEF EndEvict, Stages, Call
  <2>17. CASE Republish(c)
    BY <2>3, <2>12, <2>17, IdleTyped DEF Republish
  <2>18. CASE Remember(c)
    BY <2>1, <2>18 DEF Remember, Stages, Call, Pointer, Stamped
  <2>19. QED
    BY <1>4, <2>5, <2>6, <2>7, <2>8, <2>9, <2>10, <2>11, <2>13, <2>14, <2>15,
       <2>16, <2>17, <2>18 DEF Step
<1>5. CASE UNCHANGED vars
  BY <1>5 DEF vars, upstream, disk
<1>6. QED
  BY <1>1, <1>2, <1>3, <1>4, <1>5 DEF Next

TypeInv == TypeOK /\ LooksUpFloating

LEMMA TypeInvNext == TypeInv /\ [Next]_vars => TypeInv'
BY TypeNext, LooksUpNext DEF TypeInv

LEMMA TypeInvAlways == Spec => []TypeInv
<1>1. Init => TypeInv
  BY TypeInit, LooksUpInit DEF TypeInv
<1>2. QED
  BY <1>1, TypeInvNext, PTL DEF Spec

(* Every variable keeps its type: no call gets a key, a tree or a pointer  *)
(* that was not resolved, cloned or written for it.                        *)
THEOREM TypeCorrect == Spec => []TypeOK
BY TypeInvAlways, PTL DEF TypeInv

-----------------------------------------------------------------------------
(***************************************************************************)
(* What one call does to the others: it wakes those that wait for it, and  *)
(* nothing else.                                                           *)
(***************************************************************************)
OthersKept(c) ==
  \A d \in Callers \ {c} :
    \/ caller'[d] = caller[d]
    \/ Waiting(d, c) /\ caller'[d] = [caller[d] EXCEPT !.pc = "woken"]

LEMMA Others ==
  ASSUME TypeInv, NEW c \in Callers, Step(c)
  PROVE  OthersKept(c)
<1> USE DEF TypeInv, TypeOK, OthersKept
<1>1. ASSUME NEW s, Goto(c, s) PROVE OthersKept(c)
  BY <1>1 DEF Goto
<1>2. ASSUME Leave(c) PROVE OthersKept(c)
  BY <1>2 DEF Leave
<1>3. ASSUME NEW next, Return(c, next) PROVE OthersKept(c)
  BY <1>3 DEF Return
<1>4. ASSUME NEW x, caller' = [caller EXCEPT ![c] = x] PROVE OthersKept(c)
  BY <1>4
<1>5. CASE ReadPointer(c)
  BY <1>1, <1>4, <1>5 DEF ReadPointer
<1>6. CASE LsRemote(c)
  BY <1>4, <1>6 DEF LsRemote
<1>7. CASE ResolveFails(c) \/ GiveUp(c) \/ Release(c)
  BY <1>2, <1>7 DEF ResolveFails, GiveUp, Release
<1>8. CASE CheckSeed(c) \/ Lead(c) \/ Follow(c) \/ RenameFails(c) \/ Remember(c)
  BY <1>1, <1>8 DEF CheckSeed, Lead, Follow, RenameFails, Remember
<1>9. CASE StartEvict(c) \/ EndEvict(c)
  BY <1>1, <1>9 DEF StartEvict, EndEvict
<1>10. CASE CloneOnce(c)
  BY <1>4, <1>10 DEF CloneOnce
<1>11. CASE CloneFails(c) \/ Publish(c) \/ Occupied(c) \/ Republish(c)
  BY <1>1, <1>3, <1>11 DEF CloneFails, Publish, Place, Occupied, Republish
<1>12. QED
  BY <1>5, <1>6, <1>7, <1>8, <1>9, <1>10, <1>11 DEF Step

-----------------------------------------------------------------------------
(* One clone at a time.                                                    *)
Covered(p, k) == \E c \in Callers : ProcOf[c] = p /\ Leads(c) /\ caller[c].key = k

LockInv ==
  /\ \A c \in Callers : Leads(c) => caller[c].key \in inflight[ProcOf[c]]
  /\ \A p \in Procs : \A k \in inflight[p] : Covered(p, k)
  /\ \A c \in Callers : At(c, "wait") => caller[c].key \in inflight[ProcOf[c]]
  /\ OneCloneAtATime

LEMMA LockInit == Init => LockInv
BY DEF Init, LockInv, Idle, Leads, Leading, At, OneCloneAtATime

(* A step of a call that neither starts nor ends a clone.                  *)
LEMMA LockQuiet ==
  ASSUME TypeInv, LockInv, NEW c \in Callers, NEW x,
         caller' = [caller EXCEPT ![c] = x], inflight' = inflight,
         (x.pc \in Leading) <=> Leads(c),
         Leads(c) => x.key = caller[c].key,
         x.pc = "wait" => x.key \in inflight[ProcOf[c]]
  PROVE  LockInv'
<1> USE DEF TypeInv, TypeOK, Leads
<1>1. \A d \in Callers : Leads(d)' <=> Leads(d)
  OBVIOUS
<1>2. \A d \in Callers : Leads(d) => caller'[d].key = caller[d].key
  OBVIOUS
<1>3. \A d \in Callers : At(d, "wait")' => caller'[d].key \in inflight[ProcOf[d]]
  BY DEF LockInv, At
<1>4. \A p \in Procs : \A k \in inflight[p] : Covered(p, k)'
  BY <1>1, <1>2 DEF LockInv, Covered
<1>5. OneCloneAtATime'
  BY <1>1, <1>2 DEF LockInv, OneCloneAtATime
<1>6. QED
  BY <1>1, <1>2, <1>3, <1>4, <1>5 DEF LockInv

(* A leader returns, and wakes those that wait for it.                     *)
LEMMA LockReturn ==
  ASSUME TypeInv, LockInv, NEW c \in Callers, NEW next, Leads(c), Return(c, next),
         next.pc \notin Leading \cup {"wait"}
  PROVE  LockInv'
<1> USE DEF TypeInv, TypeOK
<1> DEFINE p == ProcOf[c]  k == caller[c].key
<1>0. p \in Procs /\ \A d \in Callers : ProcOf[d] \in Procs
  BY ConstantsAssumption DEF ConstantsAssumption
<1>1. /\ inflight' = [inflight EXCEPT ![p] = @ \ {k}]
      /\ caller'[c] = next
      /\ \A d \in Callers \ {c} : caller'[d] =
            IF Waiting(d, c) THEN [caller[d] EXCEPT !.pc = "woken"] ELSE caller[d]
  BY DEF Return
<1>2. \A d \in Callers : Leads(d)' <=> d # c /\ Leads(d)
  <2>1. ~Leads(c)'
    BY <1>1 DEF Leads
  <2>2. ASSUME NEW d \in Callers \ {c}, ~Waiting(d, c) PROVE Leads(d)' <=> Leads(d)
    BY <1>1, <2>2 DEF Leads
  <2>3. ASSUME NEW d \in Callers \ {c}, Waiting(d, c) PROVE ~Leads(d)' /\ ~Leads(d)
    <3>1. caller'[d].pc = "woken" /\ caller[d].pc = "wait"
      BY <1>1, <2>3 DEF Waiting, At, Call
    <3>2. QED
      BY <3>1 DEF Leads, Leading
  <2>4. QED
    BY <2>1, <2>2, <2>3
<1>3. \A d \in Callers \ {c} : caller'[d].key = caller[d].key
  BY <1>1 DEF Call
<1>4. \A d \in Callers \ {c} : Leads(d) /\ ProcOf[d] = p => caller[d].key # k
  BY DEF LockInv, OneCloneAtATime, Leads
<1>5. \A d \in Callers : Leads(d)' => caller'[d].key \in inflight'[ProcOf[d]]
  BY <1>0, <1>1, <1>2, <1>3, <1>4 DEF LockInv
<1>6. ASSUME NEW q \in Procs, NEW j \in inflight'[q] PROVE Covered(q, j)'
  <2>1. j \in inflight[q] /\ ~(q = p /\ j = k)
    BY <1>0, <1>1, <1>6
  <2>2. PICK d \in Callers : ProcOf[d] = q /\ Leads(d) /\ caller[d].key = j
    BY <2>1 DEF LockInv, Covered
  <2>3. d # c
    BY <2>1, <2>2
  <2>4. QED
    BY <1>2, <1>3, <2>2, <2>3 DEF Covered
<1>7. ASSUME NEW d \in Callers, At(d, "wait")'
      PROVE  caller'[d].key \in inflight'[ProcOf[d]]
  <2>1. d # c /\ ~Waiting(d, c) /\ At(d, "wait")
    BY <1>1, <1>7 DEF At, Call
  <2>2. ~(ProcOf[d] = p /\ caller[d].key = k)
    BY <2>1 DEF Waiting
  <2>3. QED
    BY <1>0, <1>1, <1>3, <2>1, <2>2 DEF LockInv
<1>8. OneCloneAtATime'
  BY <1>2, <1>3 DEF LockInv, OneCloneAtATime, Leads
<1>9. QED
  BY <1>5, <1>6, <1>7, <1>8 DEF LockInv

LEMMA LockNext == TypeInv /\ LockInv /\ [Next]_vars => LockInv'
<1> SUFFICES ASSUME TypeInv, LockInv, [Next]_vars PROVE LockInv'
  OBVIOUS
<1> USE DEF TypeInv, TypeOK
<1>0. \A d \in Callers : ProcOf[d] \in Procs
  BY ConstantsAssumption DEF ConstantsAssumption
<1>1. ASSUME UNCHANGED <<caller, inflight>> PROVE LockInv'
  BY <1>1 DEF LockInv, Covered, Leads, At, OneCloneAtATime
<1>2. ASSUME NEW p \in Procs, Crash(p) PROVE LockInv'
  <2>1. /\ inflight' = [inflight EXCEPT ![p] = {}]
        /\ \A d \in Callers : caller'[d] = IF ProcOf[d] = p THEN Idle ELSE caller[d]
    BY <1>2 DEF Crash
  <2>2. Idle.pc = "idle"
    BY DEF Idle
  <2>3. \A d \in Callers : Leads(d)' <=> ProcOf[d] # p /\ Leads(d)
    BY <2>1, <2>2 DEF Leads, Leading
  <2>4. \A d \in Callers : Leads(d)' \/ At(d, "wait")'
          => ProcOf[d] # p /\ caller'[d] = caller[d]
    BY <2>1, <2>2 DEF Leads, Leading, At
  <2>5. \A d \in Callers : Leads(d)' \/ At(d, "wait")'
          => caller'[d].key \in inflight'[ProcOf[d]]
    BY <1>0, <2>1, <2>4 DEF LockInv, Leads, At
  <2>6. ASSUME NEW q \in Procs, NEW j \in inflight'[q] PROVE Covered(q, j)'
    <3>1. q # p /\ j \in inflight[q]
      BY <2>1
    <3>2. PICK d \in Callers : ProcOf[d] = q /\ Leads(d) /\ caller[d].key = j
      BY <3>1 DEF LockInv, Covered
    <3>3. caller'[d] = caller[d]
      BY <2>1, <3>1, <3>2
    <3>4. QED
      BY <3>2, <3>3 DEF Covered, Leads
  <2>7. OneCloneAtATime'
    BY <2>3, <2>4 DEF LockInv, OneCloneAtATime, Leads
  <2>8. QED
    BY <2>5, <2>6, <2>7 DEF LockInv
<1>3. ASSUME NEW c \in Callers, NEW r \in Wants[c], Ensure(c, r) PROVE LockInv'
  <2> DEFINE x == IF r \in Floating
       THEN [Idle EXCEPT !.pc = "pointer", !.want = r, !.asked = tip]
       ELSE [Idle EXCEPT !.pc = "check", !.want = r, !.key = r, !.asked = tip]
  <2>1. caller' = [caller EXCEPT ![c] = x]
    BY <1>3 DEF Ensure
  <2>2. x.pc \in {"pointer", "check"}
    BY DEF Idle
  <2>3. QED
    BY <1>3, <2>1, <2>2, LockQuiet DEF Ensure, At, Leads, Leading
<1>4. ASSUME NEW c \in Callers, Step(c) PROVE LockInv'
  <2>1. ASSUME NEW s, Goto(c, s), inflight' = inflight,
               (s \in Leading) <=> Leads(c),
               s = "wait" => caller[c].key \in inflight[ProcOf[c]]
        PROVE  LockInv'
    <3> DEFINE x == [caller[c] EXCEPT !.pc = s]
    <3>1. caller' = [caller EXCEPT ![c] = x] /\ x.pc = s /\ x.key = caller[c].key
      BY <2>1 DEF Goto, Call
    <3>2. QED
      BY <2>1, <3>1, LockQuiet
  <2>2. ASSUME Leave(c), inflight' = inflight, ~Leads(c) PROVE LockInv'
    BY <2>2, LockQuiet DEF Leave, Idle, Leading
  <2>3. ASSUME NEW x, caller' = [caller EXCEPT ![c] = x], inflight' = inflight,
               x.pc = "check", ~Leads(c)
        PROVE  LockInv'
    BY <2>3, LockQuiet DEF Leading
  <2>4. Idle.pc = "idle" /\ Cloned(c).pc = "remember"
    BY DEF Idle, Cloned, Call
  <2>5. CASE ReadPointer(c)
    <3> DEFINE x == [caller[c] EXCEPT !.pc = "check", !.fresh = TRUE,
                                      !.key = ptrs[caller[c].want].key]
    <3>1. x.pc = "check" /\ ~Leads(c) /\ inflight' = inflight
      BY <2>5 DEF ReadPointer, Call, At, Leads, Leading
    <3>2. Goto(c, "resolve") \/ caller' = [caller EXCEPT ![c] = x]
      BY <2>5 DEF ReadPointer
    <3>3. QED
      BY <2>1, <2>3, <3>1, <3>2 DEF Leading
  <2>6. CASE LsRemote(c)
    <3>1. PICK r : caller' = [caller EXCEPT ![c] =
                     [@ EXCEPT !.pc = "check", !.key = r.key, !.byName = r.byName]]
      BY <2>6 DEF LsRemote
    <3> DEFINE x == [caller[c] EXCEPT !.pc = "check", !.key = r.key, !.byName = r.byName]
    <3>2. x.pc = "check" /\ ~Leads(c) /\ inflight' = inflight
      BY <2>6 DEF LsRemote, Call, At, Leads, Leading
    <3>3. QED
      BY <2>3, <3>1, <3>2
  <2>7. CASE ResolveFails(c) \/ GiveUp(c) \/ Release(c)
    BY <2>2, <2>7 DEF ResolveFails, GiveUp, Release, At, Leads, Leading
  <2>8. CASE CheckSeed(c)
    BY <2>1, <2>8 DEF CheckSeed, At, Leads, Leading
  <2>9. CASE Follow(c)
    BY <2>1, <2>9 DEF Follow, At, Leads, Leading
  <2>10. CASE RenameFails(c) \/ Remember(c)
    BY <2>1, <2>10 DEF RenameFails, Remember, At, Leads, Leading
  <2>11. CASE StartEvict(c) \/ EndEvict(c)
    BY <2>1, <2>11 DEF StartEvict, EndEvict, At, Leads, Leading
  <2>12. CASE CloneOnce(c)
    <3>1. PICK t : caller' = [caller EXCEPT ![c] = [@ EXCEPT !.pc = "publish", !.tmp = t]]
      BY <2>12 DEF CloneOnce
    <3> DEFINE x == [caller[c] EXCEPT !.pc = "publish", !.tmp = t]
    <3>2. /\ x.pc = "publish" /\ x.key = caller[c].key
          /\ Leads(c) /\ inflight' = inflight /\ x.pc \in Leading
      BY <2>12 DEF CloneOnce, Call, At, Leads, Leading
    <3>3. caller' = [caller EXCEPT ![c] = x]
      BY <3>1
    <3>4. QED
      BY <3>2, <3>3, LockQuiet
  <2>13. CASE CloneFails(c) \/ Publish(c) \/ Occupied(c) \/ Republish(c)
    <3>1. Leads(c)
      BY <2>13 DEF CloneFails, Publish, Occupied, Republish, At, Leads, Leading
    <3>2. \/ Return(c, Idle) \/ Return(c, Cloned(c))
          \/ Goto(c, "evict") /\ inflight' = inflight
      BY <2>13 DEF CloneFails, Publish, Place, Occupied, Republish
    <3>3. QED
      BY <2>1, <2>4, <3>1, <3>2, LockReturn DEF Leading
  <2>14. CASE Lead(c)
    <3> DEFINE p == ProcOf[c]  k == caller[c].key
    <3>1. /\ k \notin inflight[p]
          /\ inflight' = [inflight EXCEPT ![p] = @ \cup {k}]
          /\ ~Leads(c)
      BY <2>14 DEF Lead, At, Leads, Leading
    <3>2. /\ caller'[c].pc = "clone" /\ caller'[c].key = k
          /\ \A d \in Callers \ {c} : caller'[d] = caller[d]
      BY <2>14 DEF Lead, Goto, Call
    <3>3. Leads(c)' /\ \A d \in Callers \ {c} : Leads(d)' <=> Leads(d)
      BY <3>2 DEF Leads, Leading
    <3>4. \A d \in Callers : Leads(d)' => caller'[d].key \in inflight'[ProcOf[d]]
      BY <1>0, <3>1, <3>2, <3>3 DEF LockInv
    <3>5. ASSUME NEW q \in Procs, NEW j \in inflight'[q] PROVE Covered(q, j)'
      <4>1. CASE q = p /\ j = k
        BY <3>2, <3>3, <4>1 DEF Covered
      <4>2. CASE j \in inflight[q]
        <5>1. PICK d \in Callers : ProcOf[d] = q /\ Leads(d) /\ caller[d].key = j
          BY <4>2 DEF LockInv, Covered
        <5>2. QED
          BY <3>1, <3>2, <3>3, <5>1 DEF Covered
      <4>3. QED
        BY <1>0, <3>1, <3>5, <4>1, <4>2
    <3>6. \A d \in Callers : At(d, "wait")' => caller'[d].key \in inflight'[ProcOf[d]]
      BY <1>0, <3>1, <3>2 DEF LockInv, At
    <3>7. OneCloneAtATime'
      BY <3>1, <3>2, <3>3 DEF LockInv, OneCloneAtATime, Leads
    <3>8. QED
      BY <3>4, <3>5, <3>6, <3>7 DEF LockInv
  <2>15. QED
    BY <1>4, <2>5, <2>6, <2>7, <2>8, <2>9, <2>10, <2>11, <2>12, <2>13, <2>14 DEF Step
<1>5. QED
  BY <1>1, <1>2, <1>3, <1>4 DEF Next, Push, Tick, TagRelease, vars

LEMMA LockAlways == Spec => []LockInv
BY TypeInvAlways, LockInit, LockNext, PTL DEF Spec

(* The inflight map of a process admits one clone of a directory at a      *)
(* time, however many calls run and wherever they fail.                    *)
THEOREM ClonesAreExclusive == Spec => []OneCloneAtATime
BY LockAlways, PTL DEF LockInv

(* No call waits on a channel nobody will close.                           *)
THEOREM NoLostWakeup == Spec => []WaiterHasLeader
<1>1. LockInv => WaiterHasLeader
  <2> SUFFICES ASSUME LockInv, NEW c \in Callers, At(c, "wait")
               PROVE  \E d \in Callers : caller[d].pc \in Leading /\ Waiting(c, d)
    BY DEF WaiterHasLeader
  <2>1. Covered(ProcOf[c], caller[c].key)
    BY ConstantsAssumption DEF ConstantsAssumption, LockInv
  <2>2. QED
    BY <2>1 DEF Covered, Leads, Waiting, At, Leading
<1>2. QED
  BY <1>1, LockAlways, PTL

-----------------------------------------------------------------------------
(* Whole directories.                                                      *)
Publishing == {"publish", "occupied", "evict", "evicting", "republish"}
Evicting   == {"evict", "evicting", "republish"}

(* What a call knows of the directory it publishes: it has a whole tree to *)
(* put there, only a damaged one is removed, and one that was there stays. *)
SoundCall(c) ==
  /\ caller[c].pc \in Publishing => caller[c].tmp # Torn
  /\ caller[c].pc \in Evicting => caller[c].key \in Damaged
  /\ At(c, "occupied") /\ caller[c].key \notin Damaged => dirs[caller[c].key] # Absent

DiskInv == UndamagedIsWhole /\ \A c \in Callers : SoundCall(c)

PublishedKept == \A k \in Keys \ Damaged : dirs[k] # Absent => dirs'[k] = dirs[k]

LEMMA DiskInit == Init => DiskInv
BY DEF Init, DiskInv, UndamagedIsWhole, SoundCall, Idle, At, Publishing, Evicting

(* One call writes only to its own directory, and an undamaged one it only *)
(* creates.                                                                *)
LEMMA DiskStep ==
  ASSUME TypeInv, DiskInv, NEW c \in Callers, Step(c)
  PROVE  UndamagedIsWhole' /\ PublishedKept
<1> USE DEF TypeInv, TypeOK
<1> DEFINE k == caller[c].key
<1>0. k \in Keys /\ SoundCall(c)
  BY DEF Call, DiskInv
<1>1. ASSUME dirs' = dirs PROVE UndamagedIsWhole' /\ PublishedKept
  BY <1>1 DEF DiskInv, UndamagedIsWhole, PublishedKept
<1>2. ASSUME NEW d, dirs' = [dirs EXCEPT ![k] = d], k \in Damaged
      PROVE  UndamagedIsWhole' /\ PublishedKept
  BY <1>2 DEF DiskInv, UndamagedIsWhole, PublishedKept
<1>3. ASSUME Place(c), caller[c].tmp # Torn PROVE UndamagedIsWhole' /\ PublishedKept
  <2>1. /\ dirs[k] = Absent
        /\ dirs' = [dirs EXCEPT ![k] = [seed |-> TRUE, tree |-> caller[c].tmp]]
    BY <1>3 DEF Place
  <2>2. ASSUME NEW j \in Keys \ Damaged, dirs'[j] # Absent
        PROVE  dirs'[j].seed /\ dirs'[j].tree # Torn
    <3>1. CASE j = k
      BY <1>0, <1>3, <2>1, <3>1
    <3>2. CASE j # k
      BY <2>1, <2>2, <3>2 DEF DiskInv, UndamagedIsWhole
    <3>3. QED
      BY <3>1, <3>2
  <2>3. PublishedKept
    BY <2>1 DEF PublishedKept
  <2>4. QED
    BY <2>2, <2>3 DEF UndamagedIsWhole
<1>4. CASE Publish(c)
  BY <1>0, <1>3, <1>4 DEF Publish, At, SoundCall, Publishing
<1>5. CASE Republish(c)
  BY <1>0, <1>1, <1>3, <1>5 DEF Republish, At, SoundCall, Publishing
<1>6. CASE EndEvict(c)
  BY <1>0, <1>2, <1>6 DEF EndEvict, At, SoundCall, Evicting
<1>7. CASE StartEvict(c)
  <2>1. dirs' = dirs \/ \E d : dirs' = [dirs EXCEPT ![k] = d]
    BY <1>7 DEF StartEvict
  <2>2. k \in Damaged
    BY <1>0, <1>7 DEF StartEvict, At, SoundCall, Evicting
  <2>3. QED
    BY <1>1, <1>2, <2>1, <2>2
<1>8. CASE ReadPointer(c) \/ LsRemote(c) \/ ResolveFails(c) \/ GiveUp(c) \/ Release(c)
  BY <1>1, <1>8 DEF ReadPointer, LsRemote, ResolveFails, GiveUp, Release, disk
<1>9. CASE CheckSeed(c) \/ Lead(c) \/ Follow(c) \/ RenameFails(c) \/ Remember(c)
  BY <1>1, <1>9 DEF CheckSeed, Lead, Follow, RenameFails, Remember, disk
<1>10. CASE CloneOnce(c) \/ CloneFails(c) \/ Occupied(c)
  BY <1>1, <1>10 DEF CloneOnce, CloneFails, Occupied, disk
<1>11. QED
  BY <1>4, <1>5, <1>6, <1>7, <1>8, <1>9, <1>10 DEF Step

(* The acting call keeps what it knows.                                    *)
LEMMA SoundSelf ==
  ASSUME TypeInv, DiskInv, NEW c \in Callers, Step(c)
  PROVE  SoundCall(c)'
<1> USE DEF TypeInv, TypeOK
<1>0. SoundCall(c) /\ caller[c] \in Call
  BY DEF DiskInv
<1>1. ASSUME caller'[c].pc \notin Publishing PROVE SoundCall(c)'
  BY <1>1 DEF SoundCall, Publishing, Evicting, At
<1>2. Idle.pc = "idle" /\ Cloned(c).pc = "remember"
  BY <1>0 DEF Idle, Cloned, Call
<1>3. ASSUME NEW next, Return(c, next), next.pc \notin Publishing PROVE SoundCall(c)'
  BY <1>1, <1>3 DEF Return
<1>4. ASSUME NEW s, Goto(c, s), s \notin Publishing PROVE SoundCall(c)'
  BY <1>1, <1>4 DEF Goto, Call
<1>5. CASE ReadPointer(c)
  <2>1. caller'[c].pc \in {"check", "resolve"}
    BY <1>0, <1>5 DEF ReadPointer, Goto, Call
  <2>2. QED
    BY <1>1, <2>1 DEF Publishing
<1>6. CASE LsRemote(c)
  <2>1. caller'[c].pc = "check"
    BY <1>0, <1>6 DEF LsRemote, Call
  <2>2. QED
    BY <1>1, <2>1 DEF Publishing
<1>7. CASE ResolveFails(c) \/ GiveUp(c) \/ Release(c)
  BY <1>1, <1>2, <1>7 DEF ResolveFails, GiveUp, Release, Leave, Publishing
<1>8. CASE CheckSeed(c) \/ Lead(c) \/ Follow(c) \/ Remember(c)
  BY <1>4, <1>8 DEF CheckSeed, Lead, Follow, Remember, Publishing
<1>9. CASE CloneOnce(c)
  <2>1. PICK t \in 1 .. tip :
          caller' = [caller EXCEPT ![c] = [@ EXCEPT !.pc = "publish", !.tmp = t]]
    BY <1>9 DEF CloneOnce
  <2>2. caller'[c].pc = "publish" /\ caller'[c].tmp # Torn
    BY <1>0, <2>1 DEF Call, Torn
  <2>3. QED
    BY <2>2 DEF SoundCall, Evicting, At
<1>10. CASE CloneFails(c) \/ Publish(c) \/ Republish(c)
  BY <1>2, <1>3, <1>10 DEF CloneFails, Publish, Republish, Place, Publishing
<1>11. ASSUME NEW s, Goto(c, s)
       PROVE  /\ caller'[c].pc = s /\ caller'[c].key = caller[c].key
              /\ caller'[c].tmp = caller[c].tmp
  BY <1>0, <1>11 DEF Goto, Call
<1>12. CASE RenameFails(c)
  <2>1. /\ caller'[c].pc = "occupied" /\ caller'[c].key = caller[c].key
        /\ caller'[c].tmp = caller[c].tmp /\ dirs' = dirs
        /\ dirs[caller[c].key] # Absent /\ At(c, "publish")
    BY <1>11, <1>12 DEF RenameFails, disk
  <2>2. QED
    BY <1>0, <2>1 DEF SoundCall, Publishing, Evicting, At
<1>13. CASE Occupied(c)
  <2>1. CASE Seeded(caller[c].key)
    BY <1>2, <1>3, <1>13, <2>1 DEF Occupied, Publishing
  <2>2. CASE ~Seeded(caller[c].key)
    <3>1. /\ caller'[c].pc = "evict" /\ caller'[c].key = caller[c].key
          /\ caller'[c].tmp = caller[c].tmp /\ At(c, "occupied")
      BY <1>11, <1>13, <2>2 DEF Occupied
    <3>2. caller[c].key \in Damaged
      BY <1>0, <2>2, <3>1 DEF Seeded, SoundCall, DiskInv, UndamagedIsWhole, Call
    <3>3. QED
      BY <1>0, <3>1, <3>2 DEF SoundCall, Publishing, Evicting, At
  <2>3. QED
    BY <2>1, <2>2
<1>14. CASE StartEvict(c) \/ EndEvict(c)
  <2>1. /\ caller'[c].pc \in {"evicting", "republish"}
        /\ caller'[c].key = caller[c].key /\ caller'[c].tmp = caller[c].tmp
        /\ caller[c].pc \in {"evict", "evicting"}
    BY <1>11, <1>14 DEF StartEvict, EndEvict, At
  <2>2. QED
    BY <1>0, <2>1 DEF SoundCall, Publishing, Evicting, At
<1>15. QED
  BY <1>5, <1>6, <1>7, <1>8, <1>9, <1>10, <1>12, <1>13, <1>14 DEF Step

LEMMA DiskNext == TypeInv /\ DiskInv /\ [Next]_vars => DiskInv' /\ PublishedKept
<1> SUFFICES ASSUME TypeInv, DiskInv, [Next]_vars PROVE DiskInv' /\ PublishedKept
  OBVIOUS
<1> USE DEF TypeInv, TypeOK
<1>1. ASSUME UNCHANGED <<dirs, caller>> PROVE DiskInv' /\ PublishedKept
  BY <1>1 DEF DiskInv, UndamagedIsWhole, SoundCall, At, PublishedKept
<1>2. ASSUME dirs' = dirs,
             \A d \in Callers : \/ caller'[d] = caller[d]
                               \/ caller'[d].pc \notin Publishing
      PROVE  DiskInv' /\ PublishedKept
  BY <1>2 DEF DiskInv, UndamagedIsWhole, SoundCall, At, PublishedKept, Publishing, Evicting
<1>3. ASSUME NEW p \in Procs, Crash(p) PROVE DiskInv' /\ PublishedKept
  BY <1>2, <1>3 DEF Crash, Idle, Publishing, disk
<1>4. ASSUME NEW c \in Callers, NEW r \in Wants[c], Ensure(c, r)
      PROVE  DiskInv' /\ PublishedKept
  <2>1. dirs' = dirs /\ \A d \in Callers \ {c} : caller'[d] = caller[d]
    BY <1>4 DEF Ensure, disk
  <2>2. caller'[c].pc \in {"pointer", "check"}
    BY <1>4 DEF Ensure, Idle
  <2>3. QED
    BY <1>2, <2>1, <2>2 DEF Publishing
<1>5. ASSUME NEW c \in Callers, Step(c) PROVE DiskInv' /\ PublishedKept
  <2>1. UndamagedIsWhole' /\ PublishedKept /\ OthersKept(c) /\ SoundCall(c)'
    BY <1>5, DiskStep, Others, SoundSelf
  <2>2. ASSUME NEW d \in Callers \ {c} PROVE SoundCall(d)'
    <3>1. CASE caller'[d] = caller[d]
      BY <2>1, <3>1 DEF DiskInv, SoundCall, At, PublishedKept, Call
    <3>2. CASE caller'[d] = [caller[d] EXCEPT !.pc = "woken"]
      <4>1. caller'[d].pc = "woken"
        BY <3>2 DEF Call
      <4>2. QED
        BY <4>1 DEF SoundCall, At, Publishing, Evicting
    <3>3. QED
      BY <2>1, <3>1, <3>2 DEF OthersKept
  <2>3. QED
    BY <2>1, <2>2 DEF DiskInv
<1>6. QED
  BY <1>1, <1>3, <1>4, <1>5 DEF Next, Push, Tick, TagRelease, vars, disk

LEMMA DiskAlways == Spec => []DiskInv
BY TypeInvAlways, DiskInit, DiskNext, PTL DEF Spec

(* Whatever races, fails or dies, no process finds a partial clone where   *)
(* no foreign hand left one.                                               *)
THEOREM PublicationIsAtomic == Spec => []UndamagedIsWhole
BY DiskAlways, PTL DEF DiskInv

(* A published clone is neither removed nor rewritten.                     *)
THEOREM PublicationIsFinal == Spec => PublishedStays
<1>1. TypeInv /\ DiskInv /\ [Next]_vars => [PublishedKept]_vars
  BY DiskNext
<1>2. QED
  BY <1>1, TypeInvAlways, DiskAlways, PTL DEF Spec, PublishedStays, PublishedKept

-----------------------------------------------------------------------------
(* Trees no older than the ref they are filed under.                       *)
Admissible(k, t) ==
  IF k[1] = "tag" THEN t = tags[k[2]] ELSE t \in k[2] .. tip

(* What a call has cloned belongs under its key, and what it clones by     *)
(* name is the branch its key was resolved from.                           *)
FaithfulCall(c) ==
  /\ caller[c].pc \in Publishing => Admissible(caller[c].key, caller[c].tmp)
  /\ caller[c].byName => /\ caller[c].pc \notin {"pointer", "resolve"}
                         /\ caller[c].key[1] = "commit"
                         /\ caller[c].key[2] <= tip

TreeInv == NeverOlderThanRef /\ \A c \in Callers : FaithfulCall(c)

(* The upstream does not take anything back from a tree that is filed.     *)
Lasting == \A k \in Keys : \A t \in Commits : Admissible(k, t) => Admissible(k, t)'

LEMMA LastingNext == TypeInv /\ [Next]_vars => Lasting /\ tip <= tip'
<1> SUFFICES ASSUME TypeInv, [Next]_vars PROVE Lasting /\ tip <= tip'
  OBVIOUS
<1> USE DEF TypeInv, TypeOK
<1>0. tip \in Nat
  BY DEF Commits
<1>1. CASE UNCHANGED <<tip, tags>>
  BY <1>0, <1>1 DEF Lasting, Admissible
<1>2. CASE Push
  BY <1>0, <1>2, KeyFacts DEF Push, Lasting, Admissible, Commits
<1>3. ASSUME NEW u \in Tags, TagRelease(u) PROVE Lasting /\ tip <= tip'
  <2>1. ASSUME NEW k \in Keys, NEW t \in Commits, Admissible(k, t)
        PROVE  Admissible(k, t)'
    <3>1. CASE k[1] = "tag"
      <4>1. k[2] # u
        BY <1>3, <2>1, <3>1 DEF TagRelease, Admissible, Commits
      <4>2. QED
        BY <1>3, <2>1, <3>1, <4>1, KeyFacts DEF TagRelease, Admissible
    <3>2. CASE k[1] # "tag"
      BY <1>3, <2>1, <3>2 DEF TagRelease, Admissible
    <3>3. QED
      BY <3>1, <3>2
  <2>2. QED
    BY <1>0, <1>3, <2>1 DEF Lasting, TagRelease
<1>4. QED
  BY <1>1, <1>2, <1>3 DEF Next, Tick, Crash, Ensure, Step, vars, upstream,
     ReadPointer, LsRemote, ResolveFails, CheckSeed, Lead, Follow, GiveUp,
     CloneOnce, CloneFails, Publish, RenameFails, Occupied, StartEvict, EndEvict,
     Republish, Remember, Release

LEMMA TreeInit == Init => TreeInv
BY DEF Init, TreeInv, NeverOlderThanRef, FaithfulCall, Idle, Publishing

(* A call writes a tree only where it belongs.                             *)
LEMMA TreeDirs ==
  ASSUME TypeInv, DiskInv, TreeInv, NEW c \in Callers, Step(c), tip' = tip, tags' = tags
  PROVE  NeverOlderThanRef'
<1> USE DEF TypeInv, TypeOK
<1> DEFINE k == caller[c].key
<1>0. k \in Keys /\ SoundCall(c) /\ FaithfulCall(c)
  BY DEF Call, DiskInv, TreeInv
<1>1. ASSUME dirs' = dirs PROVE NeverOlderThanRef'
  BY <1>1 DEF TreeInv, NeverOlderThanRef
<1>2. ASSUME NEW d, dirs' = [dirs EXCEPT ![k] = d],
             d # Absent => d.tree = Torn \/ Admissible(k, d.tree)
      PROVE  NeverOlderThanRef'
  <2>1. ASSUME NEW j \in Keys, dirs'[j] # Absent, dirs'[j].tree # Torn
        PROVE  Admissible(j, dirs'[j].tree)
    <3>1. CASE j = k
      BY <1>0, <1>2, <2>1, <3>1
    <3>2. CASE j # k
      BY <1>2, <2>1, <3>2 DEF TreeInv, NeverOlderThanRef, Admissible
    <3>3. QED
      BY <3>1, <3>2
  <2>2. QED
    BY <2>1 DEF NeverOlderThanRef, Admissible
<1>3. ASSUME Place(c), c \in Callers, caller[c].pc \in Publishing PROVE NeverOlderThanRef'
  <2> DEFINE d == [seed |-> TRUE, tree |-> caller[c].tmp]
  <2>1. dirs' = [dirs EXCEPT ![k] = d] /\ d.tree = caller[c].tmp
    BY <1>3 DEF Place
  <2>2. Admissible(k, d.tree)
    BY <1>0, <1>3 DEF FaithfulCall
  <2>3. QED
    BY <1>2, <2>1, <2>2
<1>4. CASE Publish(c)
  BY <1>3, <1>4 DEF Publish, At, Publishing
<1>5. CASE Republish(c)
  BY <1>1, <1>3, <1>5 DEF Republish, At, Publishing
<1>6. CASE EndEvict(c)
  BY <1>2, <1>6 DEF EndEvict
<1>7. CASE StartEvict(c)
  <2>1. CASE dirs' = dirs
    BY <1>1, <2>1
  <2>2. CASE \E seed \in BOOLEAN : dirs' = [dirs EXCEPT ![k] = [seed |-> seed, tree |-> Torn]]
    <3>1. PICK seed \in BOOLEAN : dirs' = [dirs EXCEPT ![k] = [seed |-> seed, tree |-> Torn]]
      BY <2>2
    <3> DEFINE d == [seed |-> seed, tree |-> Torn]
    <3>2. dirs' = [dirs EXCEPT ![k] = d] /\ d.tree = Torn
      BY <3>1
    <3>3. QED
      BY <1>2, <3>2
  <2>3. QED
    <3>1. dirs[k] # Absent => dirs[k].seed \in BOOLEAN
      BY <1>0 DEF Dir
    <3>2. QED
      BY <1>7, <2>1, <2>2, <3>1 DEF StartEvict
<1>8. CASE ReadPointer(c) \/ LsRemote(c) \/ ResolveFails(c) \/ GiveUp(c) \/ Release(c)
  BY <1>1, <1>8 DEF ReadPointer, LsRemote, ResolveFails, GiveUp, Release, disk
<1>9. CASE CheckSeed(c) \/ Lead(c) \/ Follow(c) \/ RenameFails(c) \/ Remember(c)
  BY <1>1, <1>9 DEF CheckSeed, Lead, Follow, RenameFails, Remember, disk
<1>10. CASE CloneOnce(c) \/ CloneFails(c) \/ Occupied(c)
  BY <1>1, <1>10 DEF CloneOnce, CloneFails, Occupied, disk
<1>11. QED
  BY <1>4, <1>5, <1>6, <1>7, <1>8, <1>9, <1>10 DEF Step

(* A call clones what its key stands for.                                  *)
LEMMA TreeSelf ==
  ASSUME TypeInv, TreeInv, NEW c \in Callers, Step(c), tip' = tip, tags' = tags
  PROVE  FaithfulCall(c)'
<1> USE DEF TypeInv, TypeOK
<1>0. FaithfulCall(c) /\ caller[c] \in Call
  BY DEF TreeInv
<1>1. ASSUME caller'[c].pc \notin Publishing \cup {"pointer", "resolve"},
             caller'[c].key = caller[c].key, caller'[c].byName = caller[c].byName
      PROVE  FaithfulCall(c)'
  BY <1>0, <1>1 DEF FaithfulCall
<1>2. ASSUME caller'[c].pc \notin Publishing, ~caller'[c].byName PROVE FaithfulCall(c)'
  BY <1>2 DEF FaithfulCall
<1>3. Idle.pc = "idle" /\ ~Idle.byName
  BY DEF Idle
<1>4. /\ Cloned(c).pc = "remember" /\ Cloned(c).key = caller[c].key
      /\ Cloned(c).byName = caller[c].byName
  BY <1>0 DEF Cloned, Call
<1>5. ASSUME NEW s, Goto(c, s)
      PROVE  /\ caller'[c].pc = s /\ caller'[c].key = caller[c].key
             /\ caller'[c].tmp = caller[c].tmp /\ caller'[c].byName = caller[c].byName
  BY <1>0, <1>5 DEF Goto, Call
<1>6. ASSUME Return(c, Idle) \/ Return(c, Cloned(c)) PROVE FaithfulCall(c)'
  BY <1>1, <1>2, <1>3, <1>4, <1>6 DEF Return, Publishing
<1>7. CASE ReadPointer(c)
  <2>1. ~caller[c].byName
    BY <1>0, <1>7 DEF ReadPointer, At, FaithfulCall
  <2>2. caller'[c].pc \in {"check", "resolve"} /\ caller'[c].byName = caller[c].byName
    BY <1>0, <1>7 DEF ReadPointer, Goto, Call
  <2>3. QED
    BY <1>2, <2>1, <2>2 DEF Publishing
<1>8. CASE LsRemote(c)
  <2>1. PICK x \in Resolution(caller[c].want) :
          caller' = [caller EXCEPT ![c] =
            [@ EXCEPT !.pc = "check", !.key = x.key, !.byName = x.byName]]
    BY <1>8 DEF LsRemote
  <2>2. /\ caller'[c].pc = "check" /\ caller'[c].key = x.key
        /\ caller'[c].byName = x.byName
    BY <1>0, <2>1 DEF Call
  <2>3. x.byName => x.key = <<"commit", tip>>
    BY <1>8, <2>1, ResolutionTyped DEF LsRemote, LooksUpFloating
  <2>4. QED
    BY <2>2, <2>3 DEF FaithfulCall, Publishing, Commits
<1>9. CASE ResolveFails(c) \/ GiveUp(c) \/ Release(c)
  BY <1>2, <1>3, <1>9 DEF ResolveFails, GiveUp, Release, Leave, Publishing
<1>10. CASE CheckSeed(c) \/ Lead(c) \/ Follow(c) \/ Remember(c)
  BY <1>1, <1>5, <1>10 DEF CheckSeed, Lead, Follow, Remember, Publishing
<1>11. CASE CloneOnce(c)
  <2> DEFINE k == caller[c].key  t == Fetched(k, caller[c].byName)
  <2>1. t \in 1 .. tip /\ caller' = [caller EXCEPT ![c] = [@ EXCEPT !.pc = "publish", !.tmp = t]]
    BY <1>11 DEF CloneOnce
  <2>2. /\ caller'[c].pc = "publish" /\ caller'[c].key = k /\ caller'[c].tmp = t
        /\ caller'[c].byName = caller[c].byName
    BY <1>0, <2>1 DEF Call
  <2>3. k \in Keys /\ tip \in Nat
    BY <1>0 DEF Call, Commits
  <2>4. Admissible(k, t)
    <3>1. CASE caller[c].byName
      BY <1>0, <2>3, <3>1, KeyFacts DEF FaithfulCall, Admissible, Fetched, Commits
    <3>2. CASE ~caller[c].byName
      BY <2>1, <2>3, <3>2, KeyFacts DEF Admissible, Fetched, Commits
    <3>3. QED
      BY <3>1, <3>2
  <2>5. QED
    BY <1>0, <2>2, <2>4 DEF FaithfulCall, Admissible
<1>12. CASE CloneFails(c) \/ Publish(c)
  BY <1>6, <1>12 DEF CloneFails, Publish, Place
<1>13. CASE Republish(c)
  BY <1>6, <1>13 DEF Republish, Place
<1>14. ASSUME NEW s \in Publishing, Goto(c, s), caller[c].pc \in Publishing
       PROVE  FaithfulCall(c)'
  BY <1>0, <1>5, <1>14 DEF FaithfulCall, Admissible, Publishing
<1>15. CASE RenameFails(c) \/ StartEvict(c) \/ EndEvict(c)
  BY <1>14, <1>15 DEF RenameFails, StartEvict, EndEvict, At, Publishing
<1>16. CASE Occupied(c)
  BY <1>6, <1>14, <1>16 DEF Occupied, At, Publishing
<1>17. QED
  BY <1>7, <1>8, <1>9, <1>10, <1>11, <1>12, <1>13, <1>15, <1>16 DEF Step

LEMMA TreeNext == TypeInv /\ DiskInv /\ TreeInv /\ [Next]_vars => TreeInv'
<1> SUFFICES ASSUME TypeInv, DiskInv, TreeInv, [Next]_vars PROVE TreeInv'
  OBVIOUS
<1> USE DEF TypeInv, TypeOK
<1>0. Lasting /\ tip <= tip' /\ tip \in Nat /\ tip' \in Nat
  BY LastingNext, TypeNext DEF Commits
<1>1. ASSUME dirs' = dirs PROVE NeverOlderThanRef'
  <2>1. ASSUME NEW k \in Keys, dirs[k] # Absent, dirs[k].tree # Torn
        PROVE  Admissible(k, dirs[k].tree)'
    <3>1. dirs[k].tree \in Commits
      BY <2>1 DEF Dir
    <3>2. Admissible(k, dirs[k].tree)
      BY <2>1 DEF TreeInv, NeverOlderThanRef, Admissible
    <3>3. QED
      BY <1>0, <1>1, <3>1, <3>2 DEF Lasting, Admissible
  <2>2. QED
    BY <1>1, <2>1 DEF NeverOlderThanRef, Admissible
<1>2. ASSUME NEW d \in Callers, caller'[d] = caller[d] PROVE FaithfulCall(d)'
  <2>1. FaithfulCall(d) /\ SoundCall(d) /\ caller[d] \in Call
    BY DEF TreeInv, DiskInv
  <2>2. caller[d].pc \in Publishing => Admissible(caller[d].key, caller[d].tmp)'
    BY <1>0, <1>2, <2>1 DEF FaithfulCall, SoundCall, Lasting, Call, Admissible
  <2>3. caller[d].byName => caller[d].key[2] <= tip'
    BY <1>0, <2>1, KeyFacts DEF FaithfulCall, Call, Commits
  <2>4. QED
    BY <1>2, <2>1, <2>2, <2>3 DEF FaithfulCall, Admissible
<1>3. ASSUME NEW d \in Callers, caller'[d].pc \notin Publishing, ~caller'[d].byName
      PROVE  FaithfulCall(d)'
  BY <1>3 DEF FaithfulCall
<1>4. Idle.pc = "idle" /\ ~Idle.byName
  BY DEF Idle
<1>5. ASSUME UNCHANGED <<dirs, caller>> PROVE TreeInv'
  BY <1>1, <1>2, <1>5 DEF TreeInv
<1>6. ASSUME NEW p \in Procs, Crash(p) PROVE TreeInv'
  BY <1>1, <1>2, <1>3, <1>4, <1>6 DEF Crash, TreeInv, Publishing, disk
<1>7. ASSUME NEW c \in Callers, NEW r \in Wants[c], Ensure(c, r) PROVE TreeInv'
  <2>1. dirs' = dirs /\ \A d \in Callers \ {c} : caller'[d] = caller[d]
    BY <1>7 DEF Ensure, disk
  <2>2. caller'[c].pc \in {"pointer", "check"} /\ ~caller'[c].byName
    BY <1>7 DEF Ensure, Idle
  <2>3. QED
    BY <1>1, <1>2, <1>3, <2>1, <2>2 DEF TreeInv, Publishing
<1>8. ASSUME NEW c \in Callers, Step(c) PROVE TreeInv'
  <2>1. tip' = tip /\ tags' = tags
    BY <1>8 DEF Step, upstream, ReadPointer, LsRemote, ResolveFails, CheckSeed, Lead,
       Follow, GiveUp, CloneOnce, CloneFails, Publish, RenameFails, Occupied,
       StartEvict, EndEvict, Republish, Remember, Release
  <2>2. NeverOlderThanRef' /\ FaithfulCall(c)' /\ OthersKept(c)
    BY <1>8, <2>1, TreeDirs, TreeSelf, Others
  <2>3. ASSUME NEW d \in Callers \ {c} PROVE FaithfulCall(d)'
    <3>1. CASE caller'[d] = caller[d]
      BY <1>2, <3>1
    <3>2. CASE caller'[d] = [caller[d] EXCEPT !.pc = "woken"]
      <4>1. /\ caller'[d].pc = "woken" /\ caller'[d].key = caller[d].key
            /\ caller'[d].byName = caller[d].byName /\ FaithfulCall(d)
        BY <3>2 DEF Call, TreeInv
      <4>2. QED
        BY <2>1, <4>1 DEF FaithfulCall, Publishing
    <3>3. QED
      BY <2>2, <3>1, <3>2 DEF OthersKept
  <2>4. QED
    BY <2>2, <2>3 DEF TreeInv
<1>9. QED
  BY <1>5, <1>6, <1>7, <1>8 DEF Next, Push, Tick, TagRelease, vars, disk

LEMMA TreeAlways == Spec => []TreeInv
BY TypeInvAlways, DiskAlways, TreeInit, TreeNext, PTL DEF Spec

(* Whichever of the racing clones is published, a build never reads a      *)
(* commit older than the ref it resolved, nor anything but the tag's.      *)
THEOREM TreesAreCurrent == Spec => []NeverOlderThanRef
BY TreeAlways, PTL DEF TreeInv

-----------------------------------------------------------------------------
(* The cache is an atomic store of trees.                                  *)

(* One call touches one directory.                                         *)
LEMMA StepTouchesOne ==
  ASSUME NEW c \in Callers, Step(c)
  PROVE  /\ UNCHANGED <<tip, tags>>
         /\ dirs' = dirs \/ \E d : dirs' = [dirs EXCEPT ![caller[c].key] = d]
<1>1. UNCHANGED <<tip, tags>>
  BY DEF Step, upstream, ReadPointer, LsRemote, ResolveFails, CheckSeed, Lead,
     Follow, GiveUp, CloneOnce, CloneFails, Publish, RenameFails, Occupied,
     StartEvict, EndEvict, Republish, Remember, Release
<1>2. CASE ReadPointer(c) \/ LsRemote(c) \/ ResolveFails(c) \/ GiveUp(c) \/ Release(c)
  BY <1>1, <1>2 DEF ReadPointer, LsRemote, ResolveFails, GiveUp, Release, disk
<1>3. CASE CheckSeed(c) \/ Lead(c) \/ Follow(c) \/ RenameFails(c) \/ Remember(c)
  BY <1>1, <1>3 DEF CheckSeed, Lead, Follow, RenameFails, Remember, disk
<1>4. CASE CloneOnce(c) \/ CloneFails(c) \/ Occupied(c)
  BY <1>1, <1>4 DEF CloneOnce, CloneFails, Occupied, disk
<1>5. CASE Publish(c) \/ Republish(c)
  BY <1>1, <1>5 DEF Publish, Republish, Place
<1>6. CASE StartEvict(c) \/ EndEvict(c)
  BY <1>1, <1>6 DEF StartEvict, EndEvict
<1>7. QED
  BY <1>2, <1>3, <1>4, <1>5, <1>6 DEF Step

(* A directory that appears is a tree the upstream holds for its key.      *)
LEMMA AppearsFiled ==
  ASSUME TypeInv, DiskInv, TypeInv', DiskInv', TreeInv', PublishedKept, UNCHANGED <<tip, tags>>,
         NEW k \in Keys, NEW d, dirs' = [dirs EXCEPT ![k] = d]
  PROVE  (k \in Keys \ Damaged /\ Store!File(k)) \/ Trees' = Trees
<1> USE DEF TypeInv, TypeOK
<1>1. CASE k \in Damaged \/ dirs'[k] = dirs[k]
  BY <1>1 DEF Trees
<1>2. CASE k \notin Damaged /\ dirs'[k] # dirs[k]
  <2>1. dirs[k] = Absent /\ dirs'[k] # Absent
    BY <1>2 DEF PublishedKept
  <2>2. dirs'[k] \in Dir /\ dirs'[k].seed /\ dirs'[k].tree # Torn
    BY <1>2, <2>1 DEF DiskInv, UndamagedIsWhole
  <2>3. dirs'[k].tree \in Store!Holding(k)
    BY <2>1, <2>2 DEF TreeInv, NeverOlderThanRef, Store!Holding, Torn
  <2>4. Trees[k] = Absent /\ Trees' = [Trees EXCEPT ![k] = dirs'[k].tree]
    BY <1>2, <2>1, <2>2 DEF Trees
  <2>5. QED
    BY <1>2, <2>3, <2>4 DEF Store!File
<1>3. QED
  BY <1>1, <1>2

LEMMA StoreStep ==
  ASSUME TypeInv, DiskInv, TreeInv, [Next]_vars
  PROVE  [Store!Next]_<<tip, tags, Trees>>
<1>1. TypeInv' /\ DiskInv' /\ TreeInv' /\ PublishedKept
  BY TypeInvNext, DiskNext, TreeNext
<1>2. ASSUME UNCHANGED <<tip, tags, dirs>> PROVE UNCHANGED <<tip, tags, Trees>>
  BY <1>2 DEF Trees
<1>3. CASE Push
  BY <1>3 DEF Push, disk, Trees, Store!Next, Store!Push
<1>4. ASSUME NEW t \in Tags, TagRelease(t) PROVE Store!Next
  BY <1>4 DEF TagRelease, disk, Trees, Store!Next, Store!TagRelease
<1>5. CASE Tick
  BY <1>2, <1>5 DEF Tick, disk
<1>6. ASSUME NEW p \in Procs, Crash(p) PROVE UNCHANGED <<tip, tags, Trees>>
  BY <1>2, <1>6 DEF Crash, upstream, disk
<1>7. ASSUME NEW c \in Callers, NEW r \in Wants[c], Ensure(c, r)
      PROVE  UNCHANGED <<tip, tags, Trees>>
  BY <1>2, <1>7 DEF Ensure, upstream, disk
<1>8. ASSUME NEW c \in Callers, Step(c)
      PROVE  Store!Next \/ UNCHANGED <<tip, tags, Trees>>
  <2>1. caller[c].key \in Keys
    BY DEF TypeInv, TypeOK, Call
  <2>2. UNCHANGED <<tip, tags>>
    BY <1>8, StepTouchesOne
  <2>3. CASE dirs' = dirs
    BY <1>2, <2>2, <2>3
  <2>4. CASE \E d : dirs' = [dirs EXCEPT ![caller[c].key] = d]
    BY <1>1, <2>1, <2>2, <2>4, AppearsFiled DEF Store!Next
  <2>5. QED
    BY <1>8, <2>3, <2>4, StepTouchesOne
<1>9. CASE UNCHANGED vars
  BY <1>2, <1>9 DEF vars, upstream, disk
<1>10. QED
  BY <1>3, <1>4, <1>5, <1>6, <1>7, <1>8, <1>9 DEF Next

(* Whatever calls of however many processes do, fail at or die in, readers *)
(* of undamaged directories see the one-step store of CloneStore.          *)
THEOREM StoreRefinement == Spec => ImplementsStore
<1>1. Init => Store!Init
  BY DEF Init, Store!Init, Trees
<1>2. TypeInv /\ DiskInv /\ TreeInv /\ [Next]_vars => [Store!Next]_<<tip, tags, Trees>>
  BY StoreStep
<1>3. QED
  BY <1>1, <1>2, TypeInvAlways, DiskAlways, TreeAlways, PTL
     DEF Spec, ImplementsStore, Store!Spec, Store!vars

-----------------------------------------------------------------------------
(* Zero TTL.                                                               *)
Unresolved == {"idle", "pointer", "resolve"}

CurrentCall(c) ==
  /\ caller[c].pc # "idle" => caller[c].asked <= tip
  /\ (/\ caller[c].pc \notin Unresolved
      /\ caller[c].want \in {Branch, Head}
      /\ TTLOf[ProcOf[c]] = 0) => caller[c].key[2] >= caller[c].asked

(* No pointer is from the future, so none is fresh under a zero TTL.       *)
PastPointers == \A r \in Floating : ptrs[r] # NoPtr => ptrs[r].at <= now

CurrentInv == PastPointers /\ \A c \in Callers : CurrentCall(c)

LEMMA CurrentInit == Init => CurrentInv
BY DEF Init, CurrentInv, PastPointers, CurrentCall, Idle, Unresolved

LEMMA CurrentSelf ==
  ASSUME TypeInv, CurrentInv, NEW c \in Callers, Step(c), tip' = tip
  PROVE  CurrentCall(c)'
<1> USE DEF TypeInv, TypeOK
<1>0. CurrentCall(c) /\ caller[c] \in Call
  BY DEF CurrentInv
<1>1. ASSUME caller'[c].pc = "idle" PROVE CurrentCall(c)'
  BY <1>1 DEF CurrentCall, Unresolved
<1>2. ASSUME caller[c].pc \notin Unresolved, caller'[c].pc # "idle",
             caller'[c].key = caller[c].key, caller'[c].want = caller[c].want,
             caller'[c].asked = caller[c].asked
      PROVE  CurrentCall(c)'
  BY <1>0, <1>2 DEF CurrentCall, Unresolved
<1>3. Idle.pc = "idle"
  BY DEF Idle
<1>4. ASSUME NEW s, Goto(c, s), s # "idle", caller[c].pc \notin Unresolved
      PROVE  CurrentCall(c)'
  BY <1>0, <1>2, <1>4 DEF Goto, Call
<1>5. ASSUME Return(c, Idle) \/ Return(c, Cloned(c)), caller[c].pc \notin Unresolved
      PROVE  CurrentCall(c)'
  <2>1. /\ Cloned(c).pc = "remember" /\ Cloned(c).key = caller[c].key
        /\ Cloned(c).want = caller[c].want /\ Cloned(c).asked = caller[c].asked
    BY <1>0 DEF Cloned, Call
  <2>2. caller'[c] \in {Idle, Cloned(c)}
    BY <1>5 DEF Return
  <2>3. QED
    BY <1>1, <1>2, <1>3, <1>5, <2>1, <2>2
<1>6. CASE ReadPointer(c)
  <2> DEFINE r == caller[c].want
  <2>1. r \in Floating /\ caller[c].pc = "pointer"
    BY <1>6 DEF ReadPointer, LooksUpFloating, At
  <2>2. /\ caller'[c].pc \in {"check", "resolve"} /\ caller'[c].want = r
        /\ caller'[c].asked = caller[c].asked
        /\ caller'[c].pc = "check" => FreshPointer(c, r)
    BY <1>0, <1>6 DEF ReadPointer, Goto, Call
  <2>3. TTLOf[ProcOf[c]] = 0 => ~FreshPointer(c, r)
    BY <2>1 DEF FreshPointer, CurrentInv, PastPointers, Pointer
  <2>4. QED
    BY <1>0, <2>1, <2>2, <2>3 DEF CurrentCall, Unresolved
<1>7. CASE LsRemote(c)
  <2>1. PICK x \in Resolution(caller[c].want) :
          caller' = [caller EXCEPT ![c] =
            [@ EXCEPT !.pc = "check", !.key = x.key, !.byName = x.byName]]
    BY <1>7 DEF LsRemote
  <2>2. /\ caller'[c].pc = "check" /\ caller'[c].key = x.key
        /\ caller'[c].want = caller[c].want /\ caller'[c].asked = caller[c].asked
    BY <1>0, <2>1 DEF Call
  <2>3. caller[c].want \in {Branch, Head} => x.key = <<"commit", tip>>
    BY <1>7, <2>1, ResolutionTyped
       DEF LsRemote, LooksUpFloating, Floating, Branch, Head, Semver
  <2>4. caller[c].asked <= tip /\ tip \in Nat /\ caller[c].asked \in Nat
    BY <1>0, <1>7 DEF LsRemote, At, CurrentCall, Call, Commits
  <2>5. QED
    BY <2>2, <2>3, <2>4 DEF CurrentCall
<1>8. CASE ResolveFails(c) \/ GiveUp(c) \/ Release(c)
  BY <1>1, <1>3, <1>8 DEF ResolveFails, GiveUp, Release, Leave
<1>9. CASE CheckSeed(c) \/ Lead(c) \/ Follow(c) \/ Remember(c)
  BY <1>4, <1>9 DEF CheckSeed, Lead, Follow, Remember, At, Unresolved
<1>10. CASE RenameFails(c) \/ StartEvict(c) \/ EndEvict(c)
  BY <1>4, <1>10 DEF RenameFails, StartEvict, EndEvict, At, Unresolved
<1>11. CASE CloneOnce(c)
  <2>1. PICK t : caller' = [caller EXCEPT ![c] = [@ EXCEPT !.pc = "publish", !.tmp = t]]
    BY <1>11 DEF CloneOnce
  <2>2. /\ caller'[c].pc = "publish" /\ caller'[c].key = caller[c].key
        /\ caller'[c].want = caller[c].want /\ caller'[c].asked = caller[c].asked
    BY <1>0, <2>1 DEF Call
  <2>3. QED
    BY <1>2, <1>11, <2>2 DEF CloneOnce, At, Unresolved
<1>12. CASE CloneFails(c) \/ Publish(c)
  BY <1>5, <1>12 DEF CloneFails, Publish, Place, At, Unresolved
<1>13. CASE Republish(c)
  BY <1>5, <1>13 DEF Republish, Place, At, Unresolved
<1>14. CASE Occupied(c)
  BY <1>4, <1>5, <1>14 DEF Occupied, At, Unresolved
<1>15. QED
  BY <1>6, <1>7, <1>8, <1>9, <1>10, <1>11, <1>12, <1>13, <1>14 DEF Step

LEMMA PastPointersNext == TypeInv /\ PastPointers /\ [Next]_vars => PastPointers'
<1> SUFFICES ASSUME TypeInv, PastPointers, [Next]_vars PROVE PastPointers'
  OBVIOUS
<1> USE DEF TypeInv, TypeOK
<1>1. ASSUME ptrs' = ptrs, now' = now PROVE PastPointers'
  BY <1>1 DEF PastPointers
<1>2. CASE Tick
  BY <1>2 DEF Tick, disk, PastPointers, Pointer
<1>3. ASSUME NEW c \in Callers, Remember(c) PROVE PastPointers'
  BY <1>3 DEF Remember, upstream, PastPointers, Stamped
<1>4. QED
  BY <1>1, <1>2, <1>3 DEF Next, Push, TagRelease, Crash, Ensure, Step, vars, upstream,
     disk, ReadPointer, LsRemote, ResolveFails, CheckSeed, Lead, Follow, GiveUp,
     CloneOnce, CloneFails, Publish, RenameFails, Occupied, StartEvict, EndEvict,
     Republish, Release

LEMMA CurrentNext == TypeInv /\ CurrentInv /\ [Next]_vars => CurrentInv'
<1> SUFFICES ASSUME TypeInv, CurrentInv, [Next]_vars PROVE CurrentInv'
  OBVIOUS
<1> USE DEF TypeInv, TypeOK
<1>0. PastPointers' /\ tip <= tip' /\ tip \in Nat /\ tip' \in Nat
  BY PastPointersNext, LastingNext, TypeNext DEF CurrentInv, Commits
<1>1. ASSUME NEW d \in Callers, caller'[d] = caller[d] PROVE CurrentCall(d)'
  <2>1. CurrentCall(d) /\ caller[d].asked \in Nat
    BY DEF CurrentInv, Call, Commits
  <2>2. QED
    BY <1>0, <1>1, <2>1 DEF CurrentCall
<1>2. ASSUME NEW d \in Callers, caller'[d].pc = "idle" PROVE CurrentCall(d)'
  BY <1>2 DEF CurrentCall, Unresolved
<1>3. ASSUME UNCHANGED caller PROVE CurrentInv'
  BY <1>0, <1>1, <1>3 DEF CurrentInv
<1>4. ASSUME NEW p \in Procs, Crash(p) PROVE CurrentInv'
  BY <1>0, <1>1, <1>2, <1>4 DEF Crash, CurrentInv, Idle
<1>5. ASSUME NEW c \in Callers, NEW r \in Wants[c], Ensure(c, r) PROVE CurrentInv'
  <2>1. tip' = tip /\ \A d \in Callers \ {c} : caller'[d] = caller[d]
    BY <1>5 DEF Ensure, upstream
  <2>2. CASE r \in Floating
    <3>1. caller'[c].pc = "pointer" /\ caller'[c].asked = tip
      BY <1>5, <2>2 DEF Ensure, Idle
    <3>2. CurrentCall(c)'
      BY <1>0, <2>1, <3>1 DEF CurrentCall, Unresolved
    <3>3. QED
      BY <1>0, <1>1, <2>1, <3>2 DEF CurrentInv
  <2>3. CASE r \notin Floating
    <3>1. caller'[c].pc = "check" /\ caller'[c].asked = tip /\ caller'[c].want = r
      BY <1>5, <2>3 DEF Ensure, Idle
    <3>2. CurrentCall(c)'
      BY <1>0, <2>1, <2>3, <3>1 DEF CurrentCall, Floating
    <3>3. QED
      BY <1>0, <1>1, <2>1, <3>2 DEF CurrentInv
  <2>4. QED
    BY <2>2, <2>3
<1>6. ASSUME NEW c \in Callers, Step(c) PROVE CurrentInv'
  <2>1. tip' = tip
    BY <1>6 DEF Step, upstream, ReadPointer, LsRemote, ResolveFails, CheckSeed, Lead,
       Follow, GiveUp, CloneOnce, CloneFails, Publish, RenameFails, Occupied,
       StartEvict, EndEvict, Republish, Remember, Release
  <2>2. CurrentCall(c)' /\ OthersKept(c)
    BY <1>6, <2>1, CurrentSelf, Others
  <2>3. ASSUME NEW d \in Callers \ {c} PROVE CurrentCall(d)'
    <3>1. CASE caller'[d] = caller[d]
      BY <1>1, <3>1
    <3>2. CASE Waiting(d, c) /\ caller'[d] = [caller[d] EXCEPT !.pc = "woken"]
      <4>1. /\ caller'[d].pc = "woken" /\ caller'[d].key = caller[d].key
            /\ caller'[d].want = caller[d].want /\ caller'[d].asked = caller[d].asked
            /\ caller[d].pc = "wait" /\ CurrentCall(d)
        BY <3>2 DEF Waiting, At, Call, CurrentInv
      <4>2. QED
        BY <2>1, <4>1 DEF CurrentCall, Unresolved
    <3>3. QED
      BY <2>2, <3>1, <3>2 DEF OthersKept
  <2>4. QED
    BY <1>0, <2>2, <2>3 DEF CurrentInv
<1>7. QED
  BY <1>3, <1>4, <1>5, <1>6 DEF Next, Push, Tick, TagRelease, vars

(* With --git-source-cache-ttl 0 no pointer another process left behind makes  *)
(* a build read a commit older than the branch was when it asked.          *)
THEOREM ZeroTTLReadsCurrent == Spec => []ZeroTTLIsCurrent
<1>1. CurrentInv => ZeroTTLIsCurrent
  BY DEF CurrentInv, CurrentCall, ZeroTTLIsCurrent, At, Unresolved
<1>2. Spec => []CurrentInv
  BY TypeInvAlways, CurrentInit, CurrentNext, PTL DEF Spec
<1>3. QED
  BY <1>1, <1>2, PTL
=============================================================================

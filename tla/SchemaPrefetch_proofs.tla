------------------------- MODULE SchemaPrefetch_proofs -------------------------
(***************************************************************************)
(* Proofs about the schema prefetch, for every set of kinds, every pool of *)
(* workers and every number of retries.                                    *)
(***************************************************************************)
EXTENDS SchemaPrefetch, TLAPS

(* A kind belongs to at most one worker, and to none while it is queued.   *)
Owned ==
  /\ \A w \in Workers : Working(w) => worker[w].job \in Kinds \ queue
  /\ \A v, w \in Workers :
       Working(v) /\ Working(w) /\ v # w => worker[v].job # worker[w].job

(* The requests sent for a kind are those its worker's attempt explains.   *)
Counted ==
  /\ \A k \in queue : requests[k] = 0
  /\ \A w \in Workers : worker[w].pc \in {"check", "backoff"} =>
       requests[worker[w].job] = worker[w].attempt
  /\ \A w \in Workers : worker[w].pc \in {"request", "write", "rename"} =>
       requests[worker[w].job] = worker[w].attempt + 1
  /\ BoundedRequests

(* Nothing has been taken or sent before the plan is made.                 *)
Fresh ==
  phase = "plan" =>
    /\ queue = {}
    /\ worker = [w \in Workers |-> Idle]
    /\ requests = [k \in Kinds |-> 0]

(* As long as there is no error, a kind to fetch is settled or in hand.    *)
InHand(k) == \E w \in Workers : Working(w) /\ worker[w].job = k
Settled   == Cached \cup missing

(* A file of the cache is whole, and so is the body a worker writes.       *)
Whole ==
  /\ \A k \in Kinds : files[k] \in {"none", "json"}
  /\ \A w \in Workers : worker[w].pc \in {"write", "rename"} =>
       worker[w].body = "json"
  /\ CacheNeverPoisons

Accounted ==
  /\ \A w \in Workers : worker[w].pc = "stopped" => firstErr
  /\ phase = "fetch" /\ ~firstErr =>
       \A k \in Fetchable : k \in Settled \cup queue \/ InHand(k)
  /\ \A w \in Workers : worker[w].pc = "left" => queue = {} \/ phase # "fetch"
  /\ phase = "validate" => Fetchable \subseteq Settled
  /\ \A k \in missing : registry[k] = "absent"
  /\ EveryKindAccounted

PoolInv == TypeOK /\ Fresh /\ Owned /\ Counted /\ Whole /\ Accounted

-----------------------------------------------------------------------------
(***************************************************************************)
(* What one step of a worker does, with the phase and plan unchanged.      *)
(***************************************************************************)
Same == UNCHANGED <<registry, run, phase, cancelled, result, fetch>>

LEMMA WorkerStep ==
  ASSUME NEW w \in Workers, Step(w)
  PROVE  /\ Same /\ phase = "fetch"
         /\ \/ \E k \in Kinds : Take(w, k)
            \/ Leave(w)
            \/ Working(w) /\ queue' = queue /\ Fail(w)
            \/ worker[w].pc = "check" /\ queue' = queue /\ BackOff(w)
            \/ /\ \/ worker[w].pc = "check" /\ worker[w].attempt = 0
                  \/ worker[w].pc = "backoff"
               /\ queue' = queue /\ Send(w)
            \/ /\ worker[w].pc = "request" /\ queue' = queue
               /\ Deliver(w, "json") \/ Mark(w) \/ (~Exhausted(w) /\ Retry(w))
            \/ worker[w].pc = "write" /\ queue' = queue /\ Hold(w)
            \/ worker[w].pc = "rename" /\ queue' = queue /\ StoreSchema(w)
<1>1. CASE \E k \in Kinds : Take(w, k)
  BY <1>1 DEF Take, At, Same
<1>2. CASE Leave(w)
  BY <1>2 DEF Leave, At, Same
<1>3. CASE Attempt(w)
  BY <1>3 DEF Attempt, At, Same, Working
<1>4. CASE Backoff(w)
  BY <1>4 DEF Backoff, At, Same, Working
<1>5. CASE Answer(w)
  BY <1>5 DEF Answer, At, Same, Working, Deliver, Verified
<1>6. CASE Write(w)
  BY <1>6 DEF Write, At, Same, Working, Hold
<1>7. CASE Rename(w)
  BY <1>7 DEF Rename, At, Same, Working
<1>8. QED
  BY <1>1, <1>2, <1>3, <1>4, <1>5, <1>6, <1>7 DEF Step

(***************************************************************************)
(* A process that starts, or is killed, has nothing in memory.             *)
(***************************************************************************)
LEMMA Forgotten ==
  ASSUME Die \/ Rerun
  PROVE  /\ Forget /\ UNCHANGED <<registry, files>>
         /\ phase' \in {"dead", "plan"}
         /\ run' = run \/ (run < MaxRuns /\ run' = run + 1)
BY DEF Die, Rerun

(***************************************************************************)
(* The invariant holds initially, and the state stays typed.               *)
(***************************************************************************)
LEMMA InitInv == Init => PoolInv
<1> SUFFICES ASSUME Init PROVE PoolInv
  OBVIOUS
<1> USE ConstantsAssumption DEF ConstantsAssumption
<1>1. worker \in [Workers -> Worker]
  BY DEF Init, Worker, Stages, Idle
<1>2. TypeOK /\ Fresh
  <2>1. Fresh
    BY DEF Init, Fresh
  <2>2. /\ run \in 1 .. MaxRuns /\ phase \in Phases
        /\ requests \in [Kinds -> Nat]
    BY DEF Init, Phases
  <2>3. QED
    BY <1>1, <2>1, <2>2 DEF Init, TypeOK
<1>3. Owned /\ Counted
  BY DEF Init, Owned, Counted, BoundedRequests, Working, Idle
<1>4. Accounted
  BY DEF Init, Accounted, EveryKindAccounted, Idle
<1>5. Whole
  BY DEF Init, Whole, CacheNeverPoisons, Idle
<1>6. QED
  BY <1>2, <1>3, <1>4, <1>5 DEF PoolInv

LEMMA TypeNext == TypeOK /\ Owned /\ [Next]_vars => TypeOK'
<1> SUFFICES ASSUME TypeOK, Owned, [Next]_vars PROVE TypeOK'
  OBVIOUS
<1> USE ConstantsAssumption DEF ConstantsAssumption, TypeOK
<1>1. CASE Plan
  BY <1>1 DEF Plan, Fetchable, Uncovered, Phases, Ended
<1>2. CASE Interrupt \/ Join \/ \E k \in Kinds : Elsewhere(k)
  BY <1>2 DEF Interrupt, Join, Elsewhere, pool, Phases, Ended, Bodies
<1>3. CASE Validate
  <2>1. result' \in [Kinds -> {"none", "checked", "skipped", "broken"}]
    BY <1>3 DEF Validate, Outcome
  <2>2. QED
    BY <1>3, <2>1 DEF Validate, pool, Phases, Ended
<1>4. CASE Die \/ Rerun
  <2>1. Forget /\ UNCHANGED <<registry, files>> /\ phase' \in {"dead", "plan"}
    BY <1>4, Forgotten
  <2>2. worker' \in [Workers -> Worker]
    BY <2>1 DEF Forget, Worker, Stages, Idle
  <2>3. run' \in 1 .. MaxRuns
    BY <1>4, Forgotten
  <2>4. QED
    BY <2>1, <2>2, <2>3 DEF Forget, Phases, Ended
<1>5. ASSUME NEW w \in Workers, Step(w) PROVE TypeOK'
  <2> USE DEF Same, Worker, Stages
  <2>0. Same
    BY <1>5, WorkerStep
  <2>1. ASSUME NEW k \in Kinds, Take(w, k) PROVE TypeOK'
    BY <2>1 DEF Take
  <2>2. CASE Leave(w)
    BY <2>2 DEF Leave
  <2>3. CASE queue' = queue /\ Fail(w)
    BY <2>0, <2>3 DEF Fail, Stopped, Idle
  <2>4. CASE queue' = queue /\ BackOff(w)
    BY <2>0, <2>4 DEF BackOff
  <2>5. CASE Working(w) /\ queue' = queue /\ Send(w)
    <3>1. worker[w].job \in Kinds
      BY <2>5 DEF Owned
    <3>2. requests' \in [Kinds -> Nat]
      BY <2>5, <3>1 DEF Send
    <3>3. QED
      BY <2>0, <2>5, <3>2 DEF Send
  <2>6. CASE Working(w) /\ queue' = queue /\ StoreSchema(w)
    <3>1. worker[w].job \in Kinds
      BY <2>6 DEF Owned
    <3>2. files' \in [Kinds -> Bodies \cup {"none"}]
      BY <2>6, <3>1 DEF StoreSchema
    <3>3. QED
      BY <2>0, <2>6, <3>2 DEF StoreSchema, Idle
  <2>7. CASE Working(w) /\ queue' = queue /\ Mark(w)
    <3>1. worker[w].job \in Kinds
      BY <2>7 DEF Owned
    <3>2. QED
      BY <2>0, <2>7, <3>1 DEF Mark, Idle
  <2>8. CASE queue' = queue /\ ~Exhausted(w) /\ Retry(w)
    BY <2>0, <2>8 DEF Retry, Exhausted
  <2>9. CASE queue' = queue /\ (Deliver(w, "json") \/ Hold(w))
    BY <2>0, <2>9 DEF Deliver, Hold, Bodies
  <2>10. QED
    BY <1>5, <2>1, <2>2, <2>3, <2>4, <2>5, <2>6, <2>7, <2>8, <2>9, WorkerStep
      DEF Working
<1>6. CASE UNCHANGED vars
  BY <1>6 DEF vars, pool
<1>7. QED
  BY <1>1, <1>2, <1>3, <1>4, <1>5, <1>6 DEF Next

-----------------------------------------------------------------------------
(***************************************************************************)
(* Ownership and the request count: only the steps of workers matter.      *)
(***************************************************************************)
LEMMA OwnedNext == PoolInv /\ [Next]_vars => Owned' /\ Counted'
<1> SUFFICES ASSUME PoolInv, [Next]_vars PROVE Owned' /\ Counted'
  OBVIOUS
<1> USE ConstantsAssumption DEF ConstantsAssumption
<1>0. TypeOK /\ Fresh /\ Owned /\ Counted
  BY DEF PoolInv
<1>1. CASE Plan
  <2>1. /\ worker' = worker /\ requests' = requests
        /\ \A w \in Workers : worker[w].pc = "idle"
        /\ \A k \in Kinds : requests[k] = 0
        /\ queue' \subseteq Kinds
    BY <1>0, <1>1 DEF Plan, Fresh, Idle, Fetchable, Uncovered
  <2>2. Owned'
    BY <2>1 DEF Owned, Working
  <2>3. Counted'
    BY <2>1 DEF Counted, BoundedRequests
  <2>4. QED
    BY <2>2, <2>3
<1>2. CASE Interrupt \/ Join \/ Validate \/ (\E k \in Kinds : Elsewhere(k))
           \/ UNCHANGED vars
  BY <1>0, <1>2 DEF Interrupt, Join, Validate, Elsewhere, vars, pool, Owned,
     Counted, BoundedRequests, Working
<1>3. CASE Die \/ Rerun
  <2>1. /\ queue' = {}
        /\ \A w \in Workers : worker'[w].pc = "idle"
        /\ \A k \in Kinds : requests'[k] = 0
    <3>1. Forget
      BY <1>3, Forgotten
    <3>2. QED
      BY <3>1 DEF Forget, Idle
  <2>2. QED
    BY <2>1 DEF Owned, Counted, BoundedRequests, Working
<1>4. ASSUME NEW w \in Workers, Step(w) PROVE Owned' /\ Counted'
  <2> USE DEF TypeOK, Worker, Owned, Counted, BoundedRequests, Working
  <2>1. ASSUME NEW k \in Kinds, Take(w, k) PROVE Owned' /\ Counted'
    BY <1>0, <2>1 DEF Take, At, Idle
  <2>2. CASE Leave(w)
    BY <1>0, <2>2 DEF Leave, At
  <2>3. CASE queue' = queue /\ Fail(w)
    BY <1>0, <2>3 DEF Fail, Stopped, Idle
  <2>4. CASE worker[w].pc = "check" /\ queue' = queue /\ BackOff(w)
    BY <1>0, <2>4 DEF BackOff
  <2>5. CASE worker[w].pc \in {"check", "backoff"} /\ queue' = queue /\ Send(w)
    <3>1. /\ worker[w].job \in Kinds \ queue
          /\ requests[worker[w].job] = worker[w].attempt
      BY <1>0, <2>5
    <3>2. QED
      BY <1>0, <2>5, <3>1 DEF Send
  <2>6. CASE queue' = queue /\ (StoreSchema(w) \/ Mark(w))
    <3>1. /\ requests' = requests
          /\ worker'[w].pc = "idle"
          /\ \A v \in Workers \ {w} : worker'[v] = worker[v]
      BY <1>0, <2>6 DEF StoreSchema, Mark, Idle
    <3>2. Owned'
      BY <1>0, <2>6, <3>1
    <3>3. Counted'
      BY <1>0, <2>6, <3>1
    <3>4. QED
      BY <3>2, <3>3
  <2>7. CASE /\ worker[w].pc = "request" /\ queue' = queue
             /\ Deliver(w, "json") \/ (~Exhausted(w) /\ Retry(w))
    <3>1. /\ UNCHANGED <<queue, requests>>
          /\ worker'[w].job = worker[w].job
          /\ \/ worker'[w].pc = "write" /\ worker'[w].attempt = worker[w].attempt
             \/ worker'[w].pc = "check" /\ worker'[w].attempt = worker[w].attempt + 1
          /\ \A v \in Workers \ {w} : worker'[v] = worker[v]
      BY <1>0, <2>7 DEF Retry, Deliver
    <3>2. Owned'
      BY <1>0, <2>7, <3>1
    <3>3. Counted'
      BY <1>0, <2>7, <3>1
    <3>4. QED
      BY <3>2, <3>3
  <2>8. CASE worker[w].pc = "write" /\ queue' = queue /\ Hold(w)
    BY <1>0, <2>8 DEF Hold
  <2>9. QED
    BY <1>4, <2>1, <2>2, <2>3, <2>4, <2>5, <2>6, <2>7, <2>8, WorkerStep
<1>5. QED
  BY <1>1, <1>2, <1>3, <1>4 DEF Next

LEMMA FreshNext == PoolInv /\ [Next]_vars => Fresh'
<1> SUFFICES ASSUME PoolInv, [Next]_vars PROVE Fresh'
  OBVIOUS
<1>1. Fresh
  BY DEF PoolInv
<1>2. CASE Plan \/ Interrupt \/ Join \/ Validate \/ (\E k \in Kinds : Elsewhere(k))
           \/ UNCHANGED vars
  BY <1>1, <1>2 DEF Plan, Interrupt, Join, Validate, Elsewhere, vars, pool, Fresh
<1>3. CASE Die \/ Rerun
  BY <1>3, Forgotten DEF Forget, Fresh
<1>4. ASSUME NEW w \in Workers, Step(w) PROVE Fresh'
  BY <1>4, WorkerStep DEF Same, Fresh
<1>5. QED
  BY <1>2, <1>3, <1>4 DEF Next

-----------------------------------------------------------------------------
(***************************************************************************)
(* Files become whole in one step: only a rename, of a verified body that  *)
(* was written in full, puts one under the name of a kind.                 *)
(***************************************************************************)
LEMMA WholeNext == PoolInv /\ [Next]_vars => Whole'
<1> SUFFICES ASSUME PoolInv, [Next]_vars PROVE Whole'
  OBVIOUS
<1> USE DEF Whole, CacheNeverPoisons
<1>0. TypeOK /\ Owned /\ Whole
  BY DEF PoolInv
<1>1. CASE Plan \/ Interrupt \/ Join \/ UNCHANGED vars
  BY <1>0, <1>1 DEF Plan, Interrupt, Join, vars, pool
<1>2. ASSUME NEW k \in Kinds, Elsewhere(k) PROVE Whole'
  BY <1>0, <1>2 DEF Elsewhere, pool, TypeOK
<1>3. CASE Validate
  BY <1>0, <1>3 DEF Validate, Outcome, pool
<1>4. CASE Die \/ Rerun
  <2>1. Forget /\ files' = files
    BY <1>4, Forgotten
  <2>2. QED
    BY <1>0, <2>1 DEF Forget, Idle
<1>5. ASSUME NEW w \in Workers, Step(w) PROVE Whole'
  <2> USE DEF TypeOK, Worker, Same
  <2>0. Same
    BY <1>5, WorkerStep
  <2>1. ASSUME NEW k \in Kinds, Take(w, k) PROVE Whole'
    BY <1>0, <2>0, <2>1 DEF Take, Idle
  <2>2. CASE Leave(w)
    BY <1>0, <2>0, <2>2 DEF Leave
  <2>3. CASE Fail(w) \/ BackOff(w) \/ Send(w) \/ Mark(w) \/ Retry(w)
    BY <1>0, <2>0, <2>3 DEF Fail, Stopped, Idle, BackOff, Send, Mark, Retry
  <2>4. CASE Deliver(w, "json")
    BY <1>0, <2>0, <2>4 DEF Deliver
  <2>5. CASE worker[w].pc = "write" /\ Hold(w)
    BY <1>0, <2>0, <2>5 DEF Hold
  <2>6. CASE worker[w].pc = "rename" /\ StoreSchema(w)
    BY <1>0, <2>0, <2>6 DEF StoreSchema, Idle, Owned, Working
  <2>7. QED
    BY <1>5, <2>1, <2>2, <2>3, <2>4, <2>5, <2>6, WorkerStep
<1>6. QED
  BY <1>1, <1>2, <1>3, <1>4, <1>5 DEF Next

-----------------------------------------------------------------------------
(***************************************************************************)
(* No kind is lost: while there is no error, each is settled, queued or in *)
(* the hands of a worker.                                                  *)
(***************************************************************************)
LEMMA AccountedNext == PoolInv /\ [Next]_vars => Accounted'
<1> SUFFICES ASSUME PoolInv, [Next]_vars PROVE Accounted'
  OBVIOUS
<1> USE ConstantsAssumption DEF ConstantsAssumption
<1>0. TypeOK /\ Fresh /\ Owned /\ Whole /\ Accounted
  BY DEF PoolInv
<1>1. CASE Plan
  BY <1>0, <1>1 DEF Plan, Fresh, Accounted, EveryKindAccounted, Idle, Settled,
     Cached
<1>2. CASE Interrupt \/ UNCHANGED vars
  BY <1>0, <1>2 DEF Interrupt, vars, pool, Accounted, EveryKindAccounted,
     Settled, Cached, InHand, Working
<1>3. ASSUME NEW k \in Kinds, Elsewhere(k) PROVE Accounted'
  <2>1. Cached' = Cached \cup {k}
    BY <1>0, <1>3 DEF Elsewhere, Cached, TypeOK
  <2>2. \A c \in Kinds : InHand(c)' <=> InHand(c)
    BY <1>3 DEF Elsewhere, pool, InHand, Working
  <2>3. QED
    BY <1>0, <1>3, <2>1, <2>2 DEF Elsewhere, pool, Accounted,
       EveryKindAccounted, Settled, Fetchable, Uncovered
<1>4. CASE Join
  <2>1. CASE firstErr
    BY <1>0, <1>4, <2>1 DEF Join, pool, Accounted, EveryKindAccounted
  <2>2. CASE ~firstErr
    <3>1. /\ queue = {}
          /\ \A k \in Kinds : ~InHand(k)
      BY <1>0, <1>4, <2>2 DEF Join, Joinable, Gone, Accounted, InHand, Working
    <3>2. Fetchable \subseteq Settled
      BY <1>0, <1>4, <2>2, <3>1 DEF Join, Accounted, Fetchable, Uncovered
    <3>3. QED
      BY <1>0, <1>4, <2>2, <3>2 DEF Join, pool, Accounted, EveryKindAccounted,
         Settled, Cached
  <2>3. QED
    BY <2>1, <2>2, <1>0 DEF TypeOK
<1>5. CASE Validate
  <2>1. ASSUME NEW k \in Kinds, Outcome(k) = "skipped"
        PROVE  k \in SkipKinds \cup Flux \/ registry[k] = "absent"
    BY <1>0, <1>5, <2>1 DEF Validate, Accounted, Outcome, Settled, Cached,
       Fetchable, Uncovered
  <2>2. QED
    BY <1>0, <1>5, <2>1 DEF Validate, pool, Accounted, EveryKindAccounted
<1>6. CASE Die \/ Rerun
  <2>1. Forget /\ phase' \in {"dead", "plan"}
    BY <1>6, Forgotten
  <2>2. QED
    BY <2>1 DEF Forget, Accounted, EveryKindAccounted, Idle
<1>7. ASSUME NEW w \in Workers, Step(w) PROVE Accounted'
  <2> USE DEF Same, Accounted, EveryKindAccounted, Settled, TypeOK, Worker
  <2>0. Same /\ phase = "fetch"
    BY <1>7, WorkerStep
  <2>1. ASSUME NEW k \in Kinds, Take(w, k) PROVE Accounted'
    <3>1. ASSUME NEW c \in Kinds, InHand(c) PROVE InHand(c)'
      BY <1>0, <2>1, <3>1 DEF Take, At, InHand, Working, Idle
    <3>2. InHand(k)'
      BY <1>0, <2>1 DEF Take, InHand, Working, Idle
    <3>3. Cached' = Cached
      BY <2>1 DEF Take, Cached
    <3>4. QED
      BY <1>0, <2>0, <2>1, <3>1, <3>2, <3>3 DEF Take, At, Fetchable, Uncovered, Idle
  <2>2. CASE Leave(w)
    <3>1. ASSUME NEW c \in Kinds, InHand(c) PROVE InHand(c)'
      BY <1>0, <2>2, <3>1 DEF Leave, At, InHand, Working
    <3>2. Cached' = Cached
      BY <2>2 DEF Leave, Cached
    <3>3. QED
      BY <1>0, <2>0, <2>2, <3>1, <3>2 DEF Leave, At, Fetchable, Uncovered
  <2>3. CASE queue' = queue /\ Fail(w)
    <3>1. firstErr' = TRUE /\ UNCHANGED <<files, missing>>
      BY <2>3 DEF Fail
    <3>2. \A v \in Workers : worker'[v].pc = "left" => worker[v].pc = "left"
      BY <1>0, <2>3 DEF Fail, Stopped, Idle
    <3>3. QED
      BY <1>0, <2>0, <2>3, <3>1, <3>2
  <2>4. CASE /\ Working(w) /\ queue' = queue
             /\ BackOff(w) \/ Send(w) \/ Retry(w) \/ Deliver(w, "json") \/ Hold(w)
    <3>1. ASSUME NEW c \in Kinds, InHand(c) PROVE InHand(c)'
      BY <1>0, <2>4, <3>1 DEF BackOff, Send, Retry, Deliver, Hold, InHand, Working
    <3>2. Cached' = Cached /\ UNCHANGED <<missing, firstErr>>
      BY <2>4 DEF BackOff, Send, Retry, Deliver, Hold, Cached
    <3>3. \A v \in Workers : worker'[v].pc \in {"left", "stopped"} =>
            worker'[v].pc = worker[v].pc
      BY <1>0, <2>4 DEF BackOff, Send, Retry, Deliver, Hold
    <3>4. QED
      BY <1>0, <2>0, <2>4, <3>1, <3>2, <3>3 DEF Fetchable, Uncovered
  <2>5. CASE Working(w) /\ queue' = queue /\ Mark(w)
    <3>1. ASSUME NEW c \in Kinds, InHand(c), c # worker[w].job
          PROVE InHand(c)'
      BY <1>0, <2>5, <3>1 DEF Mark, InHand, Working
    <3>2. Cached' = Cached
      BY <2>5 DEF Mark, Cached
    <3>3. QED
      BY <1>0, <2>0, <2>5, <3>1, <3>2 DEF Mark, Idle, InHand, Fetchable, Uncovered
  <2>6. CASE worker[w].pc = "rename" /\ queue' = queue /\ StoreSchema(w)
    <3>1. worker[w].job \in Kinds /\ worker[w].body = "json"
      BY <1>0, <2>6 DEF Owned, Working, Whole
    <3>2. Cached' = Cached \cup {worker[w].job}
      BY <1>0, <2>6, <3>1 DEF StoreSchema, Cached
    <3>3. ASSUME NEW c \in Kinds, InHand(c), c # worker[w].job
          PROVE InHand(c)'
      BY <1>0, <2>6, <3>3 DEF StoreSchema, InHand, Working
    <3>4. QED
      BY <1>0, <2>0, <2>6, <3>2, <3>3 DEF StoreSchema, Idle, InHand, Fetchable,
         Uncovered
  <2>7. QED
    BY <1>7, <2>1, <2>2, <2>3, <2>4, <2>5, <2>6, WorkerStep DEF Working
<1>8. QED
  BY <1>1, <1>2, <1>3, <1>4, <1>5, <1>6, <1>7 DEF Next

-----------------------------------------------------------------------------
LEMMA PoolInvariant == Spec => []PoolInv
<1>1. PoolInv /\ [Next]_vars => PoolInv'
  BY TypeNext, OwnedNext, FreshNext, WholeNext, AccountedNext DEF PoolInv
<1>2. QED
  BY <1>1, InitInv, PTL DEF Spec

(***************************************************************************)
(* The state is typed: in particular no worker goes past its retries.      *)
(***************************************************************************)
THEOREM TypeCorrect == Spec => []TypeOK
<1>1. PoolInv => TypeOK
  BY DEF PoolInv
<1>2. QED
  BY <1>1, PoolInvariant, PTL

(***************************************************************************)
(* A run that validates has checked, or has a reason not to have checked,  *)
(* every kind of the output: the gate of validate fails closed.            *)
(***************************************************************************)
THEOREM GateFailsClosed == Spec => []EveryKindAccounted
<1>1. PoolInv => EveryKindAccounted
  BY DEF PoolInv, Accounted
<1>2. QED
  BY <1>1, PoolInvariant, PTL

(***************************************************************************)
(* No run meets a file of the cache it cannot read: a bad body, or a death *)
(* at any point of any run, leaves nothing that a later one would.         *)
(***************************************************************************)
THEOREM NoRunIsPoisoned == Spec => []CacheNeverPoisons
<1>1. PoolInv => CacheNeverPoisons
  BY DEF PoolInv, Whole
<1>2. QED
  BY <1>1, PoolInvariant, PTL

(***************************************************************************)
(* The registry gets at most Retries + 1 requests for a kind.              *)
(***************************************************************************)
THEOREM RequestsAreBounded == Spec => []BoundedRequests
<1>1. PoolInv => BoundedRequests
  BY DEF PoolInv, Counted
<1>2. QED
  BY <1>1, PoolInvariant, PTL

(***************************************************************************)
(* Two workers never share a kind.                                         *)
(***************************************************************************)
THEOREM WorkersDoNotShare == Spec => []OneWorkerPerKind
<1>1. PoolInv => OneWorkerPerKind
  BY DEF PoolInv, Owned, OneWorkerPerKind, Working
<1>2. QED
  BY <1>1, PoolInvariant, PTL
=============================================================================

---------------------------- MODULE SchemaPrefetch ----------------------------
(***************************************************************************)
(* The schema half of `validate` (internal/cli/validate.go prefetchSchemas *)
(* and internal/validate/prefetch.go): the kinds without a local schema    *)
(* are fetched from the registry by a pool of workers, with retries, into  *)
(* a cache that other processes fill too; then every kind is validated     *)
(* from disk, and a kind without a schema there is skipped.  A file of the *)
(* cache has no age and is never fetched again, so that what one run       *)
(* leaves there, dying half-way included, is what every later run reads.   *)
(***************************************************************************)
EXTENDS Naturals, FiniteSets

CONSTANTS
  Kinds,     (* the resource kinds of the output                           *)
  SkipKinds, (* --skip-kind                                                *)
  Local,     (* kinds with a schema in --schema-dir                        *)
  Flux,      (* kinds of the *.fluxcd.io groups                            *)
  Workers,   (* the pool (concurrency)                                     *)
  Retries,   (* of a failed attempt                                        *)
  MaxRuns,   (* of the command on one cache: the bound of the model        *)
  NoKind

ASSUME ConstantsAssumption ==
  /\ SkipKinds \subseteq Kinds /\ Local \subseteq Kinds /\ Flux \subseteq Kinds
  /\ Workers # {}
  /\ Retries \in Nat
  /\ MaxRuns \in Nat \ {0}
  /\ NoKind \notin Kinds

VARIABLES
  registry,  (* what it has for a kind; it never changes (pinned version)  *)
  files,     (* what the schema cache has under the name of a kind         *)
  run,       (* the runs of the command so far                             *)
  phase,     (* of the command                                             *)
  fetch,     (* kinds to download                                          *)
  queue,     (* those no worker has taken                                  *)
  worker,    (* what each worker does                                      *)
  missing,   (* fetchResults.missingByIndex                                *)
  firstErr,  (* fetchResults.firstErr is set                               *)
  cancelled, (* the context                                                *)
  requests,  (* history: requests sent for a kind by this run              *)
  result     (* the outcome for a kind                                     *)

pool == <<fetch, queue, worker, missing, firstErr, requests>>
vars == <<registry, files, run, phase, cancelled, result, pool>>

Answers == {"schema", "absent"}
(* A whole document, one cut short, an error page in place of it.          *)
Bodies  == {"json", "cut", "page"}
Ended   == {"done", "failed", "interrupted", "dead"}
Phases  == {"plan", "fetch", "validate"} \cup Ended
Stages  == {"idle", "check", "backoff", "request", "write", "rename", "left",
            "stopped"}
Worker  == [pc : Stages, job : Kinds \cup {NoKind}, attempt : 0 .. Retries,
            body : Bodies \cup {"none"}]

TypeOK ==
  /\ registry \in [Kinds -> Answers]
  /\ files \in [Kinds -> Bodies \cup {"none"}]
  /\ run \in 1 .. MaxRuns
  /\ phase \in Phases
  /\ fetch \in SUBSET Kinds /\ queue \in SUBSET Kinds
  /\ worker \in [Workers -> Worker]
  /\ missing \in SUBSET Kinds
  /\ firstErr \in BOOLEAN /\ cancelled \in BOOLEAN
  /\ requests \in [Kinds -> Nat]
  /\ result \in [Kinds -> {"none", "checked", "skipped", "broken"}]

Idle == [pc |-> "idle", job |-> NoKind, attempt |-> 0, body |-> "none"]

Init ==
  /\ registry \in [Kinds -> Answers]
  /\ files = [k \in Kinds |-> "none"]
  /\ run = 1
  /\ phase = "plan"
  /\ fetch = {} /\ queue = {} /\ missing = {}
  /\ worker = [w \in Workers |-> Idle]
  /\ firstErr = FALSE /\ cancelled = FALSE
  /\ requests = [k \in Kinds |-> 0]
  /\ result = [k \in Kinds |-> "none"]

At(w, stage) == phase = "fetch" /\ worker[w].pc = stage

-----------------------------------------------------------------------------
(* UncoveredKinds, less the kinds the registry never carries.              *)
Uncovered == Kinds \ (SkipKinds \cup Local)
Fetchable == Uncovered \ Flux

(* Only that there is a file counts, not what it holds.                    *)
Cached == {k \in Kinds : files[k] # "none"}

Plan ==
  /\ phase = "plan"
  /\ fetch' = Fetchable \ Cached
  /\ queue' = Fetchable \ Cached
  /\ \/ phase' = IF Fetchable \subseteq Cached THEN "validate" ELSE "fetch"
     \/ ~(Fetchable \subseteq Cached) /\ phase' = "failed" \* no directory
  /\ UNCHANGED <<registry, files, run, cancelled, result, worker, missing,
                 firstErr, requests>>

Interrupt ==
  /\ ~cancelled
  /\ cancelled' = TRUE
  /\ UNCHANGED <<registry, files, run, phase, result, pool>>

(* Another process, on the same cache directory, renames a schema into it. *)
Elsewhere(k) ==
  /\ registry[k] = "schema"
  /\ files[k] = "none"
  /\ files' = [files EXCEPT ![k] = "json"]
  /\ UNCHANGED <<registry, run, phase, cancelled, result, pool>>

(* What the process has in memory.                                         *)
Forget ==
  /\ fetch' = {} /\ queue' = {} /\ missing' = {}
  /\ worker' = [w \in Workers |-> Idle]
  /\ firstErr' = FALSE /\ cancelled' = FALSE
  /\ requests' = [k \in Kinds |-> 0]
  /\ result' = [k \in Kinds |-> "none"]

(* The process is killed; the cache stays as it is.                        *)
Die ==
  /\ phase \notin Ended
  /\ phase' = "dead"
  /\ Forget
  /\ UNCHANGED <<registry, files, run>>

(* The command is run again.                                               *)
Rerun ==
  /\ phase \in Ended
  /\ run < MaxRuns
  /\ run' = run + 1
  /\ phase' = "plan"
  /\ Forget
  /\ UNCHANGED <<registry, files>>

-----------------------------------------------------------------------------
(* fetchSchemaWorker and fetchSchema.                                      *)

Take(w, k) ==
  /\ At(w, "idle")
  /\ k \in queue
  /\ queue' = queue \ {k}
  /\ worker' = [worker EXCEPT ![w] =
                  [pc |-> "check", job |-> k, attempt |-> 0, body |-> "none"]]
  /\ UNCHANGED <<registry, files, run, phase, cancelled, result, fetch, missing,
                 firstErr, requests>>

Leave(w) ==
  /\ At(w, "idle")
  /\ queue = {}
  /\ worker' = [worker EXCEPT ![w].pc = "left"]
  /\ UNCHANGED <<registry, files, run, phase, cancelled, result, fetch, queue,
                 missing, firstErr, requests>>

Stopped == [Idle EXCEPT !.pc = "stopped"]

Fail_Silent(w) ==
  /\ worker' = [worker EXCEPT ![w] = Stopped]
  /\ UNCHANGED <<files, missing, firstErr, requests>>

(* A hard error: recorded, and the worker is gone.                         *)
Fail(w) ==
  /\ worker' = [worker EXCEPT ![w] = Stopped]
  /\ firstErr' = TRUE
  /\ UNCHANGED <<files, missing, requests>>

Send(w) ==
  /\ worker' = [worker EXCEPT ![w].pc = "request"]
  /\ requests' = [requests EXCEPT ![worker[w].job] = @ + 1]
  /\ UNCHANGED <<files, missing, firstErr>>

BackOff(w) ==
  /\ worker' = [worker EXCEPT ![w].pc = "backoff"]
  /\ UNCHANGED <<files, missing, firstErr, requests>>

(* The head of the retry loop.                                             *)
Attempt(w) ==
  /\ At(w, "check")
  /\ \/ cancelled /\ Fail(w)
     \/ ~cancelled /\ worker[w].attempt > 0 /\ BackOff(w)
     \/ ~cancelled /\ worker[w].attempt = 0 /\ Send(w)
  /\ UNCHANGED <<registry, run, phase, cancelled, result, fetch, queue>>

Backoff(w) ==
  /\ At(w, "backoff")
  /\ Send(w) \/ (cancelled /\ Fail(w))
  /\ UNCHANGED <<registry, run, phase, cancelled, result, fetch, queue>>

Exhausted_Early(w) == worker[w].attempt > Retries
Exhausted(w) == worker[w].attempt >= Retries

Retry(w) ==
  /\ worker' = [worker EXCEPT ![w].pc = "check", ![w].attempt = @ + 1]
  /\ UNCHANGED <<files, missing, firstErr, requests>>

(* verifyAndCacheSchema: its size and json.Valid.                          *)
Verified(b) == b = "json"

Deliver(w, b) ==
  /\ Verified(b)
  /\ worker' = [worker EXCEPT ![w].pc = "write", ![w].body = b]
  /\ UNCHANGED <<files, missing, firstErr, requests>>

Mark(w) ==
  LET k == worker[w].job IN
  /\ registry[k] = "absent"
  /\ missing' = missing \cup {k}
  /\ worker' = [worker EXCEPT ![w] = Idle]
  /\ UNCHANGED <<files, firstErr, requests>>

(* What may come with a 200: the document is the registry's alone, an      *)
(* error page can stand in front of anything.                              *)
Delivered(k) == IF registry[k] = "schema" THEN Bodies ELSE {"page"}

(* fetchSchemaOnce: a body, a 404, a final error (the body is not JSON) or *)
(* an error worth another attempt (no answer within the timeout, a broken  *)
(* one, the cancelled context).                                            *)
Answer(w) ==
  /\ At(w, "request")
  /\ \/ \E b \in Delivered(worker[w].job) : Deliver(w, b) \/ (~Verified(b) /\ Fail(w))
     \/ Mark(w)
     \/ ~Exhausted(w) /\ Retry(w)
     \/ Exhausted(w) /\ Fail(w)
  /\ UNCHANGED <<registry, run, phase, cancelled, result, fetch, queue>>

(* writeFileAtomic.  The body goes to a temporary file that is the         *)
(* worker's own,                                                           *)
Hold_InPlace(w) ==
  /\ files' = [files EXCEPT ![worker[w].job] = "cut"]
  /\ worker' = [worker EXCEPT ![w].pc = "rename"]
  /\ UNCHANGED <<missing, firstErr, requests>>

Hold(w) ==
  /\ worker' = [worker EXCEPT ![w].pc = "rename"]
  /\ UNCHANGED <<files, missing, firstErr, requests>>

Write(w) ==
  /\ At(w, "write")
  /\ Hold(w) \/ Fail(w)
  /\ UNCHANGED <<registry, run, phase, cancelled, result, fetch, queue>>

(* which is renamed into the cache when it is complete.                    *)
StoreSchema(w) ==
  LET k == worker[w].job IN
  /\ files' = [files EXCEPT ![k] = worker[w].body]
  /\ worker' = [worker EXCEPT ![w] = Idle]
  /\ UNCHANGED <<missing, firstErr, requests>>

Rename(w) ==
  /\ At(w, "rename")
  /\ StoreSchema(w) \/ Fail(w)
  /\ UNCHANGED <<registry, run, phase, cancelled, result, fetch, queue>>

-----------------------------------------------------------------------------
Gone(w) == worker[w].pc \in {"left", "stopped"}

Joinable_WhenDrained == queue = {} /\ \A w \in Workers : Gone(w)
Joinable == \A w \in Workers : Gone(w)

(* wg.Wait, and what prefetchSchemas makes of an error.                    *)
Join ==
  /\ phase = "fetch"
  /\ Joinable
  /\ phase' = IF ~firstErr THEN "validate"
              ELSE IF cancelled THEN "interrupted" ELSE "failed"
  /\ UNCHANGED <<registry, files, run, cancelled, result, pool>>

(* kubeconform, IgnoreMissingSchemas: a file it cannot load is an error.   *)
Outcome(k) ==
  IF k \in SkipKinds THEN "skipped"
  ELSE IF k \in Local THEN "checked"
  ELSE IF files[k] = "none" THEN "skipped"
  ELSE IF files[k] = "json" THEN "checked" ELSE "broken"

Validate ==
  /\ phase = "validate"
  /\ result' = [k \in Kinds |-> Outcome(k)]
  /\ phase' = "done"
  /\ UNCHANGED <<registry, files, run, cancelled, pool>>

Step(w) ==
  \/ \E k \in Kinds : Take(w, k)
  \/ Leave(w) \/ Attempt(w) \/ Backoff(w) \/ Answer(w) \/ Write(w) \/ Rename(w)

Next ==
  \/ Plan \/ Interrupt \/ Join \/ Validate \/ Die \/ Rerun
  \/ \E k \in Kinds : Elsewhere(k)
  \/ \E w \in Workers : Step(w)

Spec == Init /\ [][Next]_vars

FairSpec ==
  /\ Spec
  /\ WF_vars(Plan) /\ WF_vars(Join) /\ WF_vars(Validate)
  /\ \A w \in Workers : WF_vars(Step(w))

-----------------------------------------------------------------------------
(* The gate fails closed.  When the command gets as far as validating, a   *)
(* kind was skipped only because the user asked for it, because it is a    *)
(* Flux kind, or because the registry has no schema for it: no error of a  *)
(* worker, abandoned queue entry, retry or cancellation turns into a skip. *)
EveryKindAccounted ==
  phase = "done" =>
    \A k \in Kinds : result[k] = "skipped" =>
      k \in SkipKinds \cup Flux \/ registry[k] = "absent"

(* No run finds a schema in the cache that it cannot read, whatever bodies *)
(* the registry sent and wherever a run was killed: such a file would fail *)
(* every later run, because it is never fetched again.                     *)
CacheNeverPoisons == \A k \in Kinds : result[k] # "broken"

(* The registry is asked at most Retries + 1 times for a kind in a run,    *)
(* whatever the workers do.                                                *)
BoundedRequests == \A k \in Kinds : requests[k] <= Retries + 1

Working(w) == worker[w].pc \notin {"idle", "left", "stopped"}

(* No two workers download the same kind, and none downloads a kind that   *)
(* is still queued.                                                        *)
OneWorkerPerKind ==
  \A v \in {w \in Workers : Working(w)} :
    /\ worker[v].job \notin queue
    /\ \A w \in Workers \ {v} : Working(w) => worker[v].job # worker[w].job

(* Every run ends, however many workers stopped on an error with the queue *)
(* still full.                                                             *)
EveryRunEnds == (phase = "plan") ~> (phase \in Ended)
=============================================================================

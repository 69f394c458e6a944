------------------------------- MODULE KevSync -------------------------------
(***************************************************************************)
(* The CISA KEV synchronization: the scheduler asks for one run per        *)
(* schedule window; the relay, the retry reconciler and the processor      *)
(* itself put deliveries of a run on the queue; a handler claims the       *)
(* background job, fetches the catalog, stores the snapshot, parses it,    *)
(* stages a generation batch by batch and swaps it in for the active one.  *)
(*                                                                         *)
(* A handler alternates a step that renews the job lease and reads with a  *)
(* step that is one transaction, so its copy of the run, its claim and the *)
(* source row it saw may all be out of date when the transaction decides.  *)
(* Handlers of one process share a worker identifier.                      *)
(*                                                                         *)
(* A run is named by its window (the dedupe key is unique per window) and  *)
(* owns at most one generation (unique sync_run_id).  A catalog is a model *)
(* value with a release date and a number of entries; of an entry only its *)
(* ordinal is kept.  Failure codes are reduced to the three classes the    *)
(* failure catalog tells apart, and to "shutdown" for a cancelled request. *)
(***************************************************************************)
EXTENDS Naturals, FiniteSets, BackgroundJobs

CONSTANTS
    Handlers,           \* concurrent queue handlers
    WorkerOf,           \* the worker process of a handler
    LastWindow,         \* bound: schedule windows 1 .. LastWindow
    Catalogs,           \* documents the provider may serve
    NoCatalog,          \* NULL
    Released,           \* release date of a catalog
    Size,               \* number of entries of a catalog
    BatchSize,          \* maxStagedRowsPerTransaction
    Versions,           \* parser and normalization version labels
    SyncMaxAttempts,    \* INTELLIGENCE_SYNC_MAX_ATTEMPTS
    MaxClaims,          \* bound on the claims of one job
    MaxFaults,          \* bound on crashes, overrun leases, lost deliveries
    MaxDeploys          \* bound on configuration changes

Windows == 1 .. LastWindow
Ordinals(c) == 0 .. (Size[c] - 1)

ASSUME KevAssumption ==
    /\ WorkerOf \in [Handlers -> Workers] /\ IsFiniteSet(Handlers)
    /\ LastWindow \in Nat
    /\ NoCatalog \notin Catalogs
    /\ Released \in [Catalogs -> Nat]
    /\ Size \in [Catalogs -> Nat]
    /\ BatchSize \in Nat \ {0}
    /\ Versions # {}
    /\ SyncMaxAttempts \in Nat /\ MaxClaims \in Nat
    /\ MaxFaults \in Nat /\ MaxDeploys \in Nat

VARIABLES
    run,        \* vulnerability_sync_run rows
    due,        \* runs in retry_wait whose next_attempt_at has come
    generation, \* kev_generation rows: state, per run
    entries,    \* kev_entry rows: staged ordinals, per run
    source,     \* intelligence_source row: active generation and version
    job,        \* background_job rows, per run
    attempt,    \* background_job.attempt
    event,      \* the sync-requested outbox event of a run
    queue,      \* waiting or delayed BullMQ jobs: <<run, attempt>>
    ctx,        \* a handler's ExecutionContext and next step
    config,     \* deployed version label and kevEnabled
    faults,     \* adverse events so far
    deploys     \* configuration changes so far

catalog == <<generation, entries, source>>
delivery == <<event, queue>>
environment == <<config, faults, deploys>>
vars == <<run, due, generation, entries, source, job, attempt, event, queue,
          ctx, config, faults, deploys>>

-----------------------------------------------------------------------------
Successes == {"completed", "not_modified"}
Failures == {"failed", "quarantined"}
Terminal == Successes \cup Failures
PreSnapshot == {"requested", "fetching", "retry_wait"}
PostSnapshot == {"stored", "parsing", "staging", "activating"}

Runs == [state : {"none"} \cup PreSnapshot \cup PostSnapshot \cup Terminal,
         version : Nat, exec : Nat, snap : Catalogs \cup {NoCatalog},
         gen : BOOLEAN, label : Versions]
NoRun == [state |-> "none", version |-> 0, exec |-> 0, snap |-> NoCatalog,
          gen |-> FALSE, label |-> CHOOSE v \in Versions : TRUE]

\* Window 0 stands for no generation.
Sources == [active : 0 .. LastWindow, version : Nat]
NoSource == [active |-> 0, version |-> 0]

\* Steps that read under a renewed lease, steps that write, and outcomes
\* that mapOutcome still has to act on.
Reads == {"lookup", "precheck", "fetch", "get", "decide", "inspect", "resume", "reload", "activate"}
Writes == {"claim", "claim_fetch", "store", "parse", "stage", "batch", "complete", "swap"}
Outcomes == {"retry_wait", "job_retry", "failed", "quarantined", "succeeded", "redispatch"}

Contexts == [pc : {"idle"} \cup Reads \cup Writes \cup Outcomes,
             run : 0 .. LastWindow, id : Nat, attempt : Nat, copy : Runs,
             got : Catalogs \cup {NoCatalog}, seen : Sources, cursor : Nat,
             stopped : BOOLEAN]
Idle == [pc |-> "idle", run |-> 0, id |-> 0, attempt |-> 0, copy |-> NoRun,
         got |-> NoCatalog, seen |-> NoSource, cursor |-> 0, stopped |-> FALSE]

TypeOK ==
    /\ run \in [Windows -> Runs]
    /\ due \subseteq Windows
    /\ generation \in [Windows -> {"none", "staging", "complete", "active", "superseded"}]
    /\ entries \in [Windows -> SUBSET Nat]
    /\ source \in Sources
    /\ job \in [Windows -> JobRows]
    /\ attempt \in [Windows -> Nat]
    /\ event \in [Windows -> {"none", "pending", "published", "processed"}]
    /\ queue \subseteq Windows \X Nat
    /\ ctx \in [Handlers -> Contexts]
    /\ \A h \in Handlers : ctx[h].pc # "idle" => ctx[h].run \in Windows
    /\ config \in [label : Versions, enabled : BOOLEAN]
    /\ faults \in 0 .. MaxFaults
    /\ deploys \in 0 .. MaxDeploys

Init ==
    /\ run = [w \in Windows |-> NoRun]
    /\ due = {}
    /\ generation = [w \in Windows |-> "none"]
    /\ entries = [w \in Windows |-> {}]
    /\ source = NoSource
    /\ job = [w \in Windows |-> AbsentJob]
    /\ attempt = [w \in Windows |-> 0]
    /\ event = [w \in Windows |-> "none"]
    /\ queue = {}
    /\ ctx = [h \in Handlers |-> Idle]
    /\ config = [label |-> CHOOSE v \in Versions : TRUE, enabled |-> TRUE]
    /\ faults = 0
    /\ deploys = 0

-----------------------------------------------------------------------------
(* Scheduler, relay and redelivery.                                        *)

InFlight(w) == run[w].state \notin Terminal \cup {"none"}

\* The partial unique index admits one run in flight, the dedupe key one per
\* window; windows follow the clock.  Whatever the scheduler of a process
\* decided from an earlier read, the insert decides.
MayRequest(w) ==
    \A v \in Windows : run[v].state # "none" => v < w /\ ~InFlight(v)

requestSync(w) ==
    /\ config.enabled
    /\ MayRequest(w)
    /\ run' = [run EXCEPT ![w] = [NoRun EXCEPT !.state = "requested", !.version = 1,
                                               !.label = config.label]]
    /\ event' = [event EXCEPT ![w] = "pending"]
    /\ UNCHANGED <<due, catalog, job, attempt, queue, ctx, environment>>

\* BullMQ ignores an added job whose id it still holds, waiting or active.
Active == {<<ctx[h].run, ctx[h].id>> : h \in {g \in Handlers : ctx[g].pc # "idle"}}
Added(id) == IF id \in Active THEN queue ELSE queue \cup {id}

\* The relay publishes the event, then writes the job row and settles it.
Publish(w) ==
    /\ event[w] = "pending"
    /\ event' = [event EXCEPT ![w] = "published"]
    /\ queue' = Added(<<w, 0>>)
    /\ UNCHANGED <<run, due, catalog, job, attempt, ctx, environment>>

Record(w) ==
    /\ event[w] = "published"
    /\ event' = [event EXCEPT ![w] = "processed"]
    /\ job' = [job EXCEPT ![w] = enqueueQueued(@)]
    /\ UNCHANGED <<run, due, catalog, attempt, queue, ctx, environment>>

\* Mutant: a job whose worker died is not looked for.
Redeliverable_queuedOnly(w) ==
    /\ InFlight(w) /\ job[w].status = "queued"
    /\ run[w].state = "retry_wait" => w \in due

\* The WHERE clause of listDueRedeliveries, the age of the job left open.
Redeliverable(w) ==
    /\ InFlight(w)
    /\ run[w].state = "retry_wait" => w \in due
    /\ \/ job[w].status = "running" /\ job[w].lease = "expired"
       \/ job[w].status = "queued" /\ run[w].state \in PostSnapshot \cup {"retry_wait"}
       \/ job[w].status = "queued" /\ event[w] = "processed"

\* One candidate of a reconciliation pass; the loops stand still while KEV
\* is disabled.
Redeliver(w) ==
    /\ config.enabled
    /\ Redeliverable(w)
    /\ queue' = Added(<<w, attempt[w]>>)
    /\ UNCHANGED <<run, due, catalog, job, attempt, event, ctx, environment>>

-----------------------------------------------------------------------------
(* Handler steps.                                                          *)

At(h, pc) == ctx[h].pc = pc
RunOf(h) == ctx[h].run
Move(h, c) == ctx' = [ctx EXCEPT ![h] = c]
SetRun(h, row) == run' = [run EXCEPT ![RunOf(h)] = row]
SetJob(h, row) == job' = [job EXCEPT ![RunOf(h)] = row]
JobOf(h) == job[RunOf(h)]
Owned(h) == OwnedBy(JobOf(h), WorkerOf[h])

\* Mutant: the row is written whatever it has become.
Current_unchecked(h) == TRUE

\* The compare-and-set of casSyncRun.
Current(h) ==
    /\ run[RunOf(h)].state = ctx[h].copy.state
    /\ run[RunOf(h)].version = ctx[h].copy.version

\* The row a transition leaves.
To(row, state) == [row EXCEPT !.state = state, !.version = @ + 1]

mapIntelligenceSyncFailure(code, layer, remaining) ==
    IF code = "bad" THEN "quarantined"
    ELSE IF code = "final" \/ ~remaining THEN "failed"
    ELSE IF layer = "pre" THEN "retry_wait" ELSE "job_retry"

\* applyFailure, up to its transaction.
Failing(c, code, layer) ==
    [c EXCEPT !.pc = mapIntelligenceSyncFailure(code, layer, c.attempt < SyncMaxAttempts),
              !.stopped = (code = "shutdown"), !.got = NoCatalog, !.seen = NoSource, !.cursor = 0]

\* An outcome mapOutcome acts on; the others are logged and the delivery ends.
Reporting(c, outcome) ==
    [Idle EXCEPT !.pc = outcome, !.run = c.run, !.id = c.id]

\* reconcileTerminal: the job follows a run that is settled already.
reconcileTerminal(h, row) ==
    IF row.state \in Successes
      THEN /\ SetJob(h, markSucceeded(JobOf(h), WorkerOf[h]))
           /\ Move(h, Reporting(ctx[h], "succeeded"))
      ELSE /\ SetJob(h, markTerminalFailure(JobOf(h), WorkerOf[h]))
           /\ Move(h, Idle)

\* heartbeat.renewNow before next; a lost claim is a cancelled request.
Renewed(h, layer, next) ==
    IF Owned(h)
      THEN /\ SetJob(h, renewLease(JobOf(h), WorkerOf[h]))
           /\ Move(h, next)
      ELSE /\ Move(h, Failing(ctx[h], "retryable", layer))
           /\ UNCHANGED job

\* BullMQ hands a waiting job to a free handler.
Take(h, id) ==
    /\ At(h, "idle")
    /\ id \in queue
    /\ queue' = queue \ {id}
    /\ Move(h, [Idle EXCEPT !.pc = "lookup", !.run = id[1], !.id = id[2]])
    /\ UNCHANGED <<run, due, catalog, job, attempt, event, environment>>

\* processIntelligenceSyncQueueJob up to the claim.
Lookup(h) ==
    LET w == RunOf(h) IN
    /\ At(h, "lookup")
    /\ job' = [job EXCEPT ![w] = enqueueQueued(@)]
    /\ IF job[w].status \in {"succeeded", "failed"}
         THEN Move(h, Idle) /\ UNCHANGED queue
         ELSE IF run[w].state = "retry_wait" /\ w \notin due
         THEN Move(h, Idle) /\ queue' = Added(<<w, attempt[w]>>)
         ELSE Move(h, [ctx[h] EXCEPT !.pc = "claim"]) /\ UNCHANGED queue
    /\ UNCHANGED <<run, due, catalog, attempt, event, environment>>

\* Mutant: taking over an expired lease is not a new attempt.
Counted_queuedOnly(w) == IF job[w].status = "queued" THEN attempt[w] + 1 ELSE attempt[w]

\* claimExecution increments the attempt with every claim.
Counted(w) == attempt[w] + 1

Claim(h) ==
    LET w == RunOf(h) IN
    /\ At(h, "claim")
    /\ attempt[w] < MaxClaims
    /\ SetJob(h, claimExecution(job[w], WorkerOf[h]))
    /\ IF Claimable(job[w])
         THEN /\ attempt' = [attempt EXCEPT ![w] = Counted(w)]
              /\ Move(h, [ctx[h] EXCEPT !.pc = "precheck"])
         ELSE Move(h, Idle) /\ UNCHANGED attempt
    /\ UNCHANGED <<run, due, catalog, delivery, environment>>

\* dispatch: where a context continues.
Dispatched(c) ==
    IF ~config.enabled /\ c.copy.state \in PreSnapshot
      THEN Failing(c, "final", "pre")
      ELSE CASE c.copy.state \in {"requested", "retry_wait"} -> [c EXCEPT !.pc = "claim_fetch"]
             [] c.copy.state = "fetching" -> [c EXCEPT !.pc = "fetch"]
             [] c.copy.state \in {"stored", "parsing", "staging"} -> [c EXCEPT !.pc = "get"]
             [] c.copy.state = "activating" -> [c EXCEPT !.pc = "activate"]
             [] OTHER -> Idle

Settled(row) == row.state \in Terminal

\* authoritativePrecheck and the first renewal.
Precheck(h) ==
    LET w == RunOf(h)
        c == [ctx[h] EXCEPT !.copy = run[w], !.attempt = attempt[w]]
    IN
    /\ At(h, "precheck")
    /\ \/ /\ run[w].label # config.label
          /\ Move(h, Idle)
          /\ UNCHANGED job
       \/ /\ run[w].label = config.label
          /\ Settled(run[w])
          /\ reconcileTerminal(h, run[w])
       \/ /\ run[w].label = config.label
          /\ ~Settled(run[w])
          /\ UNCHANGED job
          /\ IF ~Owned(h) \/ job[w].lease # "live" \/ run[w].exec > attempt[w]
               THEN Move(h, Idle)
               ELSE IF run[w].state = "retry_wait" /\ w \notin due
               THEN Move(h, Reporting(c, "redispatch"))
               ELSE Move(h, Dispatched(c))
    /\ UNCHANGED <<run, due, catalog, attempt, delivery, environment>>

\* fetchFromClaim.  The claim of the fetch does not ask who owns the job.
ClaimFetch(h) ==
    LET w == RunOf(h)
        next == [To(ctx[h].copy, "fetching") EXCEPT !.exec = @ + 1]
    IN
    /\ At(h, "claim_fetch")
    /\ IF Current(h)
         THEN /\ SetRun(h, next)
              /\ due' = due \ {w}
              /\ Move(h, IF next.exec > ctx[h].attempt THEN Idle
                         ELSE [ctx[h] EXCEPT !.copy = next, !.pc = "fetch"])
         ELSE /\ Move(h, Dispatched([ctx[h] EXCEPT !.copy = run[w]]))
              /\ UNCHANGED <<run, due>>
    /\ UNCHANGED <<catalog, job, attempt, delivery, environment>>

\* fetchCatalog up to the transaction: HTTP, temporary and final object, and
\* the active generation to compare with.
FetchCatalog(h) ==
    /\ At(h, "fetch")
    /\ \/ \E c \in Catalogs :
            Renewed(h, "pre", [ctx[h] EXCEPT !.pc = "store", !.got = c, !.seen = source])
       \/ \E code \in {"retryable", "final", "bad"} :
            Renewed(h, "pre", Failing(ctx[h], code, "pre"))
    /\ UNCHANGED <<run, due, catalog, attempt, delivery, environment>>

\* decideContentHashNotModified against the generation seen.
Unchanged(h) ==
    LET a == ctx[h].seen.active IN
    /\ a # 0
    /\ run[a].snap = ctx[h].got
    /\ run[a].label = ctx[h].copy.label

\* completeNotModifiedTx: what the transaction asks for.
Confirms(h) == source.active = ctx[h].seen.active /\ Current(h) /\ Owned(h)

\* storeFetchedSnapshot.
StoreSnapshot(h) ==
    LET stored == [To(ctx[h].copy, "stored") EXCEPT !.snap = ctx[h].got]
        refused == Failing(ctx[h], "retryable", "pre")
    IN
    /\ At(h, "store")
    /\ IF Unchanged(h)
         THEN IF Confirms(h)
                THEN /\ SetRun(h, To(ctx[h].copy, "not_modified"))
                     /\ SetJob(h, markSucceeded(JobOf(h), WorkerOf[h]))
                     /\ Move(h, Reporting(ctx[h], "succeeded"))
                ELSE Move(h, refused) /\ UNCHANGED <<run, job>>
         ELSE /\ IF Current(h)
                   THEN /\ SetRun(h, stored)
                        /\ Move(h, [ctx[h] EXCEPT !.pc = "get", !.copy = stored,
                                                  !.got = NoCatalog, !.seen = NoSource])
                   ELSE Move(h, refused) /\ UNCHANGED run
              /\ UNCHANGED job
    /\ UNCHANGED <<due, catalog, attempt, delivery, environment>>

\* parseAndStage: the snapshot is read back and verified.
GetSnapshot(h) ==
    LET next == IF ctx[h].copy.state = "stored" THEN "parse" ELSE "decide" IN
    /\ At(h, "get")
    /\ \/ Renewed(h, "post", [ctx[h] EXCEPT !.pc = next])
       \/ \E code \in {"retryable", "bad"} : Renewed(h, "post", Failing(ctx[h], code, "post"))
    /\ UNCHANGED <<run, due, catalog, attempt, delivery, environment>>

RecordParsing(h) ==
    LET w == RunOf(h) IN
    /\ At(h, "parse")
    /\ IF Current(h)
         THEN /\ SetRun(h, To(ctx[h].copy, "parsing"))
              /\ Move(h, [ctx[h] EXCEPT !.pc = "decide", !.copy = To(@, "parsing")])
         ELSE /\ Move(h, IF run[w].state \in {"parsing", "staging"}
                           THEN [ctx[h] EXCEPT !.pc = "decide", !.copy = run[w]]
                           ELSE Failing(ctx[h], "retryable", "post"))
              /\ UNCHANGED run
    /\ UNCHANGED <<due, catalog, job, attempt, delivery, environment>>

\* Mutant: a catalog is compared by its contents alone.
Regresses_never(c) == source.active # 0 /\ c = run[source.active].snap

\* decideCatalogRegression: the catalog is older than the active one.
Regresses(c) ==
    source.active # 0 /\ Released[c] < Released[run[source.active].snap]

\* The parser's verdict and the comparison with the active generation.
ParseAndDecide(h) ==
    /\ At(h, "decide")
    /\ \/ Renewed(h, "post", IF Regresses(ctx[h].copy.snap)
                               THEN Failing(ctx[h], "bad", "post")
                               ELSE [ctx[h] EXCEPT !.pc = "stage"])
       \/ \E code \in {"retryable", "final", "bad"} :
            Renewed(h, "post", Failing(ctx[h], code, "post"))
    /\ UNCHANGED <<run, due, catalog, attempt, delivery, environment>>

\* stageGeneration: create the generation or resume it.  A second insert for
\* the run aborts its transaction, and the statement after it throws.
StageGeneration(h) ==
    LET w == RunOf(h)
        c == ctx[h]
        staging == [To(c.copy, "staging") EXCEPT !.gen = TRUE]
    IN
    /\ At(h, "stage")
    /\ \/ /\ c.copy.gen
          /\ Move(h, CASE generation[w] = "staging" -> [c EXCEPT !.pc = "inspect"]
                       [] generation[w] = "complete" -> [c EXCEPT !.pc = "activate"]
                       [] OTHER -> Failing(c, "final", "post"))
          /\ UNCHANGED <<run, generation>>
       \/ /\ ~c.copy.gen
          /\ generation[w] # "none"
          /\ Move(h, Idle)
          /\ UNCHANGED <<run, generation>>
       \/ /\ ~c.copy.gen
          /\ generation[w] = "none"
          /\ Current(h)
          /\ SetRun(h, staging)
          /\ generation' = [generation EXCEPT ![w] = "staging"]
          /\ Move(h, [c EXCEPT !.pc = "inspect", !.copy = staging])
       \/ /\ ~c.copy.gen
          /\ generation[w] = "none"
          /\ ~Current(h)
          /\ Move(h, Failing(c, "retryable", "post"))
          /\ UNCHANGED <<run, generation>>
    /\ UNCHANGED <<due, entries, source, job, attempt, delivery, environment>>

\* inspectStagedPrefix: the rows staged so far, by whichever handler.
InspectPrefix(h) ==
    /\ At(h, "inspect")
    /\ Move(h, [ctx[h] EXCEPT !.pc = "resume", !.cursor = Cardinality(entries[RunOf(h)])])
    /\ UNCHANGED <<run, due, catalog, job, attempt, delivery, environment>>

\* verifyDenseStagedPrefix: the rows read before against the count read now.
ResumePrefix(h) ==
    /\ At(h, "resume")
    /\ Move(h, IF entries[RunOf(h)] = 0 .. (ctx[h].cursor - 1)
                 THEN [ctx[h] EXCEPT !.pc = "reload"]
                 ELSE Failing(ctx[h], "final", "post"))
    /\ UNCHANGED <<run, due, catalog, job, attempt, delivery, environment>>

\* Before a batch the run is reloaded, after the last one the rows are counted.
Reload(h) ==
    LET w == RunOf(h)
        c == ctx[h]
    IN
    /\ At(h, "reload")
    /\ Renewed(h, "post",
         IF c.cursor < Size[c.copy.snap]
           THEN IF run[w].state = "staging"
                  THEN [c EXCEPT !.pc = "batch", !.copy = run[w]]
                  ELSE Failing(c, "final", "post")
           ELSE IF Cardinality(entries[w]) = Size[c.copy.snap]
                  THEN [c EXCEPT !.pc = "complete"]
                  ELSE Failing(c, "final", "post"))
    /\ UNCHANGED <<run, due, catalog, attempt, delivery, environment>>

\* The generation is locked and the ordinals are unique in it.
Insertable(w, batch) == generation[w] = "staging" /\ batch \cap entries[w] = {}

\* stageBoundedEntryBatch.
StageBatch(h) ==
    LET w == RunOf(h)
        c == ctx[h]
        batch == {o \in Ordinals(c.copy.snap) : c.cursor <= o /\ o < c.cursor + BatchSize}
    IN
    /\ At(h, "batch")
    /\ IF Insertable(w, batch)
         THEN /\ entries' = [entries EXCEPT ![w] = @ \cup batch]
              /\ Move(h, [c EXCEPT !.pc = "reload", !.cursor = @ + Cardinality(batch)])
         ELSE /\ Move(h, Failing(c, "retryable", "post"))
              /\ UNCHANGED entries
    /\ UNCHANGED <<run, due, generation, source, job, attempt, delivery, environment>>

\* markGenerationComplete counts the rows under the lock.
Whole(w, c) == generation[w] = "staging" /\ Cardinality(entries[w]) = Size[c]

\* completeStagedGeneration.
CompleteGeneration(h) ==
    LET w == RunOf(h)
        c == ctx[h]
        again == [c EXCEPT !.pc = "activate", !.copy = run[w], !.cursor = 0]
    IN
    /\ At(h, "complete")
    /\ IF Whole(w, c.copy.snap) /\ Current(h)
         THEN /\ SetRun(h, To(c.copy, "activating"))
              /\ generation' = [generation EXCEPT ![w] = "complete"]
              /\ Move(h, [c EXCEPT !.pc = "activate", !.copy = To(@, "activating"), !.cursor = 0])
         ELSE /\ Move(h, IF run[w].state \in {"activating", "completed"} THEN again
                         ELSE Failing(again, "retryable", "post"))
              /\ UNCHANGED <<run, generation>>
    /\ UNCHANGED <<due, entries, source, job, attempt, delivery, environment>>

\* activate up to the transaction: the run, its generation and the source row.
\* A complete generation of a staging run does not occur: both rows change in
\* completeStagedGeneration, so recordActivationStarted has nothing to do.
Activate(h) ==
    LET w == RunOf(h)
        c == [ctx[h] EXCEPT !.copy = run[w], !.cursor = 0]
    IN
    /\ At(h, "activate")
    /\ \/ /\ run[w].state = "completed"
          /\ reconcileTerminal(h, run[w])
       \/ /\ run[w].state # "completed"
          /\ IF run[w].gen /\ generation[w] = "complete" /\ Owned(h)
               THEN /\ SetJob(h, renewLease(job[w], WorkerOf[h]))
                    /\ Move(h, IF run[w].state = "activating"
                                 THEN [c EXCEPT !.pc = "swap", !.seen = source]
                                 ELSE Failing(c, "retryable", "post"))
               ELSE /\ Move(h, IF ~run[w].gen \/ generation[w] = "active" THEN Idle
                               ELSE Failing(c, IF generation[w] = "complete" THEN "retryable"
                                               ELSE "final", "post"))
                    /\ UNCHANGED job
    /\ UNCHANGED <<run, due, catalog, attempt, delivery, environment>>

\* Mutant: the transaction does not ask whether the caller still owns the job.
Activatable_unowned(h) ==
    /\ generation[RunOf(h)] = "complete"
    /\ source = ctx[h].seen
    /\ Current(h)

\* activateInsideTransaction: what it asks for under the lock on the source.
Activatable(h) ==
    LET w == RunOf(h)
        seen == ctx[h].seen
    IN
    /\ generation[w] = "complete"
    /\ Cardinality(entries[w]) = Size[run[w].snap]
    /\ source = seen
    /\ seen.active # 0 => generation[seen.active] = "active"
    /\ Current(h)
    /\ Owned(h)

\* Mutant: the previous generation is left active.
Swapped_keepsOld(w) == [generation EXCEPT ![w] = "active"]

\* The generation rows after the swap.
Swapped(w) == [v \in Windows |-> IF v = w THEN "active"
                                 ELSE IF v = source.active THEN "superseded"
                                 ELSE generation[v]]

\* activateCompleteGeneration: supersede, activate, move the pointer, complete
\* the run and its job.
Swap(h) ==
    LET w == RunOf(h) IN
    /\ At(h, "swap")
    /\ \/ /\ run[w].state = "completed"
          /\ Move(h, Reporting(ctx[h], "succeeded"))
          /\ UNCHANGED <<run, generation, source, job>>
       \/ /\ run[w].state # "completed"
          /\ Activatable(h)
          /\ generation' = Swapped(w)
          /\ source' = [active |-> w, version |-> source.version + 1]
          /\ SetRun(h, To(run[w], "completed"))
          /\ SetJob(h, markSucceeded(job[w], WorkerOf[h]))
          /\ Move(h, Reporting(ctx[h], "succeeded"))
       \/ /\ run[w].state # "completed"
          /\ ~Activatable(h)
          /\ Move(h, Failing(ctx[h], "retryable", "post"))
          /\ UNCHANGED <<run, generation, source, job>>
    /\ UNCHANGED <<due, entries, attempt, delivery, environment>>

-----------------------------------------------------------------------------
(* applyFailure: its transactions, and mapOutcome.                         *)

\* A refused transaction: follow a settled run, otherwise ask for a retry.
Refused(h) ==
    /\ IF Settled(run[RunOf(h)])
         THEN reconcileTerminal(h, run[RunOf(h)])
         ELSE Move(h, Reporting(ctx[h], "redispatch")) /\ UNCHANGED job
    /\ UNCHANGED <<run, due>>

RecordRetryWait(h) ==
    /\ At(h, "retry_wait")
    /\ IF ctx[h].copy.state = "fetching" /\ Current(h) /\ Owned(h)
         THEN /\ SetRun(h, To(ctx[h].copy, "retry_wait"))
              /\ due' = due \ {RunOf(h)}
              /\ SetJob(h, markRetry(JobOf(h), WorkerOf[h]))
              /\ Move(h, Reporting(ctx[h], "redispatch"))
         ELSE Refused(h)
    /\ UNCHANGED <<catalog, attempt, delivery, environment>>

\* The job is queued again; the run stays where it is.
RetryJob(h) ==
    /\ At(h, "job_retry")
    /\ SetJob(h, markRetry(JobOf(h), WorkerOf[h]))
    /\ Move(h, IF Owned(h) THEN Reporting(ctx[h], "redispatch") ELSE Idle)
    /\ UNCHANGED <<run, due, catalog, attempt, delivery, environment>>

\* failOrQuarantineTx.
FailRun(h) ==
    LET c == ctx[h] IN
    /\ c.pc \in Failures
    /\ IF /\ c.copy.state \in PreSnapshot \cup PostSnapshot
          /\ c.pc = "quarantined" => c.copy.state \notin {"requested", "retry_wait"}
          /\ Current(h)
          /\ Owned(h)
         THEN /\ SetRun(h, To(c.copy, c.pc))
              /\ SetJob(h, markTerminalFailure(JobOf(h), WorkerOf[h]))
              /\ Move(h, Idle)
              /\ UNCHANGED due
         ELSE Refused(h)
    /\ UNCHANGED <<catalog, attempt, delivery, environment>>

\* mapOutcome after a success, and after an outcome to be retried.  A lost
\* delivery is a fault.
ReportSuccess(h) ==
    /\ At(h, "succeeded")
    /\ SetJob(h, markSucceeded(JobOf(h), WorkerOf[h]))
    /\ Move(h, Idle)
    /\ UNCHANGED <<run, due, catalog, attempt, delivery, environment>>

RedispatchRetry(h) ==
    /\ At(h, "redispatch")
    /\ Move(h, Idle)
    /\ \/ queue' = Added(<<RunOf(h), attempt[RunOf(h)]>>) /\ UNCHANGED faults
       \/ faults < MaxFaults /\ faults' = faults + 1 /\ UNCHANGED queue
    /\ UNCHANGED <<run, due, catalog, job, attempt, event, config, deploys>>

-----------------------------------------------------------------------------
(* Clock, faults and configuration.                                        *)

\* next_attempt_at comes.
RetryDue(w) ==
    /\ run[w].state = "retry_wait" /\ w \notin due
    /\ due' = due \cup {w}
    /\ UNCHANGED <<run, catalog, job, attempt, delivery, ctx, environment>>

\* Handlers whose heartbeat renews the lease of a job.
Beating(w) ==
    {h \in Handlers : RunOf(h) = w /\ job[w].worker = WorkerOf[h]
                      /\ ctx[h].pc \notin {"idle", "lookup", "claim"}}

\* The lease of a job runs out; under a live handler only by a fault, such as
\* renewals that do not reach the database in time.
LeaseExpires(w) ==
    /\ job[w].lease = "live"
    /\ \/ Beating(w) = {} /\ UNCHANGED faults
       \/ Beating(w) # {} /\ faults < MaxFaults /\ faults' = faults + 1
    /\ job' = [job EXCEPT ![w] = expire(@)]
    /\ UNCHANGED <<run, due, catalog, attempt, delivery, ctx, config, deploys>>

\* A worker process dies; BullMQ finds its jobs stalled and hands them out
\* again, or fails them when they stalled too often.
Crash(k) ==
    LET dead == {h \in Handlers : WorkerOf[h] = k /\ ctx[h].pc # "idle"} IN
    /\ dead # {}
    /\ faults < MaxFaults
    /\ faults' = faults + 1
    /\ ctx' = [h \in Handlers |-> IF h \in dead THEN Idle ELSE ctx[h]]
    /\ \E stalled \in SUBSET {<<ctx[h].run, ctx[h].id>> : h \in dead} :
         queue' = queue \cup stalled
    /\ UNCHANGED <<run, due, catalog, job, attempt, event, config, deploys>>

\* A worker is told to stop: the abort signal fails the next renewal.
Shutdown(h) ==
    /\ faults < MaxFaults
    /\ faults' = faults + 1
    /\ \/ /\ ctx[h].pc \in {"fetch", "store"}
          /\ Move(h, Failing(ctx[h], "shutdown", "pre"))
       \/ /\ ctx[h].pc \in {"get", "decide", "stage", "batch", "complete", "swap"}
          /\ Move(h, Failing(ctx[h], "shutdown", "post"))
    /\ UNCHANGED <<run, due, catalog, job, attempt, delivery, config, deploys>>

\* The workers are restarted with other settings; reconcileRuntimeEnablement
\* writes the source row when the switch has moved.
Deploy(settings) ==
    /\ deploys < MaxDeploys
    /\ settings # config
    /\ \A h \in Handlers : At(h, "idle")
    /\ deploys' = deploys + 1
    /\ config' = settings
    /\ source' = IF settings.enabled = config.enabled THEN source
                 ELSE [source EXCEPT !.version = @ + 1]
    /\ UNCHANGED <<run, due, generation, entries, job, attempt, delivery, ctx, faults>>

-----------------------------------------------------------------------------
Handle(h) ==
    \/ Lookup(h) \/ Claim(h) \/ Precheck(h) \/ ClaimFetch(h) \/ FetchCatalog(h)
    \/ StoreSnapshot(h) \/ GetSnapshot(h) \/ RecordParsing(h) \/ ParseAndDecide(h)
    \/ StageGeneration(h) \/ InspectPrefix(h) \/ ResumePrefix(h) \/ Reload(h) \/ StageBatch(h)
    \/ CompleteGeneration(h) \/ Activate(h) \/ Swap(h)
    \/ RecordRetryWait(h) \/ RetryJob(h) \/ FailRun(h)
    \/ ReportSuccess(h) \/ RedispatchRetry(h)

Next ==
    \/ \E w \in Windows :
         \/ requestSync(w) \/ Publish(w) \/ Record(w) \/ Redeliver(w)
         \/ RetryDue(w) \/ LeaseExpires(w)
    \/ \E h \in Handlers :
         \/ Handle(h) \/ Shutdown(h)
         \/ \E id \in queue : Take(h, id)
    \/ \E k \in Workers : Crash(k)
    \/ \E settings \in [label : Versions, enabled : BOOLEAN] : Deploy(settings)

Spec == Init /\ [][Next]_vars

(***************************************************************************)
(* Fairness.  Handlers, the relay and the reconciler loop run, BullMQ hands *)
(* out its jobs first in, first out, and clocks advance.  Nothing is       *)
(* assumed of the scheduler, of faults, or of configuration changes.       *)
(***************************************************************************)
Fairness ==
    /\ \A w \in Windows :
         /\ WF_vars(Publish(w)) /\ WF_vars(Record(w)) /\ WF_vars(Redeliver(w))
         /\ WF_vars(RetryDue(w)) /\ WF_vars(LeaseExpires(w) /\ Beating(w) = {})
         /\ WF_vars(\E h \in Handlers : \E id \in queue : id[1] = w /\ Take(h, id))
    /\ \A h \in Handlers : WF_vars(Handle(h))

FairSpec == Spec /\ Fairness

-----------------------------------------------------------------------------
(* Properties.                                                             *)

\* The active generation is the one the source points to, it is alone, its
\* run is completed and every entry of its catalog is there: no reader finds
\* a half-staged catalog or two active ones, whatever handlers overtook one
\* another while it was staged.
ActiveIsWhole ==
    /\ \A w \in Windows : generation[w] = "active" => source.active = w
    /\ source.active # 0 =>
         /\ generation[source.active] = "active"
         /\ run[source.active].state = "completed"
         /\ entries[source.active] = Ordinals(run[source.active].snap)

\* The job of a run is settled together with the run and the same way: a
\* transaction that settles one settles the other or neither.
JobAndRunAgree ==
    \A w \in Windows :
      /\ job[w].status = "succeeded" <=> run[w].state \in Successes
      /\ job[w].status = "failed" <=> run[w].state \in Failures

\* A run was never fetched more often than its job was claimed.  The precheck
\* turns every later delivery away once that is broken, and the run with its
\* place in the in-flight index is stuck; fetchFromClaim does not ask who
\* owns the job, so overtaken handlers count as well.
ExecutionWithinAttempts == \A w \in Windows : run[w].exec <= attempt[w]

\* The snapshot of a run is fetched once: later attempts reuse it, and no
\* overtaken fetch replaces it.
SnapshotIsFinal ==
    [][\A w \in Windows : run[w].snap # NoCatalog => run'[w].snap = run[w].snap]_vars

Catalog == INSTANCE KevCatalog WITH
    served <- IF source.active = 0 THEN NoCatalog ELSE run[source.active].snap,
    visible <- IF source.active = 0 THEN {} ELSE entries[source.active]

\* Readers of the active generation see catalogs replaced as a whole and
\* never by an older release.  The regression check runs at parse time
\* against the generation that is active then; only the in-flight index
\* keeps another run from activating a newer one before this run's swap.
ImplementsCatalog == Catalog!Spec

\* A run in flight is settled, as long as KEV stays enabled and the workers
\* keep the parser version the run was requested with.
EventuallySettled ==
    \A w \in Windows :
      InFlight(w) ~> \/ run[w].state \in Terminal
                     \/ run[w].label # config.label
                     \/ ~config.enabled

=============================================================================

--------------------------- MODULE SbomIngestion ----------------------------
(***************************************************************************)
(* The sbom.ingest processor: BullMQ hands a delivery to one of the        *)
(* handlers of the worker processes, and the handler walks through         *)
(* processSbomIngestion, one action per statement that touches PostgreSQL  *)
(* or the queue.  Handlers run concurrently; a process may crash, a        *)
(* database or storage call may fail, a lease may run out under a handler  *)
(* that is still working, and BullMQ may declare a delivery stalled and    *)
(* hand it to a second handler.                                            *)
(*                                                                         *)
(* An upload transaction writes one ingestion and one outbox event, the    *)
(* event has at most one background_job row and one deterministic BullMQ   *)
(* job id, so an ingestion, its event, its row and its queue job share one *)
(* name.  Each handler has its own BullMQ lock token; the handlers of one  *)
(* process share its worker identifier (host:pid).                         *)
(***************************************************************************)
EXTENDS Naturals, BackgroundJobs, IngestionTransitions

CONSTANTS
    Ingestions,     \* sbom_ingestion rows
    Assets,         \* asset rows
    AssetOf,        \* the asset of an ingestion
    Invalid,        \* ingestions whose document the parser rejects
    Rank,           \* its place in the order (received_at, created_at, id)
    NoIngestion,    \* last_successful_sbom_ingestion_id IS NULL
    Handlers,       \* concurrent executions of the queue handler
    NoHandler,      \* no handler holds the BullMQ lock
    WorkerOf,       \* the worker identifier of a handler's process
    SlowHandlers,   \* handlers that may outlive their job lease
    MaxFaults       \* bound on crashes, failed calls and stalled deliveries

ASSUME IngestionAssumption ==
    /\ NoIngestion \notin Ingestions
    /\ NoHandler \notin Handlers
    /\ AssetOf \in [Ingestions -> Assets]
    /\ Invalid \subseteq Ingestions
    /\ Rank \in [Ingestions -> Nat]
    /\ \A i, j \in Ingestions : Rank[i] = Rank[j] => i = j
    /\ WorkerOf \in [Handlers -> Workers]
    /\ SlowHandlers \subseteq Handlers
    /\ MaxFaults \in Nat

VARIABLES
    queue,      \* BullMQ: where the job of an ingestion is
    lock,       \* BullMQ: the handler holding the job's lock
    jobs,       \* background_job rows
    ingestion,  \* sbom_ingestion rows
    graphs,     \* how many times the graph rows of an ingestion were inserted
    audits,     \* sbom.ingestion.* audit events, <<kind, ingestion>>
    pointer,    \* asset.last_successful_sbom_ingestion_id
    pc,         \* the next statement of a handler
    item,       \* the ingestion a handler works on
    version,    \* the version of the ingestion row the handler loaded
    code,       \* the failure outcome a handler is about to record
    faults      \* adverse events so far

rows == <<ingestion, graphs, audits, pointer>>
broker == <<queue, lock>>
locals == <<pc, item, version, code>>
vars == <<queue, lock, jobs, ingestion, graphs, audits, pointer,
          pc, item, version, code, faults>>

-----------------------------------------------------------------------------
QueueStates == {"absent", "waiting", "active", "failed", "completed"}

\* Statements reached only after a successful claim.
ClaimedSteps == {"load", "begin", "reload", "fetch", "persist", "latest",
                 "succeed", "align", "unclaim", "release", "finalize"}

Steps == {"idle", "lookup", "claim"} \cup ClaimedSteps \cup {"resolve", "reject"}

\* h has claimed the job of i and has not yet given it back.
Holds(h, i) == item[h] = i /\ pc[h] \in ClaimedSteps

AuditKinds == {"completed", "rejected", "quarantined", "failed"}

TypeOK ==
    /\ queue \in [Ingestions -> QueueStates]
    /\ lock \in [Ingestions -> Handlers \cup {NoHandler}]
    /\ jobs \in [Ingestions -> JobRows]
    /\ ingestion \in [Ingestions -> IngestionRows]
    /\ graphs \in [Ingestions -> Nat]
    /\ audits \subseteq AuditKinds \X Ingestions
    /\ pointer \in [Assets -> Ingestions \cup {NoIngestion}]
    /\ pc \in [Handlers -> Steps]
    /\ item \in [Handlers -> Ingestions \cup {NoIngestion}]
    /\ \A h \in Handlers : pc[h] # "idle" => item[h] \in Ingestions
    /\ version \in [Handlers -> Nat]
    /\ code \in [Handlers -> FailureOutcomes \cup {"ok"}]
    /\ \A h \in Handlers : pc[h] = "finalize" => code[h] \in TerminalOutcomes
    /\ faults \in 0..MaxFaults

Init ==
    /\ queue = [i \in Ingestions |-> "absent"]
    /\ lock = [i \in Ingestions |-> NoHandler]
    /\ jobs = [i \in Ingestions |-> AbsentJob]
    /\ ingestion = [i \in Ingestions |-> AcceptedRow]
    /\ graphs = [i \in Ingestions |-> 0]
    /\ audits = {}
    /\ pointer = [a \in Assets |-> NoIngestion]
    /\ pc = [h \in Handlers |-> "idle"]
    /\ item = [h \in Handlers |-> NoIngestion]
    /\ version = [h \in Handlers |-> 0]
    /\ code = [h \in Handlers |-> "ok"]
    /\ faults = 0

-----------------------------------------------------------------------------
(* The relay as the processor sees it: it publishes first and creates the  *)
(* background_job row afterwards, so a delivery may overtake the row.      *)

Publish(i) ==
    /\ queue[i] = "absent"
    /\ queue' = [queue EXCEPT ![i] = "waiting"]
    /\ UNCHANGED <<lock, jobs, rows, locals, faults>>

EnqueueQueued(i) ==
    /\ queue[i] # "absent"
    /\ jobs[i].status = "absent"
    /\ jobs' = [jobs EXCEPT ![i] = enqueueQueued(@)]
    /\ UNCHANGED <<broker, rows, locals, faults>>

-----------------------------------------------------------------------------
(* A handler.  Goto names the statement it executes next.                  *)

Goto(h, step) == pc' = [pc EXCEPT ![h] = step]

\* A retryable failure is released, any other one is final.
finalizeByCode(outcome) ==
    IF outcome = "retryable_infrastructure" THEN "release" ELSE "finalize"

\* BullMQ takes a waiting job, locks it and calls the processor.
Deliver(h, i) ==
    /\ pc[h] = "idle"
    /\ queue[i] = "waiting"
    /\ queue' = [queue EXCEPT ![i] = "active"]
    /\ lock' = [lock EXCEPT ![i] = h]
    /\ item' = [item EXCEPT ![h] = i]
    /\ Goto(h, "lookup")
    /\ UNCHANGED <<jobs, rows, version, code, faults>>

\* findByOutboxEventId.  No row yet is a retry without any write; a settled
\* row ends the delivery.
Lookup(h) ==
    /\ pc[h] = "lookup"
    /\ Goto(h, CASE jobs[item[h]].status = "absent" -> "reject"
                 [] jobs[item[h]].status \in {"succeeded", "failed"} -> "resolve"
                 [] OTHER -> "claim")
    /\ UNCHANGED <<broker, jobs, rows, item, version, code, faults>>

\* claimExecution; a lost claim is a retry.
Claim(h) ==
    /\ pc[h] = "claim"
    /\ Goto(h, IF Claimable(jobs[item[h]]) THEN "load" ELSE "reject")
    /\ jobs' = [jobs EXCEPT ![item[h]] = claimExecution(@, WorkerOf[h])]
    /\ UNCHANGED <<broker, rows, item, version, code, faults>>

\* Mutant: every settled ingestion is taken for a completed one.
NextAfterRead_settledSucceeds(row, otherwise) ==
    CASE row.state \in TerminalStates -> "succeed"
      [] row.state = "processing" -> "fetch"
      [] OTHER -> otherwise

\* What a freshly read ingestion row means for a handler: settled rows only
\* need the job aligned with them.
NextAfterRead(row, otherwise) ==
    CASE row.state = "completed" -> "succeed"
      [] row.state \in TerminalStates \ {"completed"} -> "align"
      [] row.state = "processing" -> "fetch"
      [] OTHER -> otherwise

\* ingestions.findById.  A row somebody left in processing is resumed with
\* its version as it is.
Load(h) ==
    /\ pc[h] = "load"
    /\ Goto(h, NextAfterRead(ingestion[item[h]], "begin"))
    /\ version' = [version EXCEPT ![h] = ingestion[item[h]].version]
    /\ UNCHANGED <<broker, jobs, rows, item, code, faults>>

\* applyTransition(start_processing).
Begin(h) ==
    /\ pc[h] = "begin"
    /\ LET i == item[h] IN
       /\ ingestion' = [ingestion EXCEPT
                          ![i] = applyTransition(@, version[h], "start_processing")]
       /\ IF Accepts(ingestion[i], version[h], "start_processing")
            THEN /\ Goto(h, "fetch")
                 /\ version' = [version EXCEPT ![h] = @ + 1]
            ELSE /\ Goto(h, "reload")
                 /\ UNCHANGED version
    /\ UNCHANGED <<broker, jobs, graphs, audits, pointer, item, code, faults>>

\* Somebody else moved the row between Load and Begin: read it again.
Reload(h) ==
    /\ pc[h] = "reload"
    /\ Goto(h, NextAfterRead(ingestion[item[h]], "unclaim"))
    /\ version' = [version EXCEPT ![h] = ingestion[item[h]].version]
    /\ UNCHANGED <<broker, jobs, rows, item, code, faults>>

\* Load the SBOM, check its object key, download, verify, parse and validate
\* the graph: reads of immutable evidence outside any transaction, so a bad
\* document is rejected on every run.  The other outcomes are faults of the
\* environment: storage (retryable, or terminal_internal for access denied),
\* corrupted bytes and parser timeouts or crashes (quarantined).
Fetch(h) ==
    /\ pc[h] = "fetch"
    /\ \/ /\ item[h] \notin Invalid
          /\ code' = [code EXCEPT ![h] = "ok"]
          /\ Goto(h, "persist")
          /\ UNCHANGED faults
       \/ /\ item[h] \in Invalid
          /\ code' = [code EXCEPT ![h] = "rejected"]
          /\ Goto(h, "finalize")
          /\ UNCHANGED faults
       \/ /\ faults < MaxFaults
          /\ faults' = faults + 1
          /\ \E outcome \in FailureOutcomes \ {"rejected"} :
               /\ code' = [code EXCEPT ![h] = outcome]
               /\ Goto(h, finalizeByCode(outcome))
    /\ UNCHANGED <<broker, jobs, rows, item, version>>

\* Mutant: the ingestion that finishes last becomes the current one.
Replaces_lastWins(current, candidate) == TRUE

\* replaceAssetPointerIfCandidateIsCurrent: under the asset's lock, the
\* ingestion already pointed to stays when its rank is at least as high.
Replaces(current, candidate) ==
    \/ current = NoIngestion
    \/ ~(Rank[current] >= Rank[candidate])

\* Mutant: no early return for an ingestion that is already completed.
PersistDecision_noReturn(row) ==
    CASE row.state \in {"completed", "processing"} -> "insert"
      [] OTHER -> "refused"

\* What persistOnceForIngestion does with the row it has locked.
PersistDecision(row) ==
    CASE row.state = "completed" -> "already"
      [] row.state = "processing" -> "insert"
      [] OTHER -> "refused"

\* persistOnceForIngestion, one transaction under the ingestion's row lock:
\* insert the graph, complete the row, move the pointer, audit, and succeed the
\* job if the handler still holds an unexpired lease on it.
Persist(h) ==
    /\ pc[h] = "persist"
    /\ LET i == item[h]
           a == AssetOf[item[h]] IN
       \/ /\ PersistDecision(ingestion[i]) = "already"
          /\ Goto(h, "resolve")
          /\ UNCHANGED <<jobs, rows>>
       \/ /\ PersistDecision(ingestion[i]) = "refused"
          /\ Goto(h, "latest")
          /\ UNCHANGED <<jobs, rows>>
       \/ /\ PersistDecision(ingestion[i]) = "insert"
          /\ graphs' = [graphs EXCEPT ![i] = @ + 1]
          /\ ingestion' = [ingestion EXCEPT
                             ![i] = applyTransition(@, @.version, "complete")]
          /\ pointer' = [pointer EXCEPT
                           ![a] = IF Replaces(@, i) THEN i ELSE @]
          /\ audits' = audits \cup {<<"completed", i>>}
          /\ jobs' = [jobs EXCEPT ![i] = succeedOwnedJob(@, WorkerOf[h])]
          /\ Goto(h, "resolve")
    /\ UNCHANGED <<broker, item, version, code, faults>>

\* handlePersistFailure reads the row once more; a row that is not settled is
\* released for a retry, whatever its state.
Latest(h) ==
    /\ pc[h] = "latest"
    /\ Goto(h, CASE ingestion[item[h]].state = "completed" -> "succeed"
                 [] ingestion[item[h]].state \in TerminalStates \ {"completed"} -> "align"
                 [] OTHER -> "release")
    /\ UNCHANGED <<broker, jobs, rows, item, version, code, faults>>

Succeed(h) ==
    /\ pc[h] = "succeed"
    /\ jobs' = [jobs EXCEPT ![item[h]] = markSucceeded(@, WorkerOf[h])]
    /\ Goto(h, "resolve")
    /\ UNCHANGED <<broker, rows, item, version, code, faults>>

\* alignTerminalJob.
Align(h) ==
    /\ pc[h] = "align"
    /\ jobs' = [jobs EXCEPT ![item[h]] = markTerminalFailure(@, WorkerOf[h])]
    /\ Goto(h, "resolve")
    /\ UNCHANGED <<broker, rows, item, version, code, faults>>

\* The end of loadProcessingIngestion: give the claim back, touch nothing else.
Unclaim(h) ==
    /\ pc[h] = "unclaim"
    /\ jobs' = [jobs EXCEPT ![item[h]] = markRetry(@, WorkerOf[h])]
    /\ Goto(h, "reject")
    /\ UNCHANGED <<broker, rows, item, version, code, faults>>

\* releaseForRetry, one transaction whose two results are both ignored.
Release(h) ==
    /\ pc[h] = "release"
    /\ ingestion' = [ingestion EXCEPT
                       ![item[h]] = applyTransition(@, version[h], "release_for_retry")]
    /\ jobs' = [jobs EXCEPT ![item[h]] = markRetry(@, WorkerOf[h])]
    /\ Goto(h, "reject")
    /\ UNCHANGED <<broker, graphs, audits, pointer, item, version, code, faults>>

\* finalizeTerminal, one transaction.  The result of the transition is ignored
\* and the audit event is appended in any case; when the same event exists the
\* unique index aborts the transaction and the handler throws.
FinalizeTerminal(h) ==
    /\ pc[h] = "finalize"
    /\ LET i == item[h]
           audit == <<KindFor[code[h]], i>> IN
       \/ /\ audit \notin audits
          /\ ingestion' = [ingestion EXCEPT
                             ![i] = applyTransition(@, version[h], CommandFor[code[h]])]
          /\ audits' = audits \cup {audit}
          /\ jobs' = [jobs EXCEPT ![i] = markTerminalFailure(@, WorkerOf[h])]
          /\ Goto(h, "resolve")
       \/ /\ audit \in audits
          /\ Goto(h, "reject")
          /\ UNCHANGED <<ingestion, audits, jobs>>
    /\ UNCHANGED <<broker, graphs, pointer, item, version, code, faults>>

\* The processor's promise settles: "resolve" completes the BullMQ job,
\* "reject" (a retry outcome is thrown) fails it, for there are no attempts
\* left.  A handler that lost the lock changes nothing.
Settle(h) ==
    /\ pc[h] \in {"resolve", "reject"}
    /\ LET i == item[h] IN
       IF lock[i] = h
         THEN /\ queue' = [queue EXCEPT
                             ![i] = IF pc[h] = "resolve" THEN "completed" ELSE "failed"]
              /\ lock' = [lock EXCEPT ![i] = NoHandler]
         ELSE UNCHANGED broker
    /\ Goto(h, "idle")
    /\ item' = [item EXCEPT ![h] = NoIngestion]
    /\ version' = [version EXCEPT ![h] = 0]
    /\ code' = [code EXCEPT ![h] = "ok"]
    /\ UNCHANGED <<jobs, rows, faults>>

-----------------------------------------------------------------------------
(* Failures and the operator.                                              *)

\* A database call throws, before it takes effect or with its answer lost
\* afterwards; the handler rejects.
Throw(h) ==
    /\ pc[h] \in {"lookup", "claim", "resolve"} \cup ClaimedSteps
    /\ faults < MaxFaults
    /\ faults' = faults + 1
    /\ Goto(h, "reject")
    /\ UNCHANGED <<broker, jobs, rows, item, version, code>>

\* A worker process dies with all its handlers; their locks stay behind.
Crash(w) ==
    LET dead == {h \in Handlers : WorkerOf[h] = w} IN
    /\ \E h \in dead : pc[h] # "idle"
    /\ faults < MaxFaults
    /\ faults' = faults + 1
    /\ pc' = [h \in Handlers |-> IF h \in dead THEN "idle" ELSE pc[h]]
    /\ item' = [h \in Handlers |-> IF h \in dead THEN NoIngestion ELSE item[h]]
    /\ version' = [h \in Handlers |-> IF h \in dead THEN 0 ELSE version[h]]
    /\ code' = [h \in Handlers |-> IF h \in dead THEN "ok" ELSE code[h]]
    /\ lock' = [i \in Ingestions |-> IF lock[i] \in dead THEN NoHandler ELSE lock[i]]
    /\ UNCHANGED <<queue, jobs, rows>>

\* The clock passes the lease of a running job.  The configuration provides
\* leases longer than a run; only a slow handler is overtaken by its own.
LeaseExpires(i) ==
    /\ jobs[i].lease = "live"
    /\ \A h \in Handlers \ SlowHandlers : ~Holds(h, i)
    /\ jobs' = [jobs EXCEPT ![i] = expire(@)]
    /\ UNCHANGED <<broker, rows, locals, faults>>

\* BullMQ finds an active job without a renewed lock and hands it out again,
\* or fails it when it stalled too often.  A lock may also be lost while its
\* handler is alive (renewals not reaching Redis in time): that is a fault.
Stall(i) ==
    /\ queue[i] = "active"
    /\ \/ lock[i] = NoHandler /\ UNCHANGED faults
       \/ lock[i] # NoHandler /\ faults < MaxFaults /\ faults' = faults + 1
    /\ \E next \in {"waiting", "failed"} : queue' = [queue EXCEPT ![i] = next]
    /\ lock' = [lock EXCEPT ![i] = NoHandler]
    /\ UNCHANGED <<jobs, rows, locals>>

\* The runbook's recovery: an operator replays a failed BullMQ job.
Replay(i) ==
    /\ queue[i] = "failed"
    /\ queue' = [queue EXCEPT ![i] = "waiting"]
    /\ UNCHANGED <<lock, jobs, rows, locals, faults>>

-----------------------------------------------------------------------------
Handle(h) ==
    \/ Lookup(h) \/ Claim(h) \/ Load(h) \/ Begin(h) \/ Reload(h) \/ Fetch(h)
    \/ Persist(h) \/ Latest(h) \/ Succeed(h) \/ Align(h) \/ Unclaim(h)
    \/ Release(h) \/ FinalizeTerminal(h) \/ Settle(h)

\* Every delivery is completed: the system waits for the next upload.
Quiet ==
    /\ \A i \in Ingestions : queue[i] = "completed" /\ jobs[i].lease # "live"
    /\ \A h \in Handlers : pc[h] = "idle"
    /\ UNCHANGED vars

Next ==
    \/ Quiet
    \/ \E i \in Ingestions : Publish(i) \/ EnqueueQueued(i)
    \/ \E h \in Handlers, i \in Ingestions : Deliver(h, i)
    \/ \E h \in Handlers : Handle(h) \/ Throw(h)
    \/ \E w \in Workers : Crash(w)
    \/ \E i \in Ingestions : LeaseExpires(i) \/ Stall(i) \/ Replay(i)

Spec == Init /\ [][Next]_vars

(***************************************************************************)
(* Fairness.  Handlers and the relay run; BullMQ hands out waiting jobs    *)
(* first in, first out, and sweeps jobs whose lock expired; clocks advance; *)
(* operators follow the runbook and replay failed jobs.  Nothing is assumed *)
(* of crashes, of failing calls, or of locks lost by live handlers.        *)
(***************************************************************************)
Fairness ==
    /\ \A i \in Ingestions :
         /\ WF_vars(Publish(i)) /\ WF_vars(EnqueueQueued(i))
         /\ SF_vars(\E h \in Handlers : Deliver(h, i))
         /\ WF_vars(LeaseExpires(i))
         /\ WF_vars(Stall(i) /\ lock[i] = NoHandler)
         /\ WF_vars(Replay(i))
    /\ \A h \in Handlers : WF_vars(Handle(h))

FairSpec == Spec /\ Fairness

-----------------------------------------------------------------------------
(* What holds however late a handler is.                                   *)

\* The asset points to the newest completed ingestion in the order
\* (received_at, created_at, id), never to the one that finished last, and to
\* nothing while none is completed.
PointerIsNewestCompleted ==
    \A a \in Assets :
      LET done == {i \in Ingestions : AssetOf[i] = a /\ ingestion[i].state = "completed"} IN
      IF done = {}
        THEN pointer[a] = NoIngestion
        ELSE /\ pointer[a] \in done
             /\ \A i \in done : Rank[i] <= Rank[pointer[a]]

\* However often a delivery is repeated and whoever holds the lease, the graph
\* of an ingestion is inserted once, by the transaction that completes it and
\* writes its sbom.ingestion.completed audit event.
GraphInsertedOnce ==
    \A i \in Ingestions :
      /\ graphs[i] = IF ingestion[i].state = "completed" THEN 1 ELSE 0
      /\ (<<"completed", i>> \in audits) <=> ingestion[i].state = "completed"

\* A job reported succeeded belongs to a completed ingestion, also when a
\* handler that lost its lease writes the report.
SucceededIsCompleted ==
    \A i \in Ingestions :
      jobs[i].status = "succeeded" => ingestion[i].state = "completed"

\* A settled ingestion never changes again, whatever stale handlers do, and a
\* version is never reused for another state.
SettledIsFinal ==
    [][\A i \in Ingestions :
         /\ isTerminal(ingestion[i]) => ingestion'[i] = ingestion[i]
         /\ ingestion'[i] # ingestion[i] => ingestion'[i].version = ingestion[i].version + 1
      ]_ingestion

Lifecycle == INSTANCE IngestionLifecycle WITH
    lifecycle <- [i \in Ingestions |-> ingestion[i].state],
    stored <- graphs,
    current <- pointer

\* The processor implements the lifecycle: whatever handlers do, each of their
\* steps is one step of the abstract specification or changes nothing it sees.
ImplementsLifecycle == Lifecycle!LSpec

-----------------------------------------------------------------------------
(* What holds as long as no handler outlives its lease.                    *)

\* A replayed or stalled delivery never runs a job another handler holds,
\* although BullMQ may deliver it twice and handlers share an identifier.
ClaimIsExclusive ==
    \A i \in Ingestions, g, h \in Handlers :
      Holds(g, i) /\ Holds(h, i) => g = h

\* The transaction that completes an ingestion marks its job succeeded.
CompletedIsSucceeded ==
    \A i \in Ingestions :
      ingestion[i].state = "completed" => jobs[i].status = "succeeded"

\* A job is failed only together with its ingestion, so that no ingestion is
\* left waiting for a job that every later delivery reports as failed.
FailedIsSettled ==
    \A i \in Ingestions :
      jobs[i].status = "failed" => isTerminal(ingestion[i])

\* An audit event of a terminal outcome describes a state change that happened.
AuditMatchesState ==
    \A i \in Ingestions, kind \in AuditKinds :
      <<kind, i>> \in audits => ingestion[i].state = kind

\* Every accepted ingestion is eventually settled and its job with it, through
\* crashes, lost locks and failing calls, by the runbook's replays.
EventuallySettled ==
    \A i \in Ingestions :
      <>[](isTerminal(ingestion[i]) /\ jobs[i].status \in {"succeeded", "failed"})

=============================================================================

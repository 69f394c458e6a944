# PatchPilot in TLA+

PatchPilot takes SBOM documents for assets, turns them into component graphs
and matches them with vulnerability intelligence. This directory models

- the path of an upload: the request that stores it under an idempotency key, the
  outbox relay that hands it to BullMQ, the background job that tracks its execution
  and the processor that settles it;
- the intelligence side: the KEV synchronization with its scheduler and redelivery,
  the OSV runtime with its lease, and the OSV acquisition that fills, freezes and
  publishes catalogs;
- the review side: who may submit and approve advisories, submission and approval
  themselves, the evaluation of an upload against them, and the findings that
  operators create from it and observe again.

TLC checks the models on small instances; TLAPS proves their safety
properties and refinements for every instance.

## The system

| Component | State | Operations | Hard behaviour |
|---|---|---|---|
| SBOM upload (`domain/src/sbom/upload.ts`) | `sbom`, `sbom_ingestion`, `sbom_upload_idempotency`, object store | reserve, store, promote, finalize, replay | a reservation taken over while its request still runs |
| Outbox relay (`domain/src/sbom/relay.ts`) | `outbox_event`, BullMQ jobs, `background_job` | claim a batch, publish, mark, create the row, reconcile, dead-letter | several relays, lost answers, leases that run out inside a batch |
| Background jobs (`database/src/background-job-execution.ts`) | `background_job` (status, attempts, lease, worker identifier) | enqueue, claim, retry, succeed, fail | leases; handlers of one process share an identifier |
| Ingestion processor (`domain/src/sbom/ingest.ts`) | `sbom_ingestion` (state, version), audit events | lookup, claim, load, start, fetch, persist, release, finalize | two deliveries of a job, stale versions, crashes, ignored results |
| Graph persistence (`database/src/component-graph-persistence.ts`) | component graph, `asset.last_successful_sbom_ingestion_id` | one transaction per ingestion | uploads that complete out of order |
| KEV synchronization and scheduler (`domain/src/intelligence/`) | sync runs, jobs, snapshots, staged entries, the active generation | schedule, claim, renew, fetch, stage, swap, fail, redeliver | leases lost between batches, overtaken fetches, a deployment in mid-run |
| OSV runtime (`vulnerability-intelligence/src/osv/runtime-coordination/`) | one lease row with a fencing token, runs, stage attempts | acquire, prove, start and record attempts, settle, release | an owner whose lease expired, halts and aborts between two statements |
| OSV acquisition (`.../osv/orchestration/`, `database/src/osv-acquisition-persistence.ts`) | catalogs, snapshots, parser attempts, revisions, memberships, objects | attach, recover, parse, record, reconcile, freeze, activate | object store and database out of step, two invocations, old activation requests |
| Advisory authority and reviewed advisories (`database/src/*advisory*persistence.ts`) | grants, revocations, envelopes, revisions, approvals | grant, revoke, submit, approve | a revocation racing a submission, lost acknowledgements, deadlocks |
| Product match evaluation and findings (`database/src/controlled-finding-*.ts`, `*product-match*.ts`) | evidence, finding, observations with links, asset pointer | evaluate, commit, create, observe, read the latest | an upload that completes while an operator acts, transaction-start timestamps |
| OSV canary | one-shot authorizations | authorize, consume | single use |
| Risk calculation and policy engine | append-only calculations | evaluate, record | pure evaluation; ordering |
| Assets, authentication, API, web, contracts, configuration, adapters | single rows, sessions, Redis counters, none | CRUD, login, routing | optimistic concurrency, a limiter's window |

An upload's transaction writes the SBOM, the ingestion (`accepted`), its audit
event and one outbox event. A relay claims the event, adds a BullMQ job with an
id derived from the event, marks the event processed and inserts the
`background_job` row. BullMQ delivers the job to a handler of a worker process;
the handler looks the row up, claims it under a lease, moves the ingestion to
`processing`, reads and parses the document outside any transaction, and commits
the outcome. PostgreSQL rows are the only state shared between relays and
handlers; BullMQ decides who is called and when, and promises at least once.

KEV runs travel the same way: the scheduler writes run, job and outbox event for a
window, the handler's last transaction swaps the staged catalog in. The OSV parts
are invoked by requests and coordinate over one lease row and over compare-and-set
updates. Advisories, evaluation and findings are calls that operators make; they
meet in row locks, and in the asset's advisory lock, which the graph transaction of
an upload takes as well.

What makes the upload path correct: the graph of an upload is inserted once; the asset
shows its newest completed upload; ingestion, job and audit trail agree; nothing
settled changes; an event is never lost between outbox, queue and job row; and
every upload is eventually settled. Of intelligence: readers see whole catalogs,
replaced in one step and never by an older one; what is published was frozen whole;
one owner at a time, identified for good by its token. Of review: nothing is decided
without the authority at that moment, nobody approves what they submitted, every
answer is true, and readers find what writers commit well-formed.

## Modules

| Module | Models | Used by |
|---|---|---|
| `SbomUpload` | the upload use case: requests, reservations, storage, transactions, replays | `MCSbomUpload`, `SbomUpload_proof` |
| `UploadKeys` | what a client may rely on from an idempotency key | refined by `SbomUpload` |
| `BackgroundJobs` | the conditional UPDATEs on `background_job` | `SbomIngestion`, `KevSync` |
| `IngestionTransitions` | the ingestion's transition table, its optimistic update, and the failure classes | `SbomIngestion` |
| `SbomIngestion` | the processor: handlers, BullMQ deliveries, crashes, stalls, replays | `MCSbomIngestion`, `SbomIngestion_proof` |
| `IngestionLifecycle` | what a reader of ingestions, graphs and asset pointers may rely on | refined by `SbomIngestion` |
| `OutboxRelay` | the poll loops of all worker processes over one outbox | `MCOutboxRelay`, `OutboxRelay_proof` |
| `OutboxDelivery` | what a processor may rely on from the relay | refined by `OutboxRelay` |
| `KevSync` | scheduler, relay, handlers, redelivery and the transactions of a run | `MCKevSync`, `KevSync_proof` |
| `KevCatalog` | what a reader of the active KEV catalog may rely on | refined by `KevSync` |
| `OsvLease` | the conditional statements on the lease row | `OsvRuntime` |
| `OsvRuntime` | `runSynchronization`: lease, guards, attempts, settlement | `MCOsvRuntime`, `OsvRuntime_proof` |
| `OsvAcquisition` | invocations over listings, object storage, catalog rows, activation | `MCOsvAcquisition`, `OsvAcquisition_proof` |
| `OsvCatalog` | the lifecycle of catalog generations | refined by `OsvAcquisition` |
| `ReviewedAdvisories` | grants, revocations, submissions, approvals, statement by statement | `MCReviewedAdvisories`, `ReviewedAdvisories_proof` |
| `AdvisoryBoard` | the decisions as if each were made at one moment | refined by `ReviewedAdvisories` |
| `ControlledFindings` | evaluation, creation, repeated observation, the reader | `MCControlledFindings`, `ControlledFindings_proof` |

The components of the upload path meet in rows: `SbomUpload` creates the ingestion and the
outbox event (`requested`), one of each per body (`AcceptedIsDurable`), which are the
initial rows of `OutboxRelay` and `SbomIngestion`; the relay's effect on queue and job rows
(`OutboxDelivery`) is the `Publish` and `EnqueueQueued` of `SbomIngestion`. `SbomIngestion`
lets every event be delivered; a dead-lettered one is an event whose delivery never
happens, which its safety properties allow for.

### SbomUpload

A request walks through `executeUploadSbom` and `storePromoteAndFinalize`; each
value of `pc` is a call to PostgreSQL or to the object storage. A digest
identifies a body, so evidence is the pair of asset and body. A fingerprint is
the content type with the body (`hashFinalFingerprint`) or without
(`hashReservationFingerprint`); the asset is in the key's scope already.

- `records`: status, fingerprint, whether `expires_at` is past, and the response.
- `sboms`, `requested`: rows of the transaction; `requested` counts ingestions with
  their outbox events so that a second one would be seen.
- `temporary`, `objects`: objects in the bucket. A failed call may have had its
  effect.
- `Lose` is a process that dies or a query outside the transactions that throws;
  `Expires` is free when no request works under the reservation and a fault when one
  does; `Resend` is the client; `Process` stands for the worker.

### SbomIngestion

Each handler has a program counter `pc`; each of its values is one statement of
`processSbomIngestion` that reads or writes PostgreSQL, so that every await is a
point where others may run. Reading or parsing between two of these is one
action, `Fetch`. A transaction is one action. Ingestion, outbox event, job row
and queue job are in one-to-one correspondence and share a name.

- `queue`/`lock`: state of the BullMQ job and the handler whose token locks it.
  Jobs are added without `attempts`, so a handler that throws leaves the job
  `failed` until an operator replays it (`Replay`). A handler without the lock
  cannot settle the job (`Settle`).
- `jobs`: status, attempts, worker identifier and lease. A lease is `none`,
  `live` or `expired`: the code compares it with the clock and nothing else.
- `ingestion`: state and version; `version[h]` is the version a handler loaded.
- `graphs`: how often the graph rows of an ingestion were inserted. The contents
  of a graph are a function of immutable bytes and are left out.
- `code`: the class of a failure (`failures.ts`), which alone decides what is
  written. A document the parser rejects is rejected every time (`Invalid`).
- `Throw` is a database call that fails, before its effect or after it with its
  answer lost; `Crash` kills all handlers of a process; `Stall` is BullMQ handing
  out a job whose lock was not renewed. `MaxFaults` bounds all of them.
- `SlowHandlers` is the assumption knob: only their leases run out while they
  work. `{}` is the deployment whose leases are longer than any run.
- The relay appears as `Publish` and `EnqueueQueued`, which are the steps of
  `OutboxDelivery`; `OutboxRelay` is shown to take only such steps.

### OutboxRelay

Each relay walks through `executeRelayBatch`: claim, then per event dead-letter
or publish, mark, create the row, then the sweep for processed events without a
row. None of the UPDATEs names the claim it settles; `current` and `batch` are
the relay's memory and may be stale. `available_at` is a flag `due`, and
the order among due rows is open (a superset of the code's). A relay that dies and
a database call that throws look alike to everybody else (`Abandon`). A failed
`queue.add` may have reached Redis. `expireLease` has no caller and is left out.

### KevSync

A window of the schedule has one run, one job and one outbox event. Handlers of
`processIntelligenceSync` read and write through `BackgroundJobs`, renewal included;
every transaction is an action, and a fetched catalog, a run or a source row that a
handler keeps across an await is in its context and may be stale.

- `run`: state, version, fetch count, snapshot and parser label; `entries`: staged
  ordinals per window; `source`: the active generation and its version.
- A catalog is a release number and a size; staging inserts `BatchSize` ordinals per
  transaction and a resumed handler continues behind the prefix it finds: the rows are
  read first (`InspectPrefix`), and compared with a later count (`ResumePrefix`).
- The relay appears as the steps of `OutboxDelivery`, the reconciler as a redelivery of
  every run its query names. `Deploy` changes the parser version or the enablement.
- `KevCatalog` has one action: replace the active catalog by a whole, newer one.

### OsvRuntime and OsvLease

The lease is one row: state, run, holder, revision, fencing token and whether it is still
live. An invocation of `runSynchronization` keeps a copy of its run and the proof of its
lease; each database call and each guard (`halt`, abort, ownership) is a step, with the
provider's answer between two of them. `Expire` ends a lease under its owner, `Crash` ends
an invocation without its release. Every database call may fail, having had its effect or
not (`Answered`, `Performed`). What the code makes of it differs: a guard that cannot read
the ownership row takes the lease as lost; a failed transition leads to the release; a
failed `recordTerminal` is noted and the run goes on, to `completed` if nothing else stops
it; a failed acquisition or release returns with the lease perhaps held. `failed` is what
the result of the invocation then reports (`database_unavailable`,
`attempt_terminal_write_failed`, `leaseRelease: not_attempted`). The kinds of listing
failures share one code, so a repeated failure of another kind counts as already applied.

### OsvAcquisition

An invocation works through the items of its listing: retrieve, copy the temporary object
under its hash, finalize the row, delete the temporary object, parse, record the attempt,
revision, membership. Each of these calls may fail or be the last one, before or after its
effect (`MaxFaults`), and a later invocation recovers from what it finds. A body is a model
value that is well-formed or not; `Comparable` are the listings the classifier accepts.
Three failures are not answered to by the code and so change nothing but what is written: an
observation or the run of the inventory (`persistInventory` writes any part of it) and a
quarantine record. An attached body whose size differs from the listing's is quarantined
(`ByteCountMismatch`). Freezing is a compare-and-set on the version read at the start,
activation on the pointer named in the request.

### ReviewedAdvisories

A call is a user's grant, revocation, submission or approval. It takes row locks one at
a time in the order of the statements; a foreign key waits for its row like any lock. A
document belongs to a family, names a vulnerability, and may repeat what another one
says. A deadlock is broken by failing one of its members; a lost acknowledgement is
followed by the reread of the code. `AdvisoryBoard` decides in one step; the refinement
maps the commit of a call to it.

### ControlledFindings

One vulnerability, one component, one asset. Uploads are numbered by the order that ranks
them (`received_at`, `created_at`, id). A call takes, in this order, the asset (advisory
lock and row), the evidence table or the occurrences, and writes. `at` is
`CURRENT_TIMESTAMP`, the start of the transaction, so a call that waited writes a time
that others have passed; the trigger `patchpilot_finding_reject_update` refuses it then
(`Forward`). `Complete` is the graph transaction of an upload, atomic here and
modelled in detail in `SbomIngestion`. `Outcome` is the version comparison, a function of
immutable rows; a version may be known and still not be representable for an evaluation
(`Evaluable`), which skips such an occurrence or, for a single one, rejects it. The reader
is a set of operators over the committed rows: they are malformed, or its answer depends on
the asset's current upload (`Readings`); two
observations of one time are ordered by a uuid, so `Latest` may hold both. An
observation whose links wait for an occurrence that an evaluation has locked, while that
evaluation waits for the evidence table, is a deadlock (`BreakDeadlock`).

## Runs

| Run | Instance | Shows |
|---|---|---|
| `upload` | 3 requests: two with one key and different bodies, a third with the first body under its own key; 3 faults; 240,873 states | an acceptance is durable and truthful, a key accepts one upload, no path forgets the temporary object, the key table is implemented, every persistent client is answered |
| `ingestion_slow` | 2 uploads of one asset, 2 handlers sharing an identifier, both slow, 3 faults | what needs no assumption on leases: graph once, newest pointer, succeeded means completed, the lifecycle is implemented |
| `ingestion_prompt` | 2 uploads (one invalid), 3 handlers in 2 processes, 2 faults, no slow handler; 329,406 states | with leases that outlast runs: claims are exclusive; job, ingestion and audit agree; every upload and job is settled |
| `ingestion_late_failure` | 1 upload, 2 processes, slow handlers, 2 faults | a disagreement with the documentation when a lease is overrun |
| `relay` | 3 events (one of unknown type), 2 relays, batch of 2, 2 attempts, 2 faults; 97,088 states | safety of the relay, the delivery contract; every event is relayed or given up, every accepted one gets its row |
| `kev_sync` | 2 processes, 2 windows, 2 catalogs, 1 fault, 1 attempt, at most 4 claims; 1,213,103 states | readers see whole catalogs that only advance; a late fetch of another release does not replace the snapshot of a run; job and run are settled together |
| `kev_live` | 2 handlers of one process, a catalog of 2 batches, 1 fault, 1 deployment, 2 attempts, at most 7 claims | fetches never outnumber claims, a run in flight is settled unless disabled or orphaned by the new parser version |
| `osv_runtime` | 3 invocations, 2 requests (one scheduled), 1 expiry, 1 halt or resume, 1 fault (abort, crash or failed call); 3,886,269 states | tokens are unique, settled rows stay, a completed run has no open attempt and a returned invocation no lease, unless the write of the attempt, the acquisition or the release failed and is reported |
| `osv_acquisition` | 2 catalogs, 6 items over 2 bodies (one malformed), 2 invocations, 2 requests, 2 starts, 2 faults; 1,816,789 states | rows point to stored bodies, revisions rest on recorded successes, only whole generations are frozen, the catalog lifecycle is implemented |
| `reviewed_advisories` | 3 users, 2 families, 2 vulnerabilities (one foreign), 4 documents, 4 calls in 8 workloads, 1 fault; 63,705 states | answers are true, the board is implemented, every call is answered |
| `advisory_resubmission` | one of these workloads | a disagreement with documentation and test |
| `findings` | 3 uploads (one evaluable occurrence and one that is not; one with a known and one with an unknown version; none), 2 advisories that disagree, 8 demands, 2 concurrent calls, 2 clock readings, 1 fault; 1,423,183 states | answers are true, the reader calls rows malformed or a finding out of date only where it must, the latest observation is of the newest upload observed |

Why the bounds suffice. Two requests with one key are the least that can take over each
other's reservation, and the third meets the evidence of one of them under a key of its own;
three faults allow an overrun, a loss and a failed call in one behaviour. Two handlers of
one job are the least that can overtake each other, a third shows two in one process against
one in another; two uploads are the least with an order. In the relay, a batch smaller than
the number of events lets the limit bite, and as many faults as attempts let an event be
exhausted. Two KEV windows are the least in which an older catalog can arrive after a newer
one; the second catalog also lets a late fetch bring another document. Two batches, in
`kev_live`, are the least that can be interrupted between. The third OSV invocation takes
the lease over from one that took it over. Two faults in the acquisition let a recovery
fail, and a listing with two eligible items lets counts agree or not; two listings without a
common item are the least that two frozen generations need. In `findings`, call slots are
used again, so two of them make any number of calls, two at a time; two clock readings tell
before from after; three uploads let the newest complete before the one in the middle.
Symmetry is used only in runs without liveness, over interchangeable handlers, relays,
invocations, requests, catalogs and calls. No state constraint is used: every bound is a
guard, and TLC exhausts every instance. Conflicts by content type, which the upload instance
leaves out, are covered by the proofs. `TypeOK` of every module is proved and not repeated
in the runs.

### Fairness

`SbomUpload`: requests run, reservations nobody works under expire, clients repeat what
failed (the reason for the header). An overrun reservation is a fault and so happens
finitely often: two clients of different content types that overrun in turn could
otherwise take the key from each other for ever.

`SbomIngestion`: handlers and relay make progress (weak fairness); BullMQ hands out waiting
jobs first in, first out, so a job that keeps becoming available while handlers
keep becoming idle is delivered (strong fairness on `Deliver`); BullMQ's stalled check
runs for jobs without a lock; clocks
advance, so a lease nobody works under runs out; an operator replays failed jobs
(the runbook's instruction: the code itself never retries them). Nothing is assumed of
crashes, failing calls or lost locks.

`OutboxRelay`: poll loops run, leases of abandoned claims run out, backed-off events become
due. Failures are never obliged to happen.

`KevSync`: as `SbomIngestion`, with the reconciler's loop in place of the operator; nothing is
assumed of the scheduler, of deployments or of faults.

`ReviewedAdvisories`: statements return and PostgreSQL breaks deadlocks; nobody has to
call.

## Findings

1. `ingestion_late_failure`: a late `releaseForRetry` reverts the ingestion to
   `queued` under the new holder, whose terminal transition is then refused and
   whose job is failed nevertheless; the ingestion stays queued for good
   (`docs/architecture/reliability-model.md:96,165`).
2. `advisory_resubmission`: the same document sent again by its submitter after its
   approval is answered as malformed persisted state
   (`maintainer-reviewed-advisory-submission-persistence.ts:568`), where
   `docs/adr/0042-*.md:322-324` and `submission.test.ts:554` expect `already_applied`.

More differences were met while modelling and have no run of their own.

Upload path:

- `finalizeTerminal` appends its audit event although the transition was refused
  (`ingest.ts:496`; `docs/architecture/audit-model.md:159`).
- The graph transaction updates the job only where its lease is in the future and
  ignores the number of rows, so `CompletedIsSucceeded`, which
  `docs/architecture/sbom-ingestion.md:273` states without a condition, is checked for
  prompt handlers only; a later delivery repairs the job.
- An outage longer than the attempts allow dead-letters the backlog instead of
  letting it grow (`relay.ts:145`; `sbom-ingestion.md:304`); an event whose attempts are
  used up between publication and mark is dead-lettered with its queue job accepted
  (`sbom-ingestion.md:300`).
- A replayed upload carries the state the ingestion has reached since (`upload.ts:498`),
  not the original body (`sbom-ingestion.md:254`); a key reused for another asset is
  another key, because the scope names the asset, whereas the same line promises a conflict.

KEV:

- A run in flight when the parser version changes is settled by nobody
  (`synchronize.ts:298`; `reliability-model.md:171`); `EventuallySettled` excludes it.
- A shutdown during the last attempt marks the run failed (`reliability-model.md:175`).
- A dead-lettered event leaves its run `requested`; an overtaken handler of the same
  process may fail a run whose new owner is healthy.

OSV runtime:

- An owner whose lease expired can still settle the run and record the attempt of its
  successor: the writes ask for the state only
  (`osv-runtime-coordination-persistence.ts:337`; `docs/adr/0028-*.md:1364`).
- A CHECK constraint rejects `retry_wait` with a code and `failed` with a boundary, so
  these updates never succeed; attempts always have ordinal 1, so a crash after the listing
  attempt leaves the run without a way on; a stopped retrieval leaves its attempt
  running; `osv_disabled` is never produced.

OSV acquisition:

- A second candidate cannot record a parser attempt for a body that an earlier one stored:
  the snapshot identifier is derived from the catalog generation while the row, unique
  per provider generation, keeps the first one's, and the foreign key refuses
  (`orchestrator.ts:624`; `docs/adr/0028-*.md:1082` recommends a new candidate as the
  recovery).
- Recovery by promotion deletes the temporary object and then reads the old locator, so
  only the next invocation succeeds; a rejected row blocks its provider generation for
  every candidate and is reported retryable; parser timeouts are retried without the bound
  of two that `docs/adr/0028-*.md:1073-1076` states; an item that left the listing keeps
  an uncounted membership.

Review and findings:

- Of two submissions that insert the same new vulnerability the loser is answered
  `transaction_aborted`, though a second try would succeed.
- Two approved advisories about one vulnerability: creation links both rows of an
  occurrence, and the reader calls the finding malformed (`latest-observation-selection.ts:737`).
  `CommittedIsReadable` excludes exactly this case.
- `docs/adr/0039-*.md:404-407` says that an observation does not lock occurrence rows
  and so forms no lock cycle with an evaluation; the foreign key of its links
  does (`BreakDeadlock`).
- An exact replay of an observation after the pointer moved is answered
  `ingestion_not_latest`, not as the replay ADR 0039 describes; an observation that began
  before one that committed meanwhile is refused and answered `transaction_aborted`.

## Proofs

Every invariant, action property and refinement that a run checks is also a theorem; only
liveness is left to TLC. The theorems hold for any sets of requests, uploads, handlers,
relays, invocations, users and so on, and for any bounds. They rest on the named assumption
of each module (`UploadAssumption`, `IngestionAssumption`, `RelayAssumption`,
`KevAssumption`, `OsvRuntimeAssumption`, `SetsAssumption` and `BoundsAssumption`,
`AdvisoryAssumption`, `FindingAssumption`), which TLC evaluates on every run. Beyond the types
of the constants they say this: NULL is no row, name or answer; sets that a proof
counts are finite (requests, relays, events, KEV handlers, occurrences, advisories); ranks of
ingestions differ, and a provider listing names no item twice.
Every inductive invariant was checked by TLC on the configurations of the runs first.

`SbomUpload_proof`:

- `TypeCorrect`.
- `AcceptedUploadsAreDurable` and `KeysAcceptOneUpload`, from one inductive invariant
  `KeyInv`: a completed key names existing evidence of its own asset and body
  (`RecordsMatch`); a request that is accepted, or is about to replay, agrees with
  its key's row (`RequestsMatch`); evidence is requested once and its object is there
  (`EvidenceMatches`). The properties alone are not inductive: a replay answers from
  what it read a step earlier, which is safe only because a completed row is final.
  Every step either completes one key (`Completes`) or leaves completed keys and
  evidence alone (`Preserved`); the reservation's lifetime plays no part.
- `Refinement` (`ImplementsKeys`): `Completes` maps to `Bind`, `Preserved` to a stutter.
- `LitterIsAlwaysPaidFor` (`LitterIsPaidFor`), from `LitterInv`: requests whose object is
  there past its promotion, plus those that returned with it, are at most the faults. The
  debt must be counted while the request runs, before the cleanup fails too; each step
  lets one of the two sets grow by one request at most and then counts a fault (`Pays`).

`SbomIngestion_proof`:

- `TypeCorrect`.
- `GraphAndPointerCorrect` and `GraphsInsertedOnce` (`PointerIsNewestCompleted`,
  `GraphInsertedOnce`). The
  two together are inductive over `TypeOK`: only `Persist` completes an ingestion, it does so
  from `processing` under the row lock, and it inserts the graph, writes the
  audit event and ranks the pointer in the same step. `FinalizeTerminal` cannot
  produce the kind `completed`. No assumption on leases is used.
- `SettledStaysSettled` (`SettledIsFinal`): no source of any command is terminal, and
  each accepted command increments the version.
- `SucceededJobsAreCompleted`: needs the strengthening that a handler about to
  succeed a job has seen the ingestion completed, which stays true because
  completed is final, so that even a handler that lost its lease tells the truth.
- `Refinement` (`ImplementsLifecycle`): each action maps to one lifecycle step or a
  stutter, under the invariant of `GraphAndPointerCorrect`.

`OutboxRelay_proof`:

- `TypeCorrect`, `SettledStaysSettled`.
- `ProcessedMeansAccepted`: strengthened by what a relay's memory implies: an
  event about to be marked is accepted, one about to get its row, or found by the
  sweep, is processed. Other relays cannot invalidate this, since accepted
  and processed are never undone.
- `Refinement` (`ImplementsDelivery`), from the same invariant.
- `GivenUpOnlyAfterMaxAttempts`: the counting argument. A failed publication pays
  for an attempt when it happens, but the row leaves `claimed` only at
  `MarkRetryable`, and another relay may have claimed it in between. The invariant
  says that attempts, plus the number of relays about to return the event to
  pending, is at most the faults, plus one only while a live claim is being
  worked on; and that a batch never holds an attempt number above faults plus one.

`SbomIngestion_proof`, last section, under `SlowHandlers = {}` (no handler outlives its
lease; the slow runs show why that is needed):

- `PromptClaimsAreExclusive`, `PromptCompletionsSucceed`, `PromptFailuresAreSettled`,
  `PromptAuditsMatch`, from `PromptInv`. The holder of a live job row is alone
  (`ClaimIsExclusive`) and it owns that row (`OwnsJob`), so the ingestion is still as the
  holder last saw it (`KnowsRow`): every conditional update succeeds, and the paths that
  repair a lost one (reload, align, release) are not taken. `RowsAgree` relates job, ingestion
  and audit events between handlers.

`KevSync_proof`, from `KevInv`:

- `ActiveCatalogIsWhole`, `JobFollowsRun`, `SnapshotIsWrittenOnce`, `Refinement`. A handler
  decides on a copy of its run that may be old. `Behind` says how old: the row may have moved
  on, but it has the copy's snapshot if the copy has one. `ContextOK` says what the copy is at
  each statement. Staged entries belong to the snapshot of their run (`StagedFor`), one run is
  in flight (`OneInFlight`), and a run in flight whose generation exists is not older than the
  active one (`NotOlder`): the regression check is made at parse time and used at activation,
  which is sound only because nobody else can activate in between.
- `FetchesWithinClaims` counts: fetches made, plus handlers that claimed and have not
  fetched yet, are at most the claims (`ClaimsCovered`). The property alone is not inductive,
  since `fetchFromClaim` does not ask who owns the job.

`OsvRuntime_proof`, from `RuntimeInv`:

- `FencingTokensAreUnique`: the token of the row bounds every proof (`Fenced`), so a grant,
  which increments it, differs from all before.
- `CompletedRunsAreAccounted`, `SettledStaysSettled`: an attempt only moves forward
  (`Forwards`), so what an invocation knows of its attempts at each step (`Progress`)
  outlives its lease: each is settled, or running with the failed write noted
  (`Accounted`); a note is never taken back, and the run is completed only by an invocation
  that knows this of both.
- `ReturningFreesTheLease`: an invocation on its way to `done` has released the lease, has
  no proof of it, or is excused (`Excused`): it took the lease as lost, or noted the call
  that failed. A grant that was made without an answer is the case of a holder without
  a proof.

`OsvAcquisition_proof`, from `AcquisitionInv` (`TypeOK`, `StoreOK` about the tables,
`MemoryOK` about each invocation) and `PublishedIsFrozen`:

- `AttachedBodiesAreStored`, `AttemptsEndWithSuccess`, `RevisionsAreBacked`: `AtItem` says what
  the tables hold for an invocation at each step of an item. Because the tables only grow
  (`Grows`), it survives the steps of other invocations; an attempt number read earlier is
  accepted only if it is still the next (`Numbered`).
- `FrozenGenerationsAreWhole`: reconciliation compares counts. The items of a level that an
  invocation counts are subsets of the eligible items listed (`LevelsOK`), so equal
  cardinalities make them equal; a listing that names an item twice would break this.
  Inventory and quarantine rows play no part, so their ignored failures do no harm here.
- `Refinement` (`OsvCatalog`): each write to a generation is one lifecycle step; activation
  publishes only a frozen generation.

`ReviewedAdvisories_proof`, from `BoardInv`:

- `AnswersStayTrue`, `SeparationOfDuties`, `OneActiveGrant` by two-phase locking. A call at a
  statement holds the rows locked before it (`HoldsLocks`); what it read of them is still so
  (`ReliesOn`), because no step of another call touches a row that is held (`Tame`); what a
  call was told is a fact that no later step undoes (`Told`).
- `Refinement` (`AdvisoryBoard`): the statement that writes is the moment of the decision,
  all others are stutters.

`ControlledFindings_proof`, from `FindingInv`:

- `CommittedRowsAreReadable`: well-formedness is kept by every write; the pointer is never
  behind an observation's upload and observations of later uploads are not earlier, so once
  the current upload is observed, its observation is among the latest.
- `AnswersStayTrue`, `CommittedRowsStay`: the call past the asset's
  lock reads the same pointer, finding and observations until it ends (`Inside`, `CallOK`),
  and committed rows are only added to (`Kept`).
- `LatestObservationIsNewest`: times are taken before the lock is waited for. `Store` says
  that observations ordered by time are ordered by upload, which holds because an
  observation earlier than the last one is refused under the lock, and the pointer,
  read under the lock as well, never goes back.

Only model-checked, since it is outside the prover's reach: liveness (`EventuallyAnswered` of
`SbomUpload` and of `ReviewedAdvisories`, `EventuallySettled` of `SbomIngestion` and of
`KevSync`, `EventuallyRelayed`, `AcceptedGetsRow`). Proved and not repeated in the runs:
`SettledIsFinal` of `SbomIngestion` and `SettledEventIsFinal` of `OutboxRelay`, which the
refinements imply; `DutiesAreSeparated`, `OneGrant` and `CommittedStays`, which are stated with
their proofs.

## Not modelled

- The parser, configuration, feeds, object contents and version comparison appear as
  outcome classes and constants.
- Requests refused before they write anything (permission, validation, a missing or
  archived asset) change nothing and are left out; whether an asset is archived while
  its upload is in flight is not asked.
- Contents of graphs, catalogs and advisories, audit payloads, messages and log lines;
  audit rows where they are written in the transaction of what they report.
- KEV: the calendar behind windows. OSV runtime: the heartbeat, which only the canary
  controls call. Acquisition: presence rows of parser failures and prefix passes.
  Advisories: absent users, expiry of a capability within its transaction,
  `rereadConcurrentGrant`, which the user's lock makes unreachable. Findings: memberships,
  `reloadAfterConflict`, which the asset's lock makes unreachable, the cap of sixteen
  occurrences, withdrawn and superseded revisions.
  Upload: refusals of the storage that repeat for the same body (`size_limit`,
  `invalid_content`); a failed put is a fault, and `EventuallyAnswered` is about bodies the
  storage accepts.
- Listings, discovery, the remediation queue and inspection queries are read-only. Risk
  calculation is a pure evaluation with an append-only history. API, web application,
  contracts, logging and the adapters are I/O, presentation and schemas; sessions and
  assets are single rows with an optimistic version.

## Plan

Order so far: the processor first, as the part with most shared state, the relay it
depends on, the upload in front of both; then KEV, OSV, advisories, findings; then the
proofs of all of them. Next:

1. Across components: that `SbomUpload`'s `requested` and `OutboxDelivery` give
   `SbomIngestion` the initial rows and deliveries it assumes, in one composed module.
2. More about the operators: the regression check of KEV as an order on catalogs, the
   reader's selection among observations.
3. OSV canary authorizations used once.
4. Pure algorithms against reference definitions: policy ordering, keyset pagination.

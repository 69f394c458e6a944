--------------------------- MODULE BackgroundJobs ---------------------------
(***************************************************************************)
(* The rows of the background_job table and the conditional UPDATEs of     *)
(* PrismaBackgroundJobExecution.  Every operation is one SQL statement     *)
(* whose WHERE clause decides whether the row changes; it is modelled by a *)
(* predicate (does the WHERE clause match?) and by the row it leaves.      *)
(*                                                                         *)
(* Time enters only through lease comparisons, so a lease is "none", still *)
(* "live", or "expired".  The attempt counter is written by claimExecution *)
(* and read by the KEV processor only, whose module keeps it; the failure  *)
(* columns are left out.                                                   *)
(***************************************************************************)

CONSTANTS
    Workers,    \* worker identifiers, host:pid
    NoWorker    \* worker_identifier IS NULL

ASSUME NoWorkerAssumption == NoWorker \notin Workers

\* dead_lettered and cancelled exist in the enum and no code path writes them.
JobStatuses == {"absent", "queued", "running", "succeeded", "failed"}

Leases == {"none", "live", "expired"}

JobRows == [status : JobStatuses, worker : Workers \cup {NoWorker}, lease : Leases]

\* No row for the outbox event yet.
AbsentJob == [status |-> "absent", worker |-> NoWorker, lease |-> "none"]

\* INSERT ... status 'queued'; the unique outbox_event_id turns a second
\* insert into a read of the existing row.
enqueueQueued(row) ==
    IF row.status = "absent" THEN [row EXCEPT !.status = "queued"] ELSE row

\* Mutant: a running job can be claimed whether or not its lease ran out.
Claimable_ignoresLease(row) == row.status \in {"queued", "running"}

\* Mutant: the claim never takes over an expired lease.
Claimable_neverReclaims(row) == row.status = "queued"

\* The WHERE clause of the claim: queued, or running past its lease.
Claimable(row) ==
    \/ row.status = "queued"
    \/ row.status = "running" /\ row.lease = "expired"

claimExecution(row, worker) ==
    IF Claimable(row)
      THEN [status |-> "running", worker |-> worker, lease |-> "live"]
      ELSE row

\* The WHERE clause shared by the three ways to give a claim back.  It names
\* the worker identifier and the status, neither the attempt nor the lease.
OwnedBy(row, worker) == row.status = "running" /\ row.worker = worker

\* The heartbeat: the new lease is written whether or not the old one ran out.
renewLease(row, worker) ==
    IF OwnedBy(row, worker) THEN [row EXCEPT !.lease = "live"] ELSE row

markRetry(row, worker) ==
    IF OwnedBy(row, worker)
      THEN [status |-> "queued", worker |-> NoWorker, lease |-> "none"]
      ELSE row

markSucceeded(row, worker) ==
    IF OwnedBy(row, worker)
      THEN [row EXCEPT !.status = "succeeded", !.lease = "none"]
      ELSE row

markTerminalFailure(row, worker) ==
    IF OwnedBy(row, worker)
      THEN [row EXCEPT !.status = "failed", !.lease = "none"]
      ELSE row

\* Mutant: the graph transaction compares the lease the wrong way round.
succeedOwnedJob_swapped(row, worker) ==
    IF OwnedBy(row, worker) /\ row.lease = "expired"
      THEN [row EXCEPT !.status = "succeeded", !.lease = "none"]
      ELSE row

\* The update inside the graph transaction asks for an unexpired lease as well.
succeedOwnedJob(row, worker) ==
    IF OwnedBy(row, worker) /\ row.lease = "live"
      THEN [row EXCEPT !.status = "succeeded", !.lease = "none"]
      ELSE row

\* The clock passes lease_expires_at.
expire(row) == IF row.lease = "live" THEN [row EXCEPT !.lease = "expired"] ELSE row

=============================================================================

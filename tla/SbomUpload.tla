----------------------------- MODULE SbomUpload -----------------------------
(***************************************************************************)
(* The SBOM upload use case: a request reserves its idempotency key, puts  *)
(* the body under a temporary object key, promotes it to the content-      *)
(* addressed key, and in one transaction inserts the SBOM, its ingestion   *)
(* and the outbox event and completes the key.  Requests run concurrently  *)
(* in any number of API processes; a client repeats a request that failed. *)
(* A reservation has a fixed lifetime and is taken over when it is past,   *)
(* also from a request that is still streaming its body.                   *)
(*                                                                         *)
(* A digest identifies a body, so an sbom row is the pair of its asset and *)
(* its body.  Requests without permission, with another content type or    *)
(* for an archived asset are turned away before they touch any state and   *)
(* are left out.                                                           *)
(***************************************************************************)
EXTENDS Naturals, FiniteSets

CONSTANTS
    Keys,           \* hashed Idempotency-Key headers
    Assets,         \* active assets of the organization
    Types,          \* approved content types
    Bodies,         \* documents
    None,           \* NULL
    Requests,       \* requests, each repeated until it is answered for good
    Input,          \* the key, asset, content type and body of a request
    MaxFaults       \* bound on failed calls, lost requests, overrun reservations

ASSUME UploadAssumption ==
    /\ IsFiniteSet(Requests)
    /\ None \notin Bodies
    /\ None \notin Assets \X Bodies
    /\ None \notin [type : Types, body : Bodies]
    /\ Input \in [Requests -> [key : Keys, asset : Assets, type : Types, body : Bodies]]
    /\ MaxFaults \in Nat

VARIABLES
    records,    \* idempotency_record rows
    sboms,      \* sbom rows
    requested,  \* sbom_ingestion rows with their outbox events, per sbom
    processed,  \* sboms whose ingestion the worker has moved on
    temporary,  \* requests whose temporary object exists
    objects,    \* sboms whose content-addressed object exists
    pc,         \* the next statement of a request
    answer,     \* what a request answers
    faults      \* adverse events so far

storage == <<temporary, objects>>
database == <<records, sboms, requested, processed>>
vars == <<records, sboms, requested, processed, temporary, objects,
          pc, answer, faults>>

-----------------------------------------------------------------------------
\* The unique key of idempotency_record: the scope names the asset.
Slots == Keys \X Assets
Slot(r) == <<Input[r].key, Input[r].asset>>

\* The unique key of sbom: asset and digest.
Evidence == Assets \X Bodies
EvidenceOf(r) == <<Input[r].asset, Input[r].body>>

\* The asset is part of the slot; the reservation does not know the body yet.
Fingerprints == [type : Types, body : Bodies \cup {None}]
reservationFingerprint(r) == [type |-> Input[r].type, body |-> None]
finalFingerprint(r) == [type |-> Input[r].type, body |-> Input[r].body]

\* The status conflict is in the enum and no code path writes it.
Records == [status : {"absent", "started", "completed"},
            fingerprint : Fingerprints \cup {None},
            expired : BOOLEAN, response : Evidence \cup {None}]
AbsentRecord == [status |-> "absent", fingerprint |-> None,
                 expired |-> FALSE, response |-> None]

Failures == {"in_progress", "storage_failed", "possible_orphan",
             "missing_ingestion", "internal", "lost"}
Answers == [kind : {"none", "accepted", "conflict"} \cup Failures,
            sbom : Evidence \cup {None}, state : {"accepted", "later", None}]
NoAnswer == [kind |-> "none", sbom |-> None, state |-> None]

\* Statements a request executes under its reservation.
StoringSteps == {"put", "promote", "find", "insert", "raced", "duplicate"}
Steps == {"reserve", "inspect", "reclaim", "replay", "reconstruct", "cleanup", "done"}
         \cup StoringSteps

TypeOK ==
    /\ records \in [Slots -> Records]
    /\ sboms \subseteq Evidence
    /\ requested \in [Evidence -> Nat]
    /\ processed \subseteq sboms
    /\ temporary \subseteq Requests
    /\ objects \subseteq Evidence
    /\ pc \in [Requests -> Steps]
    /\ answer \in [Requests -> Answers]
    /\ \A r \in Requests : pc[r] \in {"cleanup", "done"} <=> answer[r].kind # "none"
    /\ faults \in 0..MaxFaults

Init ==
    /\ records = [s \in Slots |-> AbsentRecord]
    /\ sboms = {}
    /\ requested = [ev \in Evidence |-> 0]
    /\ processed = {}
    /\ temporary = {}
    /\ objects = {}
    /\ pc = [r \in Requests |-> "reserve"]
    /\ answer = [r \in Requests |-> NoAnswer]
    /\ faults = 0

-----------------------------------------------------------------------------
(* PrismaSbomUploadIdempotency.                                            *)

\* A reservation by fingerprint f, new or taken over.
StartedRecord(f) == [status |-> "started", fingerprint |-> f,
                     expired |-> FALSE, response |-> None]

\* What reserveStarted makes of the row it could not insert.
ReservationDecision(row, f) ==
    CASE row.status = "completed" -> "replay"
      [] row.status = "started" /\ row.expired -> "reclaim"
      [] row.status = "started" /\ ~row.expired /\ row.fingerprint = f -> "in_progress"
      [] OTHER -> "conflict"

\* Mutant: an expired reservation is never given away.
Reclaimable_never(row) == FALSE

Reclaimable(row) == row.status = "started" /\ row.expired

\* Mutant: a completed key may be completed again.
Finalizable_anyStatus(row, f) == row.status # "absent"

\* The WHERE clause of finalizeCompleted: the fingerprint stands for the
\* reservation, so it does not tell apart two requests of one content type.
Finalizable(row, f) == row.status = "started" /\ row.fingerprint = f

finalizeCompleted(row, f, final, ev) ==
    IF Finalizable(row, f)
      THEN [status |-> "completed", fingerprint |-> final,
            expired |-> row.expired, response |-> ev]
      ELSE row

\* Mutant: a replay is answered without comparing fingerprints.
ReplayMatches_always(row, f) == TRUE

ReplayMatches(row, f) == row.fingerprint = f

-----------------------------------------------------------------------------
(* A request.                                                              *)

Goto(r, step) == pc' = [pc EXCEPT ![r] = step]

Reply(kind) == [kind |-> kind, sbom |-> None, state |-> None]
State(ev) == IF ev \in processed THEN "later" ELSE "accepted"
Accepted(ev) == [kind |-> "accepted", sbom |-> ev, state |-> State(ev)]

\* The use case returns: at step "done" before it has stored anything, at step
\* "cleanup" with a temporary object still to be deleted.
Return(r, step, reply) ==
    /\ Goto(r, step)
    /\ answer' = [answer EXCEPT ![r] = reply]

\* reserveStarted inserts the row or finds one there.
Reserve(r) ==
    /\ pc[r] = "reserve"
    /\ IF records[Slot(r)].status = "absent"
         THEN /\ records' = [records EXCEPT
                               ![Slot(r)] = StartedRecord(reservationFingerprint(r))]
              /\ Goto(r, "put")
         ELSE /\ Goto(r, "inspect")
              /\ UNCHANGED records
    /\ UNCHANGED <<sboms, requested, processed, storage, answer, faults>>

\* reserveStarted reads the row that was there.
Inspect(r) ==
    /\ pc[r] = "inspect"
    /\ LET next == ReservationDecision(records[Slot(r)], reservationFingerprint(r)) IN
       IF next \in {"replay", "reclaim"}
         THEN Goto(r, next) /\ UNCHANGED answer
         ELSE Return(r, "done", Reply(next))
    /\ UNCHANGED <<database, storage, faults>>

\* reclaimExpiredStarted; somebody else may have been first.
Reclaim(r) ==
    /\ pc[r] = "reclaim"
    /\ IF Reclaimable(records[Slot(r)])
         THEN /\ records' = [records EXCEPT
                               ![Slot(r)] = StartedRecord(reservationFingerprint(r))]
              /\ Goto(r, "put")
              /\ UNCHANGED answer
         ELSE /\ Return(r, "done", Reply("in_progress"))
              /\ UNCHANGED records
    /\ UNCHANGED <<sboms, requested, processed, storage, faults>>

\* Mutant: a storage failure is returned at once.
AfterStorageFailure_returns == "done"

\* A failed call to the object storage is followed by the deletion.
AfterStorageFailure == "cleanup"

\* putTemporaryObject; a failed call may leave the object behind.  A body that the
\* storage refuses for its size or content takes the same way out, every time:
\* the bodies of the model are ones it accepts.
Put(r) ==
    /\ pc[r] = "put"
    /\ \/ /\ temporary' = temporary \cup {r}
          /\ Goto(r, "promote")
          /\ UNCHANGED <<answer, faults>>
       \/ /\ faults < MaxFaults
          /\ faults' = faults + 1
          /\ temporary' \in {temporary, temporary \cup {r}}
          /\ Return(r, AfterStorageFailure, Reply("storage_failed"))
    /\ UNCHANGED <<database, objects>>

\* Mutant: the result of the promotion is not looked at.
Promoted_ignored(ok) == TRUE

Promoted(ok) == ok

\* promoteTemporaryObject copies the object unless it exists, verifies it and
\* tries to delete the temporary one.  A failed call may have copied it.
Promote(r) ==
    /\ pc[r] = "promote"
    /\ \E ok \in BOOLEAN, copied \in BOOLEAN, deleted \in BOOLEAN :
         /\ ok => copied
         /\ deleted => ok
         /\ IF ok /\ deleted
              THEN UNCHANGED faults
              ELSE faults < MaxFaults /\ faults' = faults + 1
         /\ objects' = IF copied THEN objects \cup {EvidenceOf(r)} ELSE objects
         /\ temporary' = IF deleted THEN temporary \ {r} ELSE temporary
         /\ IF Promoted(ok)
              THEN Goto(r, "find") /\ UNCHANGED answer
              ELSE Return(r, AfterStorageFailure, Reply("storage_failed"))
    /\ UNCHANGED database

\* findByAssetAndHash.
Find(r) ==
    /\ pc[r] = "find"
    /\ Goto(r, IF EvidenceOf(r) \in sboms THEN "duplicate" ELSE "insert")
    /\ UNCHANGED <<database, storage, answer, faults>>

\* Mutant: the evidence is stored although the key could not be completed.
Commits_always(row, f) == TRUE

\* The transaction commits only if it completes the key.
Commits(row, f) == Finalizable(row, f)

\* Mutant: no unique index on asset and digest.
EvidenceConflict_never(ev) == FALSE

EvidenceConflict(ev) == ev \in sboms

\* finalizeNewEvidence: SBOM, ingestion, audit event, key and outbox event in one
\* transaction, or the unique index refuses the SBOM.
FinalizeNewEvidence(r) ==
    /\ pc[r] = "insert"
    /\ LET s == Slot(r)
           ev == EvidenceOf(r)
           f == reservationFingerprint(r) IN
       \/ /\ EvidenceConflict(ev)
          /\ Goto(r, "raced")
          /\ UNCHANGED <<records, sboms, requested, answer>>
       \/ /\ ~EvidenceConflict(ev)
          /\ Commits(records[s], f)
          /\ sboms' = sboms \cup {ev}
          /\ requested' = [requested EXCEPT ![ev] = @ + 1]
          /\ records' = [records EXCEPT
                           ![s] = finalizeCompleted(@, f, finalFingerprint(r), ev)]
          /\ Return(r, "cleanup", Accepted(ev))
       \/ /\ ~EvidenceConflict(ev)
          /\ ~Commits(records[s], f)
          /\ Return(r, "cleanup", Reply("possible_orphan"))
          /\ UNCHANGED <<records, sboms, requested>>
    /\ UNCHANGED <<processed, storage, faults>>

\* Another request inserted the evidence since Find: load it.
Raced(r) ==
    /\ pc[r] = "raced"
    /\ IF EvidenceOf(r) \in sboms
         THEN Goto(r, "duplicate") /\ UNCHANGED answer
         ELSE Return(r, "cleanup", Reply("internal"))
    /\ UNCHANGED <<database, storage, faults>>

\* finalizeDuplicate: complete the key with the evidence that exists; no event.
FinalizeDuplicate(r) ==
    /\ pc[r] = "duplicate"
    /\ LET s == Slot(r)
           ev == EvidenceOf(r)
           f == reservationFingerprint(r) IN
       IF requested[ev] > 0 /\ Finalizable(records[s], f)
         THEN /\ records' = [records EXCEPT
                               ![s] = finalizeCompleted(@, f, finalFingerprint(r), ev)]
              /\ Return(r, "cleanup", Accepted(ev))
         ELSE /\ Return(r, "cleanup", Reply(IF requested[ev] > 0 THEN "possible_orphan"
                                                                 ELSE "missing_ingestion"))
              /\ UNCHANGED records
    /\ UNCHANGED <<sboms, requested, processed, storage, faults>>

\* A transaction fails for reasons of its own and is rolled back.
TransactionFails(r) ==
    /\ pc[r] \in {"insert", "duplicate"}
    /\ faults < MaxFaults
    /\ faults' = faults + 1
    /\ Return(r, "cleanup", Reply("possible_orphan"))
    /\ UNCHANGED <<database, storage>>

\* bestEffortDeleteTemporary, then the answer.
Cleanup(r) ==
    /\ pc[r] = "cleanup"
    /\ \/ /\ temporary' = temporary \ {r}
          /\ UNCHANGED faults
       \/ /\ faults < MaxFaults
          /\ faults' = faults + 1
          /\ UNCHANGED temporary
    /\ Goto(r, "done")
    /\ UNCHANGED <<database, objects, answer>>

\* replayCompletedUpload: fingerprint the body, which may break off, and compare.
Replay(r) ==
    /\ pc[r] = "replay"
    /\ LET row == records[Slot(r)] IN
       \/ /\ ReplayMatches(row, finalFingerprint(r))
          /\ Goto(r, "reconstruct")
          /\ answer' = [answer EXCEPT ![r].sbom = row.response]
          /\ UNCHANGED faults
       \/ /\ ~ReplayMatches(row, finalFingerprint(r))
          /\ Return(r, "done", Reply("conflict"))
          /\ UNCHANGED faults
       \/ /\ faults < MaxFaults
          /\ faults' = faults + 1
          /\ Return(r, "done", Reply("storage_failed"))
    /\ UNCHANGED <<database, storage>>

\* reconstructAccepted reads the rows the key names, as they are now.
Reconstruct(r) ==
    /\ pc[r] = "reconstruct"
    /\ LET ev == answer[r].sbom IN
       Return(r, "done", IF ev \in sboms THEN Accepted(ev) ELSE Reply("internal"))
    /\ UNCHANGED <<database, storage, faults>>

-----------------------------------------------------------------------------
(* Failures, time, the client and the worker.                              *)

\* The API process dies or a query outside the transactions throws: nothing
\* is cleaned up and the client is left without a result.
Lose(r) ==
    /\ pc[r] # "done"
    /\ faults < MaxFaults
    /\ faults' = faults + 1
    /\ Return(r, "done", Reply("lost"))
    /\ UNCHANGED <<database, storage>>

\* The clock passes expires_at, after the request is gone or, a fault, while
\* one still works under the reservation.
Expires(s) ==
    /\ records[s].status = "started" /\ ~records[s].expired
    /\ LET busy == \E r \in Requests : Slot(r) = s /\ pc[r] \in StoringSteps IN
       \/ ~busy /\ UNCHANGED faults
       \/ busy /\ faults < MaxFaults /\ faults' = faults + 1
    /\ records' = [records EXCEPT ![s].expired = TRUE]
    /\ UNCHANGED <<sboms, requested, processed, storage, pc, answer>>

\* The client repeats a request that failed, with the same key.  Every try has
\* a temporary object key of its own: what an earlier one left stays for good.
Resend(r) ==
    /\ pc[r] = "done" /\ answer[r].kind \in Failures
    /\ Goto(r, "reserve")
    /\ answer' = [answer EXCEPT ![r] = NoAnswer]
    /\ temporary' = temporary \ {r}
    /\ UNCHANGED <<database, objects, faults>>

\* The worker moves the ingestion on.
Process(ev) ==
    /\ ev \in sboms \ processed
    /\ processed' = processed \cup {ev}
    /\ UNCHANGED <<records, sboms, requested, storage, pc, answer, faults>>

-----------------------------------------------------------------------------
Run(r) ==
    \/ Reserve(r) \/ Inspect(r) \/ Reclaim(r) \/ Put(r) \/ Promote(r) \/ Find(r)
    \/ FinalizeNewEvidence(r) \/ Raced(r) \/ FinalizeDuplicate(r) \/ Cleanup(r)
    \/ Replay(r) \/ Reconstruct(r)

\* Every request is answered for good.
Quiet ==
    /\ \A r \in Requests : pc[r] = "done" /\ answer[r].kind \notin Failures
    /\ UNCHANGED vars

Next ==
    \/ \E r \in Requests : Run(r) \/ TransactionFails(r) \/ Lose(r) \/ Resend(r)
    \/ \E s \in Slots : Expires(s)
    \/ \E ev \in Evidence : Process(ev)
    \/ Quiet

Spec == Init /\ [][Next]_vars

\* Requests run, clocks advance and clients repeat what failed.
Fairness ==
    /\ \A r \in Requests : WF_vars(Run(r)) /\ WF_vars(Resend(r))
    /\ \A s \in Slots : WF_vars(Expires(s) /\ UNCHANGED faults)

FairSpec == Spec /\ Fairness

-----------------------------------------------------------------------------
IsAccepted(r) == answer[r].kind = "accepted"

\* Who is told accepted sent the bytes the answer names, and they are stored,
\* recorded and handed to the worker exactly once, however often the request was
\* repeated, raced or lost its reservation.
AcceptedIsDurable ==
    /\ \A r \in Requests : IsAccepted(r) =>
         /\ answer[r].sbom = EvidenceOf(r)
         /\ EvidenceOf(r) \in sboms
    /\ \A ev \in Evidence : requested[ev] = IF ev \in sboms THEN 1 ELSE 0
    /\ sboms \subseteq objects

\* One key never accepts two uploads for an asset: requests that differ in body
\* or content type are not both accepted, even when one takes over the
\* reservation of the other and both go on.
KeyAcceptsOneUpload ==
    \A r, q \in Requests :
      IsAccepted(r) /\ IsAccepted(q) /\ Slot(r) = Slot(q)
        => finalFingerprint(r) = finalFingerprint(q)

Keyed == INSTANCE UploadKeys WITH
    KeySlots <- Slots,
    Fingerprints <- [type : Types, body : Bodies],
    bound <- [s \in Slots |-> IF records[s].status = "completed"
                                THEN records[s].fingerprint ELSE None],
    stored <- sboms

\* Reservations, takeovers and lost requests are invisible to who only sees
\* finished uploads: a key is bound once and evidence appears with a key.
ImplementsKeys == Keyed!USpec

\* A temporary object outlives its request only if the request was lost or two
\* calls failed: every way out of the use case deletes it once more.
LitterIsPaidFor ==
    LET left == {r \in temporary : pc[r] = "done"}
        lost == {r \in left : answer[r].kind = "lost"}
    IN  Cardinality(lost) + 2 * Cardinality(left \ lost) <= faults

\* Every request whose client keeps trying to upload a body the storage accepts is
\* eventually accepted or told that its key belongs to another upload: no dead
\* reservation blocks a key for good.
EventuallyAnswered ==
    \A r \in Requests :
      <>[](pc[r] = "done" /\ answer[r].kind \in {"accepted", "conflict"})

=============================================================================

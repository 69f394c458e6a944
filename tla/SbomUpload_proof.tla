-------------------------- MODULE SbomUpload_proof --------------------------
(***************************************************************************)
(* Proofs about SbomUpload, for any requests, keys, assets and bodies and  *)
(* any number of faults: no lifetime of a reservation is assumed.          *)
(***************************************************************************)
EXTENDS SbomUpload, FiniteSetTheorems, TLAPS

-----------------------------------------------------------------------------
(* Types of the operators.                                                 *)

\* A request names a slot, evidence and two fingerprints of the right kind.
LEMMA InputTypes ==
    ASSUME NEW r \in Requests
    PROVE  /\ Slot(r) \in Slots
           /\ Slot(r)[2] = Input[r].asset
           /\ EvidenceOf(r) \in Evidence
           /\ reservationFingerprint(r) \in Fingerprints
           /\ finalFingerprint(r) \in [type : Types, body : Bodies]
           /\ finalFingerprint(r).body = Input[r].body
BY UploadAssumption
   DEF Slot, Slots, EvidenceOf, Evidence, reservationFingerprint, finalFingerprint,
       Fingerprints

\* A reservation is a row.
LEMMA StartedTypes ==
    ASSUME NEW f \in Fingerprints
    PROVE  StartedRecord(f) \in Records
BY DEF StartedRecord, Records

\* So is what the completion of a key makes of one.
LEMMA CompletedTypes ==
    ASSUME NEW row \in Records, NEW f,
           NEW final \in [type : Types, body : Bodies], NEW ev \in Evidence
    PROVE  finalizeCompleted(row, f, final, ev) \in Records
<1>1. final \in Fingerprints
      BY DEF Fingerprints
<1> QED BY <1>1 DEF finalizeCompleted, Records

\* Replies are answers.
LEMMA AnswerTypes ==
    /\ \A kind \in {"conflict"} \cup Failures : Reply(kind) \in Answers
    /\ \A kind \in {"conflict"} \cup Failures : Reply(kind).kind = kind
    /\ \A ev \in Evidence : Accepted(ev) \in Answers
    /\ NoAnswer \in Answers
BY DEF Reply, Accepted, State, NoAnswer, Answers, Failures

\* What a row that exists means for a second request is an outcome or a step.
LEMMA DecisionTypes ==
    ASSUME NEW row, NEW f
    PROVE  ReservationDecision(row, f) \in {"replay", "reclaim", "in_progress", "conflict"}
BY DEF ReservationDecision

-----------------------------------------------------------------------------
(* Type correctness.                                                       *)

\* The part of TypeOK about a request's own progress.
ControlOK ==
    /\ pc \in [Requests -> Steps]
    /\ answer \in [Requests -> Answers]
    /\ \A r \in Requests : pc[r] \in {"cleanup", "done"} <=> answer[r].kind # "none"

\* The rest of TypeOK: rows and objects.
StoreOK ==
    /\ records \in [Slots -> Records]
    /\ sboms \subseteq Evidence
    /\ requested \in [Evidence -> Nat]
    /\ processed \subseteq sboms
    /\ temporary \subseteq Requests
    /\ objects \subseteq Evidence
    /\ faults \in 0..MaxFaults

\* The two parts are the whole.
LEMMA TypeParts == (TypeOK <=> ControlOK /\ StoreOK) /\ (TypeOK' <=> ControlOK' /\ StoreOK')
BY DEF TypeOK, ControlOK, StoreOK

\* Going on to a statement before the return.
LEMMA GotoOK ==
    ASSUME ControlOK, NEW r \in Requests, NEW step \in Steps \ {"cleanup", "done"},
           pc[r] \notin {"cleanup", "done"}, Goto(r, step), UNCHANGED answer
    PROVE  ControlOK'
BY DEF ControlOK, Goto

\* Returning with an answer.
LEMMA ReturnOK ==
    ASSUME ControlOK, NEW r \in Requests, NEW step \in {"cleanup", "done"},
           NEW a \in Answers, a.kind # "none", Return(r, step, a)
    PROVE  ControlOK'
BY DEF ControlOK, Return, Goto, Steps

\* Returning without evidence.
LEMMA ReplyOK ==
    ASSUME ControlOK, NEW r \in Requests, NEW step \in {"cleanup", "done"},
           NEW kind \in {"conflict"} \cup Failures, Return(r, step, Reply(kind))
    PROVE  ControlOK'
<1>1. kind # "none"
      BY DEF Failures
<1>2. Reply(kind) \in Answers /\ Reply(kind).kind = kind
      BY AnswerTypes
<1> QED BY <1>1, <1>2, ReturnOK

\* Returning with evidence.
LEMMA AcceptOK ==
    ASSUME ControlOK, NEW r \in Requests, NEW step \in {"cleanup", "done"},
           NEW ev \in Evidence, Return(r, step, Accepted(ev))
    PROVE  ControlOK'
<1>1. Accepted(ev) \in Answers
      BY AnswerTypes
<1>2. Accepted(ev).kind # "none"
      BY DEF Accepted
<1> QED BY <1>1, <1>2, ReturnOK

\* The kinds of replies the use case returns.
LEMMA ReplyKinds ==
    {"conflict", "in_progress", "storage_failed", "possible_orphan",
     "missing_ingestion", "internal", "lost"} \subseteq {"conflict"} \cup Failures
BY DEF Failures

\* A request's own statements lead to steps and answers.
LEMMA ControlRun ==
    ASSUME TypeOK, NEW r \in Requests, Run(r)
    PROVE  ControlOK'
<1> USE TypeParts, GotoOK, ReplyOK, AcceptOK, ReplyKinds, InputTypes
<1>1. CASE Reserve(r)
      BY <1>1 DEF Reserve, Steps, StoringSteps
<1>2. CASE Inspect(r)
      BY <1>2, DecisionTypes DEF Inspect, Steps, StoringSteps
<1>3. CASE Reclaim(r)
      BY <1>3 DEF Reclaim, Steps, StoringSteps
<1>4. CASE Put(r)
      BY <1>4 DEF Put, AfterStorageFailure, Steps, StoringSteps
<1>5. CASE Promote(r)
      BY <1>5 DEF Promote, AfterStorageFailure, Steps, StoringSteps
<1>6. CASE Find(r)
      BY <1>6 DEF Find, Steps, StoringSteps
<1>7. CASE FinalizeNewEvidence(r)
      BY <1>7 DEF FinalizeNewEvidence, Steps, StoringSteps
<1>8. CASE Raced(r)
      BY <1>8 DEF Raced, Steps, StoringSteps
<1>9. CASE FinalizeDuplicate(r)
      BY <1>9 DEF FinalizeDuplicate
<1>10. CASE Cleanup(r)
      BY <1>10 DEF Cleanup, Goto, ControlOK, Steps
<1>11. CASE Replay(r)
  <2>1. CASE Goto(r, "reconstruct") /\ answer' = [answer EXCEPT ![r].sbom = records[Slot(r)].response]
    <3>1. records[Slot(r)].response \in Evidence \cup {None}
          BY DEF StoreOK, Records
    <3>2. [answer[r] EXCEPT !.sbom = records[Slot(r)].response] \in Answers
          BY <3>1 DEF ControlOK, Answers
    <3>3. [answer[r] EXCEPT !.sbom = records[Slot(r)].response].kind = answer[r].kind
          BY DEF ControlOK, Answers
    <3> QED BY <1>11, <2>1, <3>2, <3>3 DEF Replay, Goto, ControlOK, Steps
  <2>2. CASE \E kind \in {"conflict", "storage_failed"} : Return(r, "done", Reply(kind))
        BY <2>2
  <2> QED BY <1>11, <2>1, <2>2 DEF Replay
<1>12. CASE Reconstruct(r)
      BY <1>12 DEF Reconstruct, StoreOK
<1> QED BY <1>1, <1>2, <1>3, <1>4, <1>5, <1>6, <1>7, <1>8, <1>9, <1>10, <1>11, <1>12 DEF Run

\* They keep rows and objects well-formed.
LEMMA StoreRun ==
    ASSUME TypeOK, NEW r \in Requests, Run(r)
    PROVE  StoreOK'
<1> USE TypeParts, InputTypes, StartedTypes, UploadAssumption
<1>1. CASE Reserve(r)
      BY <1>1 DEF Reserve, StoreOK, storage
<1>2. CASE Inspect(r) \/ Find(r) \/ Raced(r) \/ Reconstruct(r)
      BY <1>2 DEF Inspect, Find, Raced, Reconstruct, StoreOK, storage, database
<1>3. CASE Reclaim(r)
      BY <1>3 DEF Reclaim, StoreOK, storage
<1>4. CASE Put(r) \/ Cleanup(r)
      BY <1>4 DEF Put, Cleanup, StoreOK, database
<1>5. CASE Promote(r)
      BY <1>5 DEF Promote, StoreOK, database
<1>6. CASE FinalizeNewEvidence(r)
  <2>1. finalizeCompleted(records[Slot(r)], reservationFingerprint(r), finalFingerprint(r),
                          EvidenceOf(r)) \in Records
        BY CompletedTypes DEF StoreOK
  <2> QED BY <1>6, <2>1 DEF FinalizeNewEvidence, StoreOK, storage
<1>7. CASE FinalizeDuplicate(r)
  <2>1. finalizeCompleted(records[Slot(r)], reservationFingerprint(r), finalFingerprint(r),
                          EvidenceOf(r)) \in Records
        BY CompletedTypes DEF StoreOK
  <2> QED BY <1>7, <2>1 DEF FinalizeDuplicate, StoreOK, storage
<1>8. CASE Replay(r)
      BY <1>8 DEF Replay, StoreOK, storage, database
<1> QED BY <1>1, <1>2, <1>3, <1>4, <1>5, <1>6, <1>7, <1>8 DEF Run

\* Failures and repetitions preserve the types.
LEMMA TypeFailures ==
    ASSUME TypeOK, NEW r \in Requests, TransactionFails(r) \/ Lose(r) \/ Resend(r)
    PROVE  TypeOK'
<1> USE TypeParts, UploadAssumption
<1>1. CASE TransactionFails(r) \/ Lose(r)
  <2>1. ControlOK'
        BY <1>1, ReplyOK, ReplyKinds DEF TransactionFails, Lose
  <2> QED BY <1>1, <2>1 DEF TransactionFails, Lose, StoreOK, storage, database
<1>2. CASE Resend(r)
      BY <1>2, AnswerTypes DEF Resend, Goto, ControlOK, StoreOK, Steps, database, NoAnswer
<1> QED BY <1>1, <1>2

\* Time and the worker preserve the types.
LEMMA TypeEnvironment ==
    ASSUME TypeOK,
           \/ \E s \in Slots : Expires(s)
           \/ \E ev \in Evidence : Process(ev)
           \/ UNCHANGED vars
    PROVE  TypeOK'
<1>1. ASSUME NEW s \in Slots, Expires(s) PROVE TypeOK'
  <2>1. [records[s] EXCEPT !.expired = TRUE] \in Records
        BY DEF TypeOK, Records
  <2> QED BY <1>1, <2>1, UploadAssumption DEF Expires, TypeOK, storage
<1>2. ASSUME NEW ev \in Evidence, Process(ev) PROVE TypeOK'
      BY <1>2 DEF Process, TypeOK, storage
<1>3. CASE UNCHANGED vars
      BY <1>3 DEF vars, TypeOK
<1> QED BY <1>1, <1>2, <1>3

\* The types hold initially.
LEMMA TypeInit == Init => TypeOK
<1> SUFFICES ASSUME Init PROVE TypeOK
    OBVIOUS
<1>1. AbsentRecord \in Records
      BY DEF AbsentRecord, Records
<1> QED BY <1>1, AnswerTypes, UploadAssumption DEF Init, TypeOK, Steps, NoAnswer

\* Every step preserves the types.
LEMMA TypeNext == TypeOK /\ [Next]_vars => TypeOK'
<1> SUFFICES ASSUME TypeOK, [Next]_vars PROVE TypeOK'
    OBVIOUS
<1>1. ASSUME NEW r \in Requests, Run(r) PROVE TypeOK'
      BY <1>1, ControlRun, StoreRun, TypeParts
<1>2. ASSUME NEW r \in Requests, TransactionFails(r) \/ Lose(r) \/ Resend(r) PROVE TypeOK'
      BY <1>2, TypeFailures
<1> QED BY <1>1, <1>2, TypeEnvironment DEF Next, Quiet

\* The rows, objects and requests of the upload use case stay well-formed: a
\* request has an answer exactly from the moment it returns.
THEOREM TypeCorrect == Spec => []TypeOK
BY TypeInit, TypeNext, PTL DEF Spec

-----------------------------------------------------------------------------
(* Accepted uploads.                                                       *)

\* A completed key names evidence that exists, of its asset and its body.
RecordsMatch ==
    \A s \in Slots : records[s].status = "completed" =>
      /\ records[s].fingerprint \in [type : Types, body : Bodies]
      /\ records[s].response = <<s[2], records[s].fingerprint.body>>
      /\ records[s].response \in sboms

\* r was accepted, or is about to be, by the upload that completed its key.
BoundTo(r) ==
    /\ records[Slot(r)].status = "completed"
    /\ records[Slot(r)].fingerprint = finalFingerprint(r)
    /\ answer[r].sbom = records[Slot(r)].response

\* What the memory of a request says about the rows, and stays true whatever the
\* others do, since a completed key is never touched again.
RequestsMatch ==
    \A r \in Requests :
      /\ IsAccepted(r) => BoundTo(r)
      /\ pc[r] = "reconstruct" => BoundTo(r)
      /\ pc[r] = "replay" => records[Slot(r)].status = "completed"
      /\ pc[r] \in {"find", "insert", "raced", "duplicate"} => EvidenceOf(r) \in objects

\* Evidence is requested once and its object is there.
EvidenceMatches ==
    /\ \A ev \in Evidence : requested[ev] = IF ev \in sboms THEN 1 ELSE 0
    /\ sboms \subseteq objects

KeyInv == RecordsMatch /\ RequestsMatch /\ EvidenceMatches

\* An invariant state has both safety properties.
LEMMA KeyImplies == TypeOK /\ KeyInv => AcceptedIsDurable /\ KeyAcceptsOneUpload
<1> SUFFICES ASSUME TypeOK, KeyInv PROVE AcceptedIsDurable /\ KeyAcceptsOneUpload
    OBVIOUS
<1>1. ASSUME NEW r \in Requests, IsAccepted(r)
      PROVE  /\ records[Slot(r)].fingerprint = finalFingerprint(r)
             /\ answer[r].sbom = EvidenceOf(r)
             /\ EvidenceOf(r) \in sboms
  <2>1. Slot(r) \in Slots /\ Slot(r)[2] = Input[r].asset /\ finalFingerprint(r).body = Input[r].body
        BY InputTypes
  <2>2. BoundTo(r)
        BY <1>1 DEF KeyInv, RequestsMatch
  <2> QED BY <2>1, <2>2 DEF KeyInv, RecordsMatch, BoundTo, EvidenceOf
<1>2. AcceptedIsDurable
      BY <1>1 DEF AcceptedIsDurable, KeyInv, EvidenceMatches
<1>3. KeyAcceptsOneUpload
      BY <1>1 DEF KeyAcceptsOneUpload
<1> QED BY <1>2, <1>3

\* Initially nothing is accepted and nothing is stored.
LEMMA KeyInit == Init => KeyInv
<1> SUFFICES ASSUME Init PROVE KeyInv
    OBVIOUS
<1>1. RecordsMatch
      BY DEF Init, RecordsMatch, AbsentRecord
<1>2. RequestsMatch
      BY DEF Init, RequestsMatch, IsAccepted, NoAnswer
<1>3. EvidenceMatches
      BY DEF Init, EvidenceMatches
<1> QED BY <1>1, <1>2, <1>3 DEF KeyInv

\* Completed keys stay as they are and evidence stays.
Preserved ==
    /\ \A s \in Slots : records[s].status = "completed" => records'[s] = records[s]
    /\ \A s \in Slots : records'[s].status = "completed" => records'[s] = records[s]
    /\ sboms' = sboms /\ requested' = requested
    /\ objects \subseteq objects'

\* A step that completes no key preserves the invariant if the one request it
\* moves fits the rows.
LEMMA KeyPreserved ==
    ASSUME TypeOK, KeyInv, Preserved, NEW r \in Requests,
           \A q \in Requests \ {r} : pc'[q] = pc[q] /\ answer'[q] = answer[q],
           IsAccepted(r)' => BoundTo(r),
           answer'[r].kind = "accepted" => answer'[r].sbom = answer[r].sbom,
           pc'[r] = "reconstruct" => BoundTo(r)',
           pc'[r] = "replay" => records[Slot(r)].status = "completed",
           pc'[r] \in {"find", "insert", "raced", "duplicate"} => EvidenceOf(r) \in objects'
    PROVE  KeyInv'
<1>1. RecordsMatch'
      BY DEF KeyInv, RecordsMatch, Preserved
<1>2. EvidenceMatches'
      BY DEF KeyInv, EvidenceMatches, Preserved
<1>3. ASSUME NEW q \in Requests, q # r
      PROVE  /\ IsAccepted(q)' => BoundTo(q)'
             /\ pc'[q] = "reconstruct" => BoundTo(q)'
             /\ pc'[q] = "replay" => records'[Slot(q)].status = "completed"
             /\ pc'[q] \in {"find", "insert", "raced", "duplicate"} => EvidenceOf(q) \in objects'
      BY <1>3, InputTypes DEF KeyInv, RequestsMatch, BoundTo, IsAccepted, Preserved
<1>4. /\ IsAccepted(r)' => BoundTo(r)'
      /\ pc'[r] = "replay" => records'[Slot(r)].status = "completed"
      BY InputTypes DEF BoundTo, IsAccepted, Preserved
<1>5. RequestsMatch'
      BY <1>3, <1>4 DEF RequestsMatch
<1> QED BY <1>1, <1>2, <1>5 DEF KeyInv

\* r completes its key and is accepted, with evidence that is new or not.
Completes(r) ==
    /\ Finalizable(records[Slot(r)], reservationFingerprint(r))
    /\ records' = [records EXCEPT
                     ![Slot(r)] = finalizeCompleted(@, reservationFingerprint(r),
                                                    finalFingerprint(r), EvidenceOf(r))]
    /\ sboms' = sboms \cup {EvidenceOf(r)}
    /\ requested' = [requested EXCEPT
                       ![EvidenceOf(r)] = IF EvidenceOf(r) \in sboms THEN @ ELSE @ + 1]
    /\ Return(r, "cleanup", Accepted(EvidenceOf(r)))

\* Whoever holds the reservation, the key, the answer and the evidence agree.
LEMMA KeyCompleted ==
    ASSUME TypeOK, KeyInv, NEW r \in Requests, Completes(r),
           EvidenceOf(r) \in objects, objects' = objects
    PROVE  KeyInv'
<1> DEFINE s == Slot(r)
           ev == EvidenceOf(r)
<1>0. /\ s \in Slots /\ ev \in Evidence
      /\ finalFingerprint(r) \in [type : Types, body : Bodies]
      /\ ev = <<s[2], finalFingerprint(r).body>>
      BY InputTypes DEF EvidenceOf
<1>1. /\ records[s].status = "started"
      /\ records'[s] = [status |-> "completed", fingerprint |-> finalFingerprint(r),
                        expired |-> records[s].expired, response |-> ev]
      /\ \A t \in Slots \ {s} : records'[t] = records[t]
      BY <1>0 DEF Completes, Finalizable, finalizeCompleted, TypeOK
<1>2. RecordsMatch'
      BY <1>0, <1>1 DEF Completes, KeyInv, RecordsMatch
<1>3. EvidenceMatches'
      BY <1>0 DEF Completes, KeyInv, EvidenceMatches, TypeOK
<1>4. /\ answer'[r] = Accepted(ev) /\ pc'[r] = "cleanup"
      /\ \A q \in Requests \ {r} : pc'[q] = pc[q] /\ answer'[q] = answer[q]
      BY DEF Completes, Return, Goto, TypeOK
<1>5. BoundTo(r)'
      BY <1>1, <1>4 DEF BoundTo, Accepted
<1>6. ASSUME NEW q \in Requests, q # r
      PROVE  /\ IsAccepted(q)' => BoundTo(q)'
             /\ pc'[q] = "reconstruct" => BoundTo(q)'
             /\ pc'[q] = "replay" => records'[Slot(q)].status = "completed"
             /\ pc'[q] \in {"find", "insert", "raced", "duplicate"} => EvidenceOf(q) \in objects'
  <2>1. Slot(q) \in Slots
        BY InputTypes
  <2>2. records[Slot(q)].status = "completed" => records'[Slot(q)] = records[Slot(q)]
        BY <1>1, <2>1
  <2> QED BY <1>4, <1>6, <2>2 DEF KeyInv, RequestsMatch, BoundTo, IsAccepted
<1>7. RequestsMatch'
      BY <1>4, <1>5, <1>6 DEF RequestsMatch
<1> QED BY <1>2, <1>3, <1>7 DEF KeyInv

\* Replies that are not acceptances.
LEMMA ReplyNotAccepted ==
    \A kind \in {"conflict"} \cup Failures : Reply(kind).kind # "accepted"
BY AnswerTypes DEF Failures

\* A return without evidence leaves nothing to show.
LEMMA KeyReply ==
    ASSUME TypeOK, KeyInv, Preserved, NEW r \in Requests, NEW step \in {"cleanup", "done"},
           NEW kind \in {"conflict"} \cup Failures, Return(r, step, Reply(kind))
    PROVE  KeyInv'
<1>1. Reply(kind).kind # "accepted"
      BY ReplyNotAccepted
<1>2. /\ answer'[r] = Reply(kind) /\ pc'[r] = step
      /\ \A q \in Requests \ {r} : pc'[q] = pc[q] /\ answer'[q] = answer[q]
      BY DEF Return, Goto, TypeOK
<1> QED BY <1>1, <1>2, KeyPreserved DEF IsAccepted

\* Going on needs only what the next statement relies on.
LEMMA KeyGoto ==
    ASSUME TypeOK, KeyInv, Preserved, NEW r \in Requests, NEW step \in Steps,
           Goto(r, step), UNCHANGED answer,
           step # "reconstruct",
           step = "replay" => records[Slot(r)].status = "completed",
           step \in {"find", "insert", "raced", "duplicate"} => EvidenceOf(r) \in objects'
    PROVE  KeyInv'
<1>1. pc'[r] = step /\ \A q \in Requests \ {r} : pc'[q] = pc[q]
      BY DEF Goto, TypeOK
<1> QED BY <1>1, KeyPreserved DEF IsAccepted, KeyInv, RequestsMatch

\* Most statements complete no key.
LEMMA PreservedRun ==
    ASSUME TypeOK, NEW r \in Requests,
           \/ Reserve(r) \/ Inspect(r) \/ Reclaim(r) \/ Put(r) \/ Promote(r) \/ Find(r)
           \/ Raced(r) \/ Cleanup(r) \/ Replay(r) \/ Reconstruct(r)
           \/ TransactionFails(r) \/ Lose(r) \/ Resend(r)
    PROVE  Preserved
<1>1. CASE Reserve(r) \/ Reclaim(r)
      BY <1>1 DEF Reserve, Reclaim, Reclaimable, Preserved, StartedRecord, TypeOK, storage
<1>2. CASE Put(r) \/ Promote(r) \/ Cleanup(r) \/ Resend(r)
      BY <1>2 DEF Put, Promote, Cleanup, Resend, Preserved, database
<1>3. CASE Inspect(r) \/ Find(r) \/ Raced(r) \/ Replay(r) \/ Reconstruct(r)
           \/ TransactionFails(r) \/ Lose(r)
      BY <1>3 DEF Inspect, Find, Raced, Replay, Reconstruct, TransactionFails, Lose,
                  Preserved, storage, database
<1> QED BY <1>1, <1>2, <1>3

\* finalizeNewEvidence completes the key, goes on to the duplicate or is rolled
\* back.
LEMMA NewEvidenceOutcome ==
    ASSUME TypeOK, NEW r \in Requests, FinalizeNewEvidence(r)
    PROVE  \/ Completes(r)
           \/ Preserved /\ Goto(r, "raced") /\ UNCHANGED answer
           \/ Preserved /\ Return(r, "cleanup", Reply("possible_orphan"))
<1>1. CASE EvidenceConflict(EvidenceOf(r))
      BY <1>1 DEF FinalizeNewEvidence, Preserved, storage
<1>2. CASE /\ ~EvidenceConflict(EvidenceOf(r))
           /\ ~Commits(records[Slot(r)], reservationFingerprint(r))
      BY <1>2 DEF FinalizeNewEvidence, Preserved, storage
<1>3. CASE /\ ~EvidenceConflict(EvidenceOf(r))
           /\ Commits(records[Slot(r)], reservationFingerprint(r))
  <2>1. EvidenceOf(r) \notin sboms /\ Finalizable(records[Slot(r)], reservationFingerprint(r))
        BY <1>3 DEF EvidenceConflict, Commits
  <2> QED BY <1>3, <2>1 DEF FinalizeNewEvidence, Completes
<1> QED BY <1>1, <1>2, <1>3

\* finalizeDuplicate completes the key or is rolled back.
LEMMA DuplicateOutcome ==
    ASSUME TypeOK, KeyInv, NEW r \in Requests, FinalizeDuplicate(r)
    PROVE  \/ Completes(r)
           \/ /\ Preserved
              /\ \E kind \in {"possible_orphan", "missing_ingestion"} :
                   Return(r, "cleanup", Reply(kind))
<1> DEFINE ok == requested[EvidenceOf(r)] > 0
                 /\ Finalizable(records[Slot(r)], reservationFingerprint(r))
<1>1. CASE ok
  <2>1. EvidenceOf(r) \in sboms
        BY <1>1, InputTypes DEF KeyInv, EvidenceMatches
  <2>2. /\ sboms' = sboms \cup {EvidenceOf(r)}
        /\ requested' = [requested EXCEPT
                           ![EvidenceOf(r)] = IF EvidenceOf(r) \in sboms THEN @ ELSE @ + 1]
        BY <2>1 DEF FinalizeDuplicate, TypeOK
  <2> QED BY <1>1, <2>2 DEF FinalizeDuplicate, Completes
<1>2. CASE ~ok
      BY <1>2 DEF FinalizeDuplicate, Preserved, storage
<1> QED BY <1>1, <1>2

\* Every statement of a request preserves the invariant.
LEMMA KeyRun ==
    ASSUME TypeOK, KeyInv, NEW r \in Requests, Run(r)
    PROVE  KeyInv'
<1> USE InputTypes, ReplyKinds, KeyReply, KeyGoto, PreservedRun
<1>1. CASE Reserve(r)
      BY <1>1 DEF Reserve, Steps, StoringSteps
<1>2. CASE Inspect(r)
  <2>1. ReservationDecision(records[Slot(r)], reservationFingerprint(r)) = "replay"
        => records[Slot(r)].status = "completed"
        BY DEF ReservationDecision
  <2> QED BY <1>2, <2>1, DecisionTypes DEF Inspect, Steps
<1>3. CASE Reclaim(r)
      BY <1>3 DEF Reclaim, Steps, StoringSteps
<1>4. CASE Put(r)
      BY <1>4 DEF Put, AfterStorageFailure, Steps, StoringSteps
<1>5. CASE Promote(r)
      BY <1>5 DEF Promote, Promoted, AfterStorageFailure, Steps, StoringSteps
<1>6. CASE Find(r) \/ Raced(r)
  <2>1. EvidenceOf(r) \in objects'
        BY <1>6 DEF Find, Raced, storage, KeyInv, RequestsMatch
  <2> QED BY <1>6, <2>1 DEF Find, Raced, Steps, StoringSteps
<1>7. CASE FinalizeNewEvidence(r)
  <2>1. EvidenceOf(r) \in objects /\ objects' = objects
        BY <1>7 DEF FinalizeNewEvidence, KeyInv, RequestsMatch, storage
  <2> QED BY <1>7, <2>1, NewEvidenceOutcome, KeyCompleted DEF Steps, StoringSteps
<1>8. CASE FinalizeDuplicate(r)
  <2>1. EvidenceOf(r) \in objects /\ objects' = objects
        BY <1>8 DEF FinalizeDuplicate, KeyInv, RequestsMatch, storage
  <2> QED BY <1>8, <2>1, DuplicateOutcome, KeyCompleted
<1>9. CASE Cleanup(r)
      BY <1>9 DEF Cleanup, Steps
<1>10. CASE Replay(r)
  <2>1. records' = records /\ records[Slot(r)].status = "completed"
        BY <1>10 DEF Replay, database, KeyInv, RequestsMatch
  <2>2. CASE ReplayMatches(records[Slot(r)], finalFingerprint(r)) /\ Goto(r, "reconstruct")
             /\ answer' = [answer EXCEPT ![r].sbom = records[Slot(r)].response]
    <3>1. /\ answer'[r].sbom = records[Slot(r)].response /\ answer'[r].kind = answer[r].kind
          /\ pc'[r] = "reconstruct" /\ answer[r].kind = "none"
          /\ \A q \in Requests \ {r} : pc'[q] = pc[q] /\ answer'[q] = answer[q]
          BY <1>10, <2>2 DEF Replay, Goto, TypeOK, Answers
    <3>2. BoundTo(r)'
          BY <2>1, <2>2, <3>1 DEF BoundTo, ReplayMatches
    <3> QED BY <1>10, <2>1, <3>1, <3>2, KeyPreserved DEF IsAccepted
  <2>3. CASE \E kind \in {"conflict", "storage_failed"} : Return(r, "done", Reply(kind))
        BY <1>10, <2>3
  <2> QED BY <1>10, <2>2, <2>3 DEF Replay
<1>11. CASE Reconstruct(r)
  <2>1. BoundTo(r)
        BY <1>11 DEF Reconstruct, KeyInv, RequestsMatch
  <2>2. CASE answer[r].sbom \in sboms
    <3>1. Return(r, "done", Accepted(answer[r].sbom))
          BY <1>11, <2>2 DEF Reconstruct
    <3>2. /\ answer'[r].sbom = answer[r].sbom /\ pc'[r] = "done"
          /\ \A q \in Requests \ {r} : pc'[q] = pc[q] /\ answer'[q] = answer[q]
          BY <3>1 DEF Return, Goto, TypeOK, Accepted
    <3> QED BY <1>11, <2>1, <3>2, KeyPreserved
  <2>3. CASE answer[r].sbom \notin sboms
        BY <1>11, <2>3 DEF Reconstruct
  <2> QED BY <2>2, <2>3
<1> QED BY <1>1, <1>2, <1>3, <1>4, <1>5, <1>6, <1>7, <1>8, <1>9, <1>10, <1>11 DEF Run

\* Failures, repetitions, time and the worker preserve it too.
LEMMA KeyEnvironment ==
    ASSUME TypeOK, KeyInv,
           \/ \E r \in Requests : TransactionFails(r) \/ Lose(r) \/ Resend(r)
           \/ \E s \in Slots : Expires(s)
           \/ \E ev \in Evidence : Process(ev)
           \/ UNCHANGED vars
    PROVE  KeyInv'
<1>1. ASSUME NEW r \in Requests, TransactionFails(r) \/ Lose(r) PROVE KeyInv'
  <2>1. Preserved
        BY <1>1, PreservedRun
  <2> QED BY <1>1, <2>1, KeyReply, ReplyKinds DEF TransactionFails, Lose
<1>2. ASSUME NEW r \in Requests, Resend(r) PROVE KeyInv'
  <2>1. Preserved
        BY <1>2, PreservedRun
  <2>2. /\ answer'[r] = NoAnswer /\ pc'[r] = "reserve"
        /\ \A q \in Requests \ {r} : pc'[q] = pc[q] /\ answer'[q] = answer[q]
        BY <1>2 DEF Resend, Goto, TypeOK
  <2> QED BY <2>1, <2>2, KeyPreserved DEF IsAccepted, NoAnswer
<1>3. ASSUME NEW s \in Slots, Expires(s) PROVE KeyInv'
  <2>1. Preserved
        BY <1>3 DEF Expires, Preserved, TypeOK, Records, storage
  <2>2. UNCHANGED <<pc, answer, objects, sboms, requested>>
        BY <1>3 DEF Expires, storage
  <2> QED BY <2>1, <2>2, InputTypes DEF KeyInv, RecordsMatch, RequestsMatch, EvidenceMatches,
                                        BoundTo, IsAccepted, Preserved
<1>4. ASSUME NEW ev \in Evidence, Process(ev) PROVE KeyInv'
      BY <1>4 DEF Process, storage, KeyInv, RecordsMatch, RequestsMatch, EvidenceMatches, BoundTo, IsAccepted
<1>5. CASE UNCHANGED vars
      BY <1>5 DEF vars, KeyInv, RecordsMatch, RequestsMatch, EvidenceMatches, BoundTo, IsAccepted
<1> QED BY <1>1, <1>2, <1>3, <1>4, <1>5

\* The strengthened invariant is inductive.
LEMMA KeyNext == TypeOK /\ KeyInv /\ [Next]_vars => KeyInv'
BY KeyRun, KeyEnvironment DEF Next, Quiet

\* The invariant holds throughout.
LEMMA KeyInvariant == Spec => [](TypeOK /\ KeyInv)
<1>1. Init => TypeOK /\ KeyInv
      BY TypeInit, KeyInit
<1>2. TypeOK /\ KeyInv /\ [Next]_vars => (TypeOK /\ KeyInv)'
      BY TypeNext, KeyNext
<1> QED BY <1>1, <1>2, PTL DEF Spec

\* Whoever is told accepted sent what is stored, and it is handed to the worker
\* once, for any number of concurrent requests and reservations overrun.
THEOREM AcceptedUploadsAreDurable == Spec => []AcceptedIsDurable
BY KeyInvariant, KeyImplies, PTL

\* A key never accepts two different uploads for an asset, although the
\* reservation does not tell two requests of one content type apart.
THEOREM KeysAcceptOneUpload == Spec => []KeyAcceptsOneUpload
BY KeyInvariant, KeyImplies, PTL

-----------------------------------------------------------------------------
(* Refinement.                                                             *)

\* A step that completes no key shows nothing.
LEMMA KeyedStutter ==
    ASSUME Preserved PROVE UNCHANGED Keyed!uvars
BY DEF Preserved, Keyed!uvars

\* The step that completes a key binds it.
LEMMA KeyedBind ==
    ASSUME TypeOK, NEW r \in Requests, Completes(r)
    PROVE  Keyed!UNext
<1> DEFINE s == Slot(r)
           f == finalFingerprint(r)
           b == [t \in Slots |-> IF records[t].status = "completed"
                                   THEN records[t].fingerprint ELSE None]
<1>0. s \in Slots /\ f \in [type : Types, body : Bodies] /\ EvidenceOf(r) = <<s[2], f.body>>
      BY InputTypes DEF EvidenceOf
<1>1. /\ records[s].status = "started"
      /\ records'[s].status = "completed" /\ records'[s].fingerprint = f
      /\ \A t \in Slots \ {s} : records'[t] = records[t]
      BY <1>0 DEF Completes, Finalizable, finalizeCompleted, TypeOK
<1>2. b[s] = None
      BY <1>0, <1>1
<1>3. b' = [b EXCEPT ![s] = f]
      BY <1>0, <1>1
<1>4. sboms' = sboms \cup {<<s[2], f.body>>}
      BY <1>0 DEF Completes
<1>5. Keyed!Bind(s, f)
      BY <1>2, <1>3, <1>4 DEF Keyed!Bind
<1> QED BY <1>0, <1>5 DEF Keyed!UNext

\* The upload use case, with its reservations, takeovers and retries, implements
\* a table of keys each bound at most once.
THEOREM Refinement == Spec => ImplementsKeys
<1>1. Init => Keyed!UInit
      BY DEF Init, Keyed!UInit, AbsentRecord
<1>2. TypeOK /\ KeyInv /\ [Next]_vars => [Keyed!UNext]_Keyed!uvars
  <2> SUFFICES ASSUME TypeOK, KeyInv, [Next]_vars PROVE [Keyed!UNext]_Keyed!uvars
      OBVIOUS
  <2>1. ASSUME NEW r \in Requests, Run(r) PROVE Preserved \/ Completes(r)
        BY <2>1, PreservedRun, NewEvidenceOutcome, DuplicateOutcome DEF Run
  <2>2. ASSUME NEW r \in Requests, TransactionFails(r) \/ Lose(r) \/ Resend(r) PROVE Preserved
        BY <2>2, PreservedRun
  <2>3. ASSUME NEW s \in Slots, Expires(s) PROVE Preserved
        BY <2>3 DEF Expires, Preserved, TypeOK, Records, storage
  <2>4. ASSUME NEW ev \in Evidence, Process(ev) PROVE Preserved
        BY <2>4 DEF Process, Preserved, storage
  <2>5. ASSUME UNCHANGED vars PROVE Preserved
        BY <2>5 DEF vars, Preserved
  <2> QED BY <2>1, <2>2, <2>3, <2>4, <2>5, KeyedStutter, KeyedBind DEF Next, Quiet
<1> QED BY <1>1, <1>2, KeyInvariant, PTL DEF Spec, ImplementsKeys, Keyed!USpec

-----------------------------------------------------------------------------
(* Temporary objects left behind.                                          *)

\* Steps of a request that has not put its body yet.
EarlySteps == {"reserve", "inspect", "reclaim", "replay", "reconstruct", "put"}

\* Requests whose object is there past the statement meant to delete it: a call of
\* each has failed or it was lost.
Owing == {r \in temporary : pc[r] # "promote"}

\* Requests that returned without deleting their object: the deletion failed too.
OwingTwice == {r \in temporary : pc[r] = "done" /\ answer[r].kind # "lost"}

\* Every debt is covered by a fault of its own.  The debt has to be counted while
\* the request runs: a failed promotion is paid for before the cleanup fails.
LitterInv ==
    /\ \A r \in temporary : pc[r] \notin EarlySteps
    /\ Cardinality(Owing) + Cardinality(OwingTwice) <= faults

\* A step adds to the debts at most one of r, and then it counts a fault.
Pays(r) ==
    \/ faults' >= faults /\ Owing' \subseteq Owing /\ OwingTwice' \subseteq OwingTwice
    \/ faults' = faults + 1 /\ Owing' \subseteq Owing \cup {r}
                            /\ OwingTwice' \subseteq OwingTwice
    \/ faults' = faults + 1 /\ Owing' \subseteq Owing
                            /\ OwingTwice' \subseteq OwingTwice \cup {r}

\* Temporary objects are finitely many, and so are the debts.
LEMMA DebtsAreFinite ==
    ASSUME TypeOK
    PROVE  /\ IsFiniteSet(Owing) /\ Cardinality(Owing) \in Nat
           /\ IsFiniteSet(OwingTwice) /\ Cardinality(OwingTwice) \in Nat
           /\ faults \in Nat
<1>1. Owing \in SUBSET Requests /\ OwingTwice \in SUBSET Requests
      BY DEF Owing, OwingTwice, TypeOK
<1>2. IsFiniteSet(Requests)
      BY UploadAssumption
<1>3. IsFiniteSet(Owing) /\ IsFiniteSet(OwingTwice)
      BY <1>1, <1>2, FS_Subset
<1>4. Cardinality(Owing) \in Nat /\ Cardinality(OwingTwice) \in Nat
      BY <1>3, FS_CardinalityType
<1>5. faults \in Nat
      BY UploadAssumption DEF TypeOK
<1> QED BY <1>3, <1>4, <1>5

\* A set that gains at most one element grows by at most one.
LEMMA GrowsByOne ==
    ASSUME NEW S, NEW T, NEW x, IsFiniteSet(S)
    PROVE  /\ T \subseteq S => Cardinality(T) <= Cardinality(S)
           /\ T \subseteq S \cup {x} => Cardinality(T) <= Cardinality(S) + 1
<1>1. Cardinality(S) \in Nat
      BY FS_CardinalityType
<1>2. IsFiniteSet(S \cup {x}) /\ Cardinality(S \cup {x}) <= Cardinality(S) + 1
      BY <1>1, FS_AddElement
<1>3. ASSUME T \subseteq S PROVE Cardinality(T) <= Cardinality(S)
      BY <1>3, FS_Subset
<1>4. ASSUME T \subseteq S \cup {x} PROVE Cardinality(T) <= Cardinality(S) + 1
  <2>1. IsFiniteSet(T) /\ Cardinality(T) <= Cardinality(S \cup {x})
        BY <1>2, <1>4, FS_Subset
  <2>2. Cardinality(T) \in Nat /\ Cardinality(S \cup {x}) \in Nat
        BY <1>2, <2>1, FS_CardinalityType
  <2> QED BY <1>1, <1>2, <2>1, <2>2
<1> QED BY <1>3, <1>4

\* A step that pays keeps the account.
LEMMA PaidStep ==
    ASSUME TypeOK, TypeOK', LitterInv, NEW r, Pays(r)
    PROVE  Cardinality(Owing') + Cardinality(OwingTwice') <= faults'
<1> DEFINE a == Cardinality(Owing)
           b == Cardinality(OwingTwice)
           c == Cardinality(Owing')
           d == Cardinality(OwingTwice')
<1>1. a \in Nat /\ b \in Nat /\ faults \in Nat
      BY DebtsAreFinite
<1>2. c \in Nat /\ d \in Nat /\ faults' \in Nat
  <2>1. Owing' \in SUBSET Requests /\ OwingTwice' \in SUBSET Requests
        BY DEF Owing, OwingTwice, TypeOK
  <2>2. IsFiniteSet(Owing') /\ IsFiniteSet(OwingTwice')
        BY <2>1, UploadAssumption, FS_Subset
  <2>3. c \in Nat /\ d \in Nat
        BY <2>2, FS_CardinalityType
  <2>4. faults' \in Nat
        BY UploadAssumption DEF TypeOK
  <2> QED BY <2>3, <2>4
<1>3. /\ Owing' \subseteq Owing => c <= a
      /\ Owing' \subseteq Owing \cup {r} => c <= a + 1
      BY DebtsAreFinite, GrowsByOne
<1>4. /\ OwingTwice' \subseteq OwingTwice => d <= b
      /\ OwingTwice' \subseteq OwingTwice \cup {r} => d <= b + 1
      BY DebtsAreFinite, GrowsByOne
<1>5. a + b <= faults
      BY DEF LitterInv
<1>6. \/ faults' >= faults /\ c <= a /\ d <= b
      \/ faults' = faults + 1 /\ c <= a + 1 /\ d <= b
      \/ faults' = faults + 1 /\ c <= a /\ d <= b + 1
      BY <1>3, <1>4 DEF Pays
<1> QED BY <1>1, <1>2, <1>5, <1>6

\* No step of a request leaves an object without paying for it.
LEMMA LitterRun ==
    ASSUME TypeOK, LitterInv, NEW r \in Requests,
           Run(r) \/ TransactionFails(r) \/ Lose(r) \/ Resend(r)
    PROVE  Pays(r) /\ \A q \in temporary' : pc'[q] \notin EarlySteps
<1> USE DEF TypeOK, LitterInv, Pays, Owing, OwingTwice, EarlySteps, Goto, Return,
            storage, database
<1>0. /\ faults \in Nat
      /\ \A kind \in {"conflict"} \cup Failures : Reply(kind).kind = kind
      /\ Requests = DOMAIN pc /\ Requests = DOMAIN answer
      BY UploadAssumption, AnswerTypes
<1>1. CASE Reserve(r)
      BY <1>0, <1>1 DEF Reserve
<1>2. CASE Inspect(r)
      BY <1>0, <1>2, DecisionTypes DEF Inspect
<1>3. CASE Reclaim(r)
      BY <1>0, <1>3 DEF Reclaim
<1>4. CASE Put(r)
      BY <1>0, <1>4 DEF Put, AfterStorageFailure
<1>5. CASE Promote(r)
      BY <1>0, <1>5 DEF Promote, Promoted, AfterStorageFailure
<1>6. CASE Find(r)
      BY <1>0, <1>6 DEF Find
<1>7. CASE FinalizeNewEvidence(r)
      BY <1>0, <1>7 DEF FinalizeNewEvidence
<1>8. CASE Raced(r)
      BY <1>0, <1>8 DEF Raced
<1>9. CASE FinalizeDuplicate(r)
      BY <1>0, <1>9 DEF FinalizeDuplicate
<1>10. CASE Cleanup(r)
      BY <1>0, <1>10 DEF Cleanup
<1>11. CASE Replay(r)
      BY <1>0, <1>11 DEF Replay
<1>12. CASE Reconstruct(r)
      BY <1>0, <1>12 DEF Reconstruct
<1>13. CASE TransactionFails(r)
      BY <1>0, <1>13 DEF TransactionFails
<1>14. CASE Lose(r)
      BY <1>0, <1>14 DEF Lose, Failures
<1>15. CASE Resend(r)
      BY <1>0, <1>15 DEF Resend
<1> QED BY <1>1, <1>2, <1>3, <1>4, <1>5, <1>6, <1>7, <1>8, <1>9, <1>10, <1>11, <1>12,
           <1>13, <1>14, <1>15 DEF Run

\* Nothing is owed at the start, and every step keeps the account.
LEMMA LitterInit == Init => LitterInv
<1> SUFFICES ASSUME Init PROVE LitterInv
    OBVIOUS
<1>1. temporary = {} /\ Owing = {} /\ OwingTwice = {} /\ faults = 0
      BY DEF Init, Owing, OwingTwice
<1> QED BY <1>1, FS_EmptySet DEF LitterInv

LEMMA LitterNext == TypeOK /\ LitterInv /\ [Next]_vars => LitterInv'
<1> SUFFICES ASSUME TypeOK, LitterInv, [Next]_vars PROVE LitterInv'
    OBVIOUS
<1>1. TypeOK'
      BY TypeNext
<1>2. ASSUME NEW r \in Requests, Run(r) \/ TransactionFails(r) \/ Lose(r) \/ Resend(r)
      PROVE  LitterInv'
      BY <1>1, <1>2, LitterRun, PaidStep DEF LitterInv
<1>3. ASSUME NEW s \in Slots, Expires(s)
      PROVE  /\ temporary' = temporary /\ pc' = pc /\ answer' = answer
             /\ faults' = faults \/ faults' = faults + 1
      BY <1>3 DEF Expires, storage
<1>4. ASSUME /\ temporary' = temporary /\ pc' = pc /\ answer' = answer
             /\ faults' = faults \/ faults' = faults + 1
      PROVE  LitterInv'
  <2>1. Owing' = Owing /\ OwingTwice' = OwingTwice /\ faults' >= faults
        BY <1>4, UploadAssumption DEF Owing, OwingTwice, TypeOK
  <2>2. Pays(None)
        BY <2>1 DEF Pays
  <2> QED BY <1>1, <1>4, <2>2, PaidStep DEF LitterInv
<1>5. ASSUME NEW ev \in Evidence, Process(ev) PROVE LitterInv'
      BY <1>4, <1>5 DEF Process, storage
<1>6. ASSUME UNCHANGED vars PROVE LitterInv'
      BY <1>4, <1>6 DEF vars
<1> QED BY <1>2, <1>3, <1>4, <1>5, <1>6 DEF Next, Quiet

\* The account bounds the litter.
LEMMA LitterImplies == TypeOK /\ LitterInv => LitterIsPaidFor
<1> SUFFICES ASSUME TypeOK, LitterInv PROVE LitterIsPaidFor
    OBVIOUS
<1> DEFINE left == {r \in temporary : pc[r] = "done"}
           lost == {r \in left : answer[r].kind = "lost"}
<1>1. left \ lost = OwingTwice /\ left \subseteq Owing /\ lost \subseteq left
      BY DEF OwingTwice, Owing
<1>2. IsFiniteSet(left) /\ Cardinality(left) <= Cardinality(Owing)
      BY <1>1, DebtsAreFinite, FS_Subset
<1>3. Cardinality(left \ lost) = Cardinality(left) - Cardinality(left \cap lost)
      BY <1>2, FS_Difference, FS_Subset, <1>1
<1>4. left \cap lost = lost
      BY <1>1
<1>5. Cardinality(left) \in Nat /\ Cardinality(lost) \in Nat
      BY <1>1, <1>2, FS_Subset, FS_CardinalityType
<1>6. Cardinality(Owing) \in Nat /\ Cardinality(OwingTwice) \in Nat /\ faults \in Nat
      BY DebtsAreFinite
<1>7. Cardinality(lost) + 2 * Cardinality(left \ lost)
        = Cardinality(left) + Cardinality(OwingTwice)
  <2> DEFINE a == Cardinality(left)
             b == Cardinality(lost)
             c == Cardinality(left \ lost)
  <2>1. c = a - b
        BY <1>3, <1>4
  <2>2. c = Cardinality(OwingTwice)
        BY <1>1
  <2>3. a \in Nat /\ b \in Nat
        BY <1>5
  <2> HIDE DEF a, b, c
  <2>4. b + 2 * c = a + c
        BY <2>1, <2>3
  <2>5. b + 2 * c = a + Cardinality(OwingTwice)
        BY <2>2, <2>4
  <2> QED BY <2>5 DEF a, b, c
<1>8. Cardinality(lost) + 2 * Cardinality(left \ lost) <= faults
      BY <1>2, <1>5, <1>6, <1>7 DEF LitterInv
<1> QED BY <1>8 DEF LitterIsPaidFor

\* However many requests fail at whatever point, a temporary object stays only
\* behind a request that was lost or of which two calls failed.
THEOREM LitterIsAlwaysPaidFor == Spec => []LitterIsPaidFor
<1>1. Init => TypeOK /\ LitterInv
      BY TypeInit, LitterInit
<1>2. TypeOK /\ LitterInv /\ [Next]_vars => (TypeOK /\ LitterInv)'
      BY TypeNext, LitterNext
<1> QED BY <1>1, <1>2, LitterImplies, PTL DEF Spec

=============================================================================

------------------------- MODULE ControlledFindings -------------------------
(***************************************************************************)
(* Findings of one vulnerability in one component of one asset: match      *)
(* evidence is evaluated for the occurrences of an upload, an operator     *)
(* creates the finding from it, observes it again for later uploads and    *)
(* reads its latest observation.  Each call is one READ COMMITTED          *)
(* transaction whose CURRENT_TIMESTAMP is the time it began, before it     *)
(* waited for the asset.  The graph transaction that moves the asset to a  *)
(* newer upload takes the same lock (Complete).                            *)
(***************************************************************************)
EXTENDS Naturals, FiniteSets

CONSTANTS
    Last,             \* uploads are numbered in the order (received_at, created_at, id)
    Occurrences,      \* occurrences of the component
    UploadOf,         \* the upload whose graph holds an occurrence
    Known,            \* occurrences with a known version
    Evaluable,        \* of these, the ones whose version an evaluation can represent
    Advisories,       \* approved revisions about the vulnerability
    Outcome,          \* evaluateReviewedNpmRange for an occurrence and an advisory
    Whole,            \* uploads whose graph is complete enough to prove absence
    Demands,          \* what operators ask of create and observe: upload, evidence, unknown
    Calls,
    MaxClock,         \* readings of the database clock
    MaxFaults,        \* failed transactions and lost acknowledgements
    None

Uploads == 1..Last
Rows == Occurrences \X Advisories

ASSUME FindingAssumption ==
    /\ Last \in Nat \ {0} /\ MaxClock \in Nat /\ MaxFaults \in Nat
    /\ UploadOf \in [Occurrences -> Uploads]
    /\ Evaluable \subseteq Known /\ Known \subseteq Occurrences /\ Whole \subseteq Uploads
    /\ Outcome \in [Rows -> {"affected", "unaffected", "unknown"}]
    /\ Demands \subseteq [op : {"create", "observe"}, upload : Uploads,
                           evidence : SUBSET Rows, unknown : SUBSET Occurrences]
    /\ IsFiniteSet(Occurrences) /\ IsFiniteSet(Advisories)
    /\ None \notin Calls
    /\ None \notin [upload : Uploads, links : SUBSET Rows, first : Nat, last : Nat]

VARIABLES
    completed,      \* uploads whose ingestion is completed
    pointer,        \* asset.last_successful_sbom_ingestion_id, or 0
    evidence,       \* product_match_evaluation_evidence
    finding,        \* the finding with its creation observation and links, or None
    observations,   \* its repeated observations with their links
    clock,          \* the database's clock
    asset,          \* the call that holds the asset's advisory lock and row
    table,          \* the call that holds the evidence table SHARE ROW EXCLUSIVE
    occurrence,     \* the call that holds each occurrence FOR UPDATE
    call,           \* the transaction of each call
    faults

locks == <<asset, table, occurrence>>
rows == <<evidence, finding, observations>>
vars == <<completed, pointer, rows, clock, locks, call, faults>>

Of(upload) == {o \in Occurrences : UploadOf[o] = upload}

Idle == [pc |-> "idle", cmd |-> None, at |-> 0, plan |-> {}, answer |-> None]

Init ==
    /\ completed = {} /\ pointer = 0
    /\ evidence = {} /\ finding = None /\ observations = {}
    /\ clock = 0
    /\ asset = None /\ table = None /\ occurrence = [o \in Occurrences |-> None]
    /\ call = [c \in Calls |-> Idle]
    /\ faults = 0

-----------------------------------------------------------------------------
(* Transactions. *)

Cmd(c) == call[c].cmd
At(c, pc) == call[c].pc = pc

(* The transaction ends, committed or rolled back, and the caller is answered. *)
End(c, answer) ==
    /\ call' = [call EXCEPT ![c].pc = "ended", ![c].answer = answer, ![c].plan = {}]
    /\ asset' = IF asset = c THEN None ELSE asset
    /\ table' = IF table = c THEN None ELSE table
    /\ occurrence' = [o \in Occurrences |-> IF occurrence[o] = c THEN None ELSE occurrence[o]]

(* The commit succeeds.  Its acknowledgement may be lost; the caller then   *)
(* hears internal_failure.                                                  *)
Commit(c, answer) ==
    \/ End(c, answer) /\ UNCHANGED faults
    \/ faults < MaxFaults /\ faults' = faults + 1 /\ End(c, "internal_failure")

(* What a caller may ask: rows and findings have identifiers once they exist. *)
Commands ==
    {d \in Demands : d.evidence \subseteq evidence /\ (d.op = "observe" => finding # None)}
      \cup [op : {"evaluate"}, advisory : Advisories]
      \cup [op : {"commit"}, row : {r \in Rows : UploadOf[r[1]] \in completed}]

(* A call begins, perhaps one that was made before. *)
Begin(c, cmd) ==
    /\ call[c].pc \in {"idle", "ended"}
    /\ call' = [call EXCEPT ![c] = [Idle EXCEPT
                  !.pc = IF cmd.op = "commit" THEN "occurrences" ELSE "asset",
                  !.cmd = cmd,
                  !.at = IF cmd.op \in {"create", "observe"} THEN clock ELSE 0]]
    /\ UNCHANGED <<completed, pointer, rows, clock, locks, faults>>

Tick ==
    /\ clock < MaxClock
    /\ clock' = clock + 1
    /\ UNCHANGED <<completed, pointer, rows, locks, call, faults>>

-----------------------------------------------------------------------------
(* The asset's lock.  Creation and observation first read what is stored;  *)
(* evaluation reads which upload is current.                               *)

(* Mutant: the stored links are not compared. *)
classifyStoredByUpload(cmd) ==
    IF finding.upload # cmd.upload THEN "finding_already_exists" ELSE "already_applied"

(* classifyStored of a creation for a finding that exists. *)
classifyStored(cmd) ==
    CASE finding.links # cmd.evidence -> "immutable_conflict"
      [] finding.upload # cmd.upload -> "finding_already_exists"
      [] OTHER -> "already_applied"

(* loadTargetIngestion: whether an observation may be about the upload. *)
TargetStatus(upload) ==
    CASE upload \notin completed -> "ingestion_not_completed"
      [] upload # pointer -> "ingestion_not_latest"
      [] upload <= finding.upload -> "ingestion_not_later"
      [] OTHER -> "ready"

(* loadIngestion and selectOccurrences of an evaluation. *)
SelectionStatus ==
    CASE pointer = 0 -> "no_successful_ingestion"
      [] pointer # 0 /\ Of(pointer) = {} -> "no_relevant_occurrence"
      [] OTHER -> "ready"

LockStatus(cmd) ==
    CASE cmd.op = "create" -> IF finding = None THEN "ready" ELSE classifyStored(cmd)
      [] cmd.op = "observe" -> TargetStatus(cmd.upload)
      [] cmd.op = "evaluate" -> SelectionStatus

LockAsset(c) ==
    /\ At(c, "asset") /\ asset = None
    /\ LET status == LockStatus(Cmd(c))
       IN IF status = "ready"
            THEN /\ asset' = c
                 /\ call' = [call EXCEPT ![c].pc = IF Cmd(c).op = "evaluate"
                                                    THEN "occurrences" ELSE "table"]
                 /\ UNCHANGED <<table, occurrence>>
            ELSE End(c, status)
    /\ UNCHANGED <<completed, pointer, rows, clock, faults>>

-----------------------------------------------------------------------------
(* The evidence table's lock, under which creation and observation compare *)
(* the evidence named with the evidence stored.                            *)

Affected(r) == Outcome[r] = "affected"

(* patchpilot_finding_creation_qualifying_evidence *)
Qualifying(upload) ==
    {r \in evidence : /\ UploadOf[r[1]] = upload /\ upload = pointer
                      /\ r[1] \in Known /\ Affected(r)}

classifyUnqualified(r) == IF Affected(r) THEN "evidence_not_current" ELSE "evidence_not_affected"

(* classifyRequestedEvidence: rows are looked at in the order of their      *)
(* identifiers, so any unqualified one may be the first.                    *)
CreationStatuses(cmd) ==
    LET bad == cmd.evidence \ Qualifying(cmd.upload)
    IN IF bad # {} THEN {classifyUnqualified(r) : r \in bad}
       ELSE IF cmd.evidence # Qualifying(cmd.upload) THEN {"evidence_set_mismatch"}
       ELSE {"ready"}

(* patchpilot_finding_repeated_observation_current_evidence *)
CurrentEvidence(upload) ==
    {r \in evidence : UploadOf[r[1]] = upload /\ upload = pointer /\ r[1] \in Known}

IsAbsence(cmd) == cmd.evidence = {} /\ cmd.unknown = {}

deriveAbsence(cmd) ==
    CASE cmd.upload \notin Whole -> "evidence_unavailable"
      [] cmd.upload \in Whole /\ ~IsAbsence(cmd) -> "evidence_set_mismatch"
      [] OTHER -> "ready"

Stored(upload) == {x \in observations : x.upload = upload}

(* deriveObservation, then classifyExisting *)
ObservationStatus(cmd) ==
    LET occurrences == Of(cmd.upload)
        current == CurrentEvidence(cmd.upload)
        single(o) == Cardinality({r \in current : r[1] = o}) = 1
        derived ==
            CASE occurrences = {} -> deriveAbsence(cmd)
              [] occurrences # {} /\ (IsAbsence(cmd) \/ \E o \in occurrences \cap Known : ~single(o))
                   -> "evidence_unavailable"
              [] occurrences # {} /\ ~IsAbsence(cmd) /\ \A o \in occurrences \cap Known : single(o)
                   -> IF cmd.evidence = current /\ cmd.unknown = occurrences \ Known
                        THEN "ready" ELSE "evidence_set_mismatch"
    IN CASE derived # "ready" -> derived
         [] derived = "ready" /\ Stored(cmd.upload) = {} -> "ready"
         [] derived = "ready" /\ Stored(cmd.upload) # {} ->
              IF \A x \in Stored(cmd.upload) : x.links = cmd.evidence /\ x.unknown = cmd.unknown
                THEN "already_applied" ELSE "immutable_conflict"

(* aggregateContributions: affected before unknown before unaffected. *)
Aggregate(links, unknown) ==
    CASE links = {} /\ unknown = {} -> "component_absent"
      [] \E r \in links : Affected(r) -> "affected"
      [] (\A r \in links : ~Affected(r)) /\ (unknown # {} \/ \E r \in links : Outcome[r] = "unknown")
           -> "unknown"
      [] OTHER -> "unaffected"

LockTable(c) ==
    /\ At(c, "table") /\ table = None
    /\ \E status \in IF Cmd(c).op = "create" THEN CreationStatuses(Cmd(c))
                                              ELSE {ObservationStatus(Cmd(c))} :
          IF status = "ready"
            THEN /\ table' = c
                 /\ call' = [call EXCEPT ![c].pc = "write"]
                 /\ UNCHANGED <<asset, occurrence>>
            ELSE End(c, status)
    /\ UNCHANGED <<completed, pointer, rows, clock, faults>>

-----------------------------------------------------------------------------
(* The occurrences' locks, taken by what evaluates: one occurrence, or all *)
(* of the current upload.                                                  *)

Targets(cmd) ==
    IF cmd.op = "commit" THEN {cmd.row} ELSE {<<o, cmd.advisory>> : o \in Of(pointer)}

(* classifyOne and completionStatus, which skip an occurrence whose version  *)
(* is unknown or unrepresentable; commit of one occurrence, which rejects it. *)
EvaluationStatus(cmd) ==
    LET evaluable == {r \in Targets(cmd) : r[1] \in Evaluable}
    IN CASE evaluable \ evidence # {} -> "ready"
         [] evaluable \ evidence = {} /\ evaluable # {} ->
              IF cmd.op = "commit" THEN "applied" ELSE "already_applied"
         [] evaluable = {} -> IF cmd.op = "commit" THEN "rejected" ELSE "no_evaluable_occurrence"

LockOccurrences(c) ==
    /\ At(c, "occurrences")
    /\ \A r \in Targets(Cmd(c)) : occurrence[r[1]] = None
    /\ LET status == EvaluationStatus(Cmd(c))
           targets == Targets(Cmd(c))
       IN IF status = "ready"
            THEN /\ occurrence' = [o \in Occurrences |->
                                     IF \E r \in targets : r[1] = o THEN c ELSE occurrence[o]]
                 /\ call' = [call EXCEPT ![c].pc = "write",
                                 ![c].plan = {r \in targets \ evidence : r[1] \in Evaluable}]
                 /\ UNCHANGED <<asset, table>>
            ELSE End(c, status)
    /\ UNCHANGED <<completed, pointer, rows, clock, faults>>

-----------------------------------------------------------------------------
(* The writes and the commit. *)

WriteFinding(c) ==
    /\ At(c, "write") /\ Cmd(c).op = "create"
    /\ finding' = [upload |-> Cmd(c).upload, links |-> Cmd(c).evidence,
                   first |-> call[c].at, last |-> call[c].at]
    /\ Commit(c, "created")
    /\ UNCHANGED <<completed, pointer, evidence, observations, clock>>

(* Mutant: the trigger accepts any time. *)
AnyTime(at) == TRUE

(* patchpilot_finding_reject_update: last_observed_at never goes back. *)
Forward(at) == at >= finding.last

(* The links' foreign key waits for the occurrences (FOR KEY SHARE). *)
OccurrencesFree(c) == \A o \in Of(Cmd(c).upload) : occurrence[o] = None

WriteObservation(c) ==
    /\ At(c, "write") /\ Cmd(c).op = "observe" /\ OccurrencesFree(c)
    /\ IF Forward(call[c].at)
         THEN /\ observations' = observations \cup
                   {[upload |-> Cmd(c).upload, at |-> call[c].at,
                     links |-> Cmd(c).evidence, unknown |-> Cmd(c).unknown,
                     aggregate |-> Aggregate(Cmd(c).evidence, Cmd(c).unknown)]}
              /\ finding' = [finding EXCEPT !.last = call[c].at]
              /\ Commit(c, "observed")
         ELSE End(c, "transaction_aborted") /\ UNCHANGED <<finding, observations, faults>>
    /\ UNCHANGED <<completed, pointer, evidence, clock>>

(* The insert waits for the table's lock. *)
WriteEvidence(c) ==
    /\ At(c, "write") /\ Cmd(c).op \in {"evaluate", "commit"} /\ table = None
    /\ evidence' = evidence \cup call[c].plan
    /\ Commit(c, IF Cmd(c).op = "commit" THEN "applied" ELSE "evaluated")
    /\ UNCHANGED <<completed, pointer, finding, observations, clock>>

(* A statement fails or times out: everything is rolled back. *)
Fault(c) ==
    /\ call[c].pc \notin {"idle", "ended"}
    /\ faults < MaxFaults /\ faults' = faults + 1
    /\ End(c, "internal_failure")
    /\ UNCHANGED <<completed, pointer, rows, clock>>

(* An observation that waits for an occurrence whose evaluation waits for  *)
(* the table: PostgreSQL fails one of the two.                             *)
BreakDeadlock(c, d) ==
    /\ At(c, "write") /\ Cmd(c).op = "observe" /\ ~OccurrencesFree(c)
    /\ At(d, "write") /\ \E o \in Of(Cmd(c).upload) : occurrence[o] = d
    /\ \E victim \in {c, d} : End(victim, "internal_failure")
    /\ UNCHANGED <<completed, pointer, rows, clock, faults>>

(* Mutant: the candidate is not ranked against the current upload. *)
PointerToCandidate(candidate) == candidate

(* replaceAssetPointerIfCandidateIsCurrent *)
PointerAfter(candidate) == IF candidate > pointer THEN candidate ELSE pointer

(* The graph transaction of an upload commits, holding the asset. *)
Complete(upload) ==
    /\ upload \notin completed /\ asset = None
    /\ completed' = completed \cup {upload}
    /\ pointer' = PointerAfter(upload)
    /\ UNCHANGED <<rows, clock, locks, call, faults>>

Next ==
    \/ Tick
    \/ \E upload \in Uploads : Complete(upload)
    \/ \E c \in Calls :
          \/ \E cmd \in Commands : Begin(c, cmd)
          \/ LockAsset(c) \/ LockTable(c) \/ LockOccurrences(c)
          \/ WriteFinding(c) \/ WriteObservation(c) \/ WriteEvidence(c)
          \/ Fault(c)
          \/ \E d \in Calls : BreakDeadlock(c, d)

Spec == Init /\ [][Next]_vars

-----------------------------------------------------------------------------
(* The reader, selectFindingLatestObservation, on the committed rows.  The  *)
(* revisions behind the evidence stay in force.                            *)

parseCreation == \A r, s \in finding.links : r[1] = s[1] => r = s

parseRepeated(x) ==
    /\ x.upload > finding.upload
    /\ {r[1] : r \in x.links} \cup x.unknown = Of(x.upload)
    /\ \A r, s \in x.links : r[1] = s[1] => r = s
    /\ x.unknown \subseteq Occurrences \ Known
    /\ \A r \in evidence : r[1] \notin x.unknown
    /\ x.aggregate = Aggregate(x.links, x.unknown)

identitiesUnique == \A x, y \in observations : x.upload = y.upload => x = y

timestampsAgree ==
    /\ finding.first <= finding.last
    /\ \A x \in observations : finding.first <= x.at /\ x.at <= finding.last
    /\ IF observations = {} THEN finding.last = finding.first
                             ELSE \E x \in observations : x.at = finding.last

WellFormed ==
    /\ parseCreation /\ (\A x \in observations : parseRepeated(x))
    /\ identitiesUnique /\ timestampsAgree

(* compareLatest: the greatest observed_at; among equals the uuid of the    *)
(* ingestion decides, which may favour any of them.                        *)
Latest == {x \in observations : \A y \in observations : y.at <= x.at}

hasProductMatchEvidence(x) == x.links # {}

(* What the reader may answer.  The asset's current upload is compared with  *)
(* the observation selected only, and with that only if it rests on evidence. *)
Readings ==
    CASE ~WellFormed -> {"malformed_persisted_state"}
      [] WellFormed /\ observations = {} ->
           {IF finding.upload = pointer THEN "found" ELSE "integrity_failure"}
      [] WellFormed /\ observations # {} ->
           {IF hasProductMatchEvidence(x) /\ x.upload # pointer THEN "integrity_failure"
            ELSE "found" : x \in Latest}

-----------------------------------------------------------------------------
(* Properties. *)

(* Type correctness. *)
TypeOK ==
    /\ completed \subseteq Uploads /\ pointer \in {0} \cup completed
    /\ evidence \subseteq Rows
    /\ clock \in 0..MaxClock /\ faults \in 0..MaxFaults
    /\ asset \in Calls \cup {None} /\ table \in Calls \cup {None}
    /\ occurrence \in [Occurrences -> Calls \cup {None}]
    /\ \A c \in Calls : call[c].pc \in {"idle", "asset", "table", "occurrences", "write", "ended"}

(* What a caller was told stays true, however its call interleaved with    *)
(* others, with uploads that completed meanwhile and with lost              *)
(* acknowledgements: applied and already_applied mean that exactly what it  *)
(* named is stored, a conflict that something else is, and a finished       *)
(* evaluation that every evaluable occurrence of an upload was evaluated.   *)
FindingAnswersAreTrue ==
    \A c \in Calls : call[c].pc = "ended" =>
        LET cmd == Cmd(c)
            answer == call[c].answer
        IN /\ cmd.op = "create" =>
                /\ answer \in {"created", "already_applied"} =>
                      finding # None /\ finding.upload = cmd.upload /\ finding.links = cmd.evidence
                /\ answer = "immutable_conflict" => finding # None /\ finding.links # cmd.evidence
                /\ answer = "finding_already_exists" => finding # None /\ finding.upload # cmd.upload
           /\ cmd.op = "observe" /\ answer \in {"observed", "already_applied"} =>
                \E x \in observations : /\ x.upload = cmd.upload
                                         /\ x.links = cmd.evidence /\ x.unknown = cmd.unknown
           /\ cmd.op = "evaluate" /\ answer \in {"evaluated", "already_applied"} =>
                \E g \in completed : /\ Of(g) \cap Evaluable # {}
                                     /\ (Of(g) \cap Evaluable) \X {cmd.advisory} \subseteq evidence
           /\ cmd.op = "commit" /\ answer = "applied" => cmd.row \in evidence

(* Observation times are those at which transactions began, before they    *)
(* waited; still the observation that the reader calls the latest is not of *)
(* an older upload than another observation, unless their times are equal.  *)
LatestIsOfNewestUpload ==
    \A x \in Latest : \A y \in observations : y.upload > x.upload => y.at = x.at

(* What the writers commit the reader reads: it never meets malformed       *)
(* persisted state, except in a finding created from two advisories'        *)
(* evidence about one occurrence; and it refuses a finding as out of date    *)
(* only until the asset's current upload is observed, or while that          *)
(* observation shares its time with an older one.                           *)
CommittedIsReadable ==
    finding # None =>
        /\ "malformed_persisted_state" \in Readings => ~parseCreation
        /\ "integrity_failure" \in Readings =>
              \/ pointer \notin {finding.upload} \cup {x.upload : x \in observations}
              \/ \E x, y \in Latest : x # y
=============================================================================

---------------------- MODULE ControlledFindings_proof ----------------------
(***************************************************************************)
(* Proofs about ControlledFindings, for any uploads, occurrences,          *)
(* advisories, demands, calls and faults.  What carries them is the lock   *)
(* on the asset: whoever is past it reads the same current upload, finding *)
(* and observations until its transaction ends.                            *)
(***************************************************************************)
EXTENDS ControlledFindings, FiniteSetTheorems, TLAPS

-----------------------------------------------------------------------------
(* The inductive invariant.                                                *)

Findings == [upload : Uploads, links : SUBSET Rows, first : Nat, last : Nat]

Observed == [upload : Uploads, at : Nat, links : SUBSET Rows,
             unknown : SUBSET Occurrences,
             aggregate : {"component_absent", "affected", "unknown", "unaffected"}]

DemandsAsked == [op : {"create", "observe"}, upload : Uploads,
                 evidence : SUBSET Rows, unknown : SUBSET Occurrences]

EvaluationsAsked == [op : {"evaluate"}, advisory : Advisories]

CommitsAsked == [op : {"commit"}, row : Rows]

Asked == DemandsAsked \cup EvaluationsAsked \cup CommitsAsked

\* Answers that say something about what is stored, and the others.
Promises == {"created", "already_applied", "immutable_conflict", "finding_already_exists",
             "observed", "evaluated", "applied"}

Answers ==
    Promises \cup
    {"ingestion_not_completed", "ingestion_not_latest", "ingestion_not_later",
     "no_successful_ingestion", "no_relevant_occurrence", "no_evaluable_occurrence",
     "evidence_not_current", "evidence_not_affected", "evidence_set_mismatch",
     "evidence_unavailable", "rejected", "transaction_aborted", "internal_failure"}

CallRecords == [pc : {"idle", "asset", "table", "occurrences", "write", "ended"},
                cmd : Asked \cup {None}, at : Nat, plan : SUBSET Rows,
                answer : Answers \cup {None}]

\* Every row and every call has the fields the code gives it.
Types ==
    /\ TypeOK
    /\ finding \in Findings \cup {None}
    /\ observations \subseteq Observed
    /\ call \in [Calls -> CallRecords]
    /\ \A c \in Calls : call[c].pc # "idle" => call[c].cmd \in Asked

\* The rows agree with each other: the current upload is the newest, every row
\* the reader meets is one it accepts, and later uploads are observed later.
Store ==
    /\ \A u \in completed : u <= pointer
    /\ \A r \in evidence : r[1] \in Evaluable
    /\ finding = None => observations = {}
    /\ \A x \in observations : x.upload <= pointer /\ parseRepeated(x)
    /\ identitiesUnique
    /\ finding # None => timestampsAgree
    /\ \A x, y \in observations : y.upload > x.upload => y.at >= x.at

\* What an observation names is one row for each occurrence with a known
\* version, and the occurrences without one.
Covers(cmd) ==
    /\ {r[1] : r \in cmd.evidence} \cup cmd.unknown = Of(cmd.upload)
    /\ \A r, s \in cmd.evidence : r[1] = s[1] => r = s
    /\ cmd.unknown \subseteq Occurrences \ Known

\* The call is past the lock of the asset.
Inside(c) ==
    \/ call[c].pc \in {"table", "write"} /\ Cmd(c).op \in {"create", "observe"}
    \/ call[c].pc \in {"occurrences", "write"} /\ Cmd(c).op = "evaluate"

\* What a transaction that has not ended has found out, and still holds.
CallOK(c) ==
    /\ call[c].pc = "asset" => Cmd(c).op # "commit"
    /\ call[c].pc = "table" => Cmd(c).op \in {"create", "observe"}
    /\ call[c].pc = "occurrences" => Cmd(c).op \in {"evaluate", "commit"}
    /\ \A r \in call[c].plan : r[1] \in Evaluable
    /\ Inside(c) => asset = c
    /\ Inside(c) /\ Cmd(c).op = "create" => finding = None
    /\ call[c].pc # "idle" /\ Cmd(c).op = "observe" => finding # None
    /\ Inside(c) /\ Cmd(c).op = "observe" =>
          Cmd(c).upload \in completed /\ Cmd(c).upload = pointer /\ Cmd(c).upload > finding.upload
    /\ call[c].pc = "write" /\ Cmd(c).op = "observe" =>
          Stored(Cmd(c).upload) = {} /\ Covers(Cmd(c))
    /\ call[c].pc = "write" /\ Cmd(c).op = "evaluate" =>
          /\ Of(pointer) \cap Evaluable # {}
          /\ \A o \in Of(pointer) \cap Evaluable : <<o, Cmd(c).advisory>> \in evidence \cup call[c].plan
    /\ call[c].pc = "write" /\ Cmd(c).op = "commit" => Cmd(c).row \in evidence \cup call[c].plan

\* FindingAnswersAreTrue, for one call.
AnswerTrue(c) ==
    call[c].pc = "ended" =>
        /\ Cmd(c).op = "create" =>
              /\ call[c].answer \in {"created", "already_applied"} =>
                    /\ finding # None
                    /\ finding.upload = Cmd(c).upload
                    /\ finding.links = Cmd(c).evidence
              /\ call[c].answer = "immutable_conflict" =>
                    finding # None /\ finding.links # Cmd(c).evidence
              /\ call[c].answer = "finding_already_exists" =>
                    finding # None /\ finding.upload # Cmd(c).upload
        /\ Cmd(c).op = "observe" /\ call[c].answer \in {"observed", "already_applied"} =>
              \E x \in observations : /\ x.upload = Cmd(c).upload
                                       /\ x.links = Cmd(c).evidence
                                       /\ x.unknown = Cmd(c).unknown
        /\ Cmd(c).op = "evaluate" /\ call[c].answer \in {"evaluated", "already_applied"} =>
              \E g \in completed :
                  /\ Of(g) \cap Evaluable # {}
                  /\ (Of(g) \cap Evaluable) \X {Cmd(c).advisory} \subseteq evidence
        /\ Cmd(c).op = "commit" /\ call[c].answer = "applied" => Cmd(c).row \in evidence

FindingInv ==
    Types /\ Store /\ \A c \in Calls : CallOK(c) /\ AnswerTrue(c)

-----------------------------------------------------------------------------
(* Commands, and the end of a transaction.                                 *)

\* A command carries the fields of its operation.
LEMMA AskedFields ==
    ASSUME NEW cmd \in Asked
    PROVE  /\ cmd.op \in {"create", "observe", "evaluate", "commit"}
           /\ cmd.op \in {"create", "observe"} =>
                 /\ cmd.upload \in Uploads
                 /\ cmd.evidence \subseteq Rows
                 /\ cmd.unknown \subseteq Occurrences
           /\ cmd.op = "evaluate" => cmd.advisory \in Advisories
           /\ cmd.op = "commit" => cmd.row \in Rows
<1>1. CASE cmd \in DemandsAsked
      BY <1>1 DEF DemandsAsked
<1>2. CASE cmd \in EvaluationsAsked
      BY <1>2 DEF EvaluationsAsked
<1>3. CASE cmd \in CommitsAsked
      BY <1>3 DEF CommitsAsked
<1> QED BY <1>1, <1>2, <1>3 DEF Asked

\* What a caller may ask is one of them, and an observation is of a finding.
LEMMA CommandTypes ==
    ASSUME NEW cmd \in Commands
    PROVE  cmd \in Asked /\ (cmd.op = "observe" => finding # None)
<1>1. CASE cmd \in {d \in Demands : d.evidence \subseteq evidence /\ (d.op = "observe" => finding # None)}
      BY <1>1, FindingAssumption DEF Asked, DemandsAsked
<1>2. CASE cmd \in [op : {"evaluate"}, advisory : Advisories]
      BY <1>2 DEF Asked, EvaluationsAsked
<1>3. CASE cmd \in [op : {"commit"}, row : {r \in Rows : UploadOf[r[1]] \in completed}]
      BY <1>3 DEF Asked, CommitsAsked
<1> QED BY <1>1, <1>2, <1>3 DEF Commands

\* The fields of a call.
LEMMA CallFields ==
    ASSUME Types, NEW c \in Calls
    PROVE  /\ call[c].pc \in {"idle", "asset", "table", "occurrences", "write", "ended"}
           /\ call[c].at \in Nat
           /\ call[c].plan \subseteq Rows
           /\ call[c].pc # "idle" => Cmd(c) \in Asked
BY DEF Types, CallRecords, Cmd

\* A transaction that ends keeps its command and gives up its locks, and only its own.
LEMMA EndEffect ==
    ASSUME Types, NEW c \in Calls, NEW a \in Answers, End(c, a), call[c].pc # "idle"
    PROVE  /\ call' \in [Calls -> CallRecords]
           /\ call'[c].pc = "ended" /\ call'[c].cmd = call[c].cmd
           /\ call'[c].answer = a /\ call'[c].plan = {}
           /\ \A d \in Calls \ {c} : call'[d] = call[d]
           /\ \A d \in Calls : call'[d].pc # "idle" => call'[d].cmd \in Asked
           /\ \A d \in Calls \ {c} : asset = d => asset' = d
           /\ asset' \in Calls \cup {None} /\ table' \in Calls \cup {None}
           /\ occurrence' \in [Occurrences -> Calls \cup {None}]
<1>1. call[c] \in CallRecords
      BY DEF Types
<1>2. call' = [call EXCEPT ![c] = [call[c] EXCEPT !.pc = "ended", !.answer = a, !.plan = {}]]
      BY DEF End, Types
<1>3. [call[c] EXCEPT !.pc = "ended", !.answer = a, !.plan = {}] \in CallRecords
      BY <1>1 DEF CallRecords
<1>4. /\ call'[c].pc = "ended" /\ call'[c].cmd = call[c].cmd
      /\ call'[c].answer = a /\ call'[c].plan = {}
      BY <1>1, <1>2, <1>3 DEF Types, CallRecords
<1>5. /\ call' \in [Calls -> CallRecords]
      /\ \A d \in Calls \ {c} : call'[d] = call[d]
      BY <1>2, <1>3 DEF Types
<1>6. \A d \in Calls : call'[d].pc # "idle" => call'[d].cmd \in Asked
      BY <1>4, <1>5 DEF Types
<1>7. /\ \A d \in Calls \ {c} : asset = d => asset' = d
      /\ asset' \in Calls \cup {None} /\ table' \in Calls \cup {None}
      /\ occurrence' \in [Occurrences -> Calls \cup {None}]
      BY DEF End, Types, TypeOK
<1> QED BY <1>4, <1>5, <1>6, <1>7

\* Types once the rows and the clock are right: a transaction ended.
LEMMA EndTypes ==
    ASSUME Types, NEW c \in Calls, NEW a \in Answers, End(c, a), call[c].pc # "idle",
           UNCHANGED <<completed, pointer, clock>>, faults' \in 0..MaxFaults,
           evidence' \subseteq Rows, finding' \in Findings \cup {None},
           observations' \subseteq Observed
    PROVE  Types'
<1>1. /\ call' \in [Calls -> CallRecords]
      /\ \A d \in Calls : call'[d].pc # "idle" => call'[d].cmd \in Asked
      /\ asset' \in Calls \cup {None} /\ table' \in Calls \cup {None}
      /\ occurrence' \in [Occurrences -> Calls \cup {None}]
      BY EndEffect
<1>2. \A d \in Calls : call'[d].pc \in {"idle", "asset", "table", "occurrences", "write", "ended"}
      BY <1>1 DEF CallRecords
<1> QED BY <1>1, <1>2 DEF Types, TypeOK

\* A commit ends the transaction, answered or not.
LEMMA CommitEffect ==
    ASSUME Types, NEW c \in Calls, NEW a \in Answers, Commit(c, a)
    PROVE  /\ faults' \in 0..MaxFaults
           /\ End(c, a) \/ End(c, "internal_failure")
BY FindingAssumption DEF Commit, Types, TypeOK

-----------------------------------------------------------------------------
(* What a step leaves alone for the calls that do not take it.             *)

\* The rows only grow, a finding keeps what it was created from, and nothing
\* that a call inside the asset's lock has read changes.
Kept(d) ==
    /\ call'[d] = call[d]
    /\ asset = d => /\ asset' = d /\ pointer' = pointer
                    /\ finding' = finding /\ observations' = observations
    /\ evidence \subseteq evidence' /\ completed \subseteq completed'
    /\ observations \subseteq observations'
    /\ finding # None => /\ finding' # None
                         /\ finding'.upload = finding.upload /\ finding'.links = finding.links

\* Then what the call has found out still holds, and so does what it was told.
LEMMA KeptIsOK ==
    ASSUME NEW d \in Calls, Kept(d), CallOK(d), AnswerTrue(d)
    PROVE  CallOK(d)' /\ AnswerTrue(d)'
<1>1. Inside(d)' <=> Inside(d)
      BY DEF Inside, Kept, Cmd
<1>2. /\ (call[d].pc = "asset" => Cmd(d).op # "commit")'
      /\ (call[d].pc = "table" => Cmd(d).op \in {"create", "observe"})'
      /\ (call[d].pc = "occurrences" => Cmd(d).op \in {"evaluate", "commit"})'
      /\ (\A r \in call[d].plan : r[1] \in Evaluable)'
      BY DEF CallOK, Kept, Cmd
<1>3. /\ (Inside(d) => asset = d)'
      /\ (Inside(d) /\ Cmd(d).op = "create" => finding = None)'
      /\ (call[d].pc # "idle" /\ Cmd(d).op = "observe" => finding # None)'
      BY <1>1 DEF CallOK, Kept, Cmd
<1>4. (Inside(d) /\ Cmd(d).op = "observe" =>
          Cmd(d).upload \in completed /\ Cmd(d).upload = pointer /\ Cmd(d).upload > finding.upload)'
      BY <1>1 DEF CallOK, Kept, Cmd
<1>5. (call[d].pc = "write" /\ Cmd(d).op = "observe" =>
          Stored(Cmd(d).upload) = {} /\ Covers(Cmd(d)))'
      BY DEF CallOK, Kept, Cmd, Stored, Inside, Covers
<1>6. (call[d].pc = "write" /\ Cmd(d).op = "evaluate" =>
          /\ Of(pointer) \cap Evaluable # {}
          /\ \A o \in Of(pointer) \cap Evaluable : <<o, Cmd(d).advisory>> \in evidence \cup call[d].plan)'
      BY DEF CallOK, Kept, Cmd, Inside
<1>7. (call[d].pc = "write" /\ Cmd(d).op = "commit" => Cmd(d).row \in evidence \cup call[d].plan)'
      BY DEF CallOK, Kept, Cmd
<1>8. AnswerTrue(d)'
      BY DEF AnswerTrue, Kept, Cmd
<1> QED BY <1>2, <1>3, <1>4, <1>5, <1>6, <1>7, <1>8 DEF CallOK

\* A transaction that ended without writing leaves all other calls alone.
LEMMA EndKeeps ==
    ASSUME Types, NEW c \in Calls, NEW a \in Answers, End(c, a), call[c].pc # "idle",
           UNCHANGED <<completed, pointer, rows>>
    PROVE  \A d \in Calls \ {c} : Kept(d)
BY EndEffect DEF Kept, rows

\* A call that has ended holds nothing; what is left is its answer.
LEMMA EndedIsOK ==
    ASSUME Types, NEW c \in Calls, NEW a \in Answers, End(c, a), call[c].pc # "idle",
           CallOK(c), finding # None => finding' # None
    PROVE  CallOK(c)'
BY EndEffect DEF CallOK, Inside, Cmd

\* Answers that promise nothing.
LEMMA EmptyAnswer ==
    ASSUME Types, NEW c \in Calls, NEW a \in Answers, End(c, a), call[c].pc # "idle",
           a \notin Promises
    PROVE  AnswerTrue(c)'
BY EndEffect DEF AnswerTrue, Cmd, Promises

\* The rows do not change, so they still agree.
LEMMA StoreKept ==
    ASSUME Store, UNCHANGED <<completed, pointer, rows>>
    PROVE  Store'
BY DEF Store, rows, identitiesUnique, timestampsAgree, parseRepeated

\* A transaction ends without a write and its answer is true.
LEMMA EndStep ==
    ASSUME FindingInv, NEW c \in Calls, NEW a \in Answers, End(c, a), call[c].pc # "idle",
           UNCHANGED <<completed, pointer, rows, clock>>, faults' \in 0..MaxFaults,
           AnswerTrue(c)'
    PROVE  FindingInv'
<1>1. Types'
      BY EndTypes DEF FindingInv, Types, TypeOK, rows
<1>2. Store'
      BY StoreKept DEF FindingInv
<1>3. CallOK(c)'
      BY EndedIsOK DEF FindingInv, rows
<1>4. \A d \in Calls \ {c} : CallOK(d)' /\ AnswerTrue(d)'
      BY EndKeeps, KeptIsOK DEF FindingInv
<1> QED BY <1>1, <1>2, <1>3, <1>4 DEF FindingInv

\* A statement that fails rolls everything back.
LEMMA FaultStep ==
    ASSUME FindingInv, NEW c \in Calls, Fault(c)
    PROVE  FindingInv'
<1>1. faults' \in 0..MaxFaults
      BY FindingAssumption DEF Fault, FindingInv, Types, TypeOK
<1>2. AnswerTrue(c)'
      BY EmptyAnswer DEF Fault, FindingInv, Answers, Promises
<1> QED BY <1>1, <1>2, EndStep DEF Fault, Answers, Promises

\* So does the victim of a deadlock.
LEMMA DeadlockStep ==
    ASSUME FindingInv, NEW c \in Calls, NEW d \in Calls, BreakDeadlock(c, d)
    PROVE  FindingInv'
<1>1. PICK victim \in {c, d} : End(victim, "internal_failure")
      BY DEF BreakDeadlock
<1>2. victim \in Calls /\ call[victim].pc # "idle"
      BY <1>1 DEF BreakDeadlock, At
<1>3. AnswerTrue(victim)'
      BY <1>1, <1>2, EmptyAnswer DEF FindingInv, Answers, Promises
<1>4. faults' \in 0..MaxFaults
      BY DEF BreakDeadlock, FindingInv, Types, TypeOK
<1> QED BY <1>1, <1>2, <1>3, <1>4, EndStep DEF BreakDeadlock, Answers, Promises

-----------------------------------------------------------------------------
(* Begin, the clock and the graph transaction.                             *)

\* The clock moves and nothing else does.
LEMMA TickStep ==
    ASSUME FindingInv, Tick
    PROVE  FindingInv'
<1>1. Types'
      BY FindingAssumption DEF Tick, FindingInv, Types, TypeOK, rows, locks
<1>2. Store'
      BY StoreKept DEF Tick, FindingInv
<1>3. \A d \in Calls : Kept(d)
      BY DEF Tick, Kept, rows, locks
<1> QED BY <1>1, <1>2, <1>3, KeptIsOK DEF FindingInv

\* A call begins with nothing but its command.
LEMMA BeginStep ==
    ASSUME FindingInv, NEW c \in Calls, NEW cmd \in Commands, Begin(c, cmd)
    PROVE  FindingInv'
<1> DEFINE first == IF cmd.op = "commit" THEN "occurrences" ELSE "asset"
           time == IF cmd.op \in {"create", "observe"} THEN clock ELSE 0
           fresh == [Idle EXCEPT !.pc = first, !.cmd = cmd, !.at = time]
<1>1. cmd \in Asked /\ (cmd.op = "observe" => finding # None)
      BY CommandTypes
<1>2. /\ fresh.pc = IF cmd.op = "commit" THEN "occurrences" ELSE "asset"
      /\ fresh.cmd = cmd /\ fresh.plan = {} /\ fresh \in CallRecords
  <2>1. first \in {"occurrences", "asset"} /\ time \in Nat
        BY FindingAssumption DEF FindingInv, Types, TypeOK
  <2>2. first = IF cmd.op = "commit" THEN "occurrences" ELSE "asset"
        OBVIOUS
  <2> HIDE DEF first, time
  <2>3. Idle \in CallRecords /\ Idle.plan = {}
        BY DEF Idle, CallRecords
  <2>4. /\ fresh.pc = first /\ fresh.cmd = cmd /\ fresh.plan = {}
        /\ fresh \in CallRecords
        BY <1>1, <2>1, <2>3 DEF CallRecords
  <2> HIDE DEF fresh
  <2> QED BY <2>2, <2>4
<1>3. call' = [call EXCEPT ![c] = fresh]
      BY DEF Begin
<1> HIDE DEF fresh
<1>4. call'[c] = fresh /\ \A d \in Calls \ {c} : call'[d] = call[d]
      BY <1>3 DEF FindingInv, Types
<1>5. Types'
  <2>1. call' \in [Calls -> CallRecords]
        BY <1>2, <1>3 DEF FindingInv, Types
  <2>2. \A d \in Calls : call'[d].pc \in {"idle", "asset", "table", "occurrences", "write", "ended"}
        BY <2>1 DEF CallRecords
  <2>3. \A d \in Calls : call'[d].pc # "idle" => call'[d].cmd \in Asked
        BY <1>1, <1>2, <1>4 DEF FindingInv, Types
  <2> QED BY <2>1, <2>2, <2>3 DEF Begin, FindingInv, Types, TypeOK, rows, locks
<1>6. Store'
      BY StoreKept DEF Begin, FindingInv
<1>7. \A d \in Calls \ {c} : Kept(d)
      BY <1>4 DEF Begin, Kept, rows, locks
<1>8. CallOK(c)' /\ AnswerTrue(c)'
      BY <1>1, <1>2, <1>4, AskedFields DEF CallOK, AnswerTrue, Inside, Cmd, Begin, rows
<1> QED BY <1>5, <1>6, <1>7, <1>8, KeptIsOK DEF FindingInv

\* The pointer goes to the newest completed upload.  Nobody is inside the
\* asset's lock meanwhile.
LEMMA CompleteStep ==
    ASSUME FindingInv, NEW upload \in Uploads, Complete(upload)
    PROVE  FindingInv'
<1>1. /\ pointer \in Nat /\ pointer' \in Nat /\ upload \in Nat
      /\ pointer' >= pointer /\ pointer' >= upload
      /\ pointer' \in {0} \cup completed'
      /\ \A u \in completed : u \in Nat
      BY FindingAssumption DEF Complete, PointerAfter, FindingInv, Types, TypeOK, Uploads
<1>2. Types'
      BY <1>1 DEF Complete, FindingInv, Types, TypeOK, rows, locks
<1>3. \A x \in observations : x.upload \in Nat
      BY FindingAssumption DEF FindingInv, Types, Observed, Uploads
<1>4. Store'
  <2>1. (\A u \in completed : u <= pointer)'
        BY <1>1 DEF Complete, FindingInv, Store
  <2>2. (\A x \in observations : x.upload <= pointer /\ parseRepeated(x))'
        BY <1>1, <1>3 DEF Complete, FindingInv, Store, parseRepeated, rows
  <2> QED BY <2>1, <2>2 DEF Complete, FindingInv, Store, identitiesUnique, timestampsAgree, rows
<1>5. \A d \in Calls : Kept(d)
      BY FindingAssumption DEF Complete, Kept, rows, locks
<1> QED BY <1>2, <1>4, <1>5, KeptIsOK DEF FindingInv

-----------------------------------------------------------------------------
(* Taking the locks.                                                       *)

\* A call goes on to its next statement, perhaps with a plan.
LEMMA AdvanceTypes ==
    ASSUME Types, NEW c \in Calls, NEW pc \in {"table", "occurrences", "write"},
           NEW plan \in SUBSET Rows,
           call' = [call EXCEPT ![c].pc = pc, ![c].plan = plan],
           call[c].pc # "idle",
           UNCHANGED <<completed, pointer, rows, clock, faults>>,
           asset' \in Calls \cup {None}, table' \in Calls \cup {None},
           occurrence' \in [Occurrences -> Calls \cup {None}]
    PROVE  /\ Types'
           /\ call'[c].pc = pc /\ call'[c].plan = plan /\ call'[c].cmd = call[c].cmd
           /\ \A d \in Calls \ {c} : call'[d] = call[d]
<1>1. call[c] \in CallRecords
      BY DEF Types
<1>2. call' = [call EXCEPT ![c] = [call[c] EXCEPT !.pc = pc, !.plan = plan]]
      BY DEF Types
<1>3. [call[c] EXCEPT !.pc = pc, !.plan = plan] \in CallRecords
      BY <1>1 DEF CallRecords
<1>4. call'[c].pc = pc /\ call'[c].plan = plan /\ call'[c].cmd = call[c].cmd
      BY <1>1, <1>2, <1>3 DEF Types, CallRecords
<1>5. call' \in [Calls -> CallRecords] /\ \A d \in Calls \ {c} : call'[d] = call[d]
      BY <1>2, <1>3 DEF Types
<1>6. \A d \in Calls : /\ call'[d].pc # "idle" => call'[d].cmd \in Asked
                       /\ call'[d].pc \in {"idle", "asset", "table", "occurrences", "write", "ended"}
      BY <1>4, <1>5 DEF Types, CallRecords
<1> QED BY <1>4, <1>5, <1>6 DEF Types, TypeOK, rows

\* The same without a plan.
LEMMA GotoTypes ==
    ASSUME Types, NEW c \in Calls, NEW pc \in {"table", "occurrences", "write"},
           call' = [call EXCEPT ![c].pc = pc], call[c].pc # "idle",
           UNCHANGED <<completed, pointer, rows, clock, faults>>,
           asset' \in Calls \cup {None}, table' \in Calls \cup {None},
           occurrence' \in [Occurrences -> Calls \cup {None}]
    PROVE  /\ Types'
           /\ call'[c].pc = pc /\ call'[c].plan = call[c].plan /\ call'[c].cmd = call[c].cmd
           /\ \A d \in Calls \ {c} : call'[d] = call[d]
<1>1. call[c] \in CallRecords
      BY DEF Types
<1>2. call' = [call EXCEPT ![c].pc = pc, ![c].plan = call[c].plan]
      BY <1>1 DEF Types, CallRecords
<1>3. call[c].plan \in SUBSET Rows
      BY <1>1 DEF CallRecords
<1> QED BY <1>2, <1>3, AdvanceTypes, ZenonT(60)

\* Why an observation is turned down at the asset's lock.
LEMMA TargetAnswers ==
    ASSUME NEW upload
    PROVE  /\ TargetStatus(upload) \in {"ready", "ingestion_not_completed",
                                        "ingestion_not_latest", "ingestion_not_later"}
           /\ TargetStatus(upload) = "ready" =>
                 upload \in completed /\ upload = pointer /\ ~(upload <= finding.upload)
BY DEF TargetStatus

\* Why an evaluation is.
LEMMA SelectionAnswers ==
    SelectionStatus \in {"ready", "no_successful_ingestion", "no_relevant_occurrence"}
BY DEF SelectionStatus

\* What a creation is told about a finding that exists.
LEMMA StoredAnswers ==
    ASSUME NEW cmd
    PROVE  /\ classifyStored(cmd) \in {"immutable_conflict", "finding_already_exists", "already_applied"}
           /\ classifyStored(cmd) = "immutable_conflict" => finding.links # cmd.evidence
           /\ classifyStored(cmd) = "finding_already_exists" => finding.upload # cmd.upload
           /\ classifyStored(cmd) = "already_applied" =>
                 finding.links = cmd.evidence /\ finding.upload = cmd.upload
BY DEF classifyStored

\* The asset is locked by whoever goes on; the others are told why not.
LEMMA LockAssetStep ==
    ASSUME FindingInv, NEW c \in Calls, LockAsset(c)
    PROVE  FindingInv'
<1> DEFINE status == LockStatus(Cmd(c))
<1>1. /\ call[c].pc = "asset" /\ asset = None /\ Types /\ Store /\ CallOK(c)
      /\ Cmd(c) \in Asked
      BY CallFields DEF LockAsset, At, FindingInv
<1>2. Cmd(c).op \in {"create", "observe", "evaluate"}
      BY <1>1, AskedFields DEF CallOK
<1>3. UNCHANGED <<completed, pointer, rows, clock, faults>>
      BY DEF LockAsset
<1>4. CASE status # "ready"
  <2>1. End(c, status)
        BY <1>4 DEF LockAsset
  <2>2. CASE Cmd(c).op = "create"
    <3>1. finding # None /\ status = classifyStored(Cmd(c))
          BY <1>4, <2>2 DEF LockStatus
    <3>2. status \in Answers
          BY <3>1, StoredAnswers DEF Answers, Promises
    <3>3. AnswerTrue(c)'
          BY <1>1, <1>3, <2>1, <2>2, <3>1, <3>2, StoredAnswers, EndEffect DEF AnswerTrue, Cmd, rows
    <3> QED BY <1>1, <1>3, <2>1, <3>2, <3>3, EndStep DEF Types, TypeOK
  <2>3. CASE Cmd(c).op \in {"observe", "evaluate"}
    <3>1. status \in Answers \ Promises
          BY <1>4, <2>3, TargetAnswers, SelectionAnswers DEF LockStatus, Answers, Promises
    <3>2. AnswerTrue(c)'
          BY <1>1, <2>1, <3>1, EmptyAnswer
    <3> QED BY <1>1, <1>3, <2>1, <3>1, <3>2, EndStep DEF Types, TypeOK
  <2> QED BY <1>2, <2>2, <2>3
<1>5. CASE status = "ready"
  <2>1. /\ asset' = c /\ UNCHANGED <<table, occurrence>>
        /\ call' = [call EXCEPT ![c].pc = IF Cmd(c).op = "evaluate" THEN "occurrences" ELSE "table"]
        BY <1>5 DEF LockAsset
  <2>2. /\ Types' /\ call'[c].pc = IF Cmd(c).op = "evaluate" THEN "occurrences" ELSE "table"
        /\ call'[c].plan = call[c].plan /\ call'[c].cmd = call[c].cmd
        /\ \A d \in Calls \ {c} : call'[d] = call[d]
        BY <1>1, <1>3, <2>1, GotoTypes DEF Types, TypeOK
  <2>3. Store'
        BY <1>1, <1>3, StoreKept
  <2>4. \A d \in Calls \ {c} : Kept(d)
        BY <1>1, <1>3, <2>2, FindingAssumption DEF Kept, rows
  <2>5. CallOK(c)'
    <3>1. Cmd(c).op = "create" => finding = None
          BY <1>5, StoredAnswers DEF LockStatus
    <3>2. Cmd(c).op = "observe" =>
            /\ finding # None /\ Cmd(c).upload \in completed
            /\ Cmd(c).upload = pointer /\ Cmd(c).upload > finding.upload
      <4> SUFFICES ASSUME Cmd(c).op = "observe"
                   PROVE  /\ finding # None /\ Cmd(c).upload \in completed
                          /\ Cmd(c).upload = pointer /\ Cmd(c).upload > finding.upload
          OBVIOUS
      <4>1. finding # None
            BY <1>1 DEF CallOK
      <4>2. finding.upload \in Nat /\ Cmd(c).upload \in Nat
            BY <4>1, <1>1, AskedFields, FindingAssumption DEF Types, Findings, Uploads
      <4>3. TargetStatus(Cmd(c).upload) = "ready"
            BY <1>5 DEF LockStatus
      <4> QED BY <4>1, <4>2, <4>3, TargetAnswers
    <3> QED BY <1>1, <1>2, <1>3, <2>1, <2>2, <3>1, <3>2 DEF CallOK, Inside, Cmd, rows
  <2>6. AnswerTrue(c)'
        BY <2>2 DEF AnswerTrue
  <2> QED BY <2>2, <2>3, <2>4, <2>5, <2>6, KeptIsOK DEF FindingInv
<1> QED BY <1>4, <1>5

\* Why a creation is turned down under the table's lock.
LEMMA CreationAnswers ==
    ASSUME NEW cmd, NEW status \in CreationStatuses(cmd)
    PROVE  status \in {"ready", "evidence_not_current", "evidence_not_affected",
                       "evidence_set_mismatch"}
BY DEF CreationStatuses, classifyUnqualified

\* Rows are finitely many.
LEMMA RowsFinite == IsFiniteSet(Rows)
BY FindingAssumption, FS_Product DEF Rows

\* Exactly one current row for an occurrence.
LEMMA SingleRow ==
    ASSUME NEW S \in SUBSET Rows, NEW o,
           Cardinality({r \in S : r[1] = o}) = 1
    PROVE  \E r \in S : r[1] = o /\ \A s \in S : s[1] = o => s = r
<1> DEFINE T == {r \in S : r[1] = o}
<1>1. IsFiniteSet(T)
      BY RowsFinite, FS_Subset
<1>2. PICK r : T = {r}
      BY <1>1, FS_Singleton
<1> QED BY <1>2

\* What an observation is told under the table's lock; when it may go on, it
\* names one row for each occurrence it can.
LEMMA ObservationAnswers ==
    ASSUME Types, NEW cmd \in Asked, cmd.op = "observe"
    PROVE  /\ ObservationStatus(cmd) \in {"ready", "already_applied", "immutable_conflict",
                                          "evidence_unavailable", "evidence_set_mismatch"}
           /\ ObservationStatus(cmd) = "ready" => Stored(cmd.upload) = {} /\ Covers(cmd)
           /\ ObservationStatus(cmd) = "already_applied" =>
                 \E x \in observations : /\ x.upload = cmd.upload
                                          /\ x.links = cmd.evidence /\ x.unknown = cmd.unknown
<1> DEFINE occurrences == Of(cmd.upload)
           current == CurrentEvidence(cmd.upload)
           single(o) == Cardinality({r \in current : r[1] = o}) = 1
           derived ==
             CASE occurrences = {} -> deriveAbsence(cmd)
               [] occurrences # {} /\ (IsAbsence(cmd) \/ \E o \in occurrences \cap Known : ~single(o))
                    -> "evidence_unavailable"
               [] occurrences # {} /\ ~IsAbsence(cmd) /\ \A o \in occurrences \cap Known : single(o)
                    -> IF cmd.evidence = current /\ cmd.unknown = occurrences \ Known
                         THEN "ready" ELSE "evidence_set_mismatch"
           stored ==
             IF \A x \in Stored(cmd.upload) : x.links = cmd.evidence /\ x.unknown = cmd.unknown
               THEN "already_applied" ELSE "immutable_conflict"
<1>1. ObservationStatus(cmd) =
        CASE derived # "ready" -> derived
          [] derived = "ready" /\ Stored(cmd.upload) = {} -> "ready"
          [] derived = "ready" /\ Stored(cmd.upload) # {} -> stored
      BY DEF ObservationStatus
<1>2. /\ derived \in {"ready", "evidence_unavailable", "evidence_set_mismatch"}
      /\ derived = "ready" =>
           \/ occurrences = {} /\ IsAbsence(cmd)
           \/ /\ cmd.evidence = current /\ cmd.unknown = occurrences \ Known
              /\ \A o \in occurrences \cap Known : single(o)
  <2> DEFINE broken == IsAbsence(cmd) \/ \E o \in occurrences \cap Known : ~single(o)
             whole == \A o \in occurrences \cap Known : single(o)
  <2>1. deriveAbsence(cmd) \in {"ready", "evidence_unavailable", "evidence_set_mismatch"}
        BY DEF deriveAbsence
  <2>2. deriveAbsence(cmd) = "ready" => IsAbsence(cmd)
        BY DEF deriveAbsence
  <2>3. ~broken <=> ~IsAbsence(cmd) /\ whole
        OBVIOUS
  <2>4. derived =
          CASE occurrences = {} -> deriveAbsence(cmd)
            [] occurrences # {} /\ broken -> "evidence_unavailable"
            [] occurrences # {} /\ ~IsAbsence(cmd) /\ whole
                 -> IF cmd.evidence = current /\ cmd.unknown = occurrences \ Known
                      THEN "ready" ELSE "evidence_set_mismatch"
        OBVIOUS
  <2> SUFFICES /\ derived \in {"ready", "evidence_unavailable", "evidence_set_mismatch"}
               /\ derived = "ready" =>
                    \/ occurrences = {} /\ IsAbsence(cmd)
                    \/ /\ cmd.evidence = current /\ cmd.unknown = occurrences \ Known
                       /\ whole
      OBVIOUS
  <2> HIDE DEF derived, occurrences, current, broken, whole
  <2> QED BY <2>1, <2>2, <2>3, <2>4
<1>3. derived = "ready" => Covers(cmd)
  <2> SUFFICES ASSUME derived = "ready" PROVE Covers(cmd)
      OBVIOUS
  <2>1. CASE occurrences = {} /\ IsAbsence(cmd)
        BY <2>1 DEF Covers, IsAbsence
  <2>2. CASE /\ cmd.evidence = current /\ cmd.unknown = occurrences \ Known
             /\ \A o \in occurrences \cap Known : single(o)
    <3> HIDE DEF derived
    <3>1. current \in SUBSET Rows
          BY DEF CurrentEvidence, Types, TypeOK
    <3>2. \A r \in current : r[1] \in occurrences \cap Known
          BY <3>1 DEF CurrentEvidence, Of, Rows
    <3>3. \A o \in occurrences \cap Known :
            \E r \in current : r[1] = o /\ \A s \in current : s[1] = o => s = r
          BY <2>2, <3>1, SingleRow
    <3> HIDE DEF current
    <3>4. {r[1] : r \in cmd.evidence} \cup cmd.unknown = occurrences
          BY <2>2, <3>2, <3>3
    <3>5. \A r, s \in cmd.evidence : r[1] = s[1] => r = s
          BY <2>2, <3>2, <3>3
    <3>6. cmd.unknown \subseteq Occurrences \ Known
          BY <2>2 DEF Of
    <3> QED BY <3>4, <3>5, <3>6 DEF Covers
  <2> QED BY <1>2, <2>1, <2>2
<1>4. /\ stored \in {"already_applied", "immutable_conflict"}
      /\ stored = "already_applied" =>
           \A x \in Stored(cmd.upload) : x.links = cmd.evidence /\ x.unknown = cmd.unknown
      OBVIOUS
<1> HIDE DEF derived, stored
<1>5. /\ ObservationStatus(cmd) \in {"ready", "already_applied", "immutable_conflict",
                                    "evidence_unavailable", "evidence_set_mismatch"}
      /\ ObservationStatus(cmd) = "ready" => derived = "ready" /\ Stored(cmd.upload) = {}
      /\ ObservationStatus(cmd) = "already_applied" =>
            stored = "already_applied" /\ Stored(cmd.upload) # {}
      BY <1>1, <1>2, <1>4
<1>6. ObservationStatus(cmd) = "already_applied" =>
        \E x \in observations : /\ x.upload = cmd.upload
                                 /\ x.links = cmd.evidence /\ x.unknown = cmd.unknown
      BY <1>4, <1>5 DEF Stored
<1> QED BY <1>3, <1>5, <1>6

\* The table is locked by whoever goes on to its writes.
LEMMA LockTableStep ==
    ASSUME FindingInv, NEW c \in Calls, LockTable(c)
    PROVE  FindingInv'
<1>1. /\ call[c].pc = "table" /\ Types /\ Store /\ CallOK(c) /\ Cmd(c) \in Asked
      /\ Cmd(c).op \in {"create", "observe"} /\ Inside(c)
      BY CallFields DEF LockTable, At, FindingInv, CallOK, Inside
<1>2. UNCHANGED <<completed, pointer, rows, clock, faults>>
      BY DEF LockTable
<1>3. PICK status \in IF Cmd(c).op = "create" THEN CreationStatuses(Cmd(c))
                                               ELSE {ObservationStatus(Cmd(c))} :
         IF status = "ready"
           THEN /\ table' = c
                /\ call' = [call EXCEPT ![c].pc = "write"]
                /\ UNCHANGED <<asset, occurrence>>
           ELSE End(c, status)
      BY DEF LockTable
<1>4. /\ Cmd(c).op = "create" =>
           status \in {"ready", "evidence_not_current", "evidence_not_affected", "evidence_set_mismatch"}
      /\ Cmd(c).op = "observe" => status = ObservationStatus(Cmd(c))
      BY <1>3, CreationAnswers
<1>5. CASE status # "ready"
  <2>1. End(c, status) /\ call[c].pc # "idle"
        BY <1>1, <1>3, <1>5
  <2>2. CASE Cmd(c).op = "create"
    <3>1. status \in Answers /\ status \notin Promises
          BY <1>4, <1>5, <2>2 DEF Answers, Promises
    <3>2. AnswerTrue(c)'
          BY <1>1, <2>1, <3>1, EmptyAnswer
    <3> QED BY <1>1, <1>2, <2>1, <3>1, <3>2, EndStep DEF Types, TypeOK
  <2>3. CASE Cmd(c).op = "observe"
    <3>1. /\ status \in {"already_applied", "immutable_conflict",
                         "evidence_unavailable", "evidence_set_mismatch"}
          /\ status = "already_applied" =>
                \E x \in observations : /\ x.upload = Cmd(c).upload
                                         /\ x.links = Cmd(c).evidence /\ x.unknown = Cmd(c).unknown
          BY <1>1, <1>4, <1>5, <2>3, ObservationAnswers
    <3>2. status \in Answers
          BY <3>1 DEF Answers, Promises
    <3>3. AnswerTrue(c)'
          BY <1>1, <1>2, <2>1, <2>3, <3>1, <3>2, EndEffect DEF AnswerTrue, Cmd, rows
    <3> QED BY <1>1, <1>2, <2>1, <3>2, <3>3, EndStep DEF Types, TypeOK
  <2> QED BY <1>1, <2>2, <2>3
<1>6. CASE status = "ready"
  <2>1. /\ table' = c /\ UNCHANGED <<asset, occurrence>>
        /\ call' = [call EXCEPT ![c].pc = "write"]
        BY <1>3, <1>6
  <2>2. /\ Types' /\ call'[c].pc = "write"
        /\ call'[c].plan = call[c].plan /\ call'[c].cmd = call[c].cmd
        /\ \A d \in Calls \ {c} : call'[d] = call[d]
        BY <1>1, <1>2, <2>1, GotoTypes DEF Types, TypeOK
  <2>3. Store'
        BY <1>1, <1>2, StoreKept
  <2>4. \A d \in Calls \ {c} : Kept(d)
        BY <1>2, <2>1, <2>2 DEF Kept, rows
  <2>5. CallOK(c)'
    <3>1. Cmd(c).op = "observe" => Stored(Cmd(c).upload) = {} /\ Covers(Cmd(c))
          BY <1>1, <1>4, <1>6, ObservationAnswers
    <3> QED BY <1>1, <1>2, <2>1, <2>2, <3>1 DEF CallOK, Inside, Cmd, rows, Stored, Covers
  <2>6. AnswerTrue(c)'
        BY <2>2 DEF AnswerTrue
  <2> QED BY <2>2, <2>3, <2>4, <2>5, <2>6, KeptIsOK DEF FindingInv
<1> QED BY <1>5, <1>6

\* What an evaluation still has to write is exactly what it does not find; it
\* is told that it is done only when it finds all of it.
LEMMA EvaluationAnswers ==
    ASSUME NEW cmd \in Asked, cmd.op \in {"evaluate", "commit"}
    PROVE  LET evaluable == {r \in Targets(cmd) : r[1] \in Evaluable}
               status == EvaluationStatus(cmd)
           IN /\ status \in {"ready", "applied", "already_applied", "rejected",
                             "no_evaluable_occurrence"}
              /\ status = "ready" => evaluable # {}
              /\ status \in {"applied", "already_applied"} =>
                    evaluable # {} /\ evaluable \subseteq evidence
<1> DEFINE evaluable == {r \in Targets(cmd) : r[1] \in Evaluable}
<1>1. EvaluationStatus(cmd) =
        CASE evaluable \ evidence # {} -> "ready"
          [] evaluable \ evidence = {} /\ evaluable # {} ->
               IF cmd.op = "commit" THEN "applied" ELSE "already_applied"
          [] evaluable = {} -> IF cmd.op = "commit" THEN "rejected" ELSE "no_evaluable_occurrence"
      BY DEF EvaluationStatus
<1> HIDE DEF evaluable
<1>2. /\ EvaluationStatus(cmd) \in {"ready", "applied", "already_applied", "rejected",
                                    "no_evaluable_occurrence"}
      /\ EvaluationStatus(cmd) = "ready" => evaluable # {}
      /\ EvaluationStatus(cmd) \in {"applied", "already_applied"} =>
            evaluable # {} /\ evaluable \subseteq evidence
  <2>1. CASE evaluable \ evidence # {}
        BY <1>1, <2>1
  <2>2. CASE evaluable \ evidence = {} /\ evaluable # {}
        BY <1>1, <2>2
  <2>3. CASE evaluable = {}
        BY <1>1, <2>3
  <2> QED BY <2>1, <2>2, <2>3
<1> QED BY <1>2 DEF evaluable

\* The targets of an evaluation are the rows of the current upload's occurrences.
LEMMA EvaluationTargets ==
    ASSUME Types, NEW cmd \in Asked, cmd.op \in {"evaluate", "commit"}
    PROVE  /\ Targets(cmd) \subseteq Rows
           /\ cmd.op = "evaluate" =>
                 /\ \A r \in Targets(cmd) : r[1] \in Of(pointer) /\ r = <<r[1], cmd.advisory>>
                 /\ \A o \in Of(pointer) :
                       <<o, cmd.advisory>> \in Targets(cmd) /\ <<o, cmd.advisory>>[1] = o
           /\ cmd.op = "commit" => Targets(cmd) = {cmd.row}
BY AskedFields DEF Targets, Of, Rows

\* An upload that holds an occurrence is a completed one when it is current.
LEMMA CurrentIsCompleted ==
    ASSUME Types, Of(pointer) # {}
    PROVE  pointer \in completed
BY FindingAssumption DEF Types, TypeOK, Of, Uploads

\* The occurrences are locked by whoever goes on to its insert.
LEMMA LockOccurrencesStep ==
    ASSUME FindingInv, NEW c \in Calls, LockOccurrences(c)
    PROVE  FindingInv'
<1> DEFINE status == EvaluationStatus(Cmd(c))
           targets == Targets(Cmd(c))
           evaluable == {r \in targets : r[1] \in Evaluable}
           plan == {r \in targets \ evidence : r[1] \in Evaluable}
<1>1. /\ call[c].pc = "occurrences" /\ Types /\ Store /\ CallOK(c) /\ Cmd(c) \in Asked
      /\ Cmd(c).op \in {"evaluate", "commit"}
      BY CallFields DEF LockOccurrences, At, FindingInv, CallOK
<1>2. UNCHANGED <<completed, pointer, rows, clock, faults>>
      BY DEF LockOccurrences
<1>3. /\ status \in {"ready", "applied", "already_applied", "rejected", "no_evaluable_occurrence"}
      /\ status = "ready" => evaluable # {}
      /\ status \in {"applied", "already_applied"} => evaluable # {} /\ evaluable \subseteq evidence
      BY <1>1, EvaluationAnswers
<1>4. /\ targets \subseteq Rows
      /\ Cmd(c).op = "evaluate" =>
            /\ \A r \in targets : r[1] \in Of(pointer) /\ r = <<r[1], Cmd(c).advisory>>
            /\ \A o \in Of(pointer) :
                  <<o, Cmd(c).advisory>> \in targets /\ <<o, Cmd(c).advisory>>[1] = o
      /\ Cmd(c).op = "commit" => targets = {Cmd(c).row}
      BY <1>1, EvaluationTargets
<1>5. IF status = "ready"
        THEN /\ occurrence' = [o \in Occurrences |->
                                 IF \E r \in targets : r[1] = o THEN c ELSE occurrence[o]]
             /\ call' = [call EXCEPT ![c].pc = "write", ![c].plan = plan]
             /\ UNCHANGED <<asset, table>>
        ELSE End(c, status)
      BY DEF LockOccurrences
<1> HIDE DEF status, targets
<1>6. CASE status # "ready"
  <2>1. End(c, status) /\ call[c].pc # "idle" /\ status \in Answers
        BY <1>1, <1>3, <1>5, <1>6 DEF Answers, Promises
  <2>2. /\ call'[c].pc = "ended" /\ Cmd(c)' = Cmd(c) /\ call'[c].answer = status
        BY <1>1, <2>1, EndEffect DEF Cmd
  <2>3. CASE status \in {"applied", "already_applied"} /\ Cmd(c).op = "evaluate"
    <3>1. Of(pointer) \cap Evaluable # {} /\ (Of(pointer) \cap Evaluable) \X {Cmd(c).advisory} \subseteq evidence
          BY <1>3, <1>4, <2>3
    <3>2. pointer \in completed
          BY <1>1, <3>1, CurrentIsCompleted
    <3>3. AnswerTrue(c)'
          BY <1>2, <2>2, <2>3, <3>1, <3>2 DEF AnswerTrue, rows
    <3> QED BY <1>1, <1>2, <2>1, <3>3, EndStep DEF Types, TypeOK
  <2>4. CASE status \in {"applied", "already_applied"} /\ Cmd(c).op = "commit"
    <3>1. Cmd(c).row \in evidence
          BY <1>3, <1>4, <2>4
    <3>2. AnswerTrue(c)'
          BY <1>2, <2>2, <2>4, <3>1 DEF AnswerTrue, rows
    <3> QED BY <1>1, <1>2, <2>1, <3>2, EndStep DEF Types, TypeOK
  <2>5. CASE status \notin {"applied", "already_applied"}
    <3>1. status \notin Promises
          BY <1>3, <1>6, <2>5 DEF Promises
    <3> QED BY <1>1, <1>2, <2>1, <3>1, EmptyAnswer, EndStep DEF Types, TypeOK
  <2> QED BY <1>1, <2>3, <2>4, <2>5
<1>7. CASE status = "ready"
  <2>1. plan \in SUBSET Rows
        BY <1>4
  <2>2. /\ call' = [call EXCEPT ![c].pc = "write", ![c].plan = plan]
        /\ UNCHANGED <<asset, table>> /\ occurrence' \in [Occurrences -> Calls \cup {None}]
        BY <1>1, <1>5, <1>7 DEF Types, TypeOK
  <2>8. asset' \in Calls \cup {None} /\ table' \in Calls \cup {None}
        BY <1>1, <2>2 DEF Types, TypeOK
  <2> HIDE DEF plan
  <2>3. /\ Types' /\ call'[c].pc = "write" /\ call'[c].plan = plan /\ call'[c].cmd = call[c].cmd
        /\ \A d \in Calls \ {c} : call'[d] = call[d]
        BY <1>1, <1>2, <2>1, <2>2, <2>8, AdvanceTypes
  <2>4. Store'
        BY <1>1, <1>2, StoreKept
  <2>5. \A d \in Calls \ {c} : Kept(d)
        BY <1>2, <2>2, <2>3 DEF Kept, rows
  <2>6. CallOK(c)'
    <3>1. Cmd(c).op = "evaluate" =>
            /\ Of(pointer) \cap Evaluable # {}
            /\ \A o \in Of(pointer) \cap Evaluable : <<o, Cmd(c).advisory>> \in evidence \cup plan
          BY <1>3, <1>4, <1>7 DEF plan
    <3>2. Cmd(c).op = "commit" => Cmd(c).row \in evidence \cup plan
          BY <1>3, <1>4, <1>7 DEF plan
    <3>3. \A r \in plan : r[1] \in Evaluable
          BY DEF plan
    <3> QED BY <1>1, <1>2, <2>2, <2>3, <3>1, <3>2, <3>3 DEF CallOK, Inside, Cmd, rows
  <2>7. AnswerTrue(c)'
        BY <2>3 DEF AnswerTrue
  <2> QED BY <2>3, <2>4, <2>5, <2>6, <2>7, KeptIsOK DEF FindingInv
<1> QED BY <1>6, <1>7

-----------------------------------------------------------------------------
(* The writes.                                                             *)

\* A transaction that wrote is answered or loses its acknowledgement; either
\* way what it leaves of the other calls and of itself is right.
LEMMA WriteStep ==
    ASSUME FindingInv, NEW c \in Calls, NEW a \in Answers, Commit(c, a), call[c].pc = "write",
           UNCHANGED <<completed, pointer, clock>>,
           evidence' \subseteq Rows, finding' \in Findings \cup {None},
           observations' \subseteq Observed, Store',
           finding # None => finding' # None,
           End(c, a) => AnswerTrue(c)',
           \A d \in Calls \ {c} : End(c, a) \/ End(c, "internal_failure") => Kept(d)
    PROVE  FindingInv'
<1>1. faults' \in 0..MaxFaults /\ (End(c, a) \/ End(c, "internal_failure"))
      BY CommitEffect DEF FindingInv
<1>2. PICK b \in Answers : End(c, b) /\ (b = a \/ b = "internal_failure")
      BY <1>1 DEF Answers
<1>3. Types'
      BY <1>1, <1>2, EndTypes DEF FindingInv
<1>4. CallOK(c)'
      BY <1>2, EndedIsOK DEF FindingInv
<1>5. AnswerTrue(c)'
      BY <1>2, EmptyAnswer DEF FindingInv, Promises
<1>6. \A d \in Calls \ {c} : CallOK(d)' /\ AnswerTrue(d)'
      BY <1>1, KeptIsOK DEF FindingInv
<1> QED BY <1>3, <1>4, <1>5, <1>6 DEF FindingInv

\* The finding appears, from the evidence that was asked for.
LEMMA WriteFindingStep ==
    ASSUME FindingInv, NEW c \in Calls, WriteFinding(c)
    PROVE  FindingInv'
<1> DEFINE made == [upload |-> Cmd(c).upload, links |-> Cmd(c).evidence,
                    first |-> call[c].at, last |-> call[c].at]
<1>1. /\ call[c].pc = "write" /\ Types /\ Store /\ CallOK(c) /\ Cmd(c) \in Asked
      /\ Cmd(c).op = "create" /\ finding = None /\ asset = c
      BY CallFields DEF WriteFinding, At, FindingInv, CallOK, Inside
<1>2. /\ made.upload = Cmd(c).upload /\ made.links = Cmd(c).evidence
      /\ made.first = call[c].at /\ made.last = call[c].at
      /\ made \in Findings /\ call[c].at \in Nat
      BY <1>1, AskedFields, CallFields DEF Findings
<1>3. made # None
      BY <1>2, FindingAssumption DEF Findings
<1>4. finding' = made /\ Commit(c, "created")
      /\ UNCHANGED <<completed, pointer, evidence, observations, clock>>
      BY DEF WriteFinding
<1> HIDE DEF made
<1>5. Store'
      BY <1>1, <1>2, <1>3, <1>4 DEF Store, identitiesUnique, timestampsAgree
<1>6. \A d \in Calls \ {c}, b \in Answers : End(c, b) => Kept(d)
      BY <1>1, <1>4, EndEffect DEF Kept
<1>7. "created" \in Answers /\ "internal_failure" \in Answers
      BY DEF Answers, Promises
<1>8. End(c, "created") => AnswerTrue(c)'
  <2> SUFFICES ASSUME End(c, "created") PROVE AnswerTrue(c)'
      OBVIOUS
  <2>1. /\ call'[c].pc = "ended" /\ Cmd(c)' = Cmd(c) /\ call'[c].answer = "created"
        BY <1>1, <1>7, EndEffect DEF Cmd
  <2> QED BY <1>1, <1>2, <1>3, <1>4, <2>1 DEF AnswerTrue
<1>9. \A d \in Calls \ {c} : End(c, "created") \/ End(c, "internal_failure") => Kept(d)
      BY <1>6, <1>7
<1>10. /\ evidence' \subseteq Rows /\ observations' \subseteq Observed
       /\ finding' \in Findings \cup {None}
      BY <1>1, <1>2, <1>4 DEF Types, TypeOK
<1> QED BY <1>1, <1>4, <1>5, <1>7, <1>8, <1>9, <1>10, WriteStep

\* An observation is stored and the finding's last time moves to it.
LEMMA StoreObservation ==
    ASSUME FindingInv, NEW c \in Calls, call[c].pc = "write", Cmd(c).op = "observe",
           call[c].at >= finding.last, NEW x \in Observed,
           x.upload = Cmd(c).upload, x.at = call[c].at, x.links = Cmd(c).evidence,
           x.unknown = Cmd(c).unknown, x.aggregate = Aggregate(Cmd(c).evidence, Cmd(c).unknown),
           observations' = observations \cup {x},
           finding' = [finding EXCEPT !.last = call[c].at],
           UNCHANGED <<completed, pointer, evidence>>
    PROVE  /\ Store' /\ finding \in Findings /\ finding' \in Findings
           /\ finding'.upload = finding.upload /\ finding'.links = finding.links
<1>1. /\ Types /\ Store /\ CallOK(c) /\ Cmd(c) \in Asked /\ call[c].at \in Nat
      BY CallFields DEF FindingInv
<1>2. /\ finding # None /\ Cmd(c).upload = pointer /\ Cmd(c).upload > finding.upload
      /\ Stored(Cmd(c).upload) = {} /\ Covers(Cmd(c))
      BY <1>1 DEF CallOK, Inside
<1>3. finding \in Findings
      BY <1>1, <1>2 DEF Types
<1>4. /\ finding' \in Findings /\ finding'.upload = finding.upload /\ finding'.links = finding.links
      /\ finding'.first = finding.first /\ finding'.last = call[c].at
      BY <1>1, <1>3 DEF Findings
<1>5. finding' # None
      BY <1>4, FindingAssumption DEF Findings
<1>6. /\ \A y \in observations : y.upload \in Nat /\ y.at \in Nat
      /\ finding.first \in Nat /\ finding.last \in Nat /\ x.upload \in Nat /\ x.at \in Nat
      /\ finding.upload \in Nat
      BY <1>1, <1>3, FindingAssumption DEF Types, Observed, Findings, Uploads
<1>7. Store'
  <2>1. \A y \in observations : y.upload # x.upload /\ y.at <= finding.last /\ y.upload <= x.upload
        BY <1>1, <1>2 DEF Stored, Store, timestampsAgree
  <2>2. (\A y \in observations : y.upload <= pointer /\ parseRepeated(y))'
    <3>1. parseRepeated(x)'
      <4>1. \A r \in evidence : r[1] \in Known
            BY <1>1, FindingAssumption DEF Store
      <4> QED BY <1>1, <1>2, <1>4, <4>1 DEF parseRepeated, Covers
    <3>2. \A y \in observations : parseRepeated(y)'
          BY <1>1, <1>4 DEF parseRepeated, Store
    <3> QED BY <1>1, <1>2, <1>6, <3>1, <3>2 DEF Store
  <2>3. identitiesUnique'
        BY <1>1, <2>1 DEF identitiesUnique, Store
  <2>4. timestampsAgree'
        BY <1>1, <1>2, <1>4, <1>6, <2>1 DEF timestampsAgree, Store
  <2>5. (\A y, z \in observations : z.upload > y.upload => z.at >= y.at)'
        BY <1>1, <1>6, <2>1 DEF Store
  <2> QED BY <1>1, <1>5, <2>2, <2>3, <2>4, <2>5 DEF Store
<1> QED BY <1>3, <1>4, <1>7

\* An observation is written, or refused because its time is too old.
LEMMA WriteObservationStep ==
    ASSUME FindingInv, NEW c \in Calls, WriteObservation(c)
    PROVE  FindingInv'
<1>1. /\ call[c].pc = "write" /\ Types /\ Store /\ CallOK(c) /\ Cmd(c) \in Asked
      /\ Cmd(c).op = "observe" /\ finding # None /\ asset = c
      BY CallFields DEF WriteObservation, At, FindingInv, CallOK, Inside
<1>2. "observed" \in Answers /\ "internal_failure" \in Answers /\ "transaction_aborted" \in Answers
      BY DEF Answers, Promises
<1>3. UNCHANGED <<completed, pointer, evidence, clock>>
      BY DEF WriteObservation
<1>4. CASE Forward(call[c].at)
  <2> DEFINE x == [upload |-> Cmd(c).upload, at |-> call[c].at,
                   links |-> Cmd(c).evidence, unknown |-> Cmd(c).unknown,
                   aggregate |-> Aggregate(Cmd(c).evidence, Cmd(c).unknown)]
  <2>1. /\ observations' = observations \cup {x}
        /\ finding' = [finding EXCEPT !.last = call[c].at]
        /\ Commit(c, "observed")
        BY <1>4 DEF WriteObservation
  <2>2. Aggregate(Cmd(c).evidence, Cmd(c).unknown)
          \in {"component_absent", "affected", "unknown", "unaffected"}
        BY DEF Aggregate
  <2>3. /\ x \in Observed /\ x.upload = Cmd(c).upload /\ x.at = call[c].at
        /\ x.links = Cmd(c).evidence /\ x.unknown = Cmd(c).unknown
        /\ x.aggregate = Aggregate(Cmd(c).evidence, Cmd(c).unknown)
        BY <1>1, <2>2, AskedFields, CallFields DEF Observed
  <2>4. call[c].at >= finding.last
        BY <1>4 DEF Forward
  <2> HIDE DEF x
  <2>5. /\ Store' /\ finding \in Findings /\ finding' \in Findings
        /\ finding'.upload = finding.upload /\ finding'.links = finding.links
        BY <1>1, <1>3, <2>1, <2>3, <2>4, StoreObservation
  <2>6. finding' # None
        BY <2>5, FindingAssumption DEF Findings
  <2>7. \A d \in Calls \ {c}, b \in Answers : End(c, b) => Kept(d)
        BY <1>1, <1>3, <2>1, <2>5, <2>6, EndEffect DEF Kept
  <2>8. \A d \in Calls \ {c} : End(c, "observed") \/ End(c, "internal_failure") => Kept(d)
        BY <1>2, <2>7
  <2>9. End(c, "observed") => AnswerTrue(c)'
    <3> SUFFICES ASSUME End(c, "observed") PROVE AnswerTrue(c)'
        OBVIOUS
    <3>1. /\ call'[c].pc = "ended" /\ Cmd(c)' = Cmd(c) /\ call'[c].answer = "observed"
          BY <1>1, <1>2, EndEffect DEF Cmd
    <3> QED BY <1>1, <2>1, <2>3, <3>1 DEF AnswerTrue
  <2>10. evidence' \subseteq Rows /\ observations' \subseteq Observed
        BY <1>1, <1>3, <2>1, <2>3 DEF Types, TypeOK
  <2> QED BY <1>1, <1>2, <1>3, <2>1, <2>5, <2>6, <2>8, <2>9, <2>10, WriteStep
<1>5. CASE ~Forward(call[c].at)
  <2>1. End(c, "transaction_aborted") /\ UNCHANGED <<finding, observations, faults>>
        BY <1>5 DEF WriteObservation
  <2>2. AnswerTrue(c)'
        BY <1>1, <1>2, <2>1, EmptyAnswer DEF Promises
  <2>3. faults' \in 0..MaxFaults
        BY <1>1, <2>1 DEF Types, TypeOK
  <2> QED BY <1>1, <1>2, <1>3, <2>1, <2>2, <2>3, EndStep DEF rows
<1> QED BY <1>4, <1>5

\* The planned rows are inserted.
LEMMA WriteEvidenceStep ==
    ASSUME FindingInv, NEW c \in Calls, WriteEvidence(c)
    PROVE  FindingInv'
<1> DEFINE told == IF Cmd(c).op = "commit" THEN "applied" ELSE "evaluated"
<1>1. /\ call[c].pc = "write" /\ Types /\ Store /\ CallOK(c) /\ Cmd(c) \in Asked
      /\ Cmd(c).op \in {"evaluate", "commit"}
      BY CallFields DEF WriteEvidence, At, FindingInv
<1>2. /\ evidence' = evidence \cup call[c].plan
      /\ Commit(c, told)
      /\ UNCHANGED <<completed, pointer, finding, observations, clock>>
      BY DEF WriteEvidence
<1>3. told \in Answers /\ "internal_failure" \in Answers
      BY DEF Answers, Promises
<1>4. \A r \in call[c].plan : r[1] \in Evaluable
      BY <1>1 DEF CallOK
<1>5. Store'
  <2>1. \A r \in evidence' : r[1] \in Evaluable
        BY <1>1, <1>2, <1>4 DEF Store
  <2>2. \A y \in observations : parseRepeated(y)'
    <3>1. \A r \in evidence' : r[1] \in Known
          BY <2>1, FindingAssumption
    <3> QED BY <1>1, <1>2, <3>1 DEF Store, parseRepeated
  <2> QED BY <1>1, <1>2, <2>1, <2>2 DEF Store, identitiesUnique, timestampsAgree
<1>6. \A d \in Calls \ {c}, b \in Answers : End(c, b) => Kept(d)
      BY <1>1, <1>2, EndEffect DEF Kept
<1>7. ASSUME End(c, told) PROVE AnswerTrue(c)'
  <2>1. /\ call'[c].pc = "ended" /\ Cmd(c)' = Cmd(c) /\ call'[c].answer = told
        BY <1>1, <1>3, <1>7, EndEffect DEF Cmd
  <2>2. CASE Cmd(c).op = "evaluate"
    <3>1. /\ Of(pointer) \cap Evaluable # {}
          /\ \A o \in Of(pointer) \cap Evaluable : <<o, Cmd(c).advisory>> \in evidence'
          BY <1>1, <1>2, <2>2 DEF CallOK
    <3>2. pointer \in completed
          BY <1>1, <3>1, CurrentIsCompleted
    <3> QED BY <1>2, <2>1, <2>2, <3>1, <3>2 DEF AnswerTrue
  <2>3. CASE Cmd(c).op = "commit"
        BY <1>1, <1>2, <2>1, <2>3 DEF AnswerTrue, CallOK
  <2> QED BY <1>1, <2>2, <2>3
<1>8. evidence' \subseteq Rows /\ finding' \in Findings \cup {None} /\ observations' \subseteq Observed
      BY <1>1, <1>2, CallFields DEF Types, TypeOK
<1>9. \A d \in Calls \ {c} : End(c, told) \/ End(c, "internal_failure") => Kept(d)
      BY <1>3, <1>6
<1> HIDE DEF told
<1> QED BY <1>1, <1>2, <1>3, <1>5, <1>7, <1>8, <1>9, WriteStep

-----------------------------------------------------------------------------
(* The theorems.                                                           *)

\* The empty database and idle calls satisfy the invariant.
LEMMA InitInv == Init => FindingInv
<1> SUFFICES ASSUME Init PROVE FindingInv
    OBVIOUS
<1>1. Idle \in CallRecords /\ Idle.pc = "idle" /\ Idle.plan = {}
      BY DEF Idle, CallRecords
<1>2. \A c \in Calls : call[c] = Idle
      BY DEF Init
<1>3. call \in [Calls -> CallRecords]
      BY <1>1 DEF Init
<1> HIDE DEF Idle
<1>4. Types
      BY <1>1, <1>2, <1>3, FindingAssumption DEF Init, Types, TypeOK
<1>5. Store
      BY DEF Init, Store, identitiesUnique
<1>6. \A c \in Calls : CallOK(c) /\ AnswerTrue(c)
      BY <1>1, <1>2 DEF CallOK, AnswerTrue, Inside, Cmd
<1> QED BY <1>4, <1>5, <1>6 DEF FindingInv

\* Every step preserves it.
LEMMA NextInv == FindingInv /\ [Next]_vars => FindingInv'
<1> SUFFICES ASSUME FindingInv, [Next]_vars PROVE FindingInv'
    OBVIOUS
<1>1. CASE UNCHANGED vars
  <2>1. Types'
        BY <1>1 DEF FindingInv, Types, TypeOK, vars, rows, locks
  <2>2. Store'
        BY <1>1, StoreKept DEF FindingInv, vars
  <2>3. \A d \in Calls : Kept(d)
        BY <1>1 DEF Kept, vars, rows, locks
  <2> QED BY <2>1, <2>2, <2>3, KeptIsOK DEF FindingInv
<1>2. CASE Tick
      BY <1>2, TickStep
<1>3. CASE \E upload \in Uploads : Complete(upload)
      BY <1>3, CompleteStep
<1>4. ASSUME NEW c \in Calls,
             \/ \E cmd \in Commands : Begin(c, cmd)
             \/ LockAsset(c) \/ LockTable(c) \/ LockOccurrences(c)
             \/ WriteFinding(c) \/ WriteObservation(c) \/ WriteEvidence(c)
             \/ Fault(c)
             \/ \E d \in Calls : BreakDeadlock(c, d)
      PROVE  FindingInv'
      BY <1>4, BeginStep, LockAssetStep, LockTableStep, LockOccurrencesStep, WriteFindingStep,
         WriteObservationStep, WriteEvidenceStep, FaultStep, DeadlockStep
<1> QED BY <1>1, <1>2, <1>3, <1>4 DEF Next

\* The invariant of the findings, for every instance.
THEOREM InvariantHolds == Spec => []FindingInv
BY InitInv, NextInv, PTL DEF Spec

\* Every row and every call keeps the fields the code gives it.
THEOREM TypeCorrect == Spec => []TypeOK
<1>1. FindingInv => TypeOK
      BY DEF FindingInv, Types
<1> QED BY <1>1, InvariantHolds, PTL

\* What a caller of createFinding, observeFinding or of an evaluation was told
\* stays true for good, whatever it interleaved with.
THEOREM AnswersStayTrue == Spec => []FindingAnswersAreTrue
<1>1. FindingInv => FindingAnswersAreTrue
      BY DEF FindingInv, FindingAnswersAreTrue, AnswerTrue
<1> QED BY <1>1, InvariantHolds, PTL

\* The observation that selectFindingLatestObservation picks is of the newest
\* upload observed, up to equal times.
THEOREM LatestObservationIsNewest == Spec => []LatestIsOfNewestUpload
<1>1. FindingInv => LatestIsOfNewestUpload
  <2> SUFFICES ASSUME FindingInv, NEW x \in Latest, NEW y \in observations, y.upload > x.upload
               PROVE  y.at = x.at
      BY DEF LatestIsOfNewestUpload
  <2>1. x \in observations /\ y.at <= x.at
        BY DEF Latest
  <2>2. y.at >= x.at
        BY <2>1 DEF FindingInv, Store
  <2>3. x.at \in Nat /\ y.at \in Nat
        BY <2>1 DEF FindingInv, Types, Observed
  <2> QED BY <2>1, <2>2, <2>3
<1> QED BY <1>1, InvariantHolds, PTL

\* selectFindingLatestObservation never meets malformed persisted state, except in
\* a finding created from two rows about one occurrence, and once the asset's
\* current upload is observed it refuses the finding only for equal times.
THEOREM CommittedRowsAreReadable == Spec => []CommittedIsReadable
<1>1. FindingInv => CommittedIsReadable
  <2> SUFFICES ASSUME FindingInv, finding # None PROVE CommittedIsReadable
      BY DEF CommittedIsReadable
  <2>1. /\ Store /\ finding \in Findings
        /\ \A x \in observations : x.upload \in Nat /\ x.at \in Nat
        /\ finding.upload \in Nat
        BY FindingAssumption DEF FindingInv, Types, Observed, Findings, Uploads
  <2>2. pointer \in Nat
        BY FindingAssumption DEF FindingInv, Types, TypeOK, Uploads
  <2>3. parseCreation => WellFormed
        BY <2>1 DEF Store, WellFormed
  <2>4. "malformed_persisted_state" \in Readings => ~parseCreation
    <3> SUFFICES ASSUME WellFormed PROVE "malformed_persisted_state" \notin Readings
        BY <2>3
    <3> QED BY DEF Readings
  <2>5. ASSUME "integrity_failure" \in Readings,
               pointer \in {finding.upload} \cup {x.upload : x \in observations}
        PROVE  \E x, y \in Latest : x # y
    <3>1. WellFormed
          BY <2>5 DEF Readings
    <3>2. observations # {}
          BY <2>5, <3>1 DEF Readings
    <3>3. PICK x \in Latest : x.upload # pointer
          BY <2>5, <3>1, <3>2 DEF Readings
    <3>4. /\ x \in observations /\ x.upload <= pointer /\ x.upload > finding.upload
          /\ \A z \in observations : z.at <= x.at
          BY <2>1 DEF Latest, Store, parseRepeated
    <3>5. PICK y \in observations : y.upload = pointer
          BY <2>1, <2>2, <2>5, <3>4
    <3>6. y.at >= x.at /\ y.at <= x.at
          BY <2>1, <2>2, <3>3, <3>4, <3>5 DEF Store
    <3>7. y \in Latest
          BY <2>1, <3>4, <3>6 DEF Latest
    <3> QED BY <3>3, <3>5, <3>7
  <2> QED BY <2>4, <2>5 DEF CommittedIsReadable
<1> QED BY <1>1, InvariantHolds, PTL

\* Nothing that was committed is taken back: evidence and observations stay, a
\* finding keeps the upload, the links and the first time it was created with,
\* and its last time only moves forward.
CommittedStays ==
    [][/\ evidence \subseteq evidence' /\ observations \subseteq observations'
       /\ finding # None =>
             /\ finding' # None
             /\ finding'.upload = finding.upload /\ finding'.links = finding.links
             /\ finding'.first = finding.first /\ finding'.last >= finding.last]_vars

\* Two creations that both found no finding are kept apart by the asset's lock.
THEOREM CommittedRowsStay == Spec => CommittedStays
<1> DEFINE Stays ==
      /\ evidence \subseteq evidence' /\ observations \subseteq observations'
      /\ finding # None =>
            /\ finding' # None
            /\ finding'.upload = finding.upload /\ finding'.links = finding.links
            /\ finding'.first = finding.first /\ finding'.last >= finding.last
<1>1. FindingInv /\ [Next]_vars => [Stays]_vars
  <2> SUFFICES ASSUME FindingInv, Next PROVE Stays
      OBVIOUS
  <2>1. finding # None => finding \in Findings /\ finding.last \in Nat
        BY DEF FindingInv, Types, Findings
  <2>2. CASE UNCHANGED rows
        BY <2>1, <2>2 DEF rows
  <2>3. ASSUME NEW c \in Calls, WriteFinding(c) PROVE Stays
    <3>1. finding = None
          BY <2>3 DEF WriteFinding, At, FindingInv, CallOK, Inside
    <3> QED BY <2>3, <3>1 DEF WriteFinding
  <2>4. ASSUME NEW c \in Calls, WriteObservation(c) PROVE Stays
    <3>1. /\ finding # None /\ call[c].at \in Nat
          BY <2>4, CallFields DEF WriteObservation, At, FindingInv, CallOK
    <3>2. CASE Forward(call[c].at)
      <4>1. /\ finding' = [finding EXCEPT !.last = call[c].at]
            /\ observations \subseteq observations' /\ evidence' = evidence
            BY <2>4, <3>2 DEF WriteObservation
      <4>2. /\ finding' \in Findings
            /\ finding'.upload = finding.upload /\ finding'.links = finding.links
            /\ finding'.first = finding.first /\ finding'.last = call[c].at
            BY <2>1, <3>1, <4>1 DEF Findings
      <4>3. finding' # None
            BY <4>2, FindingAssumption DEF Findings
      <4> QED BY <3>2, <4>1, <4>2, <4>3 DEF Forward
    <3>3. CASE ~Forward(call[c].at)
          BY <2>1, <2>4, <3>3 DEF WriteObservation
    <3> QED BY <3>2, <3>3
  <2>5. ASSUME NEW c \in Calls, WriteEvidence(c) PROVE Stays
        BY <2>1, <2>5 DEF WriteEvidence
  <2>6. \/ UNCHANGED rows
        \/ \E c \in Calls : WriteFinding(c) \/ WriteObservation(c) \/ WriteEvidence(c)
        BY DEF Next, Tick, Complete, Begin, LockAsset, LockTable, LockOccurrences, Fault,
               BreakDeadlock
  <2> QED BY <2>2, <2>3, <2>4, <2>5, <2>6
<1> QED BY <1>1, InvariantHolds, PTL DEF Spec, CommittedStays

=============================================================================

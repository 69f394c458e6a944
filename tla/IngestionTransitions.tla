------------------------ MODULE IngestionTransitions ------------------------
(***************************************************************************)
(* The lifecycle of one sbom_ingestion row: the transition table of        *)
(* applySession8IngestionTransition and the optimistic UPDATE of           *)
(* applyTransition, which writes only where version is the one the caller  *)
(* loaded and increments it.                                               *)
(*                                                                         *)
(* Progress columns (stage, timestamps, counts) are left out: started_at is *)
(* set exactly while a row is processing, so requireProcessing is the test *)
(* on the state alone.  create_accepted is the Init of the processor and   *)
(* the command "queue" is issued by no code path.                          *)
(***************************************************************************)
EXTENDS Naturals

TerminalStates == {"completed", "rejected", "quarantined", "failed"}

IngestionStates == {"accepted", "queued", "processing"} \cup TerminalStates

IngestionRows == [state : IngestionStates, version : Nat]

\* The row a successful upload leaves.
AcceptedRow == [state |-> "accepted", version |-> 1]

isTerminal(row) == row.state \in TerminalStates

\* The commands of the processor and the state each one leads to.
Target == [start_processing  |-> "processing",
           release_for_retry |-> "queued",
           complete          |-> "completed",
           reject            |-> "rejected",
           quarantine        |-> "quarantined",
           fail              |-> "failed"]

Commands == {"start_processing", "release_for_retry", "complete",
             "reject", "quarantine", "fail"}

\* The states a command may be applied in.
Sources(command) ==
    IF command = "start_processing" THEN {"accepted", "queued"} ELSE {"processing"}

\* applyTransition reads the row, checks the transition and updates where the
\* version is still the expected one.  Versions only grow, so a row read at a
\* newer version cannot match and the two statements act as one.
Accepts(row, expectedVersion, command) ==
    /\ ~isTerminal(row)
    /\ row.state \in Sources(command)
    /\ row.version = expectedVersion

applyTransition(row, expectedVersion, command) ==
    IF Accepts(row, expectedVersion, command)
      THEN [state |-> Target[command], version |-> row.version + 1]
      ELSE row

(***************************************************************************)
(* The failure catalog.  What the processor does with a code depends only  *)
(* on its outcome class, so a code is represented by that class; "ok" is   *)
(* the absence of a failure.                                               *)
(***************************************************************************)
FailureOutcomes ==
    {"rejected", "quarantined", "retryable_infrastructure", "terminal_internal"}

TerminalOutcomes == FailureOutcomes \ {"retryable_infrastructure"}

CommandFor == [rejected          |-> "reject",
               quarantined       |-> "quarantine",
               terminal_internal |-> "fail"]

\* The suffix of the audit action sbom.ingestion.<kind>.
KindFor == [rejected          |-> "rejected",
            quarantined       |-> "quarantined",
            terminal_internal |-> "failed"]

=============================================================================

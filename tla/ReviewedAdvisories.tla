------------------------- MODULE ReviewedAdvisories -------------------------
(***************************************************************************)
(* Submission and approval of maintainer-reviewed advisories, and the      *)
(* operator commands that grant, revoke, disable and enable.  Each call is *)
(* one READ COMMITTED transaction: a statement that locks a row waits for  *)
(* the holder of the row, what it writes is seen once it commits, and a    *)
(* rollback frees its locks.  A submission or an approval that fails is    *)
(* read again in a second transaction that writes nothing.                 *)
(***************************************************************************)
EXTENDS Naturals, Sequences

CONSTANTS
    Users, Families, Vulnerabilities, Documents, Calls,
    FamilyOf,          \* the family a document is about
    VulnerabilityOf,   \* the vulnerability it names
    Foreign,           \* vulnerabilities that carry a provider's label
    InitialGrant,      \* the grant each user holds at first, or None
    Workloads,         \* the commands the calls may carry
    MaxFaults,         \* failed statements and lost commits
    None

Authorities == {"submit", "approve"}
Commands ==
    [op : {"submit"}, user : Users, doc : Documents]
      \cup [op : {"approve"}, user : Users, family : Families]
      \cup [op : {"grant"}, user : Users, authority : Authorities]
      \cup [op : {"revoke"}, user : Users, grant : Nat \ {0}, authority : Authorities]
      \cup [op : {"disable", "enable"}, user : Users]

(* The outcomes of the commands. *)
Answers == {"submitted", "approved", "already_applied", "immutable_conflict", "not_found",
            "authority_rejected", "separation_of_duties_required",
            "malformed_persisted_state", "transaction_aborted", "database_unavailable",
            "granted", "active_grant_conflict", "user_inactive", "revoked",
            "expected_grant_mismatch", "active_authority_mismatch", "grant_absent",
            "user_disabled", "user_enabled"}

ASSUME AdvisoryAssumption ==
    /\ FamilyOf \in [Documents -> Families]
    /\ VulnerabilityOf \in [Documents -> Vulnerabilities]
    /\ Foreign \subseteq Vulnerabilities
    /\ InitialGrant \in [Users -> Authorities \cup {None}]
    /\ \A w \in Workloads : \A c \in Calls : w[c] \in Commands
    /\ MaxFaults \in Nat
    /\ None \notin Users \cup Families \cup Vulnerabilities \cup Documents \cup Calls
                     \cup Authorities \cup Answers
                     \cup [author : Users, content : Documents]

VARIABLES
    status,          \* user.status
    grants,          \* the grants of each user, oldest first; the index is the id
    vulnerability,   \* the vulnerability rows
    revision,        \* the revision of each family with its binding, or None
    approval,        \* the reviewer of the approval row of each family, or None
    lock,            \* the call that holds each row, or None
    call,            \* the transaction of each call
    faults

tables == <<status, grants, vulnerability, revision, approval>>
vars == <<tables, lock, call, faults>>

Rows == ({"user"} \X Users) \cup ({"natural", "family", "revision"} \X Families)
          \cup ({"vulnerability"} \X Vulnerabilities)

Pcs == {"idle", "user", "authority", "natural", "family", "revision", "vulnerability",
        "insert", "write", "commit", "answered"}

(* A transaction that is yet to start. *)
Fresh(cmd) == [pc |-> "idle", cmd |-> cmd, write |-> TRUE, seen |-> None, known |-> FALSE,
               answer |-> None]

Init ==
    /\ status = [u \in Users |-> "active"]
    /\ grants = [u \in Users |-> IF InitialGrant[u] = None THEN <<>>
                                 ELSE <<[authority |-> InitialGrant[u], active |-> TRUE]>>]
    /\ vulnerability = Foreign
    /\ revision = [f \in Families |-> None]
    /\ approval = [f \in Families |-> None]
    /\ lock = [row \in Rows |-> None]
    /\ \E w \in Workloads : call = [c \in Calls |-> Fresh(w[c])]
    /\ faults = 0

-----------------------------------------------------------------------------
(* Transactions. *)

Cmd(c) == call[c].cmd
User(c) == Cmd(c).user
At(c, pc) == call[c].pc = pc
Goto(c, pc) == call' = [call EXCEPT ![c].pc = pc]

(* The family and the vulnerability the command is about. *)
Family(c) == IF Cmd(c).op = "submit" THEN FamilyOf[Cmd(c).doc] ELSE Cmd(c).family
Vulnerability(c) ==
    IF Cmd(c).op = "submit" THEN VulnerabilityOf[Cmd(c).doc]
    ELSE VulnerabilityOf[call[c].seen.content]

(* The row the next statement of the call locks. *)
Wanted(c) ==
    CASE At(c, "user")    -> <<"user", User(c)>>
      [] At(c, "natural") -> <<"natural", Family(c)>>
      [] At(c, "family") \/ (At(c, "insert") /\ Cmd(c).op = "approve") -> <<"family", Family(c)>>
      [] At(c, "revision") -> <<"revision", Family(c)>>
      [] OTHER -> <<"vulnerability", Vulnerability(c)>>

Locking == {"user", "natural", "family", "revision", "vulnerability", "insert"}

Free(c) == lock[Wanted(c)] \in {None, c}
Lock(c) == Free(c) /\ lock' = [lock EXCEPT ![Wanted(c)] = c]

(* The transaction is over, committed or rolled back. *)
Freed(c) == [row \in Rows |-> IF lock[row] = c THEN None ELSE lock[row]]

(* Mutant: an early return leaves the transaction open. *)
Answer_leaksTransaction(c, answer) ==
    /\ call' = [call EXCEPT ![c].pc = "answered", ![c].answer = answer]
    /\ lock' = IF At(c, "authority") THEN lock ELSE Freed(c)

(* The callback of $transaction returns: commit, and answer. *)
Answer(c, answer) ==
    /\ call' = [call EXCEPT ![c].pc = "answered", ![c].answer = answer]
    /\ lock' = Freed(c)

(* $transaction rejects.  A submission or an approval is then read again by *)
(* rereadAfterPersistenceFailure, once; whatever else fails says so.        *)
Reject(c) ==
    /\ call' = [call EXCEPT ![c] =
                  IF Cmd(c).op \in {"submit", "approve"} /\ call[c].write
                  THEN [Fresh(Cmd(c)) EXCEPT !.pc = "user", !.write = FALSE]
                  ELSE [call[c] EXCEPT !.pc = "answered", !.answer = "transaction_aborted"]]
    /\ lock' = Freed(c)

(* The server cannot be reached: reported without a reread. *)
Unavailable(c) == Answer(c, "database_unavailable")

-----------------------------------------------------------------------------
(* Authority. *)

ActiveGrants(u) == {g \in DOMAIN grants[u] : grants[u][g].active}

(* classifyInstanceAdvisoryAuthorization *)
Authorized(u, authority) ==
    /\ status[u] = "active"
    /\ \E g \in ActiveGrants(u) : grants[u][g].authority = authority

classifyGrant(cmd) ==
    LET held == {grants[cmd.user][g].authority : g \in ActiveGrants(cmd.user)}
    IN  IF held = {cmd.authority} THEN "already_applied"
        ELSE IF held # {} THEN "active_grant_conflict"
        ELSE IF status[cmd.user] = "disabled" THEN "user_inactive"
        ELSE "granted"

classifyRevoke(cmd) ==
    LET active == ActiveGrants(cmd.user)
        issued == DOMAIN grants[cmd.user]
    IN  IF active \ {cmd.grant} # {} THEN "expected_grant_mismatch"
        ELSE IF issued = {} THEN "grant_absent"
        ELSE IF cmd.grant \notin issued THEN "expected_grant_mismatch"
        ELSE IF grants[cmd.user][cmd.grant].authority # cmd.authority
             THEN "active_authority_mismatch"
        ELSE IF cmd.grant \in active THEN "revoked" ELSE "already_applied"

(* classifyInstanceAdvisoryAuthorityCommand *)
classifyCommand(cmd) ==
    CASE cmd.op = "grant"   -> classifyGrant(cmd)
      [] cmd.op = "revoke"  -> classifyRevoke(cmd)
      [] cmd.op = "disable" -> IF status[cmd.user] = "disabled" THEN "already_applied"
                               ELSE "user_disabled"
      [] cmd.op = "enable"  -> IF status[cmd.user] = "active" THEN "already_applied"
                               ELSE "user_enabled"

Changes == {"granted", "revoked", "user_disabled", "user_enabled"}

-----------------------------------------------------------------------------
(* The first statements of every transaction. *)

Begin(c) ==
    /\ At(c, "idle")
    /\ Goto(c, "user")
    /\ UNCHANGED <<tables, lock, faults>>

(* Mutant: the user is read without FOR UPDATE. *)
LockUser_reads(c) ==
    /\ At(c, "user")
    /\ Goto(c, "authority")
    /\ UNCHANGED <<tables, lock, faults>>

(* SELECT ... FROM "user" ... FOR UPDATE *)
LockUser(c) ==
    /\ At(c, "user")
    /\ Lock(c)
    /\ Goto(c, "authority")
    /\ UNCHANGED <<tables, faults>>

(* An operator command reads the grants and decides; one that changes *)
(* nothing is answered at once.                                       *)
Decide(c) ==
    /\ At(c, "authority")
    /\ Cmd(c).op \notin {"submit", "approve"}
    /\ LET outcome == classifyCommand(Cmd(c))
       IN  IF outcome \in Changes
           THEN Goto(c, "write") /\ UNCHANGED lock
           ELSE Answer(c, outcome)
    /\ UNCHANGED <<tables, faults>>

(* reloadInstanceAdvisoryAuthorizationFacts for the authority the command needs. *)
CheckAuthority(c) ==
    /\ At(c, "authority")
    /\ Cmd(c).op \in {"submit", "approve"}
    /\ IF Authorized(User(c), Cmd(c).op)
       THEN /\ Goto(c, IF Cmd(c).op = "submit" THEN "natural" ELSE "revision")
            /\ UNCHANGED lock
       ELSE Answer(c, "authority_rejected")
    /\ UNCHANGED <<tables, faults>>

-----------------------------------------------------------------------------
(* Submission and approval. *)

(* pg_advisory_xact_lock on the family a submission is about. *)
LockNatural(c) ==
    /\ At(c, "natural")
    /\ Lock(c)
    /\ Goto(c, "family")
    /\ UNCHANGED <<tables, faults>>

(* A family without a row locks nothing and has no revisions. *)
LockFamily(c) ==
    /\ At(c, "family")
    /\ IF revision[Family(c)] = None
       THEN Goto(c, "vulnerability") /\ UNCHANGED lock
       ELSE Goto(c, "revision") /\ Lock(c)
    /\ UNCHANGED <<tables, faults>>

LockRevision(c) ==
    /\ At(c, "revision")
    /\ IF revision[Family(c)] = None
       THEN Answer(c, "not_found")
       ELSE /\ Lock(c)
            /\ call' = [call EXCEPT ![c].pc = "vulnerability", ![c].seen = revision[Family(c)]]
    /\ UNCHANGED <<tables, faults>>

(* Mutant: whoever approved, the approval counts as a replay. *)
planApproval_anyReviewer(c) ==
    IF call[c].seen.author = User(c) THEN "separation_of_duties_required"
    ELSE IF approval[Family(c)] # None THEN "already_applied"
    ELSE IF ~call[c].write THEN "transaction_aborted"
    ELSE "approved"

(* The decisions of the approval once the revision is locked. *)
planApproval(c) ==
    IF call[c].seen.author = User(c) THEN "separation_of_duties_required"
    ELSE IF approval[Family(c)] = User(c) THEN "already_applied"
    ELSE IF approval[Family(c)] # None THEN "immutable_conflict"
    ELSE IF ~call[c].write THEN "transaction_aborted"
    ELSE "approved"

(* classifyEnvelope and planMaintainerReviewedAdvisorySubmission. *)
planSubmission(c) ==
    LET seen == call[c].seen
    IN  IF seen = None
        THEN IF Vulnerability(c) \in Foreign THEN "immutable_conflict"
             ELSE IF ~call[c].write THEN "transaction_aborted"
             ELSE "submitted"
        ELSE IF approval[Family(c)] # None THEN "malformed_persisted_state"
        ELSE IF seen = [author |-> User(c), content |-> Cmd(c).doc] THEN "already_applied"
        ELSE "immutable_conflict"

(* The vulnerability row, if there is one, is the last to be locked. *)
Plan(c) ==
    LET known == Vulnerability(c) \in vulnerability
        outcome == IF Cmd(c).op = "submit" THEN planSubmission(c) ELSE planApproval(c)
    IN  /\ At(c, "vulnerability")
        /\ known => Free(c)
        /\ IF outcome \in {"submitted", "approved"}
           THEN /\ call' = [call EXCEPT ![c].pc = "insert", ![c].known = known]
                /\ lock' = [lock EXCEPT ![Wanted(c)] = IF known THEN c ELSE @]
           ELSE Answer(c, outcome)
        /\ UNCHANGED <<tables, faults>>

(* A submission inserts the vulnerability it did not find, its family and its *)
(* revision.  A key that another transaction is inserting is waited for; one  *)
(* that exists by then is a uniqueness violation.                             *)
InsertRevision(c) ==
    LET inserted == Vulnerability(c) \in vulnerability /\ ~call[c].known
    IN  /\ At(c, "insert")
        /\ Cmd(c).op = "submit"
        /\ IF inserted \/ revision[Family(c)] # None
           THEN Reject(c)
           ELSE Lock(c) /\ Goto(c, "commit")
        /\ UNCHANGED <<tables, faults>>

(* An approval issues and consumes a capability around the approval row, whose *)
(* foreign key locks the family.                                               *)
InsertApproval(c) ==
    /\ At(c, "insert")
    /\ Cmd(c).op = "approve"
    /\ Lock(c)
    /\ Goto(c, "commit")
    /\ UNCHANGED <<tables, faults>>

(* A commit whose acknowledgement may be lost. *)
Acknowledge(c, answer) ==
    \/ Answer(c, answer) /\ UNCHANGED faults
    \/ /\ faults < MaxFaults
       /\ faults' = faults + 1
       /\ Reject(c) \/ Unavailable(c)

CommitSubmission(c) ==
    /\ At(c, "commit")
    /\ Cmd(c).op = "submit"
    /\ revision' = [revision EXCEPT ![Family(c)] =
                      [author |-> User(c), content |-> Cmd(c).doc]]
    /\ vulnerability' = vulnerability \cup {Vulnerability(c)}
    /\ Acknowledge(c, "submitted")
    /\ UNCHANGED <<status, grants, approval>>

CommitApproval(c) ==
    /\ At(c, "commit")
    /\ Cmd(c).op = "approve"
    /\ approval' = [approval EXCEPT ![Family(c)] = User(c)]
    /\ Acknowledge(c, "approved")
    /\ UNCHANGED <<status, grants, vulnerability, revision>>

-----------------------------------------------------------------------------
(* The operator commands. *)

insertGrant(c) ==
    /\ At(c, "write")
    /\ Cmd(c).op = "grant"
    /\ grants' = [grants EXCEPT ![User(c)] =
                    Append(@, [authority |-> Cmd(c).authority, active |-> TRUE])]
    /\ Acknowledge(c, "granted")
    /\ UNCHANGED <<status, vulnerability, revision, approval>>

revokeGrant(c) ==
    /\ At(c, "write")
    /\ Cmd(c).op = "revoke"
    /\ grants' = [grants EXCEPT ![User(c)][Cmd(c).grant].active = FALSE]
    /\ Acknowledge(c, "revoked")
    /\ UNCHANGED <<status, vulnerability, revision, approval>>

updateUserStatus(c) ==
    /\ At(c, "write")
    /\ Cmd(c).op \in {"disable", "enable"}
    /\ status' = [status EXCEPT ![User(c)] =
                    IF Cmd(c).op = "disable" THEN "disabled" ELSE "active"]
    /\ Acknowledge(c, classifyCommand(Cmd(c)))
    /\ UNCHANGED <<grants, vulnerability, revision, approval>>

-----------------------------------------------------------------------------
(* The environment. *)

(* A statement or the commit fails: rolled back. *)
Fault(c) ==
    /\ call[c].pc \notin {"idle", "answered"}
    /\ faults < MaxFaults
    /\ faults' = faults + 1
    /\ Reject(c) \/ Unavailable(c)
    /\ UNCHANGED tables

WaitsFor(c, d) == c # d /\ call[c].pc \in Locking /\ lock[Wanted(c)] = d

(* PostgreSQL picks a victim of a deadlock. *)
Deadlock(c) ==
    /\ \E d \in Calls : WaitsFor(c, d) /\ WaitsFor(d, c)
    /\ Reject(c)
    /\ UNCHANGED <<tables, faults>>

Transaction(c) ==
    \/ LockUser(c) \/ Decide(c) \/ CheckAuthority(c)
    \/ LockNatural(c) \/ LockFamily(c) \/ LockRevision(c) \/ Plan(c)
    \/ InsertRevision(c) \/ InsertApproval(c) \/ CommitSubmission(c) \/ CommitApproval(c)
    \/ insertGrant(c) \/ revokeGrant(c) \/ updateUserStatus(c)
    \/ Deadlock(c)

Next == \E c \in Calls : Begin(c) \/ Transaction(c) \/ Fault(c)

Spec == Init /\ [][Next]_vars

(* Statements return and deadlocks are broken; nobody has to call. *)
FairSpec == Spec /\ \A c \in Calls : WF_vars(Transaction(c))

-----------------------------------------------------------------------------
(* Properties. *)

Calling == [pc : Pcs, cmd : Commands, write : BOOLEAN,
            seen : [author : Users, content : Documents] \cup {None}, known : BOOLEAN,
            answer : Answers \cup {None}]

(* Every table, lock and transaction has the shape the code gives it. *)
TypeOK ==
    /\ status \in [Users -> {"active", "disabled"}]
    /\ grants \in [Users -> Seq([authority : Authorities, active : BOOLEAN])]
    /\ vulnerability \subseteq Vulnerabilities
    /\ revision \in [Families -> [author : Users, content : Documents] \cup {None}]
    /\ approval \in [Families -> Users \cup {None}]
    /\ lock \in [Rows -> Calls \cup {None}]
    /\ call \in [Calls -> Calling]
    /\ faults \in 0 .. MaxFaults

Exact(c) == [author |-> User(c), content |-> Cmd(c).doc]

(* An answer stays true of the tables, whatever races, faults and rereads came *)
(* before it and after it: the revision or approval it claims is the caller's, *)
(* a conflict is with somebody else's row, a revoked grant stays revoked, and  *)
(* one call per family is told that it wrote the row.                          *)
AnswersAreTrue ==
    /\ \A c \in Calls :
        CASE At(c, "answered") /\ Cmd(c).op = "submit" ->
                /\ call[c].answer \in {"submitted", "already_applied"}
                      => revision[Family(c)] = Exact(c)
                /\ call[c].answer = "immutable_conflict"
                      => \/ revision[Family(c)] \notin {None, Exact(c)}
                         \/ VulnerabilityOf[Cmd(c).doc] \in Foreign
          [] At(c, "answered") /\ Cmd(c).op = "approve" ->
                /\ call[c].answer \in {"approved", "already_applied"}
                      => approval[Family(c)] = User(c)
                /\ call[c].answer = "immutable_conflict"
                      => approval[Family(c)] \notin {None, User(c)}
          [] At(c, "answered") /\ Cmd(c).op = "revoke" ->
                call[c].answer \in {"revoked", "already_applied"}
                      => ~grants[User(c)][Cmd(c).grant].active
          [] OTHER -> TRUE
    /\ \A c, d \in Calls :
        /\ c # d
        /\ call[c].answer = call[d].answer
        /\ call[c].answer \in {"submitted", "approved"}
        => Family(c) # Family(d)

(* The transactions keep the promise of the board: who writes is entitled at *)
(* the moment of the commit, although the tables were read statements before. *)
Holding(u) ==
    IF ActiveGrants(u) = {} THEN None
    ELSE grants[u][CHOOSE g \in ActiveGrants(u) : TRUE].authority

Board == INSTANCE AdvisoryBoard WITH Contents <- Documents,
                                     holds <- [u \in Users |-> Holding(u)]

ImplementsBoard == Board!Spec

(* Every call is answered: no transaction waits for ever, and a failed one is *)
(* read again once.                                                           *)
EventuallyAnswered == \A c \in Calls : At(c, "user") ~> At(c, "answered")

(* ADR 0042: an exact resubmission is already_applied.  It is never reported *)
(* as malformed stored state.                                                *)
ResubmissionIsReplay ==
    \A c \in Calls :
        call[c].answer = "malformed_persisted_state" => revision[Family(c)] # Exact(c)
=============================================================================

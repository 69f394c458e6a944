---------------------- MODULE ReviewedAdvisories_proof ----------------------
(***************************************************************************)
(* The answers of the advisory commands stay true, and the transactions    *)
(* keep the promise of AdvisoryBoard, for any users, families, calls and   *)
(* number of faults.  The argument is that of two-phase locking: what a    *)
(* transaction has read is protected until it commits by the rows it holds *)
(* (HoldsLocks), so the facts it relies on (ReliesOn) survive the steps of *)
(* the others, which may only do what Tame says.                           *)
(***************************************************************************)
EXTENDS ReviewedAdvisories, TLAPS

-----------------------------------------------------------------------------
(* The inductive invariant. *)

Writing == {"submit", "approve"}

(* Where each kind of command can be. *)
OnPath(c) ==
    /\ call[c].pc \in {"natural", "family"} => Cmd(c).op = "submit"
    /\ call[c].pc \in {"revision", "vulnerability", "insert", "commit"} => Cmd(c).op \in Writing
    /\ call[c].pc = "write" => Cmd(c).op \notin Writing

(* The rows a transaction has locked by the time it has come so far. *)
HoldsLocks(c) ==
    /\ call[c].pc \notin {"idle", "user", "answered"} => lock[<<"user", User(c)>>] = c
    /\ /\ Cmd(c).op = "submit"
       /\ call[c].pc \in {"family", "revision", "vulnerability", "insert", "commit"}
       => lock[<<"natural", Family(c)>>] = c
    /\ /\ Cmd(c).op = "approve"
       /\ call[c].pc \in {"vulnerability", "insert", "commit"}
       => lock[<<"revision", Family(c)>>] = c

(* What a transaction has read, and still relies on when it writes. *)
ReliesOn(c) ==
    /\ call[c].pc \in {"natural", "family", "revision", "vulnerability", "insert", "commit"}
         => Authorized(User(c), Cmd(c).op)
    /\ Cmd(c).op \in Writing /\ call[c].seen # None => revision[Family(c)] = call[c].seen
    /\ Cmd(c).op = "submit" /\ call[c].pc = "commit" => revision[Family(c)] = None
    /\ Cmd(c).op = "approve" /\ call[c].pc \in {"vulnerability", "insert", "commit"}
         => call[c].seen # None
    /\ Cmd(c).op = "approve" /\ call[c].pc \in {"insert", "commit"}
         => approval[Family(c)] = None /\ call[c].seen.author # User(c)
    /\ call[c].pc = "write" => classifyCommand(Cmd(c)) \in Changes

(* An answer is true of the tables, for good. *)
Truth(c, answer) ==
    /\ answer = "submitted" => Cmd(c).op = "submit"
    /\ answer = "approved" => Cmd(c).op = "approve"
    /\ Cmd(c).op = "submit" =>
         /\ answer \in {"submitted", "already_applied"} => revision[Family(c)] = Exact(c)
         /\ answer = "immutable_conflict"
              => \/ revision[Family(c)] \notin {None, Exact(c)}
                 \/ VulnerabilityOf[Cmd(c).doc] \in Foreign
    /\ Cmd(c).op = "approve" =>
         /\ answer \in {"approved", "already_applied"} => approval[Family(c)] = User(c)
         /\ answer = "immutable_conflict" => approval[Family(c)] \notin {None, User(c)}
    /\ Cmd(c).op = "revoke" /\ answer \in {"revoked", "already_applied"}
         => /\ Cmd(c).grant \in DOMAIN grants[User(c)]
            /\ ~grants[User(c)][Cmd(c).grant].active

(* What a call has been told. *)
Told(c) ==
    /\ call[c].answer # None => call[c].pc = "answered"
    /\ Truth(c, call[c].answer)

CallOK(c) == OnPath(c) /\ HoldsLocks(c) /\ ReliesOn(c) /\ Told(c)

(* A user holds at most one active grant. *)
OneGrant == \A u \in Users : \A g, h \in ActiveGrants(u) : g = h

(* One call per family is told that it wrote the row. *)
OneWriter ==
    \A c, d \in Calls :
        /\ c # d
        /\ call[c].answer = call[d].answer
        /\ call[c].answer \in {"submitted", "approved"}
        => Family(c) # Family(d)

(* Nobody has approved the own revision. *)
DutiesAreSeparated ==
    \A f \in Families :
        approval[f] # None => revision[f] # None /\ revision[f].author # approval[f]

BoardInv ==
    /\ TypeOK
    /\ \A c \in Calls : CallOK(c)
    /\ OneGrant
    /\ DutiesAreSeparated
    /\ OneWriter

(* What a step of one call may do to the rows the others rely on. *)
Tame(c) ==
    /\ \A e \in Calls \ {c} : call'[e] = call[e]
    /\ \A row \in Rows : lock[row] \in Calls \ {c} => lock'[row] = lock[row]
    /\ \A u \in Users : lock[<<"user", u>>] # c
                          => status'[u] = status[u] /\ grants'[u] = grants[u]
    /\ \A f \in Families : \/ revision'[f] = revision[f]
                           \/ revision[f] = None /\ lock[<<"natural", f>>] = c
    /\ \A f \in Families : \/ approval'[f] = approval[f]
                           \/ approval[f] = None /\ lock[<<"revision", f>>] = c
    /\ \A u \in Users : \A g \in DOMAIN grants[u] :
         /\ g \in DOMAIN grants'[u]
         /\ ~grants[u][g].active => ~grants'[u][g].active

-----------------------------------------------------------------------------
(* Lemmas about the operators of the model. *)

(* The fields of a command, by its operation. *)
LEMMA CommandFields ==
    ASSUME NEW m \in Commands
    PROVE  /\ m.user \in Users
           /\ m.op \in {"submit", "approve", "grant", "revoke", "disable", "enable"}
           /\ m.op = "submit" => m.doc \in Documents
           /\ m.op = "approve" => m.family \in Families
           /\ m.op = "grant" => m.authority \in Authorities
           /\ m.op = "revoke" => m.grant \in Nat \ {0} /\ m.authority \in Authorities
    BY DEF Commands

(* What the records of the calls say about their commands. *)
LEMMA CallFields ==
    ASSUME call \in [Calls -> Calling], NEW c \in Calls
    PROVE  /\ call[c] \in Calling
           /\ Cmd(c) \in Commands
           /\ User(c) \in Users
           /\ Cmd(c).op \in Writing => Family(c) \in Families
           /\ Cmd(c).op = "submit" => Cmd(c).doc \in Documents /\ Vulnerability(c) \in Vulnerabilities
    <1>1. call[c] \in Calling
        OBVIOUS
    <1>2. Cmd(c) \in Commands
        BY <1>1 DEF Calling, Cmd
    <1>3. /\ Cmd(c).user \in Users
          /\ Cmd(c).op = "submit" => Cmd(c).doc \in Documents
          /\ Cmd(c).op = "approve" => Cmd(c).family \in Families
        BY <1>2, CommandFields
    <1> QED
        BY <1>1, <1>2, <1>3, AdvisoryAssumption DEF User, Family, Vulnerability, Writing

(* The end of a transaction frees its own rows. *)
LEMMA FreedIsTame ==
    ASSUME lock \in [Rows -> Calls \cup {None}], NEW c \in Calls, lock' = Freed(c)
    PROVE  /\ lock' \in [Rows -> Calls \cup {None}]
           /\ \A row \in Rows : lock[row] \in Calls \ {c} => lock'[row] = lock[row]
    BY DEF Freed

LEMMA RowsAreRows ==
    /\ \A u \in Users : <<"user", u>> \in Rows
    /\ \A f \in Families : <<"natural", f>> \in Rows /\ <<"revision", f>> \in Rows
    BY DEF Rows

(* What the next statement of a call locks. *)
LEMMA WantedRow ==
    ASSUME NEW c \in Calls
    PROVE  /\ call[c].pc = "user" => Wanted(c) = <<"user", User(c)>>
           /\ call[c].pc = "natural" => Wanted(c) = <<"natural", Family(c)>>
           /\ call[c].pc = "revision" => Wanted(c) = <<"revision", Family(c)>>
    BY DEF Wanted, At

(* The facts another call relies on survive a tame step. *)
LEMMA OthersKeep ==
    ASSUME BoardInv, NEW c \in Calls, Tame(c), NEW e \in Calls \ {c}
    PROVE  CallOK(e)'
    <1>1. /\ call'[e] = call[e]
          /\ CallOK(e)
          /\ call \in [Calls -> Calling]
          /\ lock \in [Rows -> Calls \cup {None}]
        BY DEF BoardInv, Tame, TypeOK
    <1>2. /\ User(e) \in Users
          /\ Cmd(e).op \in Writing => Family(e) \in Families
        BY <1>1, CallFields
    <1>3. /\ Cmd(e)' = Cmd(e)
          /\ User(e)' = User(e)
          /\ Family(e)' = Family(e)
          /\ Exact(e)' = Exact(e)
        BY <1>1 DEF Cmd, User, Family, Exact
    <1>4. OnPath(e)'
        BY <1>1, <1>3 DEF CallOK, OnPath
    <1>5. HoldsLocks(e)'
        <2>1. \A row \in Rows : lock[row] = e => lock'[row] = e
            BY DEF Tame
        <2> QED
            BY <1>1, <1>2, <1>3, <2>1, RowsAreRows DEF CallOK, HoldsLocks, Writing
    <1>6. ReliesOn(e)'
        <2>1. ASSUME call[e].pc \notin {"idle", "user", "answered"}
              PROVE  status'[User(e)] = status[User(e)] /\ grants'[User(e)] = grants[User(e)]
            BY <1>1, <1>2, <2>1 DEF CallOK, HoldsLocks, Tame
        <2>2. call[e].pc \in {"natural", "family", "revision", "vulnerability", "insert", "commit"}
                => Authorized(User(e), Cmd(e).op)'
            BY <1>1, <1>3, <2>1 DEF CallOK, ReliesOn, Authorized, ActiveGrants
        <2>3. Cmd(e).op \in Writing /\ call[e].seen # None => revision'[Family(e)] = call[e].seen
            BY <1>1, <1>2 DEF CallOK, ReliesOn, Tame
        <2>4. Cmd(e).op = "submit" /\ call[e].pc = "commit" => revision'[Family(e)] = None
            BY <1>1, <1>2 DEF CallOK, ReliesOn, HoldsLocks, Tame, Writing
        <2>5. Cmd(e).op = "approve" /\ call[e].pc \in {"insert", "commit"}
                => approval'[Family(e)] = None /\ call[e].seen.author # User(e)
            BY <1>1, <1>2 DEF CallOK, ReliesOn, HoldsLocks, Tame, Writing
        <2>6. call[e].pc = "write" => classifyCommand(Cmd(e))' \in Changes
            <3> SUFFICES ASSUME call[e].pc = "write"
                         PROVE  classifyCommand(Cmd(e))' = classifyCommand(Cmd(e))
                BY <1>1 DEF CallOK, ReliesOn
            <3>1. /\ status'[Cmd(e).user] = status[Cmd(e).user]
                  /\ grants'[Cmd(e).user] = grants[Cmd(e).user]
                BY <2>1 DEF User
            <3>2. ActiveGrants(Cmd(e).user)' = ActiveGrants(Cmd(e).user)
                BY <1>3, <3>1 DEF ActiveGrants
            <3>3. classifyGrant(Cmd(e))' = classifyGrant(Cmd(e))
                BY <1>3, <3>1, <3>2 DEF classifyGrant
            <3>4. classifyRevoke(Cmd(e))' = classifyRevoke(Cmd(e))
                BY <1>3, <3>1, <3>2 DEF classifyRevoke
            <3> QED
                BY <1>3, <3>1, <3>3, <3>4 DEF classifyCommand
        <2> QED
            BY <1>1, <1>3, <2>2, <2>3, <2>4, <2>5, <2>6 DEF CallOK, ReliesOn
    <1>7. Told(e)'
        <2>1. \A f \in Families : revision[f] # None => revision'[f] = revision[f]
            BY DEF Tame
        <2>2. \A f \in Families : approval[f] # None => approval'[f] = approval[f]
            BY DEF Tame
        <2>3. Cmd(e).op = "submit" => Exact(e) # None
            BY <1>1, CallFields, AdvisoryAssumption DEF Exact
        <2>4. User(e) # None
            BY <1>2, AdvisoryAssumption
        <2>5. /\ call'[e].answer # None => call'[e].pc = "answered"
              /\ call'[e].answer = "submitted" => Cmd(e)'.op = "submit"
              /\ call'[e].answer = "approved" => Cmd(e)'.op = "approve"
            BY <1>1, <1>3 DEF CallOK, Told, Truth
        <2>6. Cmd(e)'.op = "submit" =>
               /\ call'[e].answer \in {"submitted", "already_applied"}
                    => revision'[Family(e)'] = Exact(e)'
               /\ call'[e].answer = "immutable_conflict"
                    => \/ revision'[Family(e)'] \notin {None, Exact(e)'}
                       \/ VulnerabilityOf[Cmd(e)'.doc] \in Foreign
            BY <1>1, <1>2, <1>3, <2>1, <2>3 DEF CallOK, Told, Truth, Writing
        <2>7. Cmd(e)'.op = "approve" =>
               /\ call'[e].answer \in {"approved", "already_applied"}
                    => approval'[Family(e)'] = User(e)'
               /\ call'[e].answer = "immutable_conflict"
                    => approval'[Family(e)'] \notin {None, User(e)'}
            BY <1>1, <1>2, <1>3, <2>2, <2>4 DEF CallOK, Told, Truth, Writing
        <2>8. Cmd(e)'.op = "revoke" /\ call'[e].answer \in {"revoked", "already_applied"}
               => /\ Cmd(e)'.grant \in DOMAIN grants'[User(e)']
                  /\ ~grants'[User(e)'][Cmd(e)'.grant].active
            BY <1>1, <1>2, <1>3 DEF CallOK, Told, Truth, Tame
        <2> QED
            BY <2>5, <2>6, <2>7, <2>8 DEF Told, Truth
    <1> QED
        BY <1>4, <1>5, <1>6, <1>7 DEF CallOK

-----------------------------------------------------------------------------
(* The steps. *)

(* What every step of a call does to the transactions and their locks. *)
Local(c) ==
    /\ call' \in [Calls -> Calling]
    /\ \A e \in Calls \ {c} : call'[e] = call[e]
    /\ Cmd(c)' = Cmd(c)
    /\ lock' \in [Rows -> Calls \cup {None}]
    /\ \A row \in Rows : lock[row] \in Calls \ {c} => lock'[row] = lock[row]
    /\ CallOK(c)'

(* Whoever is told that it wrote the row of a family found none. *)
FirstWriter(c) ==
    /\ call'[c].answer = "submitted" => revision[Family(c)] = None
    /\ call'[c].answer = "approved" => approval[Family(c)] = None

LEMMA OneWriterStep ==
    ASSUME BoardInv, NEW c \in Calls, Local(c), FirstWriter(c), CallOK(c)'
    PROVE  OneWriter'
    <1> SUFFICES ASSUME NEW e \in Calls, e # c,
                        call'[e].answer = call'[c].answer,
                        call'[c].answer \in {"submitted", "approved"}
                 PROVE  Family(e)' # Family(c)'
        <2>1. \A e \in Calls : e # c => Family(e)' = Family(e) /\ call'[e] = call[e]
            BY DEF Local, Family, Cmd
        <2>2. OneWriter
            BY DEF BoardInv
        <2> QED
            BY <2>1, <2>2 DEF OneWriter
    <1>1. /\ call'[e] = call[e]
          /\ CallOK(e)
          /\ CallOK(c)'
          /\ call \in [Calls -> Calling]
        BY DEF Local, BoardInv, TypeOK
    <1>2. Family(e)' = Family(e) /\ Family(c)' = Family(c)
        BY <1>1 DEF Local, Family, Cmd
    <1>3. CASE call'[c].answer = "submitted"
        <2>1. /\ Cmd(e).op = "submit"
              /\ revision[Family(e)] = Exact(e)
            BY <1>1, <1>3 DEF CallOK, Told, Truth
        <2>2. Exact(e) # None
            BY <1>1, <2>1, CallFields, AdvisoryAssumption DEF Exact
        <2> QED
            BY <1>2, <1>3, <2>1, <2>2 DEF FirstWriter
    <1>4. CASE call'[c].answer = "approved"
        <2>1. /\ Cmd(e).op = "approve"
              /\ approval[Family(e)] = User(e)
            BY <1>1, <1>4 DEF CallOK, Told, Truth
        <2>2. User(e) # None
            BY <1>1, CallFields, AdvisoryAssumption
        <2> QED
            BY <1>2, <1>4, <2>1, <2>2 DEF FirstWriter
    <1> QED
        BY <1>3, <1>4

(* A step that leaves the tables as they are. *)
LEMMA QuietStep ==
    ASSUME BoardInv, NEW c \in Calls, Local(c), UNCHANGED tables, faults' \in 0 .. MaxFaults,
           call'[c].answer \notin {"submitted", "approved"}
    PROVE  BoardInv'
    <1>1. /\ status' = status
          /\ grants' = grants
          /\ vulnerability' = vulnerability
          /\ revision' = revision
          /\ approval' = approval
        BY DEF tables
    <1>2. Tame(c)
        BY <1>1 DEF Local, Tame
    <1>3. \A e \in Calls : CallOK(e)'
        BY <1>2, OthersKeep DEF Local
    <1>4. TypeOK'
        BY <1>1 DEF BoardInv, TypeOK, Local
    <1>5. OneGrant'
        BY <1>1 DEF BoardInv, OneGrant, ActiveGrants
    <1>6. OneWriter'
        BY OneWriterStep DEF Local, FirstWriter
    <1>7. DutiesAreSeparated'
        BY <1>1 DEF BoardInv, DutiesAreSeparated
    <1> QED
        BY <1>3, <1>4, <1>5, <1>6, <1>7 DEF BoardInv

(* The records of calls that are answered, or go on. *)
LEMMA AnsweredRecord ==
    ASSUME NEW r \in Calling, NEW a \in Answers
    PROVE  [r EXCEPT !.pc = "answered", !.answer = a] \in Calling
    <1>1. PICK s : s = [r EXCEPT !.pc = "answered"]
        OBVIOUS
    <1>2. s \in Calling
        BY <1>1 DEF Calling, Pcs
    <1>3. a \in Answers \cup {None}
        OBVIOUS
    <1>4. [s EXCEPT !.answer = a] \in Calling
        BY <1>2, <1>3 DEF Calling
    <1>5. [r EXCEPT !.pc = "answered", !.answer = a] = [s EXCEPT !.answer = a]
        BY <1>1
    <1> QED
        BY <1>4, <1>5

(* A transaction that ends with an answer. *)
LEMMA AnswerEnds ==
    ASSUME BoardInv, NEW c \in Calls, NEW answer \in Answers, Answer(c, answer),
           \A f \in Families : revision[f] # None => revision'[f] = revision[f],
           Truth(c, answer)'
    PROVE  Local(c) /\ call'[c].answer = answer
    <1> DEFINE m == [call[c] EXCEPT !.pc = "answered", !.answer = answer]
    <1>1. /\ call \in [Calls -> Calling]
          /\ lock \in [Rows -> Calls \cup {None}]
          /\ CallOK(c)
        BY DEF BoardInv, TypeOK
    <1>2. call' = [call EXCEPT ![c] = m]
        BY <1>1 DEF Answer
    <1>3. m \in Calling
        BY <1>1, AnsweredRecord
    <1>4. /\ call' \in [Calls -> Calling]
          /\ call'[c] = m
          /\ \A e \in Calls \ {c} : call'[e] = call[e]
        BY <1>1, <1>2, <1>3
    <1>5. m.pc = "answered" /\ m.answer = answer /\ m.cmd = call[c].cmd /\ m.seen = call[c].seen
        BY <1>1 DEF Calling
    <1> HIDE DEF m
    <1>6. Cmd(c)' = Cmd(c) /\ Family(c)' = Family(c)
        BY <1>4, <1>5 DEF Cmd, Family
    <1>7. /\ lock' \in [Rows -> Calls \cup {None}]
          /\ \A row \in Rows : lock[row] \in Calls \ {c} => lock'[row] = lock[row]
        BY <1>1, FreedIsTame DEF Answer
    <1>8. OnPath(c)' /\ HoldsLocks(c)'
        BY <1>4, <1>5 DEF OnPath, HoldsLocks
    <1>9. ReliesOn(c)'
        <2>1. Cmd(c).op \in Writing /\ call[c].seen # None => revision'[Family(c)] = call[c].seen
            BY <1>1, CallFields DEF CallOK, ReliesOn
        <2> QED
            BY <1>4, <1>5, <1>6, <2>1 DEF ReliesOn
    <1>10. Told(c)'
        BY <1>4, <1>5 DEF Told
    <1> QED
        BY <1>4, <1>5, <1>6, <1>7, <1>8, <1>9, <1>10 DEF Local, CallOK

(* A transaction that is rolled back, or whose commit is not acknowledged. *)
LEMMA RejectEnds ==
    ASSUME BoardInv, NEW c \in Calls, Reject(c),
           \A f \in Families : revision[f] # None => revision'[f] = revision[f]
    PROVE  Local(c) /\ call'[c].answer \in {None, "transaction_aborted"}
    <1>1. /\ call \in [Calls -> Calling]
          /\ lock \in [Rows -> Calls \cup {None}]
          /\ CallOK(c)
        BY DEF BoardInv, TypeOK
    <1>2. PICK m : /\ call' = [call EXCEPT ![c] = m]
                   /\ \/ /\ Cmd(c).op \in Writing
                         /\ m = [Fresh(Cmd(c)) EXCEPT !.pc = "user", !.write = FALSE]
                      \/ m = [call[c] EXCEPT !.pc = "answered", !.answer = "transaction_aborted"]
        BY DEF Reject, Writing
    <1>3. /\ m \in Calling
          /\ m.cmd = call[c].cmd
          /\ \/ m.pc = "user" /\ m.seen = None /\ m.answer = None
             \/ m.pc = "answered" /\ m.seen = call[c].seen /\ m.answer = "transaction_aborted"
        <2>1. CASE m = [call[c] EXCEPT !.pc = "answered", !.answer = "transaction_aborted"]
            BY <1>1, <2>1, ZenonT(60) DEF Calling, Pcs, Answers
        <2>2. CASE m = [Fresh(Cmd(c)) EXCEPT !.pc = "user", !.write = FALSE]
            <3>1. Cmd(c) \in Commands
                BY <1>1, CallFields
            <3>2. m = [pc |-> "user", cmd |-> Cmd(c), write |-> FALSE, seen |-> None,
                       known |-> FALSE, answer |-> None]
                BY <2>2 DEF Fresh
            <3> QED
                BY <3>1, <3>2 DEF Calling, Pcs, Cmd
        <2> QED
            BY <1>2, <2>1, <2>2
    <1>4. /\ call' \in [Calls -> Calling]
          /\ call'[c] = m
          /\ \A e \in Calls \ {c} : call'[e] = call[e]
        BY <1>1, <1>2, <1>3
    <1>6. Cmd(c)' = Cmd(c) /\ Family(c)' = Family(c)
        BY <1>3, <1>4 DEF Cmd, Family
    <1>7. /\ lock' \in [Rows -> Calls \cup {None}]
          /\ \A row \in Rows : lock[row] \in Calls \ {c} => lock'[row] = lock[row]
        BY <1>1, FreedIsTame DEF Reject
    <1>8. OnPath(c)' /\ HoldsLocks(c)'
        BY <1>3, <1>4 DEF OnPath, HoldsLocks
    <1>9. ReliesOn(c)'
        <2>1. Cmd(c).op \in Writing /\ call[c].seen # None => revision'[Family(c)] = call[c].seen
            BY <1>1, CallFields DEF CallOK, ReliesOn
        <2> QED
            BY <1>3, <1>4, <1>6, <2>1 DEF ReliesOn
    <1>10. Told(c)'
        BY <1>3, <1>4, AdvisoryAssumption DEF Told, Truth, Answers
    <1> QED
        BY <1>3, <1>4, <1>6, <1>7, <1>8, <1>9, <1>10 DEF Local, CallOK

(* A transaction that goes on. *)
LEMMA GoesOn ==
    ASSUME BoardInv, NEW c \in Calls, NEW m \in Calling, call' = [call EXCEPT ![c] = m],
           m.cmd = Cmd(c), m.answer = None
    PROVE  /\ call' \in [Calls -> Calling]
           /\ call'[c] = m
           /\ \A e \in Calls \ {c} : call'[e] = call[e]
           /\ Cmd(c)' = Cmd(c)
           /\ User(c)' = User(c)
           /\ Family(c)' = Family(c)
           /\ Told(c)'
           /\ call'[c].answer \notin {"submitted", "approved"}
    <1>1. call \in [Calls -> Calling]
        BY DEF BoardInv, TypeOK
    <1>2. /\ call' \in [Calls -> Calling]
          /\ call'[c] = m
          /\ \A e \in Calls \ {c} : call'[e] = call[e]
        BY <1>1
    <1>3. Cmd(c)' = Cmd(c) /\ User(c)' = User(c) /\ Family(c)' = Family(c)
        BY <1>2 DEF Cmd, User, Family
    <1>4. None \notin Answers
        BY AdvisoryAssumption
    <1>5. Told(c)'
        BY <1>2, <1>4 DEF Told, Truth, Answers
    <1>6. call'[c].answer \notin {"submitted", "approved"}
        BY <1>2, <1>4 DEF Answers
    <1> QED
        BY <1>2, <1>3, <1>5, <1>6

LEMMA GotoRecord ==
    ASSUME BoardInv, NEW c \in Calls, NEW pc \in Pcs, call[c].pc # "answered", Goto(c, pc)
    PROVE  \E m \in Calling :
              /\ call' = [call EXCEPT ![c] = m]
              /\ m.cmd = Cmd(c)
              /\ m.answer = None
              /\ m.pc = pc
              /\ m.seen = call[c].seen
    <1>1. call \in [Calls -> Calling] /\ CallOK(c)
        BY DEF BoardInv, TypeOK
    <1>2. call[c] \in Calling /\ call[c].answer = None
        BY <1>1 DEF CallOK, Told
    <1>3. PICK m : m = [call[c] EXCEPT !.pc = pc]
        OBVIOUS
    <1>4. m \in Calling
        BY <1>2, <1>3 DEF Calling
    <1>5. call' = [call EXCEPT ![c] = m]
        BY <1>1, <1>3 DEF Goto
    <1>6. /\ m.cmd = call[c].cmd
          /\ m.answer = call[c].answer
          /\ m.pc = pc
          /\ m.seen = call[c].seen
        BY <1>2, <1>3 DEF Calling
    <1> QED
        BY <1>2, <1>4, <1>5, <1>6 DEF Cmd

(* What the steps that go on have in common: the tables stay, and the rows *)
(* the call holds are those it held and the one it has just locked.        *)
LEMMA GoOnStep ==
    ASSUME BoardInv, NEW c \in Calls, NEW m \in Calling, call' = [call EXCEPT ![c] = m],
           m.cmd = Cmd(c), m.answer = None, UNCHANGED <<tables, faults>>,
           lock' \in [Rows -> Calls \cup {None}],
           \A row \in Rows : lock[row] \in Calls \ {c} => lock'[row] = lock[row],
           OnPath(c)', HoldsLocks(c)', ReliesOn(c)'
    PROVE  BoardInv'
    <1>1. CallOK(c)'
        BY GoesOn DEF CallOK
    <1>2. Local(c)
        BY <1>1, GoesOn DEF Local
    <1>3. UNCHANGED tables /\ faults' \in 0 .. MaxFaults
        BY DEF BoardInv, TypeOK
    <1>4. call'[c].answer \notin {"submitted", "approved"}
        BY GoesOn
    <1> QED
        BY <1>2, <1>3, <1>4, QuietStep

(* A step that answers and leaves the tables as they are. *)
LEMMA AnswerStep ==
    ASSUME BoardInv, NEW c \in Calls, NEW a \in Answers \ {"submitted", "approved"},
           Answer(c, a), UNCHANGED tables, faults' \in 0 .. MaxFaults, Truth(c, a)'
    PROVE  BoardInv'
    <1>1. \A f \in Families : revision[f] # None => revision'[f] = revision[f]
        BY DEF tables
    <1>2. Local(c) /\ call'[c].answer = a
        BY <1>1, AnswerEnds
    <1> QED
        BY <1>2, QuietStep

LEMMA RejectStep ==
    ASSUME BoardInv, NEW c \in Calls, Reject(c), UNCHANGED tables, faults' \in 0 .. MaxFaults
    PROVE  BoardInv'
    <1>1. \A f \in Families : revision[f] # None => revision'[f] = revision[f]
        BY DEF tables
    <1>2. Local(c) /\ call'[c].answer \in {None, "transaction_aborted"}
        BY <1>1, RejectEnds
    <1>3. call'[c].answer \notin {"submitted", "approved"}
        BY <1>2, AdvisoryAssumption DEF Answers
    <1> QED
        BY <1>2, <1>3, QuietStep

(* A lock is taken from nobody. *)
LEMMA LockTaken ==
    ASSUME BoardInv, NEW c \in Calls, Lock(c)
    PROVE  /\ lock' \in [Rows -> Calls \cup {None}]
           /\ \A row \in Rows : lock[row] \in Calls \ {c} => lock'[row] = lock[row]
           /\ \A row \in Rows : lock[row] = c => lock'[row] = c
           /\ Wanted(c) \in Rows => lock'[Wanted(c)] = c
    <1>1. PICK w : w = Wanted(c)
        OBVIOUS
    <1>2. lock \in [Rows -> Calls \cup {None}]
        BY DEF BoardInv, TypeOK
    <1>3. lock[w] \in {None, c} /\ lock' = [lock EXCEPT ![w] = c]
        BY <1>1 DEF Lock, Free
    <1>4. /\ lock' \in [Rows -> Calls \cup {None}]
          /\ \A row \in Rows : lock[row] \in Calls \ {c} => lock'[row] = lock[row]
          /\ \A row \in Rows : lock[row] = c => lock'[row] = c
          /\ w \in Rows => lock'[w] = c
        BY <1>2, <1>3, AdvisoryAssumption
    <1> QED
        BY <1>1, <1>4

LEMMA BeginStep ==
    ASSUME BoardInv, NEW c \in Calls, Begin(c)
    PROVE  BoardInv'
    <1>1. call[c].pc = "idle" /\ Goto(c, "user") /\ UNCHANGED <<tables, lock, faults>>
        BY DEF Begin, At
    <1>2. PICK m \in Calling : /\ call' = [call EXCEPT ![c] = m]
                               /\ m.cmd = Cmd(c)
                               /\ m.answer = None
                               /\ m.pc = "user"
                               /\ m.seen = call[c].seen
        BY <1>1, GotoRecord DEF Pcs
    <1>3. CallOK(c) /\ revision' = revision
        BY <1>1 DEF BoardInv, tables
    <1>4. OnPath(c)' /\ HoldsLocks(c)'
        BY <1>2, GoesOn DEF OnPath, HoldsLocks
    <1>5. ReliesOn(c)'
        BY <1>2, <1>3, GoesOn DEF CallOK, ReliesOn
    <1>6. /\ lock' \in [Rows -> Calls \cup {None}]
          /\ \A row \in Rows : lock[row] \in Calls \ {c} => lock'[row] = lock[row]
        BY <1>1 DEF BoardInv, TypeOK
    <1> QED
        BY <1>1, <1>2, <1>4, <1>5, <1>6, GoOnStep

LEMMA LockUserStep ==
    ASSUME BoardInv, NEW c \in Calls, LockUser(c)
    PROVE  BoardInv'
    <1>1. call[c].pc = "user" /\ Goto(c, "authority") /\ UNCHANGED <<tables, faults>>
        BY DEF LockUser, At
    <1>2. PICK m \in Calling : /\ call' = [call EXCEPT ![c] = m]
                               /\ m.cmd = Cmd(c)
                               /\ m.answer = None
                               /\ m.pc = "authority"
                               /\ m.seen = call[c].seen
        BY <1>1, GotoRecord DEF Pcs
    <1>3. CallOK(c) /\ revision' = revision
        BY <1>1 DEF BoardInv, tables
    <1>4. call \in [Calls -> Calling] /\ Lock(c)
        BY DEF BoardInv, TypeOK, LockUser
    <1>5. Wanted(c) = <<"user", User(c)>> /\ Wanted(c) \in Rows
        BY <1>1, <1>4, WantedRow, CallFields, RowsAreRows
    <1>7. /\ lock' \in [Rows -> Calls \cup {None}]
          /\ \A row \in Rows : lock[row] \in Calls \ {c} => lock'[row] = lock[row]
          /\ lock'[Wanted(c)] = c
        BY <1>4, <1>5, LockTaken
    <1>8. OnPath(c)'
        BY <1>2, GoesOn DEF OnPath
    <1>9. HoldsLocks(c)'
        BY <1>2, <1>5, <1>7, GoesOn DEF HoldsLocks
    <1>10. ReliesOn(c)'
        BY <1>2, <1>3, GoesOn DEF CallOK, ReliesOn
    <1> QED
        BY <1>1, <1>2, <1>7, <1>8, <1>9, <1>10, GoOnStep

LEMMA DecideStep ==
    ASSUME BoardInv, NEW c \in Calls, Decide(c)
    PROVE  BoardInv'
    <1>1. /\ call[c].pc = "authority"
          /\ Cmd(c).op \notin Writing
          /\ UNCHANGED <<tables, faults>>
        BY DEF Decide, At, Writing
    <1>2. /\ CallOK(c)
          /\ call \in [Calls -> Calling]
          /\ lock \in [Rows -> Calls \cup {None}]
        BY DEF BoardInv, TypeOK
    <1>3. PICK a : a = classifyCommand(Cmd(c))
        OBVIOUS
    <1>4. CASE a \in Changes
        <2>1. Goto(c, "write") /\ lock' = lock
            BY <1>3, <1>4 DEF Decide
        <2>2. PICK m \in Calling : /\ call' = [call EXCEPT ![c] = m]
                                   /\ m.cmd = Cmd(c)
                                   /\ m.answer = None
                                   /\ m.pc = "write"
                                   /\ m.seen = call[c].seen
            BY <1>1, <2>1, GotoRecord DEF Pcs
        <2>3. OnPath(c)'
            BY <1>1, <2>2, GoesOn DEF OnPath
        <2>4. HoldsLocks(c)'
            BY <1>1, <1>2, <2>1, <2>2, GoesOn DEF CallOK, HoldsLocks
        <2>5. classifyCommand(Cmd(c))' \in Changes
            <3>1. Cmd(c)' = Cmd(c)
                BY <2>2, GoesOn
            <3>2. status' = status /\ grants' = grants
                BY <1>1 DEF tables
            <3>3. classifyCommand(Cmd(c))' = classifyCommand(Cmd(c))
                BY <3>1, <3>2 DEF classifyCommand, classifyGrant, classifyRevoke, ActiveGrants
            <3> QED
                BY <1>3, <1>4, <3>3
        <2>6. ReliesOn(c)'
            BY <1>1, <2>2, <2>5, GoesOn DEF ReliesOn, Writing
        <2> QED
            BY <1>1, <1>2, <2>1, <2>2, <2>3, <2>4, <2>6, GoOnStep
    <1>5. CASE a \notin Changes
        <2>1. Answer(c, a)
            BY <1>3, <1>5 DEF Decide
        <2>2. Cmd(c)' = Cmd(c)
            BY <1>2, <2>1 DEF Answer, Cmd
        <2>3. /\ a \in {"already_applied", "active_grant_conflict", "user_inactive", "granted",
                        "expected_grant_mismatch", "grant_absent", "active_authority_mismatch",
                        "revoked", "user_disabled", "user_enabled"}
              /\ Cmd(c).op = "revoke" /\ a \in {"revoked", "already_applied"}
                   => /\ Cmd(c).grant \in DOMAIN grants[User(c)]
                      /\ ~grants[User(c)][Cmd(c).grant].active
            <3>1. Cmd(c).op \in {"grant", "revoke", "disable", "enable"}
                BY <1>1, <1>2, CallFields, CommandFields DEF Writing
            <3>2. CASE Cmd(c).op = "revoke"
                <4>1. a = classifyRevoke(Cmd(c))
                    BY <1>3, <3>2 DEF classifyCommand
                <4> QED
                    BY <1>5, <3>2, <4>1 DEF classifyRevoke, ActiveGrants, User, Changes
            <3>3. CASE Cmd(c).op = "grant"
                BY <1>3, <3>3 DEF classifyCommand, classifyGrant
            <3>4. CASE Cmd(c).op \in {"disable", "enable"}
                BY <1>3, <3>4 DEF classifyCommand
            <3> QED
                BY <3>1, <3>2, <3>3, <3>4
        <2>4. Truth(c, a)'
            <3>1. grants' = grants /\ User(c)' = User(c)
                BY <1>1, <2>2 DEF tables, User
            <3> QED
                BY <1>1, <2>2, <2>3, <3>1 DEF Truth, Writing
        <2>5. a \in Answers \ {"submitted", "approved"}
            BY <2>3 DEF Answers
        <2>6. UNCHANGED tables /\ faults' \in 0 .. MaxFaults
            BY <1>1 DEF BoardInv, TypeOK
        <2> QED
            BY <2>1, <2>4, <2>5, <2>6, AnswerStep
    <1> QED
        BY <1>4, <1>5

LEMMA CheckAuthorityStep ==
    ASSUME BoardInv, NEW c \in Calls, CheckAuthority(c)
    PROVE  BoardInv'
    <1>1. /\ call[c].pc = "authority"
          /\ Cmd(c).op \in Writing
          /\ UNCHANGED <<tables, faults>>
        BY DEF CheckAuthority, At, Writing
    <1>2. /\ CallOK(c)
          /\ call \in [Calls -> Calling]
          /\ lock \in [Rows -> Calls \cup {None}]
        BY DEF BoardInv, TypeOK
    <1>3. CASE Authorized(User(c), Cmd(c).op)
        <2>1. PICK pc \in Pcs : /\ pc = IF Cmd(c).op = "submit" THEN "natural" ELSE "revision"
                                /\ Goto(c, pc)
                                /\ lock' = lock
            BY <1>3 DEF CheckAuthority, Pcs
        <2>2. PICK m \in Calling : /\ call' = [call EXCEPT ![c] = m]
                                   /\ m.cmd = Cmd(c)
                                   /\ m.answer = None
                                   /\ m.pc = pc
                                   /\ m.seen = call[c].seen
            BY <1>1, <2>1, GotoRecord
        <2>3. OnPath(c)'
            BY <1>1, <2>1, <2>2, GoesOn DEF OnPath
        <2>4. HoldsLocks(c)'
            <3>1. Cmd(c).op = "submit" => pc = "natural"
                BY <2>1
            <3>2. pc \in {"natural", "revision"}
                BY <2>1
            <3> QED
                BY <1>1, <1>2, <2>1, <2>2, <3>1, <3>2, GoesOn DEF CallOK, HoldsLocks
        <2>5. Authorized(User(c), Cmd(c).op)'
            BY <1>1, <1>3, <2>2, GoesOn, ZenonT(60) DEF Authorized, ActiveGrants, tables
        <2>6. ReliesOn(c)'
            BY <1>1, <1>2, <2>1, <2>2, <2>5, GoesOn DEF CallOK, ReliesOn, tables
        <2> QED
            BY <1>1, <1>2, <2>1, <2>2, <2>3, <2>4, <2>6, GoOnStep
    <1>4. CASE ~Authorized(User(c), Cmd(c).op)
        <2>1. PICK a \in Answers \ {"submitted", "approved"} :
                a = "authority_rejected" /\ Answer(c, a)
            BY <1>4 DEF CheckAuthority, Answers
        <2>2. Truth(c, a)'
            BY <2>1 DEF Truth
        <2>3. UNCHANGED tables /\ faults' \in 0 .. MaxFaults
            BY <1>1 DEF BoardInv, TypeOK
        <2> QED
            BY <2>1, <2>2, <2>3, AnswerStep
    <1> QED
        BY <1>3, <1>4

(* While the tables stay, so does the authority of a call that has checked it. *)
LEMMA StillAuthorized ==
    ASSUME BoardInv, NEW c \in Calls, UNCHANGED tables, Cmd(c)' = Cmd(c),
           call[c].pc \in {"natural", "family", "revision", "vulnerability", "insert", "commit"}
    PROVE  Authorized(User(c), Cmd(c).op)'
    <1>1. Authorized(User(c), Cmd(c).op)
        BY DEF BoardInv, CallOK, ReliesOn
    <1>2. status' = status /\ grants' = grants /\ User(c)' = User(c)
        BY DEF tables, User
    <1> QED
        BY <1>1, <1>2 DEF Authorized, ActiveGrants

(* A call that goes on holds the rows it held. *)
LEMMA StillHolds ==
    ASSUME BoardInv, NEW c \in Calls, \A row \in Rows : lock[row] = c => lock'[row] = c
    PROVE  /\ call[c].pc \notin {"idle", "user", "answered"} => lock'[<<"user", User(c)>>] = c
           /\ /\ Cmd(c).op = "submit"
              /\ call[c].pc \in {"family", "revision", "vulnerability", "insert", "commit"}
              => lock'[<<"natural", Family(c)>>] = c
           /\ /\ Cmd(c).op = "approve"
              /\ call[c].pc \in {"vulnerability", "insert", "commit"}
              => lock'[<<"revision", Family(c)>>] = c
    <1>1. HoldsLocks(c) /\ call \in [Calls -> Calling]
        BY DEF BoardInv, CallOK, TypeOK
    <1>2. User(c) \in Users /\ (Cmd(c).op \in Writing => Family(c) \in Families)
        BY <1>1, CallFields
    <1> QED
        BY <1>1, <1>2, RowsAreRows DEF HoldsLocks, Writing

LEMMA LockNaturalStep ==
    ASSUME BoardInv, NEW c \in Calls, LockNatural(c)
    PROVE  BoardInv'
    <1>1. call[c].pc = "natural" /\ Goto(c, "family") /\ UNCHANGED <<tables, faults>>
        BY DEF LockNatural, At
    <1>2. PICK m \in Calling : /\ call' = [call EXCEPT ![c] = m]
                               /\ m.cmd = Cmd(c)
                               /\ m.answer = None
                               /\ m.pc = "family"
                               /\ m.seen = call[c].seen
        BY <1>1, GotoRecord DEF Pcs
    <1>3. CallOK(c) /\ call \in [Calls -> Calling] /\ Lock(c)
        BY DEF BoardInv, TypeOK, LockNatural
    <1>4. Cmd(c).op = "submit"
        BY <1>1, <1>3 DEF CallOK, OnPath
    <1>5. Wanted(c) = <<"natural", Family(c)>> /\ Wanted(c) \in Rows
        BY <1>1, <1>3, <1>4, WantedRow, CallFields, RowsAreRows DEF Writing
    <1>6. OnPath(c)'
        BY <1>2, <1>4, GoesOn DEF OnPath
    <1>7. HoldsLocks(c)'
        <2>1. /\ lock'[<<"natural", Family(c)>>] = c
              /\ lock'[<<"user", User(c)>>] = c
            BY <1>1, <1>3, <1>5, LockTaken, StillHolds
        <2> QED
            BY <1>2, <1>4, <2>1, GoesOn DEF HoldsLocks
    <1>8. ReliesOn(c)'
        <2>1. Authorized(User(c), Cmd(c).op)'
            BY <1>1, <1>2, GoesOn, StillAuthorized
        <2> QED
            BY <1>1, <1>2, <1>3, <2>1, GoesOn DEF CallOK, ReliesOn, tables
    <1> QED
        BY <1>1, <1>2, <1>3, <1>6, <1>7, <1>8, GoOnStep, LockTaken

LEMMA LockFamilyStep ==
    ASSUME BoardInv, NEW c \in Calls, LockFamily(c)
    PROVE  BoardInv'
    <1>1. call[c].pc = "family" /\ UNCHANGED <<tables, faults>>
        BY DEF LockFamily, At
    <1>2. PICK pc \in Pcs : pc \in {"vulnerability", "revision"} /\ Goto(c, pc)
        BY DEF LockFamily, Pcs
    <1>3. PICK m \in Calling : /\ call' = [call EXCEPT ![c] = m]
                               /\ m.cmd = Cmd(c)
                               /\ m.answer = None
                               /\ m.pc = pc
                               /\ m.seen = call[c].seen
        BY <1>1, <1>2, GotoRecord
    <1>4. /\ CallOK(c)
          /\ call \in [Calls -> Calling]
          /\ lock \in [Rows -> Calls \cup {None}]
        BY DEF BoardInv, TypeOK
    <1>5. Cmd(c).op = "submit"
        BY <1>1, <1>4 DEF CallOK, OnPath
    <1>6. /\ lock' \in [Rows -> Calls \cup {None}]
          /\ \A row \in Rows : lock[row] \in Calls \ {c} => lock'[row] = lock[row]
          /\ \A row \in Rows : lock[row] = c => lock'[row] = c
        BY <1>4, LockTaken DEF LockFamily
    <1>8. OnPath(c)'
        BY <1>2, <1>3, <1>5, GoesOn DEF OnPath, Writing
    <1>9. HoldsLocks(c)'
        <2>1. /\ lock'[<<"natural", Family(c)>>] = c
              /\ lock'[<<"user", User(c)>>] = c
            BY <1>1, <1>5, <1>6, StillHolds
        <2> QED
            BY <1>3, <1>5, <2>1, GoesOn DEF HoldsLocks
    <1>10. ReliesOn(c)'
        <2>1. Authorized(User(c), Cmd(c).op)'
            BY <1>1, <1>3, GoesOn, StillAuthorized
        <2> QED
            BY <1>1, <1>2, <1>3, <1>4, <1>5, <2>1, GoesOn DEF CallOK, ReliesOn, tables
    <1> QED
        BY <1>1, <1>3, <1>6, <1>8, <1>9, <1>10, GoOnStep

LEMMA LockRevisionStep ==
    ASSUME BoardInv, NEW c \in Calls, LockRevision(c)
    PROVE  BoardInv'
    <1>1. call[c].pc = "revision" /\ UNCHANGED <<tables, faults>>
        BY DEF LockRevision, At
    <1>2. /\ CallOK(c)
          /\ call \in [Calls -> Calling]
          /\ revision \in [Families -> [author : Users, content : Documents] \cup {None}]
        BY DEF BoardInv, TypeOK
    <1>3. Cmd(c).op \in Writing /\ Family(c) \in Families /\ User(c) \in Users
        BY <1>1, <1>2, CallFields DEF CallOK, OnPath
    <1>4. CASE revision[Family(c)] = None
        <2>1. PICK a \in Answers \ {"submitted", "approved"} : a = "not_found" /\ Answer(c, a)
            BY <1>4 DEF LockRevision, Answers
        <2>2. Truth(c, a)'
            BY <2>1 DEF Truth
        <2>3. UNCHANGED tables /\ faults' \in 0 .. MaxFaults
            BY <1>1 DEF BoardInv, TypeOK
        <2> QED
            BY <2>1, <2>2, <2>3, AnswerStep
    <1>5. CASE revision[Family(c)] # None
        <2>1. /\ Lock(c)
              /\ call' = [call EXCEPT ![c].pc = "vulnerability", ![c].seen = revision[Family(c)]]
            BY <1>5 DEF LockRevision
        <2>2. PICK m \in Calling : /\ call' = [call EXCEPT ![c] = m]
                                   /\ m.cmd = Cmd(c)
                                   /\ m.answer = None
                                   /\ m.pc = "vulnerability"
                                   /\ m.seen = revision[Family(c)]
            <3>1. PICK seen \in [author : Users, content : Documents] \cup {None} :
                    seen = revision[Family(c)]
                BY <1>2, <1>3
            <3>2. PICK n : n = [call[c] EXCEPT !.pc = "vulnerability"]
                OBVIOUS
            <3>3. call[c] \in Calling /\ call[c].answer = None
                BY <1>1, <1>2 DEF CallOK, Told
            <3>4. /\ n \in Calling
                  /\ n.cmd = call[c].cmd
                  /\ n.answer = call[c].answer
                  /\ n.pc = "vulnerability"
                BY <3>2, <3>3 DEF Calling, Pcs
            <3>5. PICK m : m = [n EXCEPT !.seen = seen]
                OBVIOUS
            <3>6. /\ m \in Calling
                  /\ m.cmd = n.cmd
                  /\ m.answer = n.answer
                  /\ m.pc = n.pc
                  /\ m.seen = seen
                BY <3>4, <3>5 DEF Calling
            <3>7. call' = [call EXCEPT ![c] = m]
                BY <1>2, <2>1, <3>1, <3>2, <3>5
            <3> QED
                BY <3>1, <3>3, <3>4, <3>6, <3>7 DEF Cmd
        <2>3. Wanted(c) = <<"revision", Family(c)>> /\ Wanted(c) \in Rows
            BY <1>1, <1>3, WantedRow, RowsAreRows
        <2>4. OnPath(c)'
            BY <1>3, <2>2, GoesOn DEF OnPath
        <2>5. HoldsLocks(c)'
            <3>1. /\ lock'[<<"revision", Family(c)>>] = c
                  /\ lock'[<<"user", User(c)>>] = c
                  /\ Cmd(c).op = "submit" => lock'[<<"natural", Family(c)>>] = c
                BY <1>1, <2>1, <2>3, LockTaken, StillHolds
            <3> QED
                BY <2>2, <3>1, GoesOn DEF HoldsLocks
        <2>6. ReliesOn(c)'
            <3>1. Authorized(User(c), Cmd(c).op)'
                BY <1>1, <2>2, GoesOn, StillAuthorized
            <3> QED
                BY <1>1, <1>5, <2>2, <3>1, GoesOn DEF ReliesOn, tables
        <2> QED
            BY <1>1, <2>1, <2>2, <2>4, <2>5, <2>6, GoOnStep, LockTaken
    <1> QED
        BY <1>4, <1>5

LEMMA PlanStep ==
    ASSUME BoardInv, NEW c \in Calls, Plan(c)
    PROVE  BoardInv'
    <1>1. call[c].pc = "vulnerability" /\ UNCHANGED <<tables, faults>>
        BY DEF Plan, At
    <1>2. /\ CallOK(c)
          /\ call \in [Calls -> Calling]
          /\ lock \in [Rows -> Calls \cup {None}]
        BY DEF BoardInv, TypeOK
    <1>3. Cmd(c).op \in Writing /\ Family(c) \in Families /\ User(c) \in Users
        BY <1>1, <1>2, CallFields DEF CallOK, OnPath
    <1>4. PICK a : a = IF Cmd(c).op = "submit" THEN planSubmission(c) ELSE planApproval(c)
        OBVIOUS
    <1>5. PICK known \in BOOLEAN : known <=> Vulnerability(c) \in vulnerability
        BY Zenon
    <1>6. CASE a \in {"submitted", "approved"}
        <2>1. /\ call' = [call EXCEPT ![c].pc = "insert", ![c].known = known]
              /\ lock' = [lock EXCEPT ![Wanted(c)] = IF known THEN c ELSE @]
              /\ known => Free(c)
            BY <1>4, <1>5, <1>6 DEF Plan
        <2>2. PICK m \in Calling : /\ call' = [call EXCEPT ![c] = m]
                                   /\ m.cmd = Cmd(c)
                                   /\ m.answer = None
                                   /\ m.pc = "insert"
                                   /\ m.seen = call[c].seen
            <3>1. call[c] \in Calling /\ call[c].answer = None
                BY <1>1, <1>2 DEF CallOK, Told
            <3>2. PICK n : n = [call[c] EXCEPT !.pc = "insert"]
                OBVIOUS
            <3>3. /\ n \in Calling
                  /\ n.cmd = call[c].cmd
                  /\ n.answer = call[c].answer
                  /\ n.pc = "insert"
                  /\ n.seen = call[c].seen
                BY <3>1, <3>2 DEF Calling, Pcs
            <3>4. PICK m : m = [n EXCEPT !.known = known]
                OBVIOUS
            <3>5. /\ m \in Calling
                  /\ m.cmd = n.cmd
                  /\ m.answer = n.answer
                  /\ m.pc = n.pc
                  /\ m.seen = n.seen
                BY <3>3, <3>4 DEF Calling
            <3>6. call' = [call EXCEPT ![c] = m]
                BY <1>2, <2>1, <3>2, <3>4
            <3> QED
                BY <3>1, <3>3, <3>5, <3>6 DEF Cmd
        <2>3. /\ lock' \in [Rows -> Calls \cup {None}]
              /\ \A row \in Rows : lock[row] \in Calls \ {c} => lock'[row] = lock[row]
              /\ \A row \in Rows : lock[row] = c => lock'[row] = c
            <3>1. CASE known
                BY <2>1, <3>1, LockTaken DEF Lock
            <3>2. CASE ~known
                BY <1>2, <2>1, <3>2
            <3> QED
                BY <3>1, <3>2
        <2>4. OnPath(c)'
            BY <1>3, <2>2, GoesOn DEF OnPath
        <2>5. HoldsLocks(c)'
            BY <1>1, <2>2, <2>3, GoesOn, StillHolds DEF HoldsLocks
        <2>6. ReliesOn(c)'
            <3>1. Authorized(User(c), Cmd(c).op)'
                BY <1>1, <2>2, GoesOn, StillAuthorized
            <3>2. Cmd(c).op = "approve"
                    => approval[Family(c)] = None /\ call[c].seen.author # User(c)
                BY <1>4, <1>6 DEF planApproval
            <3> QED
                <4>1. /\ call'[c] = m
                      /\ Cmd(c)' = Cmd(c)
                      /\ User(c)' = User(c)
                      /\ Family(c)' = Family(c)
                    BY <2>2, GoesOn
                <4>2. ReliesOn(c) /\ revision' = revision /\ approval' = approval
                    BY <1>1, <1>2 DEF CallOK, tables
                <4> QED
                    BY <1>1, <2>2, <3>1, <3>2, <4>1, <4>2 DEF ReliesOn
        <2> QED
            BY <1>1, <2>2, <2>3, <2>4, <2>5, <2>6, GoOnStep
    <1>7. CASE a \notin {"submitted", "approved"}
        <2>1. Answer(c, a)
            BY <1>4, <1>7 DEF Plan
        <2>2. /\ Cmd(c)' = Cmd(c)
              /\ User(c)' = User(c)
              /\ Family(c)' = Family(c)
              /\ Exact(c)' = Exact(c)
            BY <1>2, <2>1 DEF Answer, Cmd, User, Family, Exact
        <2>3. a \in Answers \ {"submitted", "approved"}
            BY <1>4, <1>7 DEF planSubmission, planApproval, Answers
        <2>4. CASE Cmd(c).op = "submit"
            <3>1. /\ a \in {"submitted", "already_applied"} => revision[Family(c)] = Exact(c)
                  /\ a = "immutable_conflict"
                       => \/ revision[Family(c)] \notin {None, Exact(c)}
                          \/ VulnerabilityOf[Cmd(c).doc] \in Foreign
                BY <1>2, <1>3, <1>4, <1>7, <2>4
                   DEF planSubmission, Vulnerability, Exact, CallOK, ReliesOn
            <3>2. Truth(c, a)'
                BY <1>1, <1>7, <2>2, <2>4, <3>1 DEF Truth, tables
            <3> QED
                BY <1>1, <2>1, <2>3, <3>2, AnswerStep DEF BoardInv, TypeOK
        <2>5. CASE Cmd(c).op = "approve"
            <3>1. /\ a \in {"approved", "already_applied"} => approval[Family(c)] = User(c)
                  /\ a = "immutable_conflict" => approval[Family(c)] \notin {None, User(c)}
                BY <1>4, <1>7, <2>5 DEF planApproval
            <3>2. Truth(c, a)'
                BY <1>1, <1>7, <2>2, <2>5, <3>1 DEF Truth, tables
            <3> QED
                BY <1>1, <2>1, <2>3, <3>2, AnswerStep DEF BoardInv, TypeOK
        <2> QED
            BY <1>3, <2>4, <2>5 DEF Writing
    <1> QED
        BY <1>6, <1>7

LEMMA InsertRevisionStep ==
    ASSUME BoardInv, NEW c \in Calls, InsertRevision(c)
    PROVE  BoardInv'
    <1>1. /\ call[c].pc = "insert"
          /\ Cmd(c).op = "submit"
          /\ UNCHANGED tables
          /\ UNCHANGED <<tables, faults>>
          /\ faults' \in 0 .. MaxFaults
        BY DEF InsertRevision, At, BoardInv, TypeOK
    <1>2. CASE Reject(c)
        BY <1>1, <1>2, RejectStep
    <1>3. CASE revision[Family(c)] = None /\ Lock(c) /\ Goto(c, "commit")
        <2>1. PICK m \in Calling : /\ call' = [call EXCEPT ![c] = m]
                                   /\ m.cmd = Cmd(c)
                                   /\ m.answer = None
                                   /\ m.pc = "commit"
                                   /\ m.seen = call[c].seen
            BY <1>1, <1>3, GotoRecord DEF Pcs
        <2>2. /\ call'[c] = m
              /\ Cmd(c)' = Cmd(c)
              /\ User(c)' = User(c)
              /\ Family(c)' = Family(c)
            BY <2>1, GoesOn
        <2>3. OnPath(c)'
            BY <1>1, <2>1, <2>2 DEF OnPath, Writing
        <2>4. HoldsLocks(c)'
            BY <1>1, <1>3, <2>1, <2>2, LockTaken, StillHolds DEF HoldsLocks
        <2>5. ReliesOn(c)'
            <3>1. Authorized(User(c), Cmd(c).op)'
                BY <1>1, <2>2, StillAuthorized
            <3>2. ReliesOn(c) /\ revision' = revision
                BY <1>1 DEF BoardInv, CallOK, tables
            <3> QED
                BY <1>1, <1>3, <2>1, <2>2, <3>1, <3>2 DEF ReliesOn
        <2> QED
            BY <1>1, <1>3, <2>1, <2>3, <2>4, <2>5, GoOnStep, LockTaken
    <1> QED
        BY <1>2, <1>3 DEF InsertRevision

LEMMA InsertApprovalStep ==
    ASSUME BoardInv, NEW c \in Calls, InsertApproval(c)
    PROVE  BoardInv'
    <1>1. /\ call[c].pc = "insert"
          /\ Cmd(c).op = "approve"
          /\ Lock(c)
          /\ Goto(c, "commit")
          /\ UNCHANGED tables
          /\ UNCHANGED <<tables, faults>>
        BY DEF InsertApproval, At
    <1>2. PICK m \in Calling : /\ call' = [call EXCEPT ![c] = m]
                               /\ m.cmd = Cmd(c)
                               /\ m.answer = None
                               /\ m.pc = "commit"
                               /\ m.seen = call[c].seen
        BY <1>1, GotoRecord DEF Pcs
    <1>3. /\ call'[c] = m
          /\ Cmd(c)' = Cmd(c)
          /\ User(c)' = User(c)
          /\ Family(c)' = Family(c)
        BY <1>2, GoesOn
    <1>4. OnPath(c)'
        BY <1>1, <1>2, <1>3 DEF OnPath, Writing
    <1>5. HoldsLocks(c)'
        BY <1>1, <1>2, <1>3, LockTaken, StillHolds DEF HoldsLocks
    <1>6. ReliesOn(c)'
        <2>1. Authorized(User(c), Cmd(c).op)'
            BY <1>1, <1>3, StillAuthorized
        <2>2. ReliesOn(c) /\ revision' = revision /\ approval' = approval
            BY <1>1 DEF BoardInv, CallOK, tables
        <2> QED
            BY <1>1, <1>2, <1>3, <2>1, <2>2 DEF ReliesOn
    <1> QED
        BY <1>1, <1>2, <1>4, <1>5, <1>6, GoOnStep, LockTaken

(* A commit that is not acknowledged, or a statement that fails. *)
LEMMA UnavailableEnds ==
    ASSUME BoardInv, NEW c \in Calls, Unavailable(c),
           \A f \in Families : revision[f] # None => revision'[f] = revision[f]
    PROVE  Local(c) /\ call'[c].answer \notin {"submitted", "approved"}
    <1>1. PICK a \in Answers : a = "database_unavailable" /\ Answer(c, a)
        BY DEF Unavailable, Answers
    <1>2. Truth(c, a)'
        BY <1>1 DEF Truth
    <1>3. Local(c) /\ call'[c].answer = a
        BY <1>1, <1>2, AnswerEnds
    <1> QED
        BY <1>1, <1>3

LEMMA FaultStep ==
    ASSUME BoardInv, NEW c \in Calls, Fault(c)
    PROVE  BoardInv'
    <1>1. faults' \in 0 .. MaxFaults /\ UNCHANGED tables
        BY AdvisoryAssumption DEF Fault, BoardInv, TypeOK
    <1>2. CASE Reject(c)
        BY <1>1, <1>2, RejectStep
    <1>3. CASE Unavailable(c)
        <2>1. \A f \in Families : revision[f] # None => revision'[f] = revision[f]
            BY <1>1 DEF tables
        <2> QED
            BY <1>1, <1>3, <2>1, UnavailableEnds, QuietStep
    <1> QED
        BY <1>2, <1>3 DEF Fault

LEMMA DeadlockStep ==
    ASSUME BoardInv, NEW c \in Calls, Deadlock(c)
    PROVE  BoardInv'
    <1>1. Reject(c) /\ UNCHANGED tables /\ faults' \in 0 .. MaxFaults
        BY DEF Deadlock, BoardInv, TypeOK
    <1> QED
        BY <1>1, RejectStep

-----------------------------------------------------------------------------
(* The commits. *)

LEMMA CommandStays ==
    ASSUME BoardInv, NEW c \in Calls, NEW a, Acknowledge(c, a)
    PROVE  /\ Cmd(c)' = Cmd(c)
           /\ User(c)' = User(c)
           /\ Family(c)' = Family(c)
           /\ Exact(c)' = Exact(c)
    <1>1. call \in [Calls -> Calling]
        BY DEF BoardInv, TypeOK
    <1>2. Cmd(c)' = Cmd(c)
        <2>1. \A b : Answer(c, b) => Cmd(c)' = Cmd(c)
            BY <1>1 DEF Answer, Cmd
        <2>2. Reject(c) => Cmd(c)' = Cmd(c)
            BY <1>1 DEF Reject, Cmd, Fresh
        <2> QED
            BY <2>1, <2>2 DEF Acknowledge, Unavailable
    <1> QED
        BY <1>2 DEF User, Family, Exact

(* A commit is acknowledged with a true answer, or with none. *)
LEMMA AcknowledgeEnds ==
    ASSUME BoardInv, NEW c \in Calls, NEW a \in Answers, Acknowledge(c, a), Truth(c, a)',
           \A f \in Families : revision[f] # None => revision'[f] = revision[f]
    PROVE  /\ Local(c)
           /\ faults' \in 0 .. MaxFaults
           /\ call'[c].answer = a \/ call'[c].answer \notin {"submitted", "approved"}
    <1>1. CASE Answer(c, a) /\ UNCHANGED faults
        BY <1>1, AnswerEnds DEF BoardInv, TypeOK
    <1>2. CASE faults < MaxFaults /\ faults' = faults + 1 /\ (Reject(c) \/ Unavailable(c))
        <2>1. faults' \in 0 .. MaxFaults
            BY <1>2, AdvisoryAssumption DEF BoardInv, TypeOK
        <2>2. None \notin {"submitted", "approved"}
            BY AdvisoryAssumption DEF Answers
        <2>3. CASE Reject(c)
            BY <2>1, <2>2, <2>3, RejectEnds
        <2>4. CASE Unavailable(c)
            BY <2>1, <2>4, UnavailableEnds
        <2> QED
            BY <1>2, <2>3, <2>4
    <1> QED
        BY <1>1, <1>2 DEF Acknowledge

(* A step that writes a row. *)
LEMMA WriteStep ==
    ASSUME BoardInv, NEW c \in Calls, Local(c), Tame(c), TypeOK', OneGrant',
           DutiesAreSeparated', FirstWriter(c)
    PROVE  BoardInv'
    <1>1. CallOK(c)'
        BY DEF Local
    <1>2. \A e \in Calls : CallOK(e)'
        BY <1>1, OthersKeep
    <1>3. OneWriter'
        BY <1>1, OneWriterStep
    <1> QED
        BY <1>2, <1>3 DEF BoardInv

LEMMA CommitSubmissionStep ==
    ASSUME BoardInv, NEW c \in Calls, CommitSubmission(c)
    PROVE  BoardInv'
    <1>1. /\ call[c].pc = "commit"
          /\ Cmd(c).op = "submit"
          /\ revision' = [revision EXCEPT ![Family(c)] = Exact(c)]
          /\ vulnerability' = vulnerability \cup {Vulnerability(c)}
          /\ status' = status
          /\ grants' = grants
          /\ approval' = approval
        BY DEF CommitSubmission, At, Exact
    <1>2. PICK a \in Answers : a = "submitted" /\ Acknowledge(c, a)
        BY DEF CommitSubmission, Answers
    <1>3. TypeOK /\ CallOK(c) /\ call \in [Calls -> Calling]
        BY DEF BoardInv, TypeOK
    <1>4. /\ Family(c) \in Families
          /\ Cmd(c).doc \in Documents
          /\ User(c) \in Users
          /\ Vulnerability(c) \in Vulnerabilities
        BY <1>1, <1>3, CallFields DEF Writing
    <1>5. /\ lock[<<"natural", Family(c)>>] = c
          /\ revision[Family(c)] = None
        BY <1>1, <1>3 DEF CallOK, HoldsLocks, ReliesOn
    <1>6. /\ revision' \in [Families -> [author : Users, content : Documents] \cup {None}]
          /\ revision'[Family(c)] = Exact(c)
          /\ \A f \in Families : f # Family(c) => revision'[f] = revision[f]
        BY <1>1, <1>3, <1>4 DEF TypeOK, Exact
    <1>7. \A f \in Families : revision[f] # None => revision'[f] = revision[f]
        BY <1>5, <1>6
    <1>8. Truth(c, a)'
        BY <1>1, <1>2, <1>6, CommandStays DEF Truth
    <1>9. /\ Local(c)
          /\ faults' \in 0 .. MaxFaults
          /\ call'[c].answer = a \/ call'[c].answer \notin {"submitted", "approved"}
        BY <1>2, <1>7, <1>8, AcknowledgeEnds
    <1>10. Tame(c)
        BY <1>1, <1>5, <1>6, <1>9 DEF Tame, Local
    <1>11. TypeOK'
        BY <1>1, <1>3, <1>4, <1>6, <1>9 DEF TypeOK, Local
    <1>12. OneGrant'
        BY <1>1 DEF BoardInv, OneGrant, ActiveGrants
    <1>13. FirstWriter(c)
        BY <1>2, <1>5, <1>9 DEF FirstWriter
    <1>14. DutiesAreSeparated'
        BY <1>1, <1>7 DEF BoardInv, DutiesAreSeparated
    <1> QED
        BY <1>9, <1>10, <1>11, <1>12, <1>13, <1>14, WriteStep

LEMMA CommitApprovalStep ==
    ASSUME BoardInv, NEW c \in Calls, CommitApproval(c)
    PROVE  BoardInv'
    <1>1. /\ call[c].pc = "commit"
          /\ Cmd(c).op = "approve"
          /\ approval' = [approval EXCEPT ![Family(c)] = User(c)]
          /\ status' = status
          /\ grants' = grants
          /\ vulnerability' = vulnerability
          /\ revision' = revision
        BY DEF CommitApproval, At
    <1>2. PICK a \in Answers : a = "approved" /\ Acknowledge(c, a)
        BY DEF CommitApproval, Answers
    <1>3. TypeOK /\ CallOK(c) /\ call \in [Calls -> Calling]
        BY DEF BoardInv, TypeOK
    <1>4. Family(c) \in Families /\ User(c) \in Users
        BY <1>1, <1>3, CallFields DEF Writing
    <1>5. /\ lock[<<"revision", Family(c)>>] = c
          /\ approval[Family(c)] = None
        BY <1>1, <1>3 DEF CallOK, HoldsLocks, ReliesOn
    <1>6. /\ approval' \in [Families -> Users \cup {None}]
          /\ approval'[Family(c)] = User(c)
          /\ \A f \in Families : f # Family(c) => approval'[f] = approval[f]
        BY <1>1, <1>3, <1>4 DEF TypeOK
    <1>7. Truth(c, a)'
        BY <1>1, <1>2, <1>6, CommandStays DEF Truth
    <1>8. /\ Local(c)
          /\ faults' \in 0 .. MaxFaults
          /\ call'[c].answer = a \/ call'[c].answer \notin {"submitted", "approved"}
        BY <1>1, <1>2, <1>7, AcknowledgeEnds
    <1>9. Tame(c)
        BY <1>1, <1>5, <1>6, <1>8 DEF Tame, Local
    <1>10. TypeOK'
        BY <1>1, <1>3, <1>6, <1>8 DEF TypeOK, Local
    <1>11. OneGrant'
        BY <1>1 DEF BoardInv, OneGrant, ActiveGrants
    <1>12. FirstWriter(c)
        BY <1>2, <1>5, <1>8 DEF FirstWriter
    <1>13. DutiesAreSeparated'
        <2>1. revision[Family(c)] # None /\ revision[Family(c)].author # User(c)
            BY <1>1, <1>3 DEF CallOK, ReliesOn, Writing
        <2> QED
            BY <1>1, <1>6, <2>1 DEF BoardInv, DutiesAreSeparated
    <1> QED
        BY <1>8, <1>9, <1>10, <1>11, <1>12, <1>13, WriteStep

(* What an operator command has found, and finds still when it writes. *)
LEMMA FoundByOperator ==
    ASSUME BoardInv, NEW c \in Calls, call[c].pc = "write"
    PROVE  /\ Cmd(c).op = "grant" => ActiveGrants(User(c)) = {} /\ status[User(c)] = "active"
           /\ Cmd(c).op = "revoke" => ActiveGrants(User(c)) = {Cmd(c).grant}
           /\ Cmd(c).op = "disable" => status[User(c)] = "active"
           /\ Cmd(c).op = "enable" => status[User(c)] = "disabled"
           /\ lock[<<"user", User(c)>>] = c
    <1>1. /\ call \in [Calls -> Calling]
          /\ status \in [Users -> {"active", "disabled"}]
          /\ classifyCommand(Cmd(c)) \in Changes
          /\ lock[<<"user", User(c)>>] = c
        BY DEF BoardInv, TypeOK, CallOK, ReliesOn, HoldsLocks
    <1>2. User(c) \in Users
        BY <1>1, CallFields
    <1>3. ASSUME Cmd(c).op = "grant"
          PROVE  ActiveGrants(User(c)) = {} /\ status[User(c)] = "active"
        <2>1. classifyGrant(Cmd(c)) \in Changes
            BY <1>1, <1>3 DEF classifyCommand
        <2> QED
            BY <1>1, <1>2, <2>1 DEF classifyGrant, Changes, User
    <1>4. ASSUME Cmd(c).op = "revoke"
          PROVE  ActiveGrants(User(c)) = {Cmd(c).grant}
        <2>1. classifyRevoke(Cmd(c)) \in Changes
            BY <1>1, <1>4 DEF classifyCommand
        <2> QED
            BY <2>1 DEF classifyRevoke, Changes, User
    <1>5. /\ Cmd(c).op = "disable" => status[User(c)] = "active"
          /\ Cmd(c).op = "enable" => status[User(c)] = "disabled"
        BY <1>1, <1>2 DEF classifyCommand, Changes, User
    <1> QED
        BY <1>1, <1>3, <1>4, <1>5

Grant == [authority : Authorities, active : BOOLEAN]

(* A grant is added: it is the only active one. *)
LEMMA GrantAdded ==
    ASSUME BoardInv, NEW u \in Users, ActiveGrants(u) = {}, NEW a \in Authorities,
           grants' = [grants EXCEPT ![u] = Append(@, [authority |-> a, active |-> TRUE])]
    PROVE  /\ grants' \in [Users -> Seq(Grant)]
           /\ \A v \in Users \ {u} : grants'[v] = grants[v]
           /\ \A g \in DOMAIN grants[u] : /\ g \in DOMAIN grants'[u]
                                          /\ grants'[u][g] = grants[u][g]
           /\ ActiveGrants(u)' = {Len(grants[u]) + 1}
           /\ grants'[u][Len(grants[u]) + 1].authority = a
    <1>1. grants \in [Users -> Seq(Grant)]
        BY DEF BoardInv, TypeOK, Grant
    <1>2. PICK s \in Seq(Grant) : s = grants[u]
        BY <1>1
    <1>3. PICK x \in Grant : x = [authority |-> a, active |-> TRUE] /\ x.active /\ x.authority = a
        <2>1. PICK x : x = [authority |-> a, active |-> TRUE]
            OBVIOUS
        <2>2. x \in Grant
            BY <2>1 DEF Grant
        <2>3. x.active /\ x.authority = a
            BY <2>1
        <2> QED
            BY <2>1, <2>2, <2>3
    <1>4. /\ Append(s, x) \in Seq(Grant)
          /\ DOMAIN Append(s, x) = 1 .. Len(s) + 1
          /\ DOMAIN s = 1 .. Len(s)
          /\ \A g \in 1 .. Len(s) : Append(s, x)[g] = s[g]
          /\ Append(s, x)[Len(s) + 1] = x
          /\ Len(s) \in Nat
        OBVIOUS
    <1>5. PICK t : t = Append(s, x)
        OBVIOUS
    <1>6. /\ grants' = [grants EXCEPT ![u] = t]
          /\ grants'[u] = t
          /\ \A v \in Users \ {u} : grants'[v] = grants[v]
        BY <1>1, <1>2, <1>3, <1>5
    <1>7. \A g \in DOMAIN s : ~s[g].active
        BY <1>2 DEF ActiveGrants
    <1>8. ActiveGrants(u)' = {Len(s) + 1}
        <2>1. ActiveGrants(u)' = {g \in DOMAIN t : t[g].active}
            BY <1>6 DEF ActiveGrants
        <2>2. \A g \in DOMAIN t : t[g].active <=> g = Len(s) + 1
            BY <1>3, <1>4, <1>5, <1>7
        <2>3. Len(s) + 1 \in DOMAIN t
            BY <1>4, <1>5
        <2> QED
            BY <2>1, <2>2, <2>3
    <1>9. grants' \in [Users -> Seq(Grant)]
        BY <1>1, <1>4, <1>5, <1>6
    <1> QED
        BY <1>2, <1>3, <1>4, <1>5, <1>6, <1>8, <1>9

(* The active grant is revoked: none is left. *)
LEMMA GrantRevoked ==
    ASSUME BoardInv, NEW u \in Users, NEW g, ActiveGrants(u) = {g},
           grants' = [grants EXCEPT ![u][g].active = FALSE]
    PROVE  /\ grants' \in [Users -> Seq(Grant)]
           /\ \A v \in Users \ {u} : grants'[v] = grants[v]
           /\ DOMAIN grants'[u] = DOMAIN grants[u]
           /\ g \in DOMAIN grants[u]
           /\ \A h \in DOMAIN grants[u] : ~grants'[u][h].active
           /\ ActiveGrants(u)' = {}
    <1>1. grants \in [Users -> Seq(Grant)]
        BY DEF BoardInv, TypeOK, Grant
    <1>2. PICK s \in Seq(Grant) : s = grants[u]
        BY <1>1
    <1>3. g \in DOMAIN s /\ \A h \in DOMAIN s : h # g => ~s[h].active
        BY <1>2 DEF ActiveGrants
    <1>4. PICK x : x = [s[g] EXCEPT !.active = FALSE]
        OBVIOUS
    <1>5. x \in Grant /\ ~x.active
        <2>1. s[g] \in Grant
            BY <1>3
        <2>2. x \in Grant
            BY <1>4, <2>1 DEF Grant
        <2>3. ~x.active
            BY <1>4, <2>1 DEF Grant
        <2> QED
            BY <2>2, <2>3
    <1>6. PICK t : t = [s EXCEPT ![g] = x]
        OBVIOUS
    <1>7. /\ t \in Seq(Grant)
          /\ DOMAIN t = DOMAIN s
          /\ t[g] = x
          /\ \A h \in DOMAIN s : h # g => t[h] = s[h]
        BY <1>3, <1>5, <1>6
    <1>8. /\ grants' = [grants EXCEPT ![u] = t]
          /\ grants'[u] = t
          /\ \A v \in Users \ {u} : grants'[v] = grants[v]
        BY <1>1, <1>2, <1>4, <1>6
    <1>9. \A h \in DOMAIN t : ~t[h].active
        BY <1>3, <1>5, <1>7
    <1>10. ActiveGrants(u)' = {}
        BY <1>8, <1>9 DEF ActiveGrants
    <1>11. grants' \in [Users -> Seq(Grant)]
        BY <1>1, <1>7, <1>8
    <1> QED
        BY <1>2, <1>3, <1>7, <1>8, <1>9, <1>10, <1>11

LEMMA InsertGrantStep ==
    ASSUME BoardInv, NEW c \in Calls, insertGrant(c)
    PROVE  BoardInv'
    <1>1. /\ call[c].pc = "write"
          /\ Cmd(c).op = "grant"
          /\ grants' = [grants EXCEPT ![User(c)] =
                          Append(@, [authority |-> Cmd(c).authority, active |-> TRUE])]
          /\ status' = status
          /\ vulnerability' = vulnerability
          /\ revision' = revision
          /\ approval' = approval
        BY DEF insertGrant, At
    <1>2. PICK a \in Answers : a = "granted" /\ Acknowledge(c, a)
        BY DEF insertGrant, Answers
    <1>3. TypeOK /\ call \in [Calls -> Calling]
        BY DEF BoardInv, TypeOK
    <1>4. PICK u \in Users : u = User(c)
        BY <1>3, CallFields
    <1>5. PICK auth \in Authorities : auth = Cmd(c).authority
        BY <1>1, <1>3, CallFields, CommandFields
    <1>6. ActiveGrants(u) = {} /\ lock[<<"user", u>>] = c
        BY <1>1, <1>4, FoundByOperator
    <1>7. /\ grants' \in [Users -> Seq(Grant)]
          /\ \A v \in Users \ {u} : grants'[v] = grants[v]
          /\ \A g \in DOMAIN grants[u] : /\ g \in DOMAIN grants'[u]
                                         /\ grants'[u][g] = grants[u][g]
          /\ ActiveGrants(u)' = {Len(grants[u]) + 1}
        BY <1>1, <1>4, <1>5, <1>6, GrantAdded
    <1>8. Truth(c, a)'
        BY <1>1, <1>2, CommandStays DEF Truth
    <1>9. /\ Local(c)
          /\ faults' \in 0 .. MaxFaults
          /\ call'[c].answer \notin {"submitted", "approved"}
        <2>1. \A f \in Families : revision[f] # None => revision'[f] = revision[f]
            BY <1>1
        <2> QED
            BY <1>2, <1>8, <2>1, AcknowledgeEnds
    <1>10. Tame(c)
        <2>1. status' = status /\ revision' = revision /\ approval' = approval
            BY <1>1
        <2>2. \A v \in Users : lock[<<"user", v>>] # c
                                  => status'[v] = status[v] /\ grants'[v] = grants[v]
            BY <1>6, <1>7, <2>1
        <2>3. \A v \in Users : \A g \in DOMAIN grants[v] :
                 /\ g \in DOMAIN grants'[v]
                 /\ ~grants[v][g].active => ~grants'[v][g].active
            BY <1>7
        <2> QED
            BY <1>9, <2>1, <2>2, <2>3 DEF Tame, Local
    <1>11. TypeOK'
        <2>1. /\ status' = status
              /\ vulnerability' = vulnerability
              /\ revision' = revision
              /\ approval' = approval
            BY <1>1
        <2> QED
            BY <1>3, <1>7, <1>9, <2>1 DEF TypeOK, Local, Grant
    <1>12. OneGrant'
        <2>1. \A v \in Users \ {u} : ActiveGrants(v)' = ActiveGrants(v)
            BY <1>7 DEF ActiveGrants
        <2>2. OneGrant
            BY DEF BoardInv
        <2> QED
            BY <1>7, <2>1, <2>2 DEF OneGrant
    <1>13. FirstWriter(c)
        BY <1>9 DEF FirstWriter
    <1>14. DutiesAreSeparated'
        <2>1. revision' = revision /\ approval' = approval
            BY <1>1
        <2> QED
            BY <2>1 DEF BoardInv, DutiesAreSeparated
    <1> QED
        BY <1>9, <1>10, <1>11, <1>12, <1>13, <1>14, WriteStep

LEMMA RevokeGrantStep ==
    ASSUME BoardInv, NEW c \in Calls, revokeGrant(c)
    PROVE  BoardInv'
    <1>1. /\ call[c].pc = "write"
          /\ Cmd(c).op = "revoke"
          /\ grants' = [grants EXCEPT ![User(c)][Cmd(c).grant].active = FALSE]
          /\ status' = status
          /\ vulnerability' = vulnerability
          /\ revision' = revision
          /\ approval' = approval
        BY DEF revokeGrant, At
    <1>2. PICK a \in Answers : a = "revoked" /\ Acknowledge(c, a)
        BY DEF revokeGrant, Answers
    <1>3. TypeOK /\ call \in [Calls -> Calling]
        BY DEF BoardInv, TypeOK
    <1>4. PICK u \in Users : u = User(c)
        BY <1>3, CallFields
    <1>5. PICK g : g = Cmd(c).grant
        OBVIOUS
    <1>6. ActiveGrants(u) = {g} /\ lock[<<"user", u>>] = c
        BY <1>1, <1>4, <1>5, FoundByOperator
    <1>7. /\ grants' \in [Users -> Seq(Grant)]
          /\ \A v \in Users \ {u} : grants'[v] = grants[v]
          /\ DOMAIN grants'[u] = DOMAIN grants[u]
          /\ g \in DOMAIN grants[u]
          /\ \A h \in DOMAIN grants[u] : ~grants'[u][h].active
          /\ ActiveGrants(u)' = {}
        BY <1>1, <1>4, <1>5, <1>6, GrantRevoked
    <1>8. Truth(c, a)'
        BY <1>1, <1>2, <1>4, <1>5, <1>7, CommandStays DEF Truth
    <1>9. /\ Local(c)
          /\ faults' \in 0 .. MaxFaults
          /\ call'[c].answer \notin {"submitted", "approved"}
        BY <1>1, <1>2, <1>8, AcknowledgeEnds
    <1>10. Tame(c)
        BY <1>1, <1>6, <1>7, <1>9 DEF Tame, Local
    <1>11. TypeOK'
        BY <1>1, <1>3, <1>7, <1>9 DEF TypeOK, Local, Grant
    <1>12. OneGrant'
        <2>1. \A v \in Users \ {u} : ActiveGrants(v)' = ActiveGrants(v)
            BY <1>7 DEF ActiveGrants
        <2>2. OneGrant
            BY DEF BoardInv
        <2> QED
            BY <1>7, <2>1, <2>2 DEF OneGrant
    <1>13. FirstWriter(c)
        BY <1>9 DEF FirstWriter
    <1>14. DutiesAreSeparated'
        <2>1. revision' = revision /\ approval' = approval
            BY <1>1
        <2> QED
            BY <2>1 DEF BoardInv, DutiesAreSeparated
    <1> QED
        BY <1>9, <1>10, <1>11, <1>12, <1>13, <1>14, WriteStep

LEMMA UpdateUserStatusStep ==
    ASSUME BoardInv, NEW c \in Calls, updateUserStatus(c)
    PROVE  BoardInv'
    <1>1. /\ call[c].pc = "write"
          /\ Cmd(c).op \in {"disable", "enable"}
          /\ status' = [status EXCEPT ![User(c)] =
                          IF Cmd(c).op = "disable" THEN "disabled" ELSE "active"]
          /\ grants' = grants
          /\ vulnerability' = vulnerability
          /\ revision' = revision
          /\ approval' = approval
        BY DEF updateUserStatus, At
    <1>2. TypeOK /\ call \in [Calls -> Calling]
        BY DEF BoardInv, TypeOK
    <1>3. User(c) \in Users
        BY <1>2, CallFields
    <1>4. PICK a \in Answers : /\ a \in {"already_applied", "user_disabled", "user_enabled"}
                               /\ Acknowledge(c, a)
        <2>1. PICK a : a = classifyCommand(Cmd(c))
            OBVIOUS
        <2>2. a \in {"already_applied", "user_disabled", "user_enabled"}
            BY <1>1, <2>1 DEF classifyCommand
        <2>3. Acknowledge(c, a)
            BY <2>1 DEF updateUserStatus
        <2> QED
            BY <2>2, <2>3 DEF Answers
    <1>5. lock[<<"user", User(c)>>] = c
        BY <1>1, FoundByOperator
    <1>6. /\ status' \in [Users -> {"active", "disabled"}]
          /\ \A v \in Users \ {User(c)} : status'[v] = status[v]
        BY <1>1, <1>2, <1>3 DEF TypeOK
    <1>7. Truth(c, a)'
        BY <1>1, <1>4, CommandStays DEF Truth
    <1>8. /\ Local(c)
          /\ faults' \in 0 .. MaxFaults
          /\ call'[c].answer \notin {"submitted", "approved"}
        BY <1>1, <1>4, <1>7, AcknowledgeEnds
    <1>9. Tame(c)
        BY <1>1, <1>5, <1>6, <1>8 DEF Tame, Local
    <1>10. TypeOK'
        BY <1>1, <1>2, <1>6, <1>8 DEF TypeOK, Local
    <1>11. OneGrant'
        BY <1>1 DEF BoardInv, OneGrant, ActiveGrants
    <1>12. FirstWriter(c)
        BY <1>8 DEF FirstWriter
    <1>13. DutiesAreSeparated'
        BY <1>1 DEF BoardInv, DutiesAreSeparated
    <1> QED
        BY <1>8, <1>9, <1>10, <1>11, <1>12, <1>13, WriteStep

-----------------------------------------------------------------------------
(* The theorems. *)

LEMMA InitOK == Init => BoardInv
    <1> SUFFICES ASSUME Init PROVE BoardInv
        OBVIOUS
    <1>1. PICK w \in Workloads : call = [c \in Calls |-> Fresh(w[c])]
        BY DEF Init
    <1>2. \A c \in Calls : w[c] \in Commands
        BY AdvisoryAssumption
    <1>3. \A c \in Calls : /\ call[c] = Fresh(w[c])
                           /\ call[c].pc = "idle"
                           /\ call[c].seen = None
                           /\ call[c].answer = None
        BY <1>1 DEF Fresh
    <1>4. \A c \in Calls : call[c] \in Calling
        <2> SUFFICES ASSUME NEW c \in Calls PROVE call[c] \in Calling
            OBVIOUS
        <2>1. PICK cmd \in Commands : cmd = w[c]
            BY <1>2
        <2>2. call[c] = [pc |-> "idle", cmd |-> cmd, write |-> TRUE, seen |-> None,
                         known |-> FALSE, answer |-> None]
            BY <1>3, <2>1 DEF Fresh
        <2> QED
            BY <2>2 DEF Calling, Pcs
    <1>5. call \in [Calls -> Calling]
        BY <1>1, <1>4
    <1>6. None \notin Answers
        BY AdvisoryAssumption
    <1>7. \A c \in Calls : CallOK(c)
        BY <1>3, <1>6 DEF CallOK, OnPath, HoldsLocks, ReliesOn, Told, Truth, Answers
    <1>8. /\ grants \in [Users -> Seq(Grant)]
          /\ \A u \in Users : \A g \in DOMAIN grants[u] : g = 1
        <2> SUFFICES ASSUME NEW u \in Users
                     PROVE  /\ grants[u] \in Seq(Grant)
                            /\ \A g \in DOMAIN grants[u] : g = 1
            BY DEF Init
        <2>1. CASE InitialGrant[u] = None
            BY <2>1 DEF Init
        <2>2. CASE InitialGrant[u] # None
            <3>1. InitialGrant[u] \in Authorities
                BY <2>2, AdvisoryAssumption
            <3>2. PICK x : x = [authority |-> InitialGrant[u], active |-> TRUE]
                OBVIOUS
            <3>3. x \in Grant
                BY <3>1, <3>2 DEF Grant
            <3>4. grants[u] = <<x>>
                BY <2>2, <3>2 DEF Init
            <3> QED
                BY <3>3, <3>4
        <2> QED
            BY <2>1, <2>2
    <1>9. TypeOK
        <2>1. /\ status \in [Users -> {"active", "disabled"}]
              /\ vulnerability \subseteq Vulnerabilities
              /\ faults \in 0 .. MaxFaults
            BY AdvisoryAssumption DEF Init
        <2>2. /\ revision \in [Families -> [author : Users, content : Documents] \cup {None}]
              /\ approval \in [Families -> Users \cup {None}]
              /\ lock \in [Rows -> Calls \cup {None}]
            BY DEF Init
        <2> QED
            BY <1>5, <1>8, <2>1, <2>2 DEF TypeOK, Grant
    <1>10. OneGrant
        BY <1>8 DEF OneGrant, ActiveGrants
    <1>11. DutiesAreSeparated
        BY DEF Init, DutiesAreSeparated
    <1>12. OneWriter
        BY <1>3, <1>6 DEF OneWriter, Answers
    <1> QED
        BY <1>7, <1>9, <1>10, <1>11, <1>12 DEF BoardInv

LEMMA NextOK == BoardInv /\ [Next]_vars => BoardInv'
    <1> SUFFICES ASSUME BoardInv, [Next]_vars PROVE BoardInv'
        OBVIOUS
    <1>1. CASE UNCHANGED vars
        <2>1. /\ status' = status
              /\ grants' = grants
              /\ vulnerability' = vulnerability
              /\ revision' = revision
              /\ approval' = approval
              /\ lock' = lock
              /\ call' = call
              /\ faults' = faults
            BY <1>1 DEF vars, tables
        <2>2. TypeOK'
            BY <2>1 DEF BoardInv, TypeOK
        <2>3. OneGrant' /\ OneWriter' /\ DutiesAreSeparated'
            BY <2>1 DEF BoardInv, OneGrant, OneWriter, DutiesAreSeparated, ActiveGrants, Family, Cmd
        <2>4. ASSUME NEW c \in Calls PROVE CallOK(c)'
            <3>1. CallOK(c)
                BY DEF BoardInv
            <3>2. OnPath(c)' /\ HoldsLocks(c)'
                BY <2>1, <3>1 DEF CallOK, OnPath, HoldsLocks, Cmd, User, Family
            <3>3. Told(c)'
                BY <2>1, <3>1 DEF CallOK, Told, Truth, Cmd, User, Family, Exact
            <3>4. ReliesOn(c)'
                <4>1. classifyCommand(Cmd(c))' = classifyCommand(Cmd(c))
                    BY <2>1 DEF classifyCommand, classifyGrant, classifyRevoke, ActiveGrants, Cmd
                <4>2. Authorized(User(c), Cmd(c).op)' <=> Authorized(User(c), Cmd(c).op)
                    BY <2>1 DEF Authorized, ActiveGrants, User, Cmd
                <4> QED
                    BY <2>1, <3>1, <4>1, <4>2 DEF CallOK, ReliesOn, Cmd, User, Family
            <3> QED
                BY <3>2, <3>3, <3>4 DEF CallOK
        <2> QED
            BY <2>2, <2>3, <2>4 DEF BoardInv
    <1>2. ASSUME NEW c \in Calls, Begin(c) \/ Transaction(c) \/ Fault(c)
          PROVE  BoardInv'
        <2>1. CASE Begin(c)
            BY <2>1, BeginStep
        <2>2. CASE LockUser(c)
            BY <2>2, LockUserStep
        <2>3. CASE Decide(c)
            BY <2>3, DecideStep
        <2>4. CASE CheckAuthority(c)
            BY <2>4, CheckAuthorityStep
        <2>5. CASE LockNatural(c)
            BY <2>5, LockNaturalStep
        <2>6. CASE LockFamily(c)
            BY <2>6, LockFamilyStep
        <2>7. CASE LockRevision(c)
            BY <2>7, LockRevisionStep
        <2>8. CASE Plan(c)
            BY <2>8, PlanStep
        <2>9. CASE InsertRevision(c)
            BY <2>9, InsertRevisionStep
        <2>10. CASE InsertApproval(c)
            BY <2>10, InsertApprovalStep
        <2>11. CASE CommitSubmission(c)
            BY <2>11, CommitSubmissionStep
        <2>12. CASE CommitApproval(c)
            BY <2>12, CommitApprovalStep
        <2>13. CASE insertGrant(c)
            BY <2>13, InsertGrantStep
        <2>14. CASE revokeGrant(c)
            BY <2>14, RevokeGrantStep
        <2>15. CASE updateUserStatus(c)
            BY <2>15, UpdateUserStatusStep
        <2>16. CASE Deadlock(c)
            BY <2>16, DeadlockStep
        <2>17. CASE Fault(c)
            BY <2>17, FaultStep
        <2> QED
            BY <1>2, <2>1, <2>2, <2>3, <2>4, <2>5, <2>6, <2>7, <2>8, <2>9, <2>10, <2>11, <2>12,
               <2>13, <2>14, <2>15, <2>16, <2>17 DEF Transaction
    <1> QED
        BY <1>1, <1>2 DEF Next

(* Whatever transactions race, fail and are read again, the rows a call holds *)
(* protect what it has read.                                                  *)
THEOREM InvariantHolds == Spec => []BoardInv
    BY InitOK, NextOK, PTL DEF Spec

(* Every table, lock and transaction keeps the shape the code gives it. *)
THEOREM TypeCorrect == Spec => []TypeOK
    <1>1. BoardInv => TypeOK
        BY DEF BoardInv
    <1> QED
        BY <1>1, InvariantHolds, PTL

(* An answer stays true of the tables: the revision or the approval it claims *)
(* is the caller's, a conflict is with another row, a revoked grant stays     *)
(* revoked, and one call per family is told that it wrote the row.            *)
THEOREM AnswersStayTrue == Spec => []AnswersAreTrue
    <1>1. BoardInv => AnswersAreTrue
        <2> SUFFICES ASSUME BoardInv PROVE AnswersAreTrue
            OBVIOUS
        <2>1. \A c \in Calls : Told(c)
            BY DEF BoardInv, CallOK
        <2>2. OneWriter
            BY DEF BoardInv
        <2> QED
            BY <2>1, <2>2 DEF AnswersAreTrue, OneWriter, Told, Truth, At
    <1> QED
        BY <1>1, InvariantHolds, PTL

(* No revision is approved by its author, although the approval was planned on *)
(* a revision read statements before the commit.                               *)
THEOREM SeparationOfDuties == Spec => []DutiesAreSeparated
    <1>1. BoardInv => DutiesAreSeparated
        BY DEF BoardInv
    <1> QED
        BY <1>1, InvariantHolds, PTL

(* No user ever holds two active grants, however grants and revocations race. *)
THEOREM OneActiveGrant == Spec => []OneGrant
    <1>1. BoardInv => OneGrant
        BY DEF BoardInv
    <1> QED
        BY <1>1, InvariantHolds, PTL

-----------------------------------------------------------------------------
(* The transactions implement the board. *)

holding == [u \in Users |-> Holding(u)]

LEMMA GrantedAuthority ==
    ASSUME BoardInv, NEW u \in Users, NEW g \in DOMAIN grants[u]
    PROVE  grants[u][g].authority \in Authorities
    <1>1. grants \in [Users -> Seq(Grant)]
        BY DEF BoardInv, TypeOK, Grant
    <1>2. PICK s \in Seq(Grant) : s = grants[u]
        BY <1>1
    <1>3. s[g] \in Grant
        BY <1>2
    <1>4. PICK x \in Grant : x = s[g]
        BY <1>3
    <1>5. x.authority \in Authorities
        BY <1>4 DEF Grant
    <1> QED
        BY <1>2, <1>4, <1>5

(* What a user holds depends on the own grants only. *)
LEMMA HoldingStays ==
    ASSUME NEW u \in Users, grants'[u] = grants[u]
    PROVE  Holding(u)' = Holding(u)
    <1>1. ActiveGrants(u)' = ActiveGrants(u)
        BY DEF ActiveGrants
    <1> QED
        BY <1>1 DEF Holding

LEMMA HoldingType ==
    ASSUME BoardInv, NEW u \in Users
    PROVE  Holding(u) \in {"submit", "approve", None}
    <1>1. \A g \in DOMAIN grants[u] : grants[u][g].authority \in Authorities
        BY GrantedAuthority
    <1>2. ActiveGrants(u) # {} => (CHOOSE g \in ActiveGrants(u) : TRUE) \in DOMAIN grants[u]
        BY DEF ActiveGrants
    <1> QED
        BY <1>1, <1>2 DEF Holding, Authorities

(* An authorized user holds that authority on the board. *)
LEMMA AuthorizedHolds ==
    ASSUME BoardInv, NEW u \in Users, NEW a, Authorized(u, a)
    PROVE  status[u] = "active" /\ Holding(u) = a
    <1>1. PICK g \in ActiveGrants(u) : grants[u][g].authority = a
        BY DEF Authorized
    <1>2. (CHOOSE h \in ActiveGrants(u) : TRUE) \in ActiveGrants(u)
        BY <1>1
    <1>3. (CHOOSE h \in ActiveGrants(u) : TRUE) = g
        BY <1>1, <1>2 DEF BoardInv, OneGrant
    <1> QED
        BY <1>1, <1>3 DEF Authorized, Holding

LEMMA SubmissionIsBoardStep ==
    ASSUME BoardInv, NEW c \in Calls, CommitSubmission(c)
    PROVE  Board!Next
    <1>1. /\ call[c].pc = "commit"
          /\ Cmd(c).op = "submit"
          /\ revision' = [revision EXCEPT ![Family(c)] = Exact(c)]
          /\ status' = status
          /\ grants' = grants
          /\ approval' = approval
        BY DEF CommitSubmission, At, Exact
    <1>2. CallOK(c) /\ call \in [Calls -> Calling]
        BY DEF BoardInv, TypeOK
    <1>3. Family(c) \in Families /\ Cmd(c).doc \in Documents /\ User(c) \in Users
        BY <1>1, <1>2, CallFields DEF Writing
    <1>4. PICK f \in Families : f = Family(c)
        BY <1>3
    <1>5. PICK rev \in Board!Revisions : rev = Exact(c) /\ rev.author = User(c)
        <2>1. PICK rev : rev = Exact(c)
            OBVIOUS
        <2>2. rev \in Board!Revisions
            BY <1>3, <2>1 DEF Board!Revisions, Exact
        <2>3. rev.author = User(c)
            BY <2>1 DEF Exact
        <2> QED
            BY <2>1, <2>2, <2>3
    <1>6. PICK u \in Users : u = User(c)
        BY <1>3
    <1>7. revision[f] = None /\ Authorized(u, "submit")
        BY <1>1, <1>2, <1>4, <1>6 DEF CallOK, ReliesOn
    <1>8. PICK a : a = "submit"
        OBVIOUS
    <1>9. status[u] = "active" /\ Holding(u) = "submit"
        BY <1>7, <1>8, AuthorizedHolds
    <1>10. holding[rev.author] = "submit"
        BY <1>5, <1>6, <1>9 DEF holding
    <1>11. holding' = holding
        BY <1>1 DEF holding, Holding, ActiveGrants
    <1>12. Board!Submit(f, rev)
        BY <1>1, <1>4, <1>5, <1>6, <1>7, <1>9, <1>10, <1>11
           DEF Board!Submit, Board!Entitled, holding
    <1> QED
        BY <1>12 DEF Board!Next

LEMMA ApprovalIsBoardStep ==
    ASSUME BoardInv, NEW c \in Calls, CommitApproval(c)
    PROVE  Board!Next
    <1>1. /\ call[c].pc = "commit"
          /\ Cmd(c).op = "approve"
          /\ approval' = [approval EXCEPT ![Family(c)] = User(c)]
          /\ status' = status
          /\ grants' = grants
          /\ revision' = revision
        BY DEF CommitApproval, At
    <1>2. CallOK(c) /\ call \in [Calls -> Calling]
        BY DEF BoardInv, TypeOK
    <1>3. PICK f \in Families : f = Family(c)
        BY <1>1, <1>2, CallFields DEF Writing
    <1>4. PICK u \in Users : u = User(c)
        BY <1>2, CallFields
    <1>5. /\ revision[f] # None
          /\ revision[f].author # u
          /\ approval[f] = None
          /\ Authorized(u, "approve")
        BY <1>1, <1>2, <1>3, <1>4 DEF CallOK, ReliesOn, Writing
    <1>6. PICK a : a = "approve"
        OBVIOUS
    <1>7. status[u] = "active" /\ Holding(u) = "approve"
        BY <1>5, <1>6, AuthorizedHolds
    <1>8. holding[u] = "approve"
        BY <1>7 DEF holding
    <1>9. holding' = holding
        BY <1>1 DEF holding, Holding, ActiveGrants
    <1>10. Board!Approve(f, u)
        BY <1>1, <1>3, <1>4, <1>5, <1>7, <1>8, <1>9 DEF Board!Approve, Board!Entitled, holding
    <1> QED
        BY <1>10 DEF Board!Next

LEMMA GrantIsBoardStep ==
    ASSUME BoardInv, NEW c \in Calls, insertGrant(c)
    PROVE  Board!Next
    <1>1. /\ call[c].pc = "write"
          /\ Cmd(c).op = "grant"
          /\ grants' = [grants EXCEPT ![User(c)] =
                          Append(@, [authority |-> Cmd(c).authority, active |-> TRUE])]
          /\ status' = status
          /\ revision' = revision
          /\ approval' = approval
        BY DEF insertGrant, At
    <1>2. call \in [Calls -> Calling]
        BY DEF BoardInv, TypeOK
    <1>3. PICK u \in Users : u = User(c)
        BY <1>2, CallFields
    <1>4. PICK auth \in Authorities : auth = Cmd(c).authority
        BY <1>1, <1>2, CallFields, CommandFields
    <1>5. ActiveGrants(u) = {} /\ status[u] = "active"
        BY <1>1, <1>3, FoundByOperator
    <1>6. /\ \A v \in Users \ {u} : grants'[v] = grants[v]
          /\ ActiveGrants(u)' = {Len(grants[u]) + 1}
          /\ grants'[u][Len(grants[u]) + 1].authority = auth
        BY <1>1, <1>3, <1>4, <1>5, GrantAdded
    <1>7. holding[u] = None
        BY <1>5 DEF holding, Holding
    <1>8. Holding(u)' = auth
        BY <1>6 DEF Holding
    <1>9. \A v \in Users \ {u} : Holding(v)' = Holding(v)
        BY <1>6, HoldingStays
    <1>10. holding' = [holding EXCEPT ![u] = auth]
        BY <1>8, <1>9 DEF holding
    <1>11. status' = status /\ revision' = revision /\ approval' = approval
        BY <1>1
    <1>12. Board!Grant(u, auth)
        BY <1>5, <1>7, <1>10, <1>11 DEF Board!Grant, Board!Entitled, holding
    <1> QED
        BY <1>12 DEF Board!Next, Authorities

LEMMA RevokeIsBoardStep ==
    ASSUME BoardInv, NEW c \in Calls, revokeGrant(c)
    PROVE  Board!Next
    <1>1. /\ call[c].pc = "write"
          /\ Cmd(c).op = "revoke"
          /\ grants' = [grants EXCEPT ![User(c)][Cmd(c).grant].active = FALSE]
          /\ status' = status
          /\ revision' = revision
          /\ approval' = approval
        BY DEF revokeGrant, At
    <1>2. call \in [Calls -> Calling]
        BY DEF BoardInv, TypeOK
    <1>3. PICK u \in Users : u = User(c)
        BY <1>2, CallFields
    <1>4. PICK g : g = Cmd(c).grant
        OBVIOUS
    <1>5. ActiveGrants(u) = {g}
        BY <1>1, <1>3, <1>4, FoundByOperator
    <1>6. /\ \A v \in Users \ {u} : grants'[v] = grants[v]
          /\ ActiveGrants(u)' = {}
          /\ g \in DOMAIN grants[u]
        BY <1>1, <1>3, <1>4, <1>5, GrantRevoked
    <1>7. holding[u] # None
        <2>1. Holding(u) = grants[u][g].authority
            BY <1>5 DEF Holding
        <2>2. grants[u][g].authority \in Authorities
            BY <1>6, GrantedAuthority
        <2> QED
            BY <2>1, <2>2, AdvisoryAssumption DEF holding
    <1>8. Holding(u)' = None
        BY <1>6 DEF Holding
    <1>9. \A v \in Users \ {u} : Holding(v)' = Holding(v)
        BY <1>6, HoldingStays
    <1>10. holding' = [holding EXCEPT ![u] = None]
        BY <1>8, <1>9 DEF holding
    <1>11. status' = status /\ revision' = revision /\ approval' = approval
        BY <1>1
    <1>12. Board!Revoke(u)
        BY <1>7, <1>10, <1>11 DEF Board!Revoke, holding
    <1> QED
        BY <1>12 DEF Board!Next

LEMMA StatusIsBoardStep ==
    ASSUME BoardInv, NEW c \in Calls, updateUserStatus(c)
    PROVE  Board!Next
    <1>1. /\ call[c].pc = "write"
          /\ Cmd(c).op \in {"disable", "enable"}
          /\ status' = [status EXCEPT ![User(c)] =
                          IF Cmd(c).op = "disable" THEN "disabled" ELSE "active"]
          /\ grants' = grants
          /\ revision' = revision
          /\ approval' = approval
        BY DEF updateUserStatus, At
    <1>2. call \in [Calls -> Calling] /\ status \in [Users -> {"active", "disabled"}]
        BY DEF BoardInv, TypeOK
    <1>3. PICK u \in Users : u = User(c)
        BY <1>2, CallFields
    <1>4. /\ Cmd(c).op = "disable" => status[u] = "active"
          /\ Cmd(c).op = "enable" => status[u] = "disabled"
        BY <1>1, <1>3, FoundByOperator
    <1>5. status' = [status EXCEPT ![u] = IF status[u] = "active" THEN "disabled" ELSE "active"]
        BY <1>1, <1>2, <1>3, <1>4
    <1>6. holding' = holding
        BY <1>1 DEF holding, Holding, ActiveGrants
    <1>7. Board!Toggle(u)
        BY <1>1, <1>2, <1>5, <1>6 DEF Board!Toggle, holding
    <1> QED
        BY <1>7 DEF Board!Next

(* The commands keep the promise of the board: who writes a revision, an     *)
(* approval or a grant is entitled to at the moment of the commit, although  *)
(* the tables were read statements before.                                   *)
THEOREM Refinement == Spec => ImplementsBoard
    <1>1. Init /\ BoardInv => Board!Init
        <2> SUFFICES ASSUME Init, BoardInv PROVE Board!Init
            OBVIOUS
        <2>1. holding \in [Users -> {"submit", "approve", None}]
            BY HoldingType DEF holding
        <2> QED
            BY <2>1 DEF Init, Board!Init, holding
    <1>2. BoardInv /\ [Next]_vars => [Board!Next]_(Board!vars)
        <2> SUFFICES ASSUME BoardInv, [Next]_vars PROVE [Board!Next]_(Board!vars)
            OBVIOUS
        <2>1. CASE UNCHANGED tables
            <3>1. holding' = holding
                BY <2>1 DEF tables, holding, Holding, ActiveGrants
            <3> QED
                BY <2>1, <3>1 DEF tables, Board!vars, holding
        <2>2. CASE \E c \in Calls : \/ CommitSubmission(c)
                                    \/ CommitApproval(c)
                                    \/ insertGrant(c)
                                    \/ revokeGrant(c)
                                    \/ updateUserStatus(c)
            BY <2>2, SubmissionIsBoardStep, ApprovalIsBoardStep, GrantIsBoardStep,
               RevokeIsBoardStep, StatusIsBoardStep
        <2> QED
            BY <2>1, <2>2
               DEF vars, Next, Transaction, Begin, Fault, LockUser, Decide, CheckAuthority,
                   LockNatural, LockFamily, LockRevision, Plan, InsertRevision, InsertApproval,
                   Deadlock
    <1> QED
        BY <1>1, <1>2, InitOK, InvariantHolds, PTL DEF Spec, ImplementsBoard, Board!Spec

=============================================================================

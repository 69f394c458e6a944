----------------------------- MODULE OsvRuntime -----------------------------
(***************************************************************************)
(* The OSV synchronization runtime (disabled-runtime-synchronization.ts)   *)
(* over its coordination tables: the run and its two stage attempts, and   *)
(* the one lease that all runs share.  An invocation is one call of        *)
(* runSynchronization; a redelivered job is another invocation of the same *)
(* request.  Each invocation draws a fresh holder token, so the token is   *)
(* the invocation itself.  Nothing renews the lease: it may expire at any  *)
(* moment, also while its owner is working.                                *)
(*                                                                         *)
(* One action is one database call with the synchronous code around it.    *)
(* A call may fail: it was not made, or it was made and its answer is lost; *)
(* the code cannot tell the two apart, and its result says that it failed. *)
(***************************************************************************)
EXTENDS OsvLease, FiniteSets

CONSTANTS
    Requests,     \* synchronization requests; each has one run
    Invocations,  \* calls of runSynchronization
    Scheduled,    \* requests whose reason is "scheduler"
    Synthetic,    \* allowSyntheticExecution of this composition
    NoRequest,    \* the request of an invocation not yet made
    NoHolder,     \* the holder of a lease nobody was granted
    MaxExpiries,  \* bound on lease expiries
    MaxToggles,   \* bound on changes of the halt control
    MaxFaults     \* bound on crashes, aborts and failed database calls

ASSUME OsvRuntimeAssumption ==
    /\ Scheduled \subseteq Requests
    /\ Synthetic \in BOOLEAN
    /\ NoRequest \notin Requests
    /\ NoHolder \notin Invocations
    /\ MaxExpiries \in Nat /\ MaxToggles \in Nat /\ MaxFaults \in Nat

VARIABLES
    run,      \* request -> state and settlement of its run row
    attempt,  \* request -> stage -> state of the attempt with ordinal 1
    lease,    \* the row of osv_runtime_lease_projection
    inv,      \* invocation -> where it is and what it remembers
    halt,     \* the halt control is engaged
    aborted,  \* invocations whose signal was aborted
    count     \* expiries, toggles and faults so far

vars == <<run, attempt, lease, inv, halt, aborted, count>>

-----------------------------------------------------------------------------
(* The run: its states, its edges, and the settlement written with a state. *)

RunStates == {"none", "planned", "waiting_for_lease", "running", "retry_wait",
              "halted", "cancelled", "failed", "completed"}

TerminalRun == {"halted", "cancelled", "failed", "completed"}

RunEdges ==
    {<<"planned", "waiting_for_lease">>, <<"waiting_for_lease", "running">>,
     <<"running", "retry_wait">>, <<"running", "completed">>,
     <<"retry_wait", "running">>}
    \cup ({"planned", "waiting_for_lease", "running", "retry_wait"}
            \X {"halted", "cancelled", "failed"})

(* terminal_code and cancellation_boundary; the retry disposition and the *)
(* last accepted stage are functions of the code.                         *)
Why(code, boundary) == [code |-> code, boundary |-> boundary]

Codes == {"none", "kill_switch_engaged", "cancelled", "listing_failure",
          "bridge_failure", "attempt_reserve_failed", "acquisition_failed"}

Boundaries == {"none", "after_lease_acquisition", "during_pagination"}

Plain == Why("none", "none")

(* The CHECK constraint on the row: a run that is not over has no code, a *)
(* boundary belongs to a cancelled run and to no other.                   *)
RowAccepts(state, why) ==
    /\ state \notin {"halted", "cancelled", "failed"} => why.code = "none"
    /\ state = "failed" => why.code # "none"
    /\ (why.boundary # "none") <=> (state = "cancelled")

(* Transitions that the repository makes only for the owner of the lease. *)
NeedsOwnership == {"running", "retry_wait", "completed"}

Stages == {"listing_page", "provider_body_retrieval"}

AttemptStates == {"absent", "planned", "running", "succeeded", "retryable_failed",
                  "permanent_failed", "cancelled"}

TerminalAttempt == {"succeeded", "retryable_failed", "permanent_failed", "cancelled"}

-----------------------------------------------------------------------------
(* The invocation. *)

Pcs == {"idle", "ensured", "wait", "acquire", "take", "entered", "late", "prove",
        "settle", "guard", "reserve", "insert", "start", "work", "call", "record",
        "judge", "failing", "accept", "rejected", "bridge", "unreserved", "complete",
        "release", "done", "crashed"}

Results == {"ok", "retry", "permanent"}

(* The failures that the result of an invocation reports: a database failure *)
(* of the acquisition, attempt_terminal_write_failed, and the leaseRelease   *)
(* not_attempted of a release that failed.                                   *)
Calls == {"acquire", "attempt", "release"}

NoProof == [rev |-> 0, fence |-> 0]

Idle == [pc |-> "idle", req |-> NoRequest, copy |-> "none", seen |-> NoProof,
         proof |-> NoProof, lost |-> FALSE, cancelled |-> FALSE, halted |-> FALSE,
         stage |-> "listing_page", result |-> "ok", goal |-> "running", why |-> Plain,
         failed |-> {}]

Init ==
    /\ run = [r \in Requests |-> [state |-> "none", why |-> Plain]]
    /\ attempt = [r \in Requests |-> [s \in Stages |-> "absent"]]
    /\ lease = AbsentLease(NoRequest, NoHolder)
    /\ inv = [i \in Invocations |-> Idle]
    /\ halt \in BOOLEAN
    /\ aborted = {}
    /\ count = [expiries |-> 0, toggles |-> 0, faults |-> 0]

Owns(i) == inspectOwnership(lease, inv[i].proof, inv[i].req, i)

HasProof(i) == inv[i].proof # NoProof

Goto(c, pc) == [c EXCEPT !.pc = pc]

Reporting(c, call) == [c EXCEPT !.failed = @ \cup {call}]

(* A database call is answered, or it counts as a fault. *)
Answered(ok) ==
    /\ ~ok => count.faults < MaxFaults
    /\ count' = [count EXCEPT !.faults = @ + (IF ok THEN 0 ELSE 1)]

(* A write that is answered was made; one that is not may have been. *)
Performed(ok, made) == (ok => made) /\ Answered(ok)

(* Aim at a run state: the repository asks for ownership first or not. *)
Aim(c, goal, why) ==
    [c EXCEPT !.pc = IF goal \in NeedsOwnership THEN "prove" ELSE "settle",
              !.goal = goal, !.why = why]

(* terminateCancelled leaves a run in retry_wait alone. *)
Cancelling(c) ==
    IF c.copy = "retry_wait" THEN Goto(c, "release")
    ELSE Aim(c, "cancelled", Why("cancelled", "during_pagination"))

Halting(c) == Aim(c, "halted", Why("kill_switch_engaged", "none"))

(* terminateByCommittedPrecedence and terminateOwnershipLost: lost before *)
(* cancelled before halted; an owner that lost the lease only returns.    *)
Verdict(c, onward) ==
    IF c.lost THEN Goto(c, "done")
    ELSE IF c.cancelled THEN Cancelling(c)
    ELSE IF c.halted THEN Halting(c)
    ELSE onward

(* recordHalt, a look at the signal, and refreshCurrentOwnership: an *)
(* ownership row that cannot be read counts as a lost lease.         *)
Refreshed(i, c, looksAtHalt, looksAtSignal, readable) ==
    [c EXCEPT !.halted = IF looksAtHalt THEN halt ELSE @,
              !.cancelled = @ \/ (looksAtSignal /\ i \in aborted),
              !.lost = @ \/ ~readable \/ ~Owns(i)]

(* One ownership read of invocation i at pc; onward is where it goes when *)
(* nothing stops it.                                                      *)
Check(i, pc, looksAtHalt, looksAtSignal, onward) ==
    /\ inv[i].pc = pc
    /\ \E readable \in BOOLEAN :
        /\ Answered(readable)
        /\ LET Seen(c) == Refreshed(i, c, looksAtHalt, looksAtSignal, readable)
           IN  inv' = [inv EXCEPT ![i] = Verdict(Seen(inv[i]), Seen(onward))]
    /\ UNCHANGED <<run, attempt, lease, halt, aborted>>

Move(i, c) == inv' = [inv EXCEPT ![i] = c]

(* guard.validate inside a stage: it sets the flags and reports whether the *)
(* call may go on; the stage decides later what the flags mean.             *)
Blocked(c) == c.lost \/ c.halted

-----------------------------------------------------------------------------
(* From the call to the lease. *)

(* requests.ensure and runs.ensure: one run per request, made if missing. *)
Ensure(i, r) ==
    /\ inv[i].pc = "idle"
    /\ IF i \in aborted
       THEN Move(i, [Idle EXCEPT !.pc = "done", !.req = r]) /\ UNCHANGED <<run, count>>
       ELSE \E ok, made \in BOOLEAN :
            /\ Performed(ok, made)
            /\ run' = [run EXCEPT ![r].state = IF made /\ @ = "none" THEN "planned" ELSE @]
            /\ Move(i, [Idle EXCEPT !.pc = IF ok THEN "ensured" ELSE "done", !.req = r,
                                    !.copy = run'[r].state])
    /\ UNCHANGED <<attempt, lease, halt, aborted>>

(* The branches before the lease: a composition that may not execute and a *)
(* scheduled request are halted, as is a request made under the kill       *)
(* switch; a settled run is reported; an aborted call returns.             *)
Decided(i, c) ==
    LET over == c.copy \in TerminalRun
        barred == ~Synthetic \/ c.req \in Scheduled \/ halt
    IN  IF barred /\ ~over THEN Halting(c)
        ELSE IF over \/ i \in aborted THEN Goto(c, "done")
        ELSE IF c.copy = "planned" THEN Goto(c, "wait")
        ELSE Goto(c, "acquire")

Decide(i) ==
    /\ inv[i].pc = "ensured"
    /\ Move(i, Decided(i, inv[i]))
    /\ UNCHANGED <<run, attempt, lease, halt, aborted, count>>

(* Mutant: the update does not ask for the expected state. *)
Written_blind(r, expected, goal, why) ==
    <<expected, goal>> \in RunEdges /\ RowAccepts(goal, why)

(* transitionRunRow with the edges, the CHECK constraint and reloadTransition: *)
(* a row that already says the same counts as written.                         *)
Written(r, expected, goal, why) ==
    /\ <<expected, goal>> \in RunEdges
    /\ run[r].state = expected
    /\ RowAccepts(goal, why)

AlreadyApplied(r, expected, goal, why) ==
    /\ <<expected, goal>> \in RunEdges
    /\ run[r].state # expected
    /\ run[r] = [state |-> goal, why |-> why]

WaitForLease(i) ==
    LET c == inv[i]
        written == Written(c.req, "planned", "waiting_for_lease", Plain)
        applied == AlreadyApplied(c.req, "planned", "waiting_for_lease", Plain)
    IN  /\ c.pc = "wait"
        /\ \E ok, made \in BOOLEAN :
            /\ Performed(ok, made)
            /\ run' = [run EXCEPT ![c.req].state =
                          IF made /\ written THEN "waiting_for_lease" ELSE @]
            /\ Move(i, IF ok /\ (written \/ applied)
                       THEN [c EXCEPT !.pc = "acquire", !.copy = "waiting_for_lease"]
                       ELSE Goto(c, "done"))
        /\ UNCHANGED <<attempt, lease, halt, aborted>>

(* leases.acquire, first half: a settled run gets no lease, a live lease is *)
(* held by other; otherwise remember the row that was read.                 *)
Look(i) ==
    LET c == inv[i]
    IN  /\ c.pc = "acquire"
        /\ \E ok \in BOOLEAN :
            /\ Answered(ok)
            /\ Move(i, IF ~ok THEN Goto(Reporting(c, "acquire"), "done")
                       ELSE IF run[c.req].state \in TerminalRun \/ ~Takeable(lease)
                       THEN Goto(c, "done")
                       ELSE [c EXCEPT !.pc = "take", !.seen = ProofOf(lease)])
        /\ UNCHANGED <<run, attempt, lease, halt, aborted>>

(* Second half: insert the row or swap it if it is still the one read.  An *)
(* owner that is not told of its grant has no proof of it.                 *)
Take(i) ==
    LET c == inv[i]
        won == Grantable(lease, c.seen)
    IN  /\ c.pc = "take"
        /\ \E ok, made \in BOOLEAN :
            /\ Performed(ok, made)
            /\ lease' = IF made /\ won THEN acquired(lease, c.req, i) ELSE lease
            /\ Move(i, IF ~ok THEN Goto(Reporting(c, "acquire"), "done")
                       ELSE IF won THEN [c EXCEPT !.pc = "entered", !.proof = ProofOf(lease')]
                       ELSE Goto(c, "done"))
        /\ UNCHANGED <<run, attempt, halt, aborted>>

-----------------------------------------------------------------------------
(* Under the lease. *)

(* The checkpoint after acquisition. *)
Enter(i) == Check(i, "entered", TRUE, TRUE, Goto(inv[i], "late"))

(* An abort that came in during that read cancels at its own boundary; the *)
(* run goes to running unless an earlier owner left it there.              *)
Entered(i, c) ==
    IF c.cancelled THEN Aim(c, "cancelled", Why("cancelled", "after_lease_acquisition"))
    ELSE IF c.copy \in {"waiting_for_lease", "retry_wait"} THEN Aim(c, "running", Plain)
    ELSE Goto(c, "guard")

LateAbort(i) ==
    LET c == inv[i]
        Seen(readable) == Refreshed(i, c, TRUE, TRUE, readable)
    IN  /\ c.pc = "late"
        /\ IF i \notin aborted THEN Move(i, Entered(i, c)) /\ UNCHANGED count
           ELSE \E readable \in BOOLEAN :
                /\ Answered(readable)
                /\ Move(i, IF Blocked(Seen(readable))
                           THEN Verdict(Seen(readable), Seen(readable))
                           ELSE Entered(i, Seen(readable)))
        /\ UNCHANGED <<run, attempt, lease, halt, aborted>>

(* runs.transition, first statement: the ownership of the lease is read. *)
Prove(i) ==
    LET c == inv[i]
    IN  /\ c.pc = "prove"
        /\ \E ok \in BOOLEAN :
            /\ Answered(ok)
            /\ Move(i, Goto(c, IF ok /\ Owns(i) THEN "settle" ELSE "release"))
        /\ UNCHANGED <<run, attempt, lease, halt, aborted>>

(* Mutant: a refused transition returns without releasing. *)
Settled_returns(i, c, ok) ==
    LET d == IF ok THEN [c EXCEPT !.copy = c.goal] ELSE c
    IN  Goto(d, IF ok /\ c.goal = "running" THEN "guard"
                ELSE IF ok /\ HasProof(i) THEN "release" ELSE "done")

(* Second statement: the run is updated where its state is the expected one. *)
(* Whether or not that worked, an invocation that was not entering running   *)
(* releases its lease and returns.                                           *)
Settled(i, c, ok) ==
    LET d == IF ok THEN [c EXCEPT !.copy = c.goal] ELSE c
    IN  Goto(d, IF ok /\ c.goal = "running" THEN "guard"
                ELSE IF HasProof(i) THEN "release" ELSE "done")

Settle(i) ==
    LET c == inv[i]
        written == Written(c.req, c.copy, c.goal, c.why)
        applied == AlreadyApplied(c.req, c.copy, c.goal, c.why)
    IN  /\ c.pc = "settle"
        /\ \E ok, made \in BOOLEAN :
            /\ Performed(ok, made)
            /\ run' = [run EXCEPT ![c.req] =
                          IF made /\ written THEN [state |-> c.goal, why |-> c.why] ELSE @]
            /\ Move(i, Settled(i, c, ok /\ (written \/ applied)))
        /\ UNCHANGED <<attempt, lease, halt, aborted>>

(* The checkpoint before the listing attempt is reserved. *)
Guard(i) == Check(i, "guard", TRUE, FALSE,
                  [inv[i] EXCEPT !.pc = "reserve", !.stage = "listing_page"])

-----------------------------------------------------------------------------
(* A stage: reserve and start its attempt, do its guarded calls, record it. *)

(* reserveStart failed: listing gives up the lease, retrieval fails the run. *)
Unready(c) ==
    Goto(Reporting(c, "attempt"), IF c.stage = "listing_page" THEN "release" ELSE "unreserved")

(* attempts.reserve reads the run and the attempt; an attempt that was      *)
(* settled without a retry no longer has the identity that is asked for.    *)
Reserve(i) ==
    LET c == inv[i]
        found == attempt[c.req][c.stage]
    IN  /\ c.pc = "reserve"
        /\ \E ok \in BOOLEAN :
            /\ Answered(ok)
            /\ Move(i, IF \/ ~ok
                          \/ run[c.req].state \in TerminalRun
                          \/ found \notin {"absent", "planned", "running", "retryable_failed"}
                       THEN Unready(c)
                       ELSE Goto(c, IF found = "absent" THEN "insert" ELSE "start"))
        /\ UNCHANGED <<run, attempt, lease, halt, aborted>>

(* The insert; the loser of the unique index fails with its transaction. *)
Insert(i) ==
    LET c == inv[i]
        free == attempt[c.req][c.stage] = "absent"
    IN  /\ c.pc = "insert"
        /\ \E ok, made \in BOOLEAN :
            /\ Performed(ok, made)
            /\ attempt' = [attempt EXCEPT ![c.req][c.stage] =
                              IF made /\ free THEN "planned" ELSE @]
            /\ Move(i, IF ok /\ free THEN Goto(c, "start") ELSE Unready(c))
        /\ UNCHANGED <<run, lease, halt, aborted>>

(* attempts.start: an attempt that runs already counts as started. *)
StartAttempt(i) ==
    LET c == inv[i]
        open == run[c.req].state \notin TerminalRun
        found == attempt[c.req][c.stage]
    IN  /\ c.pc = "start"
        /\ \E ok, made \in BOOLEAN :
            /\ Performed(ok, made)
            /\ attempt' = [attempt EXCEPT ![c.req][c.stage] =
                              IF made /\ open /\ @ = "planned" THEN "running" ELSE @]
            /\ Move(i, IF ok /\ open /\ found \in {"planned", "running"}
                       THEN Goto(c, "work") ELSE Unready(c))
        /\ UNCHANGED <<run, lease, halt, aborted>>

(* How a stage may end when a guard refused one of its calls: a listing has *)
(* failed; a retrieval may have nothing left that is worth a retry.         *)
Ends(c) ==
    IF c.stage = "listing_page"
    THEN {"retry", "permanent"} \cup (IF Blocked(c) THEN {} ELSE {"ok"})
    ELSE {"ok", "retry"}

(* The guard before a page, a body, a parse or a write of the stage. *)
Call(i) ==
    /\ inv[i].pc = "work"
    /\ \E readable \in BOOLEAN :
        LET c == Refreshed(i, inv[i], TRUE, FALSE, readable)
        IN  /\ Answered(readable)
            /\ IF ~Blocked(c) THEN Move(i, Goto(c, "call"))
               ELSE \E e \in Ends(c) : Move(i, [c EXCEPT !.pc = "record", !.result = e])
    /\ UNCHANGED <<run, attempt, lease, halt, aborted>>

(* The call returns, the guard is asked again, and the stage goes on to its *)
(* next call or ends.                                                       *)
Answer(i) ==
    /\ inv[i].pc = "call"
    /\ \E readable \in BOOLEAN :
        LET c == Refreshed(i, inv[i], TRUE, FALSE, readable)
        IN  /\ Answered(readable)
            /\ \/ /\ c.stage = "listing_page" => ~Blocked(c)
                  /\ Move(i, Goto(c, "work"))
               \/ \E e \in Ends(c) : Move(i, [c EXCEPT !.pc = "record", !.result = e])
    /\ UNCHANGED <<run, attempt, lease, halt, aborted>>

(* The terminal state of the attempt; a stopped retrieval that also failed is *)
(* no legal command, and the attempt is left as it is.                        *)
TerminalOf(c) ==
    IF c.lost \/ c.cancelled \/ c.halted
    THEN IF c.stage = "provider_body_retrieval" /\ c.result # "ok" THEN "running"
         ELSE "cancelled"
    ELSE CASE c.result = "ok"    -> "succeeded"
           [] c.result = "retry" -> "retryable_failed"
           [] OTHER              -> "permanent_failed"

(* Mutant: the flag is not set when the write fails. *)
Recorded_silently(c, told) == Goto(c, "judge")

(* recordTerminal: a write that failed or was refused is only noted. *)
Recorded(c, told) == Goto(IF told THEN c ELSE Reporting(c, "attempt"), "judge")

(* Nobody asks who owns the lease; an attempt that already has this terminal *)
(* state counts as written.                                                  *)
recordTerminal(i, c) ==
    LET found == attempt[c.req][c.stage]
        fits == TerminalOf(c) # "running" /\ found \in {"running", TerminalOf(c)}
    IN  \E ok, made \in BOOLEAN :
        /\ Performed(ok, made)
        /\ attempt' = [attempt EXCEPT ![c.req][c.stage] =
                          IF made /\ found = "running" THEN TerminalOf(c) ELSE @]
        /\ Move(i, Recorded(c, ok /\ fits))

Record(i) ==
    /\ inv[i].pc = "record"
    /\ recordTerminal(i, [inv[i] EXCEPT !.cancelled = @ \/ i \in aborted])
    /\ UNCHANGED <<run, lease, halt, aborted>>

(* The checkpoint after the attempt is recorded. *)
Judge(i) ==
    Check(i, "judge", FALSE, inv[i].stage = "listing_page",
          Goto(inv[i], IF inv[i].stage # "listing_page" THEN "complete"
                       ELSE IF inv[i].result = "ok" THEN "accept" ELSE "failing"))

(* A failed listing: retry_wait when the failure is worth one, else failed. *)
FailListing(i) ==
    Check(i, "failing", TRUE, FALSE,
          Aim(inv[i], IF inv[i].result = "retry" THEN "retry_wait" ELSE "failed",
              Why("listing_failure", "during_pagination")))

(* The checkpoint before the inventory is accepted; the bridge then takes it *)
(* or finds it incomplete.                                                   *)
Accept(i) ==
    \E pc \in {"bridge", "rejected"} : Check(i, "accept", TRUE, FALSE, Goto(inv[i], pc))

RejectInventory(i) ==
    Check(i, "rejected", TRUE, FALSE,
          Aim(inv[i], "failed", Why("bridge_failure", "none")))

Bridge(i) == Check(i, "bridge", TRUE, FALSE,
                   [inv[i] EXCEPT !.pc = "reserve", !.stage = "provider_body_retrieval"])

FailReserve(i) ==
    Check(i, "unreserved", TRUE, FALSE,
          Aim(inv[i], "failed", Why("attempt_reserve_failed", "none")))

(* The last checkpoint: completed, or retry_wait with the code of the failure. *)
Complete(i) ==
    Check(i, "complete", TRUE, FALSE,
          IF inv[i].result = "ok" THEN Aim(inv[i], "completed", Plain)
          ELSE Aim(inv[i], "retry_wait", Why("acquisition_failed", "none")))

(* leases.release, skipped by an owner that knows it lost the lease; when it *)
(* fails, the invocation returns with the lease and says so.                 *)
Release(i) ==
    LET c == inv[i]
        owner == ~c.lost /\ Releasable(lease, c.proof, c.req, i)
    IN  /\ c.pc = "release"
        /\ \E ok, made \in BOOLEAN :
            /\ Performed(ok, made)
            /\ c.lost => ok
            /\ lease' = IF made /\ owner THEN released(lease) ELSE lease
            /\ Move(i, Goto(IF ok THEN c ELSE Reporting(c, "release"), "done"))
        /\ UNCHANGED <<run, attempt, halt, aborted>>

-----------------------------------------------------------------------------
(* The environment. *)

Expire ==
    /\ lease.state = "held" /\ lease.live
    /\ count.expiries < MaxExpiries
    /\ lease' = [lease EXCEPT !.live = FALSE]
    /\ count' = [count EXCEPT !.expiries = @ + 1]
    /\ UNCHANGED <<run, attempt, inv, halt, aborted>>

Toggle ==
    /\ count.toggles < MaxToggles
    /\ halt' = ~halt
    /\ count' = [count EXCEPT !.toggles = @ + 1]
    /\ UNCHANGED <<run, attempt, lease, inv, aborted>>

Faulty == count.faults < MaxFaults /\ count' = [count EXCEPT !.faults = @ + 1]

Abort(i) ==
    /\ i \notin aborted /\ inv[i].pc \notin {"done", "crashed"}
    /\ Faulty
    /\ aborted' = aborted \cup {i}
    /\ UNCHANGED <<run, attempt, lease, inv, halt>>

Crash(i) ==
    /\ inv[i].pc \notin {"idle", "done", "crashed"}
    /\ Faulty
    /\ Move(i, Goto(inv[i], "crashed"))
    /\ UNCHANGED <<run, attempt, lease, halt, aborted>>

-----------------------------------------------------------------------------
Step(i) ==
    \/ \E r \in Requests : Ensure(i, r)
    \/ Decide(i) \/ WaitForLease(i) \/ Look(i) \/ Take(i)
    \/ Enter(i) \/ LateAbort(i) \/ Prove(i) \/ Settle(i) \/ Guard(i)
    \/ Reserve(i) \/ Insert(i) \/ StartAttempt(i) \/ Call(i) \/ Answer(i) \/ Record(i)
    \/ Judge(i) \/ FailListing(i) \/ Accept(i) \/ RejectInventory(i) \/ Bridge(i)
    \/ FailReserve(i) \/ Complete(i) \/ Release(i)

Next ==
    \/ \E i \in Invocations : Step(i) \/ Abort(i) \/ Crash(i)
    \/ Expire
    \/ Toggle

Spec == Init /\ [][Next]_vars

-----------------------------------------------------------------------------
(* Properties. *)

Proofs == [rev : Nat, fence : Nat]

Whys == [code : Codes, boundary : Boundaries]

(* Every row and every invocation keeps to the values the code knows; a proof *)
(* is kept only by an invocation that was granted the lease.                  *)
TypeOK ==
    /\ run \in [Requests -> [state : RunStates, why : Whys]]
    /\ attempt \in [Requests -> [Stages -> AttemptStates]]
    /\ lease \in [state : LeaseStates, run : Requests \cup {NoRequest},
                  holder : Invocations \cup {NoHolder}, rev : Nat, fence : Nat, live : BOOLEAN]
    /\ inv \in [Invocations ->
          [pc : Pcs, req : Requests \cup {NoRequest}, copy : RunStates, seen : Proofs,
           proof : Proofs, lost : BOOLEAN, cancelled : BOOLEAN, halted : BOOLEAN,
           stage : Stages, result : Results, goal : RunStates, why : Whys,
           failed : SUBSET Calls]]
    /\ halt \in BOOLEAN
    /\ aborted \subseteq Invocations
    /\ count \in [expiries : 0 .. MaxExpiries, toggles : 0 .. MaxToggles, faults : 0 .. MaxFaults]
    /\ \A i \in Invocations :
          inv[i].pc \in {"idle", "ensured", "wait", "acquire", "take"} => ~HasProof(i)

(* Two grants never share a fencing token, and no proof is newer than the row: *)
(* a token identifies one period of ownership for good.                        *)
FencesAreUnique ==
    \A i, j \in Invocations :
        /\ inv[i].proof.fence <= lease.fence
        /\ i # j /\ HasProof(i) => inv[i].proof.fence # inv[j].proof.fence

(* A settled run and a settled attempt never change again, whoever still holds *)
(* an old copy of the run.                                                     *)
SettledIsFinal ==
    [][\A r \in Requests :
        /\ run[r].state \in TerminalRun => run'[r] = run[r]
        /\ \A s \in Stages :
              attempt[r][s] \in TerminalAttempt => attempt'[r][s] = attempt[r][s]]_vars

(* An invocation of the request was told that a write of an attempt failed. *)
Reported(r) == \E i \in Invocations : inv[i].req = r /\ "attempt" \in inv[i].failed

(* A completed run has both of its stage attempts settled, also when several *)
(* invocations worked on it and an earlier one crashed or lost the lease.    *)
(* One may still be running only where an invocation of the request was told *)
(* that the write failed and reports attempt_terminal_write_failed.          *)
CompletedIsAccounted ==
    \A r \in Requests, s \in Stages :
        run[r].state = "completed" =>
            \/ attempt[r][s] \in TerminalAttempt
            \/ attempt[r][s] = "running" /\ Reported(r)

(* The row names invocation i as the holder of a lease that keeps others out. *)
Holds(i) == lease.state = "held" /\ lease.live /\ lease.holder = i

(* An invocation that returned does not keep the lease from the next one,   *)
(* unless it believes to have lost it or reports that its acquisition or its *)
(* release failed; no result that says otherwise leaves the lease held.      *)
ReturnFreesLease ==
    \A i \in Invocations :
        inv[i].pc = "done" /\ Holds(i) =>
            inv[i].lost \/ "acquire" \in inv[i].failed \/ "release" \in inv[i].failed

=============================================================================

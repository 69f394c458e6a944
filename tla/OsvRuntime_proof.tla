-------------------------- MODULE OsvRuntime_proof --------------------------
(***************************************************************************)
(* Proofs about OsvRuntime, for any requests and invocations and any number *)
(* of expiries, toggles and faults.  Two arguments carry them: the fencing  *)
(* token of the row is never smaller than a proof's, so a grant is always   *)
(* told apart from the ones before it; and an attempt only moves forward,   *)
(* so what an invocation knows of its attempts outlives the lease it had.   *)
(***************************************************************************)
EXTENDS OsvRuntime, TLAPS

-----------------------------------------------------------------------------
(* The inductive invariant.                                                *)

InvRecords ==
    [pc : Pcs, req : Requests \cup {NoRequest}, copy : RunStates, seen : Proofs,
     proof : Proofs, lost : BOOLEAN, cancelled : BOOLEAN, halted : BOOLEAN,
     stage : Stages, result : Results, goal : RunStates, why : Whys,
     failed : SUBSET Calls]

Early == {"idle", "ensured", "wait", "acquire", "take"}

Bounds == [expiries : 0 .. MaxExpiries, toggles : 0 .. MaxToggles, faults : 0 .. MaxFaults]

\* An attempt is settled, or it runs and the invocation was told that a write failed.
Accounted(c, state) ==
    state \in TerminalAttempt \/ (state = "running" /\ "attempt" \in c.failed)

\* An invocation that was made names a request; before it was granted the lease
\* it has no proof; in its second stage the first one is accounted for.
Base(c, att) ==
    /\ c.pc # "idle" => c.req \in Requests
    /\ c.pc = "idle" => c.failed = {}
    /\ c.pc \in Early => c.proof = NoProof
    /\ c.pc # "idle" /\ c.stage = "provider_body_retrieval" =>
          Accounted(c, att[c.req]["listing_page"])

\* What an invocation knows of its attempts at the statements that build on it.
Progress(c, att) ==
    /\ c.pc \in {"work", "call", "record"} =>
          att[c.req][c.stage] \in {"running"} \cup TerminalAttempt
    /\ c.pc = "judge" /\ c.result = "ok" => Accounted(c, att[c.req][c.stage])
    /\ c.pc \in {"accept", "rejected", "bridge"} =>
          c.stage = "listing_page" /\ Accounted(c, att[c.req]["listing_page"])
    /\ c.pc = "complete" =>
          /\ c.stage = "provider_body_retrieval"
          /\ c.result = "ok" => Accounted(c, att[c.req][c.stage])
    /\ c.pc \in {"prove", "settle"} /\ c.goal = "completed" =>
          \A s \in Stages : Accounted(c, att[c.req][s])

\* Why an invocation may return with the lease.
Excused(c) == c.lost \/ "acquire" \in c.failed \/ "release" \in c.failed

\* A proof is of an earlier grant or of the current one; the holder of the row
\* has its proof, unless it was never told of the grant; an invocation that
\* returned holds nothing, or has an excuse.
Fenced(i) ==
    /\ inv[i].proof.fence <= lease.fence
    /\ HasProof(i) => inv[i].proof.fence # 0
    /\ lease.state = "held" /\ lease.holder = i =>
          \/ "acquire" \in inv[i].failed
          \/ inv[i].proof = ProofOf(lease) /\ inv[i].req = lease.run
    /\ inv[i].pc = "done" /\ Holds(i) => Excused(inv[i])
    /\ \A j \in Invocations : i # j /\ HasProof(i) => inv[i].proof.fence # inv[j].proof.fence

RuntimeInv ==
    /\ TypeOK
    /\ lease.state = "held" => lease.fence # 0
    /\ \A i \in Invocations : Base(inv[i], attempt) /\ Progress(inv[i], attempt) /\ Fenced(i)
    /\ CompletedIsAccounted

-----------------------------------------------------------------------------
(* What the helpers make of the record of an invocation.                   *)

\* The constant values the code chooses from.
LEMMA Vocabulary ==
    /\ Plain \in Whys
    /\ Why("cancelled", "during_pagination") \in Whys
    /\ Why("cancelled", "after_lease_acquisition") \in Whys
    /\ Why("kill_switch_engaged", "none") \in Whys
    /\ Why("listing_failure", "during_pagination") \in Whys
    /\ Why("bridge_failure", "none") \in Whys
    /\ Why("attempt_reserve_failed", "none") \in Whys
    /\ Why("acquisition_failed", "none") \in Whys
BY DEF Plain, Why, Whys, Codes, Boundaries

\* The idle record.
LEMMA IdleFields ==
    /\ Idle \in InvRecords /\ Idle.pc = "idle" /\ Idle.proof = NoProof
    /\ Idle.stage = "listing_page" /\ NoProof \in Proofs /\ Idle.failed = {}
BY Vocabulary DEF Idle, InvRecords, Pcs, RunStates, Proofs, NoProof, Stages, Results

\* Goto changes the statement and nothing else.
LEMMA GotoFields ==
    ASSUME NEW c \in InvRecords, NEW pc \in Pcs
    PROVE  /\ Goto(c, pc) \in InvRecords /\ Goto(c, pc).pc = pc
           /\ Goto(c, pc).req = c.req /\ Goto(c, pc).proof = c.proof
           /\ Goto(c, pc).stage = c.stage /\ Goto(c, pc).result = c.result
           /\ Goto(c, pc).lost = c.lost /\ Goto(c, pc).goal = c.goal
           /\ Goto(c, pc).failed = c.failed
BY DEF Goto, InvRecords

\* Reporting adds a failed call.
LEMMA ReportingFields ==
    ASSUME NEW c \in InvRecords, NEW call \in Calls
    PROVE  /\ Reporting(c, call) \in InvRecords /\ Reporting(c, call).pc = c.pc
           /\ Reporting(c, call).req = c.req /\ Reporting(c, call).proof = c.proof
           /\ Reporting(c, call).stage = c.stage /\ Reporting(c, call).result = c.result
           /\ Reporting(c, call).lost = c.lost /\ Reporting(c, call).goal = c.goal
           /\ Reporting(c, call).failed = c.failed \cup {call}
<1>1. PICK f : f = c.failed \cup {call}
      OBVIOUS
<1>2. f \in SUBSET Calls
      BY <1>1 DEF InvRecords
<1>3. Reporting(c, call) = [c EXCEPT !.failed = f]
      BY <1>1 DEF Reporting, InvRecords
<1> QED BY <1>1, <1>2, <1>3 DEF InvRecords

\* An unanswered call counts as a fault.
LEMMA AnsweredCount ==
    ASSUME count \in Bounds, NEW ok \in BOOLEAN, Answered(ok)
    PROVE  count' \in Bounds
BY OsvRuntimeAssumption DEF Answered, Bounds

\* Aim sets the goal and leads to the first or the second statement of a transition.
LEMMA AimFields ==
    ASSUME NEW c \in InvRecords, NEW goal \in RunStates, NEW why \in Whys
    PROVE  /\ Aim(c, goal, why) \in InvRecords /\ Aim(c, goal, why).pc \in {"prove", "settle"}
           /\ Aim(c, goal, why).goal = goal
           /\ Aim(c, goal, why).req = c.req /\ Aim(c, goal, why).proof = c.proof
           /\ Aim(c, goal, why).stage = c.stage /\ Aim(c, goal, why).result = c.result
           /\ Aim(c, goal, why).lost = c.lost /\ Aim(c, goal, why).failed = c.failed
<1> DEFINE pc == IF goal \in NeedsOwnership THEN "prove" ELSE "settle"
<1>1. pc \in {"prove", "settle"} /\ pc \in Pcs
      BY DEF Pcs
<1>2. Aim(c, goal, why) = [c EXCEPT !.pc = pc, !.goal = goal, !.why = why]
      BY DEF Aim
<1> HIDE DEF pc
<1> QED BY <1>1, <1>2 DEF InvRecords

\* A checkpoint sets the flags.
LEMMA RefreshedFields ==
    ASSUME TypeOK, NEW i \in Invocations, NEW c \in InvRecords, NEW h \in BOOLEAN,
           NEW s \in BOOLEAN, NEW r \in BOOLEAN
    PROVE  LET d == Refreshed(i, c, h, s, r)
           IN /\ d \in InvRecords /\ d.pc = c.pc
              /\ d.req = c.req /\ d.proof = c.proof
              /\ d.stage = c.stage /\ d.result = c.result /\ d.goal = c.goal
              /\ d.copy = c.copy /\ (c.lost => d.lost) /\ d.failed = c.failed
<1> DEFINE halted == IF h THEN halt ELSE c.halted
           cancelled == c.cancelled \/ (s /\ i \in aborted)
           lost == c.lost \/ ~r \/ ~Owns(i)
<1>1. halted \in BOOLEAN /\ cancelled \in BOOLEAN /\ lost \in BOOLEAN /\ (c.lost => lost)
      BY DEF TypeOK, InvRecords
<1>2. Refreshed(i, c, h, s, r) =
        [c EXCEPT !.halted = halted, !.cancelled = cancelled, !.lost = lost]
      BY DEF Refreshed
<1> HIDE DEF halted, cancelled, lost
<1> QED BY <1>1, <1>2 DEF InvRecords

-----------------------------------------------------------------------------
(* A statement of one invocation that leaves the lease alone.              *)

\* Attempts only move forward.
Forwards ==
    \A r \in Requests, s \in Stages :
        /\ attempt[r][s] \in TerminalAttempt => attempt'[r][s] = attempt[r][s]
        /\ attempt[r][s] = "running" => attempt'[r][s] \in {"running"} \cup TerminalAttempt

\* What the other invocations know survives that.
LEMMA KnowledgeKept ==
    ASSUME NEW c \in InvRecords, Base(c, attempt), Progress(c, attempt), Forwards
    PROVE  Base(c, attempt') /\ Progress(c, attempt')
BY DEF Base, Progress, Accounted, Forwards, InvRecords, Stages, Early

\* A record that invocation i may have next while the lease stays as it is.
Legal(i, d, att) ==
    /\ d \in InvRecords
    /\ d.proof = inv[i].proof
    /\ inv[i].failed \subseteq d.failed
    /\ d.req = inv[i].req \/ (d.proof = NoProof /\ inv[i].failed = {})
    /\ d.pc = "done" /\ Holds(i) => Excused(d)
    /\ Base(d, att) /\ Progress(d, att)

\* What was reported stays reported, so a completed run stays accounted for.
LEMMA AccountKept ==
    ASSUME RuntimeInv, NEW i \in Invocations, NEW d, NEW att, Legal(i, d, att), Move(i, d)
    PROVE  /\ \A r \in Requests : Reported(r) => Reported(r)'
           /\ Forwards /\ run' = run => CompletedIsAccounted'
<1>1. \A r \in Requests : Reported(r) => Reported(r)'
  <2> SUFFICES ASSUME NEW r \in Requests, Reported(r) PROVE Reported(r)'
      OBVIOUS
  <2>1. PICK j \in Invocations : inv[j].req = r /\ "attempt" \in inv[j].failed
        BY DEF Reported
  <2>2. inv'[j].req = r /\ "attempt" \in inv'[j].failed
    <3>1. inv'[i] = d /\ \A k \in Invocations \ {i} : inv'[k] = inv[k]
          BY DEF Move, RuntimeInv, TypeOK
    <3>2. CASE j = i
          BY <2>1, <3>1, <3>2 DEF Legal
    <3>3. CASE j # i
          BY <2>1, <3>1, <3>3
    <3> QED BY <3>2, <3>3
  <2> QED BY <2>2 DEF Reported
<1>2. Forwards /\ run' = run => CompletedIsAccounted'
  <2> SUFFICES ASSUME Forwards, run' = run, NEW r \in Requests, NEW s \in Stages,
                      run[r].state = "completed"
               PROVE  attempt'[r][s] \in TerminalAttempt
                        \/ (attempt'[r][s] = "running" /\ Reported(r)')
      BY DEF CompletedIsAccounted
  <2>1. attempt[r][s] \in TerminalAttempt \/ (attempt[r][s] = "running" /\ Reported(r))
        BY DEF RuntimeInv, CompletedIsAccounted
  <2> QED BY <1>1, <2>1 DEF Forwards
<1> QED BY <1>1, <1>2

\* The whole invariant after such a statement.
LEMMA MoveStep ==
    ASSUME RuntimeInv, NEW i \in Invocations, NEW d, Legal(i, d, attempt'), Move(i, d),
           Forwards, attempt' \in [Requests -> [Stages -> AttemptStates]],
           run' \in [Requests -> [state : RunStates, why : Whys]], CompletedIsAccounted',
           lease' = lease, halt' \in BOOLEAN, aborted' \subseteq Invocations,
           count' \in Bounds
    PROVE  RuntimeInv'
<1>1. /\ d \in InvRecords /\ d.proof = inv[i].proof /\ inv[i].failed \subseteq d.failed
      /\ d.req = inv[i].req \/ (d.proof = NoProof /\ inv[i].failed = {})
      /\ d.pc = "done" /\ Holds(i) => Excused(d)
      /\ Base(d, attempt') /\ Progress(d, attempt')
      BY DEF Legal
<1>2. inv \in [Invocations -> InvRecords]
      BY DEF RuntimeInv, TypeOK, InvRecords
<1>3. /\ inv' \in [Invocations -> InvRecords]
      /\ inv'[i] = d /\ \A j \in Invocations \ {i} : inv'[j] = inv[j]
      BY <1>1, <1>2 DEF Move
<1>4. \A j \in Invocations : Base(inv'[j], attempt') /\ Progress(inv'[j], attempt')
  <2> SUFFICES ASSUME NEW j \in Invocations, j # i
               PROVE  Base(inv[j], attempt') /\ Progress(inv[j], attempt')
      BY <1>1, <1>3
  <2> QED BY <1>2, KnowledgeKept DEF RuntimeInv
<1>5. TypeOK'
  <2>1. \A j \in Invocations : inv'[j].pc \in Early => inv'[j].proof = NoProof
        BY <1>4 DEF Base
  <2>2. (\A j \in Invocations :
            inv[j].pc \in {"idle", "ensured", "wait", "acquire", "take"} => ~HasProof(j))'
        BY <2>1 DEF Early, HasProof
  <2> QED BY <1>3, <2>2 DEF RuntimeInv, TypeOK, InvRecords, Bounds
<1>6. \A j \in Invocations : inv'[j].proof = inv[j].proof /\ (HasProof(j)' <=> HasProof(j))
      BY <1>1, <1>3 DEF HasProof
<1>7. \A j \in Invocations :
        /\ (inv[j].pc = "done" /\ Holds(j) => Excused(inv[j]))'
        /\ (lease.state = "held" /\ lease.holder = j =>
               \/ "acquire" \in inv[j].failed
               \/ inv[j].proof = ProofOf(lease) /\ inv[j].req = lease.run)'
  <2>1. ASSUME NEW j \in Invocations, j # i
        PROVE  /\ (inv[j].pc = "done" /\ Holds(j) => Excused(inv[j]))'
               /\ (lease.state = "held" /\ lease.holder = j =>
                      \/ "acquire" \in inv[j].failed
                      \/ inv[j].proof = ProofOf(lease) /\ inv[j].req = lease.run)'
        BY <1>3, <2>1 DEF RuntimeInv, Fenced, Holds, Excused
  <2>2. (inv[i].pc = "done" /\ Holds(i) => Excused(inv[i]))'
        BY <1>1, <1>3 DEF Holds, Excused
  <2>3. ASSUME lease.state = "held", lease.holder = i
        PROVE  "acquire" \in d.failed \/ (d.proof = ProofOf(lease) /\ d.req = lease.run)
    <3>1. \/ "acquire" \in inv[i].failed
          \/ inv[i].proof = ProofOf(lease) /\ inv[i].req = lease.run
          BY <2>3 DEF RuntimeInv, Fenced
    <3>2. ProofOf(lease) # NoProof
          BY <2>3 DEF ProofOf, NoProof, RuntimeInv
    <3> QED BY <1>1, <3>1, <3>2
  <2> QED BY <1>3, <2>1, <2>2, <2>3
<1>8. \A j \in Invocations : Fenced(j)'
  <2> SUFFICES ASSUME NEW j \in Invocations PROVE Fenced(j)'
      OBVIOUS
  <2>1. Fenced(j)
        BY DEF RuntimeInv
  <2> QED BY <1>6, <1>7, <2>1 DEF Fenced
<1> QED BY <1>4, <1>5, <1>8 DEF RuntimeInv

\* The same when no row changes.
LEMMA QuietStep ==
    ASSUME RuntimeInv, NEW i \in Invocations, NEW d, Legal(i, d, attempt), Move(i, d),
           UNCHANGED <<run, attempt, lease, halt, aborted>>,
           count' \in Bounds
    PROVE  RuntimeInv'
<1>1. Forwards
      BY DEF Forwards
<1>2. /\ attempt' \in [Requests -> [Stages -> AttemptStates]]
      /\ run' \in [Requests -> [state : RunStates, why : Whys]]
      /\ halt' \in BOOLEAN /\ aborted' \subseteq Invocations
      BY DEF RuntimeInv, TypeOK
<1>3. CompletedIsAccounted'
      BY <1>1, AccountKept
<1>4. Legal(i, d, attempt')
      OBVIOUS
<1> QED BY <1>1, <1>2, <1>3, <1>4, MoveStep

\* The record of an invocation, and what the invariant says of it.
LEMMA RecordOf ==
    ASSUME RuntimeInv, NEW i \in Invocations
    PROVE  /\ inv[i] \in InvRecords /\ Base(inv[i], attempt) /\ Progress(inv[i], attempt)
           /\ count \in Bounds
BY DEF RuntimeInv, TypeOK, InvRecords, Bounds

\* Going on to a statement at which nothing more has to be known.
LEMMA GotoLegal ==
    ASSUME RuntimeInv, NEW i \in Invocations, NEW c \in InvRecords, Base(c, attempt),
           c.req = inv[i].req, c.proof = inv[i].proof, inv[i].failed \subseteq c.failed,
           c.pc # "idle",
           NEW pc \in {"entered", "late", "prove", "settle", "guard", "reserve", "insert", "start",
                       "failing", "unreserved", "release", "crashed"},
           pc \in {"prove", "settle"} => c.goal # "completed" \/ c.pc \in {"prove", "settle"}
    PROVE  Progress(c, attempt) => Legal(i, Goto(c, pc), attempt)
<1>1. pc \in Pcs /\ pc \notin Early
      BY DEF Pcs, Early
<1>2. /\ Goto(c, pc) \in InvRecords /\ Goto(c, pc).pc = pc
      /\ Goto(c, pc).req = c.req /\ Goto(c, pc).proof = c.proof
      /\ Goto(c, pc).stage = c.stage /\ Goto(c, pc).result = c.result
      /\ Goto(c, pc).lost = c.lost /\ Goto(c, pc).goal = c.goal
      /\ Goto(c, pc).failed = c.failed
      BY <1>1, GotoFields
<1> QED BY <1>1, <1>2 DEF Legal, Base, Progress, Accounted

\* Aiming at a state other than completed.
LEMMA AimLegal ==
    ASSUME RuntimeInv, NEW i \in Invocations, NEW c \in InvRecords, Base(c, attempt),
           c.req = inv[i].req, c.proof = inv[i].proof, inv[i].failed \subseteq c.failed,
           c.pc # "idle", NEW goal \in RunStates \ {"completed"}, NEW why \in Whys
    PROVE  Legal(i, Aim(c, goal, why), attempt)
<1>1. /\ Aim(c, goal, why) \in InvRecords /\ Aim(c, goal, why).pc \in {"prove", "settle"}
      /\ Aim(c, goal, why).goal = goal
      /\ Aim(c, goal, why).req = c.req /\ Aim(c, goal, why).proof = c.proof
      /\ Aim(c, goal, why).stage = c.stage /\ Aim(c, goal, why).failed = c.failed
      BY AimFields
<1> QED BY <1>1 DEF Legal, Base, Progress, Early, Accounted

\* Whoever has no proof does not hold the lease, or was not told of the grant.
LEMMA NothingHeld ==
    ASSUME RuntimeInv, NEW i \in Invocations, inv[i].proof = NoProof, Holds(i)
    PROVE  "acquire" \in inv[i].failed
<1>1. ProofOf(lease) # NoProof
      BY DEF ProofOf, NoProof, RuntimeInv, Holds
<1> QED BY <1>1 DEF RuntimeInv, Fenced, Holds

\* Returning without the lease, or with an excuse.
LEMMA DoneLegal ==
    ASSUME RuntimeInv, NEW i \in Invocations, NEW c \in InvRecords, Base(c, attempt),
           c.req = inv[i].req, c.proof = inv[i].proof, inv[i].failed \subseteq c.failed,
           c.pc # "idle", Excused(c) \/ c.proof = NoProof
    PROVE  Legal(i, Goto(c, "done"), attempt)
<1>1. "done" \in Pcs /\ "done" \notin Early
      BY DEF Pcs, Early
<1>2. /\ Goto(c, "done") \in InvRecords /\ Goto(c, "done").pc = "done"
      /\ Goto(c, "done").req = c.req /\ Goto(c, "done").proof = c.proof
      /\ Goto(c, "done").stage = c.stage /\ Goto(c, "done").lost = c.lost
      /\ Goto(c, "done").failed = c.failed
      BY <1>1, GotoFields
<1>3. Holds(i) => Excused(Goto(c, "done"))
      BY <1>2, NothingHeld DEF Excused
<1> QED BY <1>1, <1>2, <1>3 DEF Legal, Base, Progress, Accounted

\* The verdict of a checkpoint: stop in one of the ways the code knows, or go on.
LEMMA VerdictLegal ==
    ASSUME RuntimeInv, NEW i \in Invocations, NEW c \in InvRecords, Base(c, attempt),
           Progress(c, attempt), c.req = inv[i].req, c.proof = inv[i].proof,
           inv[i].failed \subseteq c.failed, c.pc # "idle", NEW onward, Legal(i, onward, attempt)
    PROVE  Legal(i, Verdict(c, onward), attempt)
<1>1. CASE c.lost
  <2>1. Verdict(c, onward) = Goto(c, "done")
        BY <1>1 DEF Verdict
  <2> QED BY <1>1, <2>1, DoneLegal DEF Excused
<1>2. CASE ~c.lost /\ c.cancelled
  <2>1. Verdict(c, onward) = Cancelling(c)
        BY <1>2 DEF Verdict
  <2>2. CASE c.copy = "retry_wait"
        BY <2>1, <2>2, GotoLegal DEF Cancelling
  <2>3. CASE c.copy # "retry_wait"
    <3>1. Verdict(c, onward) = Aim(c, "cancelled", Why("cancelled", "during_pagination"))
          BY <2>1, <2>3 DEF Cancelling
    <3> QED BY <3>1, AimLegal, Vocabulary DEF RunStates
  <2> QED BY <2>2, <2>3
<1>3. CASE ~c.lost /\ ~c.cancelled /\ c.halted
  <2>1. Verdict(c, onward) = Aim(c, "halted", Why("kill_switch_engaged", "none"))
        BY <1>3 DEF Verdict, Halting
  <2> QED BY <2>1, AimLegal, Vocabulary DEF RunStates
<1>4. CASE ~c.lost /\ ~c.cancelled /\ ~c.halted
      BY <1>4 DEF Verdict
<1> QED BY <1>1, <1>2, <1>3, <1>4

\* A refreshed record is as legal as the one it was made from.
LEMMA RefreshedLegal ==
    ASSUME RuntimeInv, NEW i \in Invocations, NEW c, Legal(i, c, attempt),
           NEW h \in BOOLEAN, NEW s \in BOOLEAN, NEW r \in BOOLEAN
    PROVE  Legal(i, Refreshed(i, c, h, s, r), attempt)
<1> DEFINE d == Refreshed(i, c, h, s, r)
<1>1. c \in InvRecords /\ TypeOK
      BY DEF Legal, RuntimeInv
<1>2. /\ d \in InvRecords /\ d.pc = c.pc
      /\ d.req = c.req /\ d.proof = c.proof
      /\ d.stage = c.stage /\ d.result = c.result /\ d.goal = c.goal
      /\ d.copy = c.copy /\ (c.lost => d.lost) /\ d.failed = c.failed
      BY <1>1, RefreshedFields
<1> HIDE DEF d
<1>3. Legal(i, d, attempt)
      BY <1>2 DEF Legal, Base, Progress, Accounted, Excused
<1> QED BY <1>3 DEF d

\* It also knows as much.
LEMMA RefreshedKnows ==
    ASSUME RuntimeInv, NEW i \in Invocations, NEW c \in InvRecords, Base(c, attempt),
           Progress(c, attempt), NEW h \in BOOLEAN, NEW s \in BOOLEAN, NEW r \in BOOLEAN
    PROVE  /\ Refreshed(i, c, h, s, r) \in InvRecords
           /\ Refreshed(i, c, h, s, r).pc = c.pc
           /\ Refreshed(i, c, h, s, r).req = c.req
           /\ Refreshed(i, c, h, s, r).proof = c.proof
           /\ Refreshed(i, c, h, s, r).failed = c.failed
           /\ Base(Refreshed(i, c, h, s, r), attempt)
           /\ Progress(Refreshed(i, c, h, s, r), attempt)
<1> DEFINE d == Refreshed(i, c, h, s, r)
<1>1. TypeOK
      BY DEF RuntimeInv
<1>2. /\ d \in InvRecords /\ d.pc = c.pc
      /\ d.req = c.req /\ d.proof = c.proof
      /\ d.stage = c.stage /\ d.result = c.result /\ d.goal = c.goal /\ d.failed = c.failed
      BY <1>1, RefreshedFields
<1> HIDE DEF d
<1>3. Base(d, attempt) /\ Progress(d, attempt)
      BY <1>2 DEF Base, Progress, Accounted
<1> QED BY <1>2, <1>3 DEF d

\* Every checkpoint: what it does is legal if what it goes on to is.
LEMMA CheckStep ==
    ASSUME RuntimeInv, NEW i \in Invocations, NEW pc \in Pcs \ Early, NEW h \in BOOLEAN,
           NEW s \in BOOLEAN, NEW onward, Legal(i, onward, attempt), Check(i, pc, h, s, onward)
    PROVE  RuntimeInv'
<1>1. PICK readable \in BOOLEAN :
        /\ Answered(readable)
        /\ inv' = [inv EXCEPT ![i] = Verdict(Refreshed(i, inv[i], h, s, readable),
                                             Refreshed(i, onward, h, s, readable))]
      BY DEF Check
<1>2. inv[i].pc = pc /\ UNCHANGED <<run, attempt, lease, halt, aborted>>
      BY DEF Check
<1>3. inv[i] \in InvRecords /\ Base(inv[i], attempt) /\ Progress(inv[i], attempt)
      BY RecordOf
<1>4. count' \in Bounds
      BY <1>1, RecordOf, AnsweredCount
<1> DEFINE c == Refreshed(i, inv[i], h, s, readable)
           d == Verdict(c, Refreshed(i, onward, h, s, readable))
<1>5. /\ c \in InvRecords /\ c.pc = inv[i].pc /\ c.req = inv[i].req /\ c.proof = inv[i].proof
      /\ c.failed = inv[i].failed
      /\ Base(c, attempt) /\ Progress(c, attempt)
  <2>1. PICK e : e = inv[i]
        OBVIOUS
  <2>2. e \in InvRecords /\ Base(e, attempt) /\ Progress(e, attempt)
        BY <1>3, <2>1
  <2>3. /\ Refreshed(i, e, h, s, readable) \in InvRecords
        /\ Refreshed(i, e, h, s, readable).pc = e.pc
        /\ Refreshed(i, e, h, s, readable).req = e.req
        /\ Refreshed(i, e, h, s, readable).proof = e.proof
        /\ Refreshed(i, e, h, s, readable).failed = e.failed
        /\ Base(Refreshed(i, e, h, s, readable), attempt)
        /\ Progress(Refreshed(i, e, h, s, readable), attempt)
        BY <2>2, RefreshedKnows
  <2> QED BY <2>1, <2>3
<1>6. inv[i].pc # "idle"
      BY <1>2 DEF Early
<1>7. Legal(i, d, attempt)
  <2>1. Legal(i, Refreshed(i, onward, h, s, readable), attempt)
        BY RefreshedLegal
  <2> HIDE DEF c
  <2> QED BY <1>5, <1>6, <2>1, VerdictLegal
<1>8. Move(i, d)
      BY <1>1 DEF Move
<1> HIDE DEF d
<1> QED BY <1>2, <1>4, <1>7, <1>8, QuietStep

\* The statements of a checkpoint.
LEMMA CheckPcs ==
    {"entered", "guard", "judge", "failing", "accept", "rejected", "bridge", "unreserved",
     "complete"} \subseteq Pcs \ Early
BY DEF Pcs, Early

\* The checkpoints after the lease was granted and before the listing.
LEMMA EnterStep ==
    ASSUME RuntimeInv, NEW i \in Invocations, Enter(i) \/ Guard(i)
    PROVE  RuntimeInv'
<1> USE CheckPcs
<1>0. inv[i] \in InvRecords /\ Base(inv[i], attempt) /\ Progress(inv[i], attempt)
      BY RecordOf
<1>1. CASE Enter(i)
  <2>1. Legal(i, Goto(inv[i], "late"), attempt)
        BY <1>0, <1>1, GotoLegal DEF Enter, Check
  <2> QED BY <1>1, <2>1, CheckStep DEF Enter
<1>2. CASE Guard(i)
  <2> DEFINE d == [inv[i] EXCEPT !.pc = "reserve", !.stage = "listing_page"]
  <2>1. /\ d \in InvRecords /\ d.pc = "reserve" /\ d.stage = "listing_page"
        /\ d.req = inv[i].req /\ d.proof = inv[i].proof /\ d.failed = inv[i].failed
        BY <1>0 DEF InvRecords, Pcs, Stages
  <2>2. inv[i].pc = "guard" /\ Check(i, "guard", TRUE, FALSE, d)
        BY <1>2 DEF Guard, Check
  <2> HIDE DEF d
  <2>3. Legal(i, d, attempt)
        BY <1>0, <2>1, <2>2 DEF Legal, Base, Progress, Accounted, Early
  <2> QED BY <2>2, <2>3, CheckStep
<1> QED BY <1>1, <1>2

\* The checkpoints between the stages.
LEMMA JudgeStep ==
    ASSUME RuntimeInv, NEW i \in Invocations, Judge(i) \/ Accept(i) \/ Bridge(i)
    PROVE  RuntimeInv'
<1> USE CheckPcs
<1>0. inv[i] \in InvRecords /\ Base(inv[i], attempt) /\ Progress(inv[i], attempt)
      BY RecordOf
<1>1. CASE Judge(i)
  <2> DEFINE pc == IF inv[i].stage # "listing_page" THEN "complete"
                   ELSE IF inv[i].result = "ok" THEN "accept" ELSE "failing"
             d == Goto(inv[i], pc)
             s == inv[i].stage = "listing_page"
  <2>1. inv[i].pc = "judge" /\ Check(i, "judge", FALSE, s, d)
        BY <1>1 DEF Judge, Check
  <2>2. pc \in Pcs /\ pc \notin Early /\ pc # "done"
        BY DEF Pcs, Early
  <2> HIDE DEF pc
  <2>3. /\ d \in InvRecords /\ d.pc = pc
        /\ d.req = inv[i].req /\ d.proof = inv[i].proof /\ d.failed = inv[i].failed
        /\ d.stage = inv[i].stage /\ d.result = inv[i].result
        BY <1>0, <2>2, GotoFields
  <2>4. inv[i].stage \in Stages
        BY <1>0 DEF InvRecords
  <2> HIDE DEF d
  <2>5. Legal(i, d, attempt)
        BY <1>0, <2>1, <2>2, <2>3, <2>4 DEF Legal, Base, Progress, Accounted, Stages, pc
  <2>6. s \in BOOLEAN
        OBVIOUS
  <2> HIDE DEF s
  <2> QED BY <2>1, <2>5, <2>6, CheckStep
<1>2. CASE Accept(i)
  <2>1. PICK pc \in {"bridge", "rejected"} : Check(i, "accept", TRUE, FALSE, Goto(inv[i], pc))
        BY <1>2 DEF Accept
  <2> DEFINE d == Goto(inv[i], pc)
  <2>2. pc \in Pcs /\ pc \notin Early
        BY DEF Pcs, Early
  <2>3. /\ d \in InvRecords /\ d.pc = pc
        /\ d.req = inv[i].req /\ d.proof = inv[i].proof /\ d.failed = inv[i].failed
        /\ d.stage = inv[i].stage /\ d.result = inv[i].result
        BY <1>0, <2>2, GotoFields
  <2>4. inv[i].pc = "accept" /\ Check(i, "accept", TRUE, FALSE, d)
        BY <2>1 DEF Check
  <2> HIDE DEF d
  <2>5. Legal(i, d, attempt)
        BY <1>0, <2>2, <2>3, <2>4 DEF Legal, Base, Progress, Accounted, Early
  <2> QED BY <2>4, <2>5, CheckStep
<1>3. CASE Bridge(i)
  <2> DEFINE d == [inv[i] EXCEPT !.pc = "reserve", !.stage = "provider_body_retrieval"]
  <2>1. /\ d \in InvRecords /\ d.pc = "reserve" /\ d.stage = "provider_body_retrieval"
        /\ d.req = inv[i].req /\ d.proof = inv[i].proof /\ d.failed = inv[i].failed
        BY <1>0 DEF InvRecords, Pcs, Stages
  <2>2. inv[i].pc = "bridge" /\ Check(i, "bridge", TRUE, FALSE, d)
        BY <1>3 DEF Bridge, Check
  <2> HIDE DEF d
  <2>3. Legal(i, d, attempt)
        BY <1>0, <2>1, <2>2 DEF Legal, Base, Progress, Accounted, Early
  <2> QED BY <2>2, <2>3, CheckStep
<1> QED BY <1>1, <1>2, <1>3

\* The checkpoints that settle a failure.
LEMMA FailStep ==
    ASSUME RuntimeInv, NEW i \in Invocations,
           FailListing(i) \/ RejectInventory(i) \/ FailReserve(i)
    PROVE  RuntimeInv'
<1> USE CheckPcs
<1>0. inv[i] \in InvRecords /\ Base(inv[i], attempt)
      BY RecordOf
<1>1. CASE FailListing(i)
  <2> DEFINE goal == IF inv[i].result = "retry" THEN "retry_wait" ELSE "failed"
  <2>1. goal \in RunStates \ {"completed"}
        BY DEF RunStates
  <2>2. /\ inv[i].pc = "failing"
        /\ Check(i, "failing", TRUE, FALSE, Aim(inv[i], goal, Why("listing_failure", "during_pagination")))
        BY <1>1 DEF FailListing, Check
  <2> HIDE DEF goal
  <2>3. Legal(i, Aim(inv[i], goal, Why("listing_failure", "during_pagination")), attempt)
        BY <1>0, <2>1, <2>2, AimLegal, Vocabulary
  <2> QED BY <2>2, <2>3, CheckStep
<1>2. CASE RejectInventory(i)
  <2>1. Legal(i, Aim(inv[i], "failed", Why("bridge_failure", "none")), attempt)
        BY <1>0, <1>2, AimLegal, Vocabulary DEF RejectInventory, Check, RunStates
  <2> QED BY <1>2, <2>1, CheckStep DEF RejectInventory
<1>3. CASE FailReserve(i)
  <2>1. Legal(i, Aim(inv[i], "failed", Why("attempt_reserve_failed", "none")), attempt)
        BY <1>0, <1>3, AimLegal, Vocabulary DEF FailReserve, Check, RunStates
  <2> QED BY <1>3, <2>1, CheckStep DEF FailReserve
<1> QED BY <1>1, <1>2, <1>3

\* The last checkpoint: both attempts are settled before the goal is completed.
LEMMA CompleteStep ==
    ASSUME RuntimeInv, NEW i \in Invocations, Complete(i)
    PROVE  RuntimeInv'
<1> USE CheckPcs
<1>0. inv[i] \in InvRecords /\ Base(inv[i], attempt) /\ Progress(inv[i], attempt)
      BY RecordOf
<1>1. inv[i].pc = "complete"
      BY DEF Complete, Check
<1>2. CASE inv[i].result = "ok"
  <2> DEFINE d == Aim(inv[i], "completed", Plain)
  <2>1. /\ d \in InvRecords /\ d.pc \in {"prove", "settle"}
        /\ d.req = inv[i].req /\ d.proof = inv[i].proof /\ d.failed = inv[i].failed /\ d.stage = inv[i].stage
    <3>1. "completed" \in RunStates
          BY DEF RunStates
    <3>2. Plain \in Whys
          BY Vocabulary
    <3>3. PICK e : e = inv[i]
          OBVIOUS
    <3>4. PICK g : g = "completed"
          OBVIOUS
    <3>5. /\ Aim(e, g, Plain) \in InvRecords /\ Aim(e, g, Plain).pc \in {"prove", "settle"}
          /\ Aim(e, g, Plain).req = e.req /\ Aim(e, g, Plain).proof = e.proof
          /\ Aim(e, g, Plain).stage = e.stage /\ Aim(e, g, Plain).failed = e.failed
          BY <1>0, <3>1, <3>2, <3>3, <3>4, AimFields
    <3> QED BY <3>3, <3>4, <3>5
  <2>2. Check(i, "complete", TRUE, FALSE, d)
        BY <1>2 DEF Complete
  <2>3. \A s \in Stages : Accounted(inv[i], attempt[inv[i].req][s])
        BY <1>0, <1>1, <1>2 DEF Base, Progress, Stages
  <2> HIDE DEF d
  <2>4. Legal(i, d, attempt)
        BY <1>0, <1>1, <2>1, <2>3 DEF Legal, Base, Progress, Accounted, Early
  <2> QED BY <2>2, <2>4, CheckStep
<1>3. CASE inv[i].result # "ok"
  <2>1. Check(i, "complete", TRUE, FALSE, Aim(inv[i], "retry_wait", Why("acquisition_failed", "none")))
        BY <1>3 DEF Complete
  <2>2. Legal(i, Aim(inv[i], "retry_wait", Why("acquisition_failed", "none")), attempt)
        BY <1>0, <1>1, AimLegal, Vocabulary DEF RunStates
  <2> QED BY <2>1, <2>2, CheckStep
<1> QED BY <1>2, <1>3

\* The record of an invocation, named.
LEMMA Current ==
    ASSUME RuntimeInv, NEW i \in Invocations
    PROVE  \E c \in InvRecords : c = inv[i] /\ Base(c, attempt) /\ Progress(c, attempt)
BY RecordOf

\* Going on before the lease was granted.
LEMMA EarlyLegal ==
    ASSUME RuntimeInv, NEW i \in Invocations, NEW c \in InvRecords, Base(c, attempt),
           c = inv[i], c.pc \in Early \ {"idle"}, NEW d \in InvRecords,
           d.pc \in {"wait", "acquire", "take"}, d.req = c.req, d.proof = c.proof,
           d.stage = c.stage, d.failed = c.failed
    PROVE  Legal(i, d, attempt)
BY DEF Legal, Base, Progress, Accounted, Early

\* The branches before the lease.
LEMMA DecideStep ==
    ASSUME RuntimeInv, NEW i \in Invocations, Decide(i)
    PROVE  RuntimeInv'
<1>1. PICK c \in InvRecords : c = inv[i] /\ Base(c, attempt) /\ Progress(c, attempt)
      BY Current
<1>2. c.pc = "ensured" /\ Move(i, Decided(i, c)) /\ UNCHANGED <<run, attempt, lease, halt, aborted, count>>
      BY <1>1 DEF Decide
<1>3. c.proof = NoProof /\ c.pc \in Early \ {"idle"}
      BY <1>1, <1>2 DEF Base, Early
<1>4. \/ Decided(i, c) = Halting(c)
      \/ Decided(i, c) = Goto(c, "done")
      \/ Decided(i, c) = Goto(c, "wait")
      \/ Decided(i, c) = Goto(c, "acquire")
      BY DEF Decided
<1>5. CASE Decided(i, c) = Halting(c)
  <2>1. Legal(i, Aim(c, "halted", Why("kill_switch_engaged", "none")), attempt)
        BY <1>1, <1>2, AimLegal, Vocabulary DEF RunStates
  <2>2. Legal(i, Decided(i, c), attempt)
        BY <1>5, <2>1 DEF Halting
  <2> QED BY <1>2, <2>2, QuietStep, RecordOf
<1>6. CASE Decided(i, c) = Goto(c, "done")
  <2>1. Legal(i, Decided(i, c), attempt)
        BY <1>1, <1>2, <1>3, <1>6, DoneLegal
  <2> QED BY <1>2, <2>1, QuietStep, RecordOf
<1>7. ASSUME NEW pc \in {"wait", "acquire"}, Decided(i, c) = Goto(c, pc)
      PROVE  RuntimeInv'
  <2>1. pc \in Pcs
        BY DEF Pcs
  <2>2. Legal(i, Decided(i, c), attempt)
        BY <1>1, <1>3, <1>7, <2>1, GotoFields, EarlyLegal
  <2> QED BY <1>2, <2>2, QuietStep, RecordOf
<1> QED BY <1>4, <1>5, <1>6, <1>7

\* An acquisition that was not answered ends the invocation without a proof.
LEMMA AcquireFailedLegal ==
    ASSUME RuntimeInv, NEW i \in Invocations, NEW c \in InvRecords, Base(c, attempt),
           c.req = inv[i].req, c.proof = inv[i].proof, c.failed = inv[i].failed,
           c.pc # "idle", c.proof = NoProof
    PROVE  /\ Goto(Reporting(c, "acquire"), "done") \in InvRecords
           /\ Goto(Reporting(c, "acquire"), "done").proof = NoProof
           /\ Goto(Reporting(c, "acquire"), "done").req = c.req
           /\ "acquire" \in Goto(Reporting(c, "acquire"), "done").failed
           /\ c.failed \subseteq Goto(Reporting(c, "acquire"), "done").failed
           /\ Legal(i, Goto(Reporting(c, "acquire"), "done"), attempt)
<1>1. PICK call \in Calls : call = "acquire"
      BY DEF Calls
<1>2. PICK e : e = Reporting(c, "acquire")
      OBVIOUS
<1>3. /\ e \in InvRecords /\ e.pc = c.pc /\ e.req = c.req /\ e.proof = c.proof
      /\ e.stage = c.stage /\ e.failed = c.failed \cup {"acquire"}
      BY <1>1, <1>2, ReportingFields
<1>4. Base(e, attempt) /\ Excused(e) /\ e.pc # "idle"
      BY <1>3 DEF Base, Accounted, Excused
<1>5. Legal(i, Goto(e, "done"), attempt)
      BY <1>3, <1>4, DoneLegal
<1>6. "done" \in Pcs
      BY DEF Pcs
<1> QED BY <1>2, <1>3, <1>5, <1>6, GotoFields

\* The first half of the acquisition.
LEMMA LookStep ==
    ASSUME RuntimeInv, NEW i \in Invocations, Look(i)
    PROVE  RuntimeInv'
<1>1. PICK c \in InvRecords : c = inv[i] /\ Base(c, attempt) /\ Progress(c, attempt)
      BY Current
<1>2. c.pc = "acquire" /\ UNCHANGED <<run, attempt, lease, halt, aborted>> /\ count' \in Bounds
      BY <1>1, RecordOf, AnsweredCount DEF Look
<1>3. c.proof = NoProof /\ c.pc \in Early \ {"idle"}
      BY <1>1, <1>2 DEF Base, Early
<1> DEFINE d == [c EXCEPT !.pc = "take", !.seen = ProofOf(lease)]
<1>4. \/ Move(i, Goto(Reporting(c, "acquire"), "done"))
      \/ Move(i, Goto(c, "done")) \/ Move(i, d)
      BY <1>1 DEF Look
<1>7. CASE Move(i, Goto(Reporting(c, "acquire"), "done"))
  <2>1. Legal(i, Goto(Reporting(c, "acquire"), "done"), attempt)
        BY <1>1, <1>2, <1>3, AcquireFailedLegal
  <2> QED BY <1>2, <1>7, <2>1, QuietStep
<1>5. CASE Move(i, Goto(c, "done"))
  <2>1. Legal(i, Goto(c, "done"), attempt)
        BY <1>1, <1>2, <1>3, DoneLegal
  <2> QED BY <1>2, <1>5, <2>1, QuietStep
<1>6. CASE Move(i, d)
  <2>1. ProofOf(lease) \in Proofs
        BY DEF ProofOf, Proofs, RuntimeInv, TypeOK
  <2>2. /\ d \in InvRecords /\ d.pc = "take" /\ d.req = c.req
        /\ d.proof = c.proof /\ d.stage = c.stage /\ d.failed = c.failed
        BY <2>1 DEF InvRecords, Pcs
  <2> HIDE DEF d
  <2>3. Legal(i, d, attempt)
        BY <1>1, <1>3, <2>2, EarlyLegal
  <2> QED BY <1>2, <1>6, <2>3, QuietStep
<1> QED BY <1>4, <1>5, <1>6, <1>7

\* Where an invocation goes once it has entered.
LEMMA EnteredLegal ==
    ASSUME RuntimeInv, NEW i \in Invocations, NEW c \in InvRecords, Base(c, attempt),
           Progress(c, attempt), c.req = inv[i].req, c.proof = inv[i].proof,
           inv[i].failed \subseteq c.failed, c.pc # "idle"
    PROVE  Legal(i, Entered(i, c), attempt)
<1>1. Legal(i, Aim(c, "cancelled", Why("cancelled", "after_lease_acquisition")), attempt)
      BY AimLegal, Vocabulary DEF RunStates
<1>2. Legal(i, Aim(c, "running", Plain), attempt)
      BY AimLegal, Vocabulary DEF RunStates
<1>3. Legal(i, Goto(c, "guard"), attempt)
      BY GotoLegal
<1> QED BY <1>1, <1>2, <1>3 DEF Entered

\* An abort that came in during the first checkpoint.
LEMMA LateAbortStep ==
    ASSUME RuntimeInv, NEW i \in Invocations, LateAbort(i)
    PROVE  RuntimeInv'
<1>1. PICK c \in InvRecords : c = inv[i] /\ Base(c, attempt) /\ Progress(c, attempt)
      BY Current
<1>2. PICK readable \in BOOLEAN :
        LET seen == Refreshed(i, c, TRUE, TRUE, readable)
        IN  /\ c.pc = "late" /\ UNCHANGED <<run, attempt, lease, halt, aborted>>
            /\ Answered(readable) \/ UNCHANGED count
            /\ \/ Move(i, Entered(i, c)) \/ Move(i, Verdict(seen, seen)) \/ Move(i, Entered(i, seen))
      BY <1>1 DEF LateAbort
<1>3. PICK seen : seen = Refreshed(i, c, TRUE, TRUE, readable)
      OBVIOUS
<1>4. /\ seen \in InvRecords /\ seen.pc = "late" /\ seen.req = c.req /\ seen.proof = c.proof
      /\ seen.failed = c.failed /\ Base(seen, attempt) /\ Progress(seen, attempt)
      BY <1>1, <1>2, <1>3, RefreshedKnows, ZenonT(60)
<1>5. Legal(i, seen, attempt)
      BY <1>1, <1>4 DEF Legal
<1>6. /\ Legal(i, Entered(i, c), attempt)
      /\ Legal(i, Verdict(seen, seen), attempt)
      /\ Legal(i, Entered(i, seen), attempt)
      BY <1>1, <1>2, <1>4, <1>5, EnteredLegal, VerdictLegal
<1>7. PICK d : Legal(i, d, attempt) /\ Move(i, d)
      BY <1>2, <1>3, <1>6
<1>8. count' \in Bounds
      BY <1>2, RecordOf, AnsweredCount
<1> QED BY <1>2, <1>7, <1>8, QuietStep

\* The first statement of a transition that asks for ownership.
LEMMA ProveStep ==
    ASSUME RuntimeInv, NEW i \in Invocations, Prove(i)
    PROVE  RuntimeInv'
<1>1. PICK c \in InvRecords : c = inv[i] /\ Base(c, attempt) /\ Progress(c, attempt)
      BY Current
<1>2. /\ c.pc = "prove" /\ UNCHANGED <<run, attempt, lease, halt, aborted>>
      /\ Move(i, Goto(c, "settle")) \/ Move(i, Goto(c, "release"))
      /\ count' \in Bounds
      BY <1>1, RecordOf, AnsweredCount DEF Prove
<1>3. Legal(i, Goto(c, "settle"), attempt) /\ Legal(i, Goto(c, "release"), attempt)
      BY <1>1, <1>2, GotoLegal
<1> QED BY <1>2, <1>3, QuietStep

\* A reservation that failed leads away from the stage.
LEMMA UnreadyLegal ==
    ASSUME RuntimeInv, NEW i \in Invocations, NEW c \in InvRecords, Base(c, attempt),
           Progress(c, attempt), c = inv[i], c.pc \in {"reserve", "insert", "start"}
    PROVE  Legal(i, Unready(c), attempt)
<1>1. PICK d : d = Reporting(c, "attempt")
      OBVIOUS
<1>2. /\ d \in InvRecords /\ d.pc = c.pc /\ d.req = c.req /\ d.proof = c.proof
      /\ d.stage = c.stage /\ c.failed \subseteq d.failed
  <2>1. PICK call \in Calls : call = "attempt"
        BY DEF Calls
  <2> QED BY <1>1, <2>1, ReportingFields
<1>3. Base(d, attempt) /\ Progress(d, attempt) /\ d.pc # "idle"
      BY <1>2 DEF Base, Progress, Accounted
<1>4. Legal(i, Goto(d, "release"), attempt) /\ Legal(i, Goto(d, "unreserved"), attempt)
      BY <1>2, <1>3, GotoLegal
<1> QED BY <1>1, <1>4 DEF Unready

\* The first read of a reservation.
LEMMA ReserveStep ==
    ASSUME RuntimeInv, NEW i \in Invocations, Reserve(i)
    PROVE  RuntimeInv'
<1>1. PICK c \in InvRecords : c = inv[i] /\ Base(c, attempt) /\ Progress(c, attempt)
      BY Current
<1>2. /\ c.pc = "reserve" /\ UNCHANGED <<run, attempt, lease, halt, aborted>>
      /\ \/ Move(i, Unready(c)) \/ Move(i, Goto(c, "insert")) \/ Move(i, Goto(c, "start"))
      /\ count' \in Bounds
      BY <1>1, RecordOf, AnsweredCount DEF Reserve
<1>3. /\ Legal(i, Unready(c), attempt)
      /\ Legal(i, Goto(c, "insert"), attempt) /\ Legal(i, Goto(c, "start"), attempt)
      BY <1>1, <1>2, UnreadyLegal, GotoLegal
<1> QED BY <1>2, <1>3, QuietStep

\* A stage goes on, or ends with a result, while its attempt has been started.
LEMMA WorkLegal ==
    ASSUME RuntimeInv, NEW i \in Invocations, NEW c \in InvRecords, Base(c, attempt),
           c.req = inv[i].req, c.proof = inv[i].proof, c.failed = inv[i].failed,
           c.pc \in {"work", "call"},
           Progress(c, attempt)
    PROVE  /\ \A pc \in {"work", "call"} : Legal(i, Goto(c, pc), attempt)
           /\ \A e \in Results : Legal(i, [c EXCEPT !.pc = "record", !.result = e], attempt)
<1>1. ASSUME NEW pc \in {"work", "call"} PROVE Legal(i, Goto(c, pc), attempt)
  <2>1. pc \in Pcs /\ pc \notin Early
        BY DEF Pcs, Early
  <2> DEFINE d == Goto(c, pc)
  <2>2. /\ d \in InvRecords /\ d.pc = pc /\ d.req = c.req /\ d.proof = c.proof /\ d.failed = c.failed
        /\ d.stage = c.stage
        BY <2>1, GotoFields
  <2> HIDE DEF d
  <2>3. Legal(i, d, attempt)
        BY <2>1, <2>2 DEF Legal, Base, Progress, Accounted
  <2> QED BY <2>3 DEF d
<1>2. ASSUME NEW e \in Results PROVE Legal(i, [c EXCEPT !.pc = "record", !.result = e], attempt)
  <2> DEFINE d == [c EXCEPT !.pc = "record", !.result = e]
  <2>1. /\ d \in InvRecords /\ d.pc = "record" /\ d.req = c.req /\ d.proof = c.proof /\ d.failed = c.failed
        /\ d.stage = c.stage
        BY DEF InvRecords, Pcs
  <2> HIDE DEF d
  <2>2. Legal(i, d, attempt)
        BY <2>1 DEF Legal, Base, Progress, Accounted, Early
  <2> QED BY <2>2 DEF d
<1> QED BY <1>1, <1>2

\* The guards around the calls of a stage.
LEMMA WorkStep ==
    ASSUME RuntimeInv, NEW i \in Invocations, Call(i) \/ Answer(i)
    PROVE  RuntimeInv'
<1>1. PICK b \in InvRecords : b = inv[i] /\ Base(b, attempt) /\ Progress(b, attempt)
      BY Current
<1>2. PICK readable \in BOOLEAN :
        LET c == Refreshed(i, b, TRUE, FALSE, readable)
        IN  /\ Answered(readable)
            /\ \/ \E pc \in {"work", "call"} : Move(i, Goto(c, pc))
               \/ \E e \in Ends(c) : Move(i, [c EXCEPT !.pc = "record", !.result = e])
      BY <1>1 DEF Call, Answer
<1>3. /\ b.pc \in {"work", "call"} /\ UNCHANGED <<run, attempt, lease, halt, aborted>>
      /\ count' \in Bounds
      BY <1>1, <1>2, RecordOf, AnsweredCount DEF Call, Answer
<1>4. PICK c : c = Refreshed(i, b, TRUE, FALSE, readable)
      OBVIOUS
<1>5. /\ c \in InvRecords /\ c.pc = b.pc /\ c.req = b.req /\ c.proof = b.proof
      /\ c.failed = b.failed /\ Base(c, attempt) /\ Progress(c, attempt)
      BY <1>1, <1>4, RefreshedKnows, ZenonT(60)
<1>6. \/ \E pc \in {"work", "call"} : Move(i, Goto(c, pc))
      \/ \E e \in Results : Move(i, [c EXCEPT !.pc = "record", !.result = e])
  <2>1. Ends(c) \subseteq Results
        BY DEF Ends, Results
  <2> QED BY <1>2, <1>4, <2>1
<1>7. /\ \A pc \in {"work", "call"} : Legal(i, Goto(c, pc), attempt)
      /\ \A e \in Results : Legal(i, [c EXCEPT !.pc = "record", !.result = e], attempt)
      BY <1>1, <1>3, <1>5, WorkLegal
<1>8. PICK d : Legal(i, d, attempt) /\ Move(i, d)
      BY <1>6, <1>7
<1> QED BY <1>3, <1>8, QuietStep

-----------------------------------------------------------------------------
(* Statements that write the run.                                          *)

\* The run of a request, as a row.
LEMMA RunRow ==
    ASSUME RuntimeInv, NEW r \in Requests
    PROVE  run[r] \in [state : RunStates, why : Whys]
BY DEF RuntimeInv, TypeOK

\* A run changed: it is completed only by an invocation that accounts for its
\* attempts.
LEMMA RunStep ==
    ASSUME RuntimeInv, NEW i \in Invocations, NEW d, Legal(i, d, attempt), Move(i, d),
           NEW r \in Requests, NEW row \in [state : RunStates, why : Whys],
           run' = [run EXCEPT ![r] = row],
           row.state = "completed" =>
              \/ run[r].state = "completed"
              \/ d.req = r /\ \A s \in Stages : Accounted(d, attempt[r][s]),
           UNCHANGED <<attempt, lease, halt, aborted>>, count' \in Bounds
    PROVE  RuntimeInv'
<1>1. Forwards /\ Legal(i, d, attempt')
      BY DEF Forwards
<1>2. /\ attempt' \in [Requests -> [Stages -> AttemptStates]]
      /\ run' \in [Requests -> [state : RunStates, why : Whys]]
      /\ halt' \in BOOLEAN /\ aborted' \subseteq Invocations
      BY DEF RuntimeInv, TypeOK
<1>3. CompletedIsAccounted'
  <2> SUFFICES ASSUME NEW q \in Requests, NEW s \in Stages, run'[q].state = "completed"
               PROVE  \/ attempt[q][s] \in TerminalAttempt
                      \/ attempt[q][s] = "running" /\ Reported(q)'
      BY DEF CompletedIsAccounted
  <2>1. CASE run[q].state = "completed"
    <3>1. attempt[q][s] \in TerminalAttempt \/ (attempt[q][s] = "running" /\ Reported(q))
          BY <2>1 DEF RuntimeInv, CompletedIsAccounted
    <3> QED BY <3>1, AccountKept
  <2>2. CASE run[q].state # "completed"
    <3>1. q = r /\ d.req = r /\ Accounted(d, attempt[r][s])
          BY <2>2 DEF RuntimeInv, TypeOK
    <3>2. inv'[i] = d
          BY DEF Move, RuntimeInv, TypeOK
    <3>3. "attempt" \in d.failed => Reported(r)'
          BY <3>1, <3>2 DEF Reported
    <3> QED BY <3>1, <3>3 DEF Accounted
  <2> QED BY <2>1, <2>2
<1> QED BY <1>1, <1>2, <1>3, MoveStep

\* The request and its run are made if they are missing.
LEMMA EnsureStep ==
    ASSUME RuntimeInv, NEW i \in Invocations, NEW r \in Requests, Ensure(i, r)
    PROVE  RuntimeInv'
<1>1. PICK c \in InvRecords : c = inv[i] /\ Base(c, attempt) /\ Progress(c, attempt)
      BY Current
<1>2. /\ c.pc = "idle" /\ c.proof = NoProof /\ c.failed = {}
      /\ UNCHANGED <<attempt, lease, halt, aborted>>
      BY <1>1 DEF Ensure, Base, Early
<1>3. Holds(i) => FALSE
      BY <1>1, <1>2, NothingHeld
<1>4. CASE i \in aborted
  <2> DEFINE d == [Idle EXCEPT !.pc = "done", !.req = r]
  <2>1. Move(i, d) /\ UNCHANGED <<run, count>>
        BY <1>4 DEF Ensure
  <2>2. /\ d \in InvRecords /\ d.pc = "done" /\ d.req = r /\ d.proof = NoProof
        /\ d.stage = "listing_page" /\ d.failed = {}
        BY IdleFields DEF InvRecords, Pcs
  <2> HIDE DEF d
  <2>3. Legal(i, d, attempt)
        BY <1>1, <1>2, <1>3, <2>2 DEF Legal, Base, Progress, Accounted
  <2> QED BY <1>2, <2>1, <2>3, QuietStep, RecordOf
<1>5. CASE i \notin aborted
  <2>1. PICK ok \in BOOLEAN, made \in BOOLEAN :
          /\ Performed(ok, made)
          /\ run' = [run EXCEPT ![r].state = IF made /\ @ = "none" THEN "planned" ELSE @]
          /\ Move(i, [Idle EXCEPT !.pc = IF ok THEN "ensured" ELSE "done", !.req = r,
                                  !.copy = run'[r].state])
        BY <1>5 DEF Ensure
  <2>2. PICK copy : copy = IF made /\ run[r].state = "none" THEN "planned" ELSE run[r].state
        OBVIOUS
  <2>3. PICK row : row = [run[r] EXCEPT !.state = copy]
        OBVIOUS
  <2>4. /\ copy \in RunStates /\ row \in [state : RunStates, why : Whys] /\ row.state = copy
        /\ row.state = "completed" => run[r].state = "completed"
        BY <2>2, <2>3, RunRow DEF RunStates
  <2>5. run' = [run EXCEPT ![r] = row] /\ run'[r].state = copy
    <3>1. run' = [run EXCEPT ![r] = row]
          BY <2>1, <2>2, <2>3
    <3> QED BY <2>4, <3>1 DEF RuntimeInv, TypeOK
  <2>6. PICK pc : pc = IF ok THEN "ensured" ELSE "done"
        OBVIOUS
  <2> DEFINE d == [Idle EXCEPT !.pc = pc, !.req = r, !.copy = copy]
  <2>7. Move(i, d)
        BY <2>1, <2>5, <2>6
  <2>8. /\ d \in InvRecords /\ d.pc \in {"ensured", "done"} /\ d.req = r /\ d.proof = NoProof
        /\ d.stage = "listing_page" /\ d.failed = {}
        BY <2>4, <2>6, IdleFields DEF InvRecords, Pcs
  <2> HIDE DEF d
  <2>9. Legal(i, d, attempt)
        BY <1>1, <1>2, <1>3, <2>8 DEF Legal, Base, Progress, Accounted
  <2>10. count' \in Bounds
        BY <2>1, RecordOf, AnsweredCount DEF Performed
  <2> QED BY <1>2, <2>4, <2>5, <2>7, <2>9, <2>10, RunStep
<1> QED BY <1>4, <1>5

\* The run begins to wait for the lease.
LEMMA WaitStep ==
    ASSUME RuntimeInv, NEW i \in Invocations, WaitForLease(i)
    PROVE  RuntimeInv'
<1>1. PICK c \in InvRecords : c = inv[i] /\ Base(c, attempt) /\ Progress(c, attempt)
      BY Current
<1> DEFINE written == Written(c.req, "planned", "waiting_for_lease", Plain)
           applied == AlreadyApplied(c.req, "planned", "waiting_for_lease", Plain)
<1>0. PICK ok \in BOOLEAN, made \in BOOLEAN :
        /\ Performed(ok, made)
        /\ run' = [run EXCEPT ![c.req].state =
                      IF made /\ written THEN "waiting_for_lease" ELSE @]
        /\ Move(i, IF ok /\ (written \/ applied)
                   THEN [c EXCEPT !.pc = "acquire", !.copy = "waiting_for_lease"]
                   ELSE Goto(c, "done"))
      BY <1>1 DEF WaitForLease
<1>2. /\ c.pc = "wait" /\ UNCHANGED <<attempt, lease, halt, aborted>> /\ count' \in Bounds
      BY <1>0, <1>1, RecordOf, AnsweredCount DEF WaitForLease, Performed
<1>3. c.proof = NoProof /\ c.pc \in Early \ {"idle"} /\ c.req \in Requests
      BY <1>1, <1>2 DEF Base, Early
<1> HIDE DEF written, applied
<1>4. PICK state : state = IF made /\ written THEN "waiting_for_lease" ELSE run[c.req].state
      OBVIOUS
<1>5. PICK row : row = [run[c.req] EXCEPT !.state = state]
      OBVIOUS
<1>6. /\ row \in [state : RunStates, why : Whys] /\ row.state = state
      /\ row.state = "completed" => run[c.req].state = "completed"
      BY <1>3, <1>4, <1>5, RunRow DEF RunStates
<1>7. run' = [run EXCEPT ![c.req] = row]
      BY <1>0, <1>4, <1>5
<1>8. PICK d : Legal(i, d, attempt) /\ Move(i, d)
  <2>1. CASE ok /\ (written \/ applied)
    <3> DEFINE d == [c EXCEPT !.pc = "acquire", !.copy = "waiting_for_lease"]
    <3>1. /\ d \in InvRecords /\ d.pc = "acquire" /\ d.req = c.req /\ d.proof = c.proof /\ d.failed = c.failed
          /\ d.stage = c.stage
          BY DEF InvRecords, Pcs, RunStates
    <3>2. Move(i, d)
          BY <1>0, <2>1
    <3> HIDE DEF d
    <3>3. Legal(i, d, attempt)
          BY <1>1, <1>3, <3>1, EarlyLegal
    <3> QED BY <3>2, <3>3
  <2>2. CASE ~(ok /\ (written \/ applied))
    <3>1. Legal(i, Goto(c, "done"), attempt)
          BY <1>1, <1>2, <1>3, DoneLegal
    <3> QED BY <1>0, <2>2, <3>1
  <2> QED BY <2>1, <2>2
<1> QED BY <1>2, <1>3, <1>6, <1>7, <1>8, RunStep

\* The second statement of a transition; the run is completed only by an
\* invocation that saw both attempts settled.
LEMMA SettleStep ==
    ASSUME RuntimeInv, NEW i \in Invocations, Settle(i)
    PROVE  RuntimeInv'
<1>1. PICK c \in InvRecords : c = inv[i] /\ Base(c, attempt) /\ Progress(c, attempt)
      BY Current
<1> DEFINE written == Written(c.req, c.copy, c.goal, c.why)
           applied == AlreadyApplied(c.req, c.copy, c.goal, c.why)
<1>0. PICK answered \in BOOLEAN, made \in BOOLEAN :
        /\ Performed(answered, made)
        /\ run' = [run EXCEPT ![c.req] =
                      IF made /\ written THEN [state |-> c.goal, why |-> c.why] ELSE @]
        /\ Move(i, Settled(i, c, answered /\ (written \/ applied)))
      BY <1>1 DEF Settle
<1>2. /\ c.pc = "settle" /\ UNCHANGED <<attempt, lease, halt, aborted>> /\ count' \in Bounds
      BY <1>0, <1>1, RecordOf, AnsweredCount DEF Settle, Performed
<1> HIDE DEF written, applied
<1>3. c.req \in Requests /\ c.goal \in RunStates /\ c.why \in Whys
      BY <1>1, <1>2 DEF Base, InvRecords
<1>4. PICK row : row = IF made /\ written THEN [state |-> c.goal, why |-> c.why] ELSE run[c.req]
      OBVIOUS
<1>5. /\ row \in [state : RunStates, why : Whys]
      /\ row.state = "completed" =>
            run[c.req].state = "completed" \/ \A s \in Stages : Accounted(c, attempt[c.req][s])
  <2>1. CASE made /\ written
    <3>1. row = [state |-> c.goal, why |-> c.why]
          BY <1>4, <2>1
    <3> QED BY <1>1, <1>2, <1>3, <3>1 DEF Progress
  <2>2. CASE ~(made /\ written)
    <3>1. row = run[c.req]
          BY <1>4, <2>2
    <3> QED BY <1>3, <3>1, RunRow
  <2> QED BY <2>1, <2>2
<1>6. run' = [run EXCEPT ![c.req] = row]
      BY <1>0, <1>4
<1>7. PICK e : /\ Legal(i, e, attempt) /\ Move(i, e)
              /\ e.req = c.req /\ e.failed = c.failed
  <2>1. PICK ok : ok = (answered /\ (written \/ applied))
        OBVIOUS
  <2>2. PICK d : d = IF ok THEN [c EXCEPT !.copy = c.goal] ELSE c
        OBVIOUS
  <2>3. /\ d \in InvRecords /\ d.pc = c.pc /\ d.req = c.req /\ d.proof = c.proof /\ d.failed = c.failed
        /\ d.stage = c.stage /\ d.goal = c.goal
        BY <1>3, <2>2 DEF InvRecords
  <2>4. d.pc = "settle" /\ d.req = inv[i].req /\ d.proof = inv[i].proof /\ d.failed = inv[i].failed
        /\ Base(d, attempt) /\ Progress(d, attempt)
        BY <1>1, <1>2, <2>3 DEF Base, Progress, Accounted
  <2>5. Legal(i, Goto(d, "guard"), attempt) /\ Legal(i, Goto(d, "release"), attempt)
        BY <2>3, <2>4, GotoLegal
  <2>6. ~HasProof(i) => Legal(i, Goto(d, "done"), attempt)
        BY <1>1, <2>3, <2>4, DoneLegal DEF HasProof
  <2>7. \/ Settled(i, c, ok) = Goto(d, "guard")
        \/ Settled(i, c, ok) = Goto(d, "release")
        \/ ~HasProof(i) /\ Settled(i, c, ok) = Goto(d, "done")
        BY <2>2 DEF Settled
  <2>8. \A pc \in {"guard", "release", "done"} :
           Goto(d, pc).req = c.req /\ Goto(d, pc).failed = c.failed
        BY <2>3, GotoFields DEF Pcs
  <2> QED BY <1>0, <2>1, <2>5, <2>6, <2>7, <2>8
<1>8. row.state = "completed" =>
        run[c.req].state = "completed"
          \/ (e.req = c.req /\ \A s \in Stages : Accounted(e, attempt[c.req][s]))
      BY <1>5, <1>7 DEF Accounted
<1> QED BY <1>2, <1>3, <1>5, <1>6, <1>7, <1>8, RunStep

-----------------------------------------------------------------------------
(* Statements that write an attempt.                                       *)

\* One attempt moves forward.
LEMMA AttemptMoves ==
    ASSUME RuntimeInv, NEW r \in Requests, NEW s \in Stages, NEW v \in AttemptStates,
           attempt' = [attempt EXCEPT ![r][s] = v],
           attempt[r][s] \in TerminalAttempt => v = attempt[r][s],
           attempt[r][s] = "running" => v \in {"running"} \cup TerminalAttempt
    PROVE  /\ Forwards /\ attempt' \in [Requests -> [Stages -> AttemptStates]]
           /\ attempt'[r][s] = v
<1>1. attempt \in [Requests -> [Stages -> AttemptStates]]
      BY DEF RuntimeInv, TypeOK
<1>2. /\ attempt' \in [Requests -> [Stages -> AttemptStates]]
      /\ \A q \in Requests, t \in Stages :
            attempt'[q][t] = IF q = r /\ t = s THEN v ELSE attempt[q][t]
      BY <1>1
<1>3. Forwards
      BY <1>2 DEF Forwards
<1> QED BY <1>2, <1>3

\* What was legal before an attempt moved still is.
LEMMA LegalKept ==
    ASSUME NEW i \in Invocations, NEW d, Legal(i, d, attempt), Forwards
    PROVE  Legal(i, d, attempt')
BY KnowledgeKept DEF Legal

\* The invariant after an attempt moved.
LEMMA AttemptStep ==
    ASSUME RuntimeInv, NEW i \in Invocations, NEW d, Legal(i, d, attempt'), Move(i, d),
           Forwards, attempt' \in [Requests -> [Stages -> AttemptStates]],
           UNCHANGED <<run, lease, halt, aborted>>, count' \in Bounds
    PROVE  RuntimeInv'
<1>1. /\ run' \in [Requests -> [state : RunStates, why : Whys]]
      /\ halt' \in BOOLEAN /\ aborted' \subseteq Invocations
      BY DEF RuntimeInv, TypeOK
<1>2. CompletedIsAccounted'
      BY AccountKept
<1> QED BY <1>1, <1>2, MoveStep

\* The attempt of a stage is inserted, by one of those that found none.
LEMMA InsertStep ==
    ASSUME RuntimeInv, NEW i \in Invocations, Insert(i)
    PROVE  RuntimeInv'
<1>1. PICK c \in InvRecords : c = inv[i] /\ Base(c, attempt) /\ Progress(c, attempt)
      BY Current
<1> DEFINE free == attempt[c.req][c.stage] = "absent"
<1>0. PICK ok \in BOOLEAN, made \in BOOLEAN :
        /\ Performed(ok, made)
        /\ attempt' = [attempt EXCEPT ![c.req][c.stage] = IF made /\ free THEN "planned" ELSE @]
        /\ Move(i, Goto(c, "start")) \/ Move(i, Unready(c))
      BY <1>1 DEF Insert
<1>2. /\ c.pc = "insert" /\ UNCHANGED <<run, lease, halt, aborted>> /\ count' \in Bounds
      BY <1>0, <1>1, RecordOf, AnsweredCount DEF Insert, Performed
<1>3. c.req \in Requests /\ c.stage \in Stages
      BY <1>1, <1>2 DEF Base, InvRecords
<1>4. PICK v : v = IF made /\ free THEN "planned" ELSE attempt[c.req][c.stage]
      OBVIOUS
<1>5. /\ v \in AttemptStates
      /\ attempt[c.req][c.stage] \in TerminalAttempt => v = attempt[c.req][c.stage]
      /\ attempt[c.req][c.stage] = "running" => v \in {"running"} \cup TerminalAttempt
      BY <1>3, <1>4 DEF RuntimeInv, TypeOK, AttemptStates, TerminalAttempt
<1>6. attempt' = [attempt EXCEPT ![c.req][c.stage] = v]
      BY <1>0, <1>4
<1>7. Forwards /\ attempt' \in [Requests -> [Stages -> AttemptStates]]
  <2>1. PICK r \in Requests, s \in Stages : r = c.req /\ s = c.stage
        BY <1>3
  <2>2. /\ attempt' = [attempt EXCEPT ![r][s] = v]
        /\ attempt[r][s] \in TerminalAttempt => v = attempt[r][s]
        /\ attempt[r][s] = "running" => v \in {"running"} \cup TerminalAttempt
        BY <1>5, <1>6, <2>1
  <2> QED BY <1>5, <2>2, AttemptMoves
<1>8. Legal(i, Unready(c), attempt) /\ Legal(i, Goto(c, "start"), attempt)
      BY <1>1, <1>2, UnreadyLegal, GotoLegal
<1>9. PICK d : Legal(i, d, attempt) /\ Move(i, d)
      BY <1>0, <1>8
<1> QED BY <1>2, <1>7, <1>9, LegalKept, AttemptStep

\* The attempt is started; the stage works only when it is running or over.
LEMMA StartStep ==
    ASSUME RuntimeInv, NEW i \in Invocations, StartAttempt(i)
    PROVE  RuntimeInv'
<1>1. PICK c \in InvRecords : c = inv[i] /\ Base(c, attempt) /\ Progress(c, attempt)
      BY Current
<1> DEFINE open == run[c.req].state \notin TerminalRun
           found == attempt[c.req][c.stage]
<1>0. PICK ok \in BOOLEAN, made \in BOOLEAN :
        /\ Performed(ok, made)
        /\ attempt' = [attempt EXCEPT ![c.req][c.stage] =
                          IF made /\ open /\ @ = "planned" THEN "running" ELSE @]
        /\ Move(i, IF ok /\ open /\ found \in {"planned", "running"}
                   THEN Goto(c, "work") ELSE Unready(c))
      BY <1>1 DEF StartAttempt
<1>2. /\ c.pc = "start" /\ UNCHANGED <<run, lease, halt, aborted>> /\ count' \in Bounds
      /\ ok => made
      BY <1>0, <1>1, RecordOf, AnsweredCount DEF StartAttempt, Performed
<1>3. c.req \in Requests /\ c.stage \in Stages
      BY <1>1, <1>2 DEF Base, InvRecords
<1>4. PICK v : v = IF made /\ open /\ found = "planned" THEN "running" ELSE found
      OBVIOUS
<1>5. /\ v \in AttemptStates
      /\ found \in TerminalAttempt => v = found
      /\ found = "running" => v \in {"running"} \cup TerminalAttempt
      BY <1>3, <1>4 DEF RuntimeInv, TypeOK, AttemptStates, TerminalAttempt
<1>6. attempt' = [attempt EXCEPT ![c.req][c.stage] = v]
      BY <1>0, <1>4
<1>7. /\ Forwards /\ attempt' \in [Requests -> [Stages -> AttemptStates]]
      /\ attempt'[c.req][c.stage] = v
  <2>1. PICK r \in Requests, s \in Stages : r = c.req /\ s = c.stage
        BY <1>3
  <2>2. /\ attempt' = [attempt EXCEPT ![r][s] = v]
        /\ attempt[r][s] \in TerminalAttempt => v = attempt[r][s]
        /\ attempt[r][s] = "running" => v \in {"running"} \cup TerminalAttempt
        BY <1>5, <1>6, <2>1
  <2>3. /\ Forwards /\ attempt' \in [Requests -> [Stages -> AttemptStates]]
        /\ attempt'[r][s] = v
        BY <1>5, <2>2, AttemptMoves
  <2> QED BY <2>1, <2>3
<1>8. CASE ok /\ open /\ found \in {"planned", "running"}
  <2>1. v = "running"
        BY <1>2, <1>4, <1>8
  <2> DEFINE d == Goto(c, "work")
  <2>2. "work" \in Pcs /\ "work" \notin Early
        BY DEF Pcs, Early
  <2>3. /\ d \in InvRecords /\ d.pc = "work" /\ d.req = c.req /\ d.proof = c.proof /\ d.failed = c.failed
        /\ d.stage = c.stage
        BY <2>2, GotoFields
  <2>4. Move(i, d)
        BY <1>0, <1>8
  <2> HIDE DEF d
  <2>5. Base(c, attempt')
        BY <1>1, <1>7, KnowledgeKept
  <2>6. Legal(i, d, attempt')
        BY <1>1, <1>2, <1>7, <2>1, <2>2, <2>3, <2>5 DEF Legal, Base, Progress, Accounted
  <2> QED BY <1>2, <1>7, <2>4, <2>6, AttemptStep
<1>9. CASE ~(ok /\ open /\ found \in {"planned", "running"})
  <2>1. Move(i, Unready(c))
        BY <1>0, <1>9
  <2>2. Legal(i, Unready(c), attempt)
        BY <1>1, <1>2, UnreadyLegal
  <2> QED BY <1>2, <1>7, <2>1, <2>2, LegalKept, AttemptStep
<1> QED BY <1>8, <1>9

\* The attempt is settled by the first who records it; a result worth accepting
\* leaves it running only where the write failed, and that is noted.
LEMMA RecordStep ==
    ASSUME RuntimeInv, NEW i \in Invocations, Record(i)
    PROVE  RuntimeInv'
<1>1. PICK b \in InvRecords : b = inv[i] /\ Base(b, attempt) /\ Progress(b, attempt)
      BY Current
<1>2. PICK c : c = [b EXCEPT !.cancelled = b.cancelled \/ i \in aborted]
      OBVIOUS
<1>3. /\ c \in InvRecords /\ c.pc = b.pc /\ c.req = b.req /\ c.proof = b.proof
      /\ c.stage = b.stage /\ c.result = b.result /\ c.failed = b.failed
  <2>1. PICK f : f = (b.cancelled \/ i \in aborted)
        OBVIOUS
  <2>2. f \in BOOLEAN
        BY <2>1
  <2> QED BY <1>2, <2>1, <2>2 DEF InvRecords
<1> DEFINE found == attempt[c.req][c.stage]
           told(ok) == ok /\ TerminalOf(c) # "running" /\ found \in {"running", TerminalOf(c)}
<1>0. recordTerminal(i, c)
      BY <1>1, <1>2 DEF Record
<1>4. PICK ok \in BOOLEAN, made \in BOOLEAN :
        /\ Performed(ok, made)
        /\ attempt' = [attempt EXCEPT ![c.req][c.stage] =
                          IF made /\ found = "running" THEN TerminalOf(c) ELSE @]
        /\ Move(i, Recorded(c, told(ok)))
      BY <1>0 DEF recordTerminal
<1>5. /\ c.pc = "record" /\ UNCHANGED <<run, lease, halt, aborted>> /\ count' \in Bounds
      /\ ok => made
      BY <1>1, <1>3, <1>4, RecordOf, AnsweredCount DEF Record, Performed
<1>6. /\ c.req \in Requests /\ c.stage \in Stages
      /\ found \in {"running"} \cup TerminalAttempt
      BY <1>1, <1>3, <1>5 DEF Base, Progress, InvRecords
<1>7. /\ TerminalOf(c) \in {"running"} \cup TerminalAttempt
      BY DEF TerminalOf, TerminalAttempt
<1>8. PICK v : v = IF made /\ found = "running" THEN TerminalOf(c) ELSE found
      OBVIOUS
<1>9. /\ v \in {"running"} \cup TerminalAttempt
      /\ found \in TerminalAttempt => v = found
      /\ told(ok) => v \in TerminalAttempt
      BY <1>5, <1>6, <1>7, <1>8 DEF TerminalAttempt
<1>10. v \in AttemptStates
      BY <1>9 DEF TerminalAttempt, AttemptStates
<1>11. /\ Forwards /\ attempt' \in [Requests -> [Stages -> AttemptStates]]
       /\ attempt'[c.req][c.stage] = v
  <2>1. PICK r \in Requests, s \in Stages : r = c.req /\ s = c.stage
        BY <1>6
  <2>2. attempt' = [attempt EXCEPT ![c.req][c.stage] = v]
        BY <1>4, <1>8
  <2>3. /\ attempt' = [attempt EXCEPT ![r][s] = v]
        /\ attempt[r][s] \in TerminalAttempt => v = attempt[r][s]
        /\ attempt[r][s] = "running" => v \in {"running"} \cup TerminalAttempt
        BY <1>9, <2>1, <2>2
  <2>4. /\ Forwards /\ attempt' \in [Requests -> [Stages -> AttemptStates]]
        /\ attempt'[r][s] = v
        BY <1>10, <2>3, AttemptMoves
  <2> QED BY <2>1, <2>4
<1>12. Base(b, attempt')
      BY <1>1, <1>11, KnowledgeKept
<1>13. PICK e : e = IF told(ok) THEN c ELSE Reporting(c, "attempt")
      OBVIOUS
<1>14. /\ e \in InvRecords /\ e.req = c.req /\ e.proof = c.proof /\ e.stage = c.stage
       /\ e.result = c.result /\ c.failed \subseteq e.failed
       /\ told(ok) \/ "attempt" \in e.failed
  <2>1. PICK call \in Calls : call = "attempt"
        BY DEF Calls
  <2>2. LET d == Reporting(c, "attempt")
        IN  /\ d \in InvRecords /\ d.req = c.req /\ d.proof = c.proof /\ d.stage = c.stage
            /\ d.result = c.result /\ d.failed = c.failed \cup {"attempt"}
        BY <1>3, <2>1, ReportingFields
  <2>3. CASE told(ok)
        BY <1>3, <1>13, <2>3
  <2>4. CASE ~told(ok)
    <3>1. e = Reporting(c, "attempt")
          BY <1>13, <2>4
    <3> QED BY <2>2, <3>1
  <2> QED BY <2>3, <2>4
<1>15. Accounted(e, v)
      BY <1>9, <1>14 DEF Accounted
<1>16. PICK d : d = Goto(e, "judge")
      OBVIOUS
<1>17. "judge" \in Pcs /\ "judge" \notin Early
      BY DEF Pcs, Early
<1>18. /\ d \in InvRecords /\ d.pc = "judge" /\ d.req = e.req /\ d.proof = e.proof
       /\ d.stage = e.stage /\ d.result = e.result /\ d.failed = e.failed
      BY <1>14, <1>16, <1>17, GotoFields
<1>19. Move(i, d)
      BY <1>4, <1>13, <1>16 DEF Recorded
<1> HIDE DEF told, found
<1>20. Base(d, attempt') /\ Progress(d, attempt')
      BY <1>3, <1>5, <1>11, <1>12, <1>14, <1>15, <1>17, <1>18 DEF Base, Progress, Accounted
<1>21. Legal(i, d, attempt')
      BY <1>1, <1>3, <1>14, <1>18, <1>20 DEF Legal
<1> QED BY <1>5, <1>11, <1>19, <1>21, AttemptStep

-----------------------------------------------------------------------------
(* The lease and the environment.                                          *)

\* A grant: the new token is greater than any proof's.  The invocation has the
\* proof of it, or returns without having been told.
LEMMA GrantStep ==
    ASSUME RuntimeInv, NEW i \in Invocations, NEW d \in InvRecords, Move(i, d),
           inv[i].proof = NoProof, inv[i].req \in Requests, d.req = inv[i].req,
           inv[i].failed \subseteq d.failed,
           lease' = acquired(lease, inv[i].req, i),
           \/ d.proof = ProofOf(lease') /\ d.pc # "done"
           \/ d.proof = NoProof /\ "acquire" \in d.failed,
           Base(d, attempt), Progress(d, attempt),
           UNCHANGED <<run, attempt, halt, aborted>>, count' \in Bounds
    PROVE  RuntimeInv'
<1>1. PICK row : row = lease'
      OBVIOUS
<1>2. /\ row \in [state : LeaseStates, run : Requests \cup {NoRequest},
                  holder : Invocations \cup {NoHolder}, rev : Nat, fence : Nat, live : BOOLEAN]
      /\ row.state = "held" /\ row.holder = i /\ row.fence = lease.fence + 1
      /\ row.run = inv[i].req /\ lease.fence \in Nat /\ row.fence \in Nat
      BY <1>1 DEF acquired, RuntimeInv, TypeOK, LeaseStates
<1>3. /\ inv \in [Invocations -> InvRecords]
      /\ inv' \in [Invocations -> InvRecords]
      /\ inv'[i] = d /\ \A j \in Invocations \ {i} : inv'[j] = inv[j]
      BY DEF Move, RuntimeInv, TypeOK, InvRecords
<1>4. \A j \in Invocations : Base(inv'[j], attempt') /\ Progress(inv'[j], attempt')
      BY <1>3 DEF RuntimeInv
<1>5. TypeOK'
  <2>1. (\A j \in Invocations :
            inv[j].pc \in {"idle", "ensured", "wait", "acquire", "take"} => ~HasProof(j))'
        BY <1>4 DEF Early, HasProof, Base
  <2> QED BY <1>1, <1>2, <1>3, <2>1 DEF RuntimeInv, TypeOK, InvRecords, Bounds
<1>6. \A j \in Invocations \ {i} :
        /\ inv[j].proof.fence \in Nat /\ inv[j].proof.fence <= lease.fence
        /\ inv'[j] = inv[j] /\ Fenced(j)
        /\ HasProof(j)' <=> HasProof(j)
      BY <1>3 DEF RuntimeInv, Fenced, InvRecords, Proofs, HasProof
<1>7. \/ d.proof.fence = row.fence /\ HasProof(i)' /\ d.proof = ProofOf(row) /\ d.pc # "done"
      \/ d.proof.fence = 0 /\ ~HasProof(i)' /\ "acquire" \in d.failed
  <2>1. CASE d.proof = ProofOf(row) /\ d.pc # "done"
        BY <1>2, <1>3, <2>1 DEF ProofOf, HasProof, NoProof
  <2>2. CASE d.proof = NoProof /\ "acquire" \in d.failed
        BY <1>3, <2>2 DEF HasProof, NoProof
  <2> QED BY <1>1, <2>1, <2>2
<1>8. Fenced(i)'
  <2>1. (inv[i].proof.fence <= lease.fence)' /\ (HasProof(i) => inv[i].proof.fence # 0)'
        BY <1>1, <1>2, <1>3, <1>7
  <2>2. /\ (lease.state = "held" /\ lease.holder = i =>
               \/ "acquire" \in inv[i].failed
               \/ inv[i].proof = ProofOf(lease) /\ inv[i].req = lease.run)'
        /\ (inv[i].pc = "done" /\ Holds(i) => Excused(inv[i]))'
        BY <1>1, <1>2, <1>3, <1>7 DEF Excused
  <2>3. \A j \in Invocations : (i # j /\ HasProof(i) => inv[i].proof.fence # inv[j].proof.fence)'
        BY <1>2, <1>3, <1>6, <1>7
  <2> QED BY <2>1, <2>2, <2>3 DEF Fenced
<1>9. ASSUME NEW j \in Invocations \ {i} PROVE Fenced(j)'
  <2>1. /\ (inv[j].proof.fence <= lease.fence)' /\ ~Holds(j)' /\ lease'.holder # j
        /\ (HasProof(j) => inv[j].proof.fence # 0)'
        BY <1>1, <1>2, <1>6 DEF Fenced, Holds
  <2>2. \A k \in Invocations : (j # k /\ HasProof(j) => inv[j].proof.fence # inv[k].proof.fence)'
    <3>1. CASE HasProof(j)
      <4>1. inv[j].proof.fence # d.proof.fence
            BY <1>2, <1>6, <1>7, <3>1 DEF Fenced
      <4> QED BY <1>3, <1>6, <4>1 DEF Fenced
    <3>2. CASE ~HasProof(j)
          BY <1>6, <3>2
    <3> QED BY <3>1, <3>2
  <2> QED BY <2>1, <2>2 DEF Fenced
<1>10. (lease.state = "held" => lease.fence # 0)'
      BY <1>1, <1>2
<1>11. CompletedIsAccounted'
  <2>1. \A r \in Requests : Reported(r) => Reported(r)'
        BY <1>3 DEF Reported
  <2> QED BY <2>1 DEF RuntimeInv, CompletedIsAccounted
<1> QED BY <1>4, <1>5, <1>8, <1>9, <1>10, <1>11 DEF RuntimeInv

\* The second half of the acquisition.
LEMMA TakeStep ==
    ASSUME RuntimeInv, NEW i \in Invocations, Take(i)
    PROVE  RuntimeInv'
<1>1. PICK c \in InvRecords : c = inv[i] /\ Base(c, attempt) /\ Progress(c, attempt)
      BY Current
<1> DEFINE won == Grantable(lease, c.seen)
           lost == Goto(Reporting(c, "acquire"), "done")
<1>2. PICK ok \in BOOLEAN, made \in BOOLEAN :
        /\ Performed(ok, made)
        /\ lease' = IF made /\ won THEN acquired(lease, c.req, i) ELSE lease
        /\ Move(i, IF ~ok THEN lost
                   ELSE IF won THEN [c EXCEPT !.pc = "entered", !.proof = ProofOf(lease')]
                   ELSE Goto(c, "done"))
      BY <1>1 DEF Take
<1>3. /\ c.pc = "take" /\ UNCHANGED <<run, attempt, halt, aborted>> /\ count' \in Bounds
      /\ ok => made
      BY <1>1, <1>2, RecordOf, AnsweredCount DEF Take, Performed
<1>4. c.proof = NoProof /\ c.pc \in Early \ {"idle"} /\ c.req \in Requests
      BY <1>1, <1>3 DEF Base, Early
<1> HIDE DEF won
<1>5. /\ lost \in InvRecords /\ lost.proof = NoProof /\ lost.req = c.req
      /\ "acquire" \in lost.failed /\ c.failed \subseteq lost.failed
      /\ Legal(i, lost, attempt)
      BY <1>1, <1>4, AcquireFailedLegal
<1>6. CASE ~(made /\ won)
  <2>1. Legal(i, Goto(c, "done"), attempt)
        BY <1>1, <1>3, <1>4, DoneLegal
  <2>2. PICK d : Legal(i, d, attempt) /\ Move(i, d)
        BY <1>2, <1>3, <1>5, <1>6, <2>1
  <2>3. lease' = lease
        BY <1>2, <1>6
  <2> QED BY <1>3, <2>2, <2>3, QuietStep
<1>7. CASE made /\ won /\ ~ok
  <2>1. PICK d : d = lost
        OBVIOUS
  <2>2. Move(i, d) /\ lease' = acquired(lease, inv[i].req, i)
        BY <1>1, <1>2, <1>7, <2>1
  <2>3. Base(d, attempt) /\ Progress(d, attempt)
        BY <1>5, <2>1 DEF Legal
  <2> QED BY <1>1, <1>3, <1>4, <1>5, <2>1, <2>2, <2>3, GrantStep
<1>8. CASE made /\ won /\ ok
  <2>1. lease' = acquired(lease, inv[i].req, i)
        BY <1>1, <1>2, <1>8
  <2>2. PICK proof : proof = ProofOf(lease')
        OBVIOUS
  <2>3. proof \in Proofs
        BY <1>1, <2>1, <2>2 DEF acquired, ProofOf, Proofs, RuntimeInv, TypeOK
  <2>4. PICK d : d = [c EXCEPT !.pc = "entered", !.proof = proof]
        OBVIOUS
  <2>5. /\ d \in InvRecords /\ d.pc = "entered" /\ d.req = c.req /\ d.stage = c.stage
        /\ d.proof = proof /\ d.failed = c.failed
        BY <2>3, <2>4 DEF InvRecords, Pcs
  <2>6. Base(d, attempt) /\ Progress(d, attempt)
        BY <1>1, <1>4, <2>5 DEF Base, Progress, Early, Accounted
  <2>7. proof # NoProof
        BY <1>1, <2>1, <2>2 DEF acquired, ProofOf, NoProof, RuntimeInv, TypeOK
  <2>8. Move(i, d)
        BY <1>2, <1>8, <2>2, <2>4
  <2> QED BY <1>1, <1>3, <1>4, <2>1, <2>2, <2>5, <2>6, <2>7, <2>8, GrantStep
<1> QED BY <1>6, <1>7, <1>8

\* A change of the row that ends every ownership.
LEMMA LeaseEnds ==
    ASSUME RuntimeInv, NEW i \in Invocations, NEW d \in InvRecords, d.proof = inv[i].proof,
           d.req = inv[i].req, inv[i].failed \subseteq d.failed, Base(d, attempt), Progress(d, attempt), Move(i, d),
           lease' \in [state : LeaseStates, run : Requests \cup {NoRequest},
                       holder : Invocations \cup {NoHolder}, rev : Nat, fence : Nat, live : BOOLEAN],
           lease'.fence > lease.fence, lease'.state # "held",
           UNCHANGED <<run, attempt, halt, aborted>>, count' \in Bounds
    PROVE  RuntimeInv'
<1>1. /\ inv \in [Invocations -> InvRecords] /\ inv' \in [Invocations -> InvRecords]
      /\ inv'[i] = d /\ \A j \in Invocations \ {i} : inv'[j] = inv[j]
      /\ lease.fence \in Nat /\ lease'.fence \in Nat
      BY DEF Move, RuntimeInv, TypeOK, InvRecords
<1>2. \A j \in Invocations : Base(inv'[j], attempt') /\ Progress(inv'[j], attempt')
      BY <1>1 DEF RuntimeInv
<1>3. TypeOK'
  <2>1. (\A j \in Invocations :
            inv[j].pc \in {"idle", "ensured", "wait", "acquire", "take"} => ~HasProof(j))'
        BY <1>2 DEF Early, HasProof, Base
  <2> QED BY <1>1, <2>1 DEF RuntimeInv, TypeOK, InvRecords, Bounds
<1>4. \A j \in Invocations :
        /\ inv'[j].proof = inv[j].proof /\ (HasProof(j)' <=> HasProof(j))
        /\ inv[j].proof.fence \in Nat /\ ~Holds(j)' /\ Fenced(j)
      BY <1>1 DEF HasProof, InvRecords, Proofs, Holds, RuntimeInv
<1>5. \A j \in Invocations : Fenced(j)'
      BY <1>1, <1>4 DEF Fenced
<1>6. CompletedIsAccounted'
  <2>1. \A r \in Requests : Reported(r) => Reported(r)'
        BY <1>1 DEF Reported
  <2> QED BY <2>1 DEF RuntimeInv, CompletedIsAccounted
<1> QED BY <1>2, <1>3, <1>5, <1>6 DEF RuntimeInv

\* The owner of the lease gives it up, or returns with it and says so; whoever
\* is not the owner changes nothing.
LEMMA ReleaseStep ==
    ASSUME RuntimeInv, NEW i \in Invocations, Release(i)
    PROVE  RuntimeInv'
<1>1. PICK c \in InvRecords : c = inv[i] /\ Base(c, attempt) /\ Progress(c, attempt)
      BY Current
<1> DEFINE owner == ~c.lost /\ Releasable(lease, c.proof, c.req, i)
<1>2. PICK ok \in BOOLEAN, made \in BOOLEAN :
        /\ Performed(ok, made)
        /\ lease' = IF made /\ owner THEN released(lease) ELSE lease
        /\ Move(i, Goto(IF ok THEN c ELSE Reporting(c, "release"), "done"))
      BY <1>1 DEF Release
<1>3. /\ c.pc = "release" /\ UNCHANGED <<run, attempt, halt, aborted>> /\ count' \in Bounds
      /\ ok => made
      BY <1>1, <1>2, RecordOf, AnsweredCount DEF Release, Performed
<1> HIDE DEF owner
<1>4. PICK e : e = IF ok THEN c ELSE Reporting(c, "release")
      OBVIOUS
<1>5. /\ e \in InvRecords /\ e.pc = c.pc /\ e.req = c.req /\ e.proof = c.proof
      /\ e.stage = c.stage /\ e.lost = c.lost /\ c.failed \subseteq e.failed
      /\ ok \/ "release" \in e.failed
  <2>1. CASE ok
        BY <1>4, <2>1
  <2>2. CASE ~ok
    <3>1. PICK call \in Calls : call = "release"
          BY DEF Calls
    <3>2. e = Reporting(c, call)
          BY <1>4, <2>2, <3>1
    <3>3. /\ e \in InvRecords /\ e.pc = c.pc /\ e.req = c.req /\ e.proof = c.proof
          /\ e.stage = c.stage /\ e.lost = c.lost /\ e.failed = c.failed \cup {call}
          BY <3>2, ReportingFields
    <3> QED BY <3>1, <3>3
  <2> QED BY <2>1, <2>2
<1>6. PICK d : d = Goto(e, "done")
      OBVIOUS
<1>7. "done" \in Pcs /\ "done" \notin Early
      BY DEF Pcs, Early
<1>8. /\ d \in InvRecords /\ d.pc = "done" /\ d.req = c.req /\ d.proof = c.proof
      /\ d.stage = c.stage /\ d.lost = c.lost /\ d.failed = e.failed
      BY <1>5, <1>6, <1>7, GotoFields
<1>9. Base(d, attempt) /\ Progress(d, attempt)
      BY <1>1, <1>3, <1>5, <1>7, <1>8 DEF Base, Progress, Accounted
<1>10. Move(i, d)
      BY <1>2, <1>4, <1>6
<1>11. CASE made /\ owner
  <2>1. lease' = released(lease)
        BY <1>2, <1>11
  <2>2. lease \in [state : LeaseStates, run : Requests \cup {NoRequest},
                   holder : Invocations \cup {NoHolder}, rev : Nat, fence : Nat, live : BOOLEAN]
        BY DEF RuntimeInv, TypeOK
  <2>3. /\ lease' \in [state : LeaseStates, run : Requests \cup {NoRequest},
                       holder : Invocations \cup {NoHolder}, rev : Nat, fence : Nat, live : BOOLEAN]
        /\ lease'.fence > lease.fence /\ lease'.state # "held"
    <3>1. lease' = [lease EXCEPT !.state = "released", !.rev = lease.rev + 1,
                                 !.fence = lease.fence + 1]
          BY <2>1, <2>2 DEF released
    <3>2. lease.rev + 1 \in Nat /\ lease.fence + 1 \in Nat /\ lease.fence + 1 > lease.fence
          BY <2>2
    <3>3. "released" \in LeaseStates
          BY DEF LeaseStates
    <3> QED BY <2>2, <3>1, <3>2, <3>3
  <2> QED BY <1>1, <1>3, <1>5, <1>8, <1>9, <1>10, <2>3, LeaseEnds
<1>12. CASE ~(made /\ owner)
  <2>1. Holds(i) => Excused(d)
    <3> SUFFICES ASSUME Holds(i), ~c.lost, "acquire" \notin c.failed, ok PROVE owner
        BY <1>3, <1>5, <1>8, <1>12 DEF Excused
    <3>1. c.proof = ProofOf(lease) /\ c.req = lease.run
          BY <1>1 DEF RuntimeInv, Fenced, Holds
    <3> QED BY <3>1 DEF owner, Releasable, inspectOwnership, Holds, ProofOf
  <2>2. Legal(i, d, attempt)
        BY <1>1, <1>5, <1>8, <1>9, <2>1 DEF Legal
  <2>3. UNCHANGED <<run, attempt, lease, halt, aborted>>
        BY <1>2, <1>3, <1>12
  <2> QED BY <1>3, <1>10, <2>2, <2>3, QuietStep
<1> QED BY <1>11, <1>12

\* The clock, the halt control and the caller's signal touch no invocation.
LEMMA EnvironmentStep ==
    ASSUME RuntimeInv, Expire \/ Toggle \/ \E i \in Invocations : Abort(i)
    PROVE  RuntimeInv'
<1> DEFINE Leases == [state : LeaseStates, run : Requests \cup {NoRequest},
                      holder : Invocations \cup {NoHolder}, rev : Nat, fence : Nat, live : BOOLEAN]
<1>0. count \in Bounds /\ lease \in Leases /\ halt \in BOOLEAN /\ aborted \subseteq Invocations
      BY DEF RuntimeInv, TypeOK, Bounds
<1>1. /\ UNCHANGED <<run, attempt, inv>>
      /\ count' \in Bounds
      /\ halt' \in BOOLEAN /\ aborted' \subseteq Invocations
  <2>1. CASE Expire
        BY <1>0, <2>1, OsvRuntimeAssumption DEF Expire, Bounds
  <2>2. CASE Toggle
        BY <1>0, <2>2, OsvRuntimeAssumption DEF Toggle, Bounds
  <2>3. CASE \E i \in Invocations : Abort(i)
        BY <1>0, <2>3, OsvRuntimeAssumption DEF Abort, Faulty, Bounds
  <2> QED BY <2>1, <2>2, <2>3
<1>2. /\ lease' \in Leases
      /\ lease'.fence = lease.fence /\ lease'.rev = lease.rev /\ lease'.holder = lease.holder
      /\ lease'.state = lease.state /\ lease'.run = lease.run /\ (lease'.live => lease.live)
  <2>1. CASE Expire
        BY <1>0, <2>1 DEF Expire
  <2>2. CASE Toggle \/ \E i \in Invocations : Abort(i)
        BY <1>0, <2>2 DEF Toggle, Abort
  <2> QED BY <2>1, <2>2
<1>3. TypeOK'
      BY <1>1, <1>2 DEF RuntimeInv, TypeOK, HasProof, Bounds
<1>4. \A j \in Invocations : Fenced(j)'
      BY <1>1, <1>2 DEF RuntimeInv, Fenced, HasProof, Holds, ProofOf
<1> QED BY <1>1, <1>2, <1>3, <1>4 DEF RuntimeInv, CompletedIsAccounted, Reported

\* A worker dies anywhere; its lease stays.
LEMMA CrashStep ==
    ASSUME RuntimeInv, NEW i \in Invocations, Crash(i)
    PROVE  RuntimeInv'
<1>1. PICK c \in InvRecords : c = inv[i] /\ Base(c, attempt) /\ Progress(c, attempt)
      BY Current
<1>2. c.pc # "idle" /\ Move(i, Goto(c, "crashed")) /\ UNCHANGED <<run, attempt, lease, halt, aborted>>
      BY <1>1 DEF Crash
<1>3. Legal(i, Goto(c, "crashed"), attempt)
      BY <1>1, <1>2, GotoLegal
<1>4. count' \in Bounds
      BY OsvRuntimeAssumption DEF Crash, Faulty, RuntimeInv, TypeOK, Bounds
<1> QED BY <1>2, <1>3, <1>4, QuietStep

-----------------------------------------------------------------------------
(* The theorems.                                                           *)

\* No run, no lease and no invocation satisfy the invariant.
LEMMA InitInv == Init => RuntimeInv
<1> SUFFICES ASSUME Init PROVE RuntimeInv
    OBVIOUS
<1>1. \A i \in Invocations : inv[i] = Idle
      BY DEF Init
<1>2. /\ inv \in [Invocations -> InvRecords]
      /\ \A i \in Invocations :
            inv[i].pc = "idle" /\ inv[i].proof = NoProof /\ inv[i].failed = {}
      BY <1>1, IdleFields DEF Init
<1>3. /\ lease \in [state : LeaseStates, run : Requests \cup {NoRequest},
                    holder : Invocations \cup {NoHolder}, rev : Nat, fence : Nat, live : BOOLEAN]
      /\ lease.state = "absent" /\ lease.fence = 0
      BY DEF Init, AbsentLease, LeaseStates
<1>4. /\ run \in [Requests -> [state : RunStates, why : Whys]]
      /\ \A r \in Requests : run[r].state = "none"
      BY Vocabulary DEF Init, RunStates
<1>5. attempt \in [Requests -> [Stages -> AttemptStates]]
      BY DEF Init, AttemptStates
<1>6. count \in Bounds
      BY OsvRuntimeAssumption DEF Init, Bounds
<1>7. TypeOK
      BY <1>2, <1>3, <1>4, <1>5, <1>6 DEF Init, TypeOK, InvRecords, HasProof, Bounds
<1>8. \A i \in Invocations : Base(inv[i], attempt) /\ Progress(inv[i], attempt)
      BY <1>2 DEF Base, Progress
<1>9. \A i \in Invocations : Fenced(i)
      BY <1>2, <1>3 DEF Fenced, HasProof, NoProof
<1>10. CompletedIsAccounted
      BY <1>4 DEF CompletedIsAccounted
<1> QED BY <1>3, <1>7, <1>8, <1>9, <1>10 DEF RuntimeInv

\* Every step preserves it.
LEMMA NextInv == RuntimeInv /\ [Next]_vars => RuntimeInv'
<1> SUFFICES ASSUME RuntimeInv, [Next]_vars PROVE RuntimeInv'
    OBVIOUS
<1>1. CASE UNCHANGED vars
      BY <1>1 DEF vars, RuntimeInv, TypeOK, Fenced, HasProof, Holds, CompletedIsAccounted, Reported
<1>2. ASSUME NEW i \in Invocations, Step(i) PROVE RuntimeInv'
      BY <1>2, EnsureStep, DecideStep, WaitStep, LookStep, TakeStep, EnterStep, LateAbortStep,
         ProveStep, SettleStep, ReserveStep, InsertStep, StartStep, WorkStep, RecordStep,
         JudgeStep, FailStep, CompleteStep, ReleaseStep
      DEF Step
<1>3. ASSUME NEW i \in Invocations, Crash(i) PROVE RuntimeInv'
      BY <1>3, CrashStep
<1>4. CASE Expire \/ Toggle \/ \E i \in Invocations : Abort(i)
      BY <1>4, EnvironmentStep
<1> QED BY <1>1, <1>2, <1>3, <1>4 DEF Next

\* The invariant of the runtime, for every instance.
THEOREM InvariantHolds == Spec => []RuntimeInv
BY InitInv, NextInv, PTL DEF Spec

\* Rows and invocations keep to the values the code knows.
THEOREM TypeCorrect == Spec => []TypeOK
<1>1. RuntimeInv => TypeOK
      BY DEF RuntimeInv
<1> QED BY <1>1, InvariantHolds, PTL

\* No two grants of the lease share a fencing token, however often it expires,
\* is taken over or is released.
THEOREM FencingTokensAreUnique == Spec => []FencesAreUnique
<1>1. RuntimeInv => FencesAreUnique
      BY DEF RuntimeInv, Fenced, FencesAreUnique
<1> QED BY <1>1, InvariantHolds, PTL

\* An invocation that returned does not keep the lease, unless it believes to
\* have lost it or reports a failed acquisition or release.
THEOREM ReturningFreesTheLease == Spec => []ReturnFreesLease
<1>1. RuntimeInv => ReturnFreesLease
      BY DEF RuntimeInv, Fenced, Excused, ReturnFreesLease
<1> QED BY <1>1, InvariantHolds, PTL

\* A completed run has both attempts settled, whoever worked on them, or the
\* failed write of one was reported.
THEOREM CompletedRunsAreAccounted == Spec => []CompletedIsAccounted
<1>1. RuntimeInv => CompletedIsAccounted
      BY DEF RuntimeInv
<1> QED BY <1>1, InvariantHolds, PTL

\* A run that is over has no edge to another state.
LEMMA TerminalHasNoEdge ==
    ASSUME NEW s \in TerminalRun, NEW g
    PROVE  <<s, g>> \notin RunEdges
BY DEF TerminalRun, RunEdges

\* A settled run and a settled attempt never change, whatever an invocation
\* still holds of them.
THEOREM SettledStaysSettled == Spec => SettledIsFinal
<1> DEFINE Final ==
      \A r \in Requests :
        /\ run[r].state \in TerminalRun => run'[r] = run[r]
        /\ \A s \in Stages :
              attempt[r][s] \in TerminalAttempt => attempt'[r][s] = attempt[r][s]
<1>1. RuntimeInv /\ [Next]_vars => [Final]_vars
  <2> SUFFICES ASSUME RuntimeInv, Next PROVE Final
      OBVIOUS
  <2>1. /\ run \in [Requests -> [state : RunStates, why : Whys]]
        /\ attempt \in [Requests -> [Stages -> AttemptStates]]
        BY DEF RuntimeInv, TypeOK
  <2>2. CASE UNCHANGED <<run, attempt>>
        BY <2>2
  <2>3. ASSUME NEW i \in Invocations, NEW r \in Requests, Ensure(i, r) PROVE Final
        BY <2>1, <2>3 DEF Ensure, TerminalRun, RunStates
  <2>4. ASSUME NEW i \in Invocations, WaitForLease(i) PROVE Final
        BY <2>1, <2>4 DEF WaitForLease, Written, TerminalRun, RunStates
  <2>5. ASSUME NEW i \in Invocations, Settle(i) PROVE Final
    <3>1. PICK c : c = inv[i]
          OBVIOUS
    <3>2. /\ attempt' = attempt
          /\ \/ run' = run
             \/ /\ Written(c.req, c.copy, c.goal, c.why)
                /\ run' = [run EXCEPT ![c.req] = [state |-> c.goal, why |-> c.why]]
          BY <2>1, <2>5, <3>1 DEF Settle
    <3>3. Written(c.req, c.copy, c.goal, c.why) => run[c.req].state \notin TerminalRun
          BY TerminalHasNoEdge DEF Written
    <3> QED BY <2>1, <3>2, <3>3
  <2>6. ASSUME NEW i \in Invocations, Insert(i) PROVE Final
        BY <2>1, <2>6 DEF Insert, TerminalAttempt
  <2>7. ASSUME NEW i \in Invocations, StartAttempt(i) PROVE Final
        BY <2>1, <2>7 DEF StartAttempt, TerminalAttempt
  <2>8. ASSUME NEW i \in Invocations, Record(i) PROVE Final
    <3>1. PICK c : recordTerminal(i, c)
          BY <2>8 DEF Record
    <3>2. \/ attempt' = [attempt EXCEPT ![c.req][c.stage] = attempt[c.req][c.stage]]
          \/ /\ attempt[c.req][c.stage] = "running"
             /\ attempt' = [attempt EXCEPT ![c.req][c.stage] = TerminalOf(c)]
          BY <3>1 DEF recordTerminal
    <3>3. run' = run
          BY <2>8 DEF Record
    <3> QED BY <2>1, <3>2, <3>3 DEF TerminalAttempt
  <2>9. \/ UNCHANGED <<run, attempt>>
        \/ \E i \in Invocations :
              \/ \E r \in Requests : Ensure(i, r)
              \/ WaitForLease(i) \/ Settle(i) \/ Insert(i) \/ StartAttempt(i) \/ Record(i)
        BY ZenonT(60)
           DEF Next, Step, Decide, Look, Take, Enter, LateAbort, Prove, Guard, Reserve, Call,
               Answer, Judge, FailListing, Accept, RejectInventory, Bridge, FailReserve, Complete,
               Release, Check, Expire, Toggle, Abort, Crash
  <2> QED BY <2>2, <2>3, <2>4, <2>5, <2>6, <2>7, <2>8, <2>9
<1> QED BY <1>1, InvariantHolds, PTL DEF Spec, SettledIsFinal

=============================================================================

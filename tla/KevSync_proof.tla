---------------------------- MODULE KevSync_proof ----------------------------
(***************************************************************************)
(* Proofs about KevSync, for every number of windows, handlers, worker     *)
(* processes and catalogs and every bound on faults and deployments.       *)
(*                                                                         *)
(* The inductive invariant says how old a handler's copy of its run may be *)
(* (Behind), what the copy holds where the handler stands (CopyAt), that   *)
(* one run is in flight, that the staged entries belong to the snapshot of *)
(* their run, that a run in flight whose generation exists does not        *)
(* regress from the active catalog, and that every claim of a job pays for *)
(* one fetch at most (ClaimsCovered).                                      *)
(***************************************************************************)
EXTENDS KevSync, FiniteSetTheorems, TLAPS

\* What the state of a row says of its snapshot.
RowOK(row) ==
    /\ row.state \in PreSnapshot \cup {"none"} => row.snap = NoCatalog
    /\ row.state \in PostSnapshot \cup {"completed"} => row.snap \in Catalogs
    /\ row.state # "none" => row.version > 0

\* A copy is a row its run has had: the same one if the version is the same.
Behind(copy, row) ==
    /\ copy.version <= row.version
    /\ copy.version = row.version => copy = row
    /\ copy.snap # NoCatalog => copy.snap = row.snap
    /\ RowOK(copy)

\* The states of the copy at the steps that write by compare-and-set, or
\* that lead to one.
CopyAt(pc, state) ==
    /\ pc = "claim_fetch" => state \in {"requested", "retry_wait"}
    /\ pc \in {"fetch", "store"} => state = "fetching"
    /\ pc = "get" => state \in {"stored", "parsing", "staging"}
    /\ pc = "parse" => state = "stored"
    /\ pc \in {"decide", "stage", "inspect", "resume", "reload", "batch", "complete"} =>
         state \in {"parsing", "staging"}
    /\ pc = "swap" => state = "activating"

\* A context at work has a run and an older or the present copy of it.
AtWork(c) ==
    /\ c.run \in Windows
    /\ run[c.run].state # "none"
    /\ Behind(c.copy, run[c.run])

\* A context about to stage has passed the regression check.
ContextOK(c) ==
    c.pc # "idle" =>
      /\ AtWork(c)
      /\ CopyAt(c.pc, c.copy.state)
      /\ c.pc = "store" => c.got \in Catalogs
      /\ c.pc = "succeeded" => run[c.run].state \in Successes
      /\ c.pc = "stage" /\ InFlight(c.run) => ~Regresses(c.copy.snap)

\* Nothing was sent for a run that was not requested.
Unrequested ==
    \A w \in Windows : run[w].state = "none" =>
      event[w] = "none" /\ \A id \in queue : id[1] # w

\* Entries are staged for the snapshot of their run, and none without one.
StagedFor(w) ==
    /\ run[w].snap = NoCatalog => generation[w] = "none" /\ entries[w] = {}
    /\ run[w].snap # NoCatalog => entries[w] \subseteq Ordinals(run[w].snap)

OneInFlight == \A v, w \in Windows : InFlight(v) /\ InFlight(w) => v = w

\* A generation about to be activated is no older than the active one.
NotOlder(w) ==
    InFlight(w) /\ generation[w] \in {"staging", "complete"} => ~Regresses(run[w].snap)

\* Handlers that hold a claim they have not spent on a fetch.
ClaimPcs == {"precheck", "claim_fetch"}
Claimants(w) == {h \in Handlers : ctx[h].pc \in ClaimPcs /\ ctx[h].run = w}
ClaimsCovered == \A w \in Windows : run[w].exec + Cardinality(Claimants(w)) <= attempt[w]

\* The inductive invariant.
KevInv ==
    /\ TypeOK
    /\ \A h \in Handlers : ContextOK(ctx[h])
    /\ Unrequested
    /\ \A w \in Windows : RowOK(run[w]) /\ StagedFor(w) /\ NotOlder(w)
    /\ OneInFlight
    /\ JobAndRunAgree
    /\ ActiveIsWhole
    /\ ClaimsCovered

-----------------------------------------------------------------------------
(* What the helpers make of a context and of a job row.                    *)

LEMMA ModelValues ==
    /\ NoRun \in Runs /\ NoSource \in Sources /\ Idle \in Contexts
    /\ Idle.pc = "idle" /\ Idle.copy = NoRun
    /\ NoRun.state = "none" /\ NoRun.version = 0 /\ NoRun.snap = NoCatalog /\ NoRun.exec = 0
<1>1. NoRun.label \in Versions
      BY KevAssumption DEF NoRun
<1>2. NoRun \in Runs
      BY <1>1 DEF NoRun, Runs
<1>3. NoSource \in Sources
      BY KevAssumption DEF NoSource, Sources
<1>4. Idle \in Contexts
      BY <1>2, <1>3, KevAssumption DEF Idle, Contexts
<1> QED BY <1>2, <1>3, <1>4 DEF NoRun, Idle

Codes == {"retryable", "final", "bad", "shutdown"}
Layers == {"pre", "post"}
Reported == {"succeeded", "redispatch"}

\* A failure keeps the run and the copy and goes to a step of applyFailure.
LEMMA FailingFields ==
    ASSUME NEW c \in Contexts, NEW code \in Codes, NEW layer \in Layers
    PROVE  /\ Failing(c, code, layer) \in Contexts
           /\ Failing(c, code, layer).pc \in {"quarantined", "failed", "retry_wait", "job_retry"}
           /\ Failing(c, code, layer).run = c.run
           /\ Failing(c, code, layer).copy = c.copy
<1>1. PICK p : p = mapIntelligenceSyncFailure(code, layer, c.attempt < SyncMaxAttempts)
      OBVIOUS
<1>2. p \in {"quarantined", "failed", "retry_wait", "job_retry"}
      BY <1>1 DEF mapIntelligenceSyncFailure
<1>3. p \in Outcomes
      BY <1>2 DEF Outcomes
<1>4. PICK s \in BOOLEAN : s = (code = "shutdown")
      OBVIOUS
<1>5. Failing(c, code, layer) = [c EXCEPT !.pc = p, !.stopped = s, !.got = NoCatalog,
                                          !.seen = NoSource, !.cursor = 0]
      BY <1>1, <1>4 DEF Failing
<1>6. Failing(c, code, layer) \in Contexts
  <2>1. NoSource \in Sources
        BY ModelValues
  <2>2. [c EXCEPT !.pc = p, !.stopped = s, !.got = NoCatalog, !.seen = NoSource, !.cursor = 0]
           \in Contexts
        BY <1>3, <2>1 DEF Contexts
  <2> QED BY <1>5, <2>2
<1>7. /\ Failing(c, code, layer).pc = p /\ Failing(c, code, layer).run = c.run
      /\ Failing(c, code, layer).copy = c.copy
      BY <1>5 DEF Contexts
<1> QED BY <1>2, <1>6, <1>7

LEMMA ReportingFields ==
    ASSUME NEW c \in Contexts, NEW outcome \in Reported
    PROVE  /\ Reporting(c, outcome) \in Contexts
           /\ Reporting(c, outcome).pc = outcome
           /\ Reporting(c, outcome).run = c.run
           /\ Reporting(c, outcome).copy = NoRun
<1>1. outcome \in Outcomes
      BY DEF Outcomes, Reported
<1> QED BY <1>1, ModelValues DEF Reporting, Contexts

\* Two rows that are settled the same way, or neither.
SameVerdict(r, s) ==
    /\ r.status = "succeeded" <=> s.status = "succeeded"
    /\ r.status = "failed" <=> s.status = "failed"

LEMMA JobOperations ==
    ASSUME NEW r \in JobRows, NEW k \in Workers
    PROVE  /\ enqueueQueued(r) \in JobRows /\ SameVerdict(enqueueQueued(r), r)
           /\ claimExecution(r, k) \in JobRows /\ SameVerdict(claimExecution(r, k), r)
           /\ renewLease(r, k) \in JobRows /\ SameVerdict(renewLease(r, k), r)
           /\ markRetry(r, k) \in JobRows /\ SameVerdict(markRetry(r, k), r)
           /\ expire(r) \in JobRows /\ SameVerdict(expire(r), r)
           /\ markSucceeded(r, k) \in JobRows /\ markTerminalFailure(r, k) \in JobRows
           /\ ~OwnedBy(r, k) => markSucceeded(r, k) = r /\ markTerminalFailure(r, k) = r
           /\ OwnedBy(r, k) => /\ markSucceeded(r, k).status = "succeeded"
                               /\ markTerminalFailure(r, k).status = "failed"
                               /\ r.status = "running"
<1>1. enqueueQueued(r) \in JobRows /\ SameVerdict(enqueueQueued(r), r)
      BY DEF enqueueQueued, JobRows, JobStatuses, SameVerdict
<1>2. claimExecution(r, k) \in JobRows /\ SameVerdict(claimExecution(r, k), r)
      BY DEF claimExecution, Claimable, JobRows, JobStatuses, Leases, SameVerdict
<1>3. renewLease(r, k) \in JobRows /\ SameVerdict(renewLease(r, k), r)
      BY DEF renewLease, JobRows, Leases, SameVerdict
<1>4. markRetry(r, k) \in JobRows /\ SameVerdict(markRetry(r, k), r)
      BY DEF markRetry, OwnedBy, JobRows, JobStatuses, Leases, SameVerdict
<1>5. expire(r) \in JobRows /\ SameVerdict(expire(r), r)
      BY DEF expire, JobRows, Leases, SameVerdict
<1>6. markSucceeded(r, k) \in JobRows /\ markTerminalFailure(r, k) \in JobRows
      BY DEF markSucceeded, markTerminalFailure, JobRows, JobStatuses, Leases
<1>7. ~OwnedBy(r, k) => markSucceeded(r, k) = r /\ markTerminalFailure(r, k) = r
      BY DEF markSucceeded, markTerminalFailure
<1>8. OwnedBy(r, k) => /\ markSucceeded(r, k).status = "succeeded"
                       /\ markTerminalFailure(r, k).status = "failed"
                       /\ r.status = "running"
      BY DEF markSucceeded, markTerminalFailure, OwnedBy, JobRows
<1> QED BY <1>1, <1>2, <1>3, <1>4, <1>5, <1>6, <1>7, <1>8

-----------------------------------------------------------------------------
(* Steps that leave the runs and the catalog alone.                        *)

LEMMA FailingOK ==
    ASSUME NEW c \in Contexts, AtWork(c), NEW code \in Codes, NEW layer \in Layers
    PROVE  /\ Failing(c, code, layer) \in Contexts
           /\ ContextOK(Failing(c, code, layer))
           /\ Failing(c, code, layer).pc \notin ClaimPcs
<1>1. PICK d \in Contexts : d = Failing(c, code, layer)
      BY FailingFields
<1>2. /\ d.pc \in {"quarantined", "failed", "retry_wait", "job_retry"}
      /\ d.run = c.run /\ d.copy = c.copy
      BY <1>1, FailingFields
<1>3. ContextOK(d)
      BY <1>2 DEF ContextOK, AtWork, CopyAt
<1> QED BY <1>1, <1>2, <1>3 DEF ClaimPcs

LEMMA ReportingOK ==
    ASSUME KevInv, NEW c \in Contexts, c.run \in Windows, run[c.run].state # "none",
           NEW outcome \in Reported, outcome = "succeeded" => run[c.run].state \in Successes
    PROVE  /\ Reporting(c, outcome) \in Contexts
           /\ ContextOK(Reporting(c, outcome))
           /\ Reporting(c, outcome).pc \notin ClaimPcs
<1>1. PICK d \in Contexts : d = Reporting(c, outcome)
      BY ReportingFields
<1>2. d.pc = outcome /\ d.run = c.run /\ d.copy = NoRun
      BY <1>1, ReportingFields
<1>3. run[c.run] \in Runs /\ RowOK(run[c.run])
      BY DEF KevInv, TypeOK
<1>4. Behind(NoRun, run[c.run])
      BY <1>3, ModelValues DEF Behind, RowOK, Runs, PreSnapshot, PostSnapshot
<1>5. ContextOK(d)
      BY <1>2, <1>4 DEF ContextOK, AtWork, CopyAt, Reported
<1> QED BY <1>1, <1>2, <1>5 DEF ClaimPcs, Reported

LEMMA IdleOK == Idle \in Contexts /\ ContextOK(Idle) /\ Idle.pc \notin ClaimPcs
BY ModelValues DEF ContextOK, ClaimPcs

\* No handler comes to hold a claim: each claim is still good for one fetch.
LEMMA ClaimsKept ==
    ASSUME KevInv, attempt' = attempt, ctx' \in [Handlers -> Contexts],
           \A w \in Windows : run'[w].exec = run[w].exec,
           \A g \in Handlers : ctx'[g].pc \in ClaimPcs =>
              ctx[g].pc \in ClaimPcs /\ ctx'[g].run = ctx[g].run
    PROVE  ClaimsCovered'
<1> SUFFICES ASSUME NEW w \in Windows
             PROVE  run'[w].exec + Cardinality(Claimants(w)') <= attempt[w]
    BY DEF ClaimsCovered
<1>1. Claimants(w)' \subseteq Claimants(w)
      BY DEF Claimants
<1>2. IsFiniteSet(Claimants(w))
      BY FS_Subset, KevAssumption DEF Claimants
<1>3. /\ Cardinality(Claimants(w)) \in Nat /\ Cardinality(Claimants(w)') \in Nat
      /\ Cardinality(Claimants(w)') <= Cardinality(Claimants(w))
      BY <1>1, <1>2, FS_Subset, FS_CardinalityType
<1>4. run[w].exec \in Nat /\ attempt[w] \in Nat
      BY DEF KevInv, TypeOK, Runs
<1>5. run[w].exec + Cardinality(Claimants(w)) <= attempt[w]
      BY DEF KevInv, ClaimsCovered
<1> QED BY <1>3, <1>4, <1>5

\* A handler moves and at most renews or gives back its job.
LEMMA HandlerMoves ==
    ASSUME KevInv, NEW h \in Handlers, NEW d \in Contexts, ContextOK(d),
           ctx' = [ctx EXCEPT ![h] = d],
           attempt' \in [Windows -> Nat], ClaimsCovered',
           UNCHANGED <<run, due, generation, entries, source, event, config, deploys>>,
           faults' \in 0 .. MaxFaults,
           job' \in [Windows -> JobRows], \A w \in Windows : SameVerdict(job'[w], job[w]),
           queue' \subseteq Windows \X Nat,
           \A id \in queue' : run[id[1]].state # "none"
    PROVE  KevInv'
<1>1. /\ ctx' \in [Handlers -> Contexts]
      /\ \A g \in Handlers : ctx'[g] = IF g = h THEN d ELSE ctx[g]
      BY DEF KevInv, TypeOK
<1>2. \A g \in Handlers : ContextOK(ctx[g])'
  <2> SUFFICES ASSUME NEW g \in Handlers PROVE ContextOK(ctx[g])'
      OBVIOUS
  <2>1. ContextOK(ctx'[g])
        BY <1>1 DEF KevInv
  <2> QED BY <2>1 DEF ContextOK, AtWork, InFlight, Regresses
<1>3. TypeOK'
  <2>1. \A g \in Handlers : ctx'[g].pc # "idle" => ctx'[g].run \in Windows
        BY <1>2 DEF ContextOK, AtWork
  <2> QED BY <1>1, <2>1 DEF KevInv, TypeOK
<1>4. JobAndRunAgree'
      BY DEF KevInv, JobAndRunAgree, SameVerdict
<1>5. Unrequested'
      BY DEF KevInv, Unrequested
<1>6. /\ \A w \in Windows : RowOK(run[w])' /\ StagedFor(w)' /\ NotOlder(w)'
      /\ OneInFlight' /\ ActiveIsWhole'
      BY DEF KevInv, StagedFor, NotOlder, InFlight, Regresses, OneInFlight, ActiveIsWhole
<1> QED BY <1>2, <1>3, <1>4, <1>5, <1>6 DEF KevInv

LEMMA ContextMoves ==
    ASSUME KevInv, NEW h \in Handlers, NEW d \in Contexts, ContextOK(d),
           ctx' = [ctx EXCEPT ![h] = d],
           d.pc \in ClaimPcs => ctx[h].pc \in ClaimPcs /\ d.run = ctx[h].run,
           UNCHANGED <<run, due, generation, entries, source, attempt, event, config, deploys>>,
           faults' \in 0 .. MaxFaults,
           job' \in [Windows -> JobRows], \A w \in Windows : SameVerdict(job'[w], job[w]),
           queue' \subseteq Windows \X Nat,
           \A id \in queue' : run[id[1]].state # "none"
    PROVE  KevInv'
<1>1. /\ ctx' \in [Handlers -> Contexts]
      /\ \A g \in Handlers : ctx'[g] = IF g = h THEN d ELSE ctx[g]
      BY DEF KevInv, TypeOK
<1>2. ClaimsCovered'
      BY <1>1, ClaimsKept
<1>3. attempt' \in [Windows -> Nat]
      BY DEF KevInv, TypeOK
<1> QED BY <1>2, <1>3, HandlerMoves

-----------------------------------------------------------------------------
(* Steps that write the run of a handler.                                  *)

\* The row that a transition makes of a run in flight.
Advances(row, next) ==
    /\ next.version = row.version + 1
    /\ next.state # "none"
    /\ RowOK(next)
    /\ row.snap # NoCatalog => next.snap = row.snap

\* The context of the handler that wrote the row.
Wrote(d, w, row) ==
    d.pc # "idle" =>
      /\ d.run = w
      /\ d.copy \in {row, NoRun}
      /\ CopyAt(d.pc, d.copy.state)
      /\ d.pc \notin {"stage", "store"}
      /\ d.pc = "succeeded" => row.state \in Successes

\* The run of a handler in flight is not the one whose generation is active.
LEMMA NotActive ==
    ASSUME KevInv, NEW w \in Windows, InFlight(w)
    PROVE  source.active # w /\ generation[w] # "active"
<1>1. 0 \notin Windows
      BY DEF Windows
<1> QED BY <1>1 DEF KevInv, ActiveIsWhole, InFlight, Terminal, Successes

LEMMA RunMoves ==
    ASSUME KevInv, NEW h \in Handlers, NEW w \in Windows, InFlight(w),
           NEW row \in Runs, Advances(run[w], row), run' = [run EXCEPT ![w] = row],
           NEW d \in Contexts, Wrote(d, w, row), ctx' = [ctx EXCEPT ![h] = d],
           NEW jr \in JobRows, job' = [job EXCEPT ![w] = jr],
           jr.status = "succeeded" <=> row.state \in Successes,
           jr.status = "failed" <=> row.state \in Failures,
           NEW g \in {"none", "staging", "complete", "active", "superseded"},
           generation' = [generation EXCEPT ![w] = g],
           \/ g = generation[w]
           \/ g \in {"staging", "complete"} /\ row.snap # NoCatalog /\ ~Regresses(row.snap),
           ClaimsCovered', due' \subseteq Windows,
           UNCHANGED <<entries, source, attempt, event, queue, config, faults, deploys>>
    PROVE  KevInv'
<1> DEFINE States == {"none", "staging", "complete", "active", "superseded"}
<1>1. /\ run \in [Windows -> Runs] /\ ctx \in [Handlers -> Contexts]
      /\ job \in [Windows -> JobRows] /\ generation \in [Windows -> States]
      /\ run[w] \in Runs
      BY DEF KevInv, TypeOK
<1>2. /\ run' \in [Windows -> Runs] /\ ctx' \in [Handlers -> Contexts]
      /\ job' \in [Windows -> JobRows] /\ generation' \in [Windows -> States]
      /\ \A v \in Windows : /\ run'[v] = IF v = w THEN row ELSE run[v]
                            /\ job'[v] = IF v = w THEN jr ELSE job[v]
                            /\ generation'[v] = IF v = w THEN g ELSE generation[v]
      /\ \A f \in Handlers : ctx'[f] = IF f = h THEN d ELSE ctx[f]
      BY <1>1
<1>3. /\ source.active # w /\ generation[w] # "active" /\ g # "active"
      /\ source.active # 0 => source.active \in Windows
      BY NotActive DEF KevInv, TypeOK, Sources, Windows
<1>4. \A c : Regresses(c)' <=> Regresses(c)
      BY <1>2, <1>3 DEF Regresses
<1>5. run[w].version \in Nat /\ row.version \in Nat /\ RowOK(run[w]) /\ run[w].state # "none"
      BY <1>1 DEF KevInv, Runs, InFlight
<1>6. \A v \in Windows : /\ run'[v].state = "none" <=> run[v].state = "none"
                         /\ InFlight(v)' => InFlight(v)
                         /\ run[v].state \in Terminal => run'[v] = run[v]
      BY <1>2, <1>5 DEF InFlight, Advances
<1>7. \A f \in Handlers : ContextOK(ctx[f])'
  <2> SUFFICES ASSUME NEW f \in Handlers, ctx'[f].pc # "idle" PROVE ContextOK(ctx[f])'
      BY DEF ContextOK
  <2>1. CASE f = h
    <3>1. ctx'[f] = d /\ d.run = w /\ run'[w] = row /\ row.state # "none"
          BY <1>2, <2>1 DEF Advances, Wrote
    <3>2. Behind(row, row) /\ Behind(NoRun, row)
          BY <1>5, ModelValues DEF Behind, Advances, RowOK, PreSnapshot, PostSnapshot, Runs
    <3> QED BY <2>1, <3>1, <3>2 DEF Wrote, ContextOK, AtWork
  <2>2. CASE f # h
    <3>1. PICK c \in Contexts : c = ctx[f] /\ ctx'[f] = c
          BY <1>1, <1>2, <2>2
    <3>2. ContextOK(c) /\ c.pc # "idle"
          BY <3>1 DEF KevInv
    <3>3. Behind(c.copy, run'[c.run])
      <4>1. c.copy.version \in Nat /\ c.run \in Windows /\ Behind(c.copy, run[c.run])
            BY <3>2 DEF ContextOK, AtWork, Contexts, Runs
      <4> QED BY <1>2, <1>5, <4>1 DEF Behind, Advances
    <3> QED BY <1>4, <1>6, <3>1, <3>2, <3>3 DEF ContextOK, AtWork, Terminal
  <2> QED BY <2>1, <2>2
<1>8. TypeOK'
  <2>1. \A f \in Handlers : ctx'[f].pc # "idle" => ctx'[f].run \in Windows
        BY <1>7 DEF ContextOK, AtWork
  <2> QED BY <1>2, <2>1 DEF KevInv, TypeOK
<1>9. Unrequested'
      BY <1>6 DEF KevInv, Unrequested, TypeOK
<1>10. \A v \in Windows : RowOK(run[v])' /\ StagedFor(v)' /\ NotOlder(v)'
  <2> SUFFICES ASSUME NEW v \in Windows PROVE RowOK(run[v])' /\ StagedFor(v)' /\ NotOlder(v)'
      OBVIOUS
  <2>1. RowOK(run[v]) /\ StagedFor(v) /\ NotOlder(v)
        BY DEF KevInv
  <2>2. CASE v = w
    <3>1. RowOK(run[v])'
          BY <1>2, <2>2 DEF Advances
    <3>2. StagedFor(v)'
          BY <1>2, <2>1, <2>2 DEF StagedFor, Advances
    <3>3. NotOlder(v)'
      <4>1. CASE g = generation[w]
            BY <1>2, <1>4, <1>6, <2>1, <2>2, <4>1 DEF NotOlder, StagedFor, Advances
      <4>2. CASE ~Regresses(row.snap)
            BY <1>2, <1>4, <2>2, <4>2 DEF NotOlder
      <4> QED BY <4>1, <4>2
    <3> QED BY <3>1, <3>2, <3>3
  <2>3. CASE v # w
        BY <1>2, <1>4, <1>6, <2>1, <2>3 DEF StagedFor, NotOlder
  <2> QED BY <2>2, <2>3
<1>11. OneInFlight'
       BY <1>6 DEF KevInv, OneInFlight
<1>12. JobAndRunAgree'
       BY <1>2 DEF KevInv, JobAndRunAgree
<1>13. ActiveIsWhole'
       BY <1>2, <1>3 DEF KevInv, ActiveIsWhole
<1> QED BY <1>7, <1>8, <1>9, <1>10, <1>11, <1>12, <1>13 DEF KevInv

-----------------------------------------------------------------------------
(* The pieces that handler steps are made of.                              *)

\* What the invariant says of a handler at work.
LEMMA Working ==
    ASSUME KevInv, NEW h \in Handlers, ctx[h].pc # "idle"
    PROVE  /\ ctx[h] \in Contexts /\ ContextOK(ctx[h]) /\ AtWork(ctx[h])
           /\ WorkerOf[h] \in Workers
           /\ RunOf(h) \in Windows /\ RunOf(h) = ctx[h].run
           /\ run[RunOf(h)] \in Runs /\ RowOK(run[RunOf(h)]) /\ run[RunOf(h)].state # "none"
           /\ job[RunOf(h)] \in JobRows /\ attempt[RunOf(h)] \in Nat
           /\ Behind(run[RunOf(h)], run[RunOf(h)])
<1>1. ctx[h] \in Contexts /\ ContextOK(ctx[h]) /\ AtWork(ctx[h])
      BY DEF KevInv, TypeOK, ContextOK
<1>2. /\ RunOf(h) \in Windows /\ RunOf(h) = ctx[h].run
      /\ run[RunOf(h)] \in Runs /\ RowOK(run[RunOf(h)]) /\ run[RunOf(h)].state # "none"
      /\ job[RunOf(h)] \in JobRows /\ attempt[RunOf(h)] \in Nat
      BY <1>1 DEF KevInv, TypeOK, AtWork, RunOf
<1>3. Behind(run[RunOf(h)], run[RunOf(h)])
      BY <1>2 DEF Behind, Runs
<1> QED BY <1>1, <1>2, <1>3, KevAssumption

\* A job that is owned belongs to a run in flight.
LEMMA OwnedInFlight ==
    ASSUME KevInv, NEW h \in Handlers, ctx[h].pc # "idle", Owned(h)
    PROVE  InFlight(RunOf(h)) /\ job[RunOf(h)].status = "running"
BY Working DEF KevInv, JobAndRunAgree, Owned, OwnedBy, JobOf, InFlight, Terminal

\* The compare-and-set finds the very row the handler has read.
LEMMA CurrentIsCopy ==
    ASSUME KevInv, NEW h \in Handlers, ctx[h].pc # "idle", Current(h)
    PROVE  run[RunOf(h)] = ctx[h].copy
BY Working DEF Current, AtWork, Behind

LEMMA JobKept ==
    ASSUME KevInv, NEW w \in Windows, NEW jr \in JobRows, SameVerdict(jr, job[w]),
           job' = [job EXCEPT ![w] = jr]
    PROVE  job' \in [Windows -> JobRows] /\ \A v \in Windows : SameVerdict(job'[v], job[v])
<1>1. job \in [Windows -> JobRows]
      BY DEF KevInv, TypeOK
<1> QED BY <1>1 DEF SameVerdict

\* The frame of a step that moves a handler and touches its job.
LEMMA JobMoves ==
    ASSUME KevInv, NEW h \in Handlers, ctx[h].pc # "idle", NEW d \in Contexts, ContextOK(d),
           ctx' = [ctx EXCEPT ![h] = d],
           d.pc \in ClaimPcs => ctx[h].pc \in ClaimPcs /\ d.run = ctx[h].run,
           NEW jr \in JobRows, SameVerdict(jr, job[RunOf(h)]),
           job' = [job EXCEPT ![RunOf(h)] = jr] \/ job' = job,
           UNCHANGED <<run, due, catalog, attempt, delivery, environment>>
    PROVE  KevInv'
<1>1. job' \in [Windows -> JobRows] /\ \A v \in Windows : SameVerdict(job'[v], job[v])
  <2>1. CASE job' = [job EXCEPT ![RunOf(h)] = jr]
        BY <2>1, Working, JobKept
  <2>2. CASE job' = job
        BY <2>2 DEF KevInv, TypeOK, SameVerdict
  <2> QED BY <2>1, <2>2
<1>2. /\ faults' \in 0 .. MaxFaults /\ queue' \subseteq Windows \X Nat
      /\ \A id \in queue' : run[id[1]].state # "none"
      BY DEF delivery, environment, KevInv, TypeOK, Unrequested
<1> QED BY <1>1, <1>2, ContextMoves DEF catalog, delivery, environment

LEMMA RenewedMoves ==
    ASSUME KevInv, NEW h \in Handlers, ctx[h].pc # "idle", NEW layer \in Layers,
           NEW d \in Contexts, Owned(h) => ContextOK(d), d.pc \notin ClaimPcs,
           Renewed(h, layer, d),
           UNCHANGED <<run, due, catalog, attempt, delivery, environment>>
    PROVE  KevInv'
<1>1. /\ renewLease(JobOf(h), WorkerOf[h]) \in JobRows
      /\ SameVerdict(renewLease(JobOf(h), WorkerOf[h]), job[RunOf(h)])
      BY Working, JobOperations DEF JobOf
<1>2. CASE Owned(h)
      BY <1>1, <1>2, JobMoves DEF Renewed, SetJob, Move
<1>3. CASE ~Owned(h)
  <2>1. PICK f \in Contexts : f = Failing(ctx[h], "retryable", layer)
        BY Working, FailingOK DEF Codes
  <2>2. ContextOK(f) /\ f.pc \notin ClaimPcs
        BY <2>1, Working, FailingOK DEF Codes
  <2>3. ctx' = [ctx EXCEPT ![h] = f] /\ job' = job
        BY <1>3, <2>1 DEF Renewed, Move
  <2> QED BY <1>1, <2>2, <2>3, JobMoves
<1> QED BY <1>2, <1>3

\* A settled run has a settled job: reconcileTerminal finds nothing to write.
LEMMA ReconcileMoves ==
    ASSUME KevInv, NEW h \in Handlers, ctx[h].pc # "idle", run[RunOf(h)].state \in Terminal,
           reconcileTerminal(h, run[RunOf(h)]),
           UNCHANGED <<run, due, catalog, attempt, delivery, environment>>
    PROVE  KevInv'
<1>1. ~OwnedBy(JobOf(h), WorkerOf[h])
      BY OwnedInFlight DEF Owned, InFlight
<1>2. /\ markSucceeded(JobOf(h), WorkerOf[h]) = JobOf(h)
      /\ markTerminalFailure(JobOf(h), WorkerOf[h]) = JobOf(h)
      /\ JobOf(h) = job[RunOf(h)] /\ JobOf(h) \in JobRows /\ SameVerdict(JobOf(h), job[RunOf(h)])
      BY <1>1, Working, JobOperations DEF JobOf, SameVerdict
<1>3. CASE run[RunOf(h)].state \in Successes
  <2>1. PICK d \in Contexts : d = Reporting(ctx[h], "succeeded")
        BY ReportingFields, Working DEF Reported
  <2>2. ContextOK(d) /\ d.pc \notin ClaimPcs
        BY <1>3, <2>1, Working, ReportingOK DEF Reported
  <2>3. ctx' = [ctx EXCEPT ![h] = d] /\ job' = [job EXCEPT ![RunOf(h)] = JobOf(h)]
        BY <1>2, <1>3, <2>1 DEF reconcileTerminal, SetJob, Move
  <2> QED BY <1>2, <2>2, <2>3, JobMoves
<1>4. CASE run[RunOf(h)].state \notin Successes
  <2>1. ctx' = [ctx EXCEPT ![h] = Idle] /\ job' = [job EXCEPT ![RunOf(h)] = JobOf(h)]
        BY <1>2, <1>4 DEF reconcileTerminal, SetJob, Move
  <2> QED BY <1>2, <2>1, IdleOK, JobMoves
<1> QED BY <1>3, <1>4

\* dispatch sends a context where its copy belongs.
LEMMA DispatchedOK ==
    ASSUME NEW c \in Contexts, AtWork(c)
    PROVE  /\ Dispatched(c) \in Contexts /\ ContextOK(Dispatched(c))
           /\ Dispatched(c).pc # "idle" => Dispatched(c).run = c.run
<1>1. CASE ~config.enabled /\ c.copy.state \in PreSnapshot
  <2>1. Dispatched(c) = Failing(c, "final", "pre")
        BY <1>1 DEF Dispatched
  <2> QED BY <2>1, FailingOK, FailingFields DEF Codes, Layers
<1> DEFINE pcs == {"claim_fetch", "fetch", "get", "activate"}
<1>2. ASSUME NEW p \in pcs, CopyAt(p, c.copy.state)
      PROVE  /\ [c EXCEPT !.pc = p] \in Contexts /\ ContextOK([c EXCEPT !.pc = p])
             /\ [c EXCEPT !.pc = p].run = c.run
  <2>1. PICK d : d = [c EXCEPT !.pc = p]
        OBVIOUS
  <2>2. d \in Contexts /\ d.pc = p /\ d.run = c.run /\ d.copy = c.copy
        BY <2>1 DEF Contexts, Reads, Writes
  <2>3. ContextOK(d)
        BY <1>2, <2>2 DEF ContextOK, AtWork
  <2> QED BY <2>1, <2>2, <2>3
<1>3. CASE ~(~config.enabled /\ c.copy.state \in PreSnapshot)
  <2>1. CASE c.copy.state \in {"requested", "retry_wait"}
    <3>1. Dispatched(c) = [c EXCEPT !.pc = "claim_fetch"] /\ CopyAt("claim_fetch", c.copy.state)
          BY <1>3, <2>1 DEF Dispatched, CopyAt
    <3> QED BY <1>2, <3>1
  <2>2. CASE c.copy.state = "fetching"
    <3>1. Dispatched(c) = [c EXCEPT !.pc = "fetch"] /\ CopyAt("fetch", c.copy.state)
          BY <1>3, <2>2 DEF Dispatched, CopyAt
    <3> QED BY <1>2, <3>1
  <2>3. CASE c.copy.state \in {"stored", "parsing", "staging"}
    <3>1. Dispatched(c) = [c EXCEPT !.pc = "get"] /\ CopyAt("get", c.copy.state)
          BY <1>3, <2>3 DEF Dispatched, CopyAt
    <3> QED BY <1>2, <3>1
  <2>4. CASE c.copy.state = "activating"
    <3>1. Dispatched(c) = [c EXCEPT !.pc = "activate"] /\ CopyAt("activate", c.copy.state)
          BY <1>3, <2>4 DEF Dispatched, CopyAt
    <3> QED BY <1>2, <3>1
  <2>5. CASE c.copy.state \notin {"requested", "retry_wait", "fetching", "stored", "parsing",
                                  "staging", "activating"}
    <3>1. Dispatched(c) = Idle
          BY <1>3, <2>5 DEF Dispatched
    <3> QED BY <3>1, IdleOK, ModelValues
  <2> QED BY <2>1, <2>2, <2>3, <2>4, <2>5
<1> QED BY <1>1, <1>3

-----------------------------------------------------------------------------
(* Scheduler, relay, redelivery and clock.                                 *)

\* Steps around the handlers touch neither a run nor the catalog.
LEMMA AroundHandlers ==
    ASSUME KevInv,
           UNCHANGED <<run, generation, entries, source, attempt, ctx, config, deploys>>,
           faults' \in 0 .. MaxFaults, due' \subseteq Windows,
           job' \in [Windows -> JobRows], \A w \in Windows : SameVerdict(job'[w], job[w]),
           event' \in [Windows -> {"none", "pending", "published", "processed"}],
           \A w \in Windows : run[w].state = "none" => event'[w] = "none",
           queue' \subseteq Windows \X Nat,
           \A id \in queue' : run[id[1]].state # "none"
    PROVE  KevInv'
<1>1. \A g \in Handlers : ContextOK(ctx[g])'
  <2> SUFFICES ASSUME NEW g \in Handlers PROVE ContextOK(ctx[g])'
      OBVIOUS
  <2>1. ContextOK(ctx[g])
        BY DEF KevInv
  <2> QED BY <2>1 DEF ContextOK, AtWork, InFlight, Regresses
<1>2. TypeOK'
      BY DEF KevInv, TypeOK
<1>3. ClaimsCovered'
      BY DEF KevInv, ClaimsCovered, Claimants
<1>4. JobAndRunAgree'
      BY DEF KevInv, JobAndRunAgree, SameVerdict
<1>5. Unrequested'
      BY DEF Unrequested
<1>6. /\ \A w \in Windows : RowOK(run[w])' /\ StagedFor(w)' /\ NotOlder(w)'
      /\ OneInFlight' /\ ActiveIsWhole'
      BY DEF KevInv, StagedFor, NotOlder, InFlight, Regresses, OneInFlight, ActiveIsWhole
<1> QED BY <1>1, <1>2, <1>3, <1>4, <1>5, <1>6 DEF KevInv

\* Waiting jobs are of requested runs.
LEMMA AddedJobs ==
    ASSUME KevInv, NEW w \in Windows, run[w].state # "none", NEW n \in Nat
    PROVE  /\ Added(<<w, n>>) \subseteq Windows \X Nat
           /\ \A id \in Added(<<w, n>>) : run[id[1]].state # "none"
<1>1. /\ queue \subseteq Windows \X Nat
      /\ \A id \in queue : run[id[1]].state # "none"
      BY DEF KevInv, TypeOK, Unrequested
<1>2. <<w, n>> \in Windows \X Nat /\ <<w, n>>[1] = w
      OBVIOUS
<1> QED BY <1>1, <1>2 DEF Added

LEMMA RelaySteps ==
    ASSUME KevInv, NEW w \in Windows, Publish(w) \/ Record(w) \/ Redeliver(w)
    PROVE  KevInv'
<1>1. /\ event \in [Windows -> {"none", "pending", "published", "processed"}]
      /\ job \in [Windows -> JobRows] /\ job[w] \in JobRows /\ attempt[w] \in Nat
      /\ queue \subseteq Windows \X Nat /\ \A id \in queue : run[id[1]].state # "none"
      /\ \A v \in Windows : run[v].state = "none" => event[v] = "none"
      /\ due \subseteq Windows /\ faults \in 0 .. MaxFaults
      BY DEF KevInv, TypeOK, Unrequested
<1>2. \A v \in Windows : SameVerdict(job[v], job[v])
      BY DEF SameVerdict
<1>3. CASE Publish(w)
  <2>1. event' \in [Windows -> {"none", "pending", "published", "processed"}]
        BY <1>1, <1>3 DEF Publish
  <2>2. run[w].state # "none" /\ \A v \in Windows : run[v].state = "none" => event'[v] = "none"
        BY <1>1, <1>3 DEF Publish
  <2>3. queue' \subseteq Windows \X Nat /\ \A id \in queue' : run[id[1]].state # "none"
        BY <1>3, <2>2, AddedJobs DEF Publish
  <2> QED BY <1>1, <1>2, <1>3, <2>1, <2>2, <2>3, AroundHandlers DEF Publish, catalog, environment
<1>4. CASE Record(w)
  <2>1. event' \in [Windows -> {"none", "pending", "published", "processed"}]
        BY <1>1, <1>4 DEF Record
  <2>2. run[w].state # "none" /\ \A v \in Windows : run[v].state = "none" => event'[v] = "none"
        BY <1>1, <1>4 DEF Record
  <2>3. WorkerOf \in [Handlers -> Workers] /\ enqueueQueued(job[w]) \in JobRows
        /\ SameVerdict(enqueueQueued(job[w]), job[w])
        BY <1>1, KevAssumption DEF enqueueQueued, JobRows, JobStatuses, SameVerdict
  <2>4. job' \in [Windows -> JobRows] /\ \A v \in Windows : SameVerdict(job'[v], job[v])
        BY <1>4, <2>3, JobKept DEF Record
  <2> QED BY <1>1, <1>4, <2>1, <2>2, <2>4, AroundHandlers DEF Record, catalog, environment
<1>5. CASE Redeliver(w)
  <2>1. run[w].state # "none"
        BY <1>5 DEF Redeliver, Redeliverable, InFlight
  <2>2. queue' \subseteq Windows \X Nat /\ \A id \in queue' : run[id[1]].state # "none"
        BY <1>1, <1>5, <2>1, AddedJobs DEF Redeliver
  <2> QED BY <1>1, <1>2, <1>5, <2>2, AroundHandlers DEF Redeliver, catalog, environment
<1> QED BY <1>3, <1>4, <1>5

LEMMA ClockSteps ==
    ASSUME KevInv, NEW w \in Windows, RetryDue(w) \/ LeaseExpires(w)
    PROVE  KevInv'
<1>1. /\ event \in [Windows -> {"none", "pending", "published", "processed"}]
      /\ job \in [Windows -> JobRows] /\ job[w] \in JobRows
      /\ queue \subseteq Windows \X Nat /\ \A id \in queue : run[id[1]].state # "none"
      /\ \A v \in Windows : run[v].state = "none" => event[v] = "none"
      /\ due \subseteq Windows /\ faults \in 0 .. MaxFaults
      BY DEF KevInv, TypeOK, Unrequested
<1>2. \A v \in Windows : SameVerdict(job[v], job[v])
      BY DEF SameVerdict
<1>3. CASE RetryDue(w)
      BY <1>1, <1>2, <1>3, AroundHandlers DEF RetryDue, catalog, delivery, environment
<1>4. CASE LeaseExpires(w)
  <2>1. faults' \in 0 .. MaxFaults
        BY <1>1, <1>4, KevAssumption DEF LeaseExpires
  <2>2. expire(job[w]) \in JobRows /\ SameVerdict(expire(job[w]), job[w])
        BY <1>1 DEF expire, JobRows, Leases, SameVerdict
  <2>3. job' \in [Windows -> JobRows] /\ \A v \in Windows : SameVerdict(job'[v], job[v])
        BY <1>4, <2>2, JobKept DEF LeaseExpires
  <2> QED BY <1>1, <1>4, <2>1, <2>3, AroundHandlers DEF LeaseExpires, catalog, delivery
<1> QED BY <1>3, <1>4

\* The restart with other settings moves the version of the source at most.
LEMMA DeployStep ==
    ASSUME KevInv, NEW settings \in [label : Versions, enabled : BOOLEAN], Deploy(settings)
    PROVE  KevInv'
<1>1. source \in Sources /\ source' \in Sources /\ source'.active = source.active
      BY DEF Deploy, KevInv, TypeOK, Sources
<1>2. UNCHANGED <<run, due, generation, entries, job, attempt, event, queue, ctx, faults>>
      BY DEF Deploy, delivery
<1>3. config' = settings /\ deploys' \in 0 .. MaxDeploys
      BY KevAssumption DEF Deploy, KevInv, TypeOK
<1>4. \A c : Regresses(c)' <=> Regresses(c)
      BY <1>1, <1>2 DEF Regresses
<1>5. \A g \in Handlers : ContextOK(ctx[g])'
  <2> SUFFICES ASSUME NEW g \in Handlers PROVE ContextOK(ctx[g])'
      OBVIOUS
  <2>1. ContextOK(ctx[g])
        BY DEF KevInv
  <2> QED BY <1>2, <1>4, <2>1 DEF ContextOK, AtWork, InFlight
<1>6. TypeOK'
      BY <1>1, <1>2, <1>3 DEF KevInv, TypeOK
<1>7. ClaimsCovered' /\ JobAndRunAgree' /\ Unrequested'
      BY <1>2 DEF KevInv, ClaimsCovered, Claimants, JobAndRunAgree, Unrequested
<1>8. /\ \A w \in Windows : RowOK(run[w])' /\ StagedFor(w)' /\ NotOlder(w)'
      /\ OneInFlight' /\ ActiveIsWhole'
      BY <1>1, <1>2, <1>4 DEF KevInv, StagedFor, NotOlder, InFlight, OneInFlight, ActiveIsWhole
<1> QED BY <1>5, <1>6, <1>7, <1>8 DEF KevInv

\* A process dies: its handlers are idle, their jobs may come back.
LEMMA CrashStep ==
    ASSUME KevInv, NEW k \in Workers, Crash(k)
    PROVE  KevInv'
<1>1. PICK dead \in SUBSET Handlers :
        /\ ctx' = [h \in Handlers |-> IF h \in dead THEN Idle ELSE ctx[h]]
        /\ \A h \in dead : ctx[h].pc # "idle"
        /\ \E stalled \in SUBSET {<<ctx[h].run, ctx[h].id>> : h \in dead} :
              queue' = queue \cup stalled
      BY DEF Crash
<1>2. /\ UNCHANGED <<run, due, generation, entries, source, job, attempt, event, config, deploys>>
      /\ faults' \in 0 .. MaxFaults
      BY KevAssumption DEF Crash, catalog, KevInv, TypeOK
<1>3. /\ ctx' \in [Handlers -> Contexts]
      /\ \A g \in Handlers : ctx'[g] = Idle \/ ctx'[g] = ctx[g]
      BY <1>1, ModelValues DEF KevInv, TypeOK
<1>4. \A g \in Handlers : ContextOK(ctx[g])'
  <2> SUFFICES ASSUME NEW g \in Handlers PROVE ContextOK(ctx[g])'
      OBVIOUS
  <2>1. ContextOK(ctx'[g])
        BY <1>3, IdleOK DEF KevInv
  <2> QED BY <1>2, <2>1 DEF ContextOK, AtWork, InFlight, Regresses
<1>5. queue' \subseteq Windows \X Nat /\ \A id \in queue' : run[id[1]].state # "none"
  <2>1. \A h \in dead : /\ ctx[h].run \in Windows /\ ctx[h].id \in Nat
                        /\ run[ctx[h].run].state # "none"
        BY <1>1, Working DEF RunOf, Contexts
  <2>2. queue \subseteq Windows \X Nat /\ \A id \in queue : run[id[1]].state # "none"
        BY DEF KevInv, TypeOK, Unrequested
  <2> QED BY <1>1, <2>1, <2>2
<1>6. TypeOK'
  <2>1. \A g \in Handlers : ctx'[g].pc # "idle" => ctx'[g].run \in Windows
        BY <1>4 DEF ContextOK, AtWork
  <2> QED BY <1>2, <1>3, <1>5, <2>1 DEF KevInv, TypeOK
<1>7. ClaimsCovered'
  <2>1. \A g \in Handlers : ctx'[g].pc \in ClaimPcs =>
           ctx[g].pc \in ClaimPcs /\ ctx'[g].run = ctx[g].run
        BY <1>3, IdleOK
  <2> QED BY <1>2, <1>3, <2>1, ClaimsKept
<1>8. Unrequested'
      BY <1>2, <1>5 DEF KevInv, Unrequested
<1>9. JobAndRunAgree'
      BY <1>2 DEF KevInv, JobAndRunAgree
<1>10. /\ \A w \in Windows : RowOK(run[w])' /\ StagedFor(w)' /\ NotOlder(w)'
       /\ OneInFlight' /\ ActiveIsWhole'
      BY <1>2 DEF KevInv, StagedFor, NotOlder, InFlight, Regresses, OneInFlight, ActiveIsWhole
<1> QED BY <1>4, <1>6, <1>7, <1>8, <1>9, <1>10 DEF KevInv

\* A request finds no run in flight; nothing refers to the new one yet.
LEMMA RequestStep ==
    ASSUME KevInv, NEW w \in Windows, requestSync(w)
    PROVE  KevInv'
<1>1. PICK row : row = [NoRun EXCEPT !.state = "requested", !.version = 1, !.label = config.label]
      OBVIOUS
<1>2. /\ run' = [run EXCEPT ![w] = row] /\ event' = [event EXCEPT ![w] = "pending"]
      /\ UNCHANGED <<due, generation, entries, source, job, attempt, queue, ctx, config, faults, deploys>>
      BY <1>1 DEF requestSync, catalog, environment
<1>3. /\ row \in Runs /\ row.state = "requested" /\ row.version = 1 /\ row.snap = NoCatalog
      /\ row.exec = 0
  <2>1. config.label \in Versions
        BY DEF KevInv, TypeOK
  <2> QED BY <1>1, <2>1, ModelValues DEF Runs, PreSnapshot
<1>4. run[w].state = "none" /\ \A v \in Windows : ~InFlight(v)
  <2>1. \A v \in Windows : run[v].state # "none" => v < w /\ ~InFlight(v)
        BY DEF requestSync, MayRequest
  <2> QED BY <2>1 DEF Windows, InFlight
<1>5. run \in [Windows -> Runs] /\ event \in [Windows -> {"none", "pending", "published", "processed"}]
      BY DEF KevInv, TypeOK
<1>6. /\ run' \in [Windows -> Runs]
      /\ event' \in [Windows -> {"none", "pending", "published", "processed"}]
      /\ \A v \in Windows : run'[v] = IF v = w THEN row ELSE run[v]
      /\ \A v \in Windows : event'[v] = IF v = w THEN "pending" ELSE event[v]
      BY <1>2, <1>3, <1>5
<1>7. /\ run[w] \in Runs /\ RowOK(run[w]) /\ run[w].snap = NoCatalog
      /\ generation[w] = "none" /\ entries[w] = {}
      BY <1>4 DEF KevInv, TypeOK, RowOK, StagedFor
<1>8. source.active # w /\ (source.active # 0 => source.active \in Windows)
      BY <1>4 DEF KevInv, ActiveIsWhole, TypeOK, Sources, Windows
<1>9. \A c : Regresses(c)' <=> Regresses(c)
      BY <1>2, <1>6, <1>8 DEF Regresses
<1>10. \A g \in Handlers : ContextOK(ctx[g])'
  <2> SUFFICES ASSUME NEW g \in Handlers, ctx[g].pc # "idle" PROVE ContextOK(ctx[g])'
      BY <1>2 DEF ContextOK
  <2>1. ContextOK(ctx[g]) /\ ctx[g].run \in Windows /\ ctx[g].run # w
        BY <1>4 DEF KevInv, ContextOK, AtWork
  <2>2. run'[ctx[g].run] = run[ctx[g].run] /\ ctx'[g] = ctx[g]
        BY <1>2, <1>6, <2>1
  <2> QED BY <1>9, <2>1, <2>2 DEF ContextOK, AtWork, InFlight
<1>11. TypeOK'
       BY <1>2, <1>6 DEF KevInv, TypeOK
<1>12. Unrequested'
       BY <1>2, <1>3, <1>6 DEF KevInv, Unrequested
<1>13. \A v \in Windows : RowOK(run[v])' /\ StagedFor(v)' /\ NotOlder(v)'
  <2> SUFFICES ASSUME NEW v \in Windows PROVE RowOK(run[v])' /\ StagedFor(v)' /\ NotOlder(v)'
      OBVIOUS
  <2>1. CASE v = w
        BY <1>2, <1>3, <1>6, <1>7, <2>1
        DEF RowOK, StagedFor, NotOlder, PreSnapshot, PostSnapshot
  <2>2. CASE v # w
    <3>1. RowOK(run[v]) /\ StagedFor(v) /\ NotOlder(v)
          BY DEF KevInv
    <3> QED BY <1>2, <1>6, <1>9, <2>2, <3>1 DEF StagedFor, NotOlder, InFlight
  <2> QED BY <2>1, <2>2
<1>14. OneInFlight'
       BY <1>4, <1>6 DEF OneInFlight, InFlight
<1>15. JobAndRunAgree'
       BY <1>2, <1>3, <1>4, <1>6 DEF KevInv, JobAndRunAgree, Successes, Failures
<1>16. ActiveIsWhole'
       BY <1>2, <1>6, <1>7, <1>8 DEF KevInv, ActiveIsWhole
<1>17. ClaimsCovered'
  <2> SUFFICES ASSUME NEW v \in Windows
               PROVE  run'[v].exec + Cardinality(Claimants(v)) <= attempt[v]
      BY <1>2 DEF ClaimsCovered, Claimants
  <2>1. run[v].exec + Cardinality(Claimants(v)) <= attempt[v] /\ attempt[v] \in Nat
        BY DEF KevInv, ClaimsCovered, TypeOK
  <2>2. CASE v = w
    <3>1. Claimants(w) = {}
          BY <1>4 DEF KevInv, ContextOK, AtWork, Claimants, ClaimPcs
    <3> QED BY <1>3, <1>6, <2>1, <2>2, <3>1, FS_EmptySet
  <2>3. CASE v # w
        BY <1>6, <2>1, <2>3
  <2> QED BY <2>2, <2>3
<1> QED BY <1>10, <1>11, <1>12, <1>13, <1>14, <1>15, <1>16, <1>17 DEF KevInv

-----------------------------------------------------------------------------
(* The delivery up to the first read of the run.                           *)

LEMMA TakeStep ==
    ASSUME KevInv, NEW h \in Handlers, NEW id \in queue, Take(h, id)
    PROVE  KevInv'
<1>1. id[1] \in Windows /\ id[2] \in Nat /\ run[id[1]].state # "none"
      BY DEF KevInv, TypeOK, Unrequested
<1>2. PICK d : d = [Idle EXCEPT !.pc = "lookup", !.run = id[1], !.id = id[2]]
      OBVIOUS
<1>3. d \in Contexts /\ d.pc = "lookup" /\ d.run = id[1] /\ d.copy = NoRun
  <2>1. PICK w, n : w = id[1] /\ n = id[2]
        OBVIOUS
  <2>2. w \in 0 .. LastWindow /\ n \in Nat /\ Idle \in Contexts
        BY <1>1, <2>1, ModelValues, KevAssumption DEF Windows
  <2>3. d = [Idle EXCEPT !.pc = "lookup", !.run = w, !.id = n]
        BY <1>2, <2>1
  <2>4. d \in Contexts /\ d.pc = "lookup" /\ d.run = w /\ d.copy = Idle.copy
        BY <2>2, <2>3 DEF Contexts, Reads
  <2> QED BY <2>1, <2>4, ModelValues
<1>4. Behind(NoRun, run[id[1]])
  <2>1. run[id[1]] \in Runs /\ RowOK(run[id[1]])
        BY <1>1 DEF KevInv, TypeOK
  <2> QED BY <1>1, <2>1, ModelValues DEF Behind, RowOK, Runs, PreSnapshot, PostSnapshot
<1>5. ContextOK(d)
      BY <1>1, <1>3, <1>4 DEF ContextOK, AtWork, CopyAt
<1>6. /\ ctx' = [ctx EXCEPT ![h] = d] /\ queue' \subseteq queue
      /\ UNCHANGED <<run, due, generation, entries, source, job, attempt, event, config, faults, deploys>>
      BY <1>2 DEF Take, Move, catalog, environment
<1>7. /\ queue' \subseteq Windows \X Nat /\ \A q \in queue' : run[q[1]].state # "none"
      /\ faults' \in 0 .. MaxFaults /\ job' \in [Windows -> JobRows]
      /\ \A v \in Windows : SameVerdict(job'[v], job[v])
      BY <1>6 DEF KevInv, TypeOK, Unrequested, SameVerdict
<1> QED BY <1>3, <1>5, <1>6, <1>7, ContextMoves DEF ClaimPcs

LEMMA LookupStep ==
    ASSUME KevInv, NEW h \in Handlers, Lookup(h)
    PROVE  KevInv'
<1>1. PICK w \in Windows : w = RunOf(h) /\ run[w].state # "none" /\ attempt[w] \in Nat
      BY Working DEF Lookup, At
<1>2. ctx[h].pc = "lookup" /\ ctx[h] \in Contexts /\ ContextOK(ctx[h])
      BY Working DEF Lookup, At
<1>3. /\ UNCHANGED <<run, due, generation, entries, source, attempt, event, config, faults, deploys>>
      /\ job' = [job EXCEPT ![w] = enqueueQueued(job[w])]
      BY <1>1 DEF Lookup, catalog, environment
<1>4. job' \in [Windows -> JobRows] /\ \A v \in Windows : SameVerdict(job'[v], job[v])
  <2>1. enqueueQueued(job[w]) \in JobRows /\ SameVerdict(enqueueQueued(job[w]), job[w])
        BY DEF KevInv, TypeOK, enqueueQueued, JobRows, JobStatuses, SameVerdict
  <2> QED BY <1>3, <2>1, JobKept
<1>5. queue' \subseteq Windows \X Nat /\ \A q \in queue' : run[q[1]].state # "none"
  <2>1. queue' = queue \/ queue' = Added(<<w, attempt[w]>>)
        BY <1>1 DEF Lookup
  <2>2. queue \subseteq Windows \X Nat /\ \A q \in queue : run[q[1]].state # "none"
        BY DEF KevInv, TypeOK, Unrequested
  <2> QED BY <1>1, <2>1, <2>2, AddedJobs
<1>6. PICK d : d = [ctx[h] EXCEPT !.pc = "claim"]
      OBVIOUS
<1>7. d \in Contexts /\ d.pc = "claim" /\ d.run = ctx[h].run /\ d.copy = ctx[h].copy
      BY <1>2, <1>6 DEF Contexts, Writes
<1>8. ContextOK(d) /\ d.pc \notin ClaimPcs
      BY <1>2, <1>7 DEF ContextOK, AtWork, CopyAt, ClaimPcs
<1>9. ctx' = [ctx EXCEPT ![h] = Idle] \/ ctx' = [ctx EXCEPT ![h] = d]
      BY <1>6 DEF Lookup, Move
<1>10. faults' \in 0 .. MaxFaults
       BY <1>3 DEF KevInv, TypeOK
<1> QED BY <1>3, <1>4, <1>5, <1>7, <1>8, <1>9, <1>10, IdleOK, ContextMoves

\* A claim counts one attempt and gives its handler one fetch to spend.
LEMMA ClaimStep ==
    ASSUME KevInv, NEW h \in Handlers, Claim(h)
    PROVE  KevInv'
<1>1. PICK w \in Windows : /\ w = RunOf(h) /\ w = ctx[h].run /\ run[w].state # "none"
                           /\ attempt[w] \in Nat /\ job[w] \in JobRows /\ WorkerOf[h] \in Workers
      BY Working DEF Claim, At
<1>2. ctx[h].pc = "claim" /\ ctx[h] \in Contexts /\ ContextOK(ctx[h])
      BY Working DEF Claim, At
<1>3. PICK jr \in JobRows : jr = claimExecution(job[w], WorkerOf[h]) /\ SameVerdict(jr, job[w])
      BY <1>1, JobOperations
<1>4. /\ UNCHANGED <<run, due, generation, entries, source, event, queue, config, faults, deploys>>
      /\ job' = [job EXCEPT ![w] = jr]
      BY <1>1, <1>3 DEF Claim, SetJob, catalog, delivery, environment
<1>5. job' \in [Windows -> JobRows] /\ \A v \in Windows : SameVerdict(job'[v], job[v])
      BY <1>3, <1>4, JobKept
<1>6. /\ queue' \subseteq Windows \X Nat /\ \A q \in queue' : run[q[1]].state # "none"
      /\ faults' \in 0 .. MaxFaults
      BY <1>4 DEF KevInv, TypeOK, Unrequested
<1>7. CASE Claimable(job[w])
  <2>1. PICK d : d = [ctx[h] EXCEPT !.pc = "precheck"]
        OBVIOUS
  <2>2. d \in Contexts /\ d.pc = "precheck" /\ d.run = ctx[h].run /\ d.copy = ctx[h].copy
        BY <1>2, <2>1 DEF Contexts, Reads
  <2>3. ContextOK(d)
        BY <1>2, <2>2 DEF ContextOK, AtWork, CopyAt
  <2>4. ctx' = [ctx EXCEPT ![h] = d] /\ attempt' = [attempt EXCEPT ![w] = attempt[w] + 1]
        BY <1>1, <1>7, <2>1 DEF Claim, Move, Counted
  <2>5. /\ attempt \in [Windows -> Nat] /\ ctx \in [Handlers -> Contexts]
        BY DEF KevInv, TypeOK
  <2>6. attempt' \in [Windows -> Nat]
        BY <2>4, <2>5
  <2>7. ClaimsCovered'
    <3> SUFFICES ASSUME NEW v \in Windows
                 PROVE  run[v].exec + Cardinality(Claimants(v)') <= attempt'[v]
        BY <1>4 DEF ClaimsCovered
    <3>1. /\ run[v].exec + Cardinality(Claimants(v)) <= attempt[v]
          /\ run[v].exec \in Nat /\ attempt[v] \in Nat
          BY DEF KevInv, ClaimsCovered, TypeOK, Runs
    <3>2. IsFiniteSet(Claimants(v)) /\ Cardinality(Claimants(v)) \in Nat
          BY FS_Subset, FS_CardinalityType, KevAssumption DEF Claimants
    <3>3. CASE v = w
      <4>1. h \notin Claimants(w)
            BY <1>2 DEF Claimants, ClaimPcs
      <4>2. Claimants(w)' = Claimants(w) \cup {h}
            BY <1>1, <2>2, <2>4, <2>5 DEF Claimants, ClaimPcs
      <4>3. Cardinality(Claimants(w)') = Cardinality(Claimants(w)) + 1
            BY <3>2, <3>3, <4>1, <4>2, FS_AddElement
      <4> QED BY <2>4, <2>5, <3>1, <3>2, <3>3, <4>3
    <3>4. CASE v # w
      <4>1. Claimants(v)' = Claimants(v)
            BY <1>1, <1>2, <2>2, <2>4, <2>5, <3>4 DEF Claimants, ClaimPcs
      <4> QED BY <2>4, <2>5, <3>1, <3>4, <4>1
    <3> QED BY <3>3, <3>4
  <2> QED BY <1>4, <1>5, <1>6, <2>2, <2>3, <2>4, <2>6, <2>7, HandlerMoves
<1>8. CASE ~Claimable(job[w])
  <2>1. ctx' = [ctx EXCEPT ![h] = Idle] /\ attempt' = attempt
        BY <1>1, <1>8 DEF Claim, Move
  <2> QED BY <1>4, <1>5, <1>6, <2>1, IdleOK, ContextMoves
<1> QED BY <1>7, <1>8

\* The precheck reads the run; a delivery that goes on has the present row.
LEMMA PrecheckStep ==
    ASSUME KevInv, NEW h \in Handlers, Precheck(h)
    PROVE  KevInv'
<1>1. PICK w \in Windows : /\ w = RunOf(h) /\ w = ctx[h].run /\ run[w].state # "none"
                           /\ attempt[w] \in Nat /\ job[w] \in JobRows /\ run[w] \in Runs
                           /\ Behind(run[w], run[w])
      BY Working DEF Precheck, At
<1>2. ctx[h].pc = "precheck" /\ ctx[h] \in Contexts
      BY Working DEF Precheck, At
<1>3. UNCHANGED <<run, due, catalog, attempt, delivery, environment>>
      BY DEF Precheck
<1>4. PICK c : c = [ctx[h] EXCEPT !.copy = run[w], !.attempt = attempt[w]]
      OBVIOUS
<1>5. c \in Contexts /\ c.run = w /\ c.copy = run[w]
      BY <1>1, <1>2, <1>4 DEF Contexts
<1>6. AtWork(c)
      BY <1>1, <1>5 DEF AtWork
<1>7. CASE Settled(run[w]) /\ reconcileTerminal(h, run[w])
      BY <1>1, <1>2, <1>3, <1>7, ReconcileMoves DEF Settled
<1>8. CASE job' = job /\ \/ ctx' = [ctx EXCEPT ![h] = Idle]
                         \/ ctx' = [ctx EXCEPT ![h] = Reporting(c, "redispatch")]
                         \/ ctx' = [ctx EXCEPT ![h] = Dispatched(c)]
  <2>1. SameVerdict(job[w], job[w])
        BY DEF SameVerdict
  <2>2. CASE ctx' = [ctx EXCEPT ![h] = Idle]
        BY <1>1, <1>2, <1>3, <1>8, <2>1, <2>2, IdleOK, JobMoves
  <2>3. CASE ctx' = [ctx EXCEPT ![h] = Reporting(c, "redispatch")]
    <3>1. PICK d \in Contexts : d = Reporting(c, "redispatch") /\ ContextOK(d) /\ d.pc \notin ClaimPcs
          BY <1>1, <1>5, ReportingOK DEF Reported
    <3> QED BY <1>1, <1>2, <1>3, <1>8, <2>1, <2>3, <3>1, JobMoves
  <2>4. CASE ctx' = [ctx EXCEPT ![h] = Dispatched(c)]
    <3>1. PICK d \in Contexts : d = Dispatched(c) /\ ContextOK(d) /\ (d.pc # "idle" => d.run = w)
          BY <1>5, <1>6, DispatchedOK
    <3>2. d.pc \in ClaimPcs => ctx[h].pc \in ClaimPcs /\ d.run = ctx[h].run
          BY <1>1, <1>2, <3>1 DEF ClaimPcs
    <3> QED BY <1>1, <1>2, <1>3, <1>8, <2>1, <2>4, <3>1, <3>2, JobMoves
  <2> QED BY <1>8, <2>2, <2>3, <2>4
<1> QED BY <1>1, <1>4, <1>7, <1>8 DEF Precheck, Move

-----------------------------------------------------------------------------
(* From the claim of the fetch to the parsed snapshot.                     *)

RunStates == {"none"} \cup PreSnapshot \cup PostSnapshot \cup Terminal

LEMMA ToFields ==
    ASSUME NEW row \in Runs, NEW s \in RunStates
    PROVE  /\ To(row, s) \in Runs /\ To(row, s).state = s /\ To(row, s).version = row.version + 1
           /\ To(row, s).snap = row.snap /\ To(row, s).exec = row.exec
<1>1. To(row, s) = [row EXCEPT !.state = s, !.version = row.version + 1]
      BY DEF To, Runs
<1>2. row.version + 1 \in Nat
      BY DEF Runs
<1> QED BY <1>1, <1>2 DEF Runs, RunStates

\* A transition that counts no fetch.
LEMMA WriteMoves ==
    ASSUME KevInv, NEW h \in Handlers, NEW w \in Windows, InFlight(w),
           NEW row \in Runs, Advances(run[w], row), run' = [run EXCEPT ![w] = row],
           row.exec = run[w].exec,
           NEW d \in Contexts, Wrote(d, w, row), d.pc \notin ClaimPcs, ctx' = [ctx EXCEPT ![h] = d],
           NEW jr \in JobRows, job' = [job EXCEPT ![w] = jr],
           jr.status = "succeeded" <=> row.state \in Successes,
           jr.status = "failed" <=> row.state \in Failures,
           NEW g \in {"none", "staging", "complete", "active", "superseded"},
           generation' = [generation EXCEPT ![w] = g],
           \/ g = generation[w]
           \/ g \in {"staging", "complete"} /\ row.snap # NoCatalog /\ ~Regresses(row.snap),
           due' \subseteq Windows,
           UNCHANGED <<entries, source, attempt, event, queue, config, faults, deploys>>
    PROVE  KevInv'
<1>1. run \in [Windows -> Runs] /\ ctx \in [Handlers -> Contexts]
      BY DEF KevInv, TypeOK
<1>2. /\ ctx' \in [Handlers -> Contexts]
      /\ \A v \in Windows : run'[v].exec = run[v].exec
      /\ \A f \in Handlers : ctx'[f] = IF f = h THEN d ELSE ctx[f]
      BY <1>1
<1>3. ClaimsCovered'
      BY <1>2, ClaimsKept
<1> QED BY <1>3, RunMoves

\* A transition under a run in flight that leaves the job alone.
LEMMA StageMoves ==
    ASSUME KevInv, NEW h \in Handlers, NEW w \in Windows, InFlight(w),
           NEW row \in Runs, Advances(run[w], row), row.state \notin Terminal,
           run' = [run EXCEPT ![w] = row], row.exec = run[w].exec,
           NEW d \in Contexts, Wrote(d, w, row), d.pc \notin ClaimPcs, ctx' = [ctx EXCEPT ![h] = d],
           NEW g \in {"none", "staging", "complete", "active", "superseded"},
           generation' = [generation EXCEPT ![w] = g],
           \/ g = generation[w]
           \/ g \in {"staging", "complete"} /\ row.snap # NoCatalog /\ ~Regresses(row.snap),
           UNCHANGED <<job, due, entries, source, attempt, event, queue, config, faults, deploys>>
    PROVE  KevInv'
<1>1. job \in [Windows -> JobRows] /\ job[w] \in JobRows /\ due' \subseteq Windows
      BY DEF KevInv, TypeOK
<1>2. job' = [job EXCEPT ![w] = job[w]]
      BY <1>1
<1>3. job[w].status # "succeeded" /\ job[w].status # "failed"
      BY DEF KevInv, JobAndRunAgree, InFlight, Terminal
<1>4. row.state \notin Successes /\ row.state \notin Failures
      BY DEF Terminal
<1> QED BY <1>1, <1>2, <1>3, <1>4, WriteMoves

\* The fetch is claimed: the handler spends the claim it held.
LEMMA ClaimFetchStep ==
    ASSUME KevInv, NEW h \in Handlers, ClaimFetch(h)
    PROVE  KevInv'
<1>1. PICK w \in Windows : /\ w = RunOf(h) /\ w = ctx[h].run /\ run[w].state # "none"
                           /\ job[w] \in JobRows /\ run[w] \in Runs /\ Behind(run[w], run[w])
      BY Working DEF ClaimFetch, At
<1>2. PICK c \in Contexts : c = ctx[h] /\ c.pc = "claim_fetch" /\ ContextOK(c) /\ c.run = w
      BY <1>1, Working DEF ClaimFetch, At
<1>3. UNCHANGED <<generation, entries, source, job, attempt, event, queue, config, faults, deploys>>
      BY DEF ClaimFetch, catalog, delivery, environment
<1>4. CASE Current(h)
  <2>1. run[w] = c.copy /\ c.copy.state \in {"requested", "retry_wait"}
        BY <1>1, <1>2, <1>4, CurrentIsCopy DEF ContextOK, CopyAt
  <2>2. PICK row : row = [To(c.copy, "fetching") EXCEPT !.exec = @ + 1]
        OBVIOUS
  <2>3. /\ row \in Runs /\ row.state = "fetching" /\ row.version = c.copy.version + 1
        /\ row.snap = c.copy.snap /\ row.exec = c.copy.exec + 1
    <3>1. PICK t \in Runs : /\ t = To(c.copy, "fetching") /\ t.state = "fetching"
                            /\ t.version = c.copy.version + 1
                            /\ t.snap = c.copy.snap /\ t.exec = c.copy.exec
          BY <1>1, <2>1, ToFields DEF RunStates, PreSnapshot
    <3>2. row = [t EXCEPT !.exec = t.exec + 1]
          BY <2>2, <3>1 DEF Runs
    <3> QED BY <3>1, <3>2 DEF Runs
  <2>4. InFlight(w) /\ Advances(run[w], row)
    <3>1. RowOK(c.copy)
          BY <1>2 DEF ContextOK, AtWork, Behind
    <3>2. c.copy.version \in Nat
          BY <1>1, <2>1 DEF Runs
    <3> QED BY <2>1, <2>3, <3>1, <3>2
            DEF InFlight, Advances, RowOK, PreSnapshot, PostSnapshot, Terminal, Successes, Failures
  <2>5. PICK d : d = IF row.exec > c.attempt THEN Idle ELSE [c EXCEPT !.copy = row, !.pc = "fetch"]
        OBVIOUS
  <2>6. d \in Contexts /\ Wrote(d, w, row) /\ d.pc \notin ClaimPcs
    <3>1. CASE d = Idle
          BY <3>1, IdleOK, ModelValues DEF Wrote
    <3>2. CASE d = [c EXCEPT !.copy = row, !.pc = "fetch"]
      <4>1. d \in Contexts /\ d.pc = "fetch" /\ d.run = w /\ d.copy = row
            BY <1>2, <2>3, <3>2 DEF Contexts, Reads
      <4> QED BY <2>3, <4>1 DEF Wrote, CopyAt, ClaimPcs
    <3> QED BY <2>5, <3>1, <3>2
  <2>7. /\ run' = [run EXCEPT ![w] = row] /\ due' \subseteq due /\ ctx' = [ctx EXCEPT ![h] = d]
        BY <1>1, <1>2, <1>4, <2>2, <2>5 DEF ClaimFetch, SetRun, Move
  <2>8. ClaimsCovered'
    <3> SUFFICES ASSUME NEW v \in Windows
                 PROVE  run'[v].exec + Cardinality(Claimants(v)') <= attempt[v]
        BY <1>3 DEF ClaimsCovered
    <3>0. run \in [Windows -> Runs] /\ ctx \in [Handlers -> Contexts]
          BY DEF KevInv, TypeOK
    <3>1. /\ run[v].exec + Cardinality(Claimants(v)) <= attempt[v]
          /\ run[v].exec \in Nat /\ attempt[v] \in Nat
          BY DEF KevInv, ClaimsCovered, TypeOK, Runs
    <3>2. IsFiniteSet(Claimants(v)) /\ Cardinality(Claimants(v)) \in Nat
          BY FS_Subset, FS_CardinalityType, KevAssumption DEF Claimants
    <3>3. CASE v = w
      <4>1. h \in Claimants(w)
            BY <1>1, <1>2 DEF Claimants, ClaimPcs
      <4>2. Claimants(w)' = Claimants(w) \ {h}
            BY <2>6, <2>7, <3>0 DEF Claimants
      <4>3. Cardinality(Claimants(w)') = Cardinality(Claimants(w)) - 1
            BY <3>2, <3>3, <4>1, <4>2, FS_RemoveElement
      <4>4. run'[w].exec = run[w].exec + 1
            BY <2>1, <2>3, <2>7, <3>0
      <4> QED BY <3>1, <3>2, <3>3, <4>3, <4>4
    <3>4. CASE v # w
      <4>1. Claimants(v)' = Claimants(v)
            BY <1>1, <1>2, <2>6, <2>7, <3>0, <3>4 DEF Claimants
      <4>2. run'[v] = run[v]
            BY <2>7, <3>0, <3>4
      <4> QED BY <3>1, <4>1, <4>2
    <3> QED BY <3>3, <3>4
  <2>9. PICK jr \in JobRows, g \in {"none", "staging", "complete", "active", "superseded"} :
           /\ jr = job[w] /\ job' = [job EXCEPT ![w] = jr]
           /\ g = generation[w] /\ generation' = [generation EXCEPT ![w] = g]
           /\ due' \subseteq Windows
        BY <1>3, <2>7 DEF KevInv, TypeOK
  <2>10. /\ jr.status = "succeeded" <=> row.state \in Successes
         /\ jr.status = "failed" <=> row.state \in Failures
         BY <2>3, <2>4, <2>9 DEF KevInv, JobAndRunAgree, InFlight, Terminal, Successes, Failures
  <2>11. UNCHANGED <<entries, source, attempt, event, queue, config, faults, deploys>>
         BY <1>3
  <2>12. row \in Runs /\ d \in Contexts
         BY <2>3, <2>6
  <2> QED BY <2>4, <2>6, <2>7, <2>8, <2>9, <2>10, <2>11, <2>12, RunMoves
<1>5. CASE ~Current(h)
  <2>1. PICK e : e = [c EXCEPT !.copy = run[w]]
        OBVIOUS
  <2>2. e \in Contexts /\ e.run = w /\ e.copy = run[w]
        BY <1>1, <1>2, <2>1 DEF Contexts
  <2>3. AtWork(e)
        BY <1>1, <2>2 DEF AtWork
  <2>4. PICK d \in Contexts : d = Dispatched(e) /\ ContextOK(d) /\ (d.pc # "idle" => d.run = w)
        BY <2>2, <2>3, DispatchedOK
  <2>5. ctx' = [ctx EXCEPT ![h] = d] /\ UNCHANGED <<run, due>>
        BY <1>1, <1>2, <1>5, <2>1, <2>4 DEF ClaimFetch, Move
  <2>6. d.pc \in ClaimPcs => ctx[h].pc \in ClaimPcs /\ d.run = ctx[h].run
        BY <1>1, <1>2, <2>4 DEF ClaimPcs
  <2>7. SameVerdict(job[w], job[w])
        BY DEF SameVerdict
  <2>8. UNCHANGED <<run, due, catalog, attempt, delivery, environment>> /\ job' = job
        BY <1>3, <2>5 DEF catalog, delivery, environment
  <2>9. ctx[h].pc # "idle" /\ ContextOK(d) /\ RunOf(h) = w /\ job[w] \in JobRows
        BY <1>1, <1>2, <2>4
  <2> QED BY <2>5, <2>6, <2>7, <2>8, <2>9, JobMoves
<1> QED BY <1>4, <1>5

\* A failure found by a step that has renewed the lease.
LEMMA RenewedFailure ==
    ASSUME KevInv, NEW h \in Handlers, ctx[h].pc # "idle", NEW layer \in Layers, NEW code \in Codes,
           Renewed(h, layer, Failing(ctx[h], code, layer)),
           UNCHANGED <<run, due, catalog, attempt, delivery, environment>>
    PROVE  KevInv'
<1>1. PICK d \in Contexts : d = Failing(ctx[h], code, layer) /\ ContextOK(d) /\ d.pc \notin ClaimPcs
      BY Working, FailingOK
<1>2. Renewed(h, layer, d)
      BY <1>1
<1> QED BY <1>1, <1>2, RenewedMoves

LEMMA FetchStep ==
    ASSUME KevInv, NEW h \in Handlers, FetchCatalog(h)
    PROVE  KevInv'
<1>1. PICK c \in Contexts : c = ctx[h] /\ c.pc = "fetch" /\ ContextOK(c)
      BY Working DEF FetchCatalog, At
<1>2. ctx[h].pc # "idle" /\ UNCHANGED <<run, due, catalog, attempt, delivery, environment>>
      BY <1>1 DEF FetchCatalog
<1>3. ASSUME NEW k \in Catalogs,
             Renewed(h, "pre", [ctx[h] EXCEPT !.pc = "store", !.got = k, !.seen = source])
      PROVE  KevInv'
  <2>1. PICK d : d = [c EXCEPT !.pc = "store", !.got = k, !.seen = source]
        OBVIOUS
  <2>2. /\ d \in Contexts /\ d.pc = "store" /\ d.run = c.run /\ d.copy = c.copy /\ d.got = k
    <3>1. source \in Sources
          BY DEF KevInv, TypeOK
    <3> QED BY <2>1, <3>1 DEF Contexts, Writes
  <2>3. ContextOK(d) /\ d.pc \notin ClaimPcs
        BY <1>1, <2>2 DEF ContextOK, AtWork, CopyAt, ClaimPcs
  <2>4. Renewed(h, "pre", d)
        BY <1>1, <1>3, <2>1
  <2> QED BY <1>2, <2>2, <2>3, <2>4, RenewedMoves DEF Layers
<1>4. ASSUME NEW code \in {"retryable", "final", "bad"}, Renewed(h, "pre", Failing(ctx[h], code, "pre"))
      PROVE  KevInv'
      BY <1>2, <1>4, RenewedFailure DEF Layers, Codes
<1> QED BY <1>3, <1>4 DEF FetchCatalog

\* The snapshot is stored, or the run found nothing new.
LEMMA StoreStep ==
    ASSUME KevInv, NEW h \in Handlers, StoreSnapshot(h)
    PROVE  KevInv'
<1>1. PICK w \in Windows : /\ w = RunOf(h) /\ w = ctx[h].run /\ job[w] \in JobRows
                           /\ run[w] \in Runs /\ WorkerOf[h] \in Workers /\ JobOf(h) = job[w]
      BY Working DEF StoreSnapshot, At, JobOf
<1>2. PICK c \in Contexts : /\ c = ctx[h] /\ c.pc = "store" /\ ContextOK(c) /\ c.run = w
                            /\ AtWork(c) /\ c.copy.state = "fetching" /\ c.got \in Catalogs
      BY <1>1, Working DEF StoreSnapshot, At, ContextOK, CopyAt
<1>3. UNCHANGED <<due, generation, entries, source, attempt, event, queue, config, faults, deploys>>
      BY DEF StoreSnapshot, catalog, delivery, environment
<1>4. ctx[h].pc # "idle"
      BY <1>2
<1>5. PICK g \in {"none", "staging", "complete", "active", "superseded"} :
         g = generation[w] /\ generation' = [generation EXCEPT ![w] = g]
      BY <1>3 DEF KevInv, TypeOK
<1>6. CASE Unchanged(h) /\ Confirms(h)
  <2>1. run[w] = c.copy /\ OwnedBy(job[w], WorkerOf[h]) /\ InFlight(w)
        BY <1>1, <1>2, <1>4, <1>6, CurrentIsCopy, OwnedInFlight DEF Confirms, Owned
  <2>2. PICK row \in Runs : /\ row = To(c.copy, "not_modified") /\ row.state = "not_modified"
                            /\ row.version = c.copy.version + 1
                            /\ row.snap = c.copy.snap /\ row.exec = c.copy.exec
        BY <1>1, <2>1, ToFields DEF RunStates, Terminal, Successes
  <2>3. Advances(run[w], row)
        BY <1>1, <2>1, <2>2 DEF Advances, RowOK, PreSnapshot, PostSnapshot, Runs
  <2>4. PICK jr \in JobRows : jr = markSucceeded(job[w], WorkerOf[h]) /\ jr.status = "succeeded"
        BY <1>1, <2>1, JobOperations
  <2>5. /\ jr.status = "succeeded" <=> row.state \in Successes
        /\ jr.status = "failed" <=> row.state \in Failures
        BY <2>2, <2>4 DEF Successes, Failures
  <2>6. PICK d \in Contexts : /\ d = Reporting(ctx[h], "succeeded") /\ d.pc = "succeeded"
                              /\ d.run = c.run /\ d.copy = NoRun
        BY <1>2, ReportingFields DEF Reported
  <2>7. Wrote(d, w, row) /\ d.pc \notin ClaimPcs
        BY <1>2, <2>2, <2>6 DEF Wrote, CopyAt, ClaimPcs, Successes
  <2>8. /\ run' = [run EXCEPT ![w] = row] /\ job' = [job EXCEPT ![w] = jr]
        /\ ctx' = [ctx EXCEPT ![h] = d]
        BY <1>1, <1>2, <1>6, <2>2, <2>4, <2>6 DEF StoreSnapshot, SetRun, SetJob, Move
  <2>9. due' \subseteq Windows /\ row.exec = run[w].exec
        BY <1>3, <2>1, <2>2 DEF KevInv, TypeOK
  <2>10. UNCHANGED <<entries, source, attempt, event, queue, config, faults, deploys>>
         BY <1>3
  <2> QED BY <1>5, <2>1, <2>3, <2>5, <2>7, <2>8, <2>9, <2>10, WriteMoves
<1>7. CASE ~Unchanged(h) /\ Current(h)
  <2>1. run[w] = c.copy /\ InFlight(w) /\ RowOK(c.copy)
        BY <1>1, <1>2, <1>4, <1>7, CurrentIsCopy
        DEF InFlight, Terminal, Successes, Failures, AtWork, Behind
  <2>2. PICK t \in Runs : /\ t = To(c.copy, "stored") /\ t.state = "stored"
                          /\ t.version = c.copy.version + 1 /\ t.exec = c.copy.exec
        BY <1>1, <2>1, ToFields DEF RunStates, PostSnapshot
  <2>3. PICK row : row = [t EXCEPT !.snap = c.got]
        OBVIOUS
  <2>4. /\ row \in Runs /\ row.state = "stored" /\ row.version = c.copy.version + 1
        /\ row.exec = c.copy.exec /\ row.snap = c.got
        BY <1>2, <2>2, <2>3 DEF Runs
  <2>5. Advances(run[w], row)
        BY <1>1, <1>2, <2>1, <2>4 DEF Advances, RowOK, PreSnapshot, PostSnapshot, Runs
  <2>6. PICK d : d = [c EXCEPT !.pc = "get", !.copy = row, !.got = NoCatalog, !.seen = NoSource]
        OBVIOUS
  <2>7. d \in Contexts /\ d.pc = "get" /\ d.run = w /\ d.copy = row
    <3>1. NoSource \in Sources
          BY ModelValues
    <3> QED BY <1>2, <2>4, <2>6, <3>1 DEF Contexts, Reads
  <2>8. Wrote(d, w, row) /\ d.pc \notin ClaimPcs
        BY <2>4, <2>7 DEF Wrote, CopyAt, ClaimPcs
  <2>9. /\ run' = [run EXCEPT ![w] = row] /\ ctx' = [ctx EXCEPT ![h] = d] /\ job' = job
        BY <1>1, <1>2, <1>7, <2>2, <2>3, <2>6 DEF StoreSnapshot, SetRun, Move
  <2>10. row.exec = run[w].exec /\ row.state \notin Terminal /\ row \in Runs /\ d \in Contexts
         BY <2>1, <2>4, <2>7 DEF Terminal, Successes, Failures
  <2>11. UNCHANGED <<job, due, entries, source, attempt, event, queue, config, faults, deploys>>
         BY <1>3, <2>9
  <2> QED BY <1>5, <2>1, <2>5, <2>8, <2>9, <2>10, <2>11, StageMoves
<1>8. CASE ~(Unchanged(h) /\ Confirms(h)) /\ ~(~Unchanged(h) /\ Current(h))
  <2>1. PICK d \in Contexts : /\ d = Failing(ctx[h], "retryable", "pre") /\ ContextOK(d)
                              /\ d.pc \notin ClaimPcs
        BY <1>2, FailingOK DEF Codes, Layers
  <2>2. ctx' = [ctx EXCEPT ![h] = d] /\ UNCHANGED <<run, job>>
        BY <1>8, <2>1 DEF StoreSnapshot, Move
  <2>3. UNCHANGED <<run, due, catalog, attempt, delivery, environment>> /\ job' = job
        BY <1>3, <2>2 DEF catalog, delivery, environment
  <2>4. SameVerdict(job[w], job[w]) /\ RunOf(h) = w /\ job[w] \in JobRows
        BY <1>1 DEF SameVerdict
  <2> QED BY <1>4, <2>1, <2>2, <2>3, <2>4, JobMoves
<1> QED BY <1>6, <1>7, <1>8

\* Steps that move their handler and touch nothing else.
LEMMA PlainMoves ==
    ASSUME KevInv, NEW h \in Handlers, ctx[h].pc # "idle", NEW d \in Contexts, ContextOK(d),
           d.pc \notin ClaimPcs, ctx' = [ctx EXCEPT ![h] = d], job' = job,
           UNCHANGED <<run, due, catalog, attempt, delivery, environment>>
    PROVE  KevInv'
<1>1. PICK w \in Windows : w = RunOf(h) /\ job[w] \in JobRows /\ SameVerdict(job[w], job[w])
      BY Working DEF SameVerdict
<1> QED BY <1>1, JobMoves

LEMMA FailingMoves ==
    ASSUME KevInv, NEW h \in Handlers, ctx[h].pc # "idle", NEW e \in Contexts, AtWork(e),
           NEW code \in Codes, NEW layer \in Layers,
           ctx' = [ctx EXCEPT ![h] = Failing(e, code, layer)], job' = job,
           UNCHANGED <<run, due, catalog, attempt, delivery, environment>>
    PROVE  KevInv'
<1>1. PICK d \in Contexts : d = Failing(e, code, layer) /\ ContextOK(d) /\ d.pc \notin ClaimPcs
      BY FailingOK
<1> QED BY <1>1, PlainMoves

LEMMA GetStep ==
    ASSUME KevInv, NEW h \in Handlers, GetSnapshot(h)
    PROVE  KevInv'
<1>1. PICK c \in Contexts : c = ctx[h] /\ c.pc = "get" /\ ContextOK(c)
      BY Working DEF GetSnapshot, At
<1>2. ctx[h].pc # "idle" /\ UNCHANGED <<run, due, catalog, attempt, delivery, environment>>
      BY <1>1 DEF GetSnapshot
<1>3. PICK p \in {"parse", "decide"} : p = IF ctx[h].copy.state = "stored" THEN "parse" ELSE "decide"
      OBVIOUS
<1>4. CASE Renewed(h, "post", [ctx[h] EXCEPT !.pc = p])
  <2>1. PICK d : d = [c EXCEPT !.pc = p]
        OBVIOUS
  <2>2. d \in Contexts /\ d.pc = p /\ d.run = c.run /\ d.copy = c.copy
        BY <2>1 DEF Contexts, Reads, Writes
  <2>3. ContextOK(d) /\ d.pc \notin ClaimPcs
        BY <1>1, <1>3, <2>2 DEF ContextOK, AtWork, CopyAt, ClaimPcs
  <2>4. Renewed(h, "post", d)
        BY <1>1, <1>4, <2>1
  <2> QED BY <1>2, <2>2, <2>3, <2>4, RenewedMoves DEF Layers
<1>5. ASSUME NEW code \in {"retryable", "bad"}, Renewed(h, "post", Failing(ctx[h], code, "post"))
      PROVE  KevInv'
      BY <1>2, <1>5, RenewedFailure DEF Layers, Codes
<1> QED BY <1>3, <1>4, <1>5 DEF GetSnapshot

LEMMA ParsingStep ==
    ASSUME KevInv, NEW h \in Handlers, RecordParsing(h)
    PROVE  KevInv'
<1>1. PICK w \in Windows : /\ w = RunOf(h) /\ w = ctx[h].run /\ run[w] \in Runs
                           /\ run[w].state # "none" /\ Behind(run[w], run[w])
      BY Working DEF RecordParsing, At
<1>2. PICK c \in Contexts : /\ c = ctx[h] /\ c.pc = "parse" /\ ContextOK(c) /\ c.run = w
                            /\ AtWork(c) /\ c.copy.state = "stored" /\ RowOK(c.copy)
      BY <1>1, Working DEF RecordParsing, At, ContextOK, CopyAt, AtWork, Behind
<1>3. UNCHANGED <<due, generation, entries, source, job, attempt, event, queue, config, faults, deploys>>
      BY DEF RecordParsing, catalog, delivery, environment
<1>4. ctx[h].pc # "idle"
      BY <1>2
<1>5. PICK g \in {"none", "staging", "complete", "active", "superseded"} :
         g = generation[w] /\ generation' = [generation EXCEPT ![w] = g]
      BY <1>3 DEF KevInv, TypeOK
<1>6. CASE Current(h)
  <2>1. run[w] = c.copy /\ InFlight(w)
        BY <1>1, <1>2, <1>4, <1>6, CurrentIsCopy DEF InFlight, Terminal, Successes, Failures
  <2>2. PICK row \in Runs : /\ row = To(c.copy, "parsing") /\ row.state = "parsing"
                            /\ row.version = c.copy.version + 1
                            /\ row.snap = c.copy.snap /\ row.exec = c.copy.exec
        BY <1>1, <2>1, ToFields DEF RunStates, PostSnapshot
  <2>3. Advances(run[w], row)
        BY <1>1, <1>2, <2>1, <2>2 DEF Advances, RowOK, PreSnapshot, PostSnapshot, Runs
  <2>4. PICK d : d = [c EXCEPT !.pc = "decide", !.copy = row]
        OBVIOUS
  <2>5. d \in Contexts /\ d.pc = "decide" /\ d.run = w /\ d.copy = row
        BY <1>2, <2>2, <2>4 DEF Contexts, Reads
  <2>6. Wrote(d, w, row) /\ d.pc \notin ClaimPcs
        BY <2>2, <2>5 DEF Wrote, CopyAt, ClaimPcs
  <2>7. d = [c EXCEPT !.pc = "decide", !.copy = To(@, "parsing")]
        BY <2>2, <2>4 DEF Contexts
  <2>8. /\ run' = [run EXCEPT ![w] = row] /\ ctx' = [ctx EXCEPT ![h] = d]
        BY <1>1, <1>2, <1>6, <2>2, <2>7 DEF RecordParsing, SetRun, Move
  <2>9. row.exec = run[w].exec /\ row.state \notin Terminal /\ d \in Contexts
        BY <2>1, <2>2, <2>5 DEF Terminal, Successes, Failures
  <2>10. UNCHANGED <<job, due, entries, source, attempt, event, queue, config, faults, deploys>>
         BY <1>3
  <2> QED BY <1>5, <2>1, <2>3, <2>6, <2>8, <2>9, <2>10, StageMoves
<1>7. CASE ~Current(h)
  <2>1. run' = run /\ job' = job /\ UNCHANGED <<run, due, catalog, attempt, delivery, environment>>
        BY <1>3, <1>7 DEF RecordParsing, catalog, delivery, environment
  <2>2. CASE run[w].state \in {"parsing", "staging"}
    <3>1. PICK d : d = [c EXCEPT !.pc = "decide", !.copy = run[w]]
          OBVIOUS
    <3>2. d \in Contexts /\ d.pc = "decide" /\ d.run = w /\ d.copy = run[w]
          BY <1>1, <1>2, <3>1 DEF Contexts, Reads
    <3>3. ContextOK(d) /\ d.pc \notin ClaimPcs
          BY <1>1, <2>2, <3>2 DEF ContextOK, AtWork, CopyAt, ClaimPcs
    <3>4. ctx' = [ctx EXCEPT ![h] = d]
          BY <1>1, <1>2, <1>7, <2>2, <3>1 DEF RecordParsing, Move
    <3> QED BY <1>4, <2>1, <3>2, <3>3, <3>4, PlainMoves
  <2>3. CASE run[w].state \notin {"parsing", "staging"}
    <3>1. ctx' = [ctx EXCEPT ![h] = Failing(c, "retryable", "post")]
          BY <1>1, <1>2, <1>7, <2>3 DEF RecordParsing, Move
    <3> QED BY <1>2, <1>4, <2>1, <3>1, FailingMoves DEF Codes, Layers
  <2> QED BY <2>2, <2>3
<1> QED BY <1>6, <1>7

\* The catalog is compared with the active one while the run is in flight.
LEMMA DecideStep ==
    ASSUME KevInv, NEW h \in Handlers, ParseAndDecide(h)
    PROVE  KevInv'
<1>1. PICK c \in Contexts : c = ctx[h] /\ c.pc = "decide" /\ ContextOK(c)
      BY Working DEF ParseAndDecide, At
<1>2. ctx[h].pc # "idle" /\ UNCHANGED <<run, due, catalog, attempt, delivery, environment>>
      BY <1>1 DEF ParseAndDecide
<1>3. ASSUME NEW code \in {"retryable", "final", "bad"}, Renewed(h, "post", Failing(ctx[h], code, "post"))
      PROVE  KevInv'
      BY <1>2, <1>3, RenewedFailure DEF Layers, Codes
<1>4. CASE ~Regresses(c.copy.snap) /\ Renewed(h, "post", [ctx[h] EXCEPT !.pc = "stage"])
  <2>1. PICK d : d = [c EXCEPT !.pc = "stage"]
        OBVIOUS
  <2>2. d \in Contexts /\ d.pc = "stage" /\ d.run = c.run /\ d.copy = c.copy
        BY <2>1 DEF Contexts, Writes
  <2>3. ContextOK(d) /\ d.pc \notin ClaimPcs
        BY <1>1, <1>4, <2>2 DEF ContextOK, AtWork, CopyAt, ClaimPcs
  <2>4. Renewed(h, "post", d)
        BY <1>1, <1>4, <2>1
  <2> QED BY <1>2, <2>2, <2>3, <2>4, RenewedMoves DEF Layers
<1>5. CASE Regresses(c.copy.snap) /\ Renewed(h, "post", Failing(ctx[h], "bad", "post"))
      BY <1>3, <1>5
<1> QED BY <1>1, <1>3, <1>4, <1>5 DEF ParseAndDecide

-----------------------------------------------------------------------------
(* Staging and completing a generation.                                    *)

\* Of a run with a snapshot there are finitely many entries, and when they
\* are as many as the catalog has they are the catalog.
LEMMA EntriesOfSnapshot ==
    ASSUME KevInv, NEW w \in Windows
    PROVE  /\ IsFiniteSet(entries[w]) /\ Cardinality(entries[w]) \in Nat
           /\ /\ run[w].snap \in Catalogs
              /\ Cardinality(entries[w]) = Size[run[w].snap]
              => entries[w] = Ordinals(run[w].snap)
<1>1. run[w] \in Runs /\ StagedFor(w)
      BY DEF KevInv, TypeOK
<1>2. CASE run[w].snap = NoCatalog
  <2>1. entries[w] = {}
        BY <1>1, <1>2 DEF StagedFor
  <2> QED BY <1>2, <2>1, FS_EmptySet, KevAssumption
<1>3. CASE run[w].snap # NoCatalog
  <2>1. PICK n \in Nat : n = Size[run[w].snap] /\ Ordinals(run[w].snap) = 0 .. (n - 1)
        BY <1>1, <1>3, KevAssumption DEF Runs, Ordinals
  <2>2. entries[w] \subseteq 0 .. (n - 1)
        BY <1>1, <1>3, <2>1 DEF StagedFor
  <2>3. 0 \in Int /\ n - 1 \in Int
        OBVIOUS
  <2>4. IsFiniteSet(0 .. (n - 1)) /\ Cardinality(0 .. (n - 1)) = n
        BY <2>3, FS_Interval
  <2>5. IsFiniteSet(entries[w]) /\ Cardinality(entries[w]) \in Nat
        BY <2>2, <2>4, FS_Subset, FS_CardinalityType
  <2>6. Cardinality(entries[w]) = n => entries[w] = 0 .. (n - 1)
        BY <2>2, <2>4, FS_Subset
  <2> QED BY <2>1, <2>5, <2>6
<1> QED BY <1>2, <1>3

\* What a handler between the snapshot and the swap knows of its run.
LEMMA Staging ==
    ASSUME KevInv, NEW h \in Handlers,
           ctx[h].pc \in {"decide", "stage", "inspect", "resume", "reload", "batch", "complete"}
    PROVE  \E w \in Windows, c \in Contexts :
              /\ w = RunOf(h) /\ w = ctx[h].run /\ run[w] \in Runs /\ run[w].state # "none"
              /\ Behind(run[w], run[w]) /\ RowOK(run[w])
              /\ c = ctx[h] /\ ContextOK(c) /\ c.run = w /\ AtWork(c) /\ c.copy \in Runs
              /\ c.copy.state \in {"parsing", "staging"} /\ RowOK(c.copy)
              /\ c.copy.snap \in Catalogs /\ c.copy.snap = run[w].snap
<1>1. ctx[h].pc # "idle"
      OBVIOUS
<1>2. PICK w \in Windows, c \in Contexts :
         /\ w = RunOf(h) /\ w = ctx[h].run /\ run[w] \in Runs /\ run[w].state # "none"
         /\ Behind(run[w], run[w]) /\ RowOK(run[w])
         /\ c = ctx[h] /\ ContextOK(c) /\ c.run = w /\ AtWork(c)
      BY <1>1, Working
<1>3. /\ c.copy.state \in {"parsing", "staging"} /\ RowOK(c.copy) /\ Behind(c.copy, run[w])
      BY <1>2 DEF ContextOK, CopyAt, AtWork, Behind
<1>4. c.copy.snap \in Catalogs /\ c.copy.snap = run[w].snap
      BY <1>3, KevAssumption DEF RowOK, Behind, PostSnapshot
<1>5. c.copy \in Runs
      BY <1>2 DEF Contexts
<1> QED BY <1>2, <1>3, <1>4, <1>5

LEMMA StageStep ==
    ASSUME KevInv, NEW h \in Handlers, StageGeneration(h)
    PROVE  KevInv'
<1>0. ctx[h].pc = "stage" /\ ctx[h].pc # "idle"
      BY DEF StageGeneration, At
<1>1. PICK w \in Windows, c \in Contexts :
              /\ w = RunOf(h) /\ w = ctx[h].run /\ run[w] \in Runs /\ run[w].state # "none"
              /\ Behind(run[w], run[w]) /\ RowOK(run[w])
              /\ c = ctx[h] /\ ContextOK(c) /\ c.run = w /\ AtWork(c) /\ c.copy \in Runs
              /\ c.copy.state \in {"parsing", "staging"} /\ RowOK(c.copy)
              /\ c.copy.snap \in Catalogs /\ c.copy.snap = run[w].snap
      BY <1>0, Staging
<1>2. UNCHANGED <<due, entries, source, job, attempt, event, queue, config, faults, deploys>>
      BY DEF StageGeneration, delivery, environment
<1>3. ASSUME UNCHANGED <<run, generation>>, NEW p \in {"inspect", "activate"},
             ctx' = [ctx EXCEPT ![h] = [c EXCEPT !.pc = p]]
      PROVE  KevInv'
  <2>1. PICK d : d = [c EXCEPT !.pc = p]
        OBVIOUS
  <2>2. d \in Contexts /\ d.pc = p /\ d.run = w /\ d.copy = c.copy
        BY <1>1, <2>1 DEF Contexts, Reads
  <2>3. ContextOK(d) /\ d.pc \notin ClaimPcs
        BY <1>1, <2>2 DEF ContextOK, AtWork, CopyAt, ClaimPcs
  <2>4. ctx' = [ctx EXCEPT ![h] = d] /\ job' = job
        /\ UNCHANGED <<run, due, catalog, attempt, delivery, environment>>
        BY <1>2, <1>3, <2>1 DEF catalog, delivery, environment
  <2> QED BY <1>0, <2>2, <2>3, <2>4, PlainMoves
<1>4. ASSUME UNCHANGED <<run, generation>>, NEW code \in Codes,
             ctx' = [ctx EXCEPT ![h] = Failing(c, code, "post")]
      PROVE  KevInv'
  <2>1. UNCHANGED <<run, due, catalog, attempt, delivery, environment>> /\ job' = job
        BY <1>2, <1>4 DEF catalog, delivery, environment
  <2> QED BY <1>0, <1>1, <1>4, <2>1, FailingMoves DEF Layers
<1>5. ASSUME UNCHANGED <<run, generation>>, ctx' = [ctx EXCEPT ![h] = Idle]
      PROVE  KevInv'
  <2>1. UNCHANGED <<run, due, catalog, attempt, delivery, environment>> /\ job' = job
        BY <1>2, <1>5 DEF catalog, delivery, environment
  <2> QED BY <1>0, <1>5, <2>1, IdleOK, PlainMoves
<1>6. CASE c.copy.gen
  <2>1. UNCHANGED <<run, generation>>
        BY <1>1, <1>6 DEF StageGeneration
  <2>2. CASE generation[w] = "staging"
    <3>1. ctx' = [ctx EXCEPT ![h] = [c EXCEPT !.pc = "inspect"]]
          BY <1>1, <1>6, <2>2 DEF StageGeneration, Move
    <3> QED BY <1>3, <2>1, <3>1
  <2>3. CASE generation[w] = "complete"
    <3>1. ctx' = [ctx EXCEPT ![h] = [c EXCEPT !.pc = "activate"]]
          BY <1>1, <1>6, <2>3 DEF StageGeneration, Move
    <3> QED BY <1>3, <2>1, <3>1
  <2>4. CASE generation[w] \notin {"staging", "complete"}
    <3>1. ctx' = [ctx EXCEPT ![h] = Failing(c, "final", "post")]
          BY <1>1, <1>6, <2>4 DEF StageGeneration, Move
    <3> QED BY <1>4, <2>1, <3>1 DEF Codes
  <2> QED BY <2>2, <2>3, <2>4
<1>7. CASE ~c.copy.gen /\ generation[w] # "none"
      BY <1>1, <1>5, <1>7 DEF StageGeneration, Move
<1>8. CASE ~c.copy.gen /\ generation[w] = "none" /\ ~Current(h)
  <2>1. ctx' = [ctx EXCEPT ![h] = Failing(c, "retryable", "post")] /\ UNCHANGED <<run, generation>>
        BY <1>1, <1>8 DEF StageGeneration, Move
  <2> QED BY <1>4, <2>1 DEF Codes
<1>9. CASE ~c.copy.gen /\ generation[w] = "none" /\ Current(h)
  <2>1. run[w] = c.copy /\ InFlight(w)
        BY <1>0, <1>1, <1>9, CurrentIsCopy DEF InFlight, Terminal, Successes, Failures
  <2>2. ~Regresses(c.copy.snap)
        BY <1>0, <1>1, <2>1 DEF ContextOK
  <2>3. PICK t \in Runs : /\ t = To(c.copy, "staging") /\ t.state = "staging"
                          /\ t.version = c.copy.version + 1
                          /\ t.snap = c.copy.snap /\ t.exec = c.copy.exec
        BY <1>1, ToFields DEF RunStates, PostSnapshot
  <2>4. PICK row : row = [t EXCEPT !.gen = TRUE]
        OBVIOUS
  <2>5. /\ row \in Runs /\ row.state = "staging" /\ row.version = c.copy.version + 1
        /\ row.snap = c.copy.snap /\ row.exec = c.copy.exec
        BY <2>3, <2>4 DEF Runs
  <2>6. Advances(run[w], row)
        BY <1>1, <2>1, <2>5 DEF Advances, RowOK, PreSnapshot, PostSnapshot, Runs
  <2>7. PICK d : d = [c EXCEPT !.pc = "inspect", !.copy = row]
        OBVIOUS
  <2>8. d \in Contexts /\ d.pc = "inspect" /\ d.run = w /\ d.copy = row
        BY <1>1, <2>5, <2>7 DEF Contexts, Reads
  <2>9. Wrote(d, w, row) /\ d.pc \notin ClaimPcs
        BY <2>5, <2>8 DEF Wrote, CopyAt, ClaimPcs
  <2>10. /\ run' = [run EXCEPT ![w] = row] /\ ctx' = [ctx EXCEPT ![h] = d]
         /\ generation' = [generation EXCEPT ![w] = "staging"]
         BY <1>1, <1>9, <2>3, <2>4, <2>7 DEF StageGeneration, SetRun, Move
  <2>11. /\ row.exec = run[w].exec /\ row.state \notin Terminal /\ row \in Runs /\ d \in Contexts
         /\ row.snap # NoCatalog /\ ~Regresses(row.snap)
         BY <1>1, <2>1, <2>2, <2>5, <2>8, KevAssumption DEF Terminal, Successes, Failures
  <2>12. UNCHANGED <<job, due, entries, source, attempt, event, queue, config, faults, deploys>>
         BY <1>2
  <2>13. PICK g \in {"none", "staging", "complete", "active", "superseded"} : g = "staging"
         OBVIOUS
  <2> QED BY <2>1, <2>6, <2>9, <2>10, <2>11, <2>12, <2>13, StageMoves
<1> QED BY <1>6, <1>7, <1>8, <1>9

LEMMA InspectStep ==
    ASSUME KevInv, NEW h \in Handlers, InspectPrefix(h)
    PROVE  KevInv'
<1>0. ctx[h].pc = "inspect" /\ ctx[h].pc # "idle"
      BY DEF InspectPrefix, At
<1>1. PICK w \in Windows, c \in Contexts :
              /\ w = RunOf(h) /\ c = ctx[h] /\ ContextOK(c) /\ c.run = w /\ AtWork(c)
              /\ c.copy.state \in {"parsing", "staging"}
      BY <1>0, Staging
<1>2. PICK n \in Nat : n = Cardinality(entries[w])
      BY EntriesOfSnapshot
<1>3. PICK d : d = [c EXCEPT !.pc = "resume", !.cursor = n]
      OBVIOUS
<1>4. d \in Contexts /\ d.pc = "resume" /\ d.run = w /\ d.copy = c.copy
      BY <1>1, <1>3 DEF Contexts, Reads
<1>5. ContextOK(d) /\ d.pc \notin ClaimPcs
      BY <1>1, <1>4 DEF ContextOK, AtWork, CopyAt, ClaimPcs
<1>6. /\ UNCHANGED <<run, due, catalog, attempt, delivery, environment>> /\ job' = job
      /\ ctx' = [ctx EXCEPT ![h] = d]
      BY <1>1, <1>2, <1>3 DEF InspectPrefix, Move
<1> QED BY <1>0, <1>4, <1>5, <1>6, PlainMoves

LEMMA ResumeStep ==
    ASSUME KevInv, NEW h \in Handlers, ResumePrefix(h)
    PROVE  KevInv'
<1>0. ctx[h].pc = "resume" /\ ctx[h].pc # "idle"
      BY DEF ResumePrefix, At
<1>1. PICK c \in Contexts : /\ c = ctx[h] /\ ContextOK(c) /\ AtWork(c)
                            /\ c.copy.state \in {"parsing", "staging"}
      BY <1>0, Staging
<1>2. UNCHANGED <<run, due, catalog, attempt, delivery, environment>> /\ job' = job
      BY DEF ResumePrefix
<1>3. CASE entries[RunOf(h)] = 0 .. (ctx[h].cursor - 1)
  <2>1. PICK d : d = [c EXCEPT !.pc = "reload"]
        OBVIOUS
  <2>2. d \in Contexts /\ d.pc = "reload" /\ d.run = c.run /\ d.copy = c.copy
        BY <2>1 DEF Contexts, Reads
  <2>3. ContextOK(d) /\ d.pc \notin ClaimPcs
        BY <1>1, <2>2 DEF ContextOK, AtWork, CopyAt, ClaimPcs
  <2>4. ctx' = [ctx EXCEPT ![h] = d]
        BY <1>1, <1>3, <2>1 DEF ResumePrefix, Move
  <2> QED BY <1>0, <1>2, <2>2, <2>3, <2>4, PlainMoves
<1>4. CASE entries[RunOf(h)] # 0 .. (ctx[h].cursor - 1)
  <2>1. ctx' = [ctx EXCEPT ![h] = Failing(c, "final", "post")]
        BY <1>1, <1>4 DEF ResumePrefix, Move
  <2> QED BY <1>0, <1>1, <1>2, <2>1, FailingMoves DEF Codes, Layers
<1> QED BY <1>3, <1>4

LEMMA ReloadStep ==
    ASSUME KevInv, NEW h \in Handlers, Reload(h)
    PROVE  KevInv'
<1>0. ctx[h].pc = "reload" /\ ctx[h].pc # "idle"
      BY DEF Reload, At
<1>1. PICK w \in Windows, c \in Contexts :
              /\ w = RunOf(h) /\ run[w] \in Runs /\ run[w].state # "none"
              /\ Behind(run[w], run[w])
              /\ c = ctx[h] /\ ContextOK(c) /\ c.run = w /\ AtWork(c)
              /\ c.copy.state \in {"parsing", "staging"}
      BY <1>0, Staging
<1>2. UNCHANGED <<run, due, catalog, attempt, delivery, environment>>
      BY DEF Reload
<1>3. CASE run[w].state = "staging" /\ Renewed(h, "post", [c EXCEPT !.pc = "batch", !.copy = run[w]])
  <2>1. PICK d : d = [c EXCEPT !.pc = "batch", !.copy = run[w]]
        OBVIOUS
  <2>2. d \in Contexts /\ d.pc = "batch" /\ d.run = w /\ d.copy = run[w]
        BY <1>1, <2>1 DEF Contexts, Writes
  <2>3. ContextOK(d) /\ d.pc \notin ClaimPcs
        BY <1>1, <1>3, <2>2 DEF ContextOK, AtWork, CopyAt, ClaimPcs
  <2>4. Renewed(h, "post", d)
        BY <1>3, <2>1
  <2> QED BY <1>0, <1>2, <2>2, <2>3, <2>4, RenewedMoves DEF Layers
<1>4. CASE Renewed(h, "post", [c EXCEPT !.pc = "complete"])
  <2>1. PICK d : d = [c EXCEPT !.pc = "complete"]
        OBVIOUS
  <2>2. d \in Contexts /\ d.pc = "complete" /\ d.run = w /\ d.copy = c.copy
        BY <1>1, <2>1 DEF Contexts, Writes
  <2>3. ContextOK(d) /\ d.pc \notin ClaimPcs
        BY <1>1, <2>2 DEF ContextOK, AtWork, CopyAt, ClaimPcs
  <2>4. Renewed(h, "post", d)
        BY <1>4, <2>1
  <2> QED BY <1>0, <1>2, <2>2, <2>3, <2>4, RenewedMoves DEF Layers
<1>5. CASE Renewed(h, "post", Failing(c, "final", "post"))
      BY <1>0, <1>1, <1>2, <1>5, RenewedFailure DEF Layers, Codes
<1> QED BY <1>1, <1>3, <1>4, <1>5 DEF Reload

\* A batch adds ordinals of the run's own snapshot to a generation that is
\* still being staged, hence not to the active one.
LEMMA BatchStep ==
    ASSUME KevInv, NEW h \in Handlers, StageBatch(h)
    PROVE  KevInv'
<1>0. ctx[h].pc = "batch" /\ ctx[h].pc # "idle"
      BY DEF StageBatch, At
<1>1. PICK w \in Windows, c \in Contexts :
              /\ w = RunOf(h) /\ c = ctx[h] /\ ContextOK(c) /\ c.run = w /\ AtWork(c)
              /\ c.copy.state \in {"parsing", "staging"}
              /\ c.copy.snap \in Catalogs /\ c.copy.snap = run[w].snap
      BY <1>0, Staging
<1>2. UNCHANGED <<run, due, generation, source, job, attempt, event, queue, config, faults, deploys>>
      BY DEF StageBatch, delivery, environment
<1>3. PICK batch : batch = {o \in Ordinals(c.copy.snap) : c.cursor <= o /\ o < c.cursor + BatchSize}
      OBVIOUS
<1>4. CASE Insertable(w, batch)
  <2>1. /\ generation[w] = "staging" /\ entries' = [entries EXCEPT ![w] = @ \cup batch]
        /\ ctx' = [ctx EXCEPT ![h] = [c EXCEPT !.pc = "reload", !.cursor = @ + Cardinality(batch)]]
        BY <1>1, <1>3, <1>4 DEF StageBatch, Insertable, Move
  <2>2. Ordinals(c.copy.snap) \subseteq Nat /\ IsFiniteSet(Ordinals(c.copy.snap))
    <3>1. PICK n \in Nat : n = Size[c.copy.snap] /\ Ordinals(c.copy.snap) = 0 .. (n - 1)
          BY <1>1, KevAssumption DEF Ordinals
    <3>2. 0 \in Int /\ n - 1 \in Int
          OBVIOUS
    <3> QED BY <3>1, <3>2, FS_Interval
  <2>3. batch \subseteq Ordinals(c.copy.snap) /\ Cardinality(batch) \in Nat
    <3>1. batch \subseteq Ordinals(c.copy.snap)
          BY <1>3
    <3> QED BY <2>2, <3>1, FS_Subset, FS_CardinalityType
  <2>4. PICK n \in Nat : n = c.cursor + Cardinality(batch)
        BY <2>3 DEF Contexts
  <2>5. PICK d : d = [c EXCEPT !.pc = "reload", !.cursor = n]
        OBVIOUS
  <2>6. /\ d \in Contexts /\ d.pc = "reload" /\ d.run = w /\ d.copy = c.copy
        /\ ctx' = [ctx EXCEPT ![h] = d]
    <3>1. d \in Contexts /\ d.pc = "reload" /\ d.run = w /\ d.copy = c.copy
          BY <1>1, <2>5 DEF Contexts, Reads
    <3>2. d = [c EXCEPT !.pc = "reload", !.cursor = @ + Cardinality(batch)]
          BY <2>4, <2>5 DEF Contexts
    <3> QED BY <2>1, <3>1, <3>2
  <2>7. ContextOK(d) /\ d.pc \notin ClaimPcs
        BY <1>1, <2>6 DEF ContextOK, AtWork, CopyAt, ClaimPcs
  <2>8. entries \in [Windows -> SUBSET Nat] /\ ctx \in [Handlers -> Contexts]
        BY DEF KevInv, TypeOK
  <2>9. /\ entries' \in [Windows -> SUBSET Nat] /\ entries'[w] = entries[w] \cup batch
        /\ \A v \in Windows : v # w => entries'[v] = entries[v]
        BY <2>1, <2>2, <2>3, <2>8
  <2>10. /\ ctx' \in [Handlers -> Contexts]
         /\ \A f \in Handlers : ctx'[f] = IF f = h THEN d ELSE ctx[f]
         BY <2>6, <2>8
  <2>11. \A f \in Handlers : ContextOK(ctx[f])'
    <3> SUFFICES ASSUME NEW f \in Handlers PROVE ContextOK(ctx[f])'
        OBVIOUS
    <3>1. ContextOK(ctx'[f])
          BY <2>7, <2>10 DEF KevInv
    <3> QED BY <1>2, <3>1 DEF ContextOK, AtWork, InFlight, Regresses
  <2>12. TypeOK'
    <3>1. \A f \in Handlers : ctx'[f].pc # "idle" => ctx'[f].run \in Windows
          BY <2>11 DEF ContextOK, AtWork
    <3> QED BY <1>2, <2>9, <2>10, <3>1 DEF KevInv, TypeOK
  <2>13. ClaimsCovered'
         BY <1>2, <2>7, <2>10, ClaimsKept
  <2>14. \A v \in Windows : RowOK(run[v])' /\ StagedFor(v)' /\ NotOlder(v)'
    <3> SUFFICES ASSUME NEW v \in Windows PROVE RowOK(run[v])' /\ StagedFor(v)' /\ NotOlder(v)'
        OBVIOUS
    <3>1. RowOK(run[v]) /\ StagedFor(v) /\ NotOlder(v)
          BY DEF KevInv
    <3>2. StagedFor(v)'
      <4>1. CASE v = w
            BY <1>1, <1>2, <2>3, <2>9, <3>1, <4>1, KevAssumption DEF StagedFor
      <4>2. CASE v # w
            BY <1>2, <2>9, <3>1, <4>2 DEF StagedFor
      <4> QED BY <4>1, <4>2
    <3> QED BY <1>2, <3>1, <3>2 DEF NotOlder, InFlight, Regresses
  <2>15. Unrequested' /\ OneInFlight' /\ JobAndRunAgree'
         BY <1>2 DEF KevInv, Unrequested, OneInFlight, InFlight, JobAndRunAgree
  <2>16. ActiveIsWhole'
    <3>1. source.active # w /\ (source.active # 0 => source.active \in Windows)
          BY <2>1 DEF KevInv, ActiveIsWhole, TypeOK, Sources, Windows
    <3> QED BY <1>2, <2>9, <3>1 DEF KevInv, ActiveIsWhole
  <2> QED BY <2>11, <2>12, <2>13, <2>14, <2>15, <2>16 DEF KevInv
<1>5. CASE ~Insertable(w, batch)
  <2>1. ctx' = [ctx EXCEPT ![h] = Failing(c, "retryable", "post")] /\ entries' = entries
        BY <1>1, <1>3, <1>5 DEF StageBatch, Move
  <2>2. UNCHANGED <<run, due, catalog, attempt, delivery, environment>> /\ job' = job
        BY <1>2, <2>1 DEF catalog, delivery, environment
  <2> QED BY <1>0, <1>1, <2>1, <2>2, FailingMoves DEF Codes, Layers
<1> QED BY <1>4, <1>5

LEMMA CompleteStep ==
    ASSUME KevInv, NEW h \in Handlers, CompleteGeneration(h)
    PROVE  KevInv'
<1>0. ctx[h].pc = "complete" /\ ctx[h].pc # "idle"
      BY DEF CompleteGeneration, At
<1>1. PICK w \in Windows, c \in Contexts :
              /\ w = RunOf(h) /\ w = ctx[h].run /\ run[w] \in Runs /\ run[w].state # "none"
              /\ Behind(run[w], run[w]) /\ RowOK(run[w])
              /\ c = ctx[h] /\ ContextOK(c) /\ c.run = w /\ AtWork(c) /\ c.copy \in Runs
              /\ c.copy.state \in {"parsing", "staging"} /\ RowOK(c.copy)
              /\ c.copy.snap \in Catalogs /\ c.copy.snap = run[w].snap
      BY <1>0, Staging
<1>2. UNCHANGED <<due, entries, source, job, attempt, event, queue, config, faults, deploys>>
      BY DEF CompleteGeneration, delivery, environment
<1>3. CASE Whole(w, c.copy.snap) /\ Current(h)
  <2>1. run[w] = c.copy /\ InFlight(w) /\ generation[w] = "staging"
        BY <1>0, <1>1, <1>3, CurrentIsCopy DEF InFlight, Terminal, Successes, Failures, Whole
  <2>2. ~Regresses(c.copy.snap)
        BY <1>1, <2>1 DEF KevInv, NotOlder
  <2>3. PICK row \in Runs : /\ row = To(c.copy, "activating") /\ row.state = "activating"
                            /\ row.version = c.copy.version + 1
                            /\ row.snap = c.copy.snap /\ row.exec = c.copy.exec
        BY <1>1, ToFields DEF RunStates, PostSnapshot
  <2>4. Advances(run[w], row)
        BY <1>1, <2>1, <2>3 DEF Advances, RowOK, PreSnapshot, PostSnapshot, Runs
  <2>5. PICK d : d = [c EXCEPT !.pc = "activate", !.copy = row, !.cursor = 0]
        OBVIOUS
  <2>6. d \in Contexts /\ d.pc = "activate" /\ d.run = w /\ d.copy = row
        BY <1>1, <2>3, <2>5 DEF Contexts, Reads
  <2>7. Wrote(d, w, row) /\ d.pc \notin ClaimPcs
        BY <2>3, <2>6 DEF Wrote, CopyAt, ClaimPcs
  <2>8. d = [c EXCEPT !.pc = "activate", !.copy = To(@, "activating"), !.cursor = 0]
        BY <2>3, <2>5 DEF Contexts
  <2>9. /\ run' = [run EXCEPT ![w] = row] /\ ctx' = [ctx EXCEPT ![h] = d]
        /\ generation' = [generation EXCEPT ![w] = "complete"]
        BY <1>1, <1>3, <2>3, <2>8 DEF CompleteGeneration, SetRun, Move
  <2>10. /\ row.exec = run[w].exec /\ row.state \notin Terminal /\ d \in Contexts
         /\ row.snap # NoCatalog /\ ~Regresses(row.snap)
         BY <1>1, <2>1, <2>2, <2>3, <2>6, KevAssumption DEF Terminal, Successes, Failures
  <2>11. UNCHANGED <<job, due, entries, source, attempt, event, queue, config, faults, deploys>>
         BY <1>2
  <2>12. PICK g \in {"none", "staging", "complete", "active", "superseded"} : g = "complete"
         OBVIOUS
  <2> QED BY <2>1, <2>4, <2>7, <2>9, <2>10, <2>11, <2>12, StageMoves
<1>4. CASE ~(Whole(w, c.copy.snap) /\ Current(h))
  <2>1. PICK d : d = [c EXCEPT !.pc = "activate", !.copy = run[w], !.cursor = 0]
        OBVIOUS
  <2>2. d \in Contexts /\ d.pc = "activate" /\ d.run = w /\ d.copy = run[w]
        BY <1>1, <2>1 DEF Contexts, Reads
  <2>3. AtWork(d) /\ ContextOK(d) /\ d.pc \notin ClaimPcs
        BY <1>1, <2>2 DEF ContextOK, AtWork, CopyAt, ClaimPcs
  <2>4. /\ UNCHANGED <<run, generation>>
        /\ \/ ctx' = [ctx EXCEPT ![h] = d]
           \/ ctx' = [ctx EXCEPT ![h] = Failing(d, "retryable", "post")]
        BY <1>1, <1>4, <2>1 DEF CompleteGeneration, Move
  <2>5. UNCHANGED <<run, due, catalog, attempt, delivery, environment>> /\ job' = job
        BY <1>2, <2>4 DEF catalog, delivery, environment
  <2>6. CASE ctx' = [ctx EXCEPT ![h] = d]
        BY <1>0, <2>2, <2>3, <2>5, <2>6, PlainMoves
  <2>7. CASE ctx' = [ctx EXCEPT ![h] = Failing(d, "retryable", "post")]
        BY <1>0, <2>2, <2>3, <2>5, <2>7, FailingMoves DEF Codes, Layers
  <2> QED BY <2>4, <2>6, <2>7
<1> QED BY <1>3, <1>4

-----------------------------------------------------------------------------
(* The activation.                                                         *)

LEMMA ActivateStep ==
    ASSUME KevInv, NEW h \in Handlers, Activate(h)
    PROVE  KevInv'
<1>0. ctx[h].pc = "activate" /\ ctx[h].pc # "idle"
      BY DEF Activate, At
<1>1. PICK w \in Windows : /\ w = RunOf(h) /\ w = ctx[h].run /\ run[w].state # "none"
                           /\ job[w] \in JobRows /\ run[w] \in Runs /\ Behind(run[w], run[w])
                           /\ WorkerOf[h] \in Workers /\ ctx[h] \in Contexts
      BY <1>0, Working
<1>2. UNCHANGED <<run, due, catalog, attempt, delivery, environment>>
      BY DEF Activate
<1>3. PICK c : c = [ctx[h] EXCEPT !.copy = run[w], !.cursor = 0]
      OBVIOUS
<1>4. c \in Contexts /\ c.run = w /\ c.copy = run[w]
      BY <1>1, <1>3 DEF Contexts
<1>5. AtWork(c)
      BY <1>1, <1>4 DEF AtWork
<1>6. CASE run[w].state = "completed"
  <2>1. reconcileTerminal(h, run[w]) /\ run[w].state \in Terminal
        BY <1>1, <1>6 DEF Activate, Terminal, Successes
  <2> QED BY <1>0, <1>1, <1>2, <2>1, ReconcileMoves
<1>7. CASE run[w].state # "completed" /\ run[w].gen /\ generation[w] = "complete" /\ Owned(h)
  <2>1. PICK jr \in JobRows : jr = renewLease(job[w], WorkerOf[h]) /\ SameVerdict(jr, job[w])
        BY <1>1, JobOperations
  <2>2. job' = [job EXCEPT ![RunOf(h)] = jr] /\ RunOf(h) = w
        BY <1>1, <1>7, <2>1 DEF Activate, SetJob
  <2>3. CASE run[w].state = "activating"
    <3>1. PICK d : d = [c EXCEPT !.pc = "swap", !.seen = source]
          OBVIOUS
    <3>2. d \in Contexts /\ d.pc = "swap" /\ d.run = w /\ d.copy = run[w]
      <4>1. source \in Sources
            BY DEF KevInv, TypeOK
      <4> QED BY <1>4, <3>1, <4>1 DEF Contexts, Writes
    <3>3. ContextOK(d) /\ d.pc \notin ClaimPcs
          BY <1>4, <1>5, <2>3, <3>2 DEF ContextOK, AtWork, CopyAt, ClaimPcs
    <3>4. ctx' = [ctx EXCEPT ![h] = d]
          BY <1>1, <1>3, <1>7, <2>3, <3>1 DEF Activate, Move
    <3> QED BY <1>0, <1>2, <2>1, <2>2, <3>2, <3>3, <3>4, JobMoves
  <2>4. CASE run[w].state # "activating"
    <3>1. PICK d \in Contexts : d = Failing(c, "retryable", "post") /\ ContextOK(d) /\ d.pc \notin ClaimPcs
          BY <1>4, <1>5, FailingOK DEF Codes, Layers
    <3>2. ctx' = [ctx EXCEPT ![h] = d]
          BY <1>1, <1>3, <1>7, <2>4, <3>1 DEF Activate, Move
    <3> QED BY <1>0, <1>2, <2>1, <2>2, <3>1, <3>2, JobMoves
  <2> QED BY <2>3, <2>4
<1>8. CASE run[w].state # "completed" /\ ~(run[w].gen /\ generation[w] = "complete" /\ Owned(h))
  <2>1. PICK code \in Codes : code = IF generation[w] = "complete" THEN "retryable" ELSE "final"
        BY DEF Codes
  <2>2. /\ job' = job
        /\ \/ ctx' = [ctx EXCEPT ![h] = Idle]
           \/ ctx' = [ctx EXCEPT ![h] = Failing(c, code, "post")]
        BY <1>1, <1>3, <1>8, <2>1 DEF Activate, Move
  <2>3. CASE ctx' = [ctx EXCEPT ![h] = Idle]
        BY <1>0, <1>2, <2>2, <2>3, IdleOK, PlainMoves
  <2>4. CASE ctx' = [ctx EXCEPT ![h] = Failing(c, code, "post")]
        BY <1>0, <1>2, <1>4, <1>5, <2>2, <2>4, FailingMoves DEF Layers
  <2> QED BY <2>2, <2>3, <2>4
<1> QED BY <1>6, <1>7, <1>8

\* The three outcomes of the activation transaction.
LEMMA SwapCases ==
    ASSUME KevInv, NEW h \in Handlers, Swap(h)
    PROVE  \/ /\ run[RunOf(h)].state = "completed"
              /\ ctx' = [ctx EXCEPT ![h] = Reporting(ctx[h], "succeeded")]
              /\ UNCHANGED <<run, due, catalog, job, attempt, delivery, environment>>
           \/ /\ run[RunOf(h)].state # "completed" /\ Activatable(h)
              /\ generation' = Swapped(RunOf(h))
              /\ source' = [active |-> RunOf(h), version |-> source.version + 1]
              /\ run' = [run EXCEPT ![RunOf(h)] = To(run[RunOf(h)], "completed")]
              /\ job' = [job EXCEPT ![RunOf(h)] = markSucceeded(job[RunOf(h)], WorkerOf[h])]
              /\ ctx' = [ctx EXCEPT ![h] = Reporting(ctx[h], "succeeded")]
              /\ UNCHANGED <<due, entries, attempt, event, queue, config, faults, deploys>>
           \/ /\ ctx' = [ctx EXCEPT ![h] = Failing(ctx[h], "retryable", "post")]
              /\ UNCHANGED <<run, due, catalog, job, attempt, delivery, environment>>
BY DEF Swap, SetRun, SetJob, Move, catalog, delivery, environment

\* What holds when the transaction commits: the run is in flight with a whole,
\* complete generation whose catalog is no older than the active one.
LEMMA AtActivation ==
    ASSUME KevInv, NEW h \in Handlers, ctx[h].pc = "swap", Activatable(h)
    PROVE  /\ RunOf(h) \in Windows /\ InFlight(RunOf(h)) /\ Owned(h)
           /\ run[RunOf(h)] \in Runs /\ run[RunOf(h)].snap \in Catalogs
           /\ entries[RunOf(h)] = Ordinals(run[RunOf(h)].snap)
           /\ generation[RunOf(h)] = "complete" /\ source.active # RunOf(h)
           /\ ~Regresses(run[RunOf(h)].snap)
<1>1. ctx[h].pc # "idle"
      OBVIOUS
<1>2. PICK w \in Windows : /\ w = RunOf(h) /\ run[w] \in Runs /\ RowOK(run[w])
                           /\ ContextOK(ctx[h])
      BY <1>1, Working
<1>3. /\ generation[w] = "complete" /\ Cardinality(entries[w]) = Size[run[w].snap]
      /\ Current(h) /\ Owned(h)
      BY <1>2 DEF Activatable
<1>4. InFlight(w)
      BY <1>1, <1>2, <1>3, OwnedInFlight
<1>5. run[w].state = "activating"
      BY <1>1, <1>2, <1>3, CurrentIsCopy DEF ContextOK, CopyAt
<1>6. run[w].snap \in Catalogs
      BY <1>2, <1>5 DEF RowOK, PostSnapshot
<1>7. entries[w] = Ordinals(run[w].snap)
      BY <1>3, <1>6, EntriesOfSnapshot
<1>8. source.active # w
      BY <1>4, NotActive
<1>9. ~Regresses(run[w].snap)
      BY <1>3, <1>4 DEF KevInv, NotOlder
<1> QED BY <1>2, <1>3, <1>4, <1>6, <1>7, <1>8, <1>9

LEMMA SwapStep ==
    ASSUME KevInv, NEW h \in Handlers, Swap(h)
    PROVE  KevInv'
<1>0. ctx[h].pc = "swap" /\ ctx[h].pc # "idle"
      BY DEF Swap, At
<1>1. PICK w \in Windows : /\ w = RunOf(h) /\ w = ctx[h].run /\ run[w].state # "none"
                           /\ job[w] \in JobRows /\ run[w] \in Runs /\ RowOK(run[w])
                           /\ WorkerOf[h] \in Workers /\ ctx[h] \in Contexts /\ AtWork(ctx[h])
      BY <1>0, Working
<1>2. CASE /\ run[w].state = "completed"
           /\ ctx' = [ctx EXCEPT ![h] = Reporting(ctx[h], "succeeded")]
           /\ UNCHANGED <<run, due, catalog, job, attempt, delivery, environment>>
  <2>1. PICK d \in Contexts : /\ d = Reporting(ctx[h], "succeeded") /\ ContextOK(d)
                              /\ d.pc \notin ClaimPcs
        BY <1>1, <1>2, ReportingOK DEF Reported, Successes
  <2>2. ctx' = [ctx EXCEPT ![h] = d] /\ job' = job
        /\ UNCHANGED <<run, due, catalog, attempt, delivery, environment>>
        BY <1>2, <2>1
  <2> QED BY <1>0, <2>1, <2>2, PlainMoves
<1>3. CASE /\ ctx' = [ctx EXCEPT ![h] = Failing(ctx[h], "retryable", "post")]
           /\ UNCHANGED <<run, due, catalog, job, attempt, delivery, environment>>
  <2>1. ctx' = [ctx EXCEPT ![h] = Failing(ctx[h], "retryable", "post")] /\ job' = job
        /\ UNCHANGED <<run, due, catalog, attempt, delivery, environment>>
        BY <1>3
  <2> QED BY <1>0, <1>1, <2>1, FailingMoves DEF Codes, Layers
<1>4. CASE /\ run[w].state # "completed" /\ Activatable(h)
           /\ generation' = Swapped(w)
           /\ source' = [active |-> w, version |-> source.version + 1]
           /\ run' = [run EXCEPT ![w] = To(run[w], "completed")]
           /\ job' = [job EXCEPT ![w] = markSucceeded(job[w], WorkerOf[h])]
           /\ ctx' = [ctx EXCEPT ![h] = Reporting(ctx[h], "succeeded")]
           /\ UNCHANGED <<due, entries, attempt, event, queue, config, faults, deploys>>
  <2> DEFINE States == {"none", "staging", "complete", "active", "superseded"}
  <2>1. /\ InFlight(w) /\ OwnedBy(job[w], WorkerOf[h]) /\ run[w].snap \in Catalogs
        /\ entries[w] = Ordinals(run[w].snap) /\ source.active # w
        BY <1>0, <1>1, <1>4, AtActivation DEF Owned, JobOf
  <2>2. PICK row \in Runs : /\ row = To(run[w], "completed") /\ row.state = "completed"
                            /\ row.version = run[w].version + 1
                            /\ row.snap = run[w].snap /\ row.exec = run[w].exec
        BY <1>1, ToFields DEF RunStates, Terminal, Successes
  <2>3. Advances(run[w], row)
        BY <1>1, <2>1, <2>2 DEF Advances, RowOK, PreSnapshot, PostSnapshot, Runs
  <2>4. PICK jr \in JobRows : jr = markSucceeded(job[w], WorkerOf[h]) /\ jr.status = "succeeded"
        BY <1>1, <2>1, JobOperations
  <2>5. PICK d \in Contexts : /\ d = Reporting(ctx[h], "succeeded") /\ d.pc = "succeeded"
                              /\ d.run = w /\ d.copy = NoRun
        BY <1>1, ReportingFields DEF Reported
  <2>6. /\ run \in [Windows -> Runs] /\ ctx \in [Handlers -> Contexts] /\ source \in Sources
        /\ job \in [Windows -> JobRows] /\ generation \in [Windows -> States]
        BY DEF KevInv, TypeOK
  <2>7. /\ run' \in [Windows -> Runs] /\ ctx' \in [Handlers -> Contexts]
        /\ job' \in [Windows -> JobRows]
        /\ \A v \in Windows : /\ run'[v] = IF v = w THEN row ELSE run[v]
                              /\ job'[v] = IF v = w THEN jr ELSE job[v]
        /\ \A f \in Handlers : ctx'[f] = IF f = h THEN d ELSE ctx[f]
        BY <1>4, <2>2, <2>4, <2>5, <2>6
  <2>8. /\ generation' \in [Windows -> States] /\ generation'[w] = "active"
        /\ \A v \in Windows : v # w =>
              generation'[v] = IF v = source.active THEN "superseded" ELSE generation[v]
        BY <1>4, <2>6 DEF Swapped
  <2>9. source' \in Sources /\ source'.active = w
        BY <1>4, <2>6 DEF Sources, Windows
  <2>10. \A v \in Windows : /\ v # w => run'[v] = run[v] /\ ~InFlight(v) /\ ~InFlight(v)'
                            /\ ~InFlight(v)'
                            /\ run'[v].state = "none" <=> run[v].state = "none"
    <3>1. \A v \in Windows : v # w => ~InFlight(v)
          BY <2>1 DEF KevInv, OneInFlight
    <3> QED BY <1>1, <2>2, <2>7, <3>1 DEF InFlight, Terminal, Successes
  <2>11. \A f \in Handlers : ContextOK(ctx[f])'
    <3> SUFFICES ASSUME NEW f \in Handlers, ctx'[f].pc # "idle" PROVE ContextOK(ctx[f])'
        BY DEF ContextOK
    <3>1. CASE f = h
      <4>1. Behind(NoRun, row)
            BY <1>1, <2>2, <2>3, ModelValues
            DEF Behind, Advances, RowOK, PreSnapshot, PostSnapshot, Runs
      <4> QED BY <2>2, <2>5, <2>7, <3>1, <4>1 DEF ContextOK, AtWork, CopyAt, Successes
    <3>2. CASE f # h
      <4>1. PICK e \in Contexts : e = ctx[f] /\ ctx'[f] = e
            BY <2>6, <2>7, <3>2
      <4>2. ContextOK(e) /\ e.pc # "idle"
            BY <4>1 DEF KevInv
      <4>3. e.copy.version \in Nat /\ e.run \in Windows /\ Behind(e.copy, run[e.run])
            BY <4>2 DEF ContextOK, AtWork, Contexts, Runs
      <4>4. Behind(e.copy, run'[e.run])
            BY <1>1, <2>2, <2>3, <2>7, <4>3 DEF Behind, Advances, Runs
      <4>5. run[e.run].state \in Successes => run'[e.run].state \in Successes
            BY <2>2, <2>7, <4>3 DEF Successes
      <4> QED BY <2>10, <4>1, <4>2, <4>3, <4>4, <4>5 DEF ContextOK, AtWork
    <3> QED BY <3>1, <3>2
  <2>12. TypeOK'
    <3>1. \A f \in Handlers : ctx'[f].pc # "idle" => ctx'[f].run \in Windows
          BY <2>11 DEF ContextOK, AtWork
    <3> QED BY <1>4, <2>7, <2>8, <2>9, <3>1 DEF KevInv, TypeOK
  <2>13. ClaimsCovered'
    <3>1. \A v \in Windows : run'[v].exec = run[v].exec
          BY <2>2, <2>7
    <3> QED BY <1>4, <2>5, <2>7, <3>1, ClaimsKept DEF ClaimPcs
  <2>14. Unrequested'
         BY <1>4, <2>10 DEF KevInv, Unrequested, TypeOK
  <2>15. \A v \in Windows : RowOK(run[v])' /\ StagedFor(v)' /\ NotOlder(v)'
    <3> SUFFICES ASSUME NEW v \in Windows PROVE RowOK(run[v])' /\ StagedFor(v)' /\ NotOlder(v)'
        OBVIOUS
    <3>1. RowOK(run[v]) /\ StagedFor(v)
          BY DEF KevInv
    <3>2. RowOK(run[v])'
          BY <2>3, <2>7, <3>1 DEF Advances
    <3>3. StagedFor(v)'
      <4>1. CASE v = w
            BY <1>4, <2>1, <2>2, <2>7, <4>1, KevAssumption DEF StagedFor
      <4>2. CASE v # w
        <5>1. v = source.active => generation[v] = "active"
              BY DEF KevInv, ActiveIsWhole, Windows
        <5> QED BY <1>4, <2>7, <2>8, <3>1, <4>2, <5>1 DEF StagedFor
      <4> QED BY <4>1, <4>2
    <3> QED BY <2>10, <3>2, <3>3 DEF NotOlder
  <2>16. OneInFlight'
         BY <2>10 DEF OneInFlight
  <2>17. JobAndRunAgree'
         BY <2>2, <2>4, <2>7 DEF KevInv, JobAndRunAgree, Successes, Failures
  <2>18. ActiveIsWhole'
    <3>1. \A v \in Windows : v # w => generation'[v] # "active"
          BY <2>8 DEF KevInv, ActiveIsWhole
    <3>2. entries'[w] = Ordinals(run'[w].snap) /\ run'[w].state = "completed"
          BY <1>4, <2>1, <2>2, <2>7
    <3> QED BY <2>8, <2>9, <3>1, <3>2 DEF ActiveIsWhole
  <2> QED BY <2>11, <2>12, <2>13, <2>14, <2>15, <2>16, <2>17, <2>18 DEF KevInv
<1> QED BY <1>1, <1>2, <1>3, <1>4, SwapCases

-----------------------------------------------------------------------------
(* applyFailure and mapOutcome.                                            *)

LEMMA RefusedMoves ==
    ASSUME KevInv, NEW h \in Handlers, ctx[h].pc # "idle", Refused(h),
           UNCHANGED <<catalog, attempt, delivery, environment>>
    PROVE  KevInv'
<1>1. UNCHANGED <<run, due, catalog, attempt, delivery, environment>>
      BY DEF Refused
<1>2. CASE Settled(run[RunOf(h)])
      BY <1>1, <1>2, ReconcileMoves DEF Refused, Settled
<1>3. CASE ~Settled(run[RunOf(h)])
  <2>1. ctx[h] \in Contexts /\ ctx[h].run \in Windows /\ run[ctx[h].run].state # "none"
        BY Working
  <2>2. PICK d \in Contexts : /\ d = Reporting(ctx[h], "redispatch") /\ ContextOK(d)
                              /\ d.pc \notin ClaimPcs
        BY <2>1, ReportingOK DEF Reported
  <2>3. ctx' = [ctx EXCEPT ![h] = d] /\ job' = job
        BY <1>3, <2>2 DEF Refused, Move
  <2> QED BY <1>1, <2>2, <2>3, PlainMoves
<1> QED BY <1>2, <1>3

LEMMA RetryWaitStep ==
    ASSUME KevInv, NEW h \in Handlers, RecordRetryWait(h)
    PROVE  KevInv'
<1>0. ctx[h].pc # "idle" /\ UNCHANGED <<catalog, attempt, delivery, environment>>
      BY DEF RecordRetryWait, At
<1>1. CASE ~(ctx[h].copy.state = "fetching" /\ Current(h) /\ Owned(h))
      BY <1>0, <1>1, RefusedMoves DEF RecordRetryWait
<1>2. CASE ctx[h].copy.state = "fetching" /\ Current(h) /\ Owned(h)
  <2>1. PICK w \in Windows : /\ w = RunOf(h) /\ w = ctx[h].run /\ job[w] \in JobRows
                             /\ run[w] \in Runs /\ RowOK(run[w]) /\ WorkerOf[h] \in Workers
                             /\ JobOf(h) = job[w] /\ ctx[h] \in Contexts
        BY <1>0, Working DEF JobOf
  <2>2. /\ run[w] = ctx[h].copy /\ InFlight(w) /\ job[w].status = "running"
        BY <1>0, <1>2, <2>1, CurrentIsCopy, OwnedInFlight
  <2>3. PICK row \in Runs : /\ row = To(run[w], "retry_wait") /\ row.state = "retry_wait"
                            /\ row.version = run[w].version + 1
                            /\ row.snap = run[w].snap /\ row.exec = run[w].exec
        BY <2>1, ToFields DEF RunStates, PreSnapshot
  <2>4. Advances(run[w], row)
        BY <1>2, <2>1, <2>2, <2>3 DEF Advances, RowOK, PreSnapshot, PostSnapshot, Runs
  <2>5. PICK jr \in JobRows : jr = markRetry(job[w], WorkerOf[h]) /\ SameVerdict(jr, job[w])
        BY <2>1, JobOperations
  <2>6. /\ jr.status = "succeeded" <=> row.state \in Successes
        /\ jr.status = "failed" <=> row.state \in Failures
        BY <2>2, <2>3, <2>5 DEF SameVerdict, Successes, Failures
  <2>7. PICK d \in Contexts : /\ d = Reporting(ctx[h], "redispatch") /\ d.pc = "redispatch"
                              /\ d.run = w /\ d.copy = NoRun
        BY <2>1, ReportingFields DEF Reported
  <2>8. Wrote(d, w, row) /\ d.pc \notin ClaimPcs
        BY <2>7 DEF Wrote, CopyAt, ClaimPcs
  <2>9. /\ run' = [run EXCEPT ![w] = row] /\ job' = [job EXCEPT ![w] = jr]
        /\ ctx' = [ctx EXCEPT ![h] = d] /\ due' = due \ {w}
        BY <1>2, <2>1, <2>2, <2>3, <2>5, <2>7 DEF RecordRetryWait, SetRun, SetJob, Move
  <2>10. due' \subseteq Windows /\ row.exec = run[w].exec
         BY <2>3, <2>9 DEF KevInv, TypeOK
  <2>11. UNCHANGED <<entries, source, attempt, event, queue, config, faults, deploys>>
         BY <1>0 DEF catalog, delivery, environment
  <2>12. PICK g \in {"none", "staging", "complete", "active", "superseded"} :
            g = generation[w] /\ generation' = [generation EXCEPT ![w] = g]
         BY <1>0 DEF KevInv, TypeOK, catalog
  <2> QED BY <2>2, <2>4, <2>6, <2>8, <2>9, <2>10, <2>11, <2>12, WriteMoves
<1> QED BY <1>1, <1>2

LEMMA RetryJobStep ==
    ASSUME KevInv, NEW h \in Handlers, RetryJob(h)
    PROVE  KevInv'
<1>0. ctx[h].pc # "idle" /\ UNCHANGED <<run, due, catalog, attempt, delivery, environment>>
      BY DEF RetryJob, At
<1>1. PICK w \in Windows : /\ w = RunOf(h) /\ job[w] \in JobRows /\ WorkerOf[h] \in Workers
                           /\ JobOf(h) = job[w] /\ ctx[h] \in Contexts
                           /\ ctx[h].run \in Windows /\ run[ctx[h].run].state # "none"
      BY <1>0, Working DEF JobOf
<1>2. PICK jr \in JobRows : jr = markRetry(job[w], WorkerOf[h]) /\ SameVerdict(jr, job[w])
      BY <1>1, JobOperations
<1>3. job' = [job EXCEPT ![RunOf(h)] = jr] /\ RunOf(h) = w
      BY <1>1, <1>2 DEF RetryJob, SetJob
<1>4. PICK d \in Contexts : /\ d = IF Owned(h) THEN Reporting(ctx[h], "redispatch") ELSE Idle
                            /\ ContextOK(d) /\ d.pc \notin ClaimPcs
      BY <1>1, ReportingOK, IdleOK DEF Reported
<1>5. ctx' = [ctx EXCEPT ![h] = d]
      BY <1>4 DEF RetryJob, Move
<1> QED BY <1>0, <1>2, <1>3, <1>4, <1>5, JobMoves

LEMMA FailRunStep ==
    ASSUME KevInv, NEW h \in Handlers, FailRun(h)
    PROVE  KevInv'
<1> DEFINE commits == /\ ctx[h].copy.state \in PreSnapshot \cup PostSnapshot
                      /\ ctx[h].pc = "quarantined" =>
                            ctx[h].copy.state \notin {"requested", "retry_wait"}
                      /\ Current(h)
                      /\ Owned(h)
<1>0. /\ ctx[h].pc \in Failures /\ ctx[h].pc # "idle"
      /\ UNCHANGED <<catalog, attempt, delivery, environment>>
      BY DEF FailRun, Failures
<1>1. CASE ~commits
      BY <1>0, <1>1, RefusedMoves DEF FailRun
<1>2. CASE commits
  <2>1. PICK w \in Windows : /\ w = RunOf(h) /\ w = ctx[h].run /\ job[w] \in JobRows
                             /\ run[w] \in Runs /\ RowOK(run[w]) /\ WorkerOf[h] \in Workers
                             /\ JobOf(h) = job[w] /\ ctx[h] \in Contexts
        BY <1>0, Working DEF JobOf
  <2>2. /\ run[w] = ctx[h].copy /\ InFlight(w) /\ OwnedBy(job[w], WorkerOf[h])
        BY <1>0, <1>2, <2>1, CurrentIsCopy, OwnedInFlight DEF Owned
  <2>3. PICK p \in Failures : p = ctx[h].pc
        BY <1>0
  <2>4. PICK row \in Runs : /\ row = To(run[w], p) /\ row.state = p
                            /\ row.version = run[w].version + 1
                            /\ row.snap = run[w].snap /\ row.exec = run[w].exec
        BY <2>1, ToFields DEF RunStates, Terminal
  <2>5. Advances(run[w], row)
        BY <2>1, <2>4 DEF Advances, RowOK, PreSnapshot, PostSnapshot, Failures, Runs
  <2>6. PICK jr \in JobRows : jr = markTerminalFailure(job[w], WorkerOf[h]) /\ jr.status = "failed"
        BY <2>1, <2>2, JobOperations
  <2>7. /\ jr.status = "succeeded" <=> row.state \in Successes
        /\ jr.status = "failed" <=> row.state \in Failures
        BY <2>4, <2>6 DEF Successes, Failures
  <2>8. Idle \in Contexts /\ Wrote(Idle, w, row) /\ Idle.pc \notin ClaimPcs
        BY IdleOK, ModelValues DEF Wrote
  <2>9. /\ run' = [run EXCEPT ![w] = row] /\ job' = [job EXCEPT ![w] = jr]
        /\ ctx' = [ctx EXCEPT ![h] = Idle] /\ due' = due
        BY <1>2, <2>1, <2>2, <2>3, <2>4, <2>6 DEF FailRun, SetRun, SetJob, Move
  <2>10. due' \subseteq Windows /\ row.exec = run[w].exec
         BY <2>4, <2>9 DEF KevInv, TypeOK
  <2>11. UNCHANGED <<entries, source, attempt, event, queue, config, faults, deploys>>
         BY <1>0 DEF catalog, delivery, environment
  <2>12. PICK g \in {"none", "staging", "complete", "active", "superseded"} :
            g = generation[w] /\ generation' = [generation EXCEPT ![w] = g]
         BY <1>0 DEF KevInv, TypeOK, catalog
  <2> QED BY <2>2, <2>5, <2>7, <2>8, <2>9, <2>10, <2>11, <2>12, WriteMoves
<1> QED BY <1>1, <1>2

\* The run is settled when the success is reported: the job is settled too.
LEMMA ReportStep ==
    ASSUME KevInv, NEW h \in Handlers, ReportSuccess(h)
    PROVE  KevInv'
<1>0. /\ ctx[h].pc = "succeeded" /\ ctx[h].pc # "idle"
      /\ UNCHANGED <<run, due, catalog, attempt, delivery, environment>>
      BY DEF ReportSuccess, At
<1>1. PICK w \in Windows : /\ w = RunOf(h) /\ w = ctx[h].run /\ job[w] \in JobRows
                           /\ WorkerOf[h] \in Workers /\ JobOf(h) = job[w] /\ ContextOK(ctx[h])
      BY <1>0, Working DEF JobOf
<1>2. run[w].state \in Successes
      BY <1>0, <1>1 DEF ContextOK
<1>3. ~OwnedBy(job[w], WorkerOf[h])
      BY <1>0, <1>1, <1>2, OwnedInFlight DEF Owned, InFlight, Terminal
<1>4. markSucceeded(job[w], WorkerOf[h]) = job[w] /\ SameVerdict(job[w], job[w])
      BY <1>1, <1>3, JobOperations DEF SameVerdict
<1>5. job' = [job EXCEPT ![RunOf(h)] = job[w]] /\ ctx' = [ctx EXCEPT ![h] = Idle] /\ RunOf(h) = w
      BY <1>1, <1>4 DEF ReportSuccess, SetJob, Move
<1>6. job[w] \in JobRows
      BY <1>1
<1> QED BY <1>0, <1>4, <1>5, <1>6, IdleOK, JobMoves

LEMMA RedispatchStep ==
    ASSUME KevInv, NEW h \in Handlers, RedispatchRetry(h)
    PROVE  KevInv'
<1>0. ctx[h].pc # "idle" /\ ctx' = [ctx EXCEPT ![h] = Idle]
      BY DEF RedispatchRetry, At, Move
<1>1. PICK w \in Windows : w = RunOf(h) /\ run[w].state # "none" /\ attempt[w] \in Nat
      BY <1>0, Working
<1>2. /\ UNCHANGED <<run, due, generation, entries, source, attempt, event, config, deploys>>
      /\ job' = job
      BY DEF RedispatchRetry, catalog
<1>3. queue \subseteq Windows \X Nat /\ \A q \in queue : run[q[1]].state # "none"
      BY DEF KevInv, TypeOK, Unrequested
<1>4. queue' \subseteq Windows \X Nat /\ \A q \in queue' : run[q[1]].state # "none"
  <2>1. queue' = queue \/ queue' = Added(<<w, attempt[w]>>)
        BY <1>1 DEF RedispatchRetry
  <2> QED BY <1>1, <1>3, <2>1, AddedJobs
<1>5. faults' \in 0 .. MaxFaults
      BY KevAssumption DEF RedispatchRetry, KevInv, TypeOK
<1>6. job' \in [Windows -> JobRows] /\ \A v \in Windows : SameVerdict(job'[v], job[v])
      BY <1>2 DEF KevInv, TypeOK, SameVerdict
<1> QED BY <1>0, <1>2, <1>4, <1>5, <1>6, IdleOK, ContextMoves

LEMMA ShutdownStep ==
    ASSUME KevInv, NEW h \in Handlers, Shutdown(h)
    PROVE  KevInv'
<1>1. PICK layer \in Layers : /\ ctx[h].pc # "idle"
                              /\ ctx' = [ctx EXCEPT ![h] = Failing(ctx[h], "shutdown", layer)]
      BY DEF Shutdown, Move, Layers
<1>2. PICK d \in Contexts : /\ d = Failing(ctx[h], "shutdown", layer) /\ ContextOK(d)
                            /\ d.pc \notin ClaimPcs
      BY <1>1, Working, FailingOK DEF Codes
<1>3. UNCHANGED <<run, due, generation, entries, source, job, attempt, event, queue, config, deploys>>
      BY DEF Shutdown, catalog, delivery
<1>4. faults' \in 0 .. MaxFaults
      BY KevAssumption DEF Shutdown, KevInv, TypeOK
<1>5. /\ job' \in [Windows -> JobRows] /\ \A v \in Windows : SameVerdict(job'[v], job[v])
      /\ queue' \subseteq Windows \X Nat /\ \A q \in queue' : run[q[1]].state # "none"
      BY <1>3 DEF KevInv, TypeOK, Unrequested, SameVerdict
<1> QED BY <1>1, <1>2, <1>3, <1>4, <1>5, ContextMoves

-----------------------------------------------------------------------------
(* What a step may do to a snapshot and to the pointer of the source.      *)

LEMMA HandlerSnapshots ==
    ASSUME KevInv, NEW h \in Handlers, Handle(h), NEW w \in Windows, run[w].snap # NoCatalog
    PROVE  run'[w].snap = run[w].snap
<1>1. run \in [Windows -> Runs]
      BY DEF KevInv, TypeOK
<1>2. CASE run' = run
      BY <1>2
<1>3. ASSUME NEW row, run' = [run EXCEPT ![RunOf(h)] = row], ctx[h].pc # "idle",
             Current(h), row.snap = ctx[h].copy.snap
      PROVE  run'[w].snap = run[w].snap
      BY <1>1, <1>3, CurrentIsCopy, Working
<1>4. ASSUME ctx[h].pc # "idle"
      PROVE  /\ ctx[h].copy \in Runs
             /\ \A s \in RunStates : /\ To(ctx[h].copy, s) \in Runs
                                     /\ To(ctx[h].copy, s).snap = ctx[h].copy.snap
      BY <1>4, Working, ToFields DEF Contexts
<1>5. CASE ClaimFetch(h)
  <2>1. ctx[h].pc # "idle"
        BY <1>5 DEF ClaimFetch, At
  <2>2. PICK t \in Runs : t = To(ctx[h].copy, "fetching") /\ t.snap = ctx[h].copy.snap
        BY <1>4, <2>1 DEF RunStates, PreSnapshot
  <2>3. [t EXCEPT !.exec = @ + 1].snap = t.snap
        BY DEF Runs
  <2>4. run' = run \/ (Current(h) /\ run' = [run EXCEPT ![RunOf(h)] = [t EXCEPT !.exec = @ + 1]])
        BY <1>5, <2>2 DEF ClaimFetch, SetRun
  <2> QED BY <1>2, <1>3, <2>1, <2>2, <2>3, <2>4
<1>6. CASE StoreSnapshot(h)
  <2>1. ctx[h].pc = "store" /\ ctx[h].pc # "idle"
        BY <1>6 DEF StoreSnapshot, At
  <2>2. ctx[h].copy.state = "fetching" /\ RowOK(ctx[h].copy)
        BY <2>1, Working DEF ContextOK, CopyAt, AtWork, Behind
  <2>3. ctx[h].copy.snap = NoCatalog
        BY <2>2 DEF RowOK, PreSnapshot
  <2>4. run' = run \/ (Current(h) /\ \E row : run' = [run EXCEPT ![RunOf(h)] = row])
        BY <1>6 DEF StoreSnapshot, SetRun, Confirms
  <2>5. Current(h) => RunOf(h) # w
        BY <2>1, <2>3, CurrentIsCopy
  <2> QED BY <1>1, <2>4, <2>5
<1>7. CASE RecordParsing(h)
  <2>1. ctx[h].pc # "idle"
        BY <1>7 DEF RecordParsing, At
  <2>2. PICK t \in Runs : t = To(ctx[h].copy, "parsing") /\ t.snap = ctx[h].copy.snap
        BY <1>4, <2>1 DEF RunStates, PostSnapshot
  <2>3. run' = run \/ (Current(h) /\ run' = [run EXCEPT ![RunOf(h)] = t])
        BY <1>7, <2>2 DEF RecordParsing, SetRun
  <2> QED BY <1>2, <1>3, <2>1, <2>2, <2>3
<1>8. CASE StageGeneration(h)
  <2>1. ctx[h].pc # "idle"
        BY <1>8 DEF StageGeneration, At
  <2>2. PICK t \in Runs : t = To(ctx[h].copy, "staging") /\ t.snap = ctx[h].copy.snap
        BY <1>4, <2>1 DEF RunStates, PostSnapshot
  <2>3. [t EXCEPT !.gen = TRUE].snap = t.snap
        BY DEF Runs
  <2>4. run' = run \/ (Current(h) /\ run' = [run EXCEPT ![RunOf(h)] = [t EXCEPT !.gen = TRUE]])
        BY <1>8, <2>2 DEF StageGeneration, SetRun
  <2> QED BY <1>2, <1>3, <2>1, <2>2, <2>3, <2>4
<1>9. CASE CompleteGeneration(h)
  <2>1. ctx[h].pc # "idle"
        BY <1>9 DEF CompleteGeneration, At
  <2>2. PICK t \in Runs : t = To(ctx[h].copy, "activating") /\ t.snap = ctx[h].copy.snap
        BY <1>4, <2>1 DEF RunStates, PostSnapshot
  <2>3. run' = run \/ (Current(h) /\ run' = [run EXCEPT ![RunOf(h)] = t])
        BY <1>9, <2>2 DEF CompleteGeneration, SetRun
  <2> QED BY <1>2, <1>3, <2>1, <2>2, <2>3
<1>10. CASE Swap(h)
  <2>1. ctx[h].pc # "idle"
        BY <1>10 DEF Swap, At
  <2>2. PICK t \in Runs : t = To(ctx[h].copy, "completed") /\ t.snap = ctx[h].copy.snap
        BY <1>4, <2>1 DEF RunStates, Terminal, Successes
  <2>3. run' = run \/ (Current(h) /\ run' = [run EXCEPT ![RunOf(h)] = t])
        BY <1>10, <2>1, <2>2, SwapCases, CurrentIsCopy DEF Activatable
  <2> QED BY <1>2, <1>3, <2>1, <2>2, <2>3
<1>11. CASE RecordRetryWait(h)
  <2>1. ctx[h].pc # "idle"
        BY <1>11 DEF RecordRetryWait, At
  <2>2. PICK t \in Runs : t = To(ctx[h].copy, "retry_wait") /\ t.snap = ctx[h].copy.snap
        BY <1>4, <2>1 DEF RunStates, PreSnapshot
  <2>3. run' = run \/ (Current(h) /\ run' = [run EXCEPT ![RunOf(h)] = t])
        BY <1>11, <2>2 DEF RecordRetryWait, SetRun, Refused
  <2> QED BY <1>2, <1>3, <2>1, <2>2, <2>3
<1>12. CASE FailRun(h)
  <2>1. PICK p \in RunStates : p = ctx[h].pc /\ p # "idle"
        BY <1>12 DEF FailRun, RunStates, Terminal, Failures
  <2>2. PICK t \in Runs : t = To(ctx[h].copy, p) /\ t.snap = ctx[h].copy.snap
        BY <1>4, <2>1
  <2>3. run' = run \/ (Current(h) /\ run' = [run EXCEPT ![RunOf(h)] = t])
        BY <1>12, <2>1, <2>2 DEF FailRun, SetRun, Refused
  <2> QED BY <1>2, <1>3, <2>1, <2>2, <2>3
<1>13. CASE \/ Lookup(h) \/ Claim(h) \/ Precheck(h) \/ FetchCatalog(h) \/ GetSnapshot(h)
            \/ ParseAndDecide(h) \/ InspectPrefix(h) \/ ResumePrefix(h) \/ Reload(h) \/ StageBatch(h) \/ Activate(h)
            \/ RetryJob(h) \/ ReportSuccess(h) \/ RedispatchRetry(h)
  <2>1. run' = run
        BY <1>13 DEF Lookup, Claim, Precheck, FetchCatalog, GetSnapshot, ParseAndDecide,
                     InspectPrefix, ResumePrefix, Reload, StageBatch, Activate, RetryJob, ReportSuccess,
                     RedispatchRetry
  <2> QED BY <2>1, SMTT(30)
<1> QED BY <1>5, <1>6, <1>7, <1>8, <1>9, <1>10, <1>11, <1>12, <1>13 DEF Handle

LEMMA SnapshotKept ==
    ASSUME KevInv, Next, NEW w \in Windows, run[w].snap # NoCatalog
    PROVE  run'[w].snap = run[w].snap
<1>1. CASE \E h \in Handlers : Handle(h)
      BY <1>1, HandlerSnapshots
<1>2. CASE \E v \in Windows : requestSync(v)
  <2>1. PICK v \in Windows : requestSync(v)
        BY <1>2
  <2>2. run[v].state = "none"
    <3>1. \A u \in Windows : run[u].state # "none" => u < v
          BY <2>1 DEF requestSync, MayRequest
    <3> QED BY <3>1 DEF Windows
  <2>3. w # v
        BY <2>2 DEF KevInv, RowOK
  <2>4. run \in [Windows -> Runs] /\ \E row : run' = [run EXCEPT ![v] = row]
        BY <2>1 DEF requestSync, KevInv, TypeOK
  <2> QED BY <2>3, <2>4
<1>3. CASE ~(\E h \in Handlers : Handle(h)) /\ ~(\E v \in Windows : requestSync(v))
  <2>1. run' = run
        BY <1>3 DEF Next, Publish, Record, Redeliver, RetryDue, LeaseExpires, Shutdown, Take, Crash,
                    Deploy
  <2> QED BY <2>1
<1> QED BY <1>1, <1>2, <1>3

\* Only a committed activation moves the pointer.
LEMMA PointerMoves ==
    ASSUME KevInv, Next, source'.active # source.active
    PROVE  \E h \in Handlers : ctx[h].pc = "swap" /\ Activatable(h) /\ source'.active = RunOf(h)
<1>1. CASE \E h \in Handlers : Swap(h)
  <2>1. PICK h \in Handlers : Swap(h)
        BY <1>1
  <2>2. source' # source => Activatable(h) /\ source'.active = RunOf(h)
        BY <2>1, SwapCases DEF catalog
  <2> QED BY <2>1, <2>2 DEF Swap, At
<1>2. CASE \E settings \in [label : Versions, enabled : BOOLEAN] : Deploy(settings)
  <2>1. source \in Sources
        BY DEF KevInv, TypeOK
  <2>2. source'.active = source.active
        BY <1>2, <2>1 DEF Deploy, Sources
  <2> QED BY <2>2
<1>3. CASE \E h \in Handlers : Handle(h) /\ ~Swap(h)
  <2>1. source' = source
        BY <1>3, ZenonT(60)
                DEF Handle, Lookup, Claim, Precheck, ClaimFetch, FetchCatalog, StoreSnapshot, GetSnapshot,
                    RecordParsing, ParseAndDecide, StageGeneration, InspectPrefix, ResumePrefix, Reload, StageBatch,
                    CompleteGeneration, Activate, RecordRetryWait, RetryJob, FailRun, ReportSuccess,
                    RedispatchRetry, catalog
  <2> QED BY <2>1, SMTT(30)
<1>4. CASE ~(\E h \in Handlers : Handle(h))
           /\ ~(\E settings \in [label : Versions, enabled : BOOLEAN] : Deploy(settings))
  <2>1. source' = source
        BY <1>4 DEF Next, requestSync, Publish, Record, Redeliver, RetryDue, LeaseExpires, Shutdown, Take,
                    Crash, catalog
  <2> QED BY <2>1
<1> QED BY <1>1, <1>2, <1>3, <1>4

-----------------------------------------------------------------------------
(* The theorems.                                                           *)

LEMMA InitInv == Init => KevInv
<1> SUFFICES ASSUME Init PROVE KevInv
    OBVIOUS
<1>1. /\ \A w \in Windows : /\ run[w] = NoRun /\ generation[w] = "none" /\ entries[w] = {}
                            /\ job[w] = AbsentJob /\ attempt[w] = 0 /\ event[w] = "none"
      /\ \A h \in Handlers : ctx[h] = Idle
      /\ source = NoSource /\ queue = {}
      BY DEF Init
<1>2. source.active = 0 /\ AbsentJob \in JobRows /\ AbsentJob.status = "absent"
      BY <1>1 DEF NoSource, AbsentJob, JobRows, JobStatuses, Leases
<1>3. TypeOK
  <2>1. /\ run \in [Windows -> Runs] /\ ctx \in [Handlers -> Contexts]
        /\ source \in Sources /\ job \in [Windows -> JobRows]
        BY <1>1, <1>2, ModelValues DEF Init
  <2>2. /\ generation \in [Windows -> {"none", "staging", "complete", "active", "superseded"}]
        /\ entries \in [Windows -> SUBSET Nat] /\ attempt \in [Windows -> Nat]
        /\ event \in [Windows -> {"none", "pending", "published", "processed"}]
        BY DEF Init
  <2>3. config \in [label : Versions, enabled : BOOLEAN]
    <3>1. (CHOOSE v \in Versions : TRUE) \in Versions
          BY KevAssumption
    <3> QED BY <3>1 DEF Init
  <2>4. /\ faults \in 0 .. MaxFaults /\ deploys \in 0 .. MaxDeploys /\ due \subseteq Windows
        /\ queue \subseteq Windows \X Nat
        BY KevAssumption DEF Init
  <2>5. \A h \in Handlers : ctx[h].pc = "idle"
        BY <1>1, ModelValues
  <2> QED BY <2>1, <2>2, <2>3, <2>4, <2>5 DEF TypeOK
<1>4. \A h \in Handlers : ContextOK(ctx[h])
      BY <1>1, IdleOK
<1>5. Unrequested
      BY <1>1 DEF Unrequested
<1>6. \A w \in Windows : ~InFlight(w)
      BY <1>1, ModelValues DEF InFlight
<1>7. \A w \in Windows : RowOK(run[w]) /\ StagedFor(w) /\ NotOlder(w)
      BY <1>1, <1>6, ModelValues DEF RowOK, StagedFor, NotOlder, PostSnapshot
<1>8. OneInFlight /\ ActiveIsWhole
      BY <1>1, <1>2, <1>6 DEF OneInFlight, ActiveIsWhole
<1>9. JobAndRunAgree
      BY <1>1, <1>2, ModelValues DEF JobAndRunAgree, Successes, Failures
<1>10. ClaimsCovered
  <2>1. \A w \in Windows : Claimants(w) = {}
        BY <1>1, IdleOK DEF Claimants
  <2> QED BY <1>1, <2>1, ModelValues, FS_EmptySet DEF ClaimsCovered
<1> QED BY <1>3, <1>4, <1>5, <1>7, <1>8, <1>9, <1>10 DEF KevInv

LEMMA StepInv == KevInv /\ [Next]_vars => KevInv'
<1> SUFFICES ASSUME KevInv, [Next]_vars PROVE KevInv'
    OBVIOUS
<1>1. CASE UNCHANGED vars
  <2>1. /\ UNCHANGED <<run, generation, entries, source, attempt, ctx, config, deploys>>
        /\ UNCHANGED <<faults, due, job, event, queue>>
        BY <1>1 DEF vars
  <2>2. /\ faults' \in 0 .. MaxFaults /\ due' \subseteq Windows
        /\ job' \in [Windows -> JobRows] /\ \A w \in Windows : SameVerdict(job'[w], job[w])
        /\ event' \in [Windows -> {"none", "pending", "published", "processed"}]
        /\ \A w \in Windows : run[w].state = "none" => event'[w] = "none"
        /\ queue' \subseteq Windows \X Nat
        /\ \A id \in queue' : run[id[1]].state # "none"
        BY <2>1 DEF KevInv, TypeOK, Unrequested, SameVerdict
  <2> QED BY <2>1, <2>2, AroundHandlers
<1>2. ASSUME NEW h \in Handlers, Handle(h)
      PROVE  KevInv'
      BY <1>2, LookupStep, ClaimStep, PrecheckStep, ClaimFetchStep, FetchStep, StoreStep, GetStep,
         ParsingStep, DecideStep, StageStep, InspectStep, ResumeStep, ReloadStep, BatchStep, CompleteStep,
         ActivateStep, SwapStep, RetryWaitStep, RetryJobStep, FailRunStep, ReportStep, RedispatchStep
      DEF Handle
<1>3. ASSUME NEW w \in Windows,
             requestSync(w) \/ Publish(w) \/ Record(w) \/ Redeliver(w) \/ RetryDue(w) \/ LeaseExpires(w)
      PROVE  KevInv'
      BY <1>3, RequestStep, RelaySteps, ClockSteps
<1>4. ASSUME NEW h \in Handlers, Shutdown(h) \/ \E id \in queue : Take(h, id)
      PROVE  KevInv'
      BY <1>4, ShutdownStep, TakeStep
<1> QED BY <1>1, <1>2, <1>3, <1>4, CrashStep, DeployStep DEF Next

\* The inductive invariant holds in every reachable state.
THEOREM InvariantHolds == Spec => []KevInv
BY InitInv, StepInv, PTL DEF Spec

\* Every row, every context and the queue keep their types: a handler at work
\* always has a run.
THEOREM TypeCorrect == Spec => []TypeOK
<1>1. KevInv => TypeOK
      BY DEF KevInv
<1> QED BY <1>1, InvariantHolds, PTL

\* The generation the source points to is the only active one, its run is
\* completed and all entries of its catalog are there, however many handlers
\* staged, overtook one another or died (activateCompleteGeneration).
THEOREM ActiveCatalogIsWhole == Spec => []ActiveIsWhole
<1>1. KevInv => ActiveIsWhole
      BY DEF KevInv
<1> QED BY <1>1, InvariantHolds, PTL

\* A run and its background job are settled together and the same way, though
\* three transactions and reconcileTerminal settle jobs.
THEOREM JobFollowsRun == Spec => []JobAndRunAgree
<1>1. KevInv => JobAndRunAgree
      BY DEF KevInv
<1> QED BY <1>1, InvariantHolds, PTL

\* A run is never fetched more often than its job was claimed: every claim is
\* spent on one fetch at most, also by a handler that has lost the claim.
THEOREM FetchesWithinClaims == Spec => []ExecutionWithinAttempts
<1>1. KevInv => ExecutionWithinAttempts
  <2> SUFFICES ASSUME KevInv, NEW w \in Windows PROVE run[w].exec <= attempt[w]
      BY DEF ExecutionWithinAttempts
  <2>1. /\ run[w].exec + Cardinality(Claimants(w)) <= attempt[w]
        /\ run[w].exec \in Nat /\ attempt[w] \in Nat
        BY DEF KevInv, ClaimsCovered, TypeOK, Runs
  <2>2. Cardinality(Claimants(w)) \in Nat
        BY FS_Subset, FS_CardinalityType, KevAssumption DEF Claimants
  <2> QED BY <2>1, <2>2
<1> QED BY <1>1, InvariantHolds, PTL

\* The snapshot of a run is written once: neither a later attempt nor a fetch
\* that was overtaken replaces it (storeFetchedSnapshot).
THEOREM SnapshotIsWrittenOnce == Spec => SnapshotIsFinal
<1>1. KevInv /\ [Next]_vars =>
        [\A w \in Windows : run[w].snap # NoCatalog => run'[w].snap = run[w].snap]_vars
      BY SnapshotKept
<1> QED BY <1>1, InvariantHolds, PTL DEF Spec, SnapshotIsFinal

\* What readers of the active generation see changes from one whole catalog to
\* another that is not older: the synchronization implements KevCatalog.
THEOREM Refinement == Spec => ImplementsCatalog
<1> DEFINE served == IF source.active = 0 THEN NoCatalog ELSE run[source.active].snap
           visible == IF source.active = 0 THEN {} ELSE entries[source.active]
<1>1. Init => Catalog!Init
      BY DEF Init, Catalog!Init, NoSource
<1>2. KevInv /\ KevInv' /\ [Next]_vars => [Catalog!Next]_<<served, visible>>
  <2> SUFFICES ASSUME KevInv, KevInv', [Next]_vars
               PROVE  [Catalog!Next]_<<served, visible>>
      OBVIOUS
  <2>1. /\ source.active # 0 => /\ source.active \in Windows /\ run[source.active].snap \in Catalogs
                                /\ entries[source.active] = Ordinals(run[source.active].snap)
        /\ source'.active # 0 => /\ source'.active \in Windows
                                 /\ entries'[source'.active] = Ordinals(run'[source'.active].snap)
    <3>1. source.active \in 0 .. LastWindow /\ source'.active \in 0 .. LastWindow
          BY DEF KevInv, TypeOK, Sources
    <3>2. /\ source.active # 0 => source.active \in Windows
          /\ source'.active # 0 => source'.active \in Windows
          BY <3>1, KevAssumption DEF Windows
    <3>3. /\ source.active # 0 => /\ run[source.active].state = "completed"
                                  /\ entries[source.active] = Ordinals(run[source.active].snap)
          /\ source'.active # 0 => entries'[source'.active] = Ordinals(run'[source'.active].snap)
          BY DEF KevInv, ActiveIsWhole
    <3>4. source.active # 0 => RowOK(run[source.active])
          BY <3>2 DEF KevInv
    <3> QED BY <3>2, <3>3, <3>4 DEF RowOK
  <2>2. CASE source'.active = source.active
    <3>1. source.active # 0 => run'[source.active].snap = run[source.active].snap
          BY <2>1, SnapshotKept, KevAssumption DEF vars
    <3>2. source.active # 0 => entries'[source.active] = entries[source.active]
          BY <2>1, <2>2, <3>1
    <3>3. UNCHANGED <<served, visible>>
          BY <2>2, <3>1, <3>2
    <3> QED BY <3>3
  <2>3. CASE source'.active # source.active
    <3>1. Next
          BY <2>3 DEF vars
    <3>2. PICK h \in Handlers : /\ ctx[h].pc = "swap" /\ Activatable(h)
                                /\ source'.active = RunOf(h)
          BY <2>3, <3>1, PointerMoves
    <3>3. PICK w \in Windows : w = RunOf(h) /\ run[w].snap \in Catalogs /\ ~Regresses(run[w].snap)
          BY <3>2, AtActivation
    <3>4. run'[w].snap = run[w].snap
          BY <3>1, <3>3, SnapshotKept, KevAssumption
    <3>5. PICK c \in Catalogs : c = run[w].snap
          BY <3>3
    <3>6. w # 0
          BY DEF Windows
    <3>7. served' = c /\ visible' = 0 .. (Size[c] - 1)
          BY <2>1, <3>2, <3>3, <3>4, <3>5, <3>6 DEF Ordinals
    <3>8. served # NoCatalog => Released[c] >= Released[served]
      <4>1. CASE source.active = 0
            BY <4>1
      <4>2. CASE source.active # 0
        <5>1. /\ Released[c] \in Nat /\ Released[run[source.active].snap] \in Nat
              BY <2>1, <4>2, KevAssumption
        <5>2. ~(Released[c] < Released[run[source.active].snap])
              BY <3>3, <3>5, <4>2 DEF Regresses
        <5> QED BY <4>2, <5>1, <5>2
      <4> QED BY <4>1, <4>2
    <3>9. Catalog!Replace(c)
          BY <3>7, <3>8 DEF Catalog!Replace
    <3> QED BY <3>9 DEF Catalog!Next
  <2> QED BY <2>2, <2>3
<1> QED BY <1>1, <1>2, InvariantHolds, PTL DEF Spec, ImplementsCatalog, Catalog!Spec

=============================================================================

------------------------ MODULE SbomIngestion_proof -------------------------
(***************************************************************************)
(* Proofs about the SBOM ingestion processor, for any number of uploads,   *)
(* assets, handlers, processes and faults.  Every handler may outlive its  *)
(* lease, except in the last section, which is about prompt handlers.      *)
(***************************************************************************)
EXTENDS SbomIngestion, TLAPS

-----------------------------------------------------------------------------
(* Lemmas on the operators of BackgroundJobs and IngestionTransitions.     *)

\* Every UPDATE of a background_job row leaves a well-formed row.
LEMMA JobRowClosed ==
    ASSUME NEW row \in JobRows
    PROVE  /\ enqueueQueued(row) \in JobRows
           /\ expire(row) \in JobRows
           /\ \A worker \in Workers :
                /\ claimExecution(row, worker) \in JobRows
                /\ markRetry(row, worker) \in JobRows
                /\ markSucceeded(row, worker) \in JobRows
                /\ markTerminalFailure(row, worker) \in JobRows
                /\ succeedOwnedJob(row, worker) \in JobRows
BY DEF JobRows, JobStatuses, Leases, enqueueQueued, claimExecution, markRetry,
       markSucceeded, markTerminalFailure, succeedOwnedJob, expire, OwnedBy, Claimable

\* Only markSucceeded and succeedOwnedJob make a job succeeded.
LEMMA OthersDoNotSucceed ==
    ASSUME NEW row \in JobRows
    PROVE  /\ enqueueQueued(row).status = "succeeded" => row.status = "succeeded"
           /\ expire(row).status = "succeeded" => row.status = "succeeded"
           /\ \A w \in Workers :
                /\ claimExecution(row, w).status = "succeeded" => row.status = "succeeded"
                /\ markRetry(row, w).status = "succeeded" => row.status = "succeeded"
                /\ markTerminalFailure(row, w).status = "succeeded" => row.status = "succeeded"
BY DEF JobRows, JobStatuses, Leases, enqueueQueued, claimExecution, markRetry,
       markTerminalFailure, expire, OwnedBy, Claimable

\* A transition leaves a well-formed row, does not touch a settled one, and
\* reaches "completed" only by the command complete.
LEMMA TransitionFacts ==
    ASSUME NEW row \in IngestionRows, NEW v \in Nat, NEW command \in Commands
    PROVE  /\ applyTransition(row, v, command) \in IngestionRows
           /\ isTerminal(row) => applyTransition(row, v, command) = row
           /\ applyTransition(row, v, command) # row
                => applyTransition(row, v, command).version = row.version + 1
           /\ command # "complete"
                => (applyTransition(row, v, command).state = "completed"
                      <=> row.state = "completed")
BY DEF IngestionRows, IngestionStates, TerminalStates, Commands, applyTransition,
       Accepts, isTerminal, Sources, Target

\* Completing a processing row at its own version always succeeds.
LEMMA CompleteSucceeds ==
    ASSUME NEW row \in IngestionRows, row.state = "processing"
    PROVE  /\ applyTransition(row, row.version, "complete") \in IngestionRows
           /\ applyTransition(row, row.version, "complete").state = "completed"
           /\ applyTransition(row, row.version, "complete").version = row.version + 1
BY DEF IngestionRows, IngestionStates, TerminalStates, applyTransition,
       Accepts, isTerminal, Sources, Target

-----------------------------------------------------------------------------
(* Type correctness.                                                       *)

\* The state an upload leaves before any relay or handler runs is well formed.
LEMMA InitTypeOK == Init => TypeOK
BY IngestionAssumption
   DEF Init, TypeOK, QueueStates, JobRows, AbsentJob, JobStatuses, Leases, AcceptedRow,
       IngestionRows, IngestionStates, Steps, ClaimedSteps, FailureOutcomes

\* Every statement of a handler and every failure keeps the types; a handler
\* about to finalize carries the outcome of a terminal failure.
LEMMA NextTypeOK == TypeOK /\ [Next]_vars => TypeOK'
<1> SUFFICES ASSUME TypeOK, [Next]_vars PROVE TypeOK'
    OBVIOUS
<1> USE IngestionAssumption DEF TypeOK, Goto
<1> USE DEF QueueStates, Steps, ClaimedSteps, AuditKinds, rows, broker, locals
<1>1. ASSUME NEW i \in Ingestions, Publish(i) PROVE TypeOK'
    BY <1>1 DEF Publish
<1>2. ASSUME NEW i \in Ingestions, EnqueueQueued(i) PROVE TypeOK'
    BY <1>2, JobRowClosed DEF EnqueueQueued
<1>3. ASSUME NEW h \in Handlers, NEW i \in Ingestions, Deliver(h, i) PROVE TypeOK'
    BY <1>3 DEF Deliver
<1>4. ASSUME NEW h \in Handlers, Lookup(h) PROVE TypeOK'
    BY <1>4 DEF Lookup
<1>5. ASSUME NEW h \in Handlers, Claim(h) PROVE TypeOK'
    BY <1>5, JobRowClosed DEF Claim
<1>6. ASSUME NEW h \in Handlers, Load(h) PROVE TypeOK'
    BY <1>6 DEF Load, NextAfterRead, IngestionRows
<1>7. ASSUME NEW h \in Handlers, Begin(h) PROVE TypeOK'
    <2>1. item[h] \in Ingestions /\ version[h] \in Nat /\ ingestion[item[h]] \in IngestionRows
        BY <1>7 DEF Begin
    <2>2. applyTransition(ingestion[item[h]], version[h], "start_processing") \in IngestionRows
        BY <2>1, TransitionFacts DEF Commands
    <2>3. ingestion' \in [Ingestions -> IngestionRows]
        BY <1>7, <2>1, <2>2 DEF Begin
    <2> QED BY <1>7, <2>1, <2>3 DEF Begin
<1>8. ASSUME NEW h \in Handlers, Reload(h) PROVE TypeOK'
    BY <1>8 DEF Reload, NextAfterRead, IngestionRows
<1>9. ASSUME NEW h \in Handlers, Fetch(h) PROVE TypeOK'
    <2>1. PICK outcome \in FailureOutcomes \cup {"ok"} :
            /\ code' = [code EXCEPT ![h] = outcome]
            /\ \/ outcome = "ok" /\ pc' = [pc EXCEPT ![h] = "persist"]
               \/ outcome \in FailureOutcomes /\ pc' = [pc EXCEPT ![h] = finalizeByCode(outcome)]
        BY <1>9 DEF Fetch, finalizeByCode, FailureOutcomes
    <2>2. pc'[h] = "finalize" => code'[h] \in TerminalOutcomes
        BY <2>1 DEF finalizeByCode, TerminalOutcomes
    <2>3. pc' \in [Handlers -> Steps] /\ faults' \in 0..MaxFaults
        BY <1>9, <2>1 DEF Fetch, finalizeByCode
    <2>4. \A g \in Handlers \ {h} : pc'[g] = pc[g] /\ code'[g] = code[g]
        BY <2>1
    <2> QED BY <1>9, <2>1, <2>2, <2>3, <2>4 DEF Fetch
<1>10. ASSUME NEW h \in Handlers, Persist(h) PROVE TypeOK'
    <2> DEFINE i == item[h]
    <2>1. i \in Ingestions /\ AssetOf[i] \in Assets /\ WorkerOf[h] \in Workers
        BY <1>10 DEF Persist
    <2>2. CASE UNCHANGED <<jobs, rows>>
        BY <1>10, <2>2 DEF Persist
    <2>3. CASE PersistDecision(ingestion[i]) = "insert"
        <3>1. ingestion[i].state = "processing"
            BY <2>3 DEF PersistDecision
        <3>2. ingestion' \in [Ingestions -> IngestionRows]
            BY <1>10, <2>1, <2>3, <3>1, CompleteSucceeds DEF Persist
        <3>3. jobs' \in [Ingestions -> JobRows]
            <4>1. jobs' = [jobs EXCEPT ![i] = succeedOwnedJob(jobs[i], WorkerOf[h])]
                BY <1>10, <2>1, <2>3 DEF Persist
            <4>2. succeedOwnedJob(jobs[i], WorkerOf[h]) \in JobRows
                BY <2>1, JobRowClosed
            <4> QED BY <2>1, <4>1, <4>2
        <3>4. pointer' \in [Assets -> Ingestions \cup {NoIngestion}]
            BY <1>10, <2>1, <2>3 DEF Persist
        <3> QED BY <1>10, <2>1, <2>3, <3>2, <3>3, <3>4 DEF Persist
    <2> QED BY <1>10, <2>2, <2>3 DEF Persist
<1>11. ASSUME NEW h \in Handlers, Latest(h) PROVE TypeOK'
    BY <1>11 DEF Latest
<1>12. ASSUME NEW h \in Handlers, Succeed(h) PROVE TypeOK'
    BY <1>12, JobRowClosed DEF Succeed
<1>13. ASSUME NEW h \in Handlers, Align(h) PROVE TypeOK'
    BY <1>13, JobRowClosed DEF Align
<1>14. ASSUME NEW h \in Handlers, Unclaim(h) PROVE TypeOK'
    BY <1>14, JobRowClosed DEF Unclaim
<1>15. ASSUME NEW h \in Handlers, Release(h) PROVE TypeOK'
    BY <1>15, JobRowClosed, TransitionFacts DEF Release, Commands
<1>16. ASSUME NEW h \in Handlers, FinalizeTerminal(h) PROVE TypeOK'
    <2> DEFINE i == item[h]
    <2>1. i \in Ingestions /\ code[h] \in TerminalOutcomes /\ WorkerOf[h] \in Workers
        BY <1>16 DEF FinalizeTerminal
    <2>2. CommandFor[code[h]] \in Commands /\ KindFor[code[h]] \in AuditKinds
        BY <2>1 DEF TerminalOutcomes, FailureOutcomes, CommandFor, KindFor, Commands
    <2>3. ingestion' \in [Ingestions -> IngestionRows]
        <3>1. applyTransition(ingestion[i], version[h], CommandFor[code[h]]) \in IngestionRows
            BY <2>1, <2>2, TransitionFacts
        <3>2. \/ ingestion' = ingestion
              \/ ingestion' = [ingestion EXCEPT
                    ![i] = applyTransition(ingestion[i], version[h], CommandFor[code[h]])]
            BY <1>16, <2>1 DEF FinalizeTerminal
        <3> QED BY <2>1, <3>1, <3>2
    <2>4. jobs' \in [Ingestions -> JobRows]
        <3>1. markTerminalFailure(jobs[i], WorkerOf[h]) \in JobRows
            BY <2>1, JobRowClosed
        <3>2. \/ jobs' = jobs
              \/ jobs' = [jobs EXCEPT ![i] = markTerminalFailure(jobs[i], WorkerOf[h])]
            BY <1>16, <2>1 DEF FinalizeTerminal
        <3> QED BY <2>1, <3>1, <3>2
    <2>5. audits' \subseteq AuditKinds \X Ingestions
        BY <1>16, <2>1, <2>2 DEF FinalizeTerminal
    <2> QED BY <1>16, <2>1, <2>3, <2>4, <2>5 DEF FinalizeTerminal
<1>17. ASSUME NEW h \in Handlers, Settle(h) PROVE TypeOK'
    BY <1>17 DEF Settle
<1>18. ASSUME NEW h \in Handlers, Throw(h) PROVE TypeOK'
    BY <1>18 DEF Throw
<1>19. ASSUME NEW w \in Workers, Crash(w) PROVE TypeOK'
    BY <1>19 DEF Crash
<1>20. ASSUME NEW i \in Ingestions, LeaseExpires(i) PROVE TypeOK'
    BY <1>20, JobRowClosed DEF LeaseExpires
<1>21. ASSUME NEW i \in Ingestions, Stall(i) PROVE TypeOK'
    BY <1>21 DEF Stall
<1>22. ASSUME NEW i \in Ingestions, Replay(i) PROVE TypeOK'
    BY <1>22 DEF Replay
<1>23. CASE Quiet \/ UNCHANGED vars
    BY <1>23 DEF Quiet, vars
<1> QED
    BY <1>1, <1>2, <1>3, <1>4, <1>5, <1>6, <1>7, <1>8, <1>9, <1>10, <1>11, <1>12,
       <1>13, <1>14, <1>15, <1>16, <1>17, <1>18, <1>19, <1>20, <1>21, <1>22, <1>23
       DEF Next, Handle

\* Every reachable state of the processor is well formed.
THEOREM TypeCorrect == Spec => []TypeOK
BY InitTypeOK, NextTypeOK, PTL DEF Spec

-----------------------------------------------------------------------------
(* What a step does to the tenant's rows: nothing, one transition that is  *)
(* not a completion, or one completion.                                    *)

Transition(i, v, command) ==
    /\ ingestion' = [ingestion EXCEPT ![i] = applyTransition(ingestion[i], v, command)]
    /\ UNCHANGED <<graphs, pointer>>
    /\ \A j \in Ingestions : <<"completed", j>> \in audits' <=> <<"completed", j>> \in audits

Completion(i) ==
    /\ ingestion[i].state = "processing"
    /\ ingestion' = [ingestion EXCEPT
                       ![i] = applyTransition(ingestion[i], ingestion[i].version, "complete")]
    /\ graphs' = [graphs EXCEPT ![i] = graphs[i] + 1]
    /\ pointer' = [pointer EXCEPT ![AssetOf[i]] =
                     IF Replaces(pointer[AssetOf[i]], i) THEN i ELSE pointer[AssetOf[i]]]
    /\ audits' = audits \cup {<<"completed", i>>}

StepEffect ==
    \/ UNCHANGED rows
    \/ \E i \in Ingestions, v \in Nat, command \in Commands \ {"complete"} :
         Transition(i, v, command)
    \/ \E i \in Ingestions : Completion(i)

\* Seen from the ingestion rows, the graphs and the pointer, a step changes
\* nothing, is one conditional transition, or is the completing transaction.
LEMMA NextStepEffect == TypeOK /\ [Next]_vars => StepEffect
<1> SUFFICES ASSUME TypeOK, [Next]_vars PROVE StepEffect
    OBVIOUS
<1>1. ASSUME NEW h \in Handlers, Begin(h) PROVE StepEffect
    <2>1. item[h] \in Ingestions /\ version[h] \in Nat
        BY <1>1 DEF Begin, TypeOK
    <2>2. Transition(item[h], version[h], "start_processing")
        BY <1>1, <2>1 DEF Begin, Transition, TypeOK
    <2> QED BY <2>1, <2>2 DEF StepEffect, Commands
<1>2. ASSUME NEW h \in Handlers, Release(h) PROVE StepEffect
    <2>1. item[h] \in Ingestions /\ version[h] \in Nat
        BY <1>2 DEF Release, TypeOK
    <2>2. Transition(item[h], version[h], "release_for_retry")
        BY <1>2, <2>1 DEF Release, Transition, TypeOK
    <2> QED BY <2>1, <2>2 DEF StepEffect, Commands
<1>3. ASSUME NEW h \in Handlers, FinalizeTerminal(h) PROVE StepEffect
    <2> DEFINE i == item[h]
               command == CommandFor[code[h]]
    <2>1. i \in Ingestions /\ version[h] \in Nat /\ code[h] \in TerminalOutcomes
        BY <1>3 DEF FinalizeTerminal, TypeOK
    <2>2. command \in Commands \ {"complete"} /\ KindFor[code[h]] # "completed"
        BY <2>1 DEF TerminalOutcomes, FailureOutcomes, CommandFor, KindFor, Commands
    <2>3. CASE <<KindFor[code[h]], i>> \in audits
        BY <1>3, <2>3 DEF FinalizeTerminal, StepEffect, rows
    <2>4. CASE <<KindFor[code[h]], i>> \notin audits
        <3>1. audits' = audits \cup {<<KindFor[code[h]], i>>}
            BY <1>3, <2>4 DEF FinalizeTerminal
        <3>2. \A j \in Ingestions : <<"completed", j>> \in audits' <=> <<"completed", j>> \in audits
            BY <2>2, <3>1
        <3>3. Transition(i, version[h], command)
            BY <1>3, <2>1, <2>4, <3>2 DEF FinalizeTerminal, Transition, TypeOK
        <3> QED BY <2>1, <2>2, <3>3 DEF StepEffect
    <2> QED BY <2>3, <2>4
<1>4. ASSUME NEW h \in Handlers, Persist(h) PROVE StepEffect
    <2> DEFINE i == item[h]
    <2>1. i \in Ingestions
        BY <1>4 DEF Persist, TypeOK
    <2>2. CASE UNCHANGED <<jobs, rows>>
        BY <2>2 DEF StepEffect
    <2>3. CASE PersistDecision(ingestion[i]) = "insert"
        <3>1. ingestion[i].state = "processing"
            BY <2>3 DEF PersistDecision
        <3>2. Completion(i)
            BY <1>4, <2>1, <2>3, <3>1, IngestionAssumption DEF Persist, Completion, TypeOK
        <3> QED BY <2>1, <3>2 DEF StepEffect
    <2> QED BY <1>4, <2>2, <2>3 DEF Persist
<1>5. CASE UNCHANGED rows
    BY <1>5 DEF StepEffect
<1> QED
    BY <1>1, <1>2, <1>3, <1>4, <1>5
       DEF Next, Handle, Quiet, Publish, EnqueueQueued, Deliver, Lookup, Claim, Load, Reload,
           Fetch, Latest, Succeed, Align, Unclaim, Settle, Throw, Crash, LeaseExpires,
           Stall, Replay, vars, rows, locals, broker

-----------------------------------------------------------------------------
(* The asset pointer and the graph.                                        *)

GraphAndPointer == PointerIsNewestCompleted /\ GraphInsertedOnce

\* A conditional transition neither completes an ingestion nor undoes one.
LEMMA TransitionKeepsCompletions ==
    ASSUME TypeOK, NEW i \in Ingestions, NEW v \in Nat,
           NEW command \in Commands \ {"complete"}, Transition(i, v, command)
    PROVE  \A j \in Ingestions :
             ingestion'[j].state = "completed" <=> ingestion[j].state = "completed"
<1>1. ingestion[i] \in IngestionRows
    BY DEF TypeOK
<1>2. applyTransition(ingestion[i], v, command).state = "completed"
        <=> ingestion[i].state = "completed"
    BY <1>1, TransitionFacts
<1> QED BY <1>2 DEF Transition, TypeOK

\* The pointer comparison under the asset lock and the early return for a
\* completed ingestion keep pointer, graphs and completions in agreement.
LEMMA GraphAndPointerStep ==
    TypeOK /\ GraphAndPointer /\ StepEffect => GraphAndPointer'
<1> SUFFICES ASSUME TypeOK, GraphAndPointer, StepEffect PROVE GraphAndPointer'
    OBVIOUS
<1>1. CASE UNCHANGED rows
    BY <1>1 DEF GraphAndPointer, PointerIsNewestCompleted, GraphInsertedOnce, rows
<1>2. ASSUME NEW i \in Ingestions, NEW v \in Nat,
             NEW command \in Commands \ {"complete"}, Transition(i, v, command)
      PROVE  GraphAndPointer'
    <2>1. \A j \in Ingestions :
            ingestion'[j].state = "completed" <=> ingestion[j].state = "completed"
        BY <1>2, TransitionKeepsCompletions
    <2>2. GraphInsertedOnce'
        BY <1>2, <2>1 DEF GraphAndPointer, GraphInsertedOnce, Transition
    <2>3. PointerIsNewestCompleted'
        <3>1. \A a \in Assets :
                {j \in Ingestions : AssetOf[j] = a /\ ingestion'[j].state = "completed"}
                  = {j \in Ingestions : AssetOf[j] = a /\ ingestion[j].state = "completed"}
            BY <2>1
        <3> QED BY <1>2, <3>1 DEF GraphAndPointer, PointerIsNewestCompleted, Transition
    <2> QED BY <2>2, <2>3 DEF GraphAndPointer
<1>3. ASSUME NEW i \in Ingestions, Completion(i) PROVE GraphAndPointer'
    <2>1. /\ ingestion[i] \in IngestionRows /\ ingestion[i].state = "processing"
          /\ graphs[i] = 0 /\ graphs \in [Ingestions -> Nat]
          /\ ingestion \in [Ingestions -> IngestionRows]
        BY <1>3 DEF Completion, TypeOK, GraphAndPointer, GraphInsertedOnce
    <2>2. /\ ingestion'[i].state = "completed"
          /\ \A j \in Ingestions \ {i} : ingestion'[j] = ingestion[j]
        BY <1>3, <2>1, CompleteSucceeds DEF Completion
    <2>3. GraphInsertedOnce'
        <3> SUFFICES ASSUME NEW j \in Ingestions
                     PROVE  /\ graphs'[j] = IF ingestion'[j].state = "completed" THEN 1 ELSE 0
                            /\ <<"completed", j>> \in audits' <=> ingestion'[j].state = "completed"
            BY DEF GraphInsertedOnce
        <3>1. CASE j = i
            BY <1>3, <2>1, <2>2, <3>1 DEF Completion
        <3>2. CASE j # i
            BY <1>3, <2>1, <2>2, <3>2 DEF Completion, GraphAndPointer, GraphInsertedOnce
        <3> QED BY <3>1, <3>2
    <2>4. PointerIsNewestCompleted'
        <3> DEFINE done(a) == {j \in Ingestions : AssetOf[j] = a /\ ingestion[j].state = "completed"}
                   doneN(a) == {j \in Ingestions : AssetOf[j] = a /\ ingestion'[j].state = "completed"}
        <3> SUFFICES ASSUME NEW a \in Assets
                     PROVE  IF doneN(a) = {} THEN pointer'[a] = NoIngestion
                            ELSE /\ pointer'[a] \in doneN(a)
                                 /\ \A j \in doneN(a) : Rank[j] <= Rank[pointer'[a]]
            BY DEF PointerIsNewestCompleted
        <3>1. IF done(a) = {} THEN pointer[a] = NoIngestion
              ELSE /\ pointer[a] \in done(a)
                   /\ \A j \in done(a) : Rank[j] <= Rank[pointer[a]]
            BY DEF GraphAndPointer, PointerIsNewestCompleted
        <3>2. CASE AssetOf[i] # a
            <4>1. doneN(a) = done(a)
                BY <2>2, <3>2
            <4>2. pointer'[a] = pointer[a]
                BY <1>3, <3>2 DEF Completion, TypeOK
            <4> QED BY <3>1, <4>1, <4>2
        <3>3. CASE AssetOf[i] = a
            <4>1. doneN(a) = done(a) \cup {i}
                BY <2>2, <3>3
            <4>2. pointer'[a] = IF Replaces(pointer[a], i) THEN i ELSE pointer[a]
                BY <1>3, <3>3 DEF Completion, TypeOK
            <4> HIDE DEF done, doneN
            <4>3. \A j \in Ingestions : Rank[j] \in Nat
                BY IngestionAssumption
            <4>4. done(a) \subseteq Ingestions
                BY DEF done
            <4>5. CASE done(a) = {}
                BY <3>1, <4>1, <4>2, <4>3, <4>5 DEF Replaces
            <4>6. CASE done(a) # {}
                <5>1. pointer[a] \in Ingestions /\ pointer[a] # NoIngestion
                    BY <3>1, <4>4, <4>6, IngestionAssumption
                <5>2. CASE Rank[pointer[a]] >= Rank[i]
                    BY <3>1, <4>1, <4>2, <4>3, <4>4, <4>6, <5>1, <5>2 DEF Replaces
                <5>3. CASE ~(Rank[pointer[a]] >= Rank[i])
                    <6>1. pointer'[a] = i
                        BY <4>2, <5>3 DEF Replaces
                    <6>2. \A j \in done(a) : Rank[j] <= Rank[i]
                        BY <3>1, <4>3, <4>4, <4>6, <5>1, <5>3
                    <6> QED BY <4>1, <4>3, <6>1, <6>2
                <5> QED BY <5>2, <5>3
            <4> QED BY <4>5, <4>6
        <3> QED BY <3>2, <3>3
    <2> QED BY <2>3, <2>4 DEF GraphAndPointer
<1> QED BY <1>1, <1>2, <1>3 DEF StepEffect

\* Before any completion there is no graph and no pointer.
LEMMA GraphAndPointerInit == Init => GraphAndPointer
BY DEF Init, GraphAndPointer, PointerIsNewestCompleted, GraphInsertedOnce, AcceptedRow

\* Deliveries may be repeated, handlers may be arbitrarily late and may work on
\* the same ingestion at once: the asset shows the newest completed ingestion
\* and every graph is inserted exactly once.
THEOREM GraphAndPointerCorrect == Spec => [](PointerIsNewestCompleted /\ GraphInsertedOnce)
<1>1. TypeOK /\ GraphAndPointer /\ [Next]_vars => GraphAndPointer'
    BY NextStepEffect, GraphAndPointerStep
<1>2. Spec => []GraphAndPointer
    BY <1>1, GraphAndPointerInit, TypeCorrect, PTL DEF Spec
<1> QED BY <1>2, PTL DEF GraphAndPointer

\* In particular no repeated or late delivery inserts a graph a second time, or
\* without its completion and its audit event.
COROLLARY GraphsInsertedOnce == Spec => []GraphInsertedOnce
BY GraphAndPointerCorrect, PTL

-----------------------------------------------------------------------------
(* Settled ingestions.                                                     *)

RowStep ==
    \A i \in Ingestions :
      /\ isTerminal(ingestion[i]) => ingestion'[i] = ingestion[i]
      /\ ingestion'[i] # ingestion[i] => ingestion'[i].version = ingestion[i].version + 1

\* A row changes only from a state that is not settled, to the next version.
LEMMA EffectRowStep == TypeOK /\ StepEffect => RowStep
<1> SUFFICES ASSUME TypeOK, StepEffect, NEW j \in Ingestions
             PROVE  /\ isTerminal(ingestion[j]) => ingestion'[j] = ingestion[j]
                    /\ ingestion'[j] # ingestion[j]
                         => ingestion'[j].version = ingestion[j].version + 1
    BY DEF RowStep
<1>0. ingestion[j] \in IngestionRows /\ ingestion \in [Ingestions -> IngestionRows]
    BY DEF TypeOK
<1>1. CASE UNCHANGED rows
    BY <1>1 DEF rows
<1>2. ASSUME NEW i \in Ingestions, NEW v \in Nat,
             NEW command \in Commands \ {"complete"}, Transition(i, v, command)
      PROVE  /\ isTerminal(ingestion[j]) => ingestion'[j] = ingestion[j]
             /\ ingestion'[j] # ingestion[j]
                  => ingestion'[j].version = ingestion[j].version + 1
    BY <1>0, <1>2, TransitionFacts DEF Transition
<1>3. ASSUME NEW i \in Ingestions, Completion(i)
      PROVE  /\ isTerminal(ingestion[j]) => ingestion'[j] = ingestion[j]
             /\ ingestion'[j] # ingestion[j]
                  => ingestion'[j].version = ingestion[j].version + 1
    <2>1. ~isTerminal(ingestion[i])
        BY <1>3 DEF Completion, isTerminal, TerminalStates
    <2> QED BY <1>0, <1>3, <2>1, CompleteSucceeds DEF Completion
<1> QED BY <1>1, <1>2, <1>3 DEF StepEffect

\* No handler, however stale, changes an ingestion that is settled, and every
\* change of a row gives it a fresh version.
THEOREM SettledStaysSettled == Spec => SettledIsFinal
<1>1. TypeOK /\ [Next]_vars => [RowStep]_ingestion
    BY NextStepEffect, EffectRowStep
<1>2. Spec => [][RowStep]_ingestion
    BY <1>1, TypeCorrect, PTL DEF Spec
<1> QED BY <1>2, PTL DEF SettledIsFinal, RowStep

-----------------------------------------------------------------------------
(* Succeeded jobs.  The invariant alone is not inductive: a handler writes *)
(* the success after the read that justified it, so it needs to know that  *)
(* the read still holds.                                                   *)

SucceedKnows ==
    \A h \in Handlers : pc[h] = "succeed" => ingestion[item[h]].state = "completed"

SucceededInv == SucceededIsCompleted /\ SucceedKnows

\* A handler at markSucceeded has read a completed row, which stays completed,
\* so whoever marks a job succeeded is right to.
LEMMA SucceededInvStep ==
    TypeOK /\ TypeOK' /\ SucceededInv /\ [Next]_vars => SucceededInv'
<1> SUFFICES ASSUME TypeOK, TypeOK', SucceededInv, [Next]_vars PROVE SucceededInv'
    OBVIOUS
<1> DEFINE Kept == \A i \in Ingestions :
                     ingestion[i].state = "completed" => ingestion'[i].state = "completed"
           NoSuccess == \A i \in Ingestions :
                     jobs'[i].status = "succeeded" => jobs[i].status = "succeeded"
           Others(h) == \A g \in Handlers \ {h} : pc'[g] = pc[g] /\ item'[g] = item[g]
           SameSteps == \A g \in Handlers : pc'[g] = "succeed" => pc[g] = "succeed" /\ item'[g] = item[g]
<1>1. Kept
    <2>1. RowStep
        BY NextStepEffect, EffectRowStep
    <2> QED BY <2>1 DEF RowStep, isTerminal, TerminalStates
<1>2. ASSUME NoSuccess, SameSteps PROVE SucceededInv'
    <2>1. \A h \in Handlers : pc[h] = "succeed" => item[h] \in Ingestions
        BY DEF TypeOK
    <2> QED BY <1>1, <1>2, <2>1 DEF SucceededInv, SucceededIsCompleted, SucceedKnows
<1>3. ASSUME NEW h \in Handlers, UNCHANGED jobs, Others(h), item' = item,
             pc'[h] = "succeed" => ingestion[item[h]].state = "completed" /\ item[h] \in Ingestions
      PROVE  SucceededInv'
    <2>1. \A g \in Handlers : pc[g] = "succeed" => item[g] \in Ingestions
        BY DEF TypeOK
    <2> QED BY <1>1, <1>3, <2>1 DEF SucceededInv, SucceededIsCompleted, SucceedKnows
<1>4. ASSUME NEW i \in Ingestions, Publish(i) PROVE SucceededInv'
    BY <1>2, <1>4 DEF Publish, locals, rows
<1>5. ASSUME NEW i \in Ingestions, EnqueueQueued(i) PROVE SucceededInv'
    <2>1. jobs[i] \in JobRows /\ jobs' = [jobs EXCEPT ![i] = enqueueQueued(jobs[i])]
        BY <1>5 DEF EnqueueQueued, TypeOK
    <2>2. NoSuccess
        BY <2>1, OthersDoNotSucceed DEF TypeOK
    <2> QED BY <1>2, <1>5, <2>2 DEF EnqueueQueued, locals
<1>6. ASSUME NEW h \in Handlers, NEW i \in Ingestions, Deliver(h, i) PROVE SucceededInv'
    BY <1>2, <1>6 DEF Deliver, Goto, TypeOK
<1>7. ASSUME NEW h \in Handlers, Lookup(h) PROVE SucceededInv'
    BY <1>3, <1>7 DEF Lookup, Goto, TypeOK
<1>8. ASSUME NEW h \in Handlers, Claim(h) PROVE SucceededInv'
    <2>1. item[h] \in Ingestions /\ jobs[item[h]] \in JobRows /\ WorkerOf[h] \in Workers
        BY <1>8, IngestionAssumption DEF Claim, TypeOK
    <2>2. NoSuccess
        BY <1>8, <2>1, OthersDoNotSucceed DEF Claim, TypeOK
    <2> QED BY <1>2, <1>8, <2>2 DEF Claim, Goto, TypeOK
<1>9. ASSUME NEW h \in Handlers, Load(h) PROVE SucceededInv'
    BY <1>3, <1>9 DEF Load, Goto, TypeOK, NextAfterRead
<1>10. ASSUME NEW h \in Handlers, Begin(h) PROVE SucceededInv'
    BY <1>3, <1>10 DEF Begin, Goto, TypeOK
<1>11. ASSUME NEW h \in Handlers, Reload(h) PROVE SucceededInv'
    BY <1>3, <1>11 DEF Reload, Goto, TypeOK, NextAfterRead
<1>12. ASSUME NEW h \in Handlers, Fetch(h) PROVE SucceededInv'
    <2>1. PICK step \in {"persist", "finalize", "release"} : pc' = [pc EXCEPT ![h] = step]
        BY <1>12 DEF Fetch, Goto, finalizeByCode
    <2> QED BY <1>3, <1>12, <2>1 DEF Fetch, TypeOK
<1>13. ASSUME NEW h \in Handlers, Persist(h) PROVE SucceededInv'
    <2> DEFINE i == item[h]
    <2>1. i \in Ingestions
        BY <1>13 DEF Persist, TypeOK
    <2>2. PICK step \in {"resolve", "latest"} : pc' = [pc EXCEPT ![h] = step]
        BY <1>13 DEF Persist, Goto
    <2>3. SameSteps
        BY <1>13, <2>2 DEF Persist, TypeOK
    <2>4. CASE UNCHANGED <<jobs, rows>>
        BY <1>2, <2>3, <2>4
    <2>5. CASE PersistDecision(ingestion[i]) = "insert"
        <3>1. ingestion'[i].state = "completed"
            BY <1>13, <2>1, <2>5, CompleteSucceeds DEF Persist, PersistDecision, TypeOK
        <3>2. \A j \in Ingestions \ {i} : jobs'[j] = jobs[j]
            BY <1>13, <2>1, <2>5 DEF Persist, TypeOK
        <3>3. \A g \in Handlers : pc[g] = "succeed" => item[g] \in Ingestions
            BY DEF TypeOK
        <3> QED BY <1>1, <2>1, <2>3, <3>1, <3>2, <3>3 DEF SucceededInv, SucceededIsCompleted, SucceedKnows
    <2> QED BY <1>13, <2>4, <2>5 DEF Persist
<1>14. ASSUME NEW h \in Handlers, Latest(h) PROVE SucceededInv'
    BY <1>3, <1>14 DEF Latest, Goto, TypeOK
<1>15. ASSUME NEW h \in Handlers, Succeed(h) PROVE SucceededInv'
    <2>1. item[h] \in Ingestions /\ ingestion[item[h]].state = "completed"
        BY <1>15 DEF Succeed, TypeOK, SucceededInv, SucceedKnows
    <2>2. \A j \in Ingestions \ {item[h]} : jobs'[j] = jobs[j]
        BY <1>15, <2>1 DEF Succeed, TypeOK
    <2>3. SameSteps
        BY <1>15 DEF Succeed, Goto, TypeOK
    <2>4. \A g \in Handlers : pc[g] = "succeed" => item[g] \in Ingestions
        BY DEF TypeOK
    <2> QED BY <1>1, <2>1, <2>2, <2>3, <2>4 DEF SucceededInv, SucceededIsCompleted, SucceedKnows
<1>16. ASSUME NEW h \in Handlers, Align(h) PROVE SucceededInv'
    <2>1. item[h] \in Ingestions /\ jobs[item[h]] \in JobRows /\ WorkerOf[h] \in Workers
        BY <1>16, IngestionAssumption DEF Align, TypeOK
    <2>2. NoSuccess
        BY <1>16, <2>1, OthersDoNotSucceed DEF Align, TypeOK
    <2> QED BY <1>2, <1>16, <2>2 DEF Align, Goto, TypeOK
<1>17. ASSUME NEW h \in Handlers, Unclaim(h) \/ Release(h) PROVE SucceededInv'
    <2>1. item[h] \in Ingestions /\ jobs[item[h]] \in JobRows /\ WorkerOf[h] \in Workers
        BY <1>17, IngestionAssumption DEF Unclaim, Release, TypeOK
    <2>2. NoSuccess
        BY <1>17, <2>1, OthersDoNotSucceed DEF Unclaim, Release, TypeOK
    <2> QED BY <1>2, <1>17, <2>2 DEF Unclaim, Release, Goto, TypeOK
<1>18. ASSUME NEW h \in Handlers, FinalizeTerminal(h) PROVE SucceededInv'
    <2>1. item[h] \in Ingestions /\ jobs[item[h]] \in JobRows /\ WorkerOf[h] \in Workers
        BY <1>18, IngestionAssumption DEF FinalizeTerminal, TypeOK
    <2>2. \/ jobs' = jobs
          \/ jobs' = [jobs EXCEPT ![item[h]] = markTerminalFailure(jobs[item[h]], WorkerOf[h])]
        BY <1>18, <2>1 DEF FinalizeTerminal
    <2>3. NoSuccess
        BY <2>1, <2>2, OthersDoNotSucceed DEF TypeOK
    <2>4. PICK step \in {"resolve", "reject"} : pc' = [pc EXCEPT ![h] = step]
        BY <1>18 DEF FinalizeTerminal, Goto
    <2> QED BY <1>2, <1>18, <2>3, <2>4 DEF FinalizeTerminal, TypeOK
<1>19. ASSUME NEW h \in Handlers, Settle(h) PROVE SucceededInv'
    BY <1>2, <1>19 DEF Settle, Goto, TypeOK
<1>20. ASSUME NEW h \in Handlers, Throw(h) PROVE SucceededInv'
    BY <1>2, <1>20 DEF Throw, Goto, TypeOK
<1>21. ASSUME NEW w \in Workers, Crash(w) PROVE SucceededInv'
    BY <1>2, <1>21 DEF Crash, TypeOK
<1>22. ASSUME NEW i \in Ingestions, LeaseExpires(i) PROVE SucceededInv'
    <2>1. jobs[i] \in JobRows /\ jobs' = [jobs EXCEPT ![i] = expire(jobs[i])]
        BY <1>22 DEF LeaseExpires, TypeOK
    <2>2. NoSuccess
        BY <2>1, OthersDoNotSucceed DEF TypeOK
    <2> QED BY <1>2, <1>22, <2>2 DEF LeaseExpires, locals
<1>23. ASSUME NEW i \in Ingestions, Stall(i) \/ Replay(i) PROVE SucceededInv'
    BY <1>2, <1>23 DEF Stall, Replay, locals
<1>24. CASE Quiet \/ UNCHANGED vars
    BY <1>2, <1>24 DEF Quiet, vars
<1> QED
    BY <1>4, <1>5, <1>6, <1>7, <1>8, <1>9, <1>10, <1>11, <1>12, <1>13, <1>14, <1>15, <1>16,
       <1>17, <1>18, <1>19, <1>20, <1>21, <1>22, <1>23, <1>24
       DEF Next, Handle

\* Whichever handler reports it, and however late, a job is marked succeeded
\* only when its ingestion is completed.
THEOREM SucceededJobsAreCompleted == Spec => []SucceededIsCompleted
<1>1. Init => SucceededInv
    BY DEF Init, SucceededInv, SucceededIsCompleted, SucceedKnows, AbsentJob
<1>2. Spec => []SucceededInv
    BY <1>1, SucceededInvStep, TypeCorrect, PTL DEF Spec
<1> QED BY <1>2, PTL DEF SucceededInv

-----------------------------------------------------------------------------
(* Refinement.                                                             *)

\* A conditional transition is a step of the abstract lifecycle or changes
\* nothing it sees.
LEMMA TransitionRefines ==
    ASSUME TypeOK, NEW i \in Ingestions, NEW v \in Nat,
           NEW command \in Commands \ {"complete"}, Transition(i, v, command)
    PROVE  [Lifecycle!LNext]_Lifecycle!lvars
<1> DEFINE l == [j \in Ingestions |-> ingestion[j].state]
<1>1. ingestion \in [Ingestions -> IngestionRows]
    BY DEF TypeOK
<1>2. CASE ~Accepts(ingestion[i], v, command)
    <2>1. ingestion' = ingestion
        BY <1>1, <1>2 DEF Transition, applyTransition
    <2> QED BY <2>1 DEF Transition, Lifecycle!lvars
<1>3. CASE Accepts(ingestion[i], v, command)
    <2>1. ingestion[i].state \in Sources(command)
        BY <1>3 DEF Accepts
    <2>2. l' = [l EXCEPT ![i] = Target[command]]
        BY <1>1, <1>3 DEF Transition, applyTransition
    <2>3. CASE command = "start_processing"
        <3>1. Lifecycle!Start(i)
            BY <2>1, <2>2, <2>3 DEF Lifecycle!Start, Sources, Target, Transition
        <3> QED BY <3>1 DEF Lifecycle!LNext
    <2>4. CASE command = "release_for_retry"
        <3>1. Lifecycle!GiveBack(i)
            BY <2>1, <2>2, <2>4 DEF Lifecycle!GiveBack, Sources, Target, Transition
        <3> QED BY <3>1 DEF Lifecycle!LNext
    <2>5. CASE command \in {"reject", "quarantine", "fail"}
        <3>1. Target[command] \in {"rejected", "quarantined", "failed"}
            BY <2>5 DEF Target
        <3>2. Lifecycle!Refuse(i)
            BY <2>1, <2>2, <2>5, <3>1 DEF Lifecycle!Refuse, Sources, Transition
        <3> QED BY <3>2 DEF Lifecycle!LNext
    <2> QED BY <2>3, <2>4, <2>5 DEF Commands
<1> QED BY <1>2, <1>3

\* The graph transaction is the abstract completion, pointer included.
LEMMA CompletionRefines ==
    ASSUME TypeOK, GraphAndPointer, GraphAndPointer', NEW i \in Ingestions, Completion(i)
    PROVE  Lifecycle!LNext
<1> DEFINE l == [j \in Ingestions |-> ingestion[j].state]
           a == AssetOf[i]
           n == pointer'[a]
<1>1. /\ ingestion \in [Ingestions -> IngestionRows] /\ ingestion[i].state = "processing"
      /\ graphs \in [Ingestions -> Nat] /\ graphs[i] = 0 /\ a \in Assets
    BY IngestionAssumption DEF TypeOK, Completion, GraphAndPointer, GraphInsertedOnce
<1>2. l' = [l EXCEPT ![i] = "completed"]
    BY <1>1, CompleteSucceeds DEF Completion
<1>3. graphs' = [graphs EXCEPT ![i] = 1]
    BY <1>1 DEF Completion
<1>4. i \in {j \in Ingestions : AssetOf[j] = a /\ ingestion'[j].state = "completed"}
    BY <1>1, CompleteSucceeds DEF Completion
<1>5. /\ n \in Ingestions /\ AssetOf[n] = a /\ ingestion'[n].state = "completed"
      /\ \A j \in Ingestions :
           AssetOf[j] = a /\ ingestion'[j].state = "completed" => Rank[j] <= Rank[n]
    BY <1>1, <1>4 DEF GraphAndPointer, PointerIsNewestCompleted
<1>6. pointer' = [pointer EXCEPT ![a] = n]
    BY <1>1 DEF Completion, TypeOK
<1>7. Lifecycle!IsNewest(n, a, l')
    BY <1>5 DEF Lifecycle!IsNewest
<1>8. Lifecycle!Complete(i)
    BY <1>1, <1>2, <1>3, <1>5, <1>6, <1>7 DEF Lifecycle!Complete
<1> QED BY <1>8 DEF Lifecycle!LNext

\* The processor with its leases, versions, retries and late handlers is an
\* implementation of the lifecycle in which completing an ingestion, storing
\* its graph and moving the asset pointer are one step.
THEOREM Refinement == Spec => ImplementsLifecycle
<1>1. Init => Lifecycle!LInit
    BY DEF Init, Lifecycle!LInit, AcceptedRow
<1>2. TypeOK /\ GraphAndPointer /\ GraphAndPointer' /\ [Next]_vars
        => [Lifecycle!LNext]_Lifecycle!lvars
    <2> SUFFICES ASSUME TypeOK, GraphAndPointer, GraphAndPointer', [Next]_vars
                 PROVE  [Lifecycle!LNext]_Lifecycle!lvars
        OBVIOUS
    <2>1. StepEffect
        BY NextStepEffect
    <2>2. CASE UNCHANGED rows
        BY <2>2 DEF rows, Lifecycle!lvars
    <2> QED BY <2>1, <2>2, TransitionRefines, CompletionRefines DEF StepEffect
<1>3. Spec => []GraphAndPointer
    BY GraphAndPointerCorrect, PTL DEF GraphAndPointer
<1> QED BY <1>1, <1>2, <1>3, TypeCorrect, PTL DEF Spec, ImplementsLifecycle, Lifecycle!LSpec

-----------------------------------------------------------------------------
(* Prompt handlers.  While no handler outlives its lease, the row of the   *)
(* job protects its holder: nobody else claims the job, so the ingestion   *)
(* is as the holder last saw it and every conditional update succeeds.     *)
(* The paths that repair what a late handler left are then never taken.    *)

\* The handler has claimed the job and the claim is alive.
OwnsJob(h) ==
    /\ jobs[item[h]].status = "running"
    /\ jobs[item[h]].worker = WorkerOf[h]
    /\ jobs[item[h]].lease = "live"

\* What the handler knows of its ingestion at each statement.
KnowsRow(h) ==
    /\ pc[h] \notin {"reload", "latest", "unclaim", "succeed", "align"}
    /\ pc[h] = "begin" => /\ ingestion[item[h]].state \in {"accepted", "queued"}
                          /\ ingestion[item[h]].version = version[h]
    /\ pc[h] \in {"fetch", "persist", "release", "finalize"} =>
                          /\ ingestion[item[h]].state = "processing"
                          /\ ingestion[item[h]].version = version[h]

HandlerOK(h) == pc[h] \in ClaimedSteps => OwnsJob(h) /\ KnowsRow(h)

\* The ingestion, its job and its audit trail are settled together.
RowsAgree(i) ==
    /\ ingestion[i].state = "completed" => jobs[i].status = "succeeded"
    /\ ingestion[i].state \in TerminalStates \ {"completed"} => jobs[i].status = "failed"
    /\ jobs[i].status = "failed" => isTerminal(ingestion[i])
    /\ \A kind \in AuditKinds : <<kind, i>> \in audits => ingestion[i].state = kind

PromptInv ==
    /\ ClaimIsExclusive
    /\ \A h \in Handlers : HandlerOK(h)
    /\ \A i \in Ingestions : RowsAgree(i)

\* What a holder knows survives the steps of others that leave its rows alone.
LEMMA HandlerKept ==
    ASSUME NEW g \in Handlers, HandlerOK(g),
           pc'[g] = pc[g], item'[g] = item[g], version'[g] = version[g],
           pc[g] \in ClaimedSteps => /\ jobs'[item[g]] = jobs[item[g]]
                                     /\ ingestion'[item[g]] = ingestion[item[g]]
    PROVE  HandlerOK(g)'
BY DEF HandlerOK, OwnsJob, KnowsRow

\* A statement of one handler on a job that no other handler holds.
LEMMA HolderStep ==
    ASSUME TypeOK, PromptInv, NEW h \in Handlers, NEW i \in Ingestions, item[h] = i, item'[h] = i,
           \A g \in Handlers \ {h} : /\ ~Holds(g, i)
                                     /\ pc'[g] = pc[g]
                                     /\ item'[g] = item[g]
                                     /\ version'[g] = version[g],
           \A j \in Ingestions \ {i} :
             /\ jobs'[j] = jobs[j]
             /\ ingestion'[j] = ingestion[j]
             /\ \A kind \in AuditKinds : <<kind, j>> \in audits' => <<kind, j>> \in audits,
           HandlerOK(h)', RowsAgree(i)'
    PROVE  PromptInv'
<1>1. ASSUME NEW g \in Handlers \ {h} PROVE HandlerOK(g)'
    <2>1. pc[g] \in ClaimedSteps => item[g] \in Ingestions \ {i}
        BY DEF TypeOK, Holds, ClaimedSteps
    <2>2. HandlerOK(g)
        BY DEF PromptInv
    <2> QED BY <2>1, <2>2, HandlerKept
<1>2. ASSUME NEW j \in Ingestions \ {i} PROVE RowsAgree(j)'
    BY DEF PromptInv, RowsAgree, isTerminal
<1>3. ClaimIsExclusive'
    BY DEF PromptInv, ClaimIsExclusive, Holds
<1> QED BY <1>1, <1>2, <1>3 DEF PromptInv

\* A holder is the only one.
LEMMA HolderIsAlone ==
    ASSUME TypeOK, PromptInv, NEW h \in Handlers, pc[h] \in ClaimedSteps
    PROVE  /\ item[h] \in Ingestions
           /\ \A g \in Handlers \ {h} : ~Holds(g, item[h])
           /\ OwnsJob(h) /\ KnowsRow(h) /\ RowsAgree(item[h])
           /\ ingestion[item[h]] \in IngestionRows /\ jobs[item[h]] \in JobRows
           /\ ~isTerminal(ingestion[item[h]])
<1>1. item[h] \in Ingestions
    BY DEF TypeOK, ClaimedSteps
<1>2. OwnsJob(h) /\ KnowsRow(h) /\ RowsAgree(item[h])
    BY <1>1 DEF PromptInv, HandlerOK
<1>3. ~isTerminal(ingestion[item[h]])
    BY <1>2 DEF OwnsJob, RowsAgree, isTerminal, TerminalStates
<1> QED BY <1>1, <1>2, <1>3 DEF PromptInv, ClaimIsExclusive, Holds, TypeOK

\* A step that leaves the rows alone and lets handlers only go.
LEMMA NobodyClaims ==
    ASSUME PromptInv, UNCHANGED <<jobs, ingestion, audits>>,
           \A g \in Handlers : \/ pc'[g] \notin ClaimedSteps
                               \/ /\ pc'[g] = pc[g]
                                  /\ item'[g] = item[g]
                                  /\ version'[g] = version[g]
    PROVE  PromptInv'
<1>1. \A g \in Handlers : HandlerOK(g)'
    BY DEF PromptInv, HandlerOK, OwnsJob, KnowsRow
<1>2. \A i \in Ingestions : RowsAgree(i)'
    BY DEF PromptInv, RowsAgree, isTerminal
<1>3. ClaimIsExclusive'
    BY DEF PromptInv, ClaimIsExclusive, Holds
<1> QED BY <1>1, <1>2, <1>3 DEF PromptInv

\* The states a transition of the holder leads to: it is never refused.
LEMMA HolderTransition ==
    ASSUME NEW row \in IngestionRows, NEW command \in Commands, row.state \in Sources(command)
    PROVE  /\ Accepts(row, row.version, command)
           /\ applyTransition(row, row.version, command).state = Target[command]
           /\ applyTransition(row, row.version, command).version = row.version + 1
BY DEF IngestionRows, IngestionStates, TerminalStates, Commands, applyTransition,
       Accepts, isTerminal, Sources, Target

\* A step of a handler that only moves its program counter.
LEMMA HolderMoves ==
    ASSUME TypeOK, PromptInv, NEW h \in Handlers, pc[h] \in ClaimedSteps,
           UNCHANGED <<jobs, ingestion, audits, item>>,
           \A g \in Handlers \ {h} : pc'[g] = pc[g] /\ version'[g] = version[g],
           KnowsRow(h)'
    PROVE  PromptInv'
<1>1. PICK i \in Ingestions : i = item[h]
    BY HolderIsAlone
<1>2. HandlerOK(h)'
    BY HolderIsAlone DEF HandlerOK, OwnsJob
<1>3. RowsAgree(i)'
    BY <1>1, HolderIsAlone DEF RowsAgree, isTerminal
<1> QED BY <1>1, <1>2, <1>3, HolderIsAlone, HolderStep

LEMMA PromptClaim ==
    ASSUME TypeOK, PromptInv, NEW h \in Handlers, Claim(h)
    PROVE  PromptInv'
<1>1. /\ pc[h] = "claim" /\ item[h] \in Ingestions /\ WorkerOf[h] \in Workers
      /\ UNCHANGED <<ingestion, audits, item, version>>
    BY IngestionAssumption DEF Claim, TypeOK, rows
<1>2. PICK i \in Ingestions : i = item[h] /\ jobs[i] \in JobRows
    BY <1>1 DEF TypeOK
<1>3. CASE ~Claimable(jobs[i])
    <2>1. UNCHANGED jobs /\ pc' = [pc EXCEPT ![h] = "reject"]
        BY <1>2, <1>3 DEF Claim, claimExecution, Goto, TypeOK
    <2> QED BY <1>1, <2>1, NobodyClaims DEF TypeOK, ClaimedSteps
<1>4. CASE Claimable(jobs[i])
    <2>1. /\ jobs'[i] = [status |-> "running", worker |-> WorkerOf[h], lease |-> "live"]
          /\ \A j \in Ingestions \ {i} : jobs'[j] = jobs[j]
          /\ pc' = [pc EXCEPT ![h] = "load"]
        BY <1>2, <1>4 DEF Claim, claimExecution, Goto, TypeOK
    <2>2. \A g \in Handlers \ {h} : ~Holds(g, i)
        BY <1>2, <1>4, HolderIsAlone DEF Holds, OwnsJob, Claimable
    <2>3. HandlerOK(h)'
        BY <1>1, <1>2, <2>1 DEF HandlerOK, OwnsJob, KnowsRow, TypeOK
    <2>4. RowsAgree(i)'
        BY <1>1, <1>2, <1>4, <2>1 DEF PromptInv, RowsAgree, Claimable, isTerminal
    <2>5. \A g \in Handlers \ {h} : pc'[g] = pc[g]
        BY <2>1 DEF TypeOK
    <2> QED BY <1>1, <1>2, <2>1, <2>2, <2>3, <2>4, <2>5, HolderStep
<1> QED BY <1>3, <1>4

LEMMA PromptRead ==
    ASSUME TypeOK, PromptInv, NEW h \in Handlers, Load(h) \/ Fetch(h)
    PROVE  PromptInv'
<1>1. pc[h] \in {"load", "fetch"} /\ pc[h] \in ClaimedSteps
    BY DEF Load, Fetch, ClaimedSteps
<1>2. UNCHANGED <<jobs, ingestion, audits, item>>
    BY DEF Load, Fetch, rows
<1>3. \A g \in Handlers \ {h} : pc'[g] = pc[g] /\ version'[g] = version[g]
    BY DEF Load, Fetch, Goto, TypeOK
<1>4. KnowsRow(h)'
    <2>1. CASE Load(h)
        <3>1. /\ pc'[h] = NextAfterRead(ingestion[item[h]], "begin")
              /\ version'[h] = ingestion[item[h]].version
            BY <2>1 DEF Load, Goto, TypeOK
        <3>2. ingestion[item[h]] \in IngestionRows /\ ~isTerminal(ingestion[item[h]])
            BY <1>1, HolderIsAlone
        <3>3. \/ /\ pc'[h] = "begin"
                 /\ ingestion[item[h]].state \in {"accepted", "queued"}
              \/ /\ pc'[h] = "fetch"
                 /\ ingestion[item[h]].state = "processing"
            BY <3>1, <3>2 DEF NextAfterRead, isTerminal, IngestionRows, IngestionStates, TerminalStates
        <3> QED BY <1>2, <3>1, <3>3 DEF KnowsRow
    <2>2. CASE Fetch(h)
        <3>1. pc'[h] \in {"persist", "finalize", "release"} /\ version' = version
            BY <2>2 DEF Fetch, Goto, finalizeByCode, TypeOK
        <3>2. KnowsRow(h) /\ pc[h] = "fetch"
            BY <1>1, <2>2, HolderIsAlone DEF Fetch
        <3> QED BY <1>2, <3>1, <3>2 DEF KnowsRow
    <2> QED BY <2>1, <2>2
<1> QED BY <1>1, <1>2, <1>3, <1>4, HolderMoves

LEMMA PromptBegin ==
    ASSUME TypeOK, PromptInv, NEW h \in Handlers, Begin(h)
    PROVE  PromptInv'
<1>1. pc[h] = "begin" /\ pc[h] \in ClaimedSteps /\ UNCHANGED <<jobs, audits, item>>
    BY DEF Begin, ClaimedSteps
<1>2. PICK i \in Ingestions : i = item[h]
    BY <1>1, HolderIsAlone
<1>3. PICK row \in IngestionRows : /\ row = ingestion[i]
                                   /\ row.state \in {"accepted", "queued"}
                                   /\ row.version = version[h]
    BY <1>1, <1>2, HolderIsAlone DEF KnowsRow
<1>4. /\ Accepts(row, row.version, "start_processing")
      /\ applyTransition(row, row.version, "start_processing").state = "processing"
      /\ applyTransition(row, row.version, "start_processing").version = row.version + 1
    BY <1>3, HolderTransition DEF Commands, Sources, Target
<1>5. /\ pc' = [pc EXCEPT ![h] = "fetch"]
      /\ version' = [version EXCEPT ![h] = version[h] + 1]
      /\ ingestion' = [ingestion EXCEPT ![i] = applyTransition(row, row.version, "start_processing")]
    BY <1>2, <1>3, <1>4 DEF Begin, Goto
<1>6. /\ ingestion'[i].state = "processing"
      /\ ingestion'[i].version = version'[h]
      /\ pc'[h] = "fetch"
      /\ \A j \in Ingestions \ {i} : ingestion'[j] = ingestion[j]
      /\ \A g \in Handlers \ {h} : pc'[g] = pc[g] /\ version'[g] = version[g]
    BY <1>3, <1>4, <1>5 DEF TypeOK
<1>7. HandlerOK(h)'
    BY <1>1, <1>2, <1>6, HolderIsAlone DEF HandlerOK, OwnsJob, KnowsRow
<1>8. RowsAgree(i)'
    <2>1. jobs[i].status = "running"
        BY <1>1, <1>2, HolderIsAlone DEF OwnsJob
    <2>2. \A kind \in AuditKinds : <<kind, i>> \notin audits
        BY <1>1, <1>2, <1>3, HolderIsAlone DEF RowsAgree, AuditKinds
    <2> QED BY <1>1, <1>6, <2>1, <2>2 DEF RowsAgree, TerminalStates
<1> QED BY <1>1, <1>2, <1>6, <1>7, <1>8, HolderIsAlone, HolderStep

LEMMA PromptPersist ==
    ASSUME TypeOK, PromptInv, NEW h \in Handlers, Persist(h)
    PROVE  PromptInv'
<1>1. pc[h] = "persist" /\ pc[h] \in ClaimedSteps /\ UNCHANGED <<item, version>>
    BY DEF Persist, ClaimedSteps
<1>2. PICK i \in Ingestions : i = item[h] /\ jobs[i] \in JobRows
    BY <1>1, HolderIsAlone
<1>3. PICK row \in IngestionRows : row = ingestion[i] /\ row.state = "processing"
    BY <1>1, <1>2, HolderIsAlone DEF KnowsRow
<1>4. PersistDecision(ingestion[i]) = "insert"
    BY <1>3 DEF PersistDecision
<1>5. /\ ingestion' = [ingestion EXCEPT ![i] = applyTransition(row, row.version, "complete")]
      /\ audits' = audits \cup {<<"completed", i>>}
      /\ jobs' = [jobs EXCEPT ![i] = succeedOwnedJob(jobs[i], WorkerOf[h])]
      /\ pc' = [pc EXCEPT ![h] = "resolve"]
    BY <1>2, <1>3, <1>4 DEF Persist, Goto
<1>6. /\ ingestion'[i].state = "completed"
      /\ \A j \in Ingestions \ {i} : ingestion'[j] = ingestion[j] /\ jobs'[j] = jobs[j]
      /\ pc'[h] = "resolve"
      /\ \A g \in Handlers \ {h} : pc'[g] = pc[g]
    BY <1>3, <1>5, CompleteSucceeds DEF TypeOK
<1>7. jobs'[i].status = "succeeded"
    <2>1. OwnsJob(h)
        BY <1>1, HolderIsAlone
    <2> QED BY <1>2, <1>5, <2>1 DEF OwnsJob, succeedOwnedJob, OwnedBy, TypeOK, JobRows
<1>8. HandlerOK(h)'
    BY <1>6 DEF HandlerOK, ClaimedSteps
<1>9. RowsAgree(i)'
    <2>1. \A kind \in AuditKinds : <<kind, i>> \notin audits
        BY <1>1, <1>2, <1>3, HolderIsAlone DEF RowsAgree, AuditKinds
    <2> QED BY <1>5, <1>6, <1>7, <2>1 DEF RowsAgree, TerminalStates
<1>10. \A j \in Ingestions \ {i} :
         \A kind \in AuditKinds : <<kind, j>> \in audits' => <<kind, j>> \in audits
    BY <1>5
<1> QED BY <1>1, <1>2, <1>6, <1>8, <1>9, <1>10, HolderIsAlone, HolderStep

LEMMA PromptRelease ==
    ASSUME TypeOK, PromptInv, NEW h \in Handlers, Release(h)
    PROVE  PromptInv'
<1>1. pc[h] = "release" /\ pc[h] \in ClaimedSteps /\ UNCHANGED <<item, version, audits>>
    BY DEF Release, ClaimedSteps
<1>2. PICK i \in Ingestions : i = item[h] /\ jobs[i] \in JobRows
    BY <1>1, HolderIsAlone
<1>3. PICK row \in IngestionRows : /\ row = ingestion[i]
                                   /\ row.state = "processing"
                                   /\ row.version = version[h]
    BY <1>1, <1>2, HolderIsAlone DEF KnowsRow
<1>4. applyTransition(row, row.version, "release_for_retry").state = "queued"
    BY <1>3, HolderTransition DEF Commands, Sources, Target
<1>5. /\ ingestion' = [ingestion EXCEPT ![i] = applyTransition(row, row.version, "release_for_retry")]
      /\ jobs' = [jobs EXCEPT ![i] = markRetry(jobs[i], WorkerOf[h])]
      /\ pc' = [pc EXCEPT ![h] = "reject"]
    BY <1>2, <1>3 DEF Release, Goto
<1>6. /\ ingestion'[i].state = "queued"
      /\ \A j \in Ingestions \ {i} : ingestion'[j] = ingestion[j] /\ jobs'[j] = jobs[j]
      /\ pc'[h] = "reject"
      /\ \A g \in Handlers \ {h} : pc'[g] = pc[g]
    BY <1>4, <1>5 DEF TypeOK
<1>7. jobs'[i].status = "queued"
    <2>1. OwnsJob(h)
        BY <1>1, HolderIsAlone
    <2> QED BY <1>2, <1>5, <2>1 DEF OwnsJob, markRetry, OwnedBy, TypeOK
<1>8. HandlerOK(h)'
    BY <1>6 DEF HandlerOK, ClaimedSteps
<1>9. RowsAgree(i)'
    <2>1. \A kind \in AuditKinds : <<kind, i>> \notin audits
        BY <1>1, <1>2, <1>3, HolderIsAlone DEF RowsAgree, AuditKinds
    <2> QED BY <1>1, <1>6, <1>7, <2>1 DEF RowsAgree, TerminalStates
<1> QED BY <1>1, <1>2, <1>6, <1>8, <1>9, HolderIsAlone, HolderStep

LEMMA PromptFinalize ==
    ASSUME TypeOK, PromptInv, NEW h \in Handlers, FinalizeTerminal(h)
    PROVE  PromptInv'
<1>1. pc[h] = "finalize" /\ pc[h] \in ClaimedSteps /\ UNCHANGED <<item, version>>
    BY DEF FinalizeTerminal, ClaimedSteps
<1>2. PICK i \in Ingestions : i = item[h] /\ jobs[i] \in JobRows
    BY <1>1, HolderIsAlone
<1>3. PICK row \in IngestionRows : /\ row = ingestion[i]
                                   /\ row.state = "processing"
                                   /\ row.version = version[h]
    BY <1>1, <1>2, HolderIsAlone DEF KnowsRow
<1>4. \A kind \in AuditKinds : <<kind, i>> \notin audits
    BY <1>1, <1>2, <1>3, HolderIsAlone DEF RowsAgree, AuditKinds
<1>5. PICK command \in Commands, kind \in AuditKinds \ {"completed"} :
        /\ command = CommandFor[code[h]] /\ kind = KindFor[code[h]]
        /\ Sources(command) = {"processing"} /\ Target[command] = kind
    <2>1. code[h] \in {"rejected", "quarantined", "terminal_internal"}
        BY <1>1 DEF TypeOK, TerminalOutcomes, FailureOutcomes
    <2> QED BY <2>1 DEF CommandFor, KindFor, Commands, AuditKinds, Sources, Target
<1>6. applyTransition(row, row.version, command).state = kind
    BY <1>3, <1>5, HolderTransition
<1>7. /\ ingestion' = [ingestion EXCEPT ![i] = applyTransition(row, row.version, command)]
      /\ audits' = audits \cup {<<kind, i>>}
      /\ jobs' = [jobs EXCEPT ![i] = markTerminalFailure(jobs[i], WorkerOf[h])]
      /\ pc' = [pc EXCEPT ![h] = "resolve"]
    BY <1>2, <1>3, <1>4, <1>5 DEF FinalizeTerminal, Goto
<1>8. /\ ingestion'[i].state = kind
      /\ \A j \in Ingestions \ {i} : ingestion'[j] = ingestion[j] /\ jobs'[j] = jobs[j]
      /\ pc'[h] = "resolve"
      /\ \A g \in Handlers \ {h} : pc'[g] = pc[g]
    BY <1>6, <1>7 DEF TypeOK
<1>9. jobs'[i].status = "failed"
    <2>1. OwnsJob(h)
        BY <1>1, HolderIsAlone
    <2> QED BY <1>2, <1>7, <2>1 DEF OwnsJob, markTerminalFailure, OwnedBy, TypeOK, JobRows
<1>10. HandlerOK(h)'
    BY <1>8 DEF HandlerOK, ClaimedSteps
<1>11. RowsAgree(i)'
    BY <1>4, <1>5, <1>7, <1>8, <1>9 DEF RowsAgree, TerminalStates, isTerminal, AuditKinds
<1>12. \A j \in Ingestions \ {i} :
         \A k \in AuditKinds : <<k, j>> \in audits' => <<k, j>> \in audits
    BY <1>7
<1> QED BY <1>1, <1>2, <1>8, <1>10, <1>11, <1>12, HolderIsAlone, HolderStep

\* The relay inserts a row nobody holds, and a lease ends after its holder.
LEMMA PromptRow ==
    ASSUME SlowHandlers = {}, TypeOK, PromptInv, NEW i \in Ingestions,
           EnqueueQueued(i) \/ LeaseExpires(i)
    PROVE  PromptInv'
<1>1. UNCHANGED <<ingestion, audits, pc, item, version>> /\ jobs[i] \in JobRows
    BY DEF EnqueueQueued, LeaseExpires, rows, locals, TypeOK
<1>2. \A g \in Handlers : ~Holds(g, i)
    <2>1. CASE EnqueueQueued(i)
        BY <2>1, HolderIsAlone DEF EnqueueQueued, Holds, OwnsJob
    <2>2. CASE LeaseExpires(i)
        BY <2>2 DEF LeaseExpires
    <2> QED BY <2>1, <2>2
<1>3. /\ \A j \in Ingestions \ {i} : jobs'[j] = jobs[j]
      /\ \/ jobs[i].status = "absent" /\ jobs'[i].status = "queued"
         \/ jobs'[i].status = jobs[i].status
    BY <1>1 DEF EnqueueQueued, LeaseExpires, enqueueQueued, expire, TypeOK, JobRows
<1>4. ASSUME NEW g \in Handlers PROVE HandlerOK(g)'
    <2>1. pc[g] \in ClaimedSteps => item[g] \in Ingestions \ {i}
        BY <1>2 DEF TypeOK, Holds, ClaimedSteps
    <2>2. HandlerOK(g)
        BY DEF PromptInv
    <2> QED BY <1>1, <1>3, <2>1, <2>2, HandlerKept
<1>5. ASSUME NEW j \in Ingestions PROVE RowsAgree(j)'
    BY <1>1, <1>3 DEF PromptInv, RowsAgree, isTerminal
<1>6. ClaimIsExclusive'
    BY <1>1 DEF PromptInv, ClaimIsExclusive, Holds
<1> QED BY <1>4, <1>5, <1>6 DEF PromptInv

\* Every step of the processor keeps its promptly worked rows in agreement.
LEMMA PromptStep ==
    ASSUME SlowHandlers = {}, TypeOK, PromptInv, [Next]_vars
    PROVE  PromptInv'
<1>1. ASSUME NEW i \in Ingestions, Publish(i) \/ Stall(i) \/ Replay(i) PROVE PromptInv'
    BY <1>1, NobodyClaims DEF Publish, Stall, Replay, rows, locals
<1>2. ASSUME NEW i \in Ingestions, EnqueueQueued(i) \/ LeaseExpires(i) PROVE PromptInv'
    BY <1>2, PromptRow
<1>3. ASSUME NEW h \in Handlers, NEW i \in Ingestions, Deliver(h, i) PROVE PromptInv'
    BY <1>3, NobodyClaims DEF Deliver, Goto, rows, TypeOK, ClaimedSteps
<1>4. ASSUME NEW h \in Handlers, Lookup(h) \/ Throw(h) PROVE PromptInv'
    BY <1>4, NobodyClaims DEF Lookup, Throw, Goto, rows, TypeOK, ClaimedSteps
<1>5. ASSUME NEW h \in Handlers, Settle(h) PROVE PromptInv'
    BY <1>5, NobodyClaims DEF Settle, Goto, rows, TypeOK, ClaimedSteps
<1>6. ASSUME NEW w \in Workers, Crash(w) PROVE PromptInv'
    BY <1>6, NobodyClaims DEF Crash, rows, TypeOK, ClaimedSteps
<1>7. ASSUME NEW h \in Handlers, Reload(h) \/ Latest(h) \/ Succeed(h) \/ Align(h) \/ Unclaim(h)
      PROVE  PromptInv'
    <2>1. pc[h] \in {"reload", "latest", "succeed", "align", "unclaim"}
        BY <1>7 DEF Reload, Latest, Succeed, Align, Unclaim
    <2> QED BY <2>1, HolderIsAlone DEF KnowsRow, ClaimedSteps
<1>8. CASE Quiet \/ UNCHANGED vars
    BY <1>8, NobodyClaims DEF Quiet, vars
<1> QED
    BY <1>1, <1>2, <1>3, <1>4, <1>5, <1>6, <1>7, <1>8, PromptClaim, PromptRead, PromptBegin,
       PromptPersist, PromptRelease, PromptFinalize
       DEF Next, Handle

\* While no handler outlives its lease, the holder of a job is alone with it
\* and the ingestion, the job and the audit trail are settled together.
THEOREM PromptHandlersAgree == SlowHandlers = {} => (Spec => []PromptInv)
<1> SUFFICES ASSUME SlowHandlers = {} PROVE Spec => []PromptInv
    OBVIOUS
<1>1. Init => PromptInv
    BY DEF Init, PromptInv, ClaimIsExclusive, Holds, HandlerOK, RowsAgree, ClaimedSteps,
           AcceptedRow, AbsentJob, TerminalStates
<1>2. TypeOK /\ PromptInv /\ [Next]_vars => PromptInv'
    BY PromptStep
<1> QED BY <1>1, <1>2, TypeCorrect, PTL DEF Spec

\* Although BullMQ may deliver a job twice and the handlers of a process share
\* an identifier, a job is held by one handler at a time.
THEOREM PromptClaimsAreExclusive == SlowHandlers = {} => (Spec => []ClaimIsExclusive)
<1>1. PromptInv => ClaimIsExclusive
    BY DEF PromptInv
<1> QED BY <1>1, PromptHandlersAgree, PTL

\* The transaction that completes an ingestion marks its job succeeded.
THEOREM PromptCompletionsSucceed == SlowHandlers = {} => (Spec => []CompletedIsSucceeded)
<1>1. PromptInv => CompletedIsSucceeded
    BY DEF PromptInv, RowsAgree, CompletedIsSucceeded
<1> QED BY <1>1, PromptHandlersAgree, PTL

\* No ingestion is left waiting for a job that is reported as failed.
THEOREM PromptFailuresAreSettled == SlowHandlers = {} => (Spec => []FailedIsSettled)
<1>1. PromptInv => FailedIsSettled
    BY DEF PromptInv, RowsAgree, FailedIsSettled
<1> QED BY <1>1, PromptHandlersAgree, PTL

\* Every audit event of an outcome describes the state the ingestion is in.
THEOREM PromptAuditsMatch == SlowHandlers = {} => (Spec => []AuditMatchesState)
<1>1. PromptInv => AuditMatchesState
    BY DEF PromptInv, RowsAgree, AuditMatchesState
<1> QED BY <1>1, PromptHandlersAgree, PTL

=============================================================================

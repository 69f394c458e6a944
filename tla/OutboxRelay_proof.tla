------------------------- MODULE OutboxRelay_proof --------------------------
(***************************************************************************)
(* Proofs about OutboxRelay for any number of events and relays, any batch *)
(* limit, any maximum of attempts and any number of faults.                *)
(***************************************************************************)
EXTENDS OutboxRelay, FiniteSetTheorems, TLAPS

-----------------------------------------------------------------------------
(* Type correctness.                                                       *)

\* The conditional updates keep a row a row, and a claimed row leased.
LEMMA RowUpdates ==
    ASSUME NEW row \in OutboxRows, row.status = "claimed" => row.lease # "none"
    PROVE  /\ claimRow(row) \in OutboxRows
           /\ claimRow(row).lease # "none"
           /\ markProcessedAfterQueueAcceptance(row) \in OutboxRows
           /\ markProcessedAfterQueueAcceptance(row).status # "claimed"
                \/ markProcessedAfterQueueAcceptance(row).lease # "none"
           /\ markRetryableDeliveryFailure(row) \in OutboxRows
           /\ markRetryableDeliveryFailure(row).status # "claimed"
           /\ markDeadLetter(row) \in OutboxRows
           /\ markDeadLetter(row).status # "claimed"
<1>1. claimRow(row) \in OutboxRows /\ claimRow(row).lease # "none"
  <2>1. row.attempts + 1 \in Nat
        BY DEF OutboxRows
  <2>2. row.due \in BOOLEAN
        BY DEF OutboxRows
  <2> QED BY <2>1, <2>2 DEF OutboxRows, OutboxStatuses, claimRow
<1>2. /\ markProcessedAfterQueueAcceptance(row) \in OutboxRows
      /\ markProcessedAfterQueueAcceptance(row).status # "claimed"
           \/ markProcessedAfterQueueAcceptance(row).lease # "none"
      BY DEF OutboxRows, OutboxStatuses, markProcessedAfterQueueAcceptance
<1>3. /\ markRetryableDeliveryFailure(row) \in OutboxRows
      /\ markRetryableDeliveryFailure(row).status # "claimed"
      BY DEF OutboxRows, OutboxStatuses, markRetryableDeliveryFailure
<1>4. markDeadLetter(row) \in OutboxRows /\ markDeadLetter(row).status # "claimed"
      BY DEF OutboxRows, OutboxStatuses, markDeadLetter
<1> QED BY <1>1, <1>2, <1>3, <1>4

\* The initial state, every outbox row pending, is well typed.
LEMMA InitTypeOK == Init => TypeOK
BY RelayAssumption DEF Init, TypeOK, OutboxRows, OutboxStatuses, PendingRow, Steps

\* Every step of a relay, every failure and every tick keeps the types.
LEMMA NextTypeOK == TypeOK /\ [Next]_vars => TypeOK'
<1> SUFFICES ASSUME TypeOK, [Next]_vars PROVE TypeOK'
    OBVIOUS
<1> USE RelayAssumption
<1>1. ASSUME NEW r \in Relays, ClaimDueBatch(r) PROVE TypeOK'
  <2>1. PICK S \in SUBSET Events :
          /\ outbox' = [e \in Events |-> IF e \in S THEN claimRow(outbox[e]) ELSE outbox[e]]
          /\ batch' = [batch EXCEPT
                         ![r] = {[event |-> e, attempt |-> outbox[e].attempts + 1] : e \in S}]
        BY <1>1 DEF ClaimDueBatch
  <2>2. /\ outbox' \in [Events -> OutboxRows]
        /\ \A e \in Events : outbox'[e].status = "claimed" => outbox'[e].lease # "none"
        BY <2>1, RowUpdates DEF TypeOK
  <2>3. {[event |-> e, attempt |-> outbox[e].attempts + 1] : e \in S} \in SUBSET Claims
        BY DEF TypeOK, Claims, OutboxRows
  <2>4. batch' \in [Relays -> SUBSET Claims]
        BY <2>1, <2>3 DEF TypeOK
  <2> QED BY <1>1, <2>2, <2>4 DEF ClaimDueBatch, TypeOK, Goto, Steps
<1>2. ASSUME NEW r \in Relays, DeadLetter(r) PROVE TypeOK'
  <2>1. PICK c \in batch[r] :
          /\ outbox' = [outbox EXCEPT ![c.event] = markDeadLetter(@)]
          /\ batch' = [batch EXCEPT ![r] = @ \ {c}]
        BY <1>2 DEF DeadLetter
  <2>2. c.event \in Events
        BY DEF TypeOK, Claims
  <2>3. /\ outbox' \in [Events -> OutboxRows]
        /\ \A e \in Events : outbox'[e].status = "claimed" => outbox'[e].lease # "none"
        BY <2>1, <2>2, RowUpdates DEF TypeOK
  <2> QED BY <1>2, <2>1, <2>3 DEF DeadLetter, TypeOK
<1>3. ASSUME NEW r \in Relays, Publish(r) PROVE TypeOK'
  <2>1. PICK c \in batch[r] :
          /\ batch' = [batch EXCEPT ![r] = @ \ {c}]
          /\ current' = [current EXCEPT ![r] = c.event]
          /\ \/ /\ accepted' = accepted \cup {c.event}
                /\ Goto(r, "mark")
                /\ UNCHANGED faults
             \/ /\ faults < MaxFaults
                /\ faults' = faults + 1
                /\ accepted' \in {accepted, accepted \cup {c.event}}
                /\ Goto(r, "retry")
        BY <1>3 DEF Publish, AfterPublish
  <2>2. c.event \in Events
        BY DEF TypeOK, Claims
  <2>3. accepted' \subseteq Events /\ faults' \in 0..MaxFaults
        BY <2>1, <2>2 DEF TypeOK
  <2>4. pc' \in [Relays -> Steps] /\ current' \in [Relays -> Events \cup {NoEvent}]
        BY <2>1, <2>2 DEF TypeOK, Goto, Steps
  <2>5. \A q \in Relays : pc'[q] \in {"mark", "retry", "enqueue"} <=> current'[q] # NoEvent
        BY <2>1, <2>2 DEF TypeOK, Goto
  <2> QED BY <1>3, <2>1, <2>3, <2>4, <2>5 DEF Publish, TypeOK
<1>4. ASSUME NEW r \in Relays, MarkProcessed(r) PROVE TypeOK'
  <2>1. current[r] \in Events
        BY <1>4 DEF MarkProcessed, TypeOK
  <2>2. /\ outbox' \in [Events -> OutboxRows]
        /\ \A e \in Events : outbox'[e].status = "claimed" => outbox'[e].lease # "none"
        BY <1>4, <2>1, RowUpdates DEF MarkProcessed, TypeOK
  <2> QED BY <1>4, <2>1, <2>2 DEF MarkProcessed, TypeOK, Goto, Steps
<1>5. ASSUME NEW r \in Relays, MarkRetryable(r) PROVE TypeOK'
  <2>1. current[r] \in Events
        BY <1>5 DEF MarkRetryable, TypeOK
  <2>2. /\ outbox' \in [Events -> OutboxRows]
        /\ \A e \in Events : outbox'[e].status = "claimed" => outbox'[e].lease # "none"
        BY <1>5, <2>1, RowUpdates DEF MarkRetryable, TypeOK
  <2> QED BY <1>5, <2>1, <2>2 DEF MarkRetryable, TypeOK, Goto, Steps
<1>6. ASSUME NEW r \in Relays, Enqueue(r) PROVE TypeOK'
  <2>1. current[r] \in Events
        BY <1>6 DEF Enqueue, TypeOK
  <2> QED BY <1>6, <2>1 DEF Enqueue, TypeOK, Goto, Steps
<1>7. ASSUME NEW r \in Relays, ListProcessedAwaiting(r) PROVE TypeOK'
  <2>1. PICK S \in SUBSET Events : awaiting' = [awaiting EXCEPT ![r] = S]
        BY <1>7 DEF ListProcessedAwaiting
  <2> QED BY <1>7, <2>1 DEF ListProcessedAwaiting, TypeOK, Goto, Steps
<1>8. ASSUME NEW r \in Relays, Reconcile(r) PROVE TypeOK'
  <2>1. PICK e \in awaiting[r] :
          /\ awaiting' = [awaiting EXCEPT ![r] = @ \ {e}]
          /\ jobRows' = IF e \in Unsupported THEN jobRows ELSE jobRows \cup {e}
        BY <1>8 DEF Reconcile
  <2>2. jobRows' \subseteq Events
        BY <2>1 DEF TypeOK
  <2> QED BY <1>8, <2>1, <2>2 DEF Reconcile, TypeOK
<1>9. ASSUME NEW r \in Relays, BatchDone(r) PROVE TypeOK'
      BY <1>9 DEF BatchDone, TypeOK, Goto, Steps
<1>10. ASSUME NEW r \in Relays, Abandon(r) PROVE TypeOK'
      BY <1>10 DEF Abandon, TypeOK, Goto, Steps
<1>11. ASSUME NEW e \in Events, LeaseExpires(e) PROVE TypeOK'
      BY <1>11 DEF LeaseExpires, TypeOK, OutboxRows, relays
<1>12. ASSUME NEW e \in Events, BecomesDue(e) PROVE TypeOK'
      BY <1>12, ZenonT(60) DEF BecomesDue, TypeOK, OutboxRows, relays
<1>13. CASE UNCHANGED vars
      BY <1>13 DEF vars, TypeOK
<1> QED
    BY <1>1, <1>2, <1>3, <1>4, <1>5, <1>6, <1>7, <1>8, <1>9, <1>10, <1>11, <1>12,
       <1>13 DEF Next, Run

\* Type correctness of the relay for every configuration.
THEOREM TypeCorrect == Spec => []TypeOK
BY InitTypeOK, NextTypeOK, PTL DEF Spec

-----------------------------------------------------------------------------
(* Settled events and acceptance.                                          *)

Settled(e) == outbox[e].status \in {"processed", "dead_lettered"}

\* No step changes the row of a settled event: every UPDATE excludes it by its
\* WHERE clause, whichever claim the writing relay holds.
LEMMA SettledStep ==
    ASSUME TypeOK, [Next]_vars, NEW e \in Events, Settled(e)
    PROVE  outbox'[e] = outbox[e]
<1> USE DEF Settled
<1>1. ASSUME NEW r \in Relays, ClaimDueBatch(r) PROVE outbox'[e] = outbox[e]
  <2>1. PICK S \in SUBSET Events :
          /\ BatchOf(S)
          /\ outbox' = [d \in Events |-> IF d \in S THEN claimRow(outbox[d]) ELSE outbox[d]]
        BY <1>1 DEF ClaimDueBatch
  <2>2. e \notin S
        BY <2>1 DEF BatchOf, Claimable
  <2> QED BY <2>1, <2>2
<1>2. ASSUME NEW r \in Relays, DeadLetter(r) PROVE outbox'[e] = outbox[e]
      BY <1>2 DEF DeadLetter, markDeadLetter, TypeOK
<1>3. ASSUME NEW r \in Relays, MarkProcessed(r) PROVE outbox'[e] = outbox[e]
      BY <1>3 DEF MarkProcessed, markProcessedAfterQueueAcceptance, TypeOK
<1>4. ASSUME NEW r \in Relays, MarkRetryable(r) PROVE outbox'[e] = outbox[e]
      BY <1>4 DEF MarkRetryable, markRetryableDeliveryFailure, TypeOK
<1>5. ASSUME NEW d \in Events, LeaseExpires(d) \/ BecomesDue(d)
      PROVE  outbox'[e] = outbox[e]
      BY <1>5 DEF LeaseExpires, BecomesDue, TypeOK
<1> QED
    BY <1>1, <1>2, <1>3, <1>4, <1>5 DEF Next, Run, vars, Publish, Enqueue,
       ListProcessedAwaiting, Reconcile, BatchDone, Abandon

\* Processed and dead-lettered events never return to circulation.
THEOREM SettledStaysSettled == Spec => SettledEventIsFinal
<1>1. TypeOK /\ [Next]_vars =>
        [\A e \in Events :
           outbox[e].status \in {"processed", "dead_lettered"} => outbox'[e] = outbox[e]]_outbox
      BY SettledStep DEF Settled
<1> QED BY <1>1, TypeCorrect, PTL DEF Spec, SettledEventIsFinal

\* What the relays know: a publication that succeeded is in the queue, a row is
\* created only for an event that has been marked, the sweep lists only such.
AcceptInv ==
    /\ \A r \in Relays : pc[r] \in {"mark", "enqueue"} => current[r] \in accepted
    /\ \A r \in Relays : pc[r] = "enqueue" => outbox[current[r]].status = "processed"
    /\ \A r \in Relays : \A e \in awaiting[r] : outbox[e].status = "processed"
    /\ ProcessedWasAccepted

\* No step makes a row processed but the update of a relay that has published.
LEMMA ProcessedStep ==
    ASSUME TypeOK, AcceptInv, [Next]_vars, NEW e \in Events, outbox'[e].status = "processed"
    PROVE  e \in accepted
<1>0. CASE outbox[e].status = "processed"
      BY <1>0 DEF AcceptInv, ProcessedWasAccepted
<1> SUFFICES ASSUME outbox[e].status # "processed" PROVE e \in accepted
    BY <1>0
<1>1. ASSUME NEW r \in Relays, ClaimDueBatch(r) PROVE e \in accepted
      BY <1>1 DEF ClaimDueBatch, claimRow
<1>2. ASSUME NEW r \in Relays, DeadLetter(r) PROVE e \in accepted
      BY <1>2 DEF DeadLetter, markDeadLetter, TypeOK, OutboxRows
<1>3. ASSUME NEW r \in Relays, MarkProcessed(r) PROVE e \in accepted
  <2>1. current[r] = e
        BY <1>3 DEF MarkProcessed, TypeOK
  <2> QED BY <1>3, <2>1 DEF MarkProcessed, AcceptInv
<1>4. ASSUME NEW r \in Relays, MarkRetryable(r) PROVE e \in accepted
      BY <1>4 DEF MarkRetryable, markRetryableDeliveryFailure, TypeOK, OutboxRows
<1>5. ASSUME NEW d \in Events, LeaseExpires(d) \/ BecomesDue(d)
      PROVE  e \in accepted
      BY <1>5 DEF LeaseExpires, BecomesDue, TypeOK, OutboxRows
<1> QED
    BY <1>1, <1>2, <1>3, <1>4, <1>5 DEF Next, Run, vars, Publish, Enqueue,
       ListProcessedAwaiting, Reconcile, BatchDone, Abandon

\* Every step changes the queue and the job rows as the abstract specification
\* of delivery allows: at most one of the two, by one event.
LEMMA DeliveryStep ==
    ASSUME TypeOK, AcceptInv, [Next]_vars
    PROVE  \/ UNCHANGED <<accepted, jobRows>>
           \/ \E e \in Events \ (Unsupported \cup accepted) :
                accepted' = accepted \cup {e} /\ jobRows' = jobRows
           \/ \E e \in accepted \ jobRows :
                /\ outbox[e].status = "processed"
                /\ jobRows' = jobRows \cup {e} /\ accepted' = accepted
<1> DEFINE Good == \/ UNCHANGED <<accepted, jobRows>>
                   \/ \E e \in Events \ (Unsupported \cup accepted) :
                        accepted' = accepted \cup {e} /\ jobRows' = jobRows
                   \/ \E e \in accepted \ jobRows :
                        /\ outbox[e].status = "processed"
                        /\ jobRows' = jobRows \cup {e} /\ accepted' = accepted
<1>1. ASSUME NEW r \in Relays, Publish(r) PROVE Good
  <2>1. PICK c \in batch[r] :
          /\ c.event \notin Unsupported
          /\ accepted' \in {accepted, accepted \cup {c.event}}
        BY <1>1 DEF Publish
  <2>2. c.event \in Events
        BY DEF TypeOK, Claims
  <2>3. jobRows' = jobRows
        BY <1>1 DEF Publish
  <2>4. CASE c.event \in accepted
        BY <2>1, <2>3, <2>4
  <2>5. CASE c.event \notin accepted
        BY <2>1, <2>2, <2>3, <2>5
  <2> QED BY <2>4, <2>5
<1>2. ASSUME NEW r \in Relays, Enqueue(r) PROVE Good
  <2>1. /\ jobRows' = jobRows \cup {current[r]} /\ accepted' = accepted
        /\ current[r] \in accepted /\ outbox[current[r]].status = "processed"
        BY <1>2 DEF Enqueue, AcceptInv
  <2>2. CASE current[r] \in jobRows
        BY <2>1, <2>2
  <2>3. CASE current[r] \notin jobRows
        BY <2>1, <2>3
  <2> QED BY <2>2, <2>3
<1>3. ASSUME NEW r \in Relays, Reconcile(r) PROVE Good
  <2>1. PICK e \in awaiting[r] :
          jobRows' = IF e \in Unsupported THEN jobRows ELSE jobRows \cup {e}
        BY <1>3 DEF Reconcile
  <2>2. e \in accepted /\ outbox[e].status = "processed" /\ accepted' = accepted
        BY <1>3 DEF Reconcile, AcceptInv, ProcessedWasAccepted, TypeOK
  <2>3. CASE e \in jobRows \cup Unsupported
        BY <2>1, <2>2, <2>3
  <2>4. CASE e \notin jobRows \cup Unsupported
        BY <2>1, <2>2, <2>4
  <2> QED BY <2>3, <2>4
<1> QED
    BY <1>1, <1>2, <1>3 DEF Next, Run, vars, ClaimDueBatch, DeadLetter, MarkProcessed,
       MarkRetryable, ListProcessedAwaiting, BatchDone, Abandon, LeaseExpires, BecomesDue

\* A relay's next statement, its event and its sweep, after any step: what it is
\* about to write about is in the queue and marked.
LEMMA RelayKnowledgeStep ==
    ASSUME TypeOK, AcceptInv, [Next]_vars, NEW r \in Relays
    PROVE  /\ pc'[r] \in {"mark", "enqueue"} => current'[r] \in accepted'
           /\ pc'[r] = "enqueue" => outbox'[current'[r]].status = "processed"
           /\ \A e \in awaiting'[r] : outbox'[e].status = "processed"
<1> DEFINE Good == /\ pc'[r] \in {"mark", "enqueue"} => current'[r] \in accepted'
                   /\ pc'[r] = "enqueue" => outbox'[current'[r]].status = "processed"
                   /\ \A e \in awaiting'[r] : outbox'[e].status = "processed"
<1>1. accepted \subseteq accepted'
      BY DeliveryStep
<1>2. ASSUME NEW e \in Events, outbox[e].status = "processed"
      PROVE  outbox'[e].status = "processed"
      BY <1>2, SettledStep DEF Settled
<1>3. CASE UNCHANGED <<pc[r], current[r], awaiting[r]>>
  <2>1. pc[r] \in {"mark", "enqueue"} => current[r] \in Events
        BY DEF TypeOK
  <2>2. awaiting[r] \subseteq Events
        BY DEF TypeOK
  <2> QED BY <1>1, <1>2, <1>3, <2>1, <2>2 DEF AcceptInv
<1>4. CASE ClaimDueBatch(r)
      BY <1>1, <1>2, <1>4 DEF ClaimDueBatch, Goto, TypeOK, AcceptInv
<1>5. CASE Publish(r)
  <2>1. /\ current'[r] \in accepted' \/ pc'[r] = "retry"
        /\ pc'[r] \in {"mark", "retry"}
        BY <1>5 DEF Publish, AfterPublish, Goto, TypeOK
  <2> QED BY <1>2, <1>5, <2>1 DEF Publish, TypeOK, AcceptInv
<1>6. CASE MarkProcessed(r)
  <2>1. current[r] \in Events /\ current[r] \in accepted
        BY <1>6 DEF MarkProcessed, TypeOK, AcceptInv
  <2>2. CASE outbox[current[r]].status = "claimed"
    <3>1. outbox'[current[r]].status = "processed"
          BY <1>6, <2>1, <2>2 DEF MarkProcessed, markProcessedAfterQueueAcceptance,
             TypeOK, OutboxRows
    <3> QED BY <1>2, <1>6, <2>1, <2>2, <3>1 DEF MarkProcessed, Goto, TypeOK, AcceptInv
  <2>3. CASE outbox[current[r]].status # "claimed"
        BY <1>2, <1>6, <2>3 DEF MarkProcessed, Goto, TypeOK, AcceptInv
  <2> QED BY <2>2, <2>3
<1>7. CASE MarkRetryable(r) \/ Enqueue(r)
      BY <1>2, <1>7 DEF MarkRetryable, Enqueue, Goto, TypeOK, AcceptInv
<1>8. CASE ListProcessedAwaiting(r)
      BY <1>2, <1>8 DEF ListProcessedAwaiting, Awaits, Goto, TypeOK
<1>9. CASE Reconcile(r)
      BY <1>2, <1>9 DEF Reconcile, TypeOK, AcceptInv
<1>10. CASE BatchDone(r) \/ Abandon(r)
      BY <1>10 DEF BatchDone, Abandon, Goto, TypeOK
<1>11. CASE DeadLetter(r)
      BY <1>3, <1>11 DEF DeadLetter
<1>12. ASSUME NEW q \in Relays, q # r, Run(q) \/ Abandon(q) PROVE Good
  <2>1. UNCHANGED <<pc[r], current[r], awaiting[r]>>
        BY <1>12 DEF Run, Abandon, ClaimDueBatch, DeadLetter, Publish, MarkProcessed,
           MarkRetryable, Enqueue, ListProcessedAwaiting, Reconcile, BatchDone, Goto, TypeOK
  <2> QED BY <2>1, <1>3
<1>13. ASSUME NEW e \in Events, LeaseExpires(e) \/ BecomesDue(e) PROVE Good
      BY <1>3, <1>13 DEF LeaseExpires, BecomesDue, relays
<1>14. CASE UNCHANGED vars
      BY <1>3, <1>14 DEF vars
<1> QED
    BY <1>4, <1>5, <1>6, <1>7, <1>8, <1>9, <1>10, <1>11, <1>12, <1>13, <1>14
       DEF Next, Run

\* The strengthening of ProcessedWasAccepted is an invariant.
LEMMA AcceptInvariant == Spec => [](TypeOK /\ AcceptInv)
<1>1. Init => AcceptInv
      BY DEF Init, AcceptInv, ProcessedWasAccepted, PendingRow
<1>2. TypeOK /\ AcceptInv /\ [Next]_vars => AcceptInv'
  <2> SUFFICES ASSUME TypeOK, AcceptInv, [Next]_vars PROVE AcceptInv'
      OBVIOUS
  <2>1. ASSUME NEW e \in Events, outbox'[e].status = "processed" PROVE e \in accepted'
        BY <2>1, ProcessedStep, DeliveryStep
  <2>2. ASSUME NEW e \in Events, e \in jobRows' PROVE outbox'[e].status = "processed"
    <3>1. outbox[e].status = "processed"
          BY <2>2, DeliveryStep DEF AcceptInv, ProcessedWasAccepted
    <3> QED BY <3>1, SettledStep DEF Settled
  <2> QED BY <2>1, <2>2, RelayKnowledgeStep DEF AcceptInv, ProcessedWasAccepted
<1> QED BY <1>1, <1>2, InitTypeOK, NextTypeOK, PTL DEF Spec

\* processed means accepted by BullMQ, and a job row means processed.
THEOREM ProcessedMeansAccepted == Spec => []ProcessedWasAccepted
BY AcceptInvariant, PTL DEF AcceptInv

\* The relay implements the abstract specification of delivery.
THEOREM Refinement == Spec => ImplementsDelivery
<1>1. Init => Delivery!DInit
      BY DEF Init, Delivery!DInit
<1>2. TypeOK /\ AcceptInv /\ [Next]_vars => [Delivery!DNext]_<<accepted, jobRows>>
  <2> SUFFICES ASSUME TypeOK, AcceptInv, [Next]_vars
               PROVE  [Delivery!DNext]_<<accepted, jobRows>>
      OBVIOUS
  <2>1. accepted \subseteq Events
        BY DEF TypeOK
  <2> QED BY <2>1, DeliveryStep DEF Delivery!DNext, Delivery!Accept, Delivery!CreateRow
<1> QED BY <1>1, <1>2, AcceptInvariant, PTL DEF Spec, ImplementsDelivery, Delivery!DSpec

-----------------------------------------------------------------------------
(* Attempts are paid for by failures.                                      *)

\* Relays that have seen a publication of e fail and not yet recorded it: each
\* of them may return a row to pending that another relay has claimed since.
Retriers(e) == {r \in Relays : pc[r] = "retry" /\ current[r] = e}

\* The failures an event may still be charged with, and those it was.
Spent(e) == outbox[e].attempts + Cardinality(Retriers(e))

\* A row out of circulation, or back in it, has no more attempts than there were
\* failures; a claim that is being worked on may have one more.
PaidFor(e) ==
    /\ outbox[e].status = "pending" => Spent(e) <= faults
    /\ outbox[e].status = "claimed" => Spent(e) <= faults + 1
    /\ /\ outbox[e].status = "claimed"
       /\ outbox[e].lease = "expired" \/ \A r \in Relays : ~Working(r, e)
       => Spent(e) <= faults

FaultInv ==
    /\ \A r \in Relays : pc[r] \in {"claim", "reconcile"} => batch[r] = {}
    /\ \A r \in Relays : \A c \in batch[r] : c.attempt <= faults + 1
    /\ \A e \in Events : PaidFor(e)
    /\ GivenUpAfterMaxAttempts

\* The sum is a number.
LEMMA SpentType ==
    ASSUME TypeOK, NEW e \in Events
    PROVE  /\ IsFiniteSet(Retriers(e)) /\ Cardinality(Retriers(e)) \in Nat
           /\ outbox[e].attempts \in Nat /\ Spent(e) \in Nat
           /\ faults \in Nat
<1>1. IsFiniteSet(Retriers(e))
      BY RelayAssumption, FS_Subset DEF Retriers
<1>2. Cardinality(Retriers(e)) \in Nat
      BY <1>1, FS_CardinalityType
<1>3. outbox[e].attempts \in Nat
      BY DEF TypeOK, OutboxRows
<1> QED BY <1>1, <1>2, <1>3, RelayAssumption DEF Spent, TypeOK

\* A failed publication adds its relay to the retriers of its event.
LEMMA RetrierAdded ==
    ASSUME TypeOK, NEW r \in Relays, NEW e \in Events, pc[r] # "retry",
           Retriers(e)' = Retriers(e) \cup {r}
    PROVE  Cardinality(Retriers(e)') = Cardinality(Retriers(e)) + 1
<1>1. r \notin Retriers(e)
      BY DEF Retriers
<1> QED BY <1>1, SpentType, FS_AddElement

\* Recording the failure removes the relay again.
LEMMA RetrierRemoved ==
    ASSUME TypeOK, NEW r \in Relays, NEW e \in Events, r \in Retriers(e),
           Retriers(e)' = Retriers(e) \ {r}
    PROVE  Cardinality(Retriers(e)') = Cardinality(Retriers(e)) - 1
BY SpentType, FS_RemoveElement

\* Claiming charges an attempt that a failure, or the first delivery, has paid.
LEMMA ClaimPaidFor ==
    ASSUME TypeOK, FaultInv, NEW r \in Relays, ClaimDueBatch(r)
    PROVE  FaultInv'
<1>1. PICK S \in SUBSET Events :
        /\ BatchOf(S)
        /\ outbox' = [e \in Events |-> IF e \in S THEN claimRow(outbox[e]) ELSE outbox[e]]
        /\ batch' = [batch EXCEPT
                       ![r] = {[event |-> e, attempt |-> outbox[e].attempts + 1] : e \in S}]
      BY DEF ClaimDueBatch
<1>2. /\ pc[r] = "claim" /\ pc' = [pc EXCEPT ![r] = "relay"]
      /\ UNCHANGED <<current, faults>>
      BY DEF ClaimDueBatch, Goto
<1>3. \A e \in Events : Retriers(e)' = Retriers(e)
      BY <1>2 DEF Retriers, TypeOK
<1>4. ASSUME NEW e \in S PROVE Spent(e) <= faults
      BY <1>1 DEF BatchOf, Claimable, FaultInv, PaidFor
<1>5. ASSUME NEW e \in Events PROVE PaidFor(e)'
  <2>1. CASE e \in S
    <3>1. outbox'[e] = claimRow(outbox[e])
          BY <1>1, <2>1
    <3>2. Spent(e)' = Spent(e) + 1
          BY <3>1, <1>3, SpentType DEF Spent, claimRow
    <3>3. Spent(e)' <= faults + 1
          BY <3>2, <1>4, <2>1, SpentType
    <3>4. Working(r, e)'
      <4>1. [event |-> e, attempt |-> outbox[e].attempts + 1] \in batch'[r]
            BY <1>1, <2>1 DEF TypeOK
      <4> QED BY <4>1 DEF Working
    <3> QED BY <3>1, <3>3, <3>4, <1>2 DEF PaidFor, claimRow
  <2>2. CASE e \notin S
    <3>1. outbox'[e] = outbox[e] /\ Spent(e)' = Spent(e)
          BY <1>1, <1>3, <2>2 DEF Spent
    <3>2. \A q \in Relays : Working(q, e) => Working(q, e)'
          BY <1>1, <1>2 DEF Working, FaultInv, TypeOK
    <3> QED BY <3>1, <3>2, <1>2 DEF PaidFor, FaultInv
  <2> QED BY <2>1, <2>2
<1>6. ASSUME NEW q \in Relays, NEW c \in batch'[q] PROVE c.attempt <= faults + 1
  <2>1. CASE q = r
    <3>1. PICK e \in S : c = [event |-> e, attempt |-> outbox[e].attempts + 1]
          BY <1>1, <1>6, <2>1 DEF TypeOK
    <3>2. outbox[e].attempts <= Spent(e)
          BY SpentType DEF Spent
    <3> QED BY <3>1, <3>2, <1>4, SpentType
  <2>2. CASE q # r
        BY <1>1, <1>6, <2>2 DEF FaultInv, TypeOK
  <2> QED BY <2>1, <2>2
<1>7. GivenUpAfterMaxAttempts'
      BY <1>1, <1>2 DEF FaultInv, GivenUpAfterMaxAttempts, claimRow
<1>8. \A q \in Relays : pc'[q] \in {"claim", "reconcile"} => batch'[q] = {}
      BY <1>1, <1>2 DEF FaultInv, TypeOK
<1> QED BY <1>2, <1>5, <1>6, <1>7, <1>8 DEF FaultInv

\* Dead-lettering needs a claim that MaxAttempts failures have paid for.
LEMMA DeadLetterPaidFor ==
    ASSUME TypeOK, FaultInv, NEW r \in Relays, DeadLetter(r)
    PROVE  FaultInv'
<1>1. PICK c \in batch[r] :
        /\ c.event \in Unsupported \/ Exhausted(c)
        /\ outbox' = [outbox EXCEPT ![c.event] = markDeadLetter(@)]
        /\ batch' = [batch EXCEPT ![r] = @ \ {c}]
      BY DEF DeadLetter
<1>2. pc[r] = "relay" /\ UNCHANGED <<pc, current, faults>>
      BY DEF DeadLetter
<1>3. c.event \in Events /\ c.attempt \in Nat
      BY DEF TypeOK, Claims
<1>4. \A e \in Events : Retriers(e)' = Retriers(e)
      BY <1>2 DEF Retriers
<1>5. outbox'[c.event].status \notin {"pending", "claimed"}
      BY <1>1, <1>3 DEF markDeadLetter, TypeOK, OutboxRows
<1>6. ASSUME NEW e \in Events PROVE PaidFor(e)'
  <2>1. CASE e = c.event
        BY <1>5, <2>1 DEF PaidFor
  <2>2. CASE e # c.event
    <3>1. outbox'[e] = outbox[e] /\ Spent(e)' = Spent(e)
          BY <1>1, <1>4, <2>2 DEF Spent, TypeOK
    <3>2. \A q \in Relays : Working(q, e) => Working(q, e)'
          BY <1>1, <1>2, <2>2 DEF Working, TypeOK
    <3> QED BY <3>1, <3>2, <1>2 DEF PaidFor, FaultInv
  <2> QED BY <2>1, <2>2
<1>7. Exhausted(c) => faults >= MaxAttempts
      BY <1>3, RelayAssumption DEF Exhausted, FaultInv, TypeOK
<1>8. GivenUpAfterMaxAttempts'
  <2> SUFFICES ASSUME NEW e \in Events \ Unsupported, outbox'[e].status = "dead_lettered"
               PROVE  faults >= MaxAttempts
      BY <1>2 DEF GivenUpAfterMaxAttempts
  <2>1. CASE e = c.event
        BY <1>1, <1>7, <2>1
  <2>2. CASE e # c.event
        BY <1>1, <2>2 DEF FaultInv, GivenUpAfterMaxAttempts, TypeOK
  <2> QED BY <2>1, <2>2
<1>9. \A q \in Relays : batch'[q] \subseteq batch[q]
      BY <1>1 DEF TypeOK
<1> QED BY <1>2, <1>6, <1>8, <1>9 DEF FaultInv

\* A failed publication is a failure, and lets one row return to pending.
LEMMA PublishPaidFor ==
    ASSUME TypeOK, FaultInv, NEW r \in Relays, Publish(r)
    PROVE  FaultInv'
<1>1. PICK c \in batch[r] :
        /\ batch' = [batch EXCEPT ![r] = @ \ {c}]
        /\ current' = [current EXCEPT ![r] = c.event]
        /\ \/ pc' = [pc EXCEPT ![r] = "mark"] /\ faults' = faults
           \/ pc' = [pc EXCEPT ![r] = "retry"] /\ faults' = faults + 1
      BY DEF Publish, AfterPublish, Goto
<1>2. pc[r] = "relay" /\ current[r] = NoEvent /\ outbox' = outbox
      BY DEF Publish, TypeOK
<1>3. c.event \in Events /\ faults \in Nat /\ faults' \in Nat
      BY <1>1, RelayAssumption DEF TypeOK, Claims
<1>4. \A q \in Relays, e \in Events : Working(q, e) => Working(q, e)'
      BY <1>1, <1>2, RelayAssumption DEF Working, TypeOK
<1>5. ASSUME NEW e \in Events PROVE PaidFor(e)'
  <2>1. CASE faults' = faults /\ pc' = [pc EXCEPT ![r] = "mark"]
    <3>1. Retriers(e)' = Retriers(e)
          BY <1>1, <1>2, <2>1 DEF Retriers, TypeOK
    <3>2. Spent(e)' = Spent(e)
          BY <3>1, <1>2 DEF Spent
    <3> QED BY <3>2, <1>2, <1>4, <2>1 DEF PaidFor, FaultInv
  <2>2. CASE faults' = faults + 1 /\ pc' = [pc EXCEPT ![r] = "retry"] /\ e = c.event
    <3>1. Retriers(e)' = Retriers(e) \cup {r}
          BY <1>1, <1>2, <2>2 DEF Retriers, TypeOK
    <3>2. Spent(e)' = Spent(e) + 1
      <4>1. Cardinality(Retriers(e)') = Cardinality(Retriers(e)) + 1
            BY <3>1, <1>2, RetrierAdded
      <4> QED BY <4>1, <1>2, SpentType DEF Spent
    <3> QED BY <3>2, <1>2, <1>3, <1>4, <2>2, SpentType DEF PaidFor, FaultInv
  <2>3. CASE faults' = faults + 1 /\ pc' = [pc EXCEPT ![r] = "retry"] /\ e # c.event
    <3>1. Retriers(e)' = Retriers(e)
          BY <1>1, <1>2, <2>3 DEF Retriers, TypeOK
    <3>2. Spent(e)' = Spent(e)
          BY <3>1, <1>2 DEF Spent
    <3> QED BY <3>2, <1>2, <1>3, <1>4, <2>3, SpentType DEF PaidFor, FaultInv
  <2> QED BY <1>1, <2>1, <2>2, <2>3
<1>6. GivenUpAfterMaxAttempts'
      BY <1>1, <1>2, <1>3, RelayAssumption DEF FaultInv, GivenUpAfterMaxAttempts
<1>7. \A q \in Relays : batch'[q] \subseteq batch[q]
      BY <1>1 DEF TypeOK
<1>8. \A q \in Relays : \A d \in batch'[q] : d.attempt <= faults' + 1
      BY <1>1, <1>3, <1>7 DEF FaultInv, TypeOK, Claims
<1>9. \A q \in Relays : pc'[q] \in {"claim", "reconcile"} => batch'[q] = {}
      BY <1>1, <1>2, <1>7 DEF FaultInv, TypeOK
<1> QED BY <1>5, <1>6, <1>8, <1>9 DEF FaultInv

\* Marking an event takes its row out of circulation.
LEMMA MarkPaidFor ==
    ASSUME TypeOK, FaultInv, NEW r \in Relays, MarkProcessed(r)
    PROVE  FaultInv'
<1>1. /\ pc[r] = "mark" /\ current[r] \in Events
      /\ outbox' = [outbox EXCEPT ![current[r]] = markProcessedAfterQueueAcceptance(@)]
      /\ \/ pc' = [pc EXCEPT ![r] = "enqueue"] /\ current' = current
         \/ pc' = [pc EXCEPT ![r] = "relay"] /\ current' = [current EXCEPT ![r] = NoEvent]
      /\ UNCHANGED <<batch, faults>>
      BY DEF MarkProcessed, Goto, TypeOK
<1>2. ASSUME NEW e \in Events PROVE PaidFor(e)'
  <2>1. Retriers(e)' = Retriers(e)
        BY <1>1 DEF Retriers, TypeOK
  <2>2. outbox'[e].attempts = outbox[e].attempts
        BY <1>1 DEF markProcessedAfterQueueAcceptance, TypeOK, OutboxRows
  <2>3. Spent(e)' = Spent(e)
        BY <2>1, <2>2 DEF Spent
  <2>4. CASE e = current[r]
    <3>1. /\ outbox'[e].status # "claimed"
          /\ outbox'[e].status = "pending" => outbox[e].status = "pending"
          BY <1>1, <2>4 DEF markProcessedAfterQueueAcceptance, TypeOK, OutboxRows
    <3> QED BY <3>1, <2>3, <1>1 DEF PaidFor, FaultInv
  <2>5. CASE e # current[r]
    <3>1. outbox'[e] = outbox[e]
          BY <1>1, <2>5 DEF TypeOK
    <3>2. \A q \in Relays : Working(q, e) => Working(q, e)'
          BY <1>1, <2>5 DEF Working, TypeOK
    <3> QED BY <3>1, <3>2, <2>3, <1>1 DEF PaidFor, FaultInv
  <2> QED BY <2>4, <2>5
<1>3. GivenUpAfterMaxAttempts'
      BY <1>1 DEF FaultInv, GivenUpAfterMaxAttempts, markProcessedAfterQueueAcceptance,
         TypeOK, OutboxRows
<1> QED BY <1>1, <1>2, <1>3 DEF FaultInv, TypeOK

\* Recording a failure spends it: the row returns to pending.
LEMMA RetryPaidFor ==
    ASSUME TypeOK, FaultInv, NEW r \in Relays, MarkRetryable(r)
    PROVE  FaultInv'
<1>1. /\ pc[r] = "retry" /\ current[r] \in Events
      /\ outbox' = [outbox EXCEPT ![current[r]] = markRetryableDeliveryFailure(@)]
      /\ pc' = [pc EXCEPT ![r] = "relay"] /\ current' = [current EXCEPT ![r] = NoEvent]
      /\ UNCHANGED <<batch, faults>>
      BY DEF MarkRetryable, Goto, TypeOK
<1>2. ASSUME NEW e \in Events PROVE PaidFor(e)'
  <2>1. outbox'[e].attempts = outbox[e].attempts
        BY <1>1 DEF markRetryableDeliveryFailure, TypeOK, OutboxRows
  <2>2. CASE e = current[r]
    <3>1. r \in Retriers(e) /\ Retriers(e)' = Retriers(e) \ {r}
          BY <1>1, <2>2, RelayAssumption DEF Retriers, TypeOK
    <3>2. Spent(e)' = Spent(e) - 1
      <4>1. Cardinality(Retriers(e)') = Cardinality(Retriers(e)) - 1
            BY <3>1, RetrierRemoved
      <4> QED BY <4>1, <2>1, SpentType DEF Spent
    <3>3. /\ outbox'[e].status # "claimed"
          /\ outbox'[e].status = "pending" => outbox[e].status \in {"pending", "claimed"}
          BY <1>1, <2>2 DEF markRetryableDeliveryFailure, TypeOK, OutboxRows
    <3> QED BY <3>2, <3>3, <1>1, SpentType DEF PaidFor, FaultInv
  <2>3. CASE e # current[r]
    <3>1. Retriers(e)' = Retriers(e)
          BY <1>1, <2>3 DEF Retriers, TypeOK
    <3>2. outbox'[e] = outbox[e] /\ Spent(e)' = Spent(e)
          BY <3>1, <1>1, <2>3 DEF Spent, TypeOK
    <3>3. \A q \in Relays : Working(q, e) => Working(q, e)'
          BY <1>1, <2>3 DEF Working, TypeOK
    <3> QED BY <3>2, <3>3, <1>1 DEF PaidFor, FaultInv
  <2> QED BY <2>2, <2>3
<1>3. GivenUpAfterMaxAttempts'
      BY <1>1 DEF FaultInv, GivenUpAfterMaxAttempts, markRetryableDeliveryFailure,
         TypeOK, OutboxRows
<1> QED BY <1>1, <1>2, <1>3 DEF FaultInv, TypeOK

\* A relay that only writes job rows leaves every account as it is: the event it
\* is done with is processed.
LEMMA RowWritesPaidFor ==
    ASSUME TypeOK, AcceptInv, FaultInv, NEW r \in Relays,
           Enqueue(r) \/ ListProcessedAwaiting(r) \/ Reconcile(r) \/ BatchDone(r)
    PROVE  FaultInv'
<1>1. /\ UNCHANGED <<outbox, batch, faults>>
      /\ pc[r] \in {"enqueue", "relay", "reconcile"}
      /\ \E step \in Steps \ {"retry"} : pc' = [pc EXCEPT ![r] = step]
      /\ \/ current' = current
         \/ pc[r] = "enqueue" /\ current' = [current EXCEPT ![r] = NoEvent]
      BY DEF Enqueue, ListProcessedAwaiting, Reconcile, BatchDone, Goto, TypeOK, Steps
<1>2. ASSUME NEW e \in Events PROVE PaidFor(e)'
  <2>1. Retriers(e)' = Retriers(e)
        BY <1>1 DEF Retriers, TypeOK
  <2>2. Spent(e)' = Spent(e)
        BY <1>1, <2>1 DEF Spent
  <2>3. CASE outbox[e].status = "claimed"
    <3>1. pc[r] = "enqueue" => current[r] # e
          BY <2>3 DEF AcceptInv
    <3>2. \A q \in Relays : Working(q, e) => Working(q, e)'
          BY <1>1, <3>1 DEF Working, TypeOK
    <3> QED BY <1>1, <2>2, <3>2 DEF PaidFor, FaultInv
  <2>4. CASE outbox[e].status # "claimed"
        BY <1>1, <2>2, <2>4 DEF PaidFor, FaultInv
  <2> QED BY <2>3, <2>4
<1>3. GivenUpAfterMaxAttempts'
      BY <1>1 DEF FaultInv, GivenUpAfterMaxAttempts
<1>4. \A q \in Relays : pc'[q] \in {"claim", "reconcile"} => batch'[q] = {}
      BY DEF Enqueue, ListProcessedAwaiting, Reconcile, BatchDone, Goto, TypeOK, FaultInv
<1> QED BY <1>1, <1>2, <1>3, <1>4 DEF FaultInv

\* A lost relay is a failure and leaves its claims to expire.
LEMMA AbandonPaidFor ==
    ASSUME TypeOK, FaultInv, NEW r \in Relays, Abandon(r)
    PROVE  FaultInv'
<1>1. /\ outbox' = outbox /\ faults' = faults + 1
      /\ pc' = [pc EXCEPT ![r] = "claim"]
      /\ batch' = [batch EXCEPT ![r] = {}]
      /\ current' = [current EXCEPT ![r] = NoEvent]
      BY DEF Abandon, Goto
<1>2. faults \in Nat
      BY DEF TypeOK
<1>3. ASSUME NEW e \in Events PROVE PaidFor(e)'
  <2>1. Retriers(e)' \subseteq Retriers(e)
        BY <1>1 DEF Retriers, TypeOK
  <2>2. Cardinality(Retriers(e)') \in Nat /\ Cardinality(Retriers(e)') <= Cardinality(Retriers(e))
        BY <2>1, SpentType, FS_Subset, FS_CardinalityType
  <2>3. Spent(e)' <= Spent(e) /\ Spent(e)' \in Nat
        BY <1>1, <2>2, SpentType DEF Spent
  <2>4. outbox[e].status \in {"pending", "claimed"} => Spent(e)' <= faults + 1
        BY <1>2, <2>3, SpentType DEF PaidFor, FaultInv
  <2> QED BY <1>1, <1>2, <2>3, <2>4 DEF PaidFor
<1>4. GivenUpAfterMaxAttempts'
      BY <1>1, <1>2, RelayAssumption DEF FaultInv, GivenUpAfterMaxAttempts
<1>5. \A q \in Relays : batch'[q] \subseteq batch[q]
      BY <1>1 DEF TypeOK
<1>6. \A q \in Relays : \A c \in batch'[q] : c.attempt <= faults' + 1
      BY <1>1, <1>2, <1>5 DEF FaultInv, TypeOK, Claims
<1>7. \A q \in Relays : pc'[q] \in {"claim", "reconcile"} => batch'[q] = {}
      BY <1>1, <1>5 DEF FaultInv, TypeOK
<1> QED BY <1>3, <1>4, <1>6, <1>7 DEF FaultInv

\* A lease runs out at the expense of a failure: that of the relay that was lost
\* or that of the relay that is late.
LEMMA TimePaidFor ==
    ASSUME TypeOK, FaultInv, NEW d \in Events, LeaseExpires(d) \/ BecomesDue(d)
    PROVE  FaultInv'
<1>1. /\ UNCHANGED <<pc, batch, current>>
      /\ faults \in Nat /\ faults' \in {faults, faults + 1}
      /\ \A e \in Events : /\ outbox'[e].status = outbox[e].status
                           /\ outbox'[e].attempts = outbox[e].attempts
      BY DEF LeaseExpires, BecomesDue, relays, TypeOK, OutboxRows
<1>2. \A e \in Events : Spent(e)' = Spent(e)
  <2>1. \A e \in Events : Retriers(e)' = Retriers(e)
        BY <1>1 DEF Retriers
  <2> QED BY <1>1, <2>1 DEF Spent
<1>3. \A q \in Relays, e \in Events : Working(q, e)' <=> Working(q, e)
      BY <1>1 DEF Working
<1>4. ASSUME NEW e \in Events PROVE PaidFor(e)'
  <2>1. CASE outbox'[e].lease = outbox[e].lease
        BY <1>1, <1>2, <1>3, <2>1, SpentType DEF PaidFor, FaultInv
  <2>2. CASE outbox'[e].lease # outbox[e].lease
    <3>1. /\ e = d /\ outbox[e].status = "claimed"
          /\ faults' = faults + 1 \/ \A q \in Relays : ~Working(q, e)
          BY <2>2 DEF LeaseExpires, BecomesDue, TypeOK, OutboxRows
    <3>2. Spent(e) <= faults'
          BY <1>1, <3>1, SpentType DEF PaidFor, FaultInv
    <3> QED BY <1>1, <1>2, <3>1, <3>2, SpentType DEF PaidFor
  <2> QED BY <2>1, <2>2
<1>5. GivenUpAfterMaxAttempts'
      BY <1>1, RelayAssumption DEF FaultInv, GivenUpAfterMaxAttempts
<1>6. \A q \in Relays : \A c \in batch[q] : c.attempt <= faults' + 1
      BY <1>1 DEF FaultInv, TypeOK, Claims
<1> QED BY <1>1, <1>4, <1>5, <1>6 DEF FaultInv

\* At the start nothing is charged.
LEMMA InitPaidFor == Init => FaultInv
<1> SUFFICES ASSUME Init PROVE FaultInv
    OBVIOUS
<1>1. ASSUME NEW e \in Events PROVE PaidFor(e)
  <2>1. Retriers(e) = {}
        BY DEF Init, Retriers
  <2>2. Spent(e) = 0
        BY <2>1, FS_EmptySet DEF Init, Spent, PendingRow
  <2> QED BY <2>2 DEF Init, PaidFor, PendingRow
<1> QED BY <1>1 DEF Init, FaultInv, GivenUpAfterMaxAttempts, PendingRow

\* A supported event is dead-lettered only after MaxAttempts failures.
THEOREM GivenUpOnlyAfterMaxAttempts == Spec => []GivenUpAfterMaxAttempts
<1>1. TypeOK /\ AcceptInv /\ FaultInv /\ [Next]_vars => FaultInv'
  <2> SUFFICES ASSUME TypeOK, AcceptInv, FaultInv, [Next]_vars PROVE FaultInv'
      OBVIOUS
  <2>1. CASE UNCHANGED vars
        BY <2>1 DEF vars, FaultInv, PaidFor, Spent, Retriers, Working,
           GivenUpAfterMaxAttempts
  <2>2. ASSUME NEW r \in Relays, Run(r) PROVE FaultInv'
        BY <2>2, ClaimPaidFor, DeadLetterPaidFor, PublishPaidFor, MarkPaidFor,
           RetryPaidFor, RowWritesPaidFor DEF Run
  <2> QED BY <2>1, <2>2, AbandonPaidFor, TimePaidFor DEF Next
<1>2. FaultInv => GivenUpAfterMaxAttempts
      BY DEF FaultInv
<1> QED BY <1>1, <1>2, InitPaidFor, AcceptInvariant, PTL DEF Spec

=============================================================================

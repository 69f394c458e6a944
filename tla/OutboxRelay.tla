---------------------------- MODULE OutboxRelay -----------------------------
(***************************************************************************)
(* The transactional outbox relay: every worker process runs one poll loop *)
(* that claims a batch of outbox_event rows under a lease, publishes each  *)
(* to BullMQ, marks it processed and creates its background_job row, then  *)
(* creates the rows an earlier batch left out.  Relays run concurrently on *)
(* one table; a relay may die or have a database call fail at any point, a *)
(* publication may fail or be accepted with its answer lost, and a lease   *)
(* may run out under a relay that is still working through its batch.      *)
(*                                                                         *)
(* available_at is compared with the clock only, so a row is due or not;   *)
(* the order by available_at among due rows is left open.  A queue job has *)
(* a deterministic id and is never removed, so the queue is the set of the *)
(* events it has accepted.  Processors change job rows but never delete    *)
(* them, so the relay needs only to know which rows exist.                 *)
(***************************************************************************)
EXTENDS Naturals, FiniteSets

CONSTANTS
    Events,         \* outbox_event rows
    Unsupported,    \* events whose type is mapped to no job type
    NoEvent,        \* a relay between two events
    Relays,         \* poll loops, one per worker process
    BatchLimit,     \* OUTBOX_RELAY_BATCH_LIMIT, already clamped
    MaxAttempts,    \* OUTBOX_RELAY_MAX_ATTEMPTS
    MaxFaults       \* bound on failed publications, lost relays and overrun leases

ASSUME RelayAssumption ==
    /\ IsFiniteSet(Relays)
    /\ IsFiniteSet(Events)
    /\ Unsupported \subseteq Events
    /\ NoEvent \notin Events
    /\ BatchLimit \in Nat \ {0}
    /\ MaxAttempts \in Nat
    /\ MaxFaults \in Nat

VARIABLES
    outbox,     \* outbox_event rows
    accepted,   \* events whose job BullMQ holds
    jobRows,    \* events with a background_job row
    pc,         \* the next statement of a relay
    batch,      \* claimed events a relay has still to relay
    current,    \* the event between a relay's publication and its last write
    awaiting,   \* processed events a relay found without a job row
    faults      \* adverse events so far

relays == <<pc, batch, current, awaiting>>
vars == <<outbox, accepted, jobRows, pc, batch, current, awaiting, faults>>

-----------------------------------------------------------------------------
\* failed exists in the enum and no code path writes it.
OutboxStatuses == {"pending", "claimed", "processed", "dead_lettered"}

OutboxRows == [status : OutboxStatuses, due : BOOLEAN,
               lease : {"none", "live", "expired"}, attempts : Nat]

\* The row the domain transaction inserts, available at once.
PendingRow == [status |-> "pending", due |-> TRUE, lease |-> "none", attempts |-> 0]

\* What claimDueBatch returns of a row.
Claims == [event : Events, attempt : Nat]

Steps == {"claim", "relay", "mark", "retry", "enqueue", "reconcile"}

TypeOK ==
    /\ outbox \in [Events -> OutboxRows]
    /\ \A e \in Events : outbox[e].status = "claimed" => outbox[e].lease # "none"
    /\ accepted \subseteq Events
    /\ jobRows \subseteq Events
    /\ pc \in [Relays -> Steps]
    /\ batch \in [Relays -> SUBSET Claims]
    /\ current \in [Relays -> Events \cup {NoEvent}]
    /\ \A r \in Relays : pc[r] \in {"mark", "retry", "enqueue"} <=> current[r] # NoEvent
    /\ awaiting \in [Relays -> SUBSET Events]
    /\ faults \in 0..MaxFaults

Init ==
    /\ outbox = [e \in Events |-> PendingRow]
    /\ accepted = {}
    /\ jobRows = {}
    /\ pc = [r \in Relays |-> "claim"]
    /\ batch = [r \in Relays |-> {}]
    /\ current = [r \in Relays |-> NoEvent]
    /\ awaiting = [r \in Relays |-> {}]
    /\ faults = 0

-----------------------------------------------------------------------------
(* The conditional UPDATEs of PrismaOutboxRelayPersistence.  None of them  *)
(* names the claim it settles: the status alone decides.                   *)

\* Mutant: rows left claimed by a lost relay are never claimed again.
Claimable_pendingOnly(row) == row.status = "pending" /\ row.due

Claimable(row) ==
    \/ row.status = "pending" /\ row.due
    \/ row.status = "claimed" /\ row.lease = "expired"

claimRow(row) ==
    [status |-> "claimed", due |-> row.due, lease |-> "live", attempts |-> row.attempts + 1]

\* The lease columns keep their values.
markProcessedAfterQueueAcceptance(row) ==
    IF row.status = "claimed" THEN [row EXCEPT !.status = "processed"] ELSE row

markRetryableDeliveryFailure(row) ==
    IF row.status = "claimed"
      THEN [row EXCEPT !.status = "pending", !.due = FALSE, !.lease = "none"]
      ELSE row

markDeadLetter(row) ==
    IF row.status \in {"claimed", "pending"}
      THEN [row EXCEPT !.status = "dead_lettered", !.lease = "none"]
      ELSE row

-----------------------------------------------------------------------------
(* One batch of a relay.                                                   *)

Goto(r, step) == pc' = [pc EXCEPT ![r] = step]

\* The rows a claim may select: due pending rows first, expired claims in the
\* room they leave, up to the limit.
BatchOf(S) ==
    LET due == {e \in Events : Claimable(outbox[e]) /\ outbox[e].status = "pending"}
        lapsed == {e \in Events : Claimable(outbox[e]) /\ outbox[e].status = "claimed"}
    IN  /\ S \subseteq due \cup lapsed
        /\ Cardinality(S) <= BatchLimit
        /\ S # due \cup lapsed => Cardinality(S) = BatchLimit
        /\ S \cap lapsed # {} => due \subseteq S

\* claimDueBatch, one transaction; concurrent ones skip each other's rows.
ClaimDueBatch(r) ==
    /\ pc[r] = "claim"
    /\ \E S \in SUBSET Events :
         /\ BatchOf(S)
         /\ outbox' = [e \in Events |-> IF e \in S THEN claimRow(outbox[e]) ELSE outbox[e]]
         /\ batch' = [batch EXCEPT
                        ![r] = {[event |-> e, attempt |-> outbox[e].attempts + 1] : e \in S}]
    /\ Goto(r, "relay")
    /\ UNCHANGED <<accepted, jobRows, current, awaiting, faults>>

\* Mutant: the last attempt is already one too many.
Exhausted_early(c) == c.attempt >= MaxAttempts

\* The attempt count the claim returned exceeds the maximum.
Exhausted(c) == c.attempt > MaxAttempts

\* Poison: no job type, or too many attempts.
DeadLetter(r) ==
    /\ pc[r] = "relay"
    /\ \E c \in batch[r] :
         /\ c.event \in Unsupported \/ Exhausted(c)
         /\ outbox' = [outbox EXCEPT ![c.event] = markDeadLetter(@)]
         /\ batch' = [batch EXCEPT ![r] = @ \ {c}]
    /\ UNCHANGED <<accepted, jobRows, pc, current, awaiting, faults>>

\* Mutant: a publication that failed is followed up like one that succeeded.
AfterPublish_ignoresFailure(ok) == "mark"

AfterPublish(ok) == IF ok THEN "mark" ELSE "retry"

\* queue.publish.  A job that exists already counts as published; a failed
\* call may have reached Redis before its answer was lost.
Publish(r) ==
    /\ pc[r] = "relay"
    /\ \E c \in batch[r] :
         /\ c.event \notin Unsupported /\ ~Exhausted(c)
         /\ batch' = [batch EXCEPT ![r] = @ \ {c}]
         /\ current' = [current EXCEPT ![r] = c.event]
         /\ \/ /\ accepted' = accepted \cup {c.event}
               /\ Goto(r, AfterPublish(TRUE))
               /\ UNCHANGED faults
            \/ /\ faults < MaxFaults
               /\ faults' = faults + 1
               /\ accepted' \in {accepted, accepted \cup {c.event}}
               /\ Goto(r, AfterPublish(FALSE))
    /\ UNCHANGED <<outbox, jobRows, awaiting>>

\* Only the update that changed the row goes on to create the job row.
MarkProcessed(r) ==
    /\ pc[r] = "mark"
    /\ LET e == current[r] IN
         /\ outbox' = [outbox EXCEPT ![e] = markProcessedAfterQueueAcceptance(@)]
         /\ IF outbox[e].status = "claimed"
              THEN Goto(r, "enqueue") /\ UNCHANGED current
              ELSE Goto(r, "relay") /\ current' = [current EXCEPT ![r] = NoEvent]
    /\ UNCHANGED <<accepted, jobRows, batch, awaiting, faults>>

MarkRetryable(r) ==
    /\ pc[r] = "retry"
    /\ outbox' = [outbox EXCEPT ![current[r]] = markRetryableDeliveryFailure(@)]
    /\ current' = [current EXCEPT ![r] = NoEvent]
    /\ Goto(r, "relay")
    /\ UNCHANGED <<accepted, jobRows, batch, awaiting, faults>>

\* enqueueQueued after the event was marked; an existing row is reused.
Enqueue(r) ==
    /\ pc[r] = "enqueue"
    /\ jobRows' = jobRows \cup {current[r]}
    /\ current' = [current EXCEPT ![r] = NoEvent]
    /\ Goto(r, "relay")
    /\ UNCHANGED <<outbox, accepted, batch, awaiting, faults>>

\* Mutant: the sweep looks at claimed events as well.
Awaits_claimed(e) == outbox[e].status \in {"claimed", "processed"} /\ e \notin jobRows

\* Mutant: the sweep finds nothing.
Awaits_never(e) == FALSE

\* The WHERE clause of listProcessedAwaitingBackgroundJob.
Awaits(e) == outbox[e].status = "processed" /\ e \notin jobRows

ListProcessedAwaiting(r) ==
    /\ pc[r] = "relay"
    /\ batch[r] = {}
    /\ LET rowless == {e \in Events : Awaits(e)} IN
       \E S \in SUBSET rowless :
         /\ Cardinality(S) <= BatchLimit
         /\ S # rowless => Cardinality(S) = BatchLimit
         /\ awaiting' = [awaiting EXCEPT ![r] = S]
    /\ Goto(r, "reconcile")
    /\ UNCHANGED <<outbox, accepted, jobRows, batch, current, faults>>

Reconcile(r) ==
    /\ pc[r] = "reconcile"
    /\ \E e \in awaiting[r] :
         /\ awaiting' = [awaiting EXCEPT ![r] = @ \ {e}]
         /\ jobRows' = IF e \in Unsupported THEN jobRows ELSE jobRows \cup {e}
    /\ UNCHANGED <<outbox, accepted, pc, batch, current, faults>>

\* The batch resolves and the loop waits for the next poll.
BatchDone(r) ==
    /\ pc[r] = "reconcile"
    /\ awaiting[r] = {}
    /\ Goto(r, "claim")
    /\ UNCHANGED <<outbox, accepted, jobRows, batch, current, awaiting, faults>>

-----------------------------------------------------------------------------
(* Failures and time.                                                      *)

\* The process dies, or a database call throws (before its effect or with its
\* answer lost): runLoop forgets the batch and polls again.
Abandon(r) ==
    /\ pc[r] # "claim"
    /\ faults < MaxFaults
    /\ faults' = faults + 1
    /\ Goto(r, "claim")
    /\ batch' = [batch EXCEPT ![r] = {}]
    /\ current' = [current EXCEPT ![r] = NoEvent]
    /\ awaiting' = [awaiting EXCEPT ![r] = {}]
    /\ UNCHANGED <<outbox, accepted, jobRows>>

\* r has claimed e and has not finished with it.
Working(r, e) == current[r] = e \/ \E c \in batch[r] : c.event = e

\* The clock passes lease_expires_at, of an abandoned claim or, a fault, of
\* one whose relay is still busy.
LeaseExpires(e) ==
    /\ outbox[e].status = "claimed" /\ outbox[e].lease = "live"
    /\ \/ /\ \A r \in Relays : ~Working(r, e)
          /\ UNCHANGED faults
       \/ /\ \E r \in Relays : Working(r, e)
          /\ faults < MaxFaults
          /\ faults' = faults + 1
    /\ outbox' = [outbox EXCEPT ![e].lease = "expired"]
    /\ UNCHANGED <<accepted, jobRows, relays>>

\* The clock reaches the backed-off available_at.
BecomesDue(e) ==
    /\ outbox[e].status = "pending" /\ ~outbox[e].due
    /\ outbox' = [outbox EXCEPT ![e].due = TRUE]
    /\ UNCHANGED <<accepted, jobRows, relays, faults>>

-----------------------------------------------------------------------------
Run(r) ==
    \/ ClaimDueBatch(r) \/ DeadLetter(r) \/ Publish(r) \/ MarkProcessed(r)
    \/ MarkRetryable(r) \/ Enqueue(r) \/ ListProcessedAwaiting(r)
    \/ Reconcile(r) \/ BatchDone(r)

Next ==
    \/ \E r \in Relays : Run(r) \/ Abandon(r)
    \/ \E e \in Events : LeaseExpires(e) \/ BecomesDue(e)

Spec == Init /\ [][Next]_vars

\* Poll loops run and clocks advance; failures are never obliged to happen.
Fairness ==
    /\ \A r \in Relays : WF_vars(Run(r))
    /\ \A e \in Events :
         /\ WF_vars(LeaseExpires(e) /\ UNCHANGED faults)
         /\ WF_vars(BecomesDue(e))

FairSpec == Spec /\ Fairness

-----------------------------------------------------------------------------
Delivery == INSTANCE OutboxDelivery WITH delivered <- accepted, rowed <- jobRows

\* Whatever relays do to each other's claims, the queue and the job rows only
\* change as the processors rely on: a row appears after its queue job.
ImplementsDelivery == Delivery!DSpec

\* processed means that BullMQ accepted the job, and only processed events have
\* a job row, although any relay may mark a row that another one has claimed.
ProcessedWasAccepted ==
    \A e \in Events :
      /\ outbox[e].status = "processed" => e \in accepted
      /\ e \in jobRows => outbox[e].status = "processed"

\* An event that is processed or dead-lettered stays so: a late relay that
\* still holds an older claim never puts it back in circulation.
SettledEventIsFinal ==
    [][\A e \in Events :
         outbox[e].status \in {"processed", "dead_lettered"} => outbox'[e] = outbox[e]
      ]_outbox

\* An event the relay supports is given up only after MaxAttempts failures
\* (publications, lost relays, overrun leases), whatever the interleaving.
GivenUpAfterMaxAttempts ==
    \A e \in Events \ Unsupported :
      outbox[e].status = "dead_lettered" => faults >= MaxAttempts

\* Every event is eventually out of the backlog: dead-lettered, or processed
\* with its job row, which the sweep creates if the publishing relay did not.
EventuallyRelayed ==
    \A e \in Events :
      <>[](\/ outbox[e].status = "dead_lettered"
           \/ outbox[e].status = "processed" /\ e \in jobRows)

\* A job BullMQ accepted eventually has the row its processor looks up, unless
\* relays and queue fail as often as the event may be tried.
AcceptedGetsRow ==
    \A e \in Events : e \in accepted ~> (e \in jobRows \/ faults >= MaxAttempts)

=============================================================================

--------------------------- MODULE OutboxDelivery ---------------------------
(***************************************************************************)
(* What the outbox relay promises to the processors of the queue, whatever *)
(* relays do concurrently and wherever they fail: a queue job is accepted  *)
(* once per event and never withdrawn, and the background_job row of an    *)
(* event is created once, after its queue job was accepted.  Nothing       *)
(* obliges the row to exist when the job is first delivered, and nothing   *)
(* is ever delivered for an event type without a job type.                 *)
(***************************************************************************)
CONSTANTS
    Events,         \* outbox events
    Unsupported     \* events whose type is mapped to no job type

VARIABLES
    delivered,      \* events with a queue job
    rowed           \* events with a background_job row

DInit == delivered = {} /\ rowed = {}

\* BullMQ accepts the job of an event.
Accept(e) ==
    /\ e \in Events \ (Unsupported \cup delivered)
    /\ delivered' = delivered \cup {e}
    /\ UNCHANGED rowed

\* The row the processor looks the delivery up by.
CreateRow(e) ==
    /\ e \in delivered \ rowed
    /\ rowed' = rowed \cup {e}
    /\ UNCHANGED delivered

DNext == \E e \in Events : Accept(e) \/ CreateRow(e)

DSpec == DInit /\ [][DNext]_<<delivered, rowed>>

=============================================================================

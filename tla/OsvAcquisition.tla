--------------------------- MODULE OsvAcquisition ---------------------------
(* The acquisition of OSV advisories into a candidate catalog generation    *)
(* (packages/vulnerability-intelligence/src/osv/orchestration), with the    *)
(* attachment service that keeps object storage and PostgreSQL together     *)
(* (osv/storage/attachment-service.ts), the repositories behind it          *)
(* (packages/database/src/osv-acquisition-persistence.ts) and the operator's*)
(* activation of a ready generation.                                        *)
(*                                                                          *)
(* An item is an object of the provider at one provider generation.  Its    *)
(* advisory body has one snapshot row, shared by all catalog generations;   *)
(* the identifier of the snapshot, and of everything derived from it, is a  *)
(* hash of the catalog generation that wrote it first: `owner'.             *)
EXTENDS Naturals, Sequences, FiniteSets, SequencesExt

CONSTANTS
    Catalogs,       \* candidate catalog generations
    Items,          \* listed provider objects, each at one generation
    Eligible,       \* the items whose source may be retrieved
    Review,         \* the items that need a legal review first
    Bodies,         \* advisory bodies, told apart by their SHA-256
    Malformed,      \* the bodies the schema rejects
    BodyOf,         \* the body the provider keeps for an item
    Listings,       \* the inventories an invocation may be given, in plan order
    Comparable,     \* the listings claimed to be complete and comparable
    Invocations,    \* concurrent calls of processBoundedCandidateGeneration
    Requests,       \* activation requests, by their identifier
    None,
    MaxStarts,      \* bound: invocations started
    MaxFaults       \* bound: crashes, aborts and failures of a call

ASSUME SetsAssumption == /\ Eligible \subseteq Items
                         /\ Review \subseteq Items \ Eligible
                         /\ Malformed \subseteq Bodies
                         /\ BodyOf \in [Items -> Bodies]
                         /\ Listings \subseteq Seq(Items)
                         /\ \A s \in Listings : IsInjective(s)
                         /\ Comparable \subseteq Listings
                         /\ None \notin Catalogs \cup Bodies
ASSUME BoundsAssumption == MaxStarts \in Nat /\ MaxFaults \in Nat

VARIABLES
    gen,            \* osv_catalog_generation: lifecycle state and version
    row,            \* osv_provider_body_snapshot with its osv_object_attachment
    temp,           \* temporary body objects, one per catalog and item
    final,          \* body objects under their hash
    document,       \* is the parsed document stored under its hash?
    attempts,       \* osv_parser_attempt: results of a snapshot, by ordinal
    revision,       \* osv_parsed_advisory_revision
    member,         \* osv_catalog_membership
    listed,         \* osv_inventory_object_observation
    quarantine,     \* osv_quarantine_record
    recon,          \* osv_reconciliation: the items counted when frozen
    pointer,        \* osv_active_catalog_pointer
    asked,          \* what the operator's activation request was built from
    history,        \* osv_activation_record
    inv,            \* the memory of an invocation
    starts, faults

storage == <<temp, final, document>>
parsed == <<attempts, revision, member>>
records == <<listed, quarantine, recon>>
activation == <<pointer, asked, history>>
bounds == <<starts, faults>>
vars == <<gen, row, storage, parsed, records, activation, inv, bounds>>

Pairs == Catalogs \X Items
Lifecycle == {"absent", "planned", "acquiring", "ready_for_activation", "active",
              "superseded", "cancelled"}
Frozen == {"ready_for_activation", "active", "superseded"}
Results == {"succeeded", "retryable", "permanent"}

AbsentRow == [owner |-> None, state |-> "absent", body |-> None]
AbsentGeneration == [state |-> "absent", version |-> 0]

\* How far an item came: 0, body attached, parsed, revision, membership.
Attached == 1
Parsed == 2
Revised == 3
Member == 4

Idle == [pc |-> "off", cat |-> None, listing |-> <<>>, list |-> <<>>,
         copy |-> AbsentGeneration, seen |-> AbsentRow, body |-> None,
         via |-> "attach", n |-> 0, resumed |-> FALSE,
         level |-> [i \in Items |-> 0], bad |-> {}, cancelled |-> FALSE,
         aborted |-> FALSE]

Init == /\ gen = [c \in Catalogs |-> AbsentGeneration]
        /\ row = [i \in Items |-> AbsentRow]
        /\ temp = {} /\ final = {} /\ document = FALSE
        /\ attempts = [p \in Pairs |-> <<>>]
        /\ revision = {} /\ member = {} /\ listed = {} /\ quarantine = {}
        /\ recon = [c \in Catalogs |-> {}]
        /\ pointer = [cat |-> None, version |-> 1]
        /\ asked = [q \in Requests |-> [cat |-> None, version |-> 0]]
        /\ history = {}
        /\ inv = [v \in Invocations |-> Idle]
        /\ starts = 0 /\ faults = 0

-----------------------------------------------------------------------------
(* The memory of an invocation.                                            *)

Cat(v) == inv[v].cat
Item(v) == Head(inv[v].list)
Own(v) == <<Cat(v), Item(v)>>
At(v, pcs) == inv[v].pc \in pcs

Goto(v, pc) == inv' = [inv EXCEPT ![v].pc = pc]

\* The item ends, having come as far as k; the next one of the plan follows.
EndedIn(v, k, quarantined) ==
    inv' = [inv EXCEPT ![v] = [inv[v] EXCEPT !.pc = "item", !.list = Tail(inv[v].list),
              !.level[Item(v)] = k, !.bad = inv[v].bad \cup quarantined, !.n = 0,
              !.resumed = FALSE, !.body = None, !.seen = AbsentRow, !.via = "attach"]]
Ended(v, k) == EndedIn(v, k, {})

\* A cancelled item cancels the rest of the plan.
Cancelled(v) == inv' = [inv EXCEPT ![v].pc = "item", ![v].list = <<>>,
                                   ![v].cancelled = TRUE]

Fault == faults < MaxFaults /\ faults' = faults + 1 /\ UNCHANGED starts

-----------------------------------------------------------------------------
(* processRequest: the candidate generation.                               *)

createPlanned(v, c, s) ==
    /\ At(v, {"off"}) /\ starts < MaxStarts
    /\ starts' = starts + 1
    /\ gen' = IF gen[c].state = "absent"
              THEN [gen EXCEPT ![c] = [state |-> "planned", version |-> 1]] ELSE gen
    /\ inv' = [inv EXCEPT ![v] = [Idle EXCEPT !.pc = "begun", !.cat = c,
                                              !.listing = s, !.list = s]]
    /\ UNCHANGED <<row, storage, parsed, records, activation, faults>>

\* An active or superseded generation takes no further work.
startAcquiring(v) ==
    /\ At(v, {"begun"})
    /\ LET g == IF gen[Cat(v)].state = "planned"
                THEN [state |-> "acquiring", version |-> gen[Cat(v)].version + 1]
                ELSE gen[Cat(v)]
       IN /\ gen' = [gen EXCEPT ![Cat(v)] = g]
          /\ inv' = IF g.state \in {"active", "superseded"}
                    THEN [inv EXCEPT ![v] = Idle]
                    ELSE [inv EXCEPT ![v].pc = "item", ![v].copy = g]
    /\ UNCHANGED <<row, storage, parsed, records, activation, bounds>>

-----------------------------------------------------------------------------
(* processItem: classification and the body.                               *)

Working(v) == At(v, {"item"}) /\ inv[v].list # <<>>

StopItems(v) ==
    /\ Working(v) /\ inv[v].aborted
    /\ Cancelled(v)
    /\ UNCHANGED <<gen, row, storage, parsed, records, activation, bounds>>

SkipItem(v) ==
    /\ Working(v) /\ ~inv[v].aborted
    /\ \/ Item(v) \in Review /\ Goto(v, "quarantine")
       \/ Item(v) \notin Eligible \cup Review /\ Ended(v, 0)
    /\ UNCHANGED <<gen, row, storage, parsed, records, activation, bounds>>

\* A row that was rejected cannot be mapped: loading it fails like an absent one.
loadByGeneration(v) ==
    /\ Working(v) /\ ~inv[v].aborted /\ Item(v) \in Eligible
    /\ inv' = [inv EXCEPT ![v].seen = row[Item(v)], ![v].body = row[Item(v)].body,
                          ![v].pc = CASE row[Item(v)].state = "attached" -> "read"
                                      [] row[Item(v)].state = "staged" -> "recover"
                                      [] OTHER -> "retrieve"]
    /\ UNCHANGED <<gen, row, storage, parsed, records, activation, bounds>>

recoverProviderBody(v) ==
    /\ At(v, {"recover"})
    /\ LET r == row[Item(v)]
       IN inv' = [inv EXCEPT ![v].via = IF r.state = "staged" THEN "recover" ELSE "attach",
                             ![v].pc = CASE r.state = "attached" -> "read"
                                         [] r.state = "staged" -> "probe"
                                         [] OTHER -> "retrieve"]
    /\ UNCHANGED <<gen, row, storage, parsed, records, activation, bounds>>

\* The provider may serve another body for the generation: that is a fault.
retrieveGenerationBoundObject(v) ==
    /\ At(v, {"retrieve"}) /\ ~inv[v].aborted
    /\ \E b \in Bodies :
         /\ IF b = BodyOf[Item(v)] THEN UNCHANGED bounds ELSE Fault
         /\ inv' = [inv EXCEPT ![v].body = b, ![v].pc = "retrieved", ![v].via = "attach"]
    /\ UNCHANGED <<gen, row, storage, parsed, records, activation>>

\* Mismatched, partial and oversized bodies are quarantined.
RetrievalFails(v) ==
    /\ At(v, {"retrieve"}) /\ ~inv[v].aborted /\ Fault
    /\ Ended(v, 0) \/ Goto(v, "quarantine")
    /\ UNCHANGED <<gen, row, storage, parsed, records, activation>>

CancelItem(v) ==
    /\ At(v, {"retrieve", "retrieved"}) /\ inv[v].aborted
    /\ Cancelled(v)
    /\ UNCHANGED <<gen, row, storage, parsed, records, activation, bounds>>

-----------------------------------------------------------------------------
(* attachProviderBody and recoverProviderBody: a staged row, a temporary    *)
(* object, its copy under the hash, the attached row, the clean-up.  The    *)
(* bytes of a temporary object are those of the row it was written for.     *)

Slot(v) == IF inv[v].via = "attach" THEN Own(v) ELSE <<row[Item(v)].owner, Item(v)>>

\* A recovery that fails is not the end of the item: the body is retrieved again.
NotAttached(v) == IF inv[v].via = "attach" THEN Ended(v, 0)
                  ELSE inv' = [inv EXCEPT ![v].pc = "retrieve", ![v].via = "attach"]

HasBody(v) == IF inv[v].via = "recover" THEN Goto(v, "read")
              ELSE IF inv[v].aborted THEN Cancelled(v) ELSE Goto(v, "inspect")

stageSnapshot(v) ==
    /\ At(v, {"retrieved"}) /\ ~inv[v].aborted
    /\ LET r == row[Item(v)]
       IN \/ /\ r.state = "absent"
             /\ row' = [row EXCEPT ![Item(v)] = [owner |-> Cat(v), state |-> "staged",
                                                 body |-> inv[v].body]]
             /\ Goto(v, "put")
          \/ /\ r.state \in {"staged", "attached"}
             /\ Goto(v, IF r.body = inv[v].body THEN "probe" ELSE "quarantine")
             /\ UNCHANGED row
          \/ r.state = "rejected" /\ Ended(v, 0) /\ UNCHANGED row
    /\ UNCHANGED <<gen, storage, parsed, records, activation, bounds>>

\* Mutant: a row that is already there vouches for its object.
Found_trusting(v) == inv[v].via = "attach" \/ inv[v].body \in final

Found(v) == inv[v].body \in final

probeFinal(v) ==
    /\ At(v, {"probe"})
    /\ Goto(v, CASE Found(v) -> "adopt"
                 [] ~Found(v) /\ inv[v].via = "attach" -> "put"
                 [] OTHER -> "probeTemp")
    /\ UNCHANGED <<gen, row, storage, parsed, records, activation, bounds>>

probeTemporary(v) ==
    /\ At(v, {"probeTemp"})
    /\ IF Slot(v) \in temp THEN Goto(v, "copy") ELSE NotAttached(v)
    /\ UNCHANGED <<gen, row, storage, parsed, records, activation, bounds>>

writeOnceAndVerify(v) ==
    /\ At(v, {"put"})
    /\ temp' = temp \cup {Own(v)}
    /\ Goto(v, "copy")
    /\ UNCHANGED <<gen, row, final, document, parsed, records, activation, bounds>>

\* The copy finds its source, or a destination that is already there.
promoteAndVerify(v) ==
    /\ At(v, {"copy"})
    /\ IF Slot(v) \in temp \/ Found(v)
       THEN final' = final \cup {inv[v].body} /\ Goto(v, "finalize")
       ELSE NotAttached(v) /\ UNCHANGED final
    /\ UNCHANGED <<gen, row, temp, document, parsed, records, activation, bounds>>

finalizeAttachment(v) ==
    /\ At(v, {"finalize", "adopt"})
    /\ LET r == row[Item(v)]
       IN \/ /\ r.state \in {"staged", "attached"}
             /\ row' = [row EXCEPT ![Item(v)].state = "attached"]
             /\ IF inv[v].pc = "finalize" THEN Goto(v, "delete") ELSE HasBody(v)
          \/ r.state = "rejected" /\ NotAttached(v) /\ UNCHANGED row
    /\ UNCHANGED <<gen, storage, parsed, records, activation, bounds>>

deleteTemporary(v) ==
    /\ At(v, {"delete"})
    /\ temp' = temp \ {Slot(v)}
    /\ HasBody(v)
    /\ UNCHANGED <<gen, row, final, document, parsed, records, activation, bounds>>

\* The listing gives the object another size than the row that was loaded: the
\* provider changed what it says of one generation, a fault.
ByteCountMismatch(v) ==
    /\ At(v, {"read"}) /\ Fault
    /\ Goto(v, "quarantine")
    /\ UNCHANGED <<gen, row, storage, parsed, records, activation>>

\* The object is read where the row pointed when it was loaded.
Readable(v) == \/ inv[v].seen.state = "attached"
               \/ <<inv[v].seen.owner, Item(v)>> \in temp

readAttachedAdvisoryBody(v) ==
    /\ At(v, {"read"})
    /\ IF Readable(v) THEN Goto(v, "inspect") ELSE Ended(v, Attached)
    /\ UNCHANGED <<gen, row, storage, parsed, records, activation, bounds>>

-----------------------------------------------------------------------------
(* processItem: parser attempts, revision, membership, quarantine.         *)

inspectAttempts(v) ==
    /\ At(v, {"inspect"})
    /\ LET s == attempts[Own(v)]
           success == {k \in DOMAIN s : s[k] = "succeeded"}
       IN \/ success # {} /\ Own(v) \in revision /\ Goto(v, "member")
          \/ /\ success # {} /\ Own(v) \notin revision
             /\ inv' = [inv EXCEPT ![v].pc = "parse", ![v].resumed = TRUE,
                                   ![v].n = CHOOSE k \in success : TRUE]
          \/ /\ success = {} /\ (s # <<>> => Last(s) = "retryable")
             /\ inv' = [inv EXCEPT ![v].pc = "parse", ![v].n = Len(s) + 1]
          \/ success = {} /\ s # <<>> /\ Last(s) = "permanent" /\ Ended(v, Attached)
    /\ UNCHANGED <<gen, row, storage, parsed, records, activation, bounds>>

ParseSucceeds(v) ==
    /\ At(v, {"parse"}) /\ inv[v].body \notin Malformed
    /\ Goto(v, "document")
    /\ UNCHANGED <<gen, row, storage, parsed, records, activation, bounds>>

\* Mutant: the snapshot an attempt belongs to need not exist.
Recordable_orphan(v) == inv[v].n = Len(attempts[Own(v)]) + 1

\* (snapshot_id, attempt_number) is unique and the snapshot must exist: it does
\* when this catalog generation was the first to write the row.
Recordable(v) == row[Item(v)].owner = Cat(v) /\ inv[v].n = Len(attempts[Own(v)]) + 1

\* Mutant: the attempt takes the next free number instead of the one inspected.
Recorded_appends(v, result) ==
    IF row[Item(v)].owner = Cat(v) THEN [attempts EXCEPT ![Own(v)] = Append(@, result)]
    ELSE attempts

Recorded(v, result) == IF Recordable(v) THEN [attempts EXCEPT ![Own(v)] = Append(@, result)]
                       ELSE attempts

ParseFails(v, result) ==
    /\ At(v, {"parse"})
    /\ attempts' = IF inv[v].resumed THEN attempts ELSE Recorded(v, result)
    /\ UNCHANGED <<gen, row, storage, revision, member, records, activation>>

\* parserRetryDisposition: a schema failure is quarantined, and so is a body that
\* no longer parses after it did; a cancelled parse cancels; the rest fails.
SchemaFails(v) ==
    /\ ParseFails(v, "permanent") /\ inv[v].body \in Malformed
    /\ Goto(v, "quarantine") /\ UNCHANGED bounds

ParserFails(v, result) ==
    /\ ParseFails(v, result) /\ inv[v].body \notin Malformed /\ ~inv[v].aborted /\ Fault
    /\ IF inv[v].resumed THEN Goto(v, "quarantine") ELSE Ended(v, Attached)

ParseCancelled(v) ==
    /\ ParseFails(v, "permanent") /\ inv[v].aborted
    /\ IF inv[v].resumed THEN Goto(v, "quarantine") ELSE Cancelled(v)
    /\ UNCHANGED bounds

attachParsedDocument(v) ==
    /\ At(v, {"document"})
    /\ document' = TRUE
    /\ Goto(v, IF inv[v].resumed THEN "revise" ELSE "record")
    /\ UNCHANGED <<gen, row, temp, final, parsed, records, activation, bounds>>

recordAttempt(v) ==
    /\ At(v, {"record"})
    /\ attempts' = Recorded(v, "succeeded")
    /\ LET s == attempts'[Own(v)]
       IN IF inv[v].n \in DOMAIN s /\ s[inv[v].n] = "succeeded" THEN Goto(v, "revise")
          ELSE Ended(v, Parsed)
    /\ UNCHANGED <<gen, row, storage, revision, member, records, activation, bounds>>

attachRevision(v) ==
    /\ At(v, {"revise"})
    /\ revision' = revision \cup {Own(v)}
    /\ Goto(v, "member")
    /\ UNCHANGED <<gen, row, storage, attempts, member, records, activation, bounds>>

attachMembership(v) ==
    /\ At(v, {"member"})
    /\ member' = member \cup {Own(v)}
    /\ Ended(v, Member)
    /\ UNCHANGED <<gen, row, storage, attempts, revision, records, activation, bounds>>

\* Whether the record was written is not asked: the item counts as quarantined.
recordQuarantine(v) ==
    /\ At(v, {"quarantine"})
    /\ \/ quarantine' = quarantine \cup {Own(v)} /\ UNCHANGED bounds
       \/ quarantine' = quarantine /\ Fault
    /\ EndedIn(v, 0, {Item(v)})
    /\ UNCHANGED <<gen, row, storage, parsed, listed, recon, activation>>

-----------------------------------------------------------------------------
(* Failures of a call.                                                      *)

\* Storage or the database is unavailable, or a persisted answer is lost.
StoreFails(v) ==
    /\ Fault
    /\ \/ At(v, {"recover", "probe", "probeTemp", "put", "copy", "finalize", "adopt"})
             /\ NotAttached(v)
       \/ At(v, {"retrieved"}) /\ ~inv[v].aborted /\ Ended(v, 0)
       \/ At(v, {"delete"}) /\ HasBody(v)
       \/ At(v, {"read"}) /\ Ended(v, Attached)
       \/ At(v, {"document", "record", "revise"}) /\ Ended(v, Parsed)
       \/ At(v, {"member"}) /\ Ended(v, Revised)
    /\ UNCHANGED <<gen, row, storage, parsed, records, activation>>

\* markRejected: an object that does not verify.  It is asked for the attachment
\* of this catalog generation, which need not be the one of the row.
Rejects(v) == row[Item(v)].state = "staged"
              /\ (inv[v].via = "recover" \/ row[Item(v)].owner = Cat(v))

Misread(v) ==
    /\ At(v, {"probe", "probeTemp", "put", "copy"}) /\ Fault
    /\ row' = IF Rejects(v) THEN [row EXCEPT ![Item(v)].state = "rejected"] ELSE row
    /\ IF inv[v].via = "recover" THEN NotAttached(v) ELSE Goto(v, "quarantine")
    /\ UNCHANGED <<gen, storage, parsed, records, activation>>

-----------------------------------------------------------------------------
(* processRequest: inventory, reconciliation, readiness.                    *)

Listed(v) == Range(inv[v].listing)

\* The answers of createRun and recordObservation are ignored: whichever of the
\* observations were written, the invocation goes on.
persistInventory(v) ==
    /\ At(v, {"item"}) /\ inv[v].list = <<>>
    /\ \E written \in SUBSET Listed(v) :
         /\ IF written = Listed(v) THEN UNCHANGED bounds ELSE Fault
         /\ listed' = listed \cup ({Cat(v)} \X written)
    /\ Goto(v, "reconcile")
    /\ UNCHANGED <<gen, row, storage, parsed, quarantine, recon, activation>>

Count(v, k) == Cardinality({i \in Listed(v) : inv[v].level[i] >= k})

\* Mutant: memberships are not compared with the accepted revisions.
Reconciled_revisions(v) ==
    /\ Count(v, Attached) = Cardinality(Listed(v) \cap Eligible)
    /\ Count(v, Parsed) = Count(v, Attached)
    /\ Count(v, Revised) = Count(v, Parsed)
    /\ inv[v].bad = {}

\* buildReconciliationCounts, reconcileOsvGenerationCounts
Reconciled(v) ==
    /\ Count(v, Attached) = Cardinality(Listed(v) \cap Eligible)
    /\ Count(v, Parsed) = Count(v, Attached)
    /\ Count(v, Revised) = Count(v, Parsed)
    /\ Count(v, Member) = Count(v, Revised)
    /\ inv[v].bad = {}

MayFreeze(v) == /\ ~inv[v].cancelled
                /\ inv[v].listing \in Comparable
                /\ inv[v].copy.state = "acquiring"
                /\ Reconciled(v)

MayCancel(v) == inv[v].cancelled /\ inv[v].copy.state = "acquiring"

\* Mutant: the update names the generation and not the version that was loaded.
Unmoved_anyVersion(v) == TRUE

\* The lifecycle only moves from the version this invocation loaded.
Unmoved(v) == gen[Cat(v)].version = inv[v].copy.version

Moved(v, to) == gen' = [gen EXCEPT ![Cat(v)] = [state |-> to, version |-> @.version + 1]]

freezeReadyGeneration(v) ==
    /\ At(v, {"reconcile"}) /\ MayFreeze(v) /\ Unmoved(v)
    /\ recon' = [recon EXCEPT ![Cat(v)] = Listed(v)]
    /\ Moved(v, "ready_for_activation")
    /\ inv' = [inv EXCEPT ![v] = Idle]
    /\ UNCHANGED <<row, storage, parsed, listed, quarantine, activation, bounds>>

CancelGeneration(v) ==
    /\ At(v, {"reconcile"}) /\ MayCancel(v) /\ Unmoved(v)
    /\ Moved(v, "cancelled")
    /\ inv' = [inv EXCEPT ![v] = Idle]
    /\ UNCHANGED <<row, storage, parsed, records, activation, bounds>>

Return(v) ==
    /\ At(v, {"reconcile"})
    /\ (MayFreeze(v) \/ MayCancel(v)) => ~Unmoved(v)
    /\ inv' = [inv EXCEPT ![v] = Idle]
    /\ UNCHANGED <<gen, row, storage, parsed, records, activation, bounds>>

-----------------------------------------------------------------------------
(* The operator's activation (external) and activateReadyGeneration.        *)

Ask(q, c) ==
    /\ gen[c].state = "ready_for_activation" /\ q \notin history
    /\ asked' = [asked EXCEPT ![q] = [cat |-> c, version |-> pointer.version]]
    /\ asked' # asked
    /\ UNCHANGED <<gen, row, storage, parsed, records, pointer, history, inv, bounds>>

Activatable(q) == /\ q \notin history
                  /\ pointer.version = asked[q].version
                  /\ gen[asked[q].cat].state = "ready_for_activation"
                  /\ ~\E p \in quarantine : p[1] = asked[q].cat

Activated(c) == [d \in Catalogs |->
    CASE d = c -> [state |-> "active", version |-> gen[d].version + 1]
      [] d # c /\ d = pointer.cat -> [state |-> "superseded", version |-> gen[d].version + 1]
      [] OTHER -> gen[d]]

activateReadyGeneration(q) ==
    /\ asked[q].cat # None /\ Activatable(q)
    /\ gen' = Activated(asked[q].cat)
    /\ pointer' = [cat |-> asked[q].cat, version |-> pointer.version + 1]
    /\ history' = history \cup {q}
    /\ UNCHANGED <<row, storage, parsed, records, asked, inv, bounds>>

-----------------------------------------------------------------------------

Abort(v) == /\ inv[v].pc # "off" /\ ~inv[v].aborted /\ Fault
            /\ inv' = [inv EXCEPT ![v].aborted = TRUE]
            /\ UNCHANGED <<gen, row, storage, parsed, records, activation>>

Crash(v) == /\ inv[v].pc # "off" /\ Fault
            /\ inv' = [inv EXCEPT ![v] = Idle]
            /\ UNCHANGED <<gen, row, storage, parsed, records, activation>>

Body(v) == \/ StopItems(v) \/ SkipItem(v) \/ loadByGeneration(v) \/ recoverProviderBody(v)
           \/ retrieveGenerationBoundObject(v) \/ RetrievalFails(v) \/ CancelItem(v)
           \/ stageSnapshot(v) \/ probeFinal(v) \/ probeTemporary(v) \/ writeOnceAndVerify(v)
           \/ promoteAndVerify(v) \/ finalizeAttachment(v) \/ deleteTemporary(v)
           \/ ByteCountMismatch(v) \/ readAttachedAdvisoryBody(v)

Advisory(v) == \/ inspectAttempts(v) \/ ParseSucceeds(v) \/ SchemaFails(v)
               \/ (\E r \in {"retryable", "permanent"} : ParserFails(v, r))
               \/ ParseCancelled(v) \/ attachParsedDocument(v) \/ recordAttempt(v)
               \/ attachRevision(v) \/ attachMembership(v) \/ recordQuarantine(v)

Finish(v) == \/ persistInventory(v) \/ freezeReadyGeneration(v)
             \/ CancelGeneration(v) \/ Return(v)

Next == \/ \E v \in Invocations :
              \/ \E c \in Catalogs, s \in Listings : createPlanned(v, c, s)
              \/ startAcquiring(v) \/ Body(v) \/ Advisory(v) \/ Finish(v)
              \/ StoreFails(v) \/ Misread(v) \/ Abort(v) \/ Crash(v)
        \/ \E q \in Requests : (\E c \in Catalogs : Ask(q, c)) \/ activateReadyGeneration(q)

Spec == Init /\ [][Next]_vars

-----------------------------------------------------------------------------
(* Properties.                                                              *)

Memory == [pc : {"off", "begun", "item", "quarantine", "recover", "retrieve", "retrieved",
                 "probe", "probeTemp", "put", "copy", "finalize", "adopt", "delete", "read",
                 "inspect", "parse", "document", "record", "revise", "member", "reconcile"},
           cat : Catalogs \cup {None}, listing : Listings \cup {<<>>}, list : Seq(Items),
           copy : [state : Lifecycle, version : Nat],
           seen : [owner : Catalogs \cup {None}, body : Bodies \cup {None},
                   state : {"absent", "staged", "attached", "rejected"}],
           body : Bodies \cup {None}, via : {"attach", "recover"}, n : Nat,
           resumed : BOOLEAN, level : [Items -> 0 .. Member], bad : SUBSET Items,
           cancelled : BOOLEAN, aborted : BOOLEAN]

\* Every table and every invocation keeps its shape, and a generation that left
\* the start state has a version to compare and set.
TypeOK ==
    /\ gen \in [Catalogs -> [state : Lifecycle, version : Nat]]
    /\ \A c \in Catalogs : (gen[c].state = "absent") <=> (gen[c].version = 0)
    /\ row \in [Items -> [owner : Catalogs \cup {None}, body : Bodies \cup {None},
                          state : {"absent", "staged", "attached", "rejected"}]]
    /\ temp \subseteq Pairs /\ final \subseteq Bodies /\ document \in BOOLEAN
    /\ attempts \in [Pairs -> Seq(Results)]
    /\ revision \subseteq Pairs /\ member \subseteq Pairs
    /\ listed \subseteq Pairs /\ quarantine \subseteq Pairs
    /\ recon \in [Catalogs -> SUBSET Items]
    /\ pointer \in [cat : Catalogs \cup {None}, version : Nat]
    /\ asked \in [Requests -> [cat : Catalogs \cup {None}, version : Nat]]
    /\ history \subseteq Requests
    /\ inv \in [Invocations -> Memory]
    /\ starts \in 0 .. MaxStarts /\ faults \in 0 .. MaxFaults

\* Object storage and PostgreSQL agree: a snapshot row says `attached' only when the
\* body it names lies under its hash, whatever crash or failure came between the
\* copy and the row (attachProviderBody, recoverProviderBody).
AttachedIsStored == \A i \in Items : row[i].state = "attached" => row[i].body \in final

\* Parser attempts of a snapshot stop at the first success, though two invocations
\* may parse the same body and record under the numbers they inspected.
SuccessIsLast ==
    \A p \in Pairs : \A k \in DOMAIN attempts[p] :
        attempts[p][k] = "succeeded" => k = Len(attempts[p])

\* A revision rests on an attached body and a successful attempt recorded for the
\* very snapshot it belongs to (attachRevision).
RevisionIsBacked ==
    \A p \in revision : /\ row[p[2]].owner = p[1] /\ row[p[2]].state = "attached"
                        /\ document
                        /\ \E k \in DOMAIN attempts[p] : attempts[p][k] = "succeeded"

\* A frozen generation is whole: every eligible item it was reconciled over has its
\* body stored, its revision and its membership, and no item awaited a review,
\* although reconciliation compares the counts of one invocation only and no write
\* to the inventory or the quarantine has to succeed.
ReadyIsWhole ==
    \A c \in Catalogs : gen[c].state \in Frozen =>
        /\ recon[c] \cap Review = {}
        /\ \A i \in recon[c] \cap Eligible :
             /\ row[i].state = "attached" /\ row[i].body \in final
             /\ <<c, i>> \in revision \cap member

Catalog == INSTANCE OsvCatalog WITH state <- [c \in Catalogs |-> gen[c].state],
                                    pointer <- pointer.cat

\* Concurrent invocations, crashes and late activation requests leave the lifecycle
\* of the generations as the catalog promises it: frozen once, published only when
\* frozen, replaced in one step, never back.
ImplementsCatalog == Catalog!Spec
=============================================================================

------------------------- MODULE IngestionLifecycle -------------------------
(***************************************************************************)
(* What SBOM ingestion promises, without deliveries, leases, handlers or   *)
(* versions: every uploaded SBOM moves through its lifecycle, reaches at   *)
(* most one outcome, and the graph, the completion and the pointer of the  *)
(* asset change in one step.  The pointer is defined by what it must be,   *)
(* the newest completed ingestion, and not by how it is maintained.        *)
(***************************************************************************)
EXTENDS Naturals

CONSTANTS Ingestions, Assets, AssetOf, Rank, NoIngestion

VARIABLES
    lifecycle,  \* the state of each ingestion
    stored,     \* how often its graph was stored
    current     \* the ingestion each asset shows

lvars == <<lifecycle, stored, current>>

LInit ==
    /\ lifecycle = [i \in Ingestions |-> "accepted"]
    /\ stored = [i \in Ingestions |-> 0]
    /\ current = [a \in Assets |-> NoIngestion]

Start(i) ==
    /\ lifecycle[i] \in {"accepted", "queued"}
    /\ lifecycle' = [lifecycle EXCEPT ![i] = "processing"]
    /\ UNCHANGED <<stored, current>>

GiveBack(i) ==
    /\ lifecycle[i] = "processing"
    /\ lifecycle' = [lifecycle EXCEPT ![i] = "queued"]
    /\ UNCHANGED <<stored, current>>

Refuse(i) ==
    /\ lifecycle[i] = "processing"
    /\ \E outcome \in {"rejected", "quarantined", "failed"} :
         lifecycle' = [lifecycle EXCEPT ![i] = outcome]
    /\ UNCHANGED <<stored, current>>

\* n is the newest completed ingestion of asset a in the lifecycle l.
IsNewest(n, a, l) ==
    /\ n \in Ingestions /\ AssetOf[n] = a /\ l[n] = "completed"
    /\ \A j \in Ingestions : AssetOf[j] = a /\ l[j] = "completed" => Rank[j] <= Rank[n]

Complete(i) ==
    /\ lifecycle[i] = "processing"
    /\ stored[i] = 0
    /\ lifecycle' = [lifecycle EXCEPT ![i] = "completed"]
    /\ stored' = [stored EXCEPT ![i] = 1]
    /\ \E n \in Ingestions :
         /\ IsNewest(n, AssetOf[i], lifecycle')
         /\ current' = [current EXCEPT ![AssetOf[i]] = n]

LNext == \E i \in Ingestions : Start(i) \/ GiveBack(i) \/ Refuse(i) \/ Complete(i)

LSpec == LInit /\ [][LNext]_lvars

=============================================================================

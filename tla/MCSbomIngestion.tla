-------------------------- MODULE MCSbomIngestion ---------------------------
(* Instances of SbomIngestion for TLC.                                     *)
EXTENDS SbomIngestion, TLC

CONSTANTS i1, i2, h1, h2, h3, p1, p2, a1

\* Two uploads for one asset; i2 was received later.
MCAssetOf == [i \in {i1, i2} |-> a1]
MCRank == i1 :> 1 @@ i2 :> 2

\* One worker process with the concurrency of PATCHPILOT_QUEUE_WORKER_CONCURRENCY.
MCOneProcess == [h \in {h1, h2} |-> p1]

\* Two processes, the first running two handlers under one identifier.
MCTwoProcesses == h1 :> p1 @@ h2 :> p1 @@ h3 :> p2

\* Two processes with a handler each.
MCApart == h1 :> p1 @@ h2 :> p2

\* A single upload.
MCAssetOfOne == [i \in {i1} |-> a1]
MCRankOne == i1 :> 1

\* Handlers of one process are interchangeable.
Symmetry == Permutations({h1, h2})

=============================================================================

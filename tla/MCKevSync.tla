----------------------------- MODULE MCKevSync -----------------------------
EXTENDS KevSync, TLC
CONSTANTS h1, h2, k1, k2, c1, c2
TwoProcesses == (h1 :> k1) @@ (h2 :> k2)
OneProcess == (h1 :> k1) @@ (h2 :> k1)
OlderAndNewer == (c1 :> 1) @@ (c2 :> 2)
OneEntry == (c1 :> 1) @@ (c2 :> 1)
OneRelease == (c1 :> 1)
TwoEntries == (c1 :> 2)
=============================================================================

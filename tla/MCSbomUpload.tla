---------------------------- MODULE MCSbomUpload ----------------------------
(* Instances of SbomUpload for TLC.                                        *)
EXTENDS SbomUpload

CONSTANTS r1, r2, r3, k1, k2, a1, t1, t2, b1, b2

In(k, a, t, b) == [key |-> k, asset |-> a, type |-> t, body |-> b]

\* r1 and r2 share a key and differ in their body; r3 sends the body of r1 under
\* a key of its own.
MCSameKey == [r \in {r1, r2, r3} |->
    CASE r = r1 -> In(k1, a1, t1, b1)
      [] r = r2 -> In(k1, a1, t1, b2)
      [] r = r3 -> In(k2, a1, t1, b1)]

=============================================================================

-------------------------- MODULE MCOsvAcquisition --------------------------
(* Small instances of OsvAcquisition.                                       *)
EXTENDS OsvAcquisition, TLC

CONSTANTS c1, c2, i1, i2, i3, i4, i5, i6, b1, b2, v1, v2, q1, q2

\* i1, i5 and i6 are sound and have the same bytes, i2 needs a review, i3 may not be
\* retrieved and i4 has a malformed body.  Two catalogs over one listing compete for
\* its rows; over different listings both may be frozen.
MCBodyOf == [i \in Items |-> IF i = i4 THEN b2 ELSE b1]

MCListings == {<<i1, i5>>, <<i6, i3>>, <<i2>>, <<i4>>}
MCComparable == MCListings \ {<<i4>>}

MCSymmetry == Permutations(Invocations) \cup Permutations(Requests) \cup Permutations(Catalogs)
=============================================================================

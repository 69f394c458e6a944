--------------------------- MODULE MCOutboxRelay ----------------------------
(* Instances of OutboxRelay for TLC.                                       *)
EXTENDS OutboxRelay, TLC

CONSTANTS e1, e2, e3, r1, r2

\* Relays are interchangeable, and so are the events of a known type.
Symmetry == Permutations({r1, r2}) \cup Permutations({e1, e2})

=============================================================================

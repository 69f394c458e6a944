---------------------------- MODULE MCOsvRuntime ----------------------------
(* Instances of OsvRuntime for TLC. *)
EXTENDS OsvRuntime, TLC

CONSTANTS q1, q2, i1, i2, i3

Symmetry == Permutations(Invocations)
=============================================================================

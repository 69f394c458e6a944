------------------------------ MODULE OsvLease ------------------------------
(***************************************************************************)
(* The single row of osv_runtime_lease_projection as the lease repository  *)
(* (osv-runtime-coordination-persistence.ts) reads and writes it.  A row   *)
(* names the run and the holder it was granted to, a revision that every   *)
(* update raises, a fencing token that every change of ownership raises,   *)
(* and whether its expiry still lies in the future.                        *)
(*                                                                         *)
(* A proof is what an owner keeps of the row it was granted: the same      *)
(* identity, revision and fencing token.                                   *)
(***************************************************************************)
EXTENDS Naturals

LeaseStates == {"absent", "held", "released"}

(* No row yet: the revision and the token start at one with the first insert. *)
AbsentLease(run, holder) ==
    [state |-> "absent", run |-> run, holder |-> holder,
     rev |-> 0, fence |-> 0, live |-> FALSE]

(* What an owner remembers of the row, and what an acquirer read of it. *)
ProofOf(row) == [rev |-> row.rev, fence |-> row.fence]

(* The WHERE clause of the takeover: released, or held and past its expiry. *)
Takeable(row) == row.state # "held" \/ ~row.live

(* INSERT ... ON CONFLICT DO NOTHING, or the compare-and-set UPDATE: the row *)
(* must still be the one that was read.                                      *)
Grantable(row, seen) == Takeable(row) /\ ProofOf(row) = seen

(* Mutant: a takeover keeps the fencing token of the owner it replaces. *)
acquired_unfenced(row, run, holder) ==
    [state |-> "held", run |-> run, holder |-> holder, rev |-> row.rev + 1,
     fence |-> IF row.state = "absent" THEN 1 ELSE row.fence, live |-> TRUE]

(* The new owner starts a new period of ownership. *)
acquired(row, run, holder) ==
    [state |-> "held", run |-> run, holder |-> holder,
     rev |-> row.rev + 1, fence |-> row.fence + 1, live |-> TRUE]

(* inspectOwnership: the row is held for this run by this holder under this *)
(* fencing token, and has not expired.                                      *)
inspectOwnership(row, proof, run, holder) ==
    /\ row.state = "held"
    /\ row.run = run
    /\ row.holder = holder
    /\ row.fence = proof.fence
    /\ row.live

(* The WHERE clause of release also asks for the revision. *)
Releasable(row, proof, run, holder) ==
    inspectOwnership(row, proof, run, holder) /\ row.rev = proof.rev

released(row) ==
    [row EXCEPT !.state = "released", !.rev = @ + 1, !.fence = @ + 1]
=============================================================================

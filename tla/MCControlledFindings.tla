------------------------ MODULE MCControlledFindings ------------------------
(***************************************************************************)
(* Upload 1 holds one affected occurrence and one whose version no          *)
(* evaluation can represent, upload 2 one with a known and one with an      *)
(* unknown version, upload 3 no longer holds the component.                *)
(***************************************************************************)
EXTENDS ControlledFindings, TLC

CONSTANTS o1, w1, o2, u2, a, b, c1, c2

MCOccurrences == {o1, w1, o2, u2}
MCUploadOf == o1 :> 1 @@ w1 :> 1 @@ o2 :> 2 @@ u2 :> 2
MCOutcome == [r \in MCOccurrences \X {a, b} |->
                IF r = <<o2, a>> THEN "unaffected" ELSE "affected"]

Create(upload, E) == [op |-> "create", upload |-> upload, evidence |-> E, unknown |-> {}]
Observe(upload, E, unknown) == [op |-> "observe", upload |-> upload, evidence |-> E, unknown |-> unknown]

MCDemands ==
    {Create(1, {<<o1, a>>}), Create(1, {<<o1, a>>, <<o1, b>>}), Create(2, {<<o1, a>>}),
     Observe(2, {<<o2, a>>}, {u2}), Observe(2, {<<o2, b>>}, {u2}), Observe(2, {<<o2, a>>}, {}),
     Observe(2, {}, {}), Observe(3, {}, {})}

MCSymmetry == Permutations(Calls)
=============================================================================

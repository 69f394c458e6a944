----------------------------- MODULE OsvCatalog -----------------------------
(* What the OSV acquisition promises of its catalog generations: a          *)
(* generation is filled, frozen once and only then published; publishing    *)
(* replaces the published generation in one step; a cancelled or a replaced *)
(* generation never comes back.                                             *)
CONSTANTS Catalogs, None

VARIABLES state, pointer

Init == /\ state = [c \in Catalogs |-> "absent"]
        /\ pointer = None

Step(c, from, to) == /\ state[c] = from
                     /\ state' = [state EXCEPT ![c] = to]
                     /\ UNCHANGED pointer

Plan(c) == Step(c, "absent", "planned")
Fill(c) == Step(c, "planned", "acquiring")
Freeze(c) == Step(c, "acquiring", "ready_for_activation")
Cancel(c) == Step(c, "acquiring", "cancelled")

Publish(c) ==
    /\ state[c] = "ready_for_activation"
    /\ state' = [d \in Catalogs |-> CASE d = c -> "active"
                                      [] d # c /\ d = pointer -> "superseded"
                                      [] OTHER -> state[d]]
    /\ pointer' = c

Next == \E c \in Catalogs : Plan(c) \/ Fill(c) \/ Freeze(c) \/ Cancel(c) \/ Publish(c)

Spec == Init /\ [][Next]_<<state, pointer>>

=============================================================================

--------------------------- MODULE AdvisoryBoard ---------------------------
(***************************************************************************)
(* What the advisory commands promise: one revision per family, recorded   *)
(* by an active user who holds the submission grant at that moment, and    *)
(* one approval of it by another active user who holds the approval grant  *)
(* at that moment.  Nothing recorded is changed.                           *)
(***************************************************************************)

CONSTANTS Users, Families, Contents, None

VARIABLES status,     \* the status of each user
          holds,      \* the authority each user holds now, or None
          revision,   \* the revision of each family, or None
          approval    \* the reviewer who approved it, or None

vars == <<status, holds, revision, approval>>

Revisions == [author : Users, content : Contents]

Init ==
    /\ status \in [Users -> {"active", "disabled"}]
    /\ holds \in [Users -> {"submit", "approve", None}]
    /\ revision = [f \in Families |-> None]
    /\ approval = [f \in Families |-> None]

Entitled(u, authority) == status[u] = "active" /\ holds[u] = authority

Submit(f, rev) ==
    /\ revision[f] = None
    /\ Entitled(rev.author, "submit")
    /\ revision' = [revision EXCEPT ![f] = rev]
    /\ UNCHANGED <<status, holds, approval>>

Approve(f, u) ==
    /\ revision[f] # None
    /\ revision[f].author # u
    /\ approval[f] = None
    /\ Entitled(u, "approve")
    /\ approval' = [approval EXCEPT ![f] = u]
    /\ UNCHANGED <<status, holds, revision>>

Grant(u, authority) ==
    /\ Entitled(u, None)
    /\ holds' = [holds EXCEPT ![u] = authority]
    /\ UNCHANGED <<status, revision, approval>>

Revoke(u) ==
    /\ holds[u] # None
    /\ holds' = [holds EXCEPT ![u] = None]
    /\ UNCHANGED <<status, revision, approval>>

Toggle(u) ==
    /\ status' = [status EXCEPT ![u] = IF @ = "active" THEN "disabled" ELSE "active"]
    /\ UNCHANGED <<holds, revision, approval>>

Next ==
    \/ \E f \in Families, rev \in Revisions : Submit(f, rev)
    \/ \E f \in Families, u \in Users : Approve(f, u)
    \/ \E u \in Users :
        \/ \E authority \in {"submit", "approve"} : Grant(u, authority)
        \/ Revoke(u)
        \/ Toggle(u)

Spec == Init /\ [][Next]_vars
=============================================================================

------------------------ MODULE MCReviewedAdvisories ------------------------
(* Small instances of ReviewedAdvisories.                                     *)
EXTENDS ReviewedAdvisories

CONSTANTS u1, u2, u3, f1, f2, v1, v2, d1, d2, d3, d4, c1, c2, c3, c4

\* d1 and d2 contend for a family, d3 shares the vulnerability of d1, d4 names a
\* vulnerability of a provider.
MCFamilyOf == [d \in Documents |-> IF d \in {d1, d2} THEN f1 ELSE f2]
MCVulnerabilityOf == [d \in Documents |-> IF d = d4 THEN v2 ELSE v1]

\* u1 may submit, u2 may approve, u3 has no grant yet.
MCInitialGrant == [u \in Users |-> CASE u = u1 -> "submit" [] u = u2 -> "approve" [] OTHER -> None]

submit(u, d) == [op |-> "submit", user |-> u, doc |-> d]
approve(u, f) == [op |-> "approve", user |-> u, family |-> f]
grant(u, a) == [op |-> "grant", user |-> u, authority |-> a]
revoke(u, g, a) == [op |-> "revoke", user |-> u, grant |-> g, authority |-> a]
disable(u) == [op |-> "disable", user |-> u]
enable(u) == [op |-> "enable", user |-> u]

Work(w1, w2, w3, w4) ==
    [c \in Calls |-> CASE c = c1 -> w1 [] c = c2 -> w2 [] c = c3 -> w3 [] c = c4 -> w4]

\* A submission and an approval, each sent twice.
MCResubmission == {Work(submit(u1, d1), submit(u1, d1), approve(u2, f1), approve(u2, f1))}

MCWorkloads == MCResubmission \cup {
    \* two documents of one family, two reviewers of whom one is granted on the way
    Work(submit(u1, d1), approve(u2, f1), grant(u3, "approve"), approve(u3, f1)),
    Work(submit(u1, d1), submit(u1, d2), approve(u2, f1), disable(u2)),
    \* families with a common vulnerability, a reviewer who loses the grant
    Work(submit(u1, d1), submit(u1, d3), approve(u2, f1), revoke(u2, 1, "approve")),
    \* an author who becomes a reviewer
    Work(submit(u1, d1), revoke(u1, 1, "submit"), grant(u1, "approve"), approve(u1, f1)),
    \* a revocation sent twice around a new grant
    Work(revoke(u1, 1, "submit"), revoke(u1, 1, "submit"), grant(u1, "submit"), submit(u1, d4)),
    \* a user disabled and enabled, commands that fit no grant
    Work(disable(u1), enable(u1), grant(u1, "approve"), submit(u1, d1)),
    Work(revoke(u3, 1, "submit"), revoke(u1, 1, "approve"), revoke(u1, 2, "submit"), grant(u3, "submit"))}
=============================================================================

\* A submitter and two reviewers, four calls, among them the operator's.
CONSTANTS
    u1 = u1
    u2 = u2
    u3 = u3
    f1 = f1
    f2 = f2
    v1 = v1
    v2 = v2
    d1 = d1
    d2 = d2
    d3 = d3
    d4 = d4
    c1 = c1
    c2 = c2
    c3 = c3
    c4 = c4
    None = None
    Users = {u1, u2, u3}
    Families = {f1, f2}
    Vulnerabilities = {v1, v2}
    Documents = {d1, d2, d3, d4}
    Calls = {c1, c2, c3, c4}
    Foreign = {v2}
    FamilyOf <- MCFamilyOf
    VulnerabilityOf <- MCVulnerabilityOf
    InitialGrant <- MCInitialGrant
    Workloads <- MCWorkloads
    MaxFaults = 1
SPECIFICATION FairSpec
CHECK_DEADLOCK FALSE
INVARIANTS
    AnswersAreTrue
PROPERTIES
    ImplementsBoard
    EventuallyAnswered

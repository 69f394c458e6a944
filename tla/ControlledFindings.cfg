SPECIFICATION Spec
CONSTANTS
    o1 = o1
    w1 = w1
    o2 = o2
    u2 = u2
    a = a
    b = b
    None = None
    Last = 3
    Occurrences <- MCOccurrences
    UploadOf <- MCUploadOf
    Known = {o1, w1, o2}
    Evaluable = {o1, o2}
    Advisories = {a, b}
    Outcome <- MCOutcome
    Whole = {3}
    Demands <- MCDemands
    c1 = c1
    c2 = c2
    Calls = {c1, c2}
    MaxClock = 1
    MaxFaults = 1
SYMMETRY MCSymmetry
CHECK_DEADLOCK FALSE
INVARIANTS
    FindingAnswersAreTrue
    CommittedIsReadable
    LatestIsOfNewestUpload

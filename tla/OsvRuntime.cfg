\* Three invocations of a request and of a scheduled one; the lease may expire once.
CONSTANTS
    q1 = q1
    q2 = q2
    i1 = i1
    i2 = i2
    i3 = i3
    NoRequest = NoRequest
    NoHolder = NoHolder
    Requests = {q1, q2}
    Invocations = {i1, i2, i3}
    Scheduled = {q2}
    Synthetic = TRUE
    MaxExpiries = 1
    MaxToggles = 1
    MaxFaults = 1
SPECIFICATION Spec
SYMMETRY Symmetry
CHECK_DEADLOCK FALSE
INVARIANTS
    FencesAreUnique
    CompletedIsAccounted
    ReturnFreesLease
PROPERTIES
    SettledIsFinal

\* Two requests with one key and different bodies, a third with the first one's body.
CONSTANTS
    r1 = r1
    r2 = r2
    r3 = r3
    k1 = k1
    k2 = k2
    a1 = a1
    t1 = t1
    t2 = t2
    b1 = b1
    b2 = b2
    None = None
    Keys = {k1, k2}
    Assets = {a1}
    Types = {t1}
    Bodies = {b1, b2}
    Requests = {r1, r2, r3}
    Input <- MCSameKey
    MaxFaults = 3
SPECIFICATION FairSpec
INVARIANTS
    AcceptedIsDurable
    KeyAcceptsOneUpload
    LitterIsPaidFor
PROPERTIES
    ImplementsKeys
    EventuallyAnswered

SPECIFICATION Spec
CONSTANTS
    c1 = c1
    c2 = c2
    i1 = i1
    i2 = i2
    i3 = i3
    i4 = i4
    i5 = i5
    i6 = i6
    b1 = b1
    b2 = b2
    v1 = v1
    v2 = v2
    q1 = q1
    q2 = q2
    None = None
    Catalogs = {c1, c2}
    Items = {i1, i2, i3, i4, i5, i6}
    Eligible = {i1, i4, i5, i6}
    Review = {i2}
    Malformed = {b2}
    Bodies = {b1, b2}
    BodyOf <- MCBodyOf
    Listings <- MCListings
    Comparable <- MCComparable
    Invocations = {v1, v2}
    Requests = {q1, q2}
    MaxStarts = 2
    MaxFaults = 2
SYMMETRY MCSymmetry
CHECK_DEADLOCK FALSE
INVARIANTS AttachedIsStored SuccessIsLast RevisionIsBacked ReadyIsWhole
PROPERTY ImplementsCatalog

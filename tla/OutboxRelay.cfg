\* Two events and one of unknown type, two relays that may overrun their leases.
CONSTANTS
    e1 = e1
    e2 = e2
    e3 = e3
    r1 = r1
    r2 = r2
    NoEvent = NoEvent
    Events = {e1, e2, e3}
    Unsupported = {e3}
    Relays = {r1, r2}
    BatchLimit = 2
    MaxAttempts = 2
    MaxFaults = 2
SPECIFICATION FairSpec
INVARIANTS
    ProcessedWasAccepted
    GivenUpAfterMaxAttempts
PROPERTIES
    ImplementsDelivery
    EventuallyRelayed
    AcceptedGetsRow

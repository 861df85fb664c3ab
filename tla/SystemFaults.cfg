\* Transfers, a freeze and the worker together, with every failure of either.
SPECIFICATION LiveSpec
CONSTANTS
    u1 = u1
    u2 = u2
    r1 = r1
    r2 = r2
    r3 = r3
    None = None
    Users <- MCUsers
    Requests = {r1, r2, r3}
    Traffic <- MCTraffic
    StartBalances = {1}
    MaxBalance = 2
    MaxOpenConns = 2
    SenderOf <- MCSenderOf
    BatchSize = 2
    Faults = {"publish", "mark", "crash"}
    MaxFaults = 1
INVARIANTS EventIffRow PublishedIsPaid
PROPERTIES ImplementsDelivery AcceptedIsPublished EveryoneIsAnswered

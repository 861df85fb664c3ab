\* A transfer of half a cent more than the columns keep.
SPECIFICATION Spec
CONSTANTS
    u1 = u1
    u2 = u2
    r1 = r1
    r2 = r2
    r3 = r3
    None = None
    Users <- MCUsers
    Requests = {r1, r2}
    Traffic <- HalfCentTraffic
    StartBalances = {2}
    MaxBalance = 5
    MaxOpenConns = 2
PROPERTY TransferMatchesRow

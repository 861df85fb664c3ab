\* Which error a payment into a wallet that is being unfrozen gets.
SPECIFICATION Spec
CONSTANTS
    u1 = u1
    u2 = u2
    r1 = r1
    r2 = r2
    r3 = r3
    None = None
    Users <- MCUsers
    Requests = {r1, r2}
    Traffic <- UnfreezeTraffic
    StartBalances = {1}
    MaxBalance = 3
    MaxOpenConns = 2
PROPERTY NotFoundMeansNoWallet

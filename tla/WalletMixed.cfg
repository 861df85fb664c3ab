\* Concurrent transfers, top-ups, wallet creation and freezing.
SPECIFICATION Spec
CONSTANTS
    u1 = u1
    u2 = u2
    r1 = r1
    r2 = r2
    r3 = r3
    None = None
    Users <- MCUsers
    Requests = {r1, r2, r3}
    Traffic <- MixedTraffic
    StartBalances = {0, 2}
    MaxBalance = 3
    MaxOpenConns = 2
SYMMETRY RequestSymmetry
INVARIANTS TypeOK LocksBelongToOpenTransactions TransfersInFlight AnswerTellsOutcome
PROPERTIES FrozenKeepsBalance TransferMatchesRow ImplementsLedger

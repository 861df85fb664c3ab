\* Walks with every filter while rows commit and statuses change.
SPECIFICATION Spec
CONSTANTS
    t1 = t1
    t2 = t2
    t3 = t3
    a = a
    b = b
    c = c
    Txns = {t1, t2, t3}
    Users = {a, b, c}
    Sender <- MCSender
    Receiver <- MCReceiver
    Filters <- MCFilters
    DefaultLimit = 2
INVARIANT NothingMissed
PROPERTY PageIsRight

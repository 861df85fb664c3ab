\* Stops, kills and restarts with requests and the worker under way.
SPECIFICATION LiveSpec
CONSTANTS
    a = a
    e1 = e1
    e2 = e2
    f1 = f1
    Transfers = {e1, e2}
    Flags = {f1}
    Senders = {a}
    SenderOf <- MCSenderOf
    MaxLives = 3
INVARIANTS TypeOK RequestsKeepConnections
PROPERTIES ImplementsDelivery CleanExit SignalEndsProcess CommittedIsDelivered

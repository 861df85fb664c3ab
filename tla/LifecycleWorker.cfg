\* Whether the worker has stopped when main returns.
SPECIFICATION Spec
CONSTANTS
    a = a
    e1 = e1
    e2 = e2
    f1 = f1
    Transfers = {e1}
    Flags = {f1}
    Senders = {a}
    SenderOf <- MCSenderOf
    MaxLives = 2
PROPERTY WorkerStopsCleanly

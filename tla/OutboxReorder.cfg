\* The same when one publish may fail.
SPECIFICATION Spec
CONSTANTS
    a = a
    b = b
    e1 = e1
    e2 = e2
    e3 = e3
    e4 = e4
    Events = {e1, e2}
    Senders = {a, b}
    SenderOf <- MCSenderOf
    Undecodable = {}
    Workers = {"w1"}
    BatchSize = 2
    ClientsWait = TRUE
    Faults = {"publish"}
    MaxFaults = 1
INVARIANT SenderOrder

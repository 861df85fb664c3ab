\* Two processes on the same rows, as during a rolling restart, with every fault
\* and a row that does not parse.
SPECIFICATION LiveSpec
CONSTANTS
    a = a
    b = b
    e1 = e1
    e2 = e2
    e3 = e3
    e4 = e4
    Events = {e1, e2, e3}
    Senders = {a, b}
    SenderOf <- MCSenderOf
    Undecodable = {e2}
    Workers = {"w1", "w2"}
    BatchSize = 2
    ClientsWait = TRUE
    Faults = {"publish", "mark", "crash"}
    MaxFaults = 2
INVARIANTS TypeOK DuplicatesNeedFaults OrderUntilPublishFails
PROPERTIES ImplementsDelivery CommittedIsDelivered

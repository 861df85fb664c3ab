\* An administrator retries a flag whose alert could not be published.
SPECIFICATION Spec
CONSTANTS
    t1 = t1
    r1 = r1
    r2 = r2
    r3 = r3
    r4 = r4
    Txns = {t1}
    Requests = {r1, r2}
    Traffic <- FlagTraffic
    Attempts = 2
PROPERTY RetryIsNotRefused

\* Four administrators flag and unflag one transaction, with every failure.
SPECIFICATION Spec
CONSTANTS
    t1 = t1
    r1 = r1
    r2 = r2
    r3 = r3
    r4 = r4
    Txns = {t1}
    Requests = {r1, r2, r3, r4}
    Traffic <- MCTraffic
    Attempts = 2
SYMMETRY RequestSymmetry
INVARIANTS TypeOK FlagsAlternate NoDoubleNotifying AlertsAddUp

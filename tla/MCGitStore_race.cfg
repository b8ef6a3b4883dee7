CONSTANTS
    h1 = h1
    h2 = h2
    w1 = w1
    w2 = w2
    w3 = w3
    r1 = r1
    r2 = r2
    Nobody = Nobody
    Homes = {h1, h2}
    Writers = {w1, w2, w3}
    Readers = {}
    Repeatable = {w1, w2}
    Forced = {w1}
    HomeOf <- MCHomeOf
    MaxRetries = 2
    Reruns = 1
    Faults = {"network", "engine", "crash"}
SPECIFICATION Spec
INVARIANTS
    TypeOK
    PublishedWhole
    RetriesMeanProgress
PROPERTIES
    ImplementsLog
CHECK_DEADLOCK FALSE

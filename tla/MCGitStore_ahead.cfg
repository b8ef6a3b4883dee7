CONSTANTS
    h1 = h1
    h2 = h2
    w1 = w1
    w2 = w2
    w3 = w3
    r1 = r1
    r2 = r2
    Nobody = Nobody
    Homes = {h1, h2}
    Writers = {w1}
    Readers = {r1}
    Repeatable = {}
    Forced = {}
    HomeOf <- MCHomeOf
    MaxRetries = 2
    Reruns = 0
    Faults = {"network"}
SPECIFICATION Spec
INVARIANTS
    PinsArePublished
CHECK_DEADLOCK FALSE

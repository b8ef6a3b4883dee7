SPECIFICATION Spec
CONSTANTS
    a1 = a1
    a2 = a2
    p1 = p1
    p2 = p2
    None = None
    Admins = {a1, a2}
    Hosts = {m1}
    Keyed = {m1}
    Ids = {i1, i2}
    Requests = {r1, r2}
    Paths = {p1, p2}
    Wants <- TwoPaths
    Answer <- Shared
    Faults = {"network", "crash"}
SYMMETRY Interchangeable
INVARIANTS
    TypeOK
    
    EnrolledHasKey
PROPERTIES
    PushAddsItsOwn

CONSTANTS
    a = a
    b = b
    config = config
    credentials = credentials
    p = p
    q = q
    g1 = g1
    g2 = g2
    u = u
    None = None
    Gets = {g1, g2}
    Secrets = {a, b}
    Files = {config, credentials}
    Parts = {p, q}
    Merging = {config, credentials}
    Theirs = {u}
    Sections <- MCSections
    Rank <- MCRank
    Before <- MCBefore
    Flags = {"none", "force", "backup"}
    MaxVersion = 2
    MaxStarts = 2
    MaxEdits = 1
    MaxClock = 1
SYMMETRY Symmetry
SPECIFICATION Spec
INVARIANTS
    TypeOK
    RecordsAreTrue
    RotationNeedsNoFlags
    RetryIsAccepted
PROPERTIES
    UserContentKept
    OthersKept
CHECK_DEADLOCK FALSE

SPECIFICATION Spec
CONSTANTS
    p = p
    q = q
    s = s
    x = x
    word = word
    sso = sso
    bad = bad
    Empty = Empty
    Spaces = Spaces
    None = None
    Headers <- MCHeaders
    Words = {word, sso, bad}
    Keys = {p, q, s, x}
    Key <- MCKey
    Session <- MCSession
    Denied = {bad}
    Profiles = {p, q}
    Sources <- MCSources
    Targets <- MCTargets
    MaxLines = 3
INVARIANTS
    TypeOK
    MergedTwice
PROPERTIES
    MergesSections
    CapturedAgain
    OthersInOrder

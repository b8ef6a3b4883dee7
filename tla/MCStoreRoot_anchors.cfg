CONSTANTS
    founder = founder
    second = second
    client = client
    Ids = {founder, second, client}
    Owners = {founder, second}
    Admins = {founder, second}
    Readers = {second, client}
    Founder = founder
    Recovery = Recovery
    NoPins = NoPins
    MaxVersion = 3
SPECIFICATION Spec
INVARIANTS
    TypeOK
    FreshCanPin
    ClientsFollow
    PinsStayNear
PROPERTIES
    RootsChain

SPECIFICATION Spec
CONSTANTS
    root = root
    n1 = n1
    n2 = n2
    Ids = {a, b}
    Signers = {a, b}
    Founder = a
    Recovery = {rk}
    Nodes <- ChainNodes
    Root = root
    Parent <- ChainParent
    Anc <- ChainAnc
    Keys = {k1}
    Hazards = {}
VIEW Unversioned
INVARIANTS
    TypeOK
    EnvelopeCovers
    OwnerSeesSubtree
    ChainVerifies
    OwnersAttested
    RolesWellFormed
PROPERTIES
    MembershipRaisesVersion

CHECK_DEADLOCK FALSE
SPECIFICATION Spec
CONSTANTS
    root = root
    n1 = n1
    n2 = n2
    Ids = {a, b}
    Signers = {a, b}
    Founder = a
    Recovery = {rk}
    Nodes <- PairNodes
    Root = root
    Parent <- PairParent
    Anc <- PairAnc
    Keys = {k1, k2}
    Hazards = {"self_revoke", "delegated_subtree", "rescue"}
SYMMETRY Names
VIEW Unversioned
INVARIANTS
    IndexExact
    ObjectAccess
    ExtraIsUnion
PROPERTIES
    WriterOwnsSpine

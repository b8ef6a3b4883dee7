------------------------ MODULE ManifestChainProofs -------------------------
(***************************************************************************)
(* The chain of signatures: who may sign a node, what its parent attests   *)
(* for it and which version its body carries, for every tree; and the      *)
(* envelopes of the manifests: whoever must walk through a node can open   *)
(* it, and an owner sees everything below what it owns.                    *)
(***************************************************************************)
EXTENDS ManifestProofs

-----------------------------------------------------------------------------
(* The path to the target of an add *)

\* A found node at the end of the path is the node the path hangs from.
LEMMA FoundTarget ==
    ASSUME NEW a, NEW n \in Nodes, NEW top, AttachesAt(a, n, top)
    PROVE  n \in Missing(a, n) \/ n = top
<1> SUFFICES ASSUME n \notin Missing(a, n), n # top PROVE FALSE
  OBVIOUS
<1>1. n \in Anc[top] /\ top \in Anc[n]
  BY DEF AttachesAt, Spine
<1> QED BY <1>1, TreeAssumption

\* Of the nodes that exist, the missing ones hang from the last one found only.
LEMMA MissingParent ==
    ASSUME Structure, NEW a, NEW n \in Nodes, NEW top \in exists, exists \subseteq Nodes,
           AttachesAt(a, n, top), Missing(a, n) \cap exists = {},
           NEW c \in Missing(a, n), NEW m \in exists, c \in Nodes \ {Root}, Parent[c] = m
    PROVE  m = top
<1>1. c \in Spine(n) /\ m \in Anc[c] /\ m \in Nodes
  BY TreeAssumption DEF Missing
<1>2. m \in Spine(n) \ Missing(a, n)
  BY <1>1, SpineClosed
<1> SUFFICES ASSUME m \in Anc[top] PROVE FALSE
  BY <1>2 DEF AttachesAt
<1>3. top \in Spine(n) /\ top \in Nodes /\ c # top
  BY DEF AttachesAt
<1>4. CASE c \in Anc[top]
  BY <1>4 DEF Structure
<1>5. CASE top \in Anc[c]
  <2>1. Anc[c] = {m} \cup Anc[m]
    BY TreeAssumption
  <2>2. top = m \/ top \in Anc[m]
    BY <1>5, <2>1
  <2>3. Anc[m] \subseteq Anc[top] /\ top \notin Anc[top]
    BY <1>3, TreeAssumption
  <2> QED BY <2>2, <2>3
<1>6. c \in Anc[top] \/ top \in Anc[c]
  BY <1>1, <1>3, TreeAssumption DEF Spine
<1> QED BY <1>4, <1>5, <1>6

-----------------------------------------------------------------------------
(* Signatures verify *)

Chain == OwnersAttested /\ ChainVerifies

\* Signing nodes with a key the new tree attests for them, and leaving what is
\* attested for the others alone, keeps the chain.
LEMMA ChainStep ==
    ASSUME ChainVerifies, exists' \subseteq Nodes, NEW S, NEW a, Resign(a, S),
           \A m \in exists' : m \in S => a \in attested'[m] \cup Recovery,
           \A m \in exists' \ S : m \in exists /\ attested'[m] = attested[m]
    PROVE  ChainVerifies'
<1> SUFFICES ASSUME NEW m \in exists' PROVE signer'[m] \in attested'[m] \cup Recovery
  BY DEF ChainVerifies
<1>1. CASE m \in S
  BY <1>1 DEF Resign
<1>2. CASE m \notin S
  BY <1>2 DEF Resign, ChainVerifies
<1> QED BY <1>1, <1>2

\* Outside the hazardous uses an actor re-signs what it owns.
LEMMA ResignsOwned ==
    ASSUME Hazards = {}, NEW a \in Ids, NEW S, MayResign(a, S)
    PROVE  \A m \in S : a \in owners[m]
<1>1. a \notin Recovery
  BY IdsAssumption
<1> QED BY <1>1 DEF MayResign, Owns

LEMMA AddChain ==
    ASSUME Hazards = {}, TypeOK, Chain, NEW a \in Ids, NEW n \in Nodes,
           NEW top \in exists, NEW k \in Keys, NEW force, Add(a, n, top, k, force)
    PROVE  Chain'
<1> DEFINE missing == Missing(a, n)
<1>1. /\ exists' = exists \cup missing
      /\ AttachesAt(a, n, top)
      /\ a \in owners[top]
      /\ missing \cap exists = {}
      /\ owners' = [m \in Nodes |-> IF m \in missing THEN owners[top] ELSE owners[m]]
      /\ attested' = [m \in Nodes |-> IF m \in missing THEN owners[top] ELSE attested[m]]
      /\ Resign(a, missing \cup {top, n})
  BY DEF Add, Owns
<1>2. exists' \subseteq Nodes
  BY AddType DEF TypeOK
<1>3. n \in missing \/ n = top
  BY <1>1, FoundTarget
<1>4. OwnersAttested'
  BY <1>1, <1>2 DEF Chain, OwnersAttested
<1>5. \A m \in exists' : m \in missing \cup {top, n} => a \in attested'[m]
  BY <1>1, <1>2, <1>3 DEF Chain, OwnersAttested
<1>6. \A m \in exists' \ (missing \cup {top, n}) : m \in exists /\ attested'[m] = attested[m]
  BY <1>1, <1>2
<1> QED BY <1>1, <1>2, <1>4, <1>5, <1>6, ChainStep DEF Chain

\* The commands that change no owner.
LEMMA EditChain ==
    ASSUME TypeOK, Chain, UNCHANGED <<exists, owners, attested>>, NEW S, NEW a,
           Resign(a, S), \A m \in S : a \in owners[m]
    PROVE  Chain'
<1>1. exists' \subseteq Nodes /\ OwnersAttested'
  BY DEF TypeOK, Chain, OwnersAttested
<1>2. \A m \in exists' : m \in S => a \in attested'[m] \cup Recovery
  BY DEF Chain, OwnersAttested
<1>3. \A m \in exists' \ S : m \in exists /\ attested'[m] = attested[m]
  OBVIOUS
<1> QED BY <1>1, <1>2, <1>3, ChainStep DEF Chain

LEMMA GrantOwnerChain ==
    ASSUME Hazards = {}, TypeOK, Chain, NEW a \in Ids, NEW n \in exists, NEW x \in Ids,
           GrantOwner(a, n, x)
    PROVE  Chain'
<1> DEFINE parent == IF a \in Recovery THEN {} ELSE ParentOf(n)
<1> DEFINE S == {n} \cup Ungranted(n, x) \cup parent
<1>1. exists' = exists /\ exists \subseteq Nodes
  BY DEF GrantOwner, TypeOK
<1>2. owners' = With(owners, {n}, x)
  BY DEF GrantOwner
<1>3. attested' = With(attested, {n}, x)
  <2>1. n = Root \/ parent # {}
    BY IdsAssumption DEF ParentOf
  <2> QED BY <2>1 DEF GrantOwner
<1>4. Resign(a, S) /\ \A m \in S : a \in owners[m]
  <2>1. Resign(a, S) /\ MayResign(a, S)
    BY DEF GrantOwner
  <2> QED BY <2>1, ResignsOwned
<1>5. OwnersAttested'
  BY <1>1, <1>2, <1>3 DEF Chain, OwnersAttested, With
<1>6. \A m \in exists' : m \in S => a \in attested'[m] \cup Recovery
  BY <1>1, <1>3, <1>4 DEF Chain, OwnersAttested, With
<1>7. \A m \in exists' \ S : m \in exists /\ attested'[m] = attested[m]
  BY <1>1, <1>3 DEF With
<1> QED BY <1>1, <1>4, <1>5, <1>6, <1>7, ChainStep DEF Chain

LEMMA RevokeOwnerChain ==
    ASSUME Hazards = {}, TypeOK, Chain, NEW a \in Ids, NEW n \in exists, NEW x \in Ids,
           RevokeOwner(a, n, x)
    PROVE  Chain'
<1> DEFINE S == {n} \cup Regranted(n, x) \cup ParentOf(n)
<1>1. exists' = exists /\ exists \subseteq Nodes
  BY DEF RevokeOwner, TypeOK
<1>2. owners' = Without(owners, {n}, x) /\ attested' = Without(attested, {n}, x)
  BY DEF RevokeOwner
<1>3. a # x
  BY DEF RevokeOwner
<1>4. Resign(a, S) /\ \A m \in S : a \in owners[m]
  <2>1. Resign(a, S) /\ MayResign(a, S)
    BY DEF RevokeOwner
  <2> QED BY <2>1, ResignsOwned
<1>5. OwnersAttested'
  BY <1>1, <1>2 DEF Chain, OwnersAttested, Without
<1>6. \A m \in exists' : m \in S => a \in attested'[m] \cup Recovery
  BY <1>1, <1>2, <1>3, <1>4 DEF Chain, OwnersAttested, Without
<1>7. \A m \in exists' \ S : m \in exists /\ attested'[m] = attested[m]
  BY <1>1, <1>2 DEF Without
<1> QED BY <1>1, <1>4, <1>5, <1>6, <1>7, ChainStep DEF Chain

LEMMA NextChain == ASSUME Hazards = {}, TypeOK, Chain, [Next]_vars
                   PROVE  Chain'
<1>1. ASSUME NEW a \in Ids, NEW n \in Nodes, NEW top \in exists, NEW k \in Keys,
             NEW force \in BOOLEAN, Add(a, n, top, k, force)
      PROVE  Chain'
  BY <1>1, AddChain
<1>2. ASSUME NEW a \in Ids, NEW n \in exists, NEW x \in Ids, NEW k \in Keys,
             GrantKey(a, n, x, k) \/ RevokeKey(a, n, x, k)
      PROVE  Chain'
  <2>1. UNCHANGED <<exists, owners, attested>> /\ MayResign(a, {n}) /\ Resign(a, {n})
    BY <1>2 DEF GrantKey, RevokeKey
  <2> QED BY <2>1, ResignsOwned, EditChain
<1>3. ASSUME NEW a \in Ids, NEW n \in exists, NEW x \in Ids, NEW subtree \in BOOLEAN,
             Grant(a, n, x, subtree) \/ Revoke(a, n, x, subtree)
      PROVE  Chain'
  <2>1. /\ UNCHANGED <<exists, owners, attested>>
        /\ \E S : MayResign(a, S) /\ Resign(a, S)
    BY <1>3 DEF Grant, Revoke
  <2> QED BY <2>1, ResignsOwned, EditChain
<1>4. ASSUME NEW a \in Ids, NEW n \in exists, NEW x \in Ids,
             GrantOwner(a, n, x) \/ RevokeOwner(a, n, x)
      PROVE  Chain'
  BY <1>4, GrantOwnerChain, RevokeOwnerChain
<1>5. ASSUME NEW r \in Recovery, NEW n \in exists, NEW x \in Ids, Rescue(r, n, x)
      PROVE  FALSE
  BY <1>5 DEF Rescue
<1>6. CASE UNCHANGED vars
  BY <1>6 DEF vars, body, Chain, OwnersAttested, ChainVerifies
<1> QED BY <1>1, <1>2, <1>3, <1>4, <1>5, <1>6 DEF Next

LEMMA InitChain == Init => Chain
  BY TreeAssumption DEF Init, Chain, OwnersAttested, ChainVerifies

LEMMA ChainInvariant == ASSUME Hazards = {}
                        PROVE  Spec => [](TypeOK /\ Chain)
<1>1. Init => TypeOK /\ Chain
  BY InitType, InitChain
<1>2. (TypeOK /\ Chain) /\ [Next]_vars => (TypeOK /\ Chain)'
  BY NextType, NextChain
<1> QED BY <1>1, <1>2, PTL DEF Spec

\* As long as nobody revokes its own ownership, re-signs a node it does not own
\* or appoints an owner with a recovery key, every manifest verifies.
THEOREM ChainCorrect == ASSUME Hazards = {}
                        PROVE  Spec => []ChainVerifies
<1>1. TypeOK /\ Chain => ChainVerifies
  BY DEF Chain
<1> QED BY <1>1, ChainInvariant, PTL

\* Under the same condition every parent attests exactly the owners its children
\* declare, and store.json anchors those of the root.
THEOREM AttestationCorrect == ASSUME Hazards = {}
                              PROVE  Spec => []OwnersAttested
<1>1. TypeOK /\ Chain => OwnersAttested
  BY DEF Chain
<1> QED BY <1>1, ChainInvariant, PTL

-----------------------------------------------------------------------------
(* Who changes the members of a node *)

\* The members of a node only change when it is signed, by an actor that may
\* sign it or a node above it.
SpineStep ==
    \A n \in exists :
        Members(n)' # Members(n) =>
            \/ signer'[n] \in Recovery
            \/ \E m \in {n} \cup Anc[n] : signer'[n] \in owners[m]

LEMMA SpineEdit ==
    ASSUME exists \subseteq Nodes, NEW a, NEW n \in exists, CanSign(a, n), NEW S, NEW T,
           Resign(a, T), S \subseteq T, S \subseteq {n} \cup Below(n),
           \A m \in exists \ S : /\ owners'[m] = owners[m]
                                 /\ readers'[m] = readers[m]
                                 /\ extra'[m] = extra[m]
    PROVE  SpineStep
<1> SUFFICES ASSUME NEW m \in exists, Members(m)' # Members(m)
             PROVE  signer'[m] \in Recovery \/ \E q \in {m} \cup Anc[m] : signer'[m] \in owners[q]
  BY DEF SpineStep
<1>1. m \in S
  BY DEF Members
<1>2. signer'[m] = a
  BY <1>1 DEF Resign
<1>3. n \in {m} \cup Anc[m]
  BY <1>1 DEF Below
<1> QED BY <1>2, <1>3 DEF CanSign, Owns

LEMMA NextSpine == TypeOK /\ [Next]_vars => SpineStep
<1> SUFFICES ASSUME TypeOK, [Next]_vars PROVE SpineStep
  OBVIOUS
<1>0. exists \subseteq Nodes
  BY DEF TypeOK
<1>1. ASSUME NEW a \in Ids, NEW n \in Nodes, NEW top \in exists, NEW k \in Keys,
             NEW force \in BOOLEAN, Add(a, n, top, k, force)
      PROVE  SpineStep
  <2>1. /\ Missing(a, n) \cap exists = {}
        /\ owners' = [m \in Nodes |-> IF m \in Missing(a, n) THEN owners[top] ELSE owners[m]]
        /\ readers' = [m \in Nodes |-> IF m \in Missing(a, n) THEN readers[top] ELSE readers[m]]
        /\ extra' = extra
    BY <1>1 DEF Add
  <2>2. \A m \in exists : Members(m)' = Members(m)
    BY <1>0, <2>1 DEF Members
  <2> QED BY <2>2 DEF SpineStep
<1>2. ASSUME NEW a \in Ids, NEW n \in exists, NEW x \in Ids, NEW k \in Keys,
             GrantKey(a, n, x, k) \/ RevokeKey(a, n, x, k)
      PROVE  SpineStep
  <2>1. /\ UNCHANGED <<owners, readers>>
        /\ CanSign(a, n) /\ Resign(a, {n})
        /\ \A m \in exists \ {n} : extra'[m] = extra[m]
    BY <1>0, <1>2 DEF GrantKey, RevokeKey, With, Without
  <2> QED BY <1>0, <2>1, SpineEdit
<1>3. ASSUME NEW a \in Ids, NEW n \in exists, NEW x \in Ids, NEW subtree \in BOOLEAN,
             Grant(a, n, x, subtree)
      PROVE  SpineStep
  <2> DEFINE S == {n} \cup (IF subtree THEN Ungranted(n, x) ELSE {})
  <2>1. /\ UNCHANGED <<owners, extra>>
        /\ CanSign(a, n) /\ Resign(a, S)
        /\ \E T \in SUBSET S : readers' = With(readers, T, x)
    BY <1>3 DEF Grant
  <2>2. S \subseteq {n} \cup Below(n)
    BY DEF Ungranted
  <2>3. \A m \in exists \ S : readers'[m] = readers[m]
    BY <1>0, <2>1 DEF With
  <2> QED BY <1>0, <2>1, <2>2, <2>3, SpineEdit
<1>4. ASSUME NEW a, NEW n \in exists, NEW x \in Ids, GrantOwner(a, n, x)
      PROVE  SpineStep
  <2> DEFINE S == {n} \cup Ungranted(n, x)
  <2>1. /\ UNCHANGED extra
        /\ CanSign(a, n) /\ \E T : S \subseteq T /\ Resign(a, T)
        /\ owners' = With(owners, {n}, x)
        /\ readers' = With(Without(readers, {n}, x), Ungranted(n, x), x)
    BY <1>4 DEF GrantOwner
  <2>2. S \subseteq {n} \cup Below(n)
    BY DEF Ungranted
  <2>3. \A m \in exists \ S : owners'[m] = owners[m] /\ readers'[m] = readers[m]
    BY <1>0, <2>1 DEF With, Without
  <2> QED BY <1>0, <2>1, <2>2, <2>3, SpineEdit
<1>5. ASSUME NEW a \in Ids, NEW n \in exists, NEW x \in Ids,
             RevokeOwner(a, n, x) \/ \E subtree \in BOOLEAN : Revoke(a, n, x, subtree)
      PROVE  SpineStep
  <2>1. /\ CanSign(a, n)
        /\ \E B, T : /\ B \subseteq Regranted(n, x)
                     /\ {n} \cup B \subseteq T
                     /\ Resign(a, T)
                     /\ owners' = owners \/ owners' = Without(owners, {n}, x)
                     /\ readers' = Without(readers, B, x) \/ readers' = Without(readers, {n} \cup B, x)
                     /\ extra' = Without(extra, B, x)
    BY <1>5 DEF RevokeOwner, Revoke
  <2>2. PICK B, T : /\ B \subseteq Regranted(n, x)
                    /\ {n} \cup B \subseteq T
                    /\ Resign(a, T)
                    /\ owners' = owners \/ owners' = Without(owners, {n}, x)
                    /\ readers' = Without(readers, B, x) \/ readers' = Without(readers, {n} \cup B, x)
                    /\ extra' = Without(extra, B, x)
    BY <2>1
  <2>3. {n} \cup B \subseteq {n} \cup Below(n)
    BY <2>2 DEF Regranted
  <2>4. \A m \in exists \ ({n} \cup B) :
            owners'[m] = owners[m] /\ readers'[m] = readers[m] /\ extra'[m] = extra[m]
    BY <1>0, <2>2 DEF Without
  <2> QED BY <1>0, <2>1, <2>2, <2>3, <2>4, SpineEdit
<1>6. CASE UNCHANGED vars
  BY <1>6 DEF vars, body, SpineStep, Members
<1> QED BY <1>1, <1>2, <1>3, <1>4, <1>5, <1>6 DEF Next, Rescue

\* Nobody changes the members of a node without owning it, or a node above it,
\* or holding a recovery key: the hazardous uses included.
THEOREM SpineCorrect == Spec => WriterOwnsSpine
<1>1. TypeOK /\ [Next]_vars =>
        [\A n \in exists :
            Members(n)' # Members(n) =>
                \/ signer'[n] \in Recovery
                \/ \E m \in {n} \cup Anc[n] : signer'[n] \in owners[m]]_vars
  BY NextSpine DEF SpineStep
<1>2. Init => TypeOK
  BY InitType
<1>3. TypeOK /\ [Next]_vars => TypeOK'
  BY NextType
<1> QED BY <1>1, <1>2, <1>3, PTL DEF Spec, WriterOwnsSpine

-----------------------------------------------------------------------------
(* A new body has a new version *)

\* What a node says about its members and attests for its children is unchanged.
BodyKept(n) ==
    /\ owners'[n] = owners[n]
    /\ readers'[n] = readers[n]
    /\ extra'[n] = extra[n]
    /\ \A c \in Nodes \ {Root} : Parent[c] = n => attested'[c] = attested[c]

VersionStep ==
    \A n \in exists :
        version'[n] > version[n] \/ BodyKept(n)

LEMMA RaisedGrows == ASSUME NEW v \in Nat PROVE Raised(v) > v
  BY DEF Raised

\* The bodies that are not bumped are kept.
LEMMA VersionEdit ==
    ASSUME TypeOK, NEW T, Bump(T), \A m \in exists \ T : BodyKept(m)
    PROVE  VersionStep
<1> SUFFICES ASSUME NEW n \in exists
             PROVE  version'[n] > version[n] \/ BodyKept(n)
  BY DEF VersionStep
<1>1. n \in Nodes /\ version[n] \in Nat
  BY DEF TypeOK
<1>2. CASE n \in T
  BY <1>1, <1>2, RaisedGrows DEF Bump
<1>3. CASE n \notin T
  BY <1>3
<1> QED BY <1>2, <1>3

LEMMA AddVersion ==
    ASSUME TypeOK, Structure, NEW a, NEW n \in Nodes, NEW top \in exists,
           NEW k, NEW force, Add(a, n, top, k, force)
    PROVE  VersionStep
<1> DEFINE missing == Missing(a, n)
<1> SUFFICES ASSUME NEW m \in exists
             PROVE  version'[m] > version[m] \/ BodyKept(m)
  BY DEF VersionStep
<1>0. m \in Nodes /\ version[m] \in Nat /\ exists \subseteq Nodes
  BY DEF TypeOK
<1>1. /\ AttachesAt(a, n, top)
      /\ missing \cap exists = {}
      /\ owners' = [q \in Nodes |-> IF q \in missing THEN owners[top] ELSE owners[q]]
      /\ readers' = [q \in Nodes |-> IF q \in missing THEN readers[top] ELSE readers[q]]
      /\ attested' = [q \in Nodes |-> IF q \in missing THEN owners[top] ELSE attested[q]]
      /\ extra' = extra
  BY DEF Add
<1>2. CASE m = top /\ missing # {}
  <2>1. version'[m] = Raised(version[m])
    BY <1>0, <1>1, <1>2 DEF Add
  <2> QED BY <1>0, <2>1, RaisedGrows
<1>3. CASE m # top \/ missing = {}
  <2>1. \A c \in Nodes \ {Root} : Parent[c] = m => c \notin missing
    BY <1>0, <1>1, <1>3, MissingParent
  <2> QED BY <1>0, <1>1, <2>1 DEF BodyKept
<1> QED BY <1>2, <1>3

LEMMA NextVersion == TypeOK /\ Structure /\ [Next]_vars => VersionStep
<1> SUFFICES ASSUME TypeOK, Structure, [Next]_vars PROVE VersionStep
  OBVIOUS
<1>0. exists \subseteq Nodes
  BY DEF TypeOK
<1>1. ASSUME NEW a \in Ids, NEW n \in Nodes, NEW top \in exists, NEW k \in Keys,
             NEW force \in BOOLEAN, Add(a, n, top, k, force)
      PROVE  VersionStep
  BY <1>1, AddVersion
<1>2. ASSUME NEW a \in Ids, NEW n \in exists, NEW x \in Ids, NEW k \in Keys,
             GrantKey(a, n, x, k) \/ RevokeKey(a, n, x, k)
      PROVE  VersionStep
  <2>1. UNCHANGED <<owners, readers, attested>> /\ Bump({n})
    BY <1>2 DEF GrantKey, RevokeKey
  <2>2. \A m \in exists \ {n} : extra'[m] = extra[m]
    BY <1>0, <1>2 DEF GrantKey, RevokeKey, With, Without
  <2> QED BY <2>1, <2>2, VersionEdit DEF BodyKept
<1>3. ASSUME NEW a \in Ids, NEW n \in exists, NEW x \in Ids, NEW subtree \in BOOLEAN,
             Grant(a, n, x, subtree)
      PROVE  VersionStep
  <2> DEFINE S == {n} \cup (IF subtree THEN Ungranted(n, x) ELSE {})
  <2>1. /\ UNCHANGED <<owners, extra, attested>>
        /\ Bump(S)
        /\ \E T \in SUBSET S : readers' = With(readers, T, x)
    BY <1>3 DEF Grant
  <2>2. \A m \in exists \ S : readers'[m] = readers[m]
    BY <1>0, <2>1 DEF With
  <2> QED BY <2>1, <2>2, VersionEdit DEF BodyKept
<1>4. ASSUME NEW a, NEW n \in exists, NEW x \in Ids, GrantOwner(a, n, x)
      PROVE  VersionStep
  <2> DEFINE parent == IF a \in Recovery THEN {} ELSE ParentOf(n)
  <2> DEFINE T == {n} \cup Ungranted(n, x) \cup parent
  <2>1. /\ UNCHANGED extra
        /\ Bump(T)
        /\ owners' = With(owners, {n}, x)
        /\ readers' = With(Without(readers, {n}, x), Ungranted(n, x), x)
    BY <1>4 DEF GrantOwner
  <2>2. \A m \in exists \ T : owners'[m] = owners[m] /\ readers'[m] = readers[m]
    BY <1>0, <2>1 DEF With, Without
  <2>3. attested' = attested \/ (attested' = With(attested, {n}, x) /\ (n = Root \/ parent # {}))
    BY <1>4 DEF GrantOwner
  <2>4. \A c \in Nodes \ {Root} : Parent[c] \notin T => attested'[c] = attested[c]
    BY <2>3 DEF With, ParentOf
  <2> QED BY <2>1, <2>2, <2>4, VersionEdit DEF BodyKept
<1>5. ASSUME NEW a \in Ids, NEW n \in exists, NEW x \in Ids, NEW subtree \in BOOLEAN,
             Revoke(a, n, x, subtree)
      PROVE  VersionStep
  <2> DEFINE below == IF subtree THEN Regranted(n, x) ELSE {}
  <2>1. /\ UNCHANGED <<owners, attested>>
        /\ Bump({n} \cup below)
        /\ readers' = Without(readers, {n} \cup below, x)
        /\ extra' = Without(extra, below, x)
    BY <1>5 DEF Revoke
  <2>2. \A m \in exists \ ({n} \cup below) : readers'[m] = readers[m] /\ extra'[m] = extra[m]
    BY <1>0, <2>1 DEF Without
  <2> QED BY <2>1, <2>2, VersionEdit DEF BodyKept
<1>6. ASSUME NEW a \in Ids, NEW n \in exists, NEW x \in Ids, RevokeOwner(a, n, x)
      PROVE  VersionStep
  <2> DEFINE T == {n} \cup Regranted(n, x) \cup ParentOf(n)
  <2>1. /\ Bump(T)
        /\ owners' = Without(owners, {n}, x)
        /\ readers' = Without(readers, Regranted(n, x), x)
        /\ extra' = Without(extra, Regranted(n, x), x)
        /\ attested' = Without(attested, {n}, x)
    BY <1>6 DEF RevokeOwner
  <2>2. \A m \in exists \ T : /\ owners'[m] = owners[m]
                              /\ readers'[m] = readers[m]
                              /\ extra'[m] = extra[m]
    BY <1>0, <2>1 DEF Without
  <2>3. \A c \in Nodes \ {Root} : Parent[c] \notin T => attested'[c] = attested[c]
    BY <2>1 DEF Without, ParentOf
  <2> QED BY <2>1, <2>2, <2>3, VersionEdit DEF BodyKept
<1>7. CASE UNCHANGED vars
  BY <1>7 DEF vars, body, VersionStep, BodyKept
<1> QED BY <1>1, <1>2, <1>3, <1>4, <1>5, <1>6, <1>7 DEF Next, Rescue

\* A change of the members of a node, or of what it attests for a child, raises
\* the version of its body.
THEOREM VersionCorrect == Spec => MembershipRaisesVersion
<1>1. (TypeOK /\ Structure) /\ [Next]_vars =>
        [\A n \in exists :
            \/ version'[n] > version[n]
            \/ /\ owners'[n] = owners[n]
               /\ readers'[n] = readers[n]
               /\ extra'[n] = extra[n]
               /\ \A c \in Nodes \ {Root} : Parent[c] = n => attested'[c] = attested[c]]_vars
  BY NextVersion DEF VersionStep, BodyKept
<1>2. Init => TypeOK /\ Structure
  BY InitType, InitStructure
<1>3. (TypeOK /\ Structure) /\ [Next]_vars => (TypeOK /\ Structure)'
  BY NextType, NextStructure
<1> QED BY <1>1, <1>2, <1>3, PTL DEF Spec, MembershipRaisesVersion

-----------------------------------------------------------------------------
(* What changes a recipient set *)

\* If the manifests that are not re-encrypted gain no recipient but x, and x
\* can already open them or they are widened by it, every envelope covers.
LEMMA CoverStep ==
    ASSUME EnvelopeCovers, exists' \subseteq Nodes, NEW S, NEW W, NEW x,
           WriteManifests(S, W, x),
           \A m \in exists' \ S : /\ m \in exists
                                  /\ ManifestRecipients(m)' \subseteq
                                        ManifestRecipients(m) \cup (IF m \in W THEN {x} ELSE {})
    PROVE  EnvelopeCovers'
<1> SUFFICES ASSUME NEW m \in exists' PROVE ManifestRecipients(m)' \subseteq manifestEnv'[m]
  BY DEF EnvelopeCovers
<1>1. CASE m \in S
  BY <1>1 DEF WriteManifests
<1>2. CASE m \notin S
  <2>1. m \in exists /\ ManifestRecipients(m) \subseteq manifestEnv[m]
    BY <1>2 DEF EnvelopeCovers
  <2>2. manifestEnv'[m] = manifestEnv[m] \cup (IF m \in W THEN {x} ELSE {})
    BY <1>2 DEF WriteManifests
  <2> QED BY <1>2, <2>1, <2>2
<1> QED BY <1>1, <1>2

\* A step that takes members away, and gives none, shrinks recipient sets.
LEMMA FewerRecipients ==
    ASSUME exists' = exists, NEW m \in exists,
           \A q \in Nodes : Members(q)' \subseteq Members(q) /\ owners'[q] \subseteq owners[q],
           exists \subseteq Nodes
    PROVE  ManifestRecipients(m)' \subseteq ManifestRecipients(m)
<1> SUFFICES ASSUME NEW z \in ManifestRecipients(m)' PROVE z \in ManifestRecipients(m)
  OBVIOUS
<1>0. m \in Nodes /\ Anc[m] \subseteq Nodes /\ Below(m) \subseteq Nodes /\ Below(m)' = Below(m)
  BY TreeAssumption DEF Below
<1>1. CASE z \in Members(m)' \cup Recovery
  BY <1>0, <1>1 DEF ManifestRecipients
<1>2. CASE \E q \in Below(m)' : z \in Members(q)'
  BY <1>0, <1>2 DEF ManifestRecipients
<1>3. CASE \E q \in Anc[m] : z \in owners'[q]
  BY <1>0, <1>3 DEF ManifestRecipients
<1> QED BY <1>1, <1>2, <1>3 DEF ManifestRecipients

\* A step that makes x a member of the nodes of C, and an owner of the nodes
\* of O, adds x to the recipients of a manifest only if one of C is below it,
\* or it is in C, or one of O is above it.
LEMMA MoreRecipients ==
    ASSUME exists' = exists, NEW m \in exists, NEW x, NEW C, NEW O,
           \A q \in Nodes : Members(q)' \subseteq Members(q) \cup (IF q \in C THEN {x} ELSE {}),
           \A q \in Nodes : owners'[q] \subseteq owners[q] \cup (IF q \in O THEN {x} ELSE {}),
           exists \subseteq Nodes,
           NEW z \in ManifestRecipients(m)', z \notin ManifestRecipients(m)
    PROVE  /\ z = x
           /\ m \in C \/ (\E q \in Below(m) : q \in C) \/ (\E q \in Anc[m] : q \in O)
<1>0. m \in Nodes /\ Anc[m] \subseteq Nodes /\ Below(m) \subseteq Nodes /\ Below(m)' = Below(m)
  BY TreeAssumption DEF Below
<1>1. CASE z \in Members(m)' \cup Recovery
  BY <1>0, <1>1 DEF ManifestRecipients
<1>2. CASE \E q \in Below(m)' : z \in Members(q)'
  BY <1>0, <1>2 DEF ManifestRecipients
<1>3. CASE \E q \in Anc[m] : z \in owners'[q]
  BY <1>0, <1>3 DEF ManifestRecipients
<1> QED BY <1>1, <1>2, <1>3 DEF ManifestRecipients

-----------------------------------------------------------------------------
(* add *)

LEMMA AddCovers ==
    ASSUME TypeOK, Structure, EnvelopeCovers, NEW a \in Ids, NEW n \in Nodes,
           NEW top \in exists, NEW k \in Keys, NEW force, Add(a, n, top, k, force)
    PROVE  EnvelopeCovers'
<1> DEFINE missing == Missing(a, n)
<1> DEFINE signed == missing \cup {top, n}
<1>1. /\ exists' = exists \cup missing
      /\ AttachesAt(a, n, top)
      /\ missing \cap exists = {}
      /\ owners' = [m \in Nodes |-> IF m \in missing THEN owners[top] ELSE owners[m]]
      /\ readers' = [m \in Nodes |-> IF m \in missing THEN readers[top] ELSE readers[m]]
      /\ extra' = extra
      /\ WriteManifests(signed, {}, a)
  BY DEF Add
<1>2. exists' \subseteq Nodes /\ exists \subseteq Nodes /\ missing \subseteq Nodes
  BY <1>1, AddType DEF TypeOK
<1>3. \A q \in exists : Members(q)' = Members(q) /\ owners'[q] = owners[q]
  BY <1>1, <1>2 DEF Members
<1>4. \A q \in missing : Members(q)' \subseteq Members(top)
  <2>1. \A q \in missing : extra[q] = {}
    BY <1>1, <1>2 DEF Structure
  <2> QED BY <1>1, <1>2, <2>1 DEF Members
<1>5. ASSUME NEW m \in exists' \ signed
      PROVE  m \in exists /\ ManifestRecipients(m)' \subseteq ManifestRecipients(m)
  <2>1. m \in exists /\ m \in Nodes
    BY <1>1, <1>2
  <2>2. Anc[m] \subseteq exists
    BY <2>1 DEF Structure
  <2>3. ASSUME NEW q \in missing, m \in Anc[q]
        PROVE  Members(q)' \subseteq ManifestRecipients(m)
    <3>1. m \in Spine(n) \ missing
      BY <2>3, SpineClosed DEF Missing
    <3>2. top \in Below(m)
      BY <3>1, <1>1 DEF AttachesAt, Below
    <3> QED BY <1>4, <3>2 DEF ManifestRecipients
  <2>4. \A q \in Below(m)' : Members(q)' \subseteq ManifestRecipients(m)
    <3> SUFFICES ASSUME NEW q \in exists', m \in Anc[q]
                 PROVE  Members(q)' \subseteq ManifestRecipients(m)
      BY DEF Below
    <3>1. CASE q \in exists
      BY <1>3, <3>1 DEF ManifestRecipients, Below
    <3>2. CASE q \in missing
      BY <2>3, <3>2
    <3> QED BY <1>1, <3>1, <3>2
  <2>5. \A q \in Anc[m] : owners'[q] = owners[q]
    BY <1>3, <2>2
  <2>6. Members(m)' = Members(m)
    BY <1>3, <2>1
  <2>7. ASSUME NEW z \in ManifestRecipients(m)' PROVE z \in ManifestRecipients(m)
    <3>1. CASE z \in Members(m)' \cup Recovery
      BY <2>6, <3>1 DEF ManifestRecipients
    <3>2. CASE \E q \in Below(m)' : z \in Members(q)'
      BY <2>4, <3>2
    <3>3. CASE \E q \in Anc[m] : z \in owners'[q]
      BY <2>5, <3>3 DEF ManifestRecipients
    <3> QED BY <2>7, <3>1, <3>2, <3>3 DEF ManifestRecipients
  <2> QED BY <2>1, <2>7
<1> QED BY <1>1, <1>2, <1>5, CoverStep

-----------------------------------------------------------------------------
(* grant *)

LEMMA GrantKeyCovers ==
    ASSUME TypeOK, EnvelopeCovers, NEW a, NEW n \in exists, NEW x, NEW k \in Keys,
           GrantKey(a, n, x, k)
    PROVE  EnvelopeCovers'
<1>1. /\ UNCHANGED <<exists, owners, readers>>
      /\ extra' = With(extra, {n}, x)
      /\ WriteManifests({n}, Anc[n], x)
      /\ exists \subseteq Nodes
  BY DEF GrantKey, TypeOK
<1> DEFINE members == {n}
<1> DEFINE owned == {}
<1>2. \A q \in Nodes : Members(q)' \subseteq Members(q) \cup (IF q \in members THEN {x} ELSE {})
  BY <1>1 DEF Members, With
<1>3. \A q \in Nodes : owners'[q] \subseteq owners[q] \cup (IF q \in owned THEN {x} ELSE {})
  BY <1>1
<1>4. ASSUME NEW m \in exists \ {n}
      PROVE  ManifestRecipients(m)' \subseteq
               ManifestRecipients(m) \cup (IF m \in Anc[n] THEN {x} ELSE {})
  <2> SUFFICES ASSUME NEW z \in ManifestRecipients(m)', z \notin ManifestRecipients(m)
               PROVE  z = x /\ m \in Anc[n]
    OBVIOUS
  <2>1. /\ z = x
        /\ m \in members \/ (\E q \in Below(m) : q \in members) \/ (\E q \in Anc[m] : q \in owned)
    <3> HIDE DEF members, owned
    <3> QED BY <1>1, <1>2, <1>3, MoreRecipients
  <2> QED BY <2>1 DEF Below
<1> QED BY <1>1, <1>4, CoverStep

\* A node above a descendant of n that gains x is n, above n, or below n and
\* already a node of x: the subtree grants widen no envelope there.
LEMMA AboveUngranted ==
    ASSUME TypeOK, NEW n \in exists, NEW x, NEW c \in Ungranted(n, x), NEW m \in exists,
           m \in Anc[c]
    PROVE  m = n \/ m \in Anc[n] \/ m \in Ungranted(n, x) \/ x \in Members(m)
<1>1. n \in Anc[c] /\ c \in Nodes /\ exists \subseteq Nodes
  BY DEF Ungranted, Below, TypeOK
<1>2. m = n \/ m \in Anc[n] \/ n \in Anc[m]
  BY <1>1, TreeAssumption
<1>3. CASE n \in Anc[m]
  BY <1>3 DEF Ungranted, Below, Members
<1> QED BY <1>2, <1>3

LEMMA GrantCovers ==
    ASSUME TypeOK, EnvelopeCovers, NEW a, NEW n \in exists, NEW x, NEW subtree \in BOOLEAN,
           Grant(a, n, x, subtree)
    PROVE  EnvelopeCovers'
<1> DEFINE below == IF subtree THEN Ungranted(n, x) ELSE {}
<1> DEFINE changed == {n} \cup below
<1>1. /\ UNCHANGED <<exists, owners, extra>>
      /\ \E S \in SUBSET changed : readers' = With(readers, S, x)
      /\ WriteManifests(changed, Anc[n], x)
      /\ exists \subseteq Nodes
  BY DEF Grant, TypeOK
<1> DEFINE owned == {}
<1>2. \A q \in Nodes : Members(q)' \subseteq Members(q) \cup (IF q \in changed THEN {x} ELSE {})
  BY <1>1 DEF Members, With
<1>3. \A q \in Nodes : owners'[q] \subseteq owners[q] \cup (IF q \in owned THEN {x} ELSE {})
  BY <1>1
<1>4. ASSUME NEW m \in exists \ changed
      PROVE  ManifestRecipients(m)' \subseteq
               ManifestRecipients(m) \cup (IF m \in Anc[n] THEN {x} ELSE {})
  <2> SUFFICES ASSUME NEW z \in ManifestRecipients(m)', z \notin ManifestRecipients(m)
               PROVE  z = x /\ m \in Anc[n]
    OBVIOUS
  <2>1. /\ z = x
        /\ m \in changed \/ (\E q \in Below(m) : q \in changed) \/ (\E q \in Anc[m] : q \in owned)
    <3>1. exists' = exists /\ exists \subseteq Nodes /\ m \in exists
      BY <1>1
    <3> HIDE DEF changed, owned
    <3> QED BY <1>2, <1>3, <3>1, MoreRecipients
  <2>2. PICK q \in changed : m \in Anc[q]
    BY <2>1 DEF Below
  <2>3. CASE q = n
    BY <2>1, <2>2, <2>3
  <2>4. CASE q \in below
    <3>1. subtree /\ q \in Ungranted(n, x)
      BY <2>4
    <3>2. m \in Anc[n] \/ x \in Members(m)
      BY <2>2, <3>1, AboveUngranted
    <3> QED BY <2>1, <3>2 DEF ManifestRecipients
  <2> QED BY <2>3, <2>4
<1> QED BY <1>1, <1>4, CoverStep

LEMMA GrantOwnerCovers ==
    ASSUME TypeOK, EnvelopeCovers, NEW a, NEW n \in exists, NEW x, GrantOwner(a, n, x)
    PROVE  EnvelopeCovers'
<1> DEFINE parent == IF a \in Recovery THEN {} ELSE ParentOf(n)
<1> DEFINE changed == {n} \cup Ungranted(n, x)
<1>1. /\ UNCHANGED <<exists, extra>>
      /\ owners' = With(owners, {n}, x)
      /\ readers' = With(Without(readers, {n}, x), Ungranted(n, x), x)
      /\ WriteManifests(changed \cup parent, Anc[n] \cup Below(n), x)
      /\ exists \subseteq Nodes
  BY DEF GrantOwner, TypeOK
<1>2. \A q \in Nodes : Members(q)' \subseteq Members(q) \cup (IF q \in changed THEN {x} ELSE {})
  BY <1>1 DEF Members, With, Without
<1> DEFINE owned == {n}
<1>3. \A q \in Nodes : owners'[q] \subseteq owners[q] \cup (IF q \in owned THEN {x} ELSE {})
  BY <1>1 DEF With
<1>4. ASSUME NEW m \in exists \ changed
      PROVE  ManifestRecipients(m)' \subseteq
               ManifestRecipients(m) \cup (IF m \in Anc[n] \cup Below(n) THEN {x} ELSE {})
  <2> SUFFICES ASSUME NEW z \in ManifestRecipients(m)', z \notin ManifestRecipients(m)
               PROVE  z = x /\ m \in Anc[n] \cup Below(n)
    OBVIOUS
  <2>1. /\ z = x
        /\ m \in changed \/ (\E q \in Below(m) : q \in changed) \/ (\E q \in Anc[m] : q \in owned)
    <3>1. exists' = exists /\ exists \subseteq Nodes /\ m \in exists
      BY <1>1
    <3> HIDE DEF changed, owned
    <3> QED BY <1>2, <1>3, <3>1, MoreRecipients
  <2>2. CASE \E q \in Anc[m] : q \in owned
    BY <2>1, <2>2 DEF Below
  <2>3. CASE \E q \in Below(m) : q \in changed
    <3>1. PICK q \in changed : m \in Anc[q]
      BY <2>3 DEF Below
    <3>2. CASE q = n
      BY <2>1, <3>1, <3>2
    <3>3. CASE q \in Ungranted(n, x)
      <4>1. m \in Anc[n] \/ x \in Members(m)
        BY <3>1, <3>3, AboveUngranted
      <4> QED BY <2>1, <4>1 DEF ManifestRecipients
    <3> QED BY <3>2, <3>3
  <2> QED BY <2>1, <2>2, <2>3
<1> QED BY <1>1, <1>4, CoverStep

-----------------------------------------------------------------------------
(* revoke *)

\* A step that takes members away covers, whatever it re-encrypts.
LEMMA RevocationCovers ==
    ASSUME TypeOK, EnvelopeCovers, exists' = exists, NEW S, NEW a, WriteManifests(S, {}, a),
           \A q \in Nodes : Members(q)' \subseteq Members(q) /\ owners'[q] \subseteq owners[q]
    PROVE  EnvelopeCovers'
<1>1. exists \subseteq Nodes
  BY DEF TypeOK
<1>2. \A m \in exists : ManifestRecipients(m)' \subseteq ManifestRecipients(m)
  BY <1>1, FewerRecipients
<1> QED BY <1>1, <1>2, CoverStep

LEMMA RevokesCover ==
    ASSUME TypeOK, EnvelopeCovers, NEW a, NEW n \in exists, NEW x,
           \/ \E k \in Keys : RevokeKey(a, n, x, k)
           \/ \E subtree \in BOOLEAN : Revoke(a, n, x, subtree)
           \/ RevokeOwner(a, n, x)
    PROVE  EnvelopeCovers'
<1>1. CASE \E k \in Keys : RevokeKey(a, n, x, k)
  <2>1. /\ UNCHANGED <<exists, owners, readers>>
        /\ extra' = extra \/ extra' = Without(extra, {n}, x)
        /\ \E S : WriteManifests(S, {}, a)
    BY <1>1 DEF RevokeKey
  <2>2. \A q \in Nodes : Members(q)' \subseteq Members(q)
    BY <2>1 DEF Members, Without
  <2> QED BY <2>1, <2>2, RevocationCovers
<1>2. CASE \E subtree \in BOOLEAN : Revoke(a, n, x, subtree)
  <2>1. /\ UNCHANGED <<exists, owners>>
        /\ \E S : readers' = Without(readers, S, x)
        /\ \E S : extra' = Without(extra, S, x)
        /\ \E S : WriteManifests(S, {}, a)
    BY <1>2 DEF Revoke
  <2>2. \A q \in Nodes : Members(q)' \subseteq Members(q)
    BY <2>1 DEF Members, Without
  <2> QED BY <2>1, <2>2, RevocationCovers
<1>3. CASE RevokeOwner(a, n, x)
  <2>1. /\ UNCHANGED exists
        /\ owners' = Without(owners, {n}, x)
        /\ readers' = Without(readers, Regranted(n, x), x)
        /\ extra' = Without(extra, Regranted(n, x), x)
        /\ \E S : WriteManifests(S, {}, a)
    BY <1>3 DEF RevokeOwner
  <2>2. \A q \in Nodes : Members(q)' \subseteq Members(q) /\ owners'[q] \subseteq owners[q]
    BY <2>1 DEF Members, Without
  <2> QED BY <2>1, <2>2, RevocationCovers
<1> QED BY <1>1, <1>2, <1>3

-----------------------------------------------------------------------------
(* Every envelope covers *)

LEMMA NextCovers == TypeOK /\ Structure /\ EnvelopeCovers /\ [Next]_vars => EnvelopeCovers'
<1> SUFFICES ASSUME TypeOK, Structure, EnvelopeCovers, [Next]_vars PROVE EnvelopeCovers'
  OBVIOUS
<1>1. ASSUME NEW a \in Ids, NEW n \in Nodes, NEW top \in exists, NEW k \in Keys,
             NEW force \in BOOLEAN, Add(a, n, top, k, force)
      PROVE  EnvelopeCovers'
  BY <1>1, AddCovers
<1>2. ASSUME NEW a, NEW n \in exists, NEW x \in Ids,
             \/ \E k \in Keys : GrantKey(a, n, x, k)
             \/ \E subtree \in BOOLEAN : Grant(a, n, x, subtree)
             \/ GrantOwner(a, n, x)
      PROVE  EnvelopeCovers'
  BY <1>2, GrantKeyCovers, GrantCovers, GrantOwnerCovers
<1>3. ASSUME NEW a, NEW n \in exists, NEW x \in Ids,
             \/ \E k \in Keys : RevokeKey(a, n, x, k)
             \/ \E subtree \in BOOLEAN : Revoke(a, n, x, subtree)
             \/ RevokeOwner(a, n, x)
      PROVE  EnvelopeCovers'
  BY <1>3, RevokesCover
<1>4. CASE UNCHANGED vars
  BY <1>4 DEF vars, body, envelopes, EnvelopeCovers, ManifestRecipients, Members, Below
<1> QED BY <1>1, <1>2, <1>3, <1>4 DEF Next, Rescue

LEMMA InitCovers == Init => EnvelopeCovers
<1> SUFFICES ASSUME Init PROVE ManifestRecipients(Root) \subseteq manifestEnv[Root]
  BY DEF Init, EnvelopeCovers
<1>1. Below(Root) = {} /\ Anc[Root] = {} /\ Root \in Nodes
  BY TreeAssumption DEF Init, Below
<1> QED BY <1>1 DEF Init, ManifestRecipients, Members

CoverInv == TypeOK /\ Structure /\ EnvelopeCovers

\* In every reachable state, whoever is a member of a node, a member of a node
\* below it, an owner of a node above it or a recovery key opens its manifest.
THEOREM CoverCorrect == Spec => []CoverInv
<1>1. Init => CoverInv
  BY InitType, InitStructure, InitCovers DEF CoverInv
<1>2. CoverInv /\ [Next]_vars => CoverInv'
  BY NextType, NextStructure, NextCovers DEF CoverInv
<1> QED BY <1>1, <1>2, PTL DEF Spec

\* The recipients of the manifests on the path to a node below n include the
\* owners of n.
LEMMA OwnerWalks ==
    ASSUME CoverInv, NEW n \in exists, NEW x \in owners[n], NEW m \in {n} \cup Below(n)
    PROVE  m \in Readable(x)
<1>0. /\ exists \subseteq Nodes /\ n \in Nodes /\ m \in Nodes /\ m \in exists
      /\ m = n \/ n \in Anc[m]
  BY DEF CoverInv, TypeOK, Below
<1>1. x \in manifestEnv[m]
  <2>1. x \in ManifestRecipients(m)
    BY <1>0 DEF ManifestRecipients, Members
  <2> QED BY <1>0, <2>1 DEF CoverInv, EnvelopeCovers
<1>2. ASSUME NEW q \in Anc[m] PROVE x \in manifestEnv[q]
  <2>1. q \in exists
    BY <1>0 DEF CoverInv, Structure
  <2>2. q = n \/ q \in Anc[n] \/ n \in Anc[q]
    BY <1>0, TreeAssumption
  <2>3. CASE q = n \/ n \in Anc[q]
    BY <2>1, <2>3 DEF CoverInv, EnvelopeCovers, ManifestRecipients, Members
  <2>4. CASE q \in Anc[n]
    BY <1>0, <2>1, <2>4 DEF CoverInv, EnvelopeCovers, ManifestRecipients, Members, Below
  <2> QED BY <2>2, <2>3, <2>4
<1> QED BY <1>0, <1>1, <1>2 DEF Readable

LEMMA CoverImplies == CoverInv => EnvelopeCovers /\ OwnerSeesSubtree
  BY OwnerWalks DEF CoverInv, OwnerSeesSubtree

\* In every reachable state whoever must walk through a node opens its manifest.
THEOREM EnvelopesCorrect == Spec => []EnvelopeCovers
  BY CoverCorrect, CoverImplies, PTL

\* In every reachable state an owner of a node reads every manifest below it: no
\* path it may create is hidden from it, and it can compute every recipient set
\* that it must.
THEOREM OwnerSees == Spec => []OwnerSeesSubtree
  BY CoverCorrect, CoverImplies, PTL

=============================================================================

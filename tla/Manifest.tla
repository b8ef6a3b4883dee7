------------------------------ MODULE Manifest ------------------------------
(***************************************************************************)
(* The namespace tree of a kauket store and the operations of its engine   *)
(* (internal/manifest/engine.go), as the published contents of the git     *)
(* repository.  One action is one successful command: the engine reads the *)
(* published tree, verifies it, edits it in memory, re-encrypts and        *)
(* re-signs what changed, and the caller publishes all of it as one commit.*)
(* That a commit is atomic, and recomputed when another one won the race,  *)
(* is the subject of module GitStore.                                      *)
(*                                                                         *)
(* A node is named by its position in the tree.  Ciphertexts are           *)
(* abstracted to the set of age keys they are encrypted to, signatures to  *)
(* the key that made them; an identity's age key and its ssh-ed25519 key   *)
(* are both written as the identity.                                       *)
(***************************************************************************)
EXTENDS Naturals, FiniteSets

CONSTANTS Ids,         \* enrolled identities (i_* and h_*)
          Signers,     \* those with an ssh-ed25519 key, which may be owners
          Founder,     \* the identity that ran init
          Recovery,    \* the offline recovery keys of store.json, possibly none
          Nodes,       \* positions in the namespace tree
          Root,        \* the root node
          Parent,      \* parent of every node but the root
          Anc,         \* strict ancestors of every node
          Keys,        \* names of secrets inside a node
          Hazards      \* the hazardous uses a run allows, see below

ASSUME IdsAssumption ==
    /\ Signers \subseteq Ids
    /\ Founder \in Signers
    /\ Recovery \cap Ids = {}

ASSUME TreeAssumption ==
    /\ Root \in Nodes
    /\ Parent \in [Nodes \ {Root} -> Nodes]
    /\ Anc \in [Nodes -> SUBSET Nodes]
    /\ Anc[Root] = {}
    /\ \A n \in Nodes \ {Root} : Anc[n] = {Parent[n]} \cup Anc[Parent[n]]
    /\ \A n \in Nodes : n \notin Anc[n]
    /\ \A n \in Nodes : \A m \in Anc[n] : Anc[m] \subseteq Anc[n]
    /\ \A n \in Nodes : \A m, q \in Anc[n] : m = q \/ m \in Anc[q] \/ q \in Anc[m]
    /\ \A n \in Nodes \ {Root} : Root \in Anc[n]

\* Uses of the commands that the code accepts and that leave a signature chain
\* which no longer verifies:
\*   "self_revoke"        an owner revokes its own ownership
\*   "delegated_subtree"  a subtree operation re-signs a node its actor does not own
\*   "rescue"             a recovery key appoints an owner without its parent
ASSUME HazardsAssumption ==
    Hazards \subseteq {"self_revoke", "delegated_subtree", "rescue"}

VARIABLES
    exists,        \* nodes that have a manifest in the store
    owners,        \* body.Owners of each node
    readers,       \* body.Readers of each node
    extra,         \* body.ExtraReaders of each node
    attested,      \* keys the parent attests for the node; for the root, the
                   \* trust anchors of store.json
    signer,        \* the key that signed the node's current body
    version,       \* body.Version of each node
    entries,       \* names in the node's index
    entryReaders,  \* entry.Readers of each name
    manifestEnv,   \* keys that decrypt the node's manifest
    indexEnv,      \* keys that decrypt the node's index
    objectEnv      \* keys that decrypt the object of each name

body == <<owners, readers, extra, attested, signer, version>>
content == <<entries, entryReaders>>
envelopes == <<manifestEnv, indexEnv, objectEnv>>
vars == <<exists, body, content, envelopes>>

Actors == Ids \cup Recovery

TypeOK ==
    /\ exists \subseteq Nodes
    /\ owners \in [Nodes -> SUBSET Ids]
    /\ readers \in [Nodes -> SUBSET Ids]
    /\ extra \in [Nodes -> SUBSET Ids]
    /\ attested \in [Nodes -> SUBSET Ids]
    /\ signer \in [Nodes -> Actors]
    /\ version \in [Nodes -> Nat]
    /\ entries \in [Nodes -> SUBSET Keys]
    /\ entryReaders \in [Nodes -> [Keys -> SUBSET Ids]]
    /\ manifestEnv \in [Nodes -> SUBSET Actors]
    /\ indexEnv \in [Nodes -> SUBSET Actors]
    /\ objectEnv \in [Nodes -> [Keys -> SUBSET Actors]]

-----------------------------------------------------------------------------
(* Recipient sets: one pure function of the tree for every artifact. *)

Below(n) == {m \in exists : n \in Anc[m]}

Members(n) == owners[n] \cup readers[n] \cup extra[n]

\* Mutant: the owners above are forgotten.
ManifestRecipientsBelow(n) ==
    Members(n) \cup (UNION {Members(m) : m \in Below(n)}) \cup Recovery

ManifestRecipients(n) ==
    Members(n) \cup (UNION {Members(m) : m \in Below(n)})
               \cup (UNION {owners[m] : m \in Anc[n]}) \cup Recovery

IndexRecipients(n) == Members(n) \cup Recovery

ObjectRecipients(n, k) == Members(n) \cup entryReaders[n][k] \cup Recovery

-----------------------------------------------------------------------------
(* What an actor can do with the published store. *)

\* The walk from the root reaches n: every manifest on the way decrypts.
Readable(a) ==
    {n \in exists : a \in manifestEnv[n] /\ \A m \in Anc[n] : a \in manifestEnv[m]}

\* Loading the tree verifies the signature of every node it reaches and fails
\* as a whole when one does not verify.
Verifies(a) ==
    /\ Root \in Readable(a)
    /\ \A n \in Readable(a) : signer[n] \in attested[n] \cup Recovery

Owns(a, n) == a \in owners[n]

\* Mutant: any member may sign.
MemberCanSign(a, n) == a \in Recovery \cup Members(n)

CanSign(a, n) == a \in Recovery \/ Owns(a, n)

\* The index of n and its objects of the names in ks decrypt.
Decrypts(a, n, ks) ==
    /\ a \in indexEnv[n]
    /\ \A k \in ks \cap entries[n] : a \in objectEnv[n][k]

\* a can enumerate the descendants of every node of S, which computing the
\* recipients of their manifests needs.
Enumerates(a, S) == \A n \in S : Below(n) \subseteq Readable(a)

\* The part common to every command: the tree verifies, the target is found by
\* name and its index decrypts.
Opens(a, n) == Verifies(a) /\ n \in Readable(a) /\ a \in indexEnv[n]

\* Re-signing every node of S, within what the run allows.
MayResign(a, S) ==
    /\ Enumerates(a, S)
    /\ a \in Recovery \/ "delegated_subtree" \in Hazards \/ \A n \in S : Owns(a, n)

-----------------------------------------------------------------------------
(* The steps the operations share. *)

Raised(v) == v + 1

\* Mutant: the version is left as it was.
BumpNone(S) == UNCHANGED version

Bump(S) == version' = [n \in Nodes |-> IF n \in S THEN Raised(version[n]) ELSE version[n]]

Resign(a, S) == signer' = [n \in Nodes |-> IF n \in S THEN a ELSE signer[n]]

\* Mutant: the index is re-encrypted to the keys it had, and the new ones.
WidenIndexes(S) ==
    indexEnv' = [n \in Nodes |-> IF n \in S THEN indexEnv[n] \cup IndexRecipients(n)'
                                 ELSE indexEnv[n]]

\* The index of every node of S is encrypted to its members.
WriteIndexes(S) ==
    indexEnv' = [n \in Nodes |-> IF n \in S THEN IndexRecipients(n)' ELSE indexEnv[n]]

\* Mutant: the recipients are those of the tree before the operation.
WriteStaleObjects(S, ks) ==
    objectEnv' = [n \in Nodes |-> [k \in Keys |->
                    IF n \in S /\ k \in ks \cap entries'[n]
                    THEN ObjectRecipients(n, k) ELSE objectEnv[n][k]]]

\* The objects of the names in ks, of every node of S, are re-encrypted.
WriteObjects(S, ks) ==
    objectEnv' = [n \in Nodes |-> [k \in Keys |->
                    IF n \in S /\ k \in ks \cap entries'[n]
                    THEN ObjectRecipients(n, k)' ELSE objectEnv[n][k]]]

\* Mutant: the manifests above and below are not widened.
WriteManifestsOnly(S, W, x) ==
    manifestEnv' = [n \in Nodes |-> IF n \in S THEN ManifestRecipients(n)'
                                    ELSE manifestEnv[n]]

\* The manifests of S are encrypted to their exact recipients; those of W are
\* only widened by x, which needs no signature.
WriteManifests(S, W, x) ==
    manifestEnv' = [n \in Nodes |->
                      IF n \in S THEN ManifestRecipients(n)'
                      ELSE IF n \in W THEN manifestEnv[n] \cup {x}
                      ELSE manifestEnv[n]]

\* Mutant: the field lists who decrypts the node, not who has the role.
WithRecipients(f, S, x) ==
    [n \in Nodes |-> IF n \in S THEN f[n] \cup {x} \cup Recovery ELSE f[n]]

With(f, S, x) == [n \in Nodes |-> IF n \in S THEN f[n] \cup {x} ELSE f[n]]

Without(f, S, x) == [n \in Nodes |-> IF n \in S THEN f[n] \ {x} ELSE f[n]]

WithoutEntries(S, x) ==
    [n \in Nodes |-> IF n \in S THEN [k \in Keys |-> entryReaders[n][k] \ {x}]
                     ELSE entryReaders[n]]

\* Ancestors whose envelope a recomputes on a revocation; the others keep x.
Shrinkable(a, n) == {m \in Anc[n] : Owns(a, m)}

-----------------------------------------------------------------------------
(* add *)

\* The path from the root to n, and the part of it that a does not find.
Spine(n) == {n} \cup Anc[n]

Missing(a, n) == Spine(n) \ Readable(a)

\* top is the deepest node of the path to n which a does find.
AttachesAt(a, n, top) ==
    /\ top \in Spine(n) \ Missing(a, n)
    /\ \A m \in Spine(n) \ Missing(a, n) : m = top \/ m \in Anc[top]

\* a stores a secret under name k of node n, creating the missing nodes of the
\* path with the owners and readers of the node they hang from; an existing
\* name is replaced only by force.  A segment that exists but is hidden from a
\* would be created a second time: OwnerSeesSubtree says there is none.
Add(a, n, top, k, force) ==
    LET missing == Missing(a, n)
        signed == missing \cup {top, n}
        inner == {m \in missing : \E c \in missing : m \in Anc[c]}
    IN  /\ Verifies(a)
        /\ AttachesAt(a, n, top)
        /\ Owns(a, top)
        /\ missing \cap exists = {}
        /\ n \in missing \/ a \in indexEnv[n]
        /\ k \in entries[n] => force
        /\ MayResign(a, {top})
        /\ exists' = exists \cup missing
        /\ owners' = [m \in Nodes |-> IF m \in missing THEN owners[top] ELSE owners[m]]
        /\ readers' = [m \in Nodes |-> IF m \in missing THEN readers[top] ELSE readers[m]]
        /\ attested' = [m \in Nodes |-> IF m \in missing THEN owners[top] ELSE attested[m]]
        /\ version' = [m \in Nodes |->
                         IF m \in inner THEN Raised(1)
                         ELSE IF m \in missing THEN 1
                         ELSE IF m = top /\ missing # {} THEN Raised(version[m])
                         ELSE version[m]]
        /\ entries' = [entries EXCEPT ![n] = @ \cup {k}]
        /\ UNCHANGED <<extra, entryReaders>>
        /\ Resign(a, signed)
        /\ WriteIndexes(missing \cup {n})
        /\ WriteObjects({n}, {k})
        /\ WriteManifests(signed, {}, a)

-----------------------------------------------------------------------------
(* grant *)

\* a lets x read name k of node n only.  Of the objects, only that of k is
\* re-encrypted.
GrantKey(a, n, x, k) ==
    /\ Opens(a, n)
    /\ CanSign(a, n)
    /\ k \in entries[n]
    /\ x \notin entryReaders[n][k]
    /\ Decrypts(a, n, {k})
    /\ MayResign(a, {n})
    /\ entryReaders' = [entryReaders EXCEPT ![n][k] = @ \cup {x}]
    /\ extra' = With(extra, {n}, x)
    /\ UNCHANGED <<exists, owners, readers, attested, entries>>
    /\ Bump({n})
    /\ Resign(a, {n})
    /\ WriteIndexes({n})
    /\ WriteObjects({n}, {k})
    /\ WriteManifests({n}, Anc[n], x)

\* Mutant: an owner of the descendant is made its reader too.
UngrantedOwners(n, x) == {m \in Below(n) : x \notin readers[m]}

\* Descendants a subtree grant to x changes.
Ungranted(n, x) == {m \in Below(n) : x \notin readers[m] \cup owners[m]}

\* a makes x a reader of node n, and of every node below it if subtree.
Grant(a, n, x, subtree) ==
    LET below == IF subtree THEN Ungranted(n, x) ELSE {}
        changed == {n} \cup below
        already == x \in readers[n] \cup owners[n]
    IN  /\ Opens(a, n)
        /\ CanSign(a, n)
        /\ already => subtree
        /\ \A m \in changed : Decrypts(a, m, Keys)
        /\ MayResign(a, changed)
        /\ readers' = With(readers, IF already THEN below ELSE changed, x)
        /\ UNCHANGED <<exists, owners, extra, attested, content>>
        /\ Bump(changed)
        /\ Resign(a, changed)
        /\ WriteIndexes(changed)
        /\ WriteObjects(changed, Keys)
        /\ WriteManifests(changed, Anc[n], x)

\* Mutant: the owner change leaves the parent alone.
NoParent(n) == {}

\* The parent whose attestation an owner change of n rewrites.
ParentOf(n) == IF n = Root THEN {} ELSE {Parent[n]}

\* a makes x an owner of node n, attested by the parent of n, and a reader of
\* everything below.  Recovery appoints without touching the parent.  An owner
\* of the root is appended to the trust anchors.
GrantOwner(a, n, x) ==
    LET parent == IF a \in Recovery THEN {} ELSE ParentOf(n)
        below == Ungranted(n, x)
        changed == {n} \cup below
    IN  /\ Opens(a, n)
        /\ CanSign(a, n)
        /\ x \in Signers \ owners[n]
        /\ \A p \in parent : Owns(a, p)
        /\ \A m \in changed : Decrypts(a, m, Keys)
        /\ MayResign(a, changed \cup parent)
        /\ owners' = With(owners, {n}, x)
        /\ readers' = With(Without(readers, {n}, x), below, x)
        /\ attested' = IF n = Root \/ parent # {} THEN With(attested, {n}, x) ELSE attested
        /\ UNCHANGED <<exists, extra, content>>
        /\ Bump(changed \cup parent)
        /\ Resign(a, changed \cup parent)
        /\ WriteIndexes(changed)
        /\ WriteObjects(changed, Keys)
        /\ WriteManifests(changed \cup parent, Anc[n] \cup Below(n), x)

\* kauket rescue: the holder of a recovery key appoints x as an owner of n.
Rescue(r, n, x) ==
    /\ "rescue" \in Hazards
    /\ r \in Recovery
    /\ GrantOwner(r, n, x)

-----------------------------------------------------------------------------
(* revoke *)

\* Mutant: the scan of the other names does not leave k out.
StillEntrySelf(n, x, k) == \E j \in entries[n] : x \in entryReaders[n][j]

\* x reads another name of node n than k.
StillEntry(n, x, k) == \E j \in entries[n] \ {k} : x \in entryReaders[n][j]

\* a takes name k of node n away from x.  All objects are re-encrypted.
RevokeKey(a, n, x, k) ==
    /\ Opens(a, n)
    /\ CanSign(a, n)
    /\ k \in entries[n]
    /\ x \in entryReaders[n][k]
    /\ Decrypts(a, n, Keys)
    /\ MayResign(a, {n})
    /\ Enumerates(a, Shrinkable(a, n))
    /\ entryReaders' = [entryReaders EXCEPT ![n][k] = @ \ {x}]
    /\ extra' = IF StillEntry(n, x, k) THEN extra ELSE Without(extra, {n}, x)
    /\ UNCHANGED <<exists, owners, readers, attested, entries>>
    /\ Bump({n})
    /\ Resign(a, {n})
    /\ WriteIndexes({n})
    /\ WriteObjects({n}, Keys)
    /\ WriteManifests({n} \cup Shrinkable(a, n), {}, a)

\* Descendants a subtree revocation of x changes.
Regranted(n, x) ==
    {m \in Below(n) : \/ x \in readers[m] \cup extra[m]
                      \/ \E k \in entries[m] : x \in entryReaders[m][k]}

\* a takes the reader role at node n away from x, and if subtree every reader
\* role and single-name grant of x below n.
Revoke(a, n, x, subtree) ==
    LET below == IF subtree THEN Regranted(n, x) ELSE {}
        changed == {n} \cup below
    IN  /\ Opens(a, n)
        /\ CanSign(a, n)
        /\ subtree => \A m \in Below(n) : m \in Readable(a) /\ a \in indexEnv[m]
        /\ x \in readers[n] \/ below # {}
        /\ \A m \in changed : Decrypts(a, m, Keys)
        /\ MayResign(a, changed)
        /\ Enumerates(a, Shrinkable(a, n))
        /\ readers' = Without(readers, changed, x)
        /\ extra' = Without(extra, below, x)
        /\ entryReaders' = WithoutEntries(below, x)
        /\ UNCHANGED <<exists, owners, attested, entries>>
        /\ Bump(changed)
        /\ Resign(a, changed)
        /\ WriteIndexes(changed)
        /\ WriteObjects(changed, Keys)
        /\ WriteManifests(changed \cup Shrinkable(a, n), {}, a)

\* a takes the ownership of node n away from x, with the attestation of the
\* parent and every reader role and single-name grant of x below n.  An owner
\* of the root leaves the trust anchors, unless it is the last of them.
RevokeOwner(a, n, x) ==
    LET parent == ParentOf(n)
        below == Regranted(n, x)
        changed == {n} \cup below
    IN  /\ Opens(a, n)
        /\ CanSign(a, n)
        /\ x \in owners[n]
        /\ owners[n] # {x}
        /\ a = x => "self_revoke" \in Hazards
        /\ \A p \in parent : Owns(a, p)
        /\ n = Root => attested[n] # {x}
        /\ \A m \in Below(n) : m \in Readable(a) /\ a \in indexEnv[m]
        /\ \A m \in changed : Decrypts(a, m, Keys)
        /\ MayResign(a, changed \cup parent)
        /\ Enumerates(a, Shrinkable(a, n) \cup Below(n))
        /\ owners' = Without(owners, {n}, x)
        /\ readers' = Without(readers, below, x)
        /\ extra' = Without(extra, below, x)
        /\ entryReaders' = WithoutEntries(below, x)
        /\ attested' = Without(attested, {n}, x)
        /\ UNCHANGED <<exists, entries>>
        /\ Bump(changed \cup parent)
        /\ Resign(a, changed \cup parent)
        /\ WriteIndexes(changed)
        /\ WriteObjects(changed, Keys)
        /\ WriteManifests(changed \cup parent \cup Shrinkable(a, n) \cup Below(n), {}, a)

-----------------------------------------------------------------------------
\* init publishes a root owned, signed and anchored by the founder.
Init ==
    LET only(n) == IF n = Root THEN {Founder} ELSE {}
    IN  /\ exists = {Root}
        /\ owners = [n \in Nodes |-> only(n)]
        /\ readers = [n \in Nodes |-> {}]
        /\ extra = [n \in Nodes |-> {}]
        /\ attested = [n \in Nodes |-> only(n)]
        /\ signer = [n \in Nodes |-> Founder]
        /\ version = [n \in Nodes |-> IF n = Root THEN 1 ELSE 0]
        /\ entries = [n \in Nodes |-> {}]
        /\ entryReaders = [n \in Nodes |-> [k \in Keys |-> {}]]
        /\ manifestEnv = [n \in Nodes |-> IF n = Root THEN {Founder} \cup Recovery ELSE {}]
        /\ indexEnv = [n \in Nodes |-> IF n = Root THEN {Founder} \cup Recovery ELSE {}]
        /\ objectEnv = [n \in Nodes |-> [k \in Keys |-> {}]]

Next ==
    \/ \E a \in Ids, n \in Nodes, top \in exists, k \in Keys, force \in BOOLEAN :
          Add(a, n, top, k, force)
    \/ \E a \in Ids, n \in exists, x \in Ids :
          \/ \E k \in Keys : GrantKey(a, n, x, k) \/ RevokeKey(a, n, x, k)
          \/ \E subtree \in BOOLEAN : Grant(a, n, x, subtree) \/ Revoke(a, n, x, subtree)
          \/ GrantOwner(a, n, x)
          \/ RevokeOwner(a, n, x)
    \/ \E r \in Recovery, n \in exists, x \in Ids : Rescue(r, n, x)

Spec == Init /\ [][Next]_vars

-----------------------------------------------------------------------------
(* Properties *)

\* Every key that must decrypt a manifest does: the members of the node and of
\* everything below it, who walk through it, and the owners above it, who
\* govern it.  The engine never recomputes an envelope it cannot enumerate and
\* widens it instead (engine.go widenAncestors); a step that forgot to would
\* lock somebody out without any error.
EnvelopeCovers == \A n \in exists : ManifestRecipients(n) \subseteq manifestEnv[n]

\* Whoever owns a node reads every manifest below it, so a path never seems to
\* be missing to the one who may create it and RecipientSet always enumerates.
OwnerSeesSubtree ==
    \A n \in exists : \A x \in owners[n] : {n} \cup Below(n) \subseteq Readable(x)

\* The index of a node decrypts for its members of record and nobody else: a
\* revoked member is out of the new ciphertext, however it lost its role.
IndexExact == \A n \in exists : indexEnv[n] = IndexRecipients(n)

\* A secret decrypts for the owners and readers of its node and the readers of
\* its own name, and for nobody who is not a member of its node.
ObjectAccess ==
    \A n \in exists : \A k \in entries[n] :
        /\ owners[n] \cup readers[n] \cup entryReaders[n][k] \cup Recovery
             \subseteq objectEnv[n][k]
        /\ objectEnv[n][k] \subseteq IndexRecipients(n)

\* ExtraReaders of the signed body is the union of the entry readers in the
\* encrypted index (design-v2.0, amendment A1): the two are edited separately.
ExtraIsUnion ==
    \A n \in exists : extra[n] = UNION {entryReaders[n][k] : k \in entries[n]}

\* A node always has an owner, owners can sign, and no owner is also listed as
\* a reader, which would survive the revocation of its ownership.
RolesWellFormed ==
    \A n \in exists : /\ owners[n] # {}
                      /\ owners[n] \subseteq Signers
                      /\ owners[n] \cap readers[n] = {}

\* The signature of every published manifest verifies against its parent's
\* attestation, or against the anchors: any one that does not stops every
\* command of everybody who reads it.
ChainVerifies == \A n \in exists : signer[n] \in attested[n] \cup Recovery

\* What the parent attests for a node, or store.json for the root, is the
\* ownership the node declares, two documents edited by the same command.
OwnersAttested == \A n \in exists : attested[n] = owners[n]

\* Nobody changes the members of a node without owning it or a node above it.
WriterOwnsSpine ==
    [][\A n \in exists :
          Members(n)' # Members(n) =>
              \/ signer'[n] \in Recovery
              \/ \E m \in {n} \cup Anc[n] : signer'[n] \in owners[m]]_vars

\* A change of the members of a node, or of what it attests, gives its body a
\* version no client has seen: pins cannot tell two bodies of one version.
MembershipRaisesVersion ==
    [][\A n \in exists :
          \/ version'[n] > version[n]
          \/ /\ owners'[n] = owners[n]
             /\ readers'[n] = readers[n]
             /\ extra'[n] = extra[n]
             /\ \A c \in Nodes \ {Root} : Parent[c] = n => attested'[c] = attested[c]]_vars
=============================================================================

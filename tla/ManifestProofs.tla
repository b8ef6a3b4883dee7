--------------------------- MODULE ManifestProofs ---------------------------
(***************************************************************************)
(* What the namespace tree guarantees for every set of identities and      *)
(* every tree, finite or infinite.                                         *)
(***************************************************************************)
EXTENDS Manifest, TLAPS

-----------------------------------------------------------------------------
(* Type correctness *)

RolesTyped ==
    /\ owners \in [Nodes -> SUBSET Ids]
    /\ readers \in [Nodes -> SUBSET Ids]
    /\ extra \in [Nodes -> SUBSET Ids]
    /\ attested \in [Nodes -> SUBSET Ids]

ContentTyped ==
    /\ entries \in [Nodes -> SUBSET Keys]
    /\ entryReaders \in [Nodes -> [Keys -> SUBSET Ids]]

EnvelopesTyped ==
    /\ manifestEnv \in [Nodes -> SUBSET Actors]
    /\ indexEnv \in [Nodes -> SUBSET Actors]
    /\ objectEnv \in [Nodes -> [Keys -> SUBSET Actors]]

\* TypeOK is the conjunction of these groups.
LEMMA TypeGroups ==
    TypeOK <=> /\ exists \subseteq Nodes
               /\ RolesTyped
               /\ signer \in [Nodes -> Actors]
               /\ version \in [Nodes -> Nat]
               /\ ContentTyped
               /\ EnvelopesTyped
  BY DEF TypeOK, RolesTyped, ContentTyped, EnvelopesTyped

\* A raised version is a version.
LEMMA RaisedType == ASSUME NEW v \in Nat PROVE Raised(v) \in Nat
  BY DEF Raised

LEMMA BumpType == ASSUME NEW S, Bump(S), version \in [Nodes -> Nat]
                  PROVE  version' \in [Nodes -> Nat]
  BY RaisedType DEF Bump

LEMMA ResignType == ASSUME NEW S, NEW a \in Actors, Resign(a, S),
                           signer \in [Nodes -> Actors]
                    PROVE  signer' \in [Nodes -> Actors]
  BY DEF Resign

\* Removing an identity from a field, or adding one, leaves it a field.
LEMMA FieldType == ASSUME NEW f \in [Nodes -> SUBSET Ids], NEW S, NEW x \in Ids
                   PROVE  /\ With(f, S, x) \in [Nodes -> SUBSET Ids]
                          /\ Without(f, S, x) \in [Nodes -> SUBSET Ids]
  BY DEF With, Without

LEMMA WithoutEntriesType ==
    ASSUME NEW S, NEW x, ContentTyped
    PROVE  WithoutEntries(S, x) \in [Nodes -> [Keys -> SUBSET Ids]]
  BY DEF WithoutEntries, ContentTyped

\* What the write operators encrypt to is a set of keys.
LEMMA WriteTypes ==
    ASSUME NEW S, NEW T, NEW U, NEW ks, NEW W, NEW x \in Actors,
           EnvelopesTyped, RolesTyped', ContentTyped',
           WriteIndexes(S), WriteObjects(T, ks), WriteManifests(U, W, x),
           exists' \subseteq Nodes
    PROVE  EnvelopesTyped'
<1>1. \A n \in Nodes : Members(n)' \subseteq Actors /\ owners'[n] \subseteq Actors
  BY DEF Members, RolesTyped, Actors
<1>2. indexEnv' \in [Nodes -> SUBSET Actors]
  <2>1. \A n \in Nodes : IndexRecipients(n)' \subseteq Actors
    BY <1>1 DEF IndexRecipients, Actors
  <2> QED BY <2>1 DEF WriteIndexes, EnvelopesTyped
<1>3. objectEnv' \in [Nodes -> [Keys -> SUBSET Actors]]
  <2>1. \A n \in Nodes, k \in Keys : ObjectRecipients(n, k)' \subseteq Actors
    BY <1>1 DEF ObjectRecipients, Actors, ContentTyped
  <2> QED BY <2>1 DEF WriteObjects, EnvelopesTyped
<1>4. manifestEnv' \in [Nodes -> SUBSET Actors]
  <2>1. \A n \in Nodes : ManifestRecipients(n)' \subseteq Actors
    <3> SUFFICES ASSUME NEW n \in Nodes PROVE ManifestRecipients(n)' \subseteq Actors
      OBVIOUS
    <3>1. \A m \in Below(n)' : m \in Nodes
      BY DEF Below
    <3>2. \A m \in Anc[n] : m \in Nodes
      BY TreeAssumption
    <3> QED BY <1>1, <3>1, <3>2 DEF ManifestRecipients, Actors
  <2> QED BY <2>1 DEF WriteManifests, EnvelopesTyped
<1> QED BY <1>2, <1>3, <1>4 DEF EnvelopesTyped

LEMMA AddType ==
    ASSUME TypeOK, NEW a \in Ids, NEW n \in Nodes, NEW top \in exists, NEW k \in Keys,
           NEW force, Add(a, n, top, k, force)
    PROVE  TypeOK'
<1> DEFINE missing == Missing(a, n)
<1> DEFINE signed == missing \cup {top, n}
<1>0. a \in Actors
  BY DEF Actors
<1>1. exists' \subseteq Nodes
  <2>1. missing \subseteq Nodes
    BY TreeAssumption DEF Missing, Spine
  <2> QED BY <2>1 DEF Add, TypeOK
<1>2. RolesTyped'
  BY DEF Add, TypeOK, RolesTyped
<1>3. signer' \in [Nodes -> Actors]
  <2>1. Resign(a, signed)
    BY DEF Add
  <2> QED BY <1>0, <2>1, ResignType DEF TypeOK
<1>4. version' \in [Nodes -> Nat]
  <2>1. 1 \in Nat
    OBVIOUS
  <2> QED BY <2>1, RaisedType DEF Add, TypeOK
<1>5. ContentTyped'
  BY DEF Add, TypeOK, ContentTyped
<1>6. EnvelopesTyped'
  <2>1. WriteIndexes(missing \cup {n}) /\ WriteObjects({n}, {k}) /\ WriteManifests(signed, {}, a)
    BY DEF Add
  <2>2. EnvelopesTyped
    BY TypeGroups
  <2> QED BY <1>0, <1>1, <1>2, <1>5, <2>1, <2>2, WriteTypes
<1> QED BY <1>1, <1>2, <1>3, <1>4, <1>5, <1>6 DEF TypeOK, RolesTyped, ContentTyped, EnvelopesTyped

LEMMA GrantKeyType ==
    ASSUME TypeOK, NEW a \in Ids, NEW n \in exists, NEW x \in Ids, NEW k \in Keys,
           GrantKey(a, n, x, k)
    PROVE  TypeOK'
<1>0. a \in Actors /\ x \in Actors
  BY DEF Actors
<1>1. exists' \subseteq Nodes
  BY DEF GrantKey, TypeOK
<1>2. RolesTyped'
  BY FieldType DEF GrantKey, TypeOK, RolesTyped
<1>3. signer' \in [Nodes -> Actors]
  <2>1. Resign(a, {n})
    BY DEF GrantKey
  <2> QED BY <1>0, <2>1, ResignType DEF TypeOK
<1>4. version' \in [Nodes -> Nat]
  <2>1. Bump({n})
    BY DEF GrantKey
  <2> QED BY <2>1, BumpType DEF TypeOK
<1>5. ContentTyped'
  BY DEF GrantKey, TypeOK, ContentTyped
<1>6. EnvelopesTyped'
  <2>1. WriteIndexes({n}) /\ WriteObjects({n}, {k})
        /\ WriteManifests({n}, Anc[n], x)
    BY DEF GrantKey
  <2>2. EnvelopesTyped
    BY TypeGroups
  <2> QED BY <1>0, <1>1, <1>2, <1>5, <2>1, <2>2, WriteTypes
<1> QED BY <1>1, <1>2, <1>3, <1>4, <1>5, <1>6 DEF TypeOK, RolesTyped, ContentTyped, EnvelopesTyped

LEMMA GrantType ==
    ASSUME TypeOK, NEW a \in Ids, NEW n \in exists, NEW x \in Ids, NEW subtree \in BOOLEAN,
           Grant(a, n, x, subtree)
    PROVE  TypeOK'
<1> DEFINE below == IF subtree THEN Ungranted(n, x) ELSE {}
<1> DEFINE changed == {n} \cup below
<1>0. a \in Actors /\ x \in Actors
  BY DEF Actors
<1>1. exists' \subseteq Nodes
  BY DEF Grant, TypeOK
<1>2. RolesTyped'
  BY FieldType DEF Grant, TypeOK, RolesTyped
<1>3. signer' \in [Nodes -> Actors]
  <2>1. Resign(a, changed)
    BY DEF Grant
  <2> QED BY <1>0, <2>1, ResignType DEF TypeOK
<1>4. version' \in [Nodes -> Nat]
  <2>1. Bump(changed)
    BY DEF Grant
  <2> QED BY <2>1, BumpType DEF TypeOK
<1>5. ContentTyped'
  BY DEF Grant, TypeOK, ContentTyped, content
<1>6. EnvelopesTyped'
  <2>1. WriteIndexes(changed) /\ WriteObjects(changed, Keys)
        /\ WriteManifests(changed, Anc[n], x)
    BY DEF Grant
  <2>2. EnvelopesTyped
    BY TypeGroups
  <2> QED BY <1>0, <1>1, <1>2, <1>5, <2>1, <2>2, WriteTypes
<1> QED BY <1>1, <1>2, <1>3, <1>4, <1>5, <1>6 DEF TypeOK, RolesTyped, ContentTyped, EnvelopesTyped

LEMMA GrantOwnerType ==
    ASSUME TypeOK, NEW a \in Actors, NEW n \in exists, NEW x \in Ids,
           GrantOwner(a, n, x)
    PROVE  TypeOK'
<1> DEFINE parent == IF a \in Recovery THEN {} ELSE ParentOf(n)
<1> DEFINE below == Ungranted(n, x)
<1> DEFINE changed == {n} \cup below
<1>0. a \in Actors /\ x \in Actors
  BY DEF Actors
<1>1. exists' \subseteq Nodes
  BY DEF GrantOwner, TypeOK
<1>2. RolesTyped'
  BY FieldType DEF GrantOwner, TypeOK, RolesTyped
<1>3. signer' \in [Nodes -> Actors]
  <2>1. Resign(a, changed \cup parent)
    BY DEF GrantOwner
  <2> QED BY <1>0, <2>1, ResignType DEF TypeOK
<1>4. version' \in [Nodes -> Nat]
  <2>1. Bump(changed \cup parent)
    BY DEF GrantOwner
  <2> QED BY <2>1, BumpType DEF TypeOK
<1>5. ContentTyped'
  BY DEF GrantOwner, TypeOK, ContentTyped, content
<1>6. EnvelopesTyped'
  <2>1. WriteIndexes(changed) /\ WriteObjects(changed, Keys)
        /\ WriteManifests(changed \cup parent, Anc[n] \cup Below(n), x)
    BY DEF GrantOwner
  <2>2. EnvelopesTyped
    BY TypeGroups
  <2> QED BY <1>0, <1>1, <1>2, <1>5, <2>1, <2>2, WriteTypes
<1> QED BY <1>1, <1>2, <1>3, <1>4, <1>5, <1>6 DEF TypeOK, RolesTyped, ContentTyped, EnvelopesTyped

LEMMA RevokeKeyType ==
    ASSUME TypeOK, NEW a \in Ids, NEW n \in exists, NEW x \in Ids, NEW k \in Keys,
           RevokeKey(a, n, x, k)
    PROVE  TypeOK'
<1>0. a \in Actors /\ x \in Actors
  BY DEF Actors
<1>1. exists' \subseteq Nodes
  BY DEF RevokeKey, TypeOK
<1>2. RolesTyped'
  BY FieldType DEF RevokeKey, TypeOK, RolesTyped
<1>3. signer' \in [Nodes -> Actors]
  <2>1. Resign(a, {n})
    BY DEF RevokeKey
  <2> QED BY <1>0, <2>1, ResignType DEF TypeOK
<1>4. version' \in [Nodes -> Nat]
  <2>1. Bump({n})
    BY DEF RevokeKey
  <2> QED BY <2>1, BumpType DEF TypeOK
<1>5. ContentTyped'
  BY DEF RevokeKey, TypeOK, ContentTyped
<1>6. EnvelopesTyped'
  <2>1. WriteIndexes({n}) /\ WriteObjects({n}, Keys)
        /\ WriteManifests({n} \cup Shrinkable(a, n), {}, a)
    BY DEF RevokeKey
  <2>2. EnvelopesTyped
    BY TypeGroups
  <2> QED BY <1>0, <1>1, <1>2, <1>5, <2>1, <2>2, WriteTypes
<1> QED BY <1>1, <1>2, <1>3, <1>4, <1>5, <1>6 DEF TypeOK, RolesTyped, ContentTyped, EnvelopesTyped

LEMMA RevokeType ==
    ASSUME TypeOK, NEW a \in Ids, NEW n \in exists, NEW x \in Ids, NEW subtree \in BOOLEAN,
           Revoke(a, n, x, subtree)
    PROVE  TypeOK'
<1> DEFINE below == IF subtree THEN Regranted(n, x) ELSE {}
<1> DEFINE changed == {n} \cup below
<1>0. a \in Actors /\ x \in Actors
  BY DEF Actors
<1>1. exists' \subseteq Nodes
  BY DEF Revoke, TypeOK
<1>2. RolesTyped'
  BY FieldType DEF Revoke, TypeOK, RolesTyped
<1>3. signer' \in [Nodes -> Actors]
  <2>1. Resign(a, changed)
    BY DEF Revoke
  <2> QED BY <1>0, <2>1, ResignType DEF TypeOK
<1>4. version' \in [Nodes -> Nat]
  <2>1. Bump(changed)
    BY DEF Revoke
  <2> QED BY <2>1, BumpType DEF TypeOK
<1>5. ContentTyped'
  BY WithoutEntriesType DEF Revoke, TypeOK, ContentTyped
<1>6. EnvelopesTyped'
  <2>1. WriteIndexes(changed) /\ WriteObjects(changed, Keys)
        /\ WriteManifests(changed \cup Shrinkable(a, n), {}, a)
    BY DEF Revoke
  <2>2. EnvelopesTyped
    BY TypeGroups
  <2> QED BY <1>0, <1>1, <1>2, <1>5, <2>1, <2>2, WriteTypes
<1> QED BY <1>1, <1>2, <1>3, <1>4, <1>5, <1>6 DEF TypeOK, RolesTyped, ContentTyped, EnvelopesTyped

LEMMA RevokeOwnerType ==
    ASSUME TypeOK, NEW a \in Ids, NEW n \in exists, NEW x \in Ids,
           RevokeOwner(a, n, x)
    PROVE  TypeOK'
<1> DEFINE parent == ParentOf(n)
<1> DEFINE below == Regranted(n, x)
<1> DEFINE changed == {n} \cup below
<1>0. a \in Actors /\ x \in Actors
  BY DEF Actors
<1>1. exists' \subseteq Nodes
  BY DEF RevokeOwner, TypeOK
<1>2. RolesTyped'
  BY FieldType DEF RevokeOwner, TypeOK, RolesTyped
<1>3. signer' \in [Nodes -> Actors]
  <2>1. Resign(a, changed \cup parent)
    BY DEF RevokeOwner
  <2> QED BY <1>0, <2>1, ResignType DEF TypeOK
<1>4. version' \in [Nodes -> Nat]
  <2>1. Bump(changed \cup parent)
    BY DEF RevokeOwner
  <2> QED BY <2>1, BumpType DEF TypeOK
<1>5. ContentTyped'
  BY WithoutEntriesType DEF RevokeOwner, TypeOK, ContentTyped
<1>6. EnvelopesTyped'
  <2>1. WriteIndexes(changed) /\ WriteObjects(changed, Keys)
        /\ WriteManifests(changed \cup parent \cup Shrinkable(a, n) \cup Below(n), {}, a)
    BY DEF RevokeOwner
  <2>2. EnvelopesTyped
    BY TypeGroups
  <2> QED BY <1>0, <1>1, <1>2, <1>5, <2>1, <2>2, WriteTypes
<1> QED BY <1>1, <1>2, <1>3, <1>4, <1>5, <1>6 DEF TypeOK, RolesTyped, ContentTyped, EnvelopesTyped

LEMMA InitType == Init => TypeOK
<1> SUFFICES ASSUME Init PROVE TypeOK
  OBVIOUS
<1>1. Founder \in Ids /\ Founder \in Actors
  BY IdsAssumption DEF Actors
<1>2. 0 \in Nat /\ 1 \in Nat
  OBVIOUS
<1> QED BY <1>1, <1>2, TreeAssumption DEF Init, TypeOK, Actors

\* Every step of the engine keeps the fields of the tree well typed.
LEMMA NextType == TypeOK /\ [Next]_vars => TypeOK'
<1> SUFFICES ASSUME TypeOK, [Next]_vars PROVE TypeOK'
  OBVIOUS
<1>1. ASSUME NEW a \in Ids, NEW n \in Nodes, NEW top \in exists, NEW k \in Keys,
             NEW force \in BOOLEAN, Add(a, n, top, k, force)
      PROVE  TypeOK'
  BY <1>1, AddType
<1>2. ASSUME NEW a \in Ids, NEW n \in exists, NEW x \in Ids,
             \/ \E k \in Keys : GrantKey(a, n, x, k) \/ RevokeKey(a, n, x, k)
             \/ \E subtree \in BOOLEAN : Grant(a, n, x, subtree) \/ Revoke(a, n, x, subtree)
             \/ GrantOwner(a, n, x)
             \/ RevokeOwner(a, n, x)
      PROVE  TypeOK'
  <2>1. a \in Actors
    BY DEF Actors
  <2> QED BY <1>2, <2>1, GrantKeyType, RevokeKeyType, GrantType, RevokeType,
             GrantOwnerType, RevokeOwnerType
<1>3. ASSUME NEW r \in Recovery, NEW n \in exists, NEW x \in Ids, Rescue(r, n, x)
      PROVE  TypeOK'
  <2>1. r \in Actors
    BY DEF Actors
  <2> QED BY <1>3, <2>1, GrantOwnerType DEF Rescue
<1>4. CASE UNCHANGED vars
  BY <1>4 DEF vars, body, content, envelopes, TypeOK
<1> QED BY <1>1, <1>2, <1>3, <1>4 DEF Next

\* The tree is well typed in every reachable state.
THEOREM TypeCorrect == Spec => []TypeOK
<1>1. Init => TypeOK
  BY InitType
<1>2. TypeOK /\ [Next]_vars => TypeOK'
  BY NextType
<1> QED BY <1>1, <1>2, PTL DEF Spec

-----------------------------------------------------------------------------
(* The shape of the tree *)

\* Published nodes form a tree hanging from the root; a position without a
\* manifest has no content, and a name without an entry has no readers.
Structure ==
    /\ Root \in exists
    /\ \A n \in exists : Anc[n] \subseteq exists
    /\ \A n \in Nodes \ exists : entries[n] = {} /\ extra[n] = {}
    /\ \A n \in Nodes, k \in Keys : k \notin entries[n] => entryReaders[n][k] = {}

\* The path to a node is closed under ancestors.
LEMMA SpineClosed == ASSUME NEW n \in Nodes, NEW m \in Spine(n)
                     PROVE  m \in Nodes /\ Anc[m] \subseteq Spine(n)
  BY TreeAssumption DEF Spine

\* What an actor finds on the path to a node exists.
LEMMA FoundExists == ASSUME NEW a, NEW n
                     PROVE  Spine(n) \ Missing(a, n) \subseteq exists
  BY DEF Missing, Readable

LEMMA AddStructure ==
    ASSUME TypeOK, Structure, NEW a \in Ids, NEW n \in Nodes, NEW top \in exists,
           NEW k \in Keys, NEW force, Add(a, n, top, k, force)
    PROVE  Structure'
<1>1. exists' = exists \cup Missing(a, n)
  BY DEF Add
<1>2. Spine(n) \subseteq exists'
  BY <1>1, FoundExists
<1>3. Root \in exists'
  BY <1>1 DEF Structure
<1>4. \A m \in exists' : Anc[m] \subseteq exists'
  <2>1. \A m \in Missing(a, n) : m \in Spine(n)
    BY DEF Missing
  <2> QED BY <1>1, <1>2, <2>1, SpineClosed DEF Structure
<1>5. n \in exists'
  BY <1>2 DEF Spine
<1>6. \A m \in Nodes \ exists' : entries'[m] = {} /\ extra'[m] = {}
  BY <1>1, <1>5 DEF Add, Structure, TypeOK
<1>7. \A m \in Nodes, j \in Keys : j \notin entries'[m] => entryReaders'[m][j] = {}
  BY DEF Add, Structure, TypeOK
<1> QED BY <1>3, <1>4, <1>6, <1>7 DEF Structure

\* Every other command only edits nodes that exist.
LEMMA EditStructure ==
    ASSUME TypeOK, Structure, UNCHANGED <<exists, entries>>,
           \A m \in Nodes \ exists : extra'[m] = {},
           \A m \in Nodes, j \in Keys : j \notin entries[m] => entryReaders'[m][j] = {}
    PROVE  Structure'
  BY DEF Structure

LEMMA GrantKeyStructure ==
    ASSUME TypeOK, Structure, NEW a, NEW n \in exists, NEW x, NEW k \in Keys,
           GrantKey(a, n, x, k)
    PROVE  Structure'
<1>1. /\ UNCHANGED <<exists, entries>>
      /\ extra' = With(extra, {n}, x)
      /\ k \in entries[n]
      /\ entryReaders' = [entryReaders EXCEPT ![n][k] = @ \cup {x}]
  BY DEF GrantKey
<1>2. \A m \in Nodes \ exists : extra'[m] = {}
  BY <1>1 DEF With, Structure
<1>3. \A m \in Nodes, j \in Keys : j \notin entries[m] => entryReaders'[m][j] = {}
  BY <1>1 DEF Structure, TypeOK
<1> QED BY <1>1, <1>2, <1>3, EditStructure

LEMMA RevokeKeyStructure ==
    ASSUME TypeOK, Structure, NEW a, NEW n \in exists, NEW x, NEW k \in Keys,
           RevokeKey(a, n, x, k)
    PROVE  Structure'
<1>1. /\ UNCHANGED <<exists, entries>>
      /\ extra' = extra \/ extra' = Without(extra, {n}, x)
      /\ k \in entries[n]
      /\ entryReaders' = [entryReaders EXCEPT ![n][k] = @ \ {x}]
  BY DEF RevokeKey
<1>2. \A m \in Nodes \ exists : extra'[m] = {}
  BY <1>1 DEF Without, Structure
<1>3. \A m \in Nodes, j \in Keys : j \notin entries[m] => entryReaders'[m][j] = {}
  BY <1>1 DEF Structure, TypeOK
<1> QED BY <1>1, <1>2, <1>3, EditStructure

LEMMA RevokeStructure ==
    ASSUME TypeOK, Structure, UNCHANGED <<exists, entries>>, NEW S, NEW x,
           extra' = Without(extra, S, x), entryReaders' = WithoutEntries(S, x)
    PROVE  Structure'
<1>1. \A m \in Nodes \ exists : extra'[m] = {}
  BY DEF Without, Structure
<1>2. \A m \in Nodes, j \in Keys : j \notin entries[m] => entryReaders'[m][j] = {}
  BY DEF WithoutEntries, Structure
<1> QED BY <1>1, <1>2, EditStructure

LEMMA NextStructure == TypeOK /\ Structure /\ [Next]_vars => Structure'
<1> SUFFICES ASSUME TypeOK, Structure, [Next]_vars PROVE Structure'
  OBVIOUS
<1>1. ASSUME NEW a \in Ids, NEW n \in Nodes, NEW top \in exists, NEW k \in Keys,
             NEW force \in BOOLEAN, Add(a, n, top, k, force)
      PROVE  Structure'
  BY <1>1, AddStructure
<1>2. ASSUME NEW a \in Ids, NEW n \in exists, NEW x \in Ids, NEW k \in Keys,
             GrantKey(a, n, x, k) \/ RevokeKey(a, n, x, k)
      PROVE  Structure'
  BY <1>2, GrantKeyStructure, RevokeKeyStructure
<1>3. ASSUME NEW a, NEW n \in exists, NEW x \in Ids,
             GrantOwner(a, n, x) \/ \E subtree \in BOOLEAN : Grant(a, n, x, subtree)
      PROVE  Structure'
  BY <1>3 DEF GrantOwner, Grant, content, Structure
<1>4. ASSUME NEW a \in Ids, NEW n \in exists, NEW x \in Ids, NEW subtree \in BOOLEAN,
             Revoke(a, n, x, subtree)
      PROVE  Structure'
  BY <1>4, RevokeStructure DEF Revoke
<1>5. ASSUME NEW a \in Ids, NEW n \in exists, NEW x \in Ids, RevokeOwner(a, n, x)
      PROVE  Structure'
  BY <1>5, RevokeStructure DEF RevokeOwner
<1>6. CASE UNCHANGED vars
  BY <1>6 DEF vars, body, content, envelopes, Structure
<1> QED BY <1>1, <1>2, <1>3, <1>4, <1>5, <1>6 DEF Next, Rescue

LEMMA InitStructure == Init => Structure
  BY TreeAssumption DEF Init, Structure

\* The published nodes always form a tree hanging from the root.
THEOREM StructureCorrect == Spec => []Structure
<1>1. Init => TypeOK /\ Structure
  BY InitType, InitStructure
<1>2. (TypeOK /\ Structure) /\ [Next]_vars => (TypeOK /\ Structure)'
  BY NextType, NextStructure
<1> QED BY <1>1, <1>2, PTL DEF Spec

-----------------------------------------------------------------------------
=============================================================================

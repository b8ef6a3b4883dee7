------------------------ MODULE ManifestAccessProofs ------------------------
(***************************************************************************)
(* Who decrypts what: the members of record of a node, its index and the   *)
(* objects of its names, for every tree and every set of identities.       *)
(***************************************************************************)
EXTENDS ManifestProofs

-----------------------------------------------------------------------------
(* The index of a node *)

\* A field is only changed where With and Without say.
LEMMA FieldElsewhere ==
    ASSUME NEW f, NEW S, NEW x, NEW m \in Nodes \ S
    PROVE  With(f, S, x)[m] = f[m] /\ Without(f, S, x)[m] = f[m]
  BY DEF With, Without

\* Writing the indexes of the nodes whose members changed keeps all exact.
LEMMA IndexStep ==
    ASSUME IndexExact, NEW S, WriteIndexes(S), exists' \subseteq Nodes,
           \A m \in exists' \ S : m \in exists /\ Members(m)' = Members(m)
    PROVE  IndexExact'
<1> SUFFICES ASSUME NEW m \in exists'
             PROVE  indexEnv'[m] = IndexRecipients(m)'
  BY DEF IndexExact
<1>1. CASE m \in S
  BY <1>1 DEF WriteIndexes
<1>2. CASE m \notin S
  BY <1>2 DEF WriteIndexes, IndexExact, IndexRecipients
<1> QED BY <1>1, <1>2

LEMMA AddIndex ==
    ASSUME TypeOK, IndexExact, NEW a \in Ids, NEW n \in Nodes, NEW top \in exists,
           NEW k \in Keys, NEW force, Add(a, n, top, k, force)
    PROVE  IndexExact'
<1>1. /\ exists' = exists \cup Missing(a, n)
      /\ WriteIndexes(Missing(a, n) \cup {n})
      /\ owners' = [m \in Nodes |-> IF m \in Missing(a, n) THEN owners[top] ELSE owners[m]]
      /\ readers' = [m \in Nodes |-> IF m \in Missing(a, n) THEN readers[top] ELSE readers[m]]
      /\ extra' = extra
  BY DEF Add
<1>2. exists' \subseteq Nodes
  BY AddType DEF TypeOK
<1>3. \A m \in exists' \ (Missing(a, n) \cup {n}) : m \in exists /\ Members(m)' = Members(m)
  BY <1>1 DEF Members, TypeOK
<1> QED BY <1>1, <1>2, <1>3, IndexStep

\* The other commands leave the members of a node alone unless they write it.
LEMMA EditIndex ==
    ASSUME TypeOK, IndexExact, exists' = exists, NEW S, WriteIndexes(S),
           \A m \in exists \ S : /\ owners'[m] = owners[m]
                                 /\ readers'[m] = readers[m]
                                 /\ extra'[m] = extra[m]
    PROVE  IndexExact'
<1>1. \A m \in exists' \ S : m \in exists /\ Members(m)' = Members(m)
  BY DEF Members
<1> QED BY <1>1, IndexStep DEF TypeOK

LEMMA NextIndex == TypeOK /\ IndexExact /\ [Next]_vars => IndexExact'
<1> SUFFICES ASSUME TypeOK, IndexExact, [Next]_vars PROVE IndexExact'
  OBVIOUS
<1>0. exists \subseteq Nodes
  BY DEF TypeOK
<1>1. ASSUME NEW a \in Ids, NEW n \in Nodes, NEW top \in exists, NEW k \in Keys,
             NEW force \in BOOLEAN, Add(a, n, top, k, force)
      PROVE  IndexExact'
  BY <1>1, AddIndex
<1>2. ASSUME NEW a \in Ids, NEW n \in exists, NEW x \in Ids, NEW k \in Keys,
             GrantKey(a, n, x, k)
      PROVE  IndexExact'
  <2>1. /\ UNCHANGED <<exists, owners, readers>>
        /\ extra' = With(extra, {n}, x)
        /\ WriteIndexes({n})
    BY <1>2 DEF GrantKey
  <2> QED BY <1>0, <2>1, FieldElsewhere, EditIndex
<1>3. ASSUME NEW a \in Ids, NEW n \in exists, NEW x \in Ids, NEW subtree \in BOOLEAN,
             Grant(a, n, x, subtree)
      PROVE  IndexExact'
  <2> DEFINE below == IF subtree THEN Ungranted(n, x) ELSE {}
  <2>1. /\ UNCHANGED <<exists, owners, extra>>
        /\ \E S \in SUBSET ({n} \cup below) : readers' = With(readers, S, x)
        /\ WriteIndexes({n} \cup below)
    BY <1>3 DEF Grant
  <2> QED BY <1>0, <2>1, FieldElsewhere, EditIndex
<1>4. ASSUME NEW a, NEW n \in exists, NEW x \in Ids, GrantOwner(a, n, x)
      PROVE  IndexExact'
  <2>1. /\ UNCHANGED <<exists, extra>>
        /\ owners' = With(owners, {n}, x)
        /\ readers' = With(Without(readers, {n}, x), Ungranted(n, x), x)
        /\ WriteIndexes({n} \cup Ungranted(n, x))
    BY <1>4 DEF GrantOwner
  <2> QED BY <1>0, <2>1, FieldElsewhere, EditIndex
<1>5. ASSUME NEW a \in Ids, NEW n \in exists, NEW x \in Ids, NEW k \in Keys,
             RevokeKey(a, n, x, k)
      PROVE  IndexExact'
  <2>1. /\ UNCHANGED <<exists, owners, readers>>
        /\ extra' = extra \/ extra' = Without(extra, {n}, x)
        /\ WriteIndexes({n})
    BY <1>5 DEF RevokeKey
  <2> QED BY <1>0, <2>1, FieldElsewhere, EditIndex
<1>6. ASSUME NEW a \in Ids, NEW n \in exists, NEW x \in Ids, NEW subtree \in BOOLEAN,
             Revoke(a, n, x, subtree)
      PROVE  IndexExact'
  <2> DEFINE below == IF subtree THEN Regranted(n, x) ELSE {}
  <2>1. /\ UNCHANGED <<exists, owners>>
        /\ readers' = Without(readers, {n} \cup below, x)
        /\ extra' = Without(extra, below, x)
        /\ WriteIndexes({n} \cup below)
    BY <1>6 DEF Revoke
  <2> QED BY <1>0, <2>1, FieldElsewhere, EditIndex
<1>7. ASSUME NEW a \in Ids, NEW n \in exists, NEW x \in Ids, RevokeOwner(a, n, x)
      PROVE  IndexExact'
  <2>1. /\ UNCHANGED exists
        /\ owners' = Without(owners, {n}, x)
        /\ readers' = Without(readers, Regranted(n, x), x)
        /\ extra' = Without(extra, Regranted(n, x), x)
        /\ WriteIndexes({n} \cup Regranted(n, x))
    BY <1>7 DEF RevokeOwner
  <2> QED BY <1>0, <2>1, FieldElsewhere, EditIndex
<1>8. CASE UNCHANGED vars
  BY <1>8 DEF vars, body, envelopes, IndexExact, IndexRecipients, Members
<1> QED BY <1>1, <1>2, <1>3, <1>4, <1>5, <1>6, <1>7, <1>8 DEF Next, Rescue

LEMMA InitIndex == Init => IndexExact
  BY TreeAssumption DEF Init, IndexExact, IndexRecipients, Members

\* In every reachable state the index of a node decrypts for exactly its
\* members of record and the recovery keys: nobody revoked keeps the current
\* ciphertext, and no member is locked out of it.
THEOREM IndexCorrect == Spec => []IndexExact
<1>1. Init => TypeOK /\ IndexExact
  BY InitType, InitIndex
<1>2. (TypeOK /\ IndexExact) /\ [Next]_vars => (TypeOK /\ IndexExact)'
  BY NextType, NextIndex
<1> QED BY <1>1, <1>2, PTL DEF Spec

-----------------------------------------------------------------------------
(* Roles *)

LEMMA NextRoles == TypeOK /\ RolesWellFormed /\ [Next]_vars => RolesWellFormed'
<1> SUFFICES ASSUME TypeOK, RolesWellFormed, [Next]_vars PROVE RolesWellFormed'
  OBVIOUS
<1>0. exists \subseteq Nodes
  BY DEF TypeOK
<1>1. ASSUME NEW a \in Ids, NEW n \in Nodes, NEW top \in exists, NEW k \in Keys,
             NEW force \in BOOLEAN, Add(a, n, top, k, force)
      PROVE  RolesWellFormed'
  <2>1. /\ exists' = exists \cup Missing(a, n)
        /\ owners' = [m \in Nodes |-> IF m \in Missing(a, n) THEN owners[top] ELSE owners[m]]
        /\ readers' = [m \in Nodes |-> IF m \in Missing(a, n) THEN readers[top] ELSE readers[m]]
    BY <1>1 DEF Add
  <2>2. exists' \subseteq Nodes
    BY <1>1, AddType DEF TypeOK
  <2> QED BY <2>1, <2>2 DEF RolesWellFormed
<1>2. ASSUME NEW a \in Ids, NEW n \in exists, NEW x \in Ids, NEW k \in Keys,
             GrantKey(a, n, x, k) \/ RevokeKey(a, n, x, k)
      PROVE  RolesWellFormed'
  <2>1. UNCHANGED <<exists, owners, readers>>
    BY <1>2 DEF GrantKey, RevokeKey
  <2> QED BY <2>1 DEF RolesWellFormed
<1>3. ASSUME NEW a \in Ids, NEW n \in exists, NEW x \in Ids, NEW subtree \in BOOLEAN,
             Grant(a, n, x, subtree)
      PROVE  RolesWellFormed'
  <2> DEFINE below == IF subtree THEN Ungranted(n, x) ELSE {}
  <2> DEFINE S == IF x \in readers[n] \cup owners[n] THEN below ELSE {n} \cup below
  <2>1. UNCHANGED <<exists, owners>> /\ readers' = With(readers, S, x)
    BY <1>3 DEF Grant
  <2>2. \A m \in S : x \notin owners[m]
    BY DEF Ungranted
  <2> HIDE DEF S
  <2> QED BY <1>0, <2>1, <2>2 DEF RolesWellFormed, With
<1>4. ASSUME NEW a, NEW n \in exists, NEW x \in Ids, GrantOwner(a, n, x)
      PROVE  RolesWellFormed'
  <2>1. /\ UNCHANGED exists
        /\ x \in Signers
        /\ owners' = With(owners, {n}, x)
        /\ readers' = With(Without(readers, {n}, x), Ungranted(n, x), x)
    BY <1>4 DEF GrantOwner
  <2>2. n \notin Ungranted(n, x) /\ \A m \in Ungranted(n, x) : x \notin owners[m]
    BY <1>0, TreeAssumption DEF Ungranted, Below
  <2> QED BY <1>0, <2>1, <2>2 DEF RolesWellFormed, With, Without
<1>5. ASSUME NEW a \in Ids, NEW n \in exists, NEW x \in Ids, NEW subtree \in BOOLEAN,
             Revoke(a, n, x, subtree)
      PROVE  RolesWellFormed'
  <2> DEFINE below == IF subtree THEN Regranted(n, x) ELSE {}
  <2>1. UNCHANGED <<exists, owners>> /\ readers' = Without(readers, {n} \cup below, x)
    BY <1>5 DEF Revoke
  <2> QED BY <1>0, <2>1 DEF RolesWellFormed, Without
<1>6. ASSUME NEW a \in Ids, NEW n \in exists, NEW x \in Ids, RevokeOwner(a, n, x)
      PROVE  RolesWellFormed'
  <2>1. /\ UNCHANGED exists
        /\ owners[n] # {x}
        /\ x \in owners[n]
        /\ owners' = Without(owners, {n}, x)
        /\ readers' = Without(readers, Regranted(n, x), x)
    BY <1>6 DEF RevokeOwner
  <2> QED BY <1>0, <2>1 DEF RolesWellFormed, Without
<1>7. CASE UNCHANGED vars
  BY <1>7 DEF vars, body, RolesWellFormed
<1> QED BY <1>1, <1>2, <1>3, <1>4, <1>5, <1>6, <1>7 DEF Next, Rescue

LEMMA InitRoles == Init => RolesWellFormed
  BY TreeAssumption, IdsAssumption DEF Init, RolesWellFormed

\* In every reachable state every node has an owner, owners can sign, and no
\* owner is also a reader of the same node.
THEOREM RolesCorrect == Spec => []RolesWellFormed
<1>1. Init => TypeOK /\ RolesWellFormed
  BY InitType, InitRoles
<1>2. (TypeOK /\ RolesWellFormed) /\ [Next]_vars => (TypeOK /\ RolesWellFormed)'
  BY NextType, NextRoles
<1> QED BY <1>1, <1>2, PTL DEF Spec

-----------------------------------------------------------------------------
(* Readers of single names *)

\* ExtraIsUnion, one identity at a time.
ExtraExact ==
    \A n \in exists, z \in Ids :
        z \in extra[n] <=> \E k \in entries[n] : z \in entryReaders[n][k]

LEMMA ExtraPointwise == TypeOK => (ExtraIsUnion <=> ExtraExact)
<1> SUFFICES ASSUME TypeOK PROVE ExtraIsUnion <=> ExtraExact
  OBVIOUS
<1>1. \A n \in exists : extra[n] \subseteq Ids
  BY DEF TypeOK
<1>2. \A n \in exists : \A k \in entries[n] : entryReaders[n][k] \subseteq Ids
  BY DEF TypeOK
<1> QED BY <1>1, <1>2 DEF ExtraIsUnion, ExtraExact

LEMMA NextExtra == TypeOK /\ Structure /\ ExtraExact /\ [Next]_vars => ExtraExact'
<1> SUFFICES ASSUME TypeOK, Structure, ExtraExact, [Next]_vars PROVE ExtraExact'
  OBVIOUS
<1>0. exists \subseteq Nodes /\ \A m \in Nodes : entries[m] \subseteq Keys
  BY DEF TypeOK
<1>1. ASSUME NEW a \in Ids, NEW n \in Nodes, NEW top \in exists, NEW k \in Keys,
             NEW force \in BOOLEAN, Add(a, n, top, k, force)
      PROVE  ExtraExact'
  <2>1. /\ UNCHANGED <<extra, entryReaders>>
        /\ entries' = [entries EXCEPT ![n] = @ \cup {k}]
        /\ exists' \subseteq Nodes
    BY <1>1, AddType DEF Add, TypeOK
  <2>2. \A m \in Nodes \ exists, z \in Ids :
           z \in extra[m] <=> \E j \in entries[m] : z \in entryReaders[m][j]
    BY DEF Structure
  <2>3. \A m \in Nodes : entries'[m] = IF m = n THEN entries[n] \cup {k} ELSE entries[m]
    BY <2>1 DEF TypeOK
  <2>4. k \in entries[n] \/ entryReaders[n][k] = {}
    BY DEF Structure
  <2> QED BY <2>1, <2>2, <2>3, <2>4 DEF ExtraExact
<1>2. ASSUME NEW a \in Ids, NEW n \in exists, NEW x \in Ids, NEW k \in Keys,
             GrantKey(a, n, x, k)
      PROVE  ExtraExact'
  <2>1. /\ UNCHANGED <<exists, entries>>
        /\ k \in entries[n]
        /\ extra' = With(extra, {n}, x)
        /\ entryReaders' = [entryReaders EXCEPT ![n][k] = @ \cup {x}]
    BY <1>2 DEF GrantKey
  <2>2. \A m \in Nodes, j \in Keys :
           entryReaders'[m][j] = IF m = n /\ j = k THEN entryReaders[n][k] \cup {x}
                                 ELSE entryReaders[m][j]
    BY <2>1 DEF TypeOK
  <2> QED BY <1>0, <2>1, <2>2 DEF ExtraExact, With
<1>3. ASSUME NEW a, NEW n \in exists, NEW x \in Ids,
             GrantOwner(a, n, x) \/ \E subtree \in BOOLEAN : Grant(a, n, x, subtree)
      PROVE  ExtraExact'
  BY <1>3 DEF GrantOwner, Grant, content, ExtraExact
<1>4. ASSUME NEW a \in Ids, NEW n \in exists, NEW x \in Ids, NEW k \in Keys,
             RevokeKey(a, n, x, k)
      PROVE  ExtraExact'
  <2>1. /\ UNCHANGED <<exists, entries>>
        /\ extra' = IF StillEntry(n, x, k) THEN extra ELSE Without(extra, {n}, x)
        /\ entryReaders' = [entryReaders EXCEPT ![n][k] = @ \ {x}]
    BY <1>4 DEF RevokeKey
  <2>2. \A m \in Nodes, j \in Keys :
           entryReaders'[m][j] = IF m = n /\ j = k THEN entryReaders[n][k] \ {x}
                                 ELSE entryReaders[m][j]
    BY <2>1 DEF TypeOK
  <2>3. CASE StillEntry(n, x, k)
    BY <1>0, <2>1, <2>2, <2>3 DEF ExtraExact, StillEntry
  <2>4. CASE ~StillEntry(n, x, k)
    BY <1>0, <2>1, <2>2, <2>4 DEF ExtraExact, StillEntry, Without
  <2> QED BY <2>3, <2>4
<1>5. ASSUME NEW S, NEW x, UNCHANGED <<exists, entries>>,
             extra' = Without(extra, S, x), entryReaders' = WithoutEntries(S, x)
      PROVE  ExtraExact'
  BY <1>0, <1>5 DEF ExtraExact, Without, WithoutEntries
<1>6. ASSUME NEW a \in Ids, NEW n \in exists, NEW x \in Ids, NEW subtree \in BOOLEAN,
             Revoke(a, n, x, subtree)
      PROVE  ExtraExact'
  BY <1>5, <1>6 DEF Revoke
<1>7. ASSUME NEW a \in Ids, NEW n \in exists, NEW x \in Ids, RevokeOwner(a, n, x)
      PROVE  ExtraExact'
  BY <1>5, <1>7 DEF RevokeOwner
<1>8. CASE UNCHANGED vars
  BY <1>8 DEF vars, body, content, ExtraExact
<1> QED BY <1>1, <1>2, <1>3, <1>4, <1>6, <1>7, <1>8 DEF Next, Rescue

LEMMA InitExtra == Init => ExtraExact
  BY TreeAssumption DEF Init, ExtraExact

\* What the extra readers need to be inductive.
ExtraInv == TypeOK /\ Structure /\ ExtraExact

LEMMA ExtraInductive == /\ Init => ExtraInv
                        /\ ExtraInv /\ [Next]_vars => ExtraInv'
                        /\ ExtraInv => ExtraIsUnion
<1>1. Init => ExtraInv
  BY InitType, InitStructure, InitExtra DEF ExtraInv
<1>2. ExtraInv /\ [Next]_vars => ExtraInv'
  BY NextType, NextStructure, NextExtra DEF ExtraInv
<1>3. ExtraInv => ExtraIsUnion
  BY ExtraPointwise DEF ExtraInv
<1> QED BY <1>1, <1>2, <1>3

\* In every reachable state the extra readers in the signed body of a node are
\* the union of the readers of its names in the encrypted index.
THEOREM ExtraCorrect == Spec => []ExtraIsUnion
  BY ExtraInductive, PTL DEF Spec

-----------------------------------------------------------------------------
(* Objects *)

\* An object is either written by a step, or already there and the step neither
\* gave anybody access to it nor took away a member of its node.
ObjectKept(m, k) ==
    /\ m \in exists
    /\ k \in entries[m]
    /\ owners'[m] \cup readers'[m] \cup entryReaders'[m][k]
         \subseteq owners[m] \cup readers[m] \cup entryReaders[m][k]
    /\ Members(m) \subseteq Members(m)'

LEMMA ObjectStep ==
    ASSUME TypeOK, TypeOK', ExtraExact', ObjectAccess, NEW S, NEW ks, WriteObjects(S, ks),
           \A m \in exists' : \A k \in entries'[m] : (m \in S /\ k \in ks) \/ ObjectKept(m, k)
    PROVE  ObjectAccess'
<1> SUFFICES ASSUME NEW m \in exists', NEW k \in entries'[m]
             PROVE  /\ owners'[m] \cup readers'[m] \cup entryReaders'[m][k] \cup Recovery
                         \subseteq objectEnv'[m][k]
                    /\ objectEnv'[m][k] \subseteq IndexRecipients(m)'
  BY DEF ObjectAccess
<1>0. m \in Nodes /\ k \in Keys
  BY DEF TypeOK
<1>1. CASE m \in S /\ k \in ks
  <2>1. objectEnv'[m][k] = ObjectRecipients(m, k)'
    BY <1>0, <1>1 DEF WriteObjects
  <2>2. entryReaders'[m][k] \subseteq extra'[m]
    BY <1>0 DEF ExtraExact, TypeOK
  <2> QED BY <2>1, <2>2 DEF ObjectRecipients, IndexRecipients, Members
<1>2. CASE ~(m \in S /\ k \in ks)
  <2>1. objectEnv'[m][k] = objectEnv[m][k]
    BY <1>0, <1>2 DEF WriteObjects
  <2>2. ObjectKept(m, k)
    BY <1>2
  <2> QED BY <2>1, <2>2 DEF ObjectKept, ObjectAccess, IndexRecipients
<1> QED BY <1>1, <1>2

\* The commands that rewrite every object of the nodes they change.
LEMMA EditObjects ==
    ASSUME TypeOK, TypeOK', ExtraExact', ObjectAccess, NEW S, WriteObjects(S, Keys),
           UNCHANGED <<exists, entries>>,
           \A m \in exists \ S : /\ owners'[m] = owners[m]
                                 /\ readers'[m] = readers[m]
                                 /\ extra'[m] = extra[m]
                                 /\ entryReaders'[m] = entryReaders[m]
    PROVE  ObjectAccess'
<1>1. \A m \in exists' : \A k \in entries'[m] : (m \in S /\ k \in Keys) \/ ObjectKept(m, k)
  <2> SUFFICES ASSUME NEW m \in exists, NEW k \in entries[m], m \notin S
               PROVE  ObjectKept(m, k)
    BY DEF TypeOK
  <2> QED BY DEF ObjectKept, Members
<1> QED BY <1>1, ObjectStep

LEMMA AddObjects ==
    ASSUME TypeOK, TypeOK', Structure, ExtraExact', ObjectAccess, NEW a \in Ids,
           NEW n \in Nodes, NEW top \in exists, NEW k \in Keys, NEW force,
           Add(a, n, top, k, force)
    PROVE  ObjectAccess'
<1>1. /\ exists' = exists \cup Missing(a, n)
      /\ Missing(a, n) \cap exists = {}
      /\ owners' = [m \in Nodes |-> IF m \in Missing(a, n) THEN owners[top] ELSE owners[m]]
      /\ readers' = [m \in Nodes |-> IF m \in Missing(a, n) THEN readers[top] ELSE readers[m]]
      /\ UNCHANGED <<extra, entryReaders>>
      /\ entries' = [entries EXCEPT ![n] = @ \cup {k}]
      /\ WriteObjects({n}, {k})
  BY DEF Add
<1>2. ASSUME NEW m \in exists', NEW j \in entries'[m], ~(m \in {n} /\ j \in {k})
      PROVE  ObjectKept(m, j)
  <2>0. m \in Nodes
    BY DEF TypeOK
  <2>1. j \in entries[m]
    BY <1>1, <1>2, <2>0 DEF TypeOK
  <2>2. m \in exists
    BY <2>0, <2>1 DEF Structure
  <2>3. owners'[m] = owners[m] /\ readers'[m] = readers[m]
    BY <1>1, <2>0, <2>2
  <2> QED BY <1>1, <2>1, <2>2, <2>3 DEF ObjectKept, Members
<1> QED BY <1>1, <1>2, ObjectStep

LEMMA GrantKeyObjects ==
    ASSUME TypeOK, TypeOK', ExtraExact', ObjectAccess, NEW a, NEW n \in exists,
           NEW x, NEW k \in Keys, GrantKey(a, n, x, k)
    PROVE  ObjectAccess'
<1>1. /\ UNCHANGED <<exists, owners, readers, entries>>
      /\ extra' = With(extra, {n}, x)
      /\ entryReaders' = [entryReaders EXCEPT ![n][k] = @ \cup {x}]
      /\ WriteObjects({n}, {k})
  BY DEF GrantKey
<1>2. ASSUME NEW m \in exists', NEW j \in entries'[m], ~(m \in {n} /\ j \in {k})
      PROVE  ObjectKept(m, j)
  <2>0. m \in Nodes /\ m \in exists /\ j \in entries[m] /\ j \in Keys
    BY <1>1 DEF TypeOK
  <2>1. entryReaders'[m][j] = entryReaders[m][j]
    BY <1>1, <1>2, <2>0 DEF TypeOK
  <2>2. extra[m] \subseteq extra'[m]
    BY <1>1, <2>0 DEF With
  <2> QED BY <1>1, <2>0, <2>1, <2>2 DEF ObjectKept, Members
<1> QED BY <1>1, <1>2, ObjectStep

LEMMA NextObjects ==
    TypeOK /\ Structure /\ ExtraExact /\ ObjectAccess /\ [Next]_vars => ObjectAccess'
<1> SUFFICES ASSUME TypeOK, Structure, ExtraExact, ObjectAccess, [Next]_vars
             PROVE  ObjectAccess'
  OBVIOUS
<1>0. TypeOK' /\ ExtraExact' /\ exists \subseteq Nodes
  BY NextType, NextExtra DEF TypeOK
<1>1. ASSUME NEW a \in Ids, NEW n \in Nodes, NEW top \in exists, NEW k \in Keys,
             NEW force \in BOOLEAN, Add(a, n, top, k, force)
      PROVE  ObjectAccess'
  BY <1>0, <1>1, AddObjects
<1>2. ASSUME NEW a \in Ids, NEW n \in exists, NEW x \in Ids, NEW k \in Keys,
             GrantKey(a, n, x, k)
      PROVE  ObjectAccess'
  BY <1>0, <1>2, GrantKeyObjects
<1>3. ASSUME NEW a \in Ids, NEW n \in exists, NEW x \in Ids, NEW subtree \in BOOLEAN,
             Grant(a, n, x, subtree)
      PROVE  ObjectAccess'
  <2> DEFINE below == IF subtree THEN Ungranted(n, x) ELSE {}
  <2>1. /\ UNCHANGED <<exists, owners, extra, entries, entryReaders>>
        /\ \E S \in SUBSET ({n} \cup below) : readers' = With(readers, S, x)
        /\ WriteObjects({n} \cup below, Keys)
    BY <1>3 DEF Grant, content
  <2> QED BY <1>0, <2>1, FieldElsewhere, EditObjects
<1>4. ASSUME NEW a, NEW n \in exists, NEW x \in Ids, GrantOwner(a, n, x)
      PROVE  ObjectAccess'
  <2>1. /\ UNCHANGED <<exists, extra, entries, entryReaders>>
        /\ owners' = With(owners, {n}, x)
        /\ readers' = With(Without(readers, {n}, x), Ungranted(n, x), x)
        /\ WriteObjects({n} \cup Ungranted(n, x), Keys)
    BY <1>4 DEF GrantOwner, content
  <2> QED BY <1>0, <2>1, FieldElsewhere, EditObjects
<1>5. ASSUME NEW a \in Ids, NEW n \in exists, NEW x \in Ids, NEW k \in Keys,
             RevokeKey(a, n, x, k)
      PROVE  ObjectAccess'
  <2>1. /\ UNCHANGED <<exists, owners, readers, entries>>
        /\ extra' = extra \/ extra' = Without(extra, {n}, x)
        /\ entryReaders' = [entryReaders EXCEPT ![n][k] = @ \ {x}]
        /\ WriteObjects({n}, Keys)
    BY <1>5 DEF RevokeKey
  <2>2. \A m \in exists \ {n} : entryReaders'[m] = entryReaders[m]
    BY <1>0, <2>1 DEF TypeOK
  <2> QED BY <1>0, <2>1, <2>2, FieldElsewhere, EditObjects
<1>6. ASSUME NEW a \in Ids, NEW n \in exists, NEW x \in Ids, NEW subtree \in BOOLEAN,
             Revoke(a, n, x, subtree)
      PROVE  ObjectAccess'
  <2> DEFINE below == IF subtree THEN Regranted(n, x) ELSE {}
  <2>1. /\ UNCHANGED <<exists, owners, entries>>
        /\ readers' = Without(readers, {n} \cup below, x)
        /\ extra' = Without(extra, below, x)
        /\ entryReaders' = WithoutEntries(below, x)
        /\ WriteObjects({n} \cup below, Keys)
    BY <1>6 DEF Revoke
  <2>2. \A m \in exists \ below : entryReaders'[m] = entryReaders[m]
    BY <1>0, <2>1 DEF WithoutEntries
  <2> QED BY <1>0, <2>1, <2>2, FieldElsewhere, EditObjects
<1>7. ASSUME NEW a \in Ids, NEW n \in exists, NEW x \in Ids, RevokeOwner(a, n, x)
      PROVE  ObjectAccess'
  <2>1. /\ UNCHANGED <<exists, entries>>
        /\ owners' = Without(owners, {n}, x)
        /\ readers' = Without(readers, Regranted(n, x), x)
        /\ extra' = Without(extra, Regranted(n, x), x)
        /\ entryReaders' = WithoutEntries(Regranted(n, x), x)
        /\ WriteObjects({n} \cup Regranted(n, x), Keys)
    BY <1>7 DEF RevokeOwner
  <2>2. \A m \in exists \ Regranted(n, x) : entryReaders'[m] = entryReaders[m]
    BY <1>0, <2>1 DEF WithoutEntries
  <2> QED BY <1>0, <2>1, <2>2, FieldElsewhere, EditObjects
<1>8. CASE UNCHANGED vars
  BY <1>8 DEF vars, body, content, envelopes, ObjectAccess, IndexRecipients, Members
<1> QED BY <1>1, <1>2, <1>3, <1>4, <1>5, <1>6, <1>7, <1>8 DEF Next, Rescue

LEMMA InitObjects == Init => ObjectAccess
  BY TreeAssumption DEF Init, ObjectAccess

\* In every reachable state a secret decrypts for the owners and readers of its
\* node and for the readers of its own name, and for nobody who is not a member
\* of its node.
THEOREM ObjectCorrect == Spec => []ObjectAccess
<1>1. Init => ExtraInv /\ ObjectAccess
  BY ExtraInductive, InitObjects
<1>2. (ExtraInv /\ ObjectAccess) /\ [Next]_vars => (ExtraInv /\ ObjectAccess)'
  BY ExtraInductive, NextObjects DEF ExtraInv
<1> QED BY <1>1, <1>2, PTL DEF Spec

=============================================================================

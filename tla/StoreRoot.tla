------------------------------ MODULE StoreRoot ------------------------------
(***************************************************************************)
(* store.json names the trust anchors of a store, and store.json.sig signs *)
(* it.  Making somebody an owner of the root, taking that away and         *)
(* rescuing the root sign a new version of it; every other home follows by *)
(* verifying what it finds against the anchors it pinned before            *)
(* (cli/store2.go, manifest/codec.go).                                     *)
(*                                                                         *)
(* The document and its signature are two files, written one after the     *)
(* other into the worktree of a home and published by one push.  A read    *)
(* takes the worktree as it is when it cannot sync, and saves what it      *)
(* verified later, without a lock.  Owners of the root and trust anchors   *)
(* are the same identities (OwnersAttested in Manifest); the recovery key  *)
(* never changes; every store is sealed, so each rewrite has a version of  *)
(* its own.                                                                *)
(***************************************************************************)
EXTENDS Naturals

CONSTANTS Ids,       \* identities, each with a home and a signing key
          Owners,    \* those that may become owners of the root
          Admins,    \* those whose home is one of an admin
          Readers,   \* those at whose home somebody reads
          Founder,   \* the one that made the store
          Recovery,  \* the recovery signing key
          NoPins,    \* a home that has pinned nothing yet
          MaxVersion \* bound on the versions of store.json

ASSUME IdsAssumption ==
    /\ Founder \in Owners /\ Owners \subseteq Ids /\ Admins \subseteq Ids /\ Readers \subseteq Ids
    /\ Recovery \notin Ids
ASSUME VersionAssumption == MaxVersion \in Nat

Signers == Ids \cup {Recovery}
Roots == [version : Nat \ {0}, anchors : (SUBSET Owners) \ {{}}]

ASSUME PinsAssumption == NoPins \notin Roots

\* store.json, and its signature: by which key, over which document.
Documents == [root : Roots, sig : [by : Signers, over : Roots]]

VARIABLES
    published,  \* the documents at the head of the remote
    previous,   \* history: the root before the last published one
    clone,      \* the documents in the worktree of each home
    pins,       \* the root in pins.json of each home
    reading,    \* the root a read of it has verified and will save; NoPins: none
    pc, task,   \* the mutation a home is at, and what it is to change
    base        \* the documents it last synced

vars == <<published, previous, clone, pins, reading, pc, task, base>>

\* Who signs which change of the anchors.
Tasks == [change : {"append", "remove"}, who : Owners, by : Signers]

TypeOK ==
    /\ published \in Documents
    /\ previous \in Roots
    /\ clone \in [Ids -> Documents]
    /\ pins \in [Ids -> Roots \cup {NoPins}]
    /\ reading \in [Ids -> Roots \cup {NoPins}]
    /\ pc \in [Ids -> {"idle", "load", "document", "signature", "push", "save"}]
    /\ task \in [Ids -> Tasks]
    /\ base \in [Ids -> Documents]

Signed(root, by) == [root |-> root, sig |-> [by |-> by, over |-> root]]

\* init publishes a root anchored and signed by the founder, who pins it.
FirstRoot == [version |-> 1, anchors |-> {Founder}]
First == Signed(FirstRoot, Founder)
NoTask == [change |-> "append", who |-> Founder, by |-> Founder]

Init ==
    /\ published = First
    /\ previous = FirstRoot
    /\ clone = [h \in Ids |-> First]
    /\ pins = [h \in Ids |-> IF h = Founder THEN FirstRoot ELSE NoPins]
    /\ reading = [h \in Ids |-> NoPins]
    /\ pc = [h \in Ids |-> "idle"]
    /\ task = [h \in Ids |-> NoTask]
    /\ base = [h \in Ids |-> First]

Goto(h, step) == pc' = [pc EXCEPT ![h] = step]

\* A command ends, and forgets what it was at.
End(h) ==
    /\ Goto(h, "idle")
    /\ task' = [task EXCEPT ![h] = NoTask]
    /\ base' = [base EXCEPT ![h] = First]

Verifies(docs, keys) == docs.sig.over = docs.root /\ docs.sig.by \in keys
SelfVerifies(docs) == Verifies(docs, docs.root.anchors \cup {Recovery})

\* A home that pinned nothing trusts the keys it finds; any other one those it
\* pinned, and no older version.  The recovery keys are always the pinned ones.
Accepts(pin, docs) ==
    \/ pin = NoPins /\ SelfVerifies(docs)
    \/ /\ pin # NoPins
       /\ Verifies(docs, pin.anchors \cup {Recovery})
       /\ docs.root.version >= pin.version

-----------------------------------------------------------------------------
(* A change of the anchors, by an owner or with the recovery key *)

\* Mutant: the sync keeps what a failed command left in the worktree.
SyncOnTop(h, t) ==
    /\ pc[h] = "idle"
    /\ published.root.version < MaxVersion
    /\ t.by \in {h, Recovery}
    /\ t.by = Recovery => t.change = "append"
    /\ base' = [base EXCEPT ![h] = published]
    /\ task' = [task EXCEPT ![h] = t]
    /\ Goto(h, "load")
    /\ UNCHANGED <<published, previous, clone, pins, reading>>

\* `grant --owner` and `revoke --owner` of the root, and `rescue` of the root,
\* start with a sync.
Sync(h, t) ==
    /\ pc[h] = "idle"
    /\ published.root.version < MaxVersion
    /\ t.by \in {h, Recovery}
    /\ t.by = Recovery => t.change = "append"
    /\ clone' = [clone EXCEPT ![h] = published]
    /\ base' = [base EXCEPT ![h] = published]
    /\ task' = [task EXCEPT ![h] = t]
    /\ Goto(h, "load")
    /\ UNCHANGED <<published, previous, pins, reading>>

\* Mutant: the last anchor may go.
WantsToRemoveLast(t, anchors) ==
    IF t.change = "append" THEN t.who \notin anchors ELSE t.who \in anchors

\* There is something to do, and it leaves an anchor.
Wants(t, anchors) ==
    \/ t.change = "append" /\ t.who \notin anchors
    \/ t.change = "remove" /\ t.who \in anchors /\ anchors # {t.who}

\* Mutant: whoever accepts the root may change it.
MayChangeUnowned(h) ==
    \/ task[h].by = Recovery /\ SelfVerifies(clone[h])
    \/ /\ task[h].by = h
       /\ Accepts(pins[h], clone[h])
       /\ Wants(task[h], clone[h].root.anchors)

\* An owner must accept the root with its pins and be one of its anchors; a
\* rescue signs the root again even if there is nothing to add.
MayChange(h) ==
    \/ task[h].by = Recovery /\ SelfVerifies(clone[h])
    \/ /\ task[h].by = h
       /\ Accepts(pins[h], clone[h])
       /\ h \in clone[h].root.anchors
       /\ Wants(task[h], clone[h].root.anchors)

Load(h) ==
    /\ pc[h] = "load"
    /\ IF MayChange(h) THEN Goto(h, "document") /\ UNCHANGED <<task, base>> ELSE End(h)
    /\ UNCHANGED <<published, previous, clone, pins, reading>>

Changed(anchors, t) ==
    IF t.change = "append" THEN anchors \cup {t.who} ELSE anchors \ {t.who}

\* Mutant: the document is published with the signature it had.
WriteUnsigned(h) ==
    /\ pc[h] = "document"
    /\ clone' = [clone EXCEPT ![h].root =
                     [version |-> @.version + 1, anchors |-> Changed(@.anchors, task[h])]]
    /\ Goto(h, "push")
    /\ UNCHANGED <<published, previous, pins, reading, task, base>>

\* rewriteStoreRoot writes the next version of the document.
WriteDocument(h) ==
    /\ pc[h] = "document"
    /\ clone' = [clone EXCEPT ![h].root =
                     [version |-> @.version + 1, anchors |-> Changed(@.anchors, task[h])]]
    /\ Goto(h, "signature")
    /\ UNCHANGED <<published, previous, pins, reading, task, base>>

\* It writes the signature of what it wrote.
WriteSignature(h) ==
    /\ pc[h] = "signature"
    /\ clone' = [clone EXCEPT ![h].sig = [by |-> task[h].by, over |-> clone[h].root]]
    /\ Goto(h, "push")
    /\ UNCHANGED <<published, previous, pins, reading, task, base>>

\* Mutant: the push does not care what it replaces.
ForcePush(h) ==
    /\ pc[h] = "push"
    /\ published' = clone[h]
    /\ previous' = published.root
    /\ Goto(h, "save")
    /\ UNCHANGED <<clone, pins, reading, task, base>>

\* The remote takes the push if nobody else was faster.
Push(h) ==
    /\ pc[h] = "push"
    /\ published = base[h]
    /\ published' = clone[h]
    /\ previous' = published.root
    /\ Goto(h, "save")
    /\ UNCHANGED <<clone, pins, reading, task, base>>

\* Otherwise the home syncs, and does it all again; a rescue gives up.
Rejected(h) ==
    /\ pc[h] = "push"
    /\ published # base[h]
    /\ clone' = [clone EXCEPT ![h] = published]
    /\ IF task[h].by = h
         THEN base' = [base EXCEPT ![h] = published] /\ Goto(h, "load") /\ UNCHANGED task
         ELSE End(h)
    /\ UNCHANGED <<published, previous, pins, reading>>

\* The home pins the root it verified, not the one it published; a rescue pins
\* nothing.
Save(h) ==
    /\ pc[h] = "save"
    /\ pins' = IF task[h].by = h THEN [pins EXCEPT ![h] = base[h].root] ELSE pins
    /\ End(h)
    /\ UNCHANGED <<published, previous, clone, reading>>

\* It dies, a write or the network fails, the answer to the push is lost, or it
\* has retried often enough.  The worktree stays as it is.
Fail(h) ==
    /\ pc[h] # "idle"
    /\ End(h)
    /\ UNCHANGED <<published, previous, clone, pins, reading>>

-----------------------------------------------------------------------------
(* Reads *)

\* A read, and any mutation of something else, syncs when no mutation holds the
\* lock of the home.
SyncHome(h) ==
    /\ pc[h] = "idle"
    /\ clone' = [clone EXCEPT ![h] = published]
    /\ UNCHANGED <<published, previous, pins, reading, pc, task, base>>

\* It goes on without, and verifies what the worktree holds.
ReadRoot(h) ==
    /\ h \in Readers /\ reading[h] = NoPins
    /\ Accepts(pins[h], clone[h])
    /\ reading' = [reading EXCEPT ![h] = clone[h].root]
    /\ UNCHANGED <<published, previous, clone, pins, pc, task, base>>

\* It pins that root when it has read all it wants, whatever was pinned since.
SaveRead(h) ==
    /\ reading[h] # NoPins
    /\ pins' = [pins EXCEPT ![h] = reading[h]]
    /\ reading' = [reading EXCEPT ![h] = NoPins]
    /\ UNCHANGED <<published, previous, clone, pc, task, base>>

\* It dies, or something it reads does not verify.
FailRead(h) ==
    /\ reading[h] # NoPins
    /\ reading' = [reading EXCEPT ![h] = NoPins]
    /\ UNCHANGED <<published, previous, clone, pins, pc, task, base>>

Step(h) ==
    \/ h \in Admins /\ \E t \in Tasks : Sync(h, t)
    \/ Load(h) \/ WriteDocument(h) \/ WriteSignature(h)
    \/ Push(h) \/ Rejected(h) \/ Save(h) \/ Fail(h)
    \/ SyncHome(h) \/ ReadRoot(h) \/ SaveRead(h) \/ FailRead(h)

Next == \E h \in Ids : Step(h)

Spec == Init /\ [][Next]_vars

-----------------------------------------------------------------------------
(* Properties *)

\* Every published root is the next version of the one before it, signed by one
\* of its anchors or the recovery key, whichever commands raced or failed:
\* "Updates to `store.json` must verify against the *previously pinned* anchor
\* set" (design-v2.0:82, store2.go:262-294).
RootsChain ==
    [][published' # published =>
           /\ published'.root.version = published.root.version + 1
           /\ Verifies(published', published.root.anchors \cup {Recovery})]_published

\* The last signer took itself off the anchors.
SelfRemoved == published.sig.by \in previous.anchors \ published.root.anchors

\* A home that enrols can pin what it finds (requests2.go:50-109), unless the last
\* signer removed itself: what is published is whole, and signed by a key it names.
FreshCanPin == SelfRemoved \/ SelfVerifies(published)

\* A home that only reads pins nothing but what was published, so it never takes
\* the store for rolled back, and it accepts any root at most one version newer
\* than its pins, however late its reads save them: only a signer who removed
\* itself shuts out those that have pinned that root (store2.go:122-135).
ClientsFollow ==
    \A h \in Ids \ Admins : pins[h] # NoPins =>
        /\ pins[h].version <= published.root.version
        /\ pins[h].version + 1 >= published.root.version =>
               \/ Accepts(pins[h], published)
               \/ SelfRemoved /\ pins[h] = published.root

\* A read of a worktree that a failed or running command left can pin a version
\* that was never published, but no further ahead than one: one more change, and
\* the store is no older than those pins.
PinsStayNear ==
    \A h \in Ids : pins[h] # NoPins => pins[h].version <= published.root.version + 1
=============================================================================

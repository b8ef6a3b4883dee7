--------------------------- MODULE StoreRootProofs ---------------------------
(***************************************************************************)
(* The published roots are a chain of signatures, for any identities and   *)
(* owners and any number of versions.                                      *)
(***************************************************************************)
EXTENDS StoreRoot, TLAPS

-----------------------------------------------------------------------------
(* The inductive invariant *)

\* The published root is the successor of the one before it.
PublishedInv ==
    /\ Verifies(published, previous.anchors \cup {Recovery})
    /\ previous.version + 1 = published.root.version \/ previous = published.root

\* No home has synced, written, read or pinned anything far ahead of the store.
NearInv ==
    \A h \in Ids :
        /\ base[h].root.version <= published.root.version
        /\ clone[h].root.version <= published.root.version + 1
        /\ pins[h] # NoPins => pins[h].version <= published.root.version + 1
        /\ reading[h] # NoPins => reading[h].version <= published.root.version + 1

\* A root that may have been published when the last one was this and came after
\* that: no newer, and the same if it has the version of one of the two.
Genuine(root, last, before) ==
    /\ root.version <= last.version
    /\ root.version = last.version => root = last
    /\ root.version + 1 = last.version => root = before

\* A home that changes nothing has only seen such roots.
ClientInv ==
    \A h \in Ids \ Admins :
        /\ pc[h] = "idle"
        /\ Genuine(clone[h].root, published.root, previous)
        /\ pins[h] # NoPins => Genuine(pins[h], published.root, previous)
        /\ reading[h] # NoPins => Genuine(reading[h], published.root, previous)

\* What the worktree of a mutation holds at each of its steps.
TaskInv(h) ==
    LET keys == base[h].root.anchors \cup {Recovery} IN
    /\ pc[h] \in {"load", "document"} => clone[h] = base[h]
    /\ pc[h] \in {"document", "signature", "push"} => task[h].by \in keys
    /\ pc[h] \in {"load", "document"} /\ task[h].by = Recovery => task[h].change = "append"
    /\ pc[h] = "document" =>
           task[h].by = Recovery \/ Wants(task[h], base[h].root.anchors)
    /\ pc[h] \in {"signature", "push"} =>
           clone[h].root.version = base[h].root.version + 1
    /\ pc[h] = "push" => Verifies(clone[h], keys)

Inv == TypeOK /\ PublishedInv /\ NearInv /\ ClientInv /\ \A h \in Ids : TaskInv(h)

-----------------------------------------------------------------------------
(* Type correctness *)

Steps == {"idle", "load", "document", "signature", "push", "save"}

LEMMA FirstType == FirstRoot \in Roots /\ First \in Documents
<1>1. {Founder} \in (SUBSET Owners) \ {{}}
  BY IdsAssumption
<1>2. FirstRoot \in Roots
  BY <1>1 DEF FirstRoot, Roots
<1>3. First \in Documents
  BY <1>2, IdsAssumption DEF First, Signed, Documents, Signers
<1> QED BY <1>2, <1>3

LEMMA NoTaskType == NoTask \in Tasks
  BY IdsAssumption DEF NoTask, Tasks, Signers

LEMMA GotoType ==
    ASSUME NEW h \in Ids, NEW s \in Steps, pc \in [Ids -> Steps], Goto(h, s)
    PROVE  pc' \in [Ids -> Steps]
  BY DEF Goto

LEMMA EndType ==
    ASSUME TypeOK, NEW h \in Ids, End(h)
    PROVE  /\ pc' \in [Ids -> Steps] /\ task' \in [Ids -> Tasks]
           /\ base' \in [Ids -> Documents]
  BY GotoType, FirstType, NoTaskType DEF TypeOK, End, Steps

\* A change that is wanted leaves an anchor, and so does one with the recovery
\* key, which only appends.
LEMMA ChangedType ==
    ASSUME NEW root \in Roots, NEW t \in Tasks, Wants(t, root.anchors) \/ t.change = "append"
    PROVE  [version |-> root.version + 1, anchors |-> Changed(root.anchors, t)] \in Roots
<1>1. Changed(root.anchors, t) \in SUBSET Owners
  BY DEF Roots, Tasks, Changed
<1>2. Changed(root.anchors, t) # {}
  <2>1. CASE t.change = "append"
    BY <2>1 DEF Changed
  <2>2. CASE t.change # "append"
    <3>1. root.anchors # {t.who} /\ root.anchors # {} /\ t.who \in root.anchors
      BY <2>2 DEF Wants, Roots
    <3>2. PICK a \in root.anchors : a # t.who
      BY <3>1
    <3> QED BY <2>2, <3>2 DEF Changed
  <2> QED BY <2>1, <2>2
<1> QED BY <1>1, <1>2 DEF Roots

LEMMA InitInv == Init => Inv
<1> HAVE Init
<1>1. TypeOK
  BY FirstType, NoTaskType DEF Init, TypeOK, Steps
<1> DEFINE One == First.root = FirstRoot /\ First.sig.over = FirstRoot /\ First.sig.by = Founder
                  /\ FirstRoot.version = 1 /\ FirstRoot.anchors = {Founder}
<1>a. One
  BY DEF First, FirstRoot, Signed
<1>2. PublishedInv
  BY <1>a DEF Init, PublishedInv, Verifies
<1>3. NearInv
  <2> SUFFICES ASSUME NEW h \in Ids
               PROVE  /\ base[h].root.version <= published.root.version
                      /\ clone[h].root.version <= published.root.version + 1
                      /\ pins[h] # NoPins => pins[h].version <= published.root.version + 1
                      /\ reading[h] # NoPins =>
                             reading[h].version <= published.root.version + 1
    BY DEF NearInv
  <2>1. base[h] = First /\ clone[h] = First /\ published = First /\ reading[h] = NoPins
    BY DEF Init
  <2>2. pins[h] # NoPins => pins[h] = FirstRoot
    BY DEF Init
  <2> QED BY <1>a, <2>1, <2>2
<1>4. \A h \in Ids : TaskInv(h)
  BY DEF Init, TaskInv
<1>5. ClientInv
  <2>1. \A h \in Ids : /\ pc[h] = "idle" /\ clone[h].root = FirstRoot /\ reading[h] = NoPins
                       /\ pins[h] # NoPins => pins[h] = FirstRoot
    BY <1>a DEF Init
  <2>2. Genuine(FirstRoot, published.root, previous)
    BY <1>a DEF Init, Genuine
  <2> QED BY <2>1, <2>2 DEF ClientInv
<1> QED BY <1>1, <1>2, <1>3, <1>4, <1>5 DEF Inv

LEMMA DocumentType ==
    ASSUME NEW docs \in Documents, NEW root \in Roots
    PROVE  [docs EXCEPT !.root = root] \in Documents
  BY DEF Documents

LEMMA SignatureType ==
    ASSUME NEW docs \in Documents, NEW by \in Signers
    PROVE  [docs EXCEPT !.sig = [by |-> by, over |-> docs.root]] \in Documents
  BY DEF Documents

LEMMA StepTyped == ASSUME Inv, NEW h \in Ids, Step(h) PROVE TypeOK'
<1> USE DEF Inv
<1>0. pc \in [Ids -> Steps]
  BY DEF TypeOK, Steps
<1>1. ASSUME NEW t \in Tasks, Sync(h, t) PROVE TypeOK'
  BY <1>0, <1>1, GotoType DEF Sync, TypeOK, Steps
<1>2. CASE Load(h)
  BY <1>0, <1>2, GotoType, EndType DEF Load, TypeOK, Steps
<1>3. CASE WriteDocument(h)
  <2> DEFINE root == [version |-> clone[h].root.version + 1,
                      anchors |-> Changed(clone[h].root.anchors, task[h])]
  <2>1. clone[h].root \in Roots /\ task[h] \in Tasks /\ clone[h] \in Documents
    BY DEF TypeOK, Documents
  <2>2. Wants(task[h], clone[h].root.anchors) \/ task[h].change = "append"
    BY <1>3 DEF WriteDocument, TaskInv
  <2>3. root \in Roots
    BY <2>1, <2>2, ChangedType
  <2>4. clone'[h] = [clone[h] EXCEPT !.root = root] /\ clone' = [clone EXCEPT ![h] = clone'[h]]
    BY <1>3, <2>1 DEF WriteDocument, TypeOK
  <2>5. clone' \in [Ids -> Documents]
    BY <2>1, <2>3, <2>4, DocumentType DEF TypeOK
  <2> QED BY <1>0, <1>3, <2>5, GotoType DEF WriteDocument, TypeOK, Steps
<1>4. CASE WriteSignature(h)
  <2>1. clone[h] \in Documents /\ task[h].by \in Signers
    BY DEF TypeOK, Tasks
  <2>2. clone'[h] = [clone[h] EXCEPT !.sig = [by |-> task[h].by, over |-> clone[h].root]]
        /\ clone' = [clone EXCEPT ![h] = clone'[h]]
    BY <1>4, <2>1 DEF WriteSignature, TypeOK
  <2>3. clone' \in [Ids -> Documents]
    BY <2>1, <2>2, SignatureType DEF TypeOK
  <2> QED BY <1>0, <1>4, <2>3, GotoType DEF WriteSignature, TypeOK, Steps
<1>5. CASE Push(h)
  BY <1>0, <1>5, GotoType DEF Push, TypeOK, Steps, Documents
<1>6. CASE Rejected(h)
  BY <1>0, <1>6, GotoType, EndType DEF Rejected, TypeOK, Steps
<1>7. CASE Save(h)
  <2>1. pins' \in [Ids -> Roots \cup {NoPins}]
    BY <1>7 DEF Save, TypeOK, Documents
  <2> QED BY <1>7, <2>1, EndType DEF Save, TypeOK, Steps
<1>8. CASE Fail(h)
  BY <1>8, EndType DEF Fail, TypeOK, Steps
<1>9. CASE SyncHome(h)
  BY <1>9 DEF SyncHome, TypeOK
<1>10. CASE ReadRoot(h)
  BY <1>10 DEF ReadRoot, TypeOK, Documents
<1>11. CASE SaveRead(h)
  BY <1>11 DEF SaveRead, TypeOK
<1>12. CASE FailRead(h)
  BY <1>12 DEF FailRead, TypeOK
<1> QED
  BY <1>1, <1>2, <1>3, <1>4, <1>5, <1>6, <1>7, <1>8, <1>9, <1>10, <1>11, <1>12 DEF Step

-----------------------------------------------------------------------------
(* The chain *)

\* A push publishes the successor of what is published, signed by its keys.
LEMMA PushChains ==
    ASSUME Inv, NEW h \in Ids, Push(h)
    PROVE  /\ published'.root.version = published.root.version + 1
           /\ Verifies(published', published.root.anchors \cup {Recovery})
  BY DEF Push, Inv, TaskInv

LEMMA PublishedStep == ASSUME Inv, NEW h \in Ids, Step(h)
                       PROVE  PublishedInv' /\ (published' = published \/ Push(h))
<1>1. CASE Push(h)
  <2>1. published.root.version \in Nat
    BY DEF Inv, TypeOK, Documents, Roots
  <2> QED BY <1>1, <2>1, PushChains DEF Push, PublishedInv
<1>2. ASSUME ~Push(h) PROVE UNCHANGED <<published, previous>>
  BY <1>2 DEF Step, Sync, Load, WriteDocument, WriteSignature, Rejected, Save, Fail, SyncHome,
              ReadRoot, SaveRead, FailRead
<1> QED BY <1>1, <1>2 DEF Inv, PublishedInv, Verifies

LEMMA VersionType ==
    ASSUME TypeOK
    PROVE  /\ published.root.version \in Nat
           /\ \A h \in Ids : /\ base[h].root.version \in Nat
                             /\ clone[h].root.version \in Nat
                             /\ pins[h] # NoPins => pins[h].version \in Nat
                             /\ reading[h] # NoPins => reading[h].version \in Nat
  BY DEF TypeOK, Documents, Roots

\* No home gets further ahead than one version, since what a mutation writes
\* follows what it synced.
LEMMA NearStep == ASSUME Inv, NEW h \in Ids, Step(h) PROVE NearInv'
<1> USE DEF Inv
<1> DEFINE Now == published.root.version
           Near(x) == /\ base[x].root.version <= Now
                      /\ clone[x].root.version <= Now + 1
                      /\ pins[x] # NoPins => pins[x].version <= Now + 1
                      /\ reading[x] # NoPins => reading[x].version <= Now + 1
<1>0. \A x \in Ids : Near(x)
  BY DEF NearInv
<1> USE VersionType
<1>a. /\ Now \in Nat
      /\ First.root.version = 1 /\ Now >= 1
  BY DEF First, Signed, FirstRoot, TypeOK, Documents, Roots
<1> HIDE DEF Inv
<1>b. TypeOK /\ TaskInv(h)
  BY DEF Inv
<1>1. ASSUME NEW t \in Tasks, Sync(h, t) PROVE NearInv'
  BY <1>0, <1>1, <1>a, <1>b DEF Sync, NearInv, TypeOK
<1>2. ASSUME End(h), UNCHANGED <<published, clone, pins, reading>> PROVE NearInv'
  BY <1>0, <1>2, <1>a, <1>b DEF End, NearInv, TypeOK
<1>3. CASE Load(h)
  BY <1>0, <1>2, <1>3 DEF Load, NearInv
<1>4. CASE WriteDocument(h)
  <2>1. clone'[h].root.version = base[h].root.version + 1
    BY <1>4, <1>b DEF WriteDocument, TaskInv, TypeOK, Documents
  <2>2. \A x \in Ids \ {h} : clone'[x] = clone[x]
    BY <1>4 DEF WriteDocument, TypeOK
  <2> QED BY <1>0, <1>4, <1>a, <1>b, <2>1, <2>2 DEF WriteDocument, NearInv
<1>5. CASE WriteSignature(h)
  <2>1. \A x \in Ids : clone'[x].root = clone[x].root
    BY <1>5, <1>b DEF WriteSignature, TypeOK, Documents
  <2> QED BY <1>0, <1>5, <2>1 DEF WriteSignature, NearInv
<1>6. CASE Push(h)
  <2>1. published'.root.version = Now + 1
    BY <1>6, PushChains
  <2> QED BY <1>0, <1>6, <1>a, <1>b, <2>1 DEF Push, NearInv
<1>7. CASE Rejected(h)
  <2>1. \A x \in Ids : clone'[x] = IF x = h THEN published ELSE clone[x]
    BY <1>7, <1>b DEF Rejected, TypeOK
  <2>2. \A x \in Ids : base'[x] \in {base[x], published, First}
    BY <1>7, <1>b DEF Rejected, End, TypeOK
  <2>3. UNCHANGED <<published, pins, reading>>
    BY <1>7 DEF Rejected
  <2> QED BY <1>0, <1>a, <1>b, <2>1, <2>2, <2>3 DEF NearInv
<1>8. CASE Save(h)
  <2>1. \A x \in Ids : base'[x] \in {base[x], First}
    BY <1>8, <1>b DEF Save, End, TypeOK
  <2>2. \A x \in Ids : pins'[x] \in {pins[x], base[x].root}
    BY <1>8, <1>b DEF Save, TypeOK
  <2>3. UNCHANGED <<published, clone, reading>>
    BY <1>8 DEF Save
  <2> QED BY <1>0, <1>a, <1>b, <2>1, <2>2, <2>3 DEF NearInv
<1>9. CASE Fail(h)
  BY <1>2, <1>9 DEF Fail
<1>10. CASE SyncHome(h)
  BY <1>0, <1>10, <1>a, <1>b DEF SyncHome, NearInv, TypeOK
<1>11. CASE ReadRoot(h)
  BY <1>0, <1>11, <1>a, <1>b DEF ReadRoot, NearInv, TypeOK
<1>12. CASE SaveRead(h)
  <2>1. \A x \in Ids : pins'[x] \in {pins[x], reading[x]} /\ reading'[x] \in {reading[x], NoPins}
    BY <1>12, <1>b DEF SaveRead, TypeOK
  <2>2. UNCHANGED <<published, clone, base>>
    BY <1>12 DEF SaveRead
  <2> QED BY <1>0, <2>1, <2>2 DEF NearInv
<1>13. CASE FailRead(h)
  <2>1. \A x \in Ids : reading'[x] \in {reading[x], NoPins}
    BY <1>13, <1>b DEF FailRead, TypeOK
  <2> QED BY <1>0, <1>13, <2>1 DEF FailRead, NearInv
<1> QED
  BY <1>1, <1>3, <1>4, <1>5, <1>6, <1>7, <1>8, <1>9, <1>10, <1>11, <1>12, <1>13 DEF Step

\* What was published stays so.
LEMMA GenuineStays ==
    ASSUME Inv, NEW h \in Ids, Step(h), NEW root \in Roots, Genuine(root, published.root, previous)
    PROVE  Genuine(root, published'.root, previous')
<1>1. CASE Push(h)
  <2>1. published'.root.version = published.root.version + 1 /\ previous' = published.root
    BY <1>1, PushChains DEF Push
  <2>2. root.version \in Nat /\ published.root.version \in Nat
    BY DEF Inv, TypeOK, Documents, Roots
  <2> QED BY <2>1, <2>2 DEF Genuine
<1>2. CASE UNCHANGED <<published, previous>>
  BY <1>2 DEF Genuine
<1>3. Push(h) \/ UNCHANGED <<published, previous>>
  BY DEF Step, Sync, Load, WriteDocument, WriteSignature, Rejected, Save, Fail, SyncHome,
         ReadRoot, SaveRead, FailRead
<1> QED BY <1>1, <1>2, <1>3

\* Whatever the step, a home that changes nothing only takes over published roots.
LEMMA ClientStep == ASSUME Inv, NEW h \in Ids, Step(h) PROVE ClientInv'
<1> SUFFICES ASSUME NEW x \in Ids \ Admins
             PROVE  /\ pc'[x] = "idle" /\ Genuine(clone'[x].root, published'.root, previous')
                    /\ pins'[x] # NoPins => Genuine(pins'[x], published'.root, previous')
                    /\ reading'[x] # NoPins => Genuine(reading'[x], published'.root, previous')
  BY DEF ClientInv
<1>1. /\ TypeOK /\ published.root \in Roots /\ clone[x].root \in Roots
      /\ pins[x] \in Roots \cup {NoPins} /\ reading[x] \in Roots \cup {NoPins}
  BY DEF Inv, TypeOK, Documents
<1>2. /\ pc[x] = "idle" /\ Genuine(clone[x].root, published.root, previous)
      /\ pins[x] # NoPins => Genuine(pins[x], published.root, previous)
      /\ reading[x] # NoPins => Genuine(reading[x], published.root, previous)
  BY DEF Inv, ClientInv
<1>3. Genuine(published.root, published.root, previous)
  <2>1. published.root.version \in Nat
    BY <1>1 DEF Roots
  <2> QED BY <2>1 DEF Genuine
<1>4. /\ pc'[x] = "idle" /\ clone'[x].root \in {clone[x].root, published.root}
      /\ pins'[x] \in {pins[x], reading[x]}
      /\ reading'[x] \in {reading[x], clone[x].root, NoPins}
  <2>1. CASE h = x
    <3>1. SyncHome(x) \/ ReadRoot(x) \/ SaveRead(x) \/ FailRead(x)
      BY <1>2, <2>1 DEF Step, Load, WriteDocument, WriteSignature, Push, Rejected, Save, Fail
    <3> QED BY <1>1, <1>2, <3>1 DEF SyncHome, ReadRoot, SaveRead, FailRead, TypeOK
  <2>2. CASE h # x
    BY <1>1, <1>2, <2>2
       DEF TypeOK, Step, Sync, Load, WriteDocument, WriteSignature, Push, Rejected, Save, Fail,
           SyncHome, ReadRoot, SaveRead, FailRead, End, Goto
  <2> QED BY <2>1, <2>2
<1>5. \A root \in Roots :
          Genuine(root, published.root, previous) => Genuine(root, published'.root, previous')
  BY GenuineStays
<1>6. clone'[x].root \in Roots /\ Genuine(clone'[x].root, published'.root, previous')
  BY <1>1, <1>2, <1>3, <1>4, <1>5
<1>7. pins'[x] # NoPins => Genuine(pins'[x], published'.root, previous')
  BY <1>1, <1>2, <1>4, <1>5
<1>8. reading'[x] # NoPins => Genuine(reading'[x], published'.root, previous')
  BY <1>1, <1>2, <1>4, <1>5
<1> QED BY <1>4, <1>6, <1>7, <1>8

\* The steps of one mutation.
LEMMA OwnTask == ASSUME Inv, NEW h \in Ids, Step(h) PROVE TaskInv(h)'
<1>0. TypeOK /\ TaskInv(h)
  BY DEF Inv
<1>1. ASSUME NEW t \in Tasks, Sync(h, t) PROVE TaskInv(h)'
  BY <1>0, <1>1 DEF Sync, Goto, TaskInv, TypeOK
<1>2. ASSUME End(h) PROVE TaskInv(h)'
  BY <1>0, <1>2 DEF End, Goto, TaskInv, TypeOK
<1>3. CASE Load(h)
  <2>1. CASE ~MayChange(h)
    BY <1>2, <1>3, <2>1 DEF Load
  <2>2. CASE MayChange(h)
    <3>1. pc'[h] = "document" /\ UNCHANGED <<clone, task, base>> /\ clone[h] = base[h]
      BY <1>0, <1>3, <2>2 DEF Load, Goto, TaskInv, TypeOK
    <3>2. task[h].by = Recovery \/ (task[h].by = h /\ h \in base[h].root.anchors
                                    /\ Wants(task[h], base[h].root.anchors))
      BY <2>2, <3>1 DEF MayChange
    <3>3. task[h].by = Recovery => task[h].change = "append"
      BY <1>0, <1>3 DEF Load, TaskInv
    <3> QED BY <3>1, <3>2, <3>3 DEF TaskInv, Wants
  <2> QED BY <2>1, <2>2
<1>4. CASE WriteDocument(h)
  <2>1. pc'[h] = "signature" /\ UNCHANGED <<task, base>> /\ pc[h] = "document"
    BY <1>0, <1>4 DEF WriteDocument, Goto, TypeOK
  <2>2. clone'[h].root.version = base[h].root.version + 1
    BY <1>0, <1>4 DEF WriteDocument, TaskInv, TypeOK, Documents
  <2> QED BY <1>0, <2>1, <2>2 DEF TaskInv
<1>5. CASE WriteSignature(h)
  <2>1. pc'[h] = "push" /\ UNCHANGED <<task, base>> /\ pc[h] = "signature"
    BY <1>0, <1>5 DEF WriteSignature, Goto, TypeOK
  <2>2. /\ clone'[h].root = clone[h].root
        /\ clone'[h].sig.by = task[h].by /\ clone'[h].sig.over = clone[h].root
    BY <1>0, <1>5 DEF WriteSignature, TypeOK, Documents
  <2> QED BY <1>0, <2>1, <2>2 DEF TaskInv, Verifies
<1>6. CASE Push(h)
  BY <1>0, <1>6 DEF Push, Goto, TaskInv, TypeOK
<1>7. CASE Rejected(h)
  <2>1. CASE task[h].by # h
    BY <1>2, <1>7, <2>1 DEF Rejected
  <2>2. CASE task[h].by = h
    <3>1. /\ pc'[h] = "load" /\ clone'[h] = published /\ base'[h] = published
          /\ task' = task
      BY <1>0, <1>7, <2>2 DEF Rejected, Goto, TypeOK
    <3> QED BY <2>2, <3>1, IdsAssumption DEF TaskInv
  <2> QED BY <2>1, <2>2
<1>8. CASE Save(h)
  BY <1>2, <1>8 DEF Save
<1>9. CASE Fail(h)
  BY <1>2, <1>9 DEF Fail
<1>10. CASE SyncHome(h)
  BY <1>0, <1>10 DEF SyncHome, TaskInv
<1>11. CASE ReadRoot(h) \/ SaveRead(h) \/ FailRead(h)
  BY <1>0, <1>11 DEF ReadRoot, SaveRead, FailRead, TaskInv
<1> QED BY <1>1, <1>3, <1>4, <1>5, <1>6, <1>7, <1>8, <1>9, <1>10, <1>11 DEF Step

\* No home touches the worktree or the mutation of another.
LEMMA OtherTasks ==
    ASSUME Inv, NEW h \in Ids, Step(h), NEW x \in Ids, x # h
    PROVE  TaskInv(x)'
<1>1. pc'[x] = pc[x] /\ clone'[x] = clone[x] /\ task'[x] = task[x] /\ base'[x] = base[x]
  BY DEF Inv, TypeOK, Step, Sync, Load, WriteDocument, WriteSignature, Push, Rejected, Save, Fail,
         SyncHome, ReadRoot, SaveRead, FailRead, End, Goto
<1> QED BY <1>1 DEF Inv, TaskInv

LEMMA Inductive == Inv /\ [Next]_vars => Inv'
<1> SUFFICES ASSUME Inv, [Next]_vars PROVE Inv'
  OBVIOUS
<1>1. ASSUME NEW h \in Ids, Step(h) PROVE Inv'
  BY <1>1, StepTyped, PublishedStep, NearStep, ClientStep, OwnTask, OtherTasks DEF Inv
<1>2. CASE UNCHANGED vars
  BY <1>2 DEF vars, Inv, TypeOK, PublishedInv, NearInv, ClientInv, Genuine, TaskInv
<1> QED BY <1>1, <1>2 DEF Next

-----------------------------------------------------------------------------
(* The theorems *)

\* Every document, signature and pin stays well typed: no root is without
\* anchors.
THEOREM StoreRootTypeCorrect == Spec => []TypeOK
<1>1. Inv => TypeOK
  BY DEF Inv
<1> QED BY <1>1, InitInv, Inductive, PTL DEF Spec

\* The published roots are a chain: each is the next version of the one before,
\* signed by one of its anchors or the recovery key (store2.go:262-294).
THEOREM RootsChainCorrect == Spec => RootsChain
<1>1. Inv /\ [Next]_vars => [published' # published =>
           /\ published'.root.version = published.root.version + 1
           /\ Verifies(published', published.root.anchors \cup {Recovery})]_published
  <2> SUFFICES ASSUME Inv, [Next]_vars, published' # published
               PROVE  /\ published'.root.version = published.root.version + 1
                      /\ Verifies(published', published.root.anchors \cup {Recovery})
    OBVIOUS
  <2> QED BY PublishedStep, PushChains DEF Next, vars
<1> QED BY <1>1, InitInv, Inductive, PTL DEF Spec, RootsChain

\* What both theorems below need of the invariant: the published root is signed
\* by an anchor of its predecessor, and not older.
LEMMA PublishedFacts ==
    ASSUME Inv
    PROVE  /\ Verifies(published, previous.anchors \cup {Recovery})
           /\ previous.version <= published.root.version
           /\ published.root.version \in Nat
           /\ published.root \in Roots /\ previous \in Roots
BY DEF Inv, PublishedInv, TypeOK, Documents, Roots

LEMMA InvFresh == Inv => FreshCanPin
BY PublishedFacts DEF FreshCanPin, SelfRemoved, SelfVerifies, Verifies

\* A home that enrols can pin what is published, which one of its own keys has
\* signed but for a signer that removed itself (rescue.go:150-175).
THEOREM FreshCorrect == Spec => []FreshCanPin
BY InvFresh, InitInv, Inductive, PTL DEF Spec

\* A home that only reads never takes the store for rolled back, and accepts what
\* is published if it has missed at most one change, however late its reads save
\* what they verified (store2.go:122-135).
THEOREM ClientsCorrect == Spec => []ClientsFollow
<1>1. ASSUME Inv, NEW h \in Ids \ Admins, pins[h] # NoPins
      PROVE  /\ pins[h].version <= published.root.version
             /\ pins[h].version + 1 >= published.root.version =>
                    Accepts(pins[h], published) \/ (SelfRemoved /\ pins[h] = published.root)
  <2>1. Genuine(pins[h], published.root, previous) /\ pins[h].version \in Nat
    BY <1>1, VersionType DEF Inv, ClientInv
  <2>2. CASE pins[h] = previous
    BY <1>1, <2>1, <2>2, PublishedFacts DEF Accepts, Genuine
  <2>3. CASE pins[h] = published.root
    BY <1>1, <2>1, <2>3, InvFresh, PublishedFacts DEF FreshCanPin, Accepts, SelfVerifies, Genuine
  <2>4. pins[h].version + 1 >= published.root.version => pins[h] \in {previous, published.root}
    BY <1>1, <2>1, PublishedFacts DEF Genuine
  <2> QED BY <2>1, <2>2, <2>3, <2>4 DEF Genuine
<1>2. Inv => ClientsFollow
  BY <1>1 DEF ClientsFollow
<1> QED BY <1>2, InitInv, Inductive, PTL DEF Spec

\* No home pins a version more than one ahead of the store, whatever its
\* worktree holds (autosync.go:18-38).
THEOREM PinsNearCorrect == Spec => []PinsStayNear
<1>1. Inv => PinsStayNear
  BY DEF Inv, NearInv, PinsStayNear
<1> QED BY <1>1, InitInv, Inductive, PTL DEF Spec
=============================================================================

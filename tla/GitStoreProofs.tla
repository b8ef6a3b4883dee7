--------------------------- MODULE GitStoreProofs ---------------------------
(***************************************************************************)
(* The store is one log of commands, for any number of homes, mutations    *)
(* and reads, any retry bound and any faults.                              *)
(***************************************************************************)
EXTENDS GitStore, FiniteSetTheorems, TLAPS

-----------------------------------------------------------------------------
(* The inductive invariant *)

\* The steps a command only takes with the lock of its home: a read gives it
\* back once it has synced.
WithLock(c) == IF c \in Readers THEN {"fetch", "reset"} ELSE Locked

\* Whoever is at such a step holds the lock, so a home has one at most; and a
\* read never takes the steps of a mutation.
LockInv ==
    /\ \A c \in Commands : pc[c] \in WithLock(c) => holder[HomeOf[c]] = c
    /\ \A r \in Readers :
        pc[r] \notin {"content", "manifest", "commit", "push", "answer", "refetch", "rereset", "save"}

\* What a clone fetched was whole, and is still in the history of the remote.
FetchedInv ==
    /\ PublishedWhole
    /\ \A h \in Homes :
        /\ fetched[h] = Whole(fetched[h].past)
        /\ fetched[h].past \subseteq published.past

\* What the clone of a mutation holds at each of its steps.
WriterInv(w) ==
    LET h == HomeOf[w] IN
    /\ pc[w] \in {"pins", "load"} => files[h] = fetched[h].tree /\ local[h] = fetched[h]
    /\ pc[w] \in {"content", "manifest", "commit"} => local[h] = fetched[h] /\ base[w] = fetched[h].past
    /\ pc[w] = "manifest" => files[h]["content"] = base[w] \cup {Mine(w)}
    /\ pc[w] = "commit" => files[h] = Whole(base[w] \cup {Mine(w)}).tree
    /\ pc[w] = "push" => local[h] = Whole(fetched[h].past \cup {Mine(w)})
    /\ pc[w] \in {"content", "manifest", "commit", "push"} =>
        (Known(w, fetched[h].past) => w \in Repeatable)
    /\ pc[w] \in {"answer", "save"} => Mine(w) \in published.past
    /\ pc[w] = "done" => Known(w, published.past) /\ (w \in Forced => Mine(w) \in published.past)

\* The runs are numbered in the order they start, and a run has no effect before
\* its push.
Unpushed == {"start", "fetch", "reset", "pins", "load", "content", "manifest", "commit", "push",
             "refetch", "rereset"}

RunInv ==
    /\ \A e \in published.past : e[2] <= rerun
    /\ \A w \in Writers :
        /\ round[w] <= rerun
        /\ pc[w] \in Unpushed => Mine(w) \notin published.past

Inv == TypeOK /\ LockInv /\ FetchedInv /\ RunInv /\ \A w \in Writers : WriterInv(w)

-----------------------------------------------------------------------------
(* Type correctness *)

Steps == {"start", "check", "record"} \cup Locked \cup Ended

\* Sets of mutations are finite, so the number of them is a natural number.
LEMMA ContentsFinite == ASSUME NEW s \in Contents PROVE IsFiniteSet(s)
<1>1. IsFiniteSet(0..Reruns)
  BY FS_Interval, BoundsAssumption
<1>2. IsFiniteSet(Effects)
  BY <1>1, CommandsAssumption, FS_Product DEF Effects
<1> QED BY <1>2, FS_Subset DEF Contents

LEMMA VersionType == ASSUME NEW s \in Contents PROVE Cardinality(s) \in Nat
  BY ContentsFinite, FS_CardinalityType

\* What a run adds to contents leaves contents.
LEMMA MineType ==
    ASSUME TypeOK, NEW w \in Writers
    PROVE  Mine(w) \in Effects /\ \A s \in Contents : s \cup {Mine(w)} \in Contents
  BY DEF TypeOK, Mine, Effects, Contents

LEMMA GotoType ==
    ASSUME NEW c, NEW s \in Steps, pc \in [Commands -> Steps], Goto(c, s)
    PROVE  pc' \in [Commands -> Steps]
  BY DEF Goto

LEMMA EndType ==
    ASSUME NEW c, NEW s \in Steps, pc \in [Commands -> Steps], End(c, s),
           holder \in [Homes -> Commands \cup {Nobody}]
    PROVE  pc' \in [Commands -> Steps] /\ holder' \in [Homes -> Commands \cup {Nobody}]
  BY GotoType DEF End

LEMMA HomeType == \A c \in Commands : HomeOf[c] \in Homes
  BY CommandsAssumption

LEMMA WholeType == ASSUME NEW s \in Contents
                   PROVE  Whole(s) \in [past : Contents, tree : Trees]
  BY DEF Whole, Trees

LEMMA InitTyped == Init => TypeOK
<1> HAVE Init
<1>1. {} \in Contents
  BY DEF Contents
<1>2. Whole({}) \in [past : Contents, tree : Trees] /\ Whole({}).tree \in Trees
  BY <1>1, WholeType DEF Whole, Trees
<1> QED BY <1>1, <1>2, BoundsAssumption DEF Init, TypeOK

LEMMA StepTyped == ASSUME TypeOK, NEW c \in Commands, Step(c) PROVE TypeOK'
<1> USE HomeType DEF vars, remote, clones
<1>1. CASE Lock(c)
  BY <1>1, GotoType DEF Lock, TypeOK, Steps, Locked
<1>2. CASE LockFails(c)
  BY <1>2, GotoType DEF LockFails, TypeOK, NotSynced, Steps, Locked, Ended
<1>3. CASE Fetch(c)
  BY <1>3, GotoType DEF Fetch, TypeOK, Steps, Locked
<1>4. CASE ResetDone(c)
  BY <1>4, GotoType, EndType DEF ResetDone, TypeOK, Steps, Locked
<1>5. CASE LoadPins(c)
  BY <1>5, GotoType DEF LoadPins, TypeOK, Steps, Locked
<1>6. ASSUME NEW f \in Files, ResetFile(c, f) PROVE TypeOK'
  <2>1. fetched[HomeOf[c]].tree[f] \in Contents
    BY DEF TypeOK, Trees
  <2>2. files' \in [Homes -> Trees]
    BY <1>6, <2>1 DEF ResetFile, TypeOK, Trees
  <2> QED BY <1>6, <2>2 DEF ResetFile, TypeOK
<1> QED BY <1>1, <1>2, <1>3, <1>4, <1>5, <1>6 DEF Step

LEMMA MutateTyped == ASSUME TypeOK, NEW w \in Writers, Mutate(w) PROVE TypeOK'
<1> USE HomeType DEF vars, remote, clones, Commands
<1>1. CASE Load(w)
  <2>1. files[HomeOf[w]]["manifest"] \in Contents
    BY DEF TypeOK, Trees, Files
  <2> QED BY <1>1, <2>1, GotoType, EndType DEF Load, TypeOK, Steps, Locked, Ended
<1>2. CASE CommitAll(w)
  BY <1>2, GotoType, MineType DEF CommitAll, TypeOK, Steps, Locked
<1>3. CASE Push(w)
  BY <1>3, GotoType DEF Push, TypeOK, Steps, Locked
<1>4. CASE Accepted(w)
  BY <1>4, GotoType DEF Accepted, TypeOK, Steps, Locked
<1>5. CASE PushRejected(w)
  BY <1>5, GotoType DEF PushRejected, TypeOK, Steps, Locked
<1>6. CASE RetryOrGiveUp(w)
  <2>1. pc' \in [Commands -> Steps] /\ holder' \in [Homes -> Commands \cup {Nobody}]
    BY <1>6, GotoType, EndType DEF RetryOrGiveUp, TypeOK, Steps, Locked, Ended
  <2>2. attempt' \in [Writers -> 1..MaxRetries]
    BY <1>6, BoundsAssumption DEF RetryOrGiveUp, TypeOK
  <2> QED BY <1>6, <2>1, <2>2 DEF RetryOrGiveUp, TypeOK, Steps
<1>7. CASE SavePins(w)
  <2>1. AtLeast(loaded[w], Cardinality(base[w] \cup {Mine(w)})) \in Nat
    <3>1. base[w] \cup {Mine(w)} \in Contents
      BY MineType DEF TypeOK
    <3> QED BY <3>1, VersionType DEF AtLeast, TypeOK
  <2> QED BY <1>7, <2>1, EndType DEF SavePins, TypeOK, Steps, Ended
<1>8. ASSUME NEW f \in Files, Write(w, f) PROVE TypeOK'
  <2>1. base[w] \cup {Mine(w)} \in Contents
    BY MineType DEF TypeOK
  <2>2. files' \in [Homes -> Trees]
    BY <1>8, <2>1 DEF Write, TypeOK, Trees
  <2> QED BY <1>8, <2>2, GotoType DEF Write, TypeOK, Steps, Locked
<1> QED BY <1>1, <1>2, <1>3, <1>4, <1>5, <1>6, <1>7, <1>8 DEF Mutate

LEMMA ReadTyped == ASSUME TypeOK, NEW r \in Readers, Read(r) PROVE TypeOK'
<1> USE HomeType DEF vars, remote, clones, Commands
<1>1. CASE View(r)
  <2>1. files[HomeOf[r]]["manifest"] \in Contents
    BY DEF TypeOK, Trees, Files
  <2> QED BY <1>1, <2>1, GotoType DEF View, TypeOK, Steps, Ended
<1>2. CASE Check(r)
  BY <1>2, GotoType DEF Check, TypeOK, Steps, Ended
<1>3. CASE Record(r)
  <2>1. AtLeast(loaded[r], Cardinality(base[r])) \in Nat
    BY VersionType DEF AtLeast, TypeOK
  <2> QED BY <1>3, <2>1, GotoType DEF Record, TypeOK, Steps, Ended
<1> QED BY <1>1, <1>2, <1>3 DEF Read

LEMMA FaultTyped ==
    ASSUME TypeOK, NEW c \in Commands,
           \/ NetworkFails(c)
           \/ c \in Writers /\ (ApplyFails(c) \/ Crash(c) \/ Rerun(c))
    PROVE  TypeOK'
<1> USE DEF vars, remote, clones
<1>1. CASE NetworkFails(c)
  BY <1>1, EndType DEF NetworkFails, NotSynced, TypeOK, Steps, Locked, Ended
<1>2. CASE ApplyFails(c)
  BY <1>2, EndType DEF ApplyFails, TypeOK, Steps, Ended
<1>3. CASE Crash(c)
  BY <1>3, EndType DEF Crash, TypeOK, Steps, Ended
<1>4. CASE c \in Writers /\ Rerun(c)
  BY <1>4, GotoType, BoundsAssumption DEF Rerun, TypeOK, Steps
<1> QED BY <1>1, <1>2, <1>3, <1>4

LEMMA NextTyped == TypeOK /\ [Next]_vars => TypeOK'
<1> SUFFICES ASSUME TypeOK, [Next]_vars PROVE TypeOK'
  OBVIOUS
<1>1. CASE UNCHANGED vars
  BY <1>1 DEF vars, remote, clones, TypeOK
<1>2. CASE Next
  BY <1>2, StepTyped, MutateTyped, ReadTyped, FaultTyped DEF Next, Commands
<1> QED BY <1>1, <1>2

\* Every field of the homes, the remote and the commands stays well typed.
THEOREM GitStoreTypeCorrect == Spec => []TypeOK
<1>1. Init => TypeOK
  BY InitTyped
<1>2. TypeOK /\ [Next]_vars => TypeOK'
  BY NextTyped
<1> QED BY <1>1, <1>2, PTL DEF Spec

-----------------------------------------------------------------------------
(* The lock *)

WriterOnly == {"content", "manifest", "commit", "push", "answer", "refetch", "rereset", "save"}

\* Two commands at locked steps are of different homes.
LEMMA Exclusive ==
    ASSUME LockInv, NEW c \in Commands, NEW d \in Commands, c # d,
           pc[c] \in WithLock(c), pc[d] \in WithLock(d)
    PROVE  HomeOf[c] # HomeOf[d]
  BY DEF LockInv

\* A step that keeps the lock as it is.
LEMMA LockKept ==
    ASSUME TypeOK, LockInv, NEW c \in Commands, NEW s, Goto(c, s), UNCHANGED holder,
           s \in WithLock(c) => pc[c] \in WithLock(c),
           c \in Readers => s \notin WriterOnly
    PROVE  LockInv'
<1>1. \A d \in Commands : pc'[d] = IF d = c THEN s ELSE pc[d]
  BY DEF Goto, TypeOK
<1>2. \A d \in Commands : WithLock(d)' = WithLock(d)
  BY DEF WithLock
<1> QED BY <1>1, <1>2 DEF LockInv, WriterOnly, Commands

\* A step that ends the locked part of a command, if it was in it.
LEMMA LockReleased ==
    ASSUME TypeOK, LockInv, NEW c \in Commands, NEW s, End(c, s),
           s \notin WithLock(c), s \notin WriterOnly
    PROVE  LockInv'
<1>1. \A d \in Commands : pc'[d] = IF d = c THEN s ELSE pc[d]
  BY DEF End, Goto, TypeOK
<1>2. \A d \in Commands : d # c /\ holder[HomeOf[d]] = d => holder'[HomeOf[d]] = d
  BY HomeType DEF End
<1> QED BY <1>1, <1>2 DEF LockInv, WriterOnly, Commands, WithLock

LEMMA StepLock == ASSUME TypeOK, LockInv, NEW c \in Commands, Step(c) PROVE LockInv'
<1>1. CASE Lock(c)
  <2>1. \A d \in Commands : pc'[d] = IF d = c THEN "fetch" ELSE pc[d]
    BY <1>1 DEF Lock, Goto, TypeOK
  <2>2. holder' = [holder EXCEPT ![HomeOf[c]] = c] /\ holder[HomeOf[c]] = Nobody
    BY <1>1 DEF Lock
  <2>3. \A d \in Commands : d # c /\ holder[HomeOf[d]] = d => holder'[HomeOf[d]] = d
    BY <2>2, HomeType, CommandsAssumption DEF TypeOK
  <2>4. holder'[HomeOf[c]] = c
    BY <2>2, HomeType DEF TypeOK
  <2> QED BY <2>1, <2>3, <2>4 DEF LockInv, WithLock, Commands
<1>2. CASE LockFails(c)
  BY <1>2, LockKept, CommandsAssumption DEF LockFails, NotSynced, WithLock, Locked, WriterOnly, Commands
<1>3. CASE Fetch(c)
  BY <1>3, LockKept DEF Fetch, WithLock, Locked, WriterOnly, LockInv
<1>4. CASE ResetDone(c)
  BY <1>4, LockKept, LockReleased DEF ResetDone, WithLock, Locked, WriterOnly
<1>5. CASE LoadPins(c)
  BY <1>5, LockKept DEF LoadPins, WithLock, Locked, WriterOnly
<1>6. ASSUME NEW f \in Files, ResetFile(c, f) PROVE LockInv'
  BY <1>6 DEF ResetFile, LockInv, WithLock
<1> QED BY <1>1, <1>2, <1>3, <1>4, <1>5, <1>6 DEF Step

LEMMA MutateLock == ASSUME TypeOK, LockInv, NEW w \in Writers, Mutate(w) PROVE LockInv'
<1>1. w \in Commands /\ w \notin Readers
  BY CommandsAssumption DEF Commands
<1>2. CASE Load(w)
  BY <1>1, <1>2, LockKept, LockReleased DEF Load, WithLock, Locked, WriterOnly
<1>3. CASE CommitAll(w) \/ Push(w) \/ Accepted(w) \/ PushRejected(w)
  BY <1>1, <1>3, LockKept DEF CommitAll, Push, Accepted, PushRejected, WithLock, Locked
<1>4. CASE RetryOrGiveUp(w)
  BY <1>1, <1>4, LockKept, LockReleased DEF RetryOrGiveUp, WithLock, Locked, WriterOnly
<1>5. CASE SavePins(w)
  BY <1>1, <1>5, LockReleased DEF SavePins, WithLock, Locked, WriterOnly
<1>6. ASSUME NEW f \in Files, Write(w, f) PROVE LockInv'
  BY <1>1, <1>6, LockKept DEF Write, WithLock, Locked, Files
<1> QED BY <1>2, <1>3, <1>4, <1>5, <1>6 DEF Mutate

LEMMA ReadLock == ASSUME TypeOK, LockInv, NEW r \in Readers, Read(r) PROVE LockInv'
  BY LockKept DEF Read, View, Check, Record, WithLock, WriterOnly, Commands

LEMMA FaultLock ==
    ASSUME TypeOK, LockInv, NEW c \in Commands,
           \/ NetworkFails(c)
           \/ c \in Writers /\ (ApplyFails(c) \/ Crash(c) \/ Rerun(c))
    PROVE  LockInv'
<1>1. CASE NetworkFails(c)
  BY <1>1, LockReleased, CommandsAssumption DEF NetworkFails, NotSynced, WithLock, Locked, WriterOnly, Commands
<1>2. CASE ApplyFails(c)
  BY <1>2, LockReleased DEF ApplyFails, WithLock, Locked, WriterOnly
<1>3. CASE Crash(c)
  BY <1>3, LockReleased DEF Crash, WithLock, Locked, WriterOnly
<1>4. CASE Rerun(c)
  BY <1>4, LockKept DEF Rerun, WithLock, Locked, WriterOnly
<1> QED BY <1>1, <1>2, <1>3, <1>4

LEMMA NextLock == TypeOK /\ LockInv /\ [Next]_vars => LockInv'
<1> SUFFICES ASSUME TypeOK, LockInv, [Next]_vars PROVE LockInv'
  OBVIOUS
<1>1. CASE UNCHANGED vars
  BY <1>1 DEF vars, LockInv, WithLock
<1>2. CASE Next
  BY <1>2, StepLock, MutateLock, ReadLock, FaultLock DEF Next, Commands
<1> QED BY <1>1, <1>2

-----------------------------------------------------------------------------
(* What the clones and the remote hold *)

\* No step but Push changes the remote, and Push only adds to its history.
LEMMA PushGrows ==
    ASSUME Inv, NEW w \in Writers, Push(w)
    PROVE  /\ published'.past = fetched[HomeOf[w]].past \cup {Mine(w)}
           /\ published' = Whole(published'.past)
           /\ published.past \subseteq published'.past
           /\ published'.past \subseteq published.past \cup {Mine(w)}
<1>1. local[HomeOf[w]] = Whole(fetched[HomeOf[w]].past \cup {Mine(w)})
  BY DEF Inv, WriterInv, Push
<1>2. fetched[HomeOf[w]].past \subseteq published.past
  BY HomeType DEF Inv, FetchedInv, Commands
<1> QED BY <1>1, <1>2 DEF Push, FastForward, Whole

LEMMA NextFetched == Inv /\ [Next]_vars => FetchedInv'
<1> SUFFICES ASSUME Inv, [Next]_vars PROVE FetchedInv'
  OBVIOUS
<1>1. CASE UNCHANGED <<published, fetched>>
  BY <1>1 DEF Inv, FetchedInv, PublishedWhole, Whole
<1>2. ASSUME NEW c \in Commands, Fetch(c) PROVE FetchedInv'
  <2>1. fetched' = [fetched EXCEPT ![HomeOf[c]] = published] /\ published' = published
    BY <1>2 DEF Fetch, remote
  <2>2. \A h \in Homes : fetched'[h] = IF h = HomeOf[c] THEN published ELSE fetched[h]
    BY <2>1 DEF Inv, TypeOK
  <2> QED BY <2>1, <2>2 DEF Inv, FetchedInv, PublishedWhole, Whole
<1>3. ASSUME NEW w \in Writers, Push(w) PROVE FetchedInv'
  <2>1. fetched' = fetched
    BY <1>3 DEF Push, clones
  <2> QED BY <1>3, <2>1, PushGrows DEF Inv, FetchedInv, PublishedWhole
<1>4. \/ UNCHANGED <<published, fetched>>
      \/ \E c \in Commands : Fetch(c)
      \/ \E w \in Writers : Push(w)
  BY DEF Next, Step, Mutate, Read, vars, remote, clones, Lock, LockFails, ResetFile, ResetDone,
         LoadPins, Load, Write, CommitAll, Accepted, PushRejected, RetryOrGiveUp, SavePins,
         View, Check, Record, NetworkFails, ApplyFails, Crash, Rerun
<1> QED BY <1>1, <1>2, <1>3, <1>4

\* A step of a command leaves the other mutations what they count on: it only
\* changes its own clone, and only with the lock.
Apart(c) ==
    /\ \A d \in Commands : d # c => pc'[d] = pc[d] /\ base'[d] = base[d]
    /\ \A w \in Writers : w # c => round'[w] = round[w]
    /\ \A h \in Homes : h # HomeOf[c] =>
        fetched'[h] = fetched[h] /\ local'[h] = local[h] /\ files'[h] = files[h]
    /\ UNCHANGED clones \/ pc[c] \in WithLock(c)
    /\ published.past \subseteq published'.past
    /\ \A e \in published'.past : e \notin published.past => e[1] = c

LEMMA OthersKept ==
    ASSUME Inv, NEW c \in Commands, Apart(c), NEW w \in Writers, w # c
    PROVE  WriterInv(w)'
<1>1. w \in Commands /\ w \notin Readers /\ HomeOf[w] \in Homes
  BY CommandsAssumption, HomeType DEF Commands
<1>2. /\ pc'[w] = pc[w] /\ base'[w] = base[w] /\ Mine(w)' = Mine(w)
      /\ published.past \subseteq published'.past
  BY <1>1 DEF Apart, Mine
<1>3. ASSUME pc[w] \in Locked
      PROVE  /\ fetched'[HomeOf[w]] = fetched[HomeOf[w]]
             /\ local'[HomeOf[w]] = local[HomeOf[w]]
             /\ files'[HomeOf[w]] = files[HomeOf[w]]
  <2>1. CASE UNCHANGED clones
    BY <2>1 DEF clones
  <2>2. CASE pc[c] \in WithLock(c)
    <3>1. HomeOf[c] # HomeOf[w]
      BY <1>1, <1>3, <2>2, Exclusive DEF Inv, WithLock
    <3> QED BY <1>1, <3>1 DEF Apart
  <2> QED BY <2>1, <2>2 DEF Apart
<1>4. WriterInv(w)
  BY DEF Inv
<1>5. CASE pc[w] \in Locked
  BY <1>2, <1>3, <1>4, <1>5 DEF WriterInv, Known
<1>6. CASE pc[w] \notin Locked
  BY <1>2, <1>4, <1>6 DEF WriterInv, Locked, Known
<1> QED BY <1>5, <1>6

LEMMA StepApart == ASSUME Inv, NEW c \in Commands, Step(c) PROVE Apart(c)
<1> USE HomeType DEF Inv, TypeOK, Apart, clones, remote, Goto, End
<1>1. CASE Lock(c) \/ LockFails(c) \/ LoadPins(c)
  BY <1>1 DEF Lock, LockFails, LoadPins
<1>2. CASE Fetch(c)
  BY <1>2 DEF Fetch, WithLock, Locked, LockInv
<1>3. CASE ResetDone(c)
  BY <1>3 DEF ResetDone, WithLock, Locked
<1>4. ASSUME NEW f \in Files, ResetFile(c, f) PROVE Apart(c)
  BY <1>4 DEF ResetFile, WithLock, Locked, LockInv
<1> QED BY <1>1, <1>2, <1>3, <1>4 DEF Step

LEMMA MutateApart == ASSUME Inv, NEW w \in Writers, Mutate(w) PROVE Apart(w)
<1>0. w \in Commands /\ w \notin Readers
  BY CommandsAssumption DEF Commands
<1> USE <1>0, HomeType DEF Inv, TypeOK, Apart, clones, remote, Goto, End
<1>1. CASE Load(w) \/ Accepted(w) \/ PushRejected(w) \/ SavePins(w)
  BY <1>1 DEF Load, Accepted, PushRejected, SavePins
<1>2. CASE CommitAll(w) \/ RetryOrGiveUp(w)
  BY <1>2 DEF CommitAll, RetryOrGiveUp, WithLock, Locked
<1>3. CASE Push(w)
  <2>1. /\ published.past \subseteq published'.past
        /\ published'.past \subseteq published.past \cup {Mine(w)}
    BY <1>3, PushGrows
  <2>2. \A e \in published'.past : e \notin published.past => e[1] = w
    BY <2>1 DEF Mine
  <2> QED BY <1>3, <2>1, <2>2 DEF Push
<1>4. ASSUME NEW f \in Files, Write(w, f) PROVE Apart(w)
  BY <1>4 DEF Write, WithLock, Locked, Files
<1> QED BY <1>1, <1>2, <1>3, <1>4 DEF Mutate

LEMMA RestApart ==
    ASSUME Inv, NEW c \in Commands,
           \/ NetworkFails(c)
           \/ c \in Writers /\ (ApplyFails(c) \/ Crash(c) \/ Rerun(c))
           \/ c \in Readers /\ Read(c)
    PROVE  Apart(c)
  BY DEF Inv, TypeOK, Apart, clones, remote, Goto, End, NetworkFails, ApplyFails, Crash, Rerun,
         Read, View, Check, Record

\* What a mutation counts on, after a step of its own.
LEMMA OwnStep == ASSUME Inv, NEW w \in Writers, Step(w) PROVE WriterInv(w)'
<1>0. w \in Commands /\ w \notin Readers /\ HomeOf[w] \in Homes
  BY CommandsAssumption, HomeType DEF Commands
<1>1. CASE Lock(w) \/ LockFails(w) \/ Fetch(w)
  BY <1>0, <1>1 DEF Inv, TypeOK, WriterInv, Lock, LockFails, Fetch, Goto, NotSynced
<1>2. CASE ResetDone(w)
  BY <1>0, <1>2 DEF Inv, TypeOK, WriterInv, ResetDone, Goto
<1>3. CASE LoadPins(w)
  BY <1>0, <1>3 DEF Inv, TypeOK, WriterInv, LoadPins, Goto, clones
<1>4. ASSUME NEW f \in Files, ResetFile(w, f) PROVE WriterInv(w)'
  BY <1>0, <1>4 DEF Inv, TypeOK, WriterInv, ResetFile
<1> QED BY <1>1, <1>2, <1>3, <1>4 DEF Step

LEMMA OwnMutate == ASSUME Inv, NEW w \in Writers, Mutate(w) PROVE WriterInv(w)'
<1>0. w \in Commands /\ w \notin Readers /\ HomeOf[w] \in Homes
  BY CommandsAssumption, HomeType DEF Commands
<1>1. CASE Load(w)
  <2>1. files[HomeOf[w]] = fetched[HomeOf[w]].tree /\ local[HomeOf[w]] = fetched[HomeOf[w]]
    BY <1>1 DEF Inv, WriterInv, Load
  <2>2. files[HomeOf[w]]["manifest"] = fetched[HomeOf[w]].past
    <3>1. fetched[HomeOf[w]].tree = Whole(fetched[HomeOf[w]].past).tree
      BY <1>0 DEF Inv, FetchedInv
    <3> QED BY <2>1, <3>1 DEF Whole, Files
  <2>3. fetched[HomeOf[w]].past \subseteq published.past
    BY <1>0 DEF Inv, FetchedInv
  <2>4. \/ pc'[w] = "failed"
        \/ pc'[w] = "done" /\ Known(w, published.past) /\ w \notin Forced
        \/ /\ pc'[w] = "content" /\ base'[w] = fetched[HomeOf[w]].past
           /\ Known(w, fetched[HomeOf[w]].past) => w \in Repeatable
    BY <1>0, <1>1, <2>2, <2>3 DEF Inv, TypeOK, Load, Goto, End, Known
  <2>5. UNCHANGED <<published, fetched, local, round>>
    BY <1>1 DEF Load, remote, clones
  <2> QED BY <1>0, <2>1, <2>4, <2>5 DEF WriterInv, Known, Mine
<1>2. CASE CommitAll(w)
  <2>1. /\ files[HomeOf[w]] = Whole(base[w] \cup {Mine(w)}).tree
        /\ local[HomeOf[w]] = fetched[HomeOf[w]]
        /\ base[w] = fetched[HomeOf[w]].past
    BY <1>2 DEF Inv, WriterInv, CommitAll
  <2>2. local'[HomeOf[w]] = Whole(fetched[HomeOf[w]].past \cup {Mine(w)})
    BY <1>0, <1>2, <2>1 DEF Inv, TypeOK, CommitAll, Whole
  <2>3. pc'[w] = "push" /\ fetched' = fetched /\ Mine(w)' = Mine(w)
    BY <1>0, <1>2 DEF Inv, TypeOK, CommitAll, Goto, Mine
  <2>4. Known(w, fetched[HomeOf[w]].past) => w \in Repeatable
    BY <1>2 DEF Inv, WriterInv, CommitAll
  <2> QED BY <2>2, <2>3, <2>4 DEF WriterInv, Known
<1>3. CASE Push(w)
  <2>1. pc'[w] = "answer" /\ Mine(w)' = Mine(w)
    BY <1>0, <1>3 DEF Inv, TypeOK, Push, Goto, Mine
  <2>2. Mine(w) \in published'.past
    BY <1>3, PushGrows
  <2> QED BY <2>1, <2>2 DEF WriterInv
<1>4. CASE Accepted(w)
  BY <1>0, <1>4 DEF Inv, TypeOK, WriterInv, Accepted, Goto, remote, Mine
<1>5. CASE PushRejected(w) \/ RetryOrGiveUp(w)
  BY <1>0, <1>5 DEF Inv, TypeOK, WriterInv, PushRejected, RetryOrGiveUp, Goto, End
<1>6. CASE SavePins(w)
  <2>1. pc'[w] = "done" /\ published' = published /\ Mine(w)' = Mine(w)
    BY <1>0, <1>6 DEF Inv, TypeOK, SavePins, Goto, End, remote, Mine
  <2>2. Mine(w) \in published.past /\ Mine(w)[1] = w
    BY <1>6 DEF Inv, WriterInv, SavePins, Mine
  <2> QED BY <2>1, <2>2 DEF WriterInv, Known
<1>7. CASE Write(w, "content")
  <2>1. files'[HomeOf[w]]["content"] = base[w] \cup {Mine(w)}
    BY <1>0, <1>7 DEF Inv, TypeOK, Trees, Write, Files
  <2> QED BY <1>0, <1>7, <2>1 DEF Inv, TypeOK, WriterInv, Write, Goto, Known, Mine
<1>8. CASE Write(w, "manifest")
  <2>1. files[HomeOf[w]]["content"] = base[w] \cup {Mine(w)}
    BY <1>8 DEF Inv, WriterInv, Write
  <2>2. files'[HomeOf[w]] = [files[HomeOf[w]] EXCEPT !["manifest"] = base[w] \cup {Mine(w)}]
    BY <1>0, <1>8 DEF Inv, TypeOK, Write
  <2>3. files[HomeOf[w]] \in [Files -> Contents]
    BY <1>0 DEF Inv, TypeOK, Trees
  <2>4. files'[HomeOf[w]] = [f \in Files |-> base[w] \cup {Mine(w)}]
    BY <2>1, <2>2, <2>3 DEF Files
  <2> QED BY <1>0, <1>8, <2>4 DEF Inv, TypeOK, WriterInv, Write, Goto, Whole, Known, Mine
<1> QED BY <1>1, <1>2, <1>3, <1>4, <1>5, <1>6, <1>7, <1>8 DEF Mutate, Files

LEMMA OwnFault ==
    ASSUME Inv, NEW w \in Writers, NetworkFails(w) \/ ApplyFails(w) \/ Crash(w) \/ Rerun(w)
    PROVE  WriterInv(w)'
<1>0. w \in Commands /\ w \notin Readers
  BY CommandsAssumption DEF Commands
<1> QED BY <1>0 DEF Inv, TypeOK, WriterInv, NetworkFails, ApplyFails, Crash, Rerun, Goto, End, NotSynced

LEMMA NextWriters == Inv /\ [Next]_vars => \A w \in Writers : WriterInv(w)'
<1> SUFFICES ASSUME Inv, [Next]_vars, NEW w \in Writers PROVE WriterInv(w)'
  OBVIOUS
<1>0. Readers \subseteq Commands /\ Writers \subseteq Commands /\ w \notin Readers
  BY CommandsAssumption DEF Commands
<1>1. CASE UNCHANGED vars
  BY <1>1 DEF Inv, WriterInv, Known, Mine, vars, remote, clones
<1>2. ASSUME NEW c \in Commands, Step(c) \/ NetworkFails(c) PROVE WriterInv(w)'
  <2>1. Apart(c)
    BY <1>2, StepApart, RestApart
  <2> QED BY <1>2, <2>1, OthersKept, OwnStep, OwnFault
<1>3. ASSUME NEW v \in Writers, Mutate(v) \/ ApplyFails(v) \/ Crash(v) \/ Rerun(v)
      PROVE  WriterInv(w)'
  <2>1. Apart(v)
    BY <1>0, <1>3, MutateApart, RestApart
  <2> QED BY <1>0, <1>3, <2>1, OthersKept, OwnMutate, OwnFault
<1>4. ASSUME NEW r \in Readers, Read(r) PROVE WriterInv(w)'
  BY <1>0, <1>4, RestApart, OthersKept
<1> QED BY <1>1, <1>2, <1>3, <1>4 DEF Next

\* The run of another command, after a step of c.
LEMMA RunsApart ==
    ASSUME Inv, NEW c \in Commands, Apart(c), NEW w \in Writers, w # c, rerun' \in {rerun, rerun + 1}
    PROVE  round'[w] <= rerun' /\ (pc'[w] \in Unpushed => Mine(w)' \notin published'.past)
<1>1. pc'[w] = pc[w] /\ Mine(w)' = Mine(w) /\ round'[w] = round[w] /\ Mine(w)[1] = w
  BY DEF Apart, Mine, Commands
<1>2. Mine(w) \in published'.past => Mine(w) \in published.past
  BY <1>1 DEF Apart
<1>3. round[w] \in Nat /\ rerun \in Nat /\ round[w] <= rerun
  BY BoundsAssumption DEF Inv, TypeOK, RunInv
<1> QED BY <1>1, <1>2, <1>3 DEF Inv, RunInv

\* Every step but the start of a run keeps its number.
LEMMA RunsKept ==
    ASSUME NEW c \in Commands,
           \/ Step(c) \/ NetworkFails(c)
           \/ c \in Writers /\ (Mutate(c) \/ ApplyFails(c) \/ Crash(c))
           \/ c \in Readers /\ Read(c)
    PROVE  UNCHANGED <<round, rerun>>
  BY DEF Step, Lock, LockFails, Fetch, ResetFile, ResetDone, LoadPins, NetworkFails, ApplyFails, Crash,
         Mutate, Load, Write, CommitAll, Push, Accepted, PushRejected, RetryOrGiveUp, SavePins,
         Read, View, Check, Record

\* Only its push gives a run its effect.
LEMMA OwnRun ==
    ASSUME Inv, NEW w \in Writers,
           Step(w) \/ NetworkFails(w) \/ Mutate(w) \/ ApplyFails(w) \/ Crash(w) \/ Rerun(w)
    PROVE  /\ pc'[w] \in Unpushed => Mine(w)' \notin published'.past
           /\ round'[w] <= rerun' /\ rerun' \in {rerun, rerun + 1}
           /\ \A e \in published'.past : e \notin published.past => e = Mine(w)
<1>0. /\ w \in Commands /\ w \notin Readers /\ round[w] \in Nat /\ rerun \in Nat /\ round[w] <= rerun
      /\ pc[w] \in Unpushed => Mine(w) \notin published.past
  BY CommandsAssumption, BoundsAssumption DEF Commands, Inv, TypeOK, RunInv
<1>1. CASE Rerun(w)
  <2>1. rerun' = rerun + 1 /\ round'[w] = rerun + 1 /\ published' = published
    BY <1>1 DEF Rerun, Inv, TypeOK, remote
  <2>2. Mine(w)' \notin published.past
    <3>1. Mine(w)'[2] = rerun + 1
      BY <2>1 DEF Mine
    <3>2. ~(rerun + 1 <= rerun)
      BY <1>0
    <3> QED BY <3>1, <3>2 DEF Inv, RunInv
  <2> QED BY <1>0, <2>1, <2>2
<1>2. CASE Push(w)
  <2>1. pc'[w] = "answer"
    BY <1>0, <1>2 DEF Push, Goto, Inv, TypeOK
  <2>2. UNCHANGED <<round, rerun>>
    BY <1>2 DEF Push
  <2> QED BY <1>0, <1>2, <2>1, <2>2, PushGrows DEF Unpushed
<1>3. CASE ~Rerun(w) /\ ~Push(w)
  <2>1. UNCHANGED <<round, rerun>>
    BY <1>0, <1>3, RunsKept
  <2>2. published' = published
    BY <1>3 DEF Step, Lock, LockFails, Fetch, ResetFile, ResetDone, LoadPins, NetworkFails, ApplyFails,
       Crash, Mutate, Load, Write, CommitAll, Accepted, PushRejected, RetryOrGiveUp, SavePins, remote
  <2>3. pc'[w] \in Unpushed => pc[w] \in Unpushed
    BY <1>0, <1>3 DEF Step, Lock, LockFails, Fetch, ResetFile, ResetDone, LoadPins, NetworkFails, ApplyFails,
       Crash, Mutate, Load, Write, CommitAll, Accepted, PushRejected, RetryOrGiveUp, SavePins,
       Goto, End, NotSynced, Unpushed, Inv, TypeOK, Files
  <2> QED BY <1>0, <2>1, <2>2, <2>3 DEF Mine
<1> QED BY <1>1, <1>2, <1>3

LEMMA NextRuns == Inv /\ [Next]_vars => RunInv'
<1> SUFFICES ASSUME Inv, [Next]_vars PROVE RunInv'
  OBVIOUS
<1>0. Readers \subseteq Commands /\ Writers \subseteq Commands /\ Readers \cap Writers = {}
  BY CommandsAssumption DEF Commands
<1>1. CASE UNCHANGED vars
  BY <1>1 DEF Inv, RunInv, Unpushed, Mine, vars, remote
<1>2. ASSUME NEW w \in Writers,
             Step(w) \/ NetworkFails(w) \/ Mutate(w) \/ ApplyFails(w) \/ Crash(w) \/ Rerun(w)
      PROVE  RunInv'
  <2>1. Apart(w)
    BY <1>0, <1>2, StepApart, MutateApart, RestApart
  <2>2. /\ pc'[w] \in Unpushed => Mine(w)' \notin published'.past
        /\ round'[w] <= rerun' /\ rerun' \in {rerun, rerun + 1}
        /\ \A e \in published'.past : e \notin published.past => e = Mine(w)
    BY <1>2, OwnRun
  <2>3. \A v \in Writers :
            round'[v] <= rerun' /\ (pc'[v] \in Unpushed => Mine(v)' \notin published'.past)
    BY <1>0, <2>1, <2>2, RunsApart
  <2>4. ASSUME NEW e \in published'.past PROVE e[2] <= rerun'
    <3>1. rerun \in Nat /\ round[w] \in Nat /\ round[w] <= rerun
      BY BoundsAssumption DEF Inv, TypeOK, RunInv
    <3>2. CASE e = Mine(w)
      BY <2>2, <3>1, <3>2 DEF Mine
    <3>3. CASE e \in published.past
      <4>1. e[2] \in Nat /\ e[2] <= rerun
        BY <3>3 DEF Inv, TypeOK, RunInv, Contents, Effects
      <4> QED BY <2>2, <3>1, <4>1
    <3> QED BY <2>2, <3>2, <3>3
  <2>5. Unpushed' = Unpushed
    BY DEF Unpushed
  <2> QED BY <2>3, <2>4, <2>5 DEF RunInv
<1>3. ASSUME NEW r \in Readers, Step(r) \/ NetworkFails(r) \/ Read(r) PROVE RunInv'
  <2>1. Apart(r) /\ UNCHANGED <<round, rerun>>
    BY <1>0, <1>3, StepApart, RestApart, RunsKept
  <2>2. \A v \in Writers :
            round'[v] <= rerun' /\ (pc'[v] \in Unpushed => Mine(v)' \notin published'.past)
    BY <1>0, <2>1, RunsApart
  <2>3. published' = published
    BY <1>3 DEF Step, Lock, LockFails, Fetch, ResetFile, ResetDone, LoadPins, NetworkFails,
       Read, View, Check, Record, remote
  <2>4. Unpushed' = Unpushed
    BY DEF Unpushed
  <2> QED BY <2>1, <2>2, <2>3, <2>4 DEF Inv, RunInv
<1> QED BY <1>1, <1>2, <1>3 DEF Next, Commands

LEMMA InitInv == Init => Inv
<1> HAVE Init
<1>1. \A c \in Commands : pc[c] = "start"
  BY DEF Init
<1>2. LockInv
  BY <1>1 DEF LockInv, WithLock, Locked, Commands
<1>3. FetchedInv
  BY DEF Init, FetchedInv, PublishedWhole, Whole
<1>4. \A w \in Writers : WriterInv(w)
  BY <1>1 DEF WriterInv, Commands
<1>5. RunInv
  BY BoundsAssumption DEF Init, RunInv, Whole
<1> QED BY <1>2, <1>3, <1>4, <1>5, InitTyped DEF Inv

LEMMA InvCorrect == Spec => []Inv
<1>1. Init => Inv
  BY InitInv
<1>2. Inv /\ [Next]_vars => Inv'
  BY NextTyped, NextLock, NextFetched, NextRuns, NextWriters DEF Inv
<1> QED BY <1>1, <1>2, PTL DEF Spec

\* What is published is always the whole outcome of its history.
THEOREM PublishedCorrect == Spec => []PublishedWhole
<1>1. Inv => PublishedWhole
  BY DEF Inv, FetchedInv
<1> QED BY <1>1, InvCorrect, PTL

-----------------------------------------------------------------------------
(* The store implements the log of commands *)

\* What the user is told of a mutation.
Told(w) == IF pc[w] = "done" THEN "done" ELSE IF pc[w] \in Ended THEN "error" ELSE "running"

\* A step that ends no command and leaves the remote alone is one the log does
\* not see.
LEMMA Unseen ==
    ASSUME UNCHANGED <<published, round>>, \A w \in Writers : Told(w)' = Told(w)
    PROVE  UNCHANGED Log!vars
  BY DEF Log!vars, Told

\* A step that ends one mutation, w, with an error.
LEMMA SeenFail ==
    ASSUME NEW w \in Writers, UNCHANGED <<published, round>>, Told(w) = "running", Told(w)' = "error",
           \A v \in Writers : v # w => Told(v)' = Told(v)
    PROVE  Log!Fail(w)
  BY DEF Log!Fail, Told

LEMMA SeenReport ==
    ASSUME NEW w \in Writers, UNCHANGED <<published, round>>, Told(w) = "running", Told(w)' = "done",
           Known(w, published.past), w \in Forced => Mine(w) \in published.past,
           \A v \in Writers : v # w => Told(v)' = Told(v)
    PROVE  Log!Report(w)
<1> DEFINE told == [v \in Writers |-> Told(v)]
<1>1. told' = [told EXCEPT ![w] = "done"]
  OBVIOUS
<1>2. told[w] = "running"
  OBVIOUS
<1> QED BY <1>1, <1>2 DEF Log!Report, Log!InEffect, Told, Known, Mine

LEMMA SeenRerun ==
    ASSUME NEW w \in Writers, UNCHANGED published, Told(w) = "error", Told(w)' = "running",
           NEW n \in 0..Reruns, n > round[w], round' = [round EXCEPT ![w] = n],
           \A v \in Writers : v # w => Told(v)' = Told(v)
    PROVE  Log!Rerun(w)
  BY DEF Log!Rerun, Told

\* A step of one command changes what is told of that command at most.
LEMMA ToldApart ==
    ASSUME NEW c \in Commands, Apart(c), NEW v \in Writers, v # c
    PROVE  Told(v)' = Told(v)
  BY DEF Apart, Told, Commands

LEMMA PushImplements ==
    ASSUME Inv, NEW w \in Writers, Push(w) PROVE [Log!Next]_(Log!vars)
<1>1. \A v \in Writers : Told(v)' = Told(v) /\ Told(w) = "running"
  BY DEF Push, Goto, Told, Inv, TypeOK, Ended, Commands
<1>2. Mine(w) \notin published.past
  BY DEF Inv, RunInv, Push, Unpushed
<1>3. published'.past = published.past \cup {Mine(w)}
  BY PushGrows
<1>4. Known(w, published.past) => w \in Repeatable
  <2>1. published.past \subseteq fetched[HomeOf[w]].past \cup {Mine(w)}
    <3>1. local[HomeOf[w]] = Whole(fetched[HomeOf[w]].past \cup {Mine(w)})
      BY DEF Push, Inv, WriterInv
    <3> QED BY <3>1 DEF Push, FastForward, Whole
  <2>2. published.past \subseteq fetched[HomeOf[w]].past
    BY <1>2, <2>1
  <2>3. Known(w, fetched[HomeOf[w]].past) => w \in Repeatable
    BY DEF Push, Inv, WriterInv
  <2> QED BY <2>2, <2>3 DEF Known
<1>5. round' = round
  BY DEF Push
<1>6. Log!Commit(w)
  BY <1>1, <1>2, <1>3, <1>4, <1>5 DEF Log!Commit, Log!InEffect, Told, Known, Mine
<1> QED BY <1>6 DEF Log!Next

LEMMA StepImplements ==
    ASSUME Inv, NEW c \in Commands, Step(c) PROVE [Log!Next]_(Log!vars)
<1>1. UNCHANGED <<published, round>>
  BY DEF Step, Lock, LockFails, Fetch, ResetDone, LoadPins, ResetFile, remote
<1>2. \A v \in Writers : v # c => Told(v)' = Told(v)
  BY StepApart, ToldApart
<1>3. CASE c \in Readers
  <2>1. \A v \in Writers : v # c
    BY <1>3, CommandsAssumption
  <2> QED BY <1>1, <1>2, <2>1, Unseen
<1>4. CASE c \in Writers /\ LockFails(c)
  <2>1. Told(c) = "running" /\ Told(c)' = "error"
    BY <1>4, CommandsAssumption DEF LockFails, Goto, NotSynced, Told, Inv, TypeOK, Ended
  <2>2. Log!Fail(c)
    BY <1>1, <1>2, <1>4, <2>1, SeenFail
  <2> QED BY <1>4, <2>2 DEF Log!Next
<1>5. CASE c \in Writers /\ ~LockFails(c)
  <2>1. c \notin Readers
    BY <1>5, CommandsAssumption
  <2>2. Told(c) = "running" /\ Told(c)' = "running"
    BY <1>5, <2>1 DEF Step, Lock, Fetch, ResetDone, LoadPins, ResetFile, Goto, Told, Inv, TypeOK, Ended
  <2> QED BY <1>1, <1>2, <2>2, Unseen
<1> QED BY <1>3, <1>4, <1>5 DEF Commands

LEMMA MutateImplements ==
    ASSUME Inv, NEW w \in Writers, Mutate(w) PROVE [Log!Next]_(Log!vars)
<1>0. w \in Commands /\ HomeOf[w] \in Homes
  BY HomeType DEF Commands
<1>1. \A v \in Writers : v # w => Told(v)' = Told(v)
  BY <1>0, MutateApart, ToldApart
<1>2. CASE Push(w)
  BY <1>2, PushImplements
<1>3. ASSUME ~Push(w) PROVE UNCHANGED <<published, round>>
  BY <1>3 DEF Mutate, Load, CommitAll, Accepted, PushRejected, RetryOrGiveUp, SavePins, Write, remote
<1>4. ASSUME ~Push(w) PROVE Told(w) = "running" /\ Told(w)' \in {"running", "error", "done"}
  BY <1>0, <1>4 DEF Mutate, Load, CommitAll, Accepted, PushRejected, RetryOrGiveUp, SavePins, Write,
     Files, Told, Inv, TypeOK, Ended
<1>5. ASSUME Told(w)' = "done", UNCHANGED <<published, round>>
      PROVE  Known(w, published.past) /\ (w \in Forced => Mine(w) \in published.past)
  <2>1. WriterInv(w)' /\ pc'[w] = "done"
    BY <1>5, OwnMutate DEF Told
  <2> QED BY <1>5, <2>1 DEF WriterInv, Known, Mine
<1>6. CASE ~Push(w) /\ Told(w)' = "running"
  <2>1. \A v \in Writers : Told(v)' = Told(v)
    BY <1>1, <1>4, <1>6
  <2> QED BY <1>3, <1>6, <2>1, Unseen
<1>7. CASE ~Push(w) /\ Told(w)' = "error"
  <2>1. Log!Fail(w)
    BY <1>1, <1>3, <1>4, <1>7, SeenFail
  <2> QED BY <2>1 DEF Log!Next
<1>8. CASE ~Push(w) /\ Told(w)' = "done"
  <2>1. Log!Report(w)
    BY <1>1, <1>3, <1>4, <1>5, <1>8, SeenReport
  <2> QED BY <2>1 DEF Log!Next
<1> QED BY <1>2, <1>4, <1>6, <1>7, <1>8

LEMMA RestImplements ==
    ASSUME Inv, NEW c \in Commands,
           \/ NetworkFails(c)
           \/ c \in Writers /\ (ApplyFails(c) \/ Crash(c) \/ Rerun(c))
           \/ c \in Readers /\ Read(c)
    PROVE  [Log!Next]_(Log!vars)
<1>1. UNCHANGED published /\ (UNCHANGED round \/ (c \in Writers /\ Rerun(c)))
  BY DEF NetworkFails, ApplyFails, Crash, Read, View, Check, Record, Rerun, remote
<1>2. \A v \in Writers : v # c => Told(v)' = Told(v)
  BY RestApart, ToldApart
<1>3. CASE c \in Readers
  <2>1. \A v \in Writers : v # c
    BY <1>3, CommandsAssumption
  <2> QED BY <1>1, <1>2, <1>3, <2>1, Unseen
<1>4. CASE c \in Writers /\ Rerun(c)
  <2>1. Told(c) = "error" /\ Told(c)' = "running"
    BY <1>4 DEF Rerun, Goto, Told, Inv, TypeOK, Ended
  <2>2. rerun + 1 \in 0..Reruns /\ rerun + 1 > round[c] /\ round' = [round EXCEPT ![c] = rerun + 1]
    <3>1. /\ rerun \in Nat /\ rerun < Reruns /\ round[c] \in Nat /\ round[c] <= rerun /\ Reruns \in Nat
          /\ round' = [round EXCEPT ![c] = rerun + 1]
      BY <1>4, BoundsAssumption DEF Rerun, Inv, TypeOK, RunInv
    <3> QED BY <3>1
  <2>3. Log!Rerun(c)
    BY <1>1, <1>2, <1>4, <2>1, <2>2, SeenRerun
  <2> QED BY <1>4, <2>3 DEF Log!Next
<1>5. CASE c \in Writers /\ (NetworkFails(c) \/ ApplyFails(c) \/ Crash(c))
  <2>1. Told(c) = "running" /\ Told(c)' = "error"
    BY <1>5, CommandsAssumption
       DEF NetworkFails, ApplyFails, Crash, End, Goto, NotSynced, Told, Inv, TypeOK, Ended, Locked
  <2>2. UNCHANGED round
    BY <1>5 DEF NetworkFails, ApplyFails, Crash
  <2>3. Log!Fail(c)
    BY <1>1, <1>2, <1>5, <2>1, <2>2, SeenFail
  <2> QED BY <1>5, <2>3 DEF Log!Next
<1> QED BY <1>3, <1>4, <1>5, CommandsAssumption DEF Commands

LEMMA NextImplements == Inv /\ [Next]_vars => [Log!Next]_(Log!vars)
<1> SUFFICES ASSUME Inv, [Next]_vars PROVE [Log!Next]_(Log!vars)
  OBVIOUS
<1>1. CASE UNCHANGED vars
  BY <1>1, Unseen DEF vars, remote, Told
<1>2. CASE Next
  BY <1>2, StepImplements, MutateImplements, RestImplements DEF Next, Commands
<1> QED BY <1>1, <1>2

\* However homes race, retry, fail and crash, the store is one log of runs: each
\* takes effect once at most, on top of all before it; a command that is run again
\* takes effect again only if it may (add --force, or one undone since); and none
\* is reported as done that took no effect, a forced one in this very run.
THEOREM StoreIsLog == Spec => ImplementsLog
<1>1. Init => Log!Init
  BY DEF Init, Log!Init, Whole, Commands, Ended
<1>2. Inv /\ [Next]_vars => [Log!Next]_(Log!vars)
  BY NextImplements
<1> QED BY <1>1, <1>2, InvCorrect, PTL DEF Spec, ImplementsLog, Log!Spec

-----------------------------------------------------------------------------
(* Retries *)

\* How many others a mutation has lost to.
Lost(w) ==
    IF pc[w] = "exhausted" THEN MaxRetries
    ELSE IF pc[w] \in {"refetch", "rereset"} THEN attempt[w]
    ELSE attempt[w] - 1

\* They were published before its last fetch, until it loses again.
Fetched == {"reset", "pins", "load", "content", "manifest", "commit", "push"}

\* The effects of its own earlier runs were published before as well.
Progress(w) ==
    /\ Cardinality(Others(w, published.past)) >= Lost(w)
    /\ pc[w] \in Fetched =>
        /\ Cardinality(Others(w, fetched[HomeOf[w]].past)) >= attempt[w] - 1
        /\ \A e \in published.past : e[1] = w => e \in fetched[HomeOf[w]].past

\* More published effects are more of others.
LEMMA OthersGrow ==
    ASSUME NEW s \in Contents, NEW t \in Contents, NEW w, s \subseteq t
    PROVE  /\ Cardinality(Others(w, s)) \in Nat /\ Cardinality(Others(w, t)) \in Nat
           /\ Cardinality(Others(w, s)) <= Cardinality(Others(w, t))
<1>1. IsFiniteSet(Others(w, t))
  BY ContentsFinite, FS_Subset DEF Others
<1>2. Others(w, s) \subseteq Others(w, t)
  BY DEF Others
<1> QED BY <1>1, <1>2, FS_Subset, FS_CardinalityType

\* A push that is rejected is one more mutation published by somebody else.
LEMMA OneMore ==
    ASSUME Inv, NEW w \in Writers, pc[w] = "push", Progress(w), ~FastForward(HomeOf[w])
    PROVE  Cardinality(Others(w, published.past)) >= attempt[w]
<1> DEFINE old == fetched[HomeOf[w]].past
<1>1. HomeOf[w] \in Homes
  BY HomeType DEF Commands
<1>2. local[HomeOf[w]] = Whole(old \cup {Mine(w)}) /\ old \subseteq published.past
  BY <1>1 DEF Inv, WriterInv, FetchedInv
<1>3. PICK x \in published.past : x \notin old /\ x[1] # w
  <2>1. PICK x \in published.past : x \notin old
    BY <1>2 DEF FastForward, Whole
  <2> QED BY <2>1 DEF Progress, Fetched
<1>4. old \in Contents /\ published.past \in Contents
  BY <1>1 DEF Inv, TypeOK
<1>5. IsFiniteSet(Others(w, old)) /\ IsFiniteSet(Others(w, published.past))
  BY <1>4, ContentsFinite, FS_Subset DEF Others
<1>6. Cardinality(Others(w, old) \cup {x}) = Cardinality(Others(w, old)) + 1
  BY <1>3, <1>5, FS_AddElement DEF Others
<1>7. Cardinality(Others(w, old) \cup {x}) <= Cardinality(Others(w, published.past))
  <2>1. Others(w, old) \cup {x} \subseteq Others(w, published.past)
    BY <1>2, <1>3 DEF Others
  <2> QED BY <1>5, <2>1, FS_Subset
<1>8. Cardinality(Others(w, old)) \in Nat /\ Cardinality(Others(w, published.past)) \in Nat
  BY <1>5, FS_CardinalityType
<1>9. Cardinality(Others(w, old)) >= attempt[w] - 1
  BY DEF Progress, Fetched
<1>10. attempt[w] \in Nat
  BY BoundsAssumption DEF Inv, TypeOK
<1> QED BY <1>6, <1>7, <1>8, <1>9, <1>10

\* What others do takes nothing from what a mutation has seen.
LEMMA OthersProgress ==
    ASSUME Inv, TypeOK', NEW c \in Commands, Apart(c), NEW w \in Writers, w # c,
           attempt'[w] = attempt[w], Progress(w)
    PROVE  Progress(w)'
<1>1. w \in Commands /\ w \notin Readers /\ HomeOf[w] \in Homes
  BY CommandsAssumption, HomeType DEF Commands
<1>2. pc'[w] = pc[w] /\ published.past \subseteq published'.past
  BY <1>1 DEF Apart
<1>3. Lost(w)' = Lost(w)
  BY <1>2 DEF Lost
<1>4. attempt[w] \in Nat /\ Lost(w) \in Int
  BY BoundsAssumption DEF Inv, TypeOK, Lost
<1>5. Cardinality(Others(w, published'.past)) >= Lost(w)'
  <2>1. published.past \in Contents /\ published'.past \in Contents
    BY DEF Inv, TypeOK
  <2>2. /\ Cardinality(Others(w, published.past)) \in Nat /\ Cardinality(Others(w, published'.past)) \in Nat
        /\ Cardinality(Others(w, published.past)) <= Cardinality(Others(w, published'.past))
    BY <1>2, <2>1, OthersGrow
  <2>3. Cardinality(Others(w, published.past)) >= Lost(w)
    BY DEF Progress
  <2>4. Cardinality(Others(w, published'.past)) >= Lost(w)
    BY <1>4, <2>2, <2>3
  <2> QED BY <1>3, <2>4
<1>6. ASSUME pc[w] \in Fetched PROVE fetched'[HomeOf[w]] = fetched[HomeOf[w]]
  <2>1. CASE UNCHANGED clones
    BY <2>1 DEF clones
  <2>2. CASE pc[c] \in WithLock(c)
    <3>1. HomeOf[c] # HomeOf[w]
      BY <1>1, <1>6, <2>2, Exclusive DEF Inv, WithLock, Fetched, Locked
    <3> QED BY <1>1, <3>1 DEF Apart
  <2> QED BY <2>1, <2>2 DEF Apart
<1>7. ASSUME pc[w] \in Fetched
      PROVE  Cardinality(Others(w, fetched'[HomeOf[w]].past)) >= attempt'[w] - 1
  <2>1. Cardinality(Others(w, fetched[HomeOf[w]].past)) >= attempt[w] - 1
    BY <1>7 DEF Progress
  <2> QED BY <1>6, <1>7, <2>1
<1>8. pc'[w] \in Fetched => Cardinality(Others(w, fetched'[HomeOf[w]].past)) >= attempt'[w] - 1
  BY <1>2, <1>7
<1>9. Fetched' = Fetched
  BY DEF Fetched
<1>10. ASSUME pc'[w] \in Fetched, NEW e \in published'.past, e[1] = w
       PROVE  e \in fetched'[HomeOf[w]].past
  <2>1. e \in published.past
    BY <1>10 DEF Apart
  <2> QED BY <1>2, <1>6, <1>10, <2>1 DEF Progress
<1> QED BY <1>5, <1>8, <1>9, <1>10 DEF Progress

\* The steps of the lock and the sync.
LEMMA StepProgress ==
    ASSUME Inv, NEW w \in Writers, Step(w), Progress(w)
    PROVE  Progress(w)' /\ attempt' = attempt
<1>0. w \in Commands /\ w \notin Readers /\ HomeOf[w] \in Homes
  BY CommandsAssumption, HomeType DEF Commands
<1> USE <1>0 DEF Inv, TypeOK, Progress, Lost, Fetched, Goto, remote, clones
<1>1. CASE Lock(w) \/ LockFails(w) \/ LoadPins(w)
  BY <1>1 DEF Lock, LockFails, LoadPins, NotSynced
<1>2. CASE Fetch(w)
  BY <1>2 DEF Fetch
<1>3. CASE ResetDone(w)
  BY <1>3 DEF ResetDone
<1>4. ASSUME NEW f \in Files, ResetFile(w, f) PROVE Progress(w)' /\ attempt' = attempt
  BY <1>4 DEF ResetFile
<1> QED BY <1>1, <1>2, <1>3, <1>4 DEF Step

\* The steps of a mutation.
LEMMA MutateProgress ==
    ASSUME Inv, TypeOK', NEW w \in Writers, Mutate(w), Progress(w)
    PROVE  Progress(w)' /\ \A v \in Writers \ {w} : attempt'[v] = attempt[v]
<1>0. w \in Commands /\ w \notin Readers /\ HomeOf[w] \in Homes /\ attempt[w] \in 1..MaxRetries
  BY CommandsAssumption, HomeType DEF Commands, Inv, TypeOK
<1>1. CASE Load(w) \/ CommitAll(w) \/ Accepted(w) \/ SavePins(w)
  <2> USE <1>0 DEF Inv, TypeOK, Progress, Lost, Fetched, Goto, End, remote, clones
  <2>1. CASE Load(w)
    BY <2>1 DEF Load
  <2>2. CASE CommitAll(w)
    BY <2>2 DEF CommitAll
  <2>3. CASE Accepted(w)
    BY <2>3 DEF Accepted
  <2>4. CASE SavePins(w)
    BY <2>4 DEF SavePins
  <2> QED BY <1>1, <2>1, <2>2, <2>3, <2>4
<1>2. ASSUME NEW f \in Files, Write(w, f)
      PROVE  Progress(w)' /\ \A v \in Writers \ {w} : attempt'[v] = attempt[v]
  BY <1>0, <1>2 DEF Inv, TypeOK, Progress, Lost, Fetched, Goto, remote, Write, Files
<1>3. CASE Push(w)
  <2>1. published.past \subseteq published'.past
    BY <1>3, PushGrows
  <2>2. published.past \in Contents /\ published'.past \in Contents
    BY DEF Inv, TypeOK
  <2>3. /\ Cardinality(Others(w, published.past)) \in Nat /\ Cardinality(Others(w, published'.past)) \in Nat
        /\ Cardinality(Others(w, published.past)) <= Cardinality(Others(w, published'.past))
    BY <2>1, <2>2, OthersGrow
  <2>4. pc'[w] = "answer" /\ pc[w] = "push" /\ attempt' = attempt
    BY <1>0, <1>3 DEF Push, Goto, Inv, TypeOK
  <2> QED BY <1>0, <2>3, <2>4, BoundsAssumption DEF Progress, Lost, Fetched
<1>4. CASE PushRejected(w)
  <2>1. Cardinality(Others(w, published.past)) >= attempt[w]
    BY <1>4, OneMore DEF PushRejected
  <2>2. pc'[w] = "refetch" /\ attempt' = attempt /\ published' = published
    BY <1>0, <1>4 DEF PushRejected, Goto, Inv, TypeOK, remote
  <2> QED BY <2>1, <2>2 DEF Progress, Lost, Fetched
<1>5. CASE RetryOrGiveUp(w)
  <2>1. Cardinality(Others(w, published.past)) >= attempt[w] /\ published' = published
    BY <1>5 DEF RetryOrGiveUp, Progress, Lost, remote
  <2>2. CASE attempt[w] < MaxRetries
    <3>1. pc'[w] = "fetch" /\ attempt' = [attempt EXCEPT ![w] = @ + 1]
      BY <1>0, <1>5, <2>2 DEF RetryOrGiveUp, Goto, Inv, TypeOK
    <3>2. attempt'[w] - 1 = attempt[w]
      BY <1>0, <3>1, BoundsAssumption DEF Inv, TypeOK
    <3> QED BY <2>1, <3>1, <3>2 DEF Progress, Lost, Fetched, Inv, TypeOK
  <2>3. CASE ~(attempt[w] < MaxRetries)
    <3>1. pc'[w] = "exhausted" /\ attempt' = attempt
      BY <1>0, <1>5, <2>3 DEF RetryOrGiveUp, End, Goto, Inv, TypeOK
    <3>2. attempt[w] = MaxRetries
      BY <1>0, <2>3, BoundsAssumption
    <3> QED BY <2>1, <3>1, <3>2 DEF Progress, Lost, Fetched
  <2> QED BY <2>2, <2>3
<1> QED BY <1>1, <1>2, <1>3, <1>4, <1>5 DEF Mutate

\* The faults, and running a mutation again.
LEMMA FaultProgress ==
    ASSUME Inv, NEW w \in Writers, NetworkFails(w) \/ ApplyFails(w) \/ Crash(w) \/ Rerun(w),
           Progress(w)
    PROVE  Progress(w)' /\ \A v \in Writers \ {w} : attempt'[v] = attempt[v]
<1>0. w \in Commands /\ w \notin Readers
  BY CommandsAssumption DEF Commands
<1>1. Cardinality(Others(w, published.past)) \in Nat /\ attempt[w] \in Nat \ {0}
  <2>1. published.past \in Contents /\ attempt[w] \in 1..MaxRetries
    BY DEF Inv, TypeOK
  <2>2. Cardinality(Others(w, published.past)) \in Nat
    BY <2>1, OthersGrow
  <2> QED BY <2>1, <2>2, BoundsAssumption
<1>2. CASE NetworkFails(w) \/ ApplyFails(w) \/ Crash(w)
  <2>1. pc'[w] \in {"failed", "crashed"} /\ attempt' = attempt /\ published' = published
    BY <1>0, <1>2 DEF NetworkFails, ApplyFails, Crash, End, Goto, NotSynced, Inv, TypeOK, remote
  <2>2. Cardinality(Others(w, published.past)) >= attempt[w] - 1
    <3>1. pc[w] # "exhausted"
      BY <1>2 DEF NetworkFails, ApplyFails, Crash, Locked
    <3> QED BY <1>1, <3>1 DEF Progress, Lost
  <2> QED BY <2>1, <2>2 DEF Progress, Lost, Fetched
<1>3. CASE Rerun(w)
  <2>1. pc'[w] = "start" /\ attempt' = [attempt EXCEPT ![w] = 1] /\ published' = published
    BY <1>0, <1>3 DEF Rerun, Goto, Inv, TypeOK, remote
  <2>2. attempt'[w] - 1 = 0
    BY <2>1 DEF Inv, TypeOK
  <2> QED BY <1>1, <2>1, <2>2 DEF Progress, Lost, Fetched, Inv, TypeOK
<1> QED BY <1>2, <1>3

\* What concerns no mutation.
LEMMA RestProgress ==
    ASSUME NEW r \in Readers, Step(r) \/ NetworkFails(r) \/ Read(r)
    PROVE  attempt' = attempt
  BY DEF Step, Lock, LockFails, Fetch, ResetFile, ResetDone, LoadPins, NetworkFails,
         Read, View, Check, Record

LEMMA NextProgress ==
    Inv /\ Inv' /\ (\A w \in Writers : Progress(w)) /\ [Next]_vars
        => \A w \in Writers : Progress(w)'
<1> SUFFICES ASSUME Inv, TypeOK', \A v \in Writers : Progress(v), [Next]_vars, NEW w \in Writers
             PROVE  Progress(w)'
  BY DEF Inv
<1>0. Readers \subseteq Commands /\ Writers \subseteq Commands /\ w \notin Readers
  BY CommandsAssumption DEF Commands
<1>1. CASE UNCHANGED vars
  BY <1>1 DEF Progress, Lost, vars, remote, clones
<1>2. ASSUME NEW v \in Writers,
             Step(v) \/ Mutate(v) \/ NetworkFails(v) \/ ApplyFails(v) \/ Crash(v) \/ Rerun(v)
      PROVE  Progress(w)'
  <2>1. Apart(v)
    BY <1>0, <1>2, StepApart, MutateApart, RestApart
  <2>2. Progress(v)' /\ (w # v => attempt'[w] = attempt[w])
    BY <1>2, StepProgress, MutateProgress, FaultProgress
  <2> QED BY <1>0, <2>1, <2>2, OthersProgress
<1>3. ASSUME NEW r \in Readers, Step(r) \/ NetworkFails(r) \/ Read(r) PROVE Progress(w)'
  <2>1. Apart(r)
    BY <1>0, <1>3, StepApart, RestApart
  <2> QED BY <1>0, <1>3, <2>1, RestProgress, OthersProgress
<1> QED BY <1>1, <1>2, <1>3 DEF Next, Commands

\* A mutation only ever loses a push to another that got through, so of all that
\* race one always does.
THEOREM RetriesCorrect == Spec => []RetriesMeanProgress
<1> DEFINE Progressing == \A w \in Writers : Progress(w)
<1>1. Init => Progressing
  <2> HAVE Init
  <2> TAKE w \in Writers
  <2>1. Cardinality(Others(w, published.past)) \in Nat
    BY OthersGrow DEF Init, Whole, Contents
  <2> QED BY <2>1 DEF Init, Progress, Lost, Fetched, Commands
<1>2. Inv /\ Inv' /\ Progressing /\ [Next]_vars => Progressing'
  BY NextProgress
<1>3. Progressing => RetriesMeanProgress
  BY DEF Progress, Lost, RetriesMeanProgress
<1> QED BY <1>1, <1>2, <1>3, InvCorrect, PTL DEF Spec

-----------------------------------------------------------------------------
(* Pins *)

\* The newest version a home can have seen: that of a mutation of its own on
\* top of what it fetched.
Newest(h) == Cardinality(fetched[h].past) + 1

\* Nothing a home pins, or is about to pin, is newer.
Near ==
    /\ \A h \in Homes :
        /\ pins[h] <= Newest(h)
        /\ Cardinality(files[h]["manifest"]) <= Newest(h)
    /\ \A c \in Commands : loaded[c] <= Newest(HomeOf[c])
    /\ \A r \in Readers : Cardinality(base[r]) <= Newest(HomeOf[r])

\* A mutation works on what its home fetched last.
Own(w) ==
    pc[w] \in {"content", "manifest", "commit", "push", "answer", "save"} =>
        base[w] = fetched[HomeOf[w]].past /\ Mine(w) \notin base[w]

PinInv == Near /\ \A w \in Writers : Own(w)

\* A fetch only brings more.
LEMMA NewestGrows ==
    ASSUME Inv, Inv', [Next]_vars, NEW h \in Homes
    PROVE  Newest(h) \in Nat /\ Newest(h)' \in Nat /\ Newest(h) <= Newest(h)'
<1>1. fetched[h].past \subseteq fetched'[h].past
  <2>1. CASE UNCHANGED fetched
    BY <2>1
  <2>2. ASSUME NEW c \in Commands, Fetch(c) PROVE fetched[h].past \subseteq fetched'[h].past
    BY <2>2 DEF Fetch, Inv, TypeOK, FetchedInv
  <2>3. UNCHANGED fetched \/ \E c \in Commands : Fetch(c)
    BY DEF Next, Step, Mutate, Read, vars, remote, clones, Lock, LockFails, ResetFile, ResetDone,
           LoadPins, Load, Write, CommitAll, Push, Accepted, PushRejected, RetryOrGiveUp, SavePins,
           View, Check, Record, NetworkFails, ApplyFails, Crash, Rerun
  <2> QED BY <2>1, <2>2, <2>3
<1>2. fetched[h].past \in Contents /\ fetched'[h].past \in Contents
  BY DEF Inv, TypeOK
<1>3. IsFiniteSet(fetched'[h].past) /\ IsFiniteSet(fetched[h].past)
  BY <1>2, ContentsFinite
<1> QED BY <1>1, <1>3, FS_Subset, FS_CardinalityType DEF Newest

\* A step that changes neither pins nor worktrees, nor what reads know.
LEMMA NearKept ==
    ASSUME Inv, Inv', Near, [Next]_vars, UNCHANGED <<pins, files, loaded>>,
           \A r \in Readers : base'[r] = base[r]
    PROVE  Near'
<1>1. \A c \in Commands : HomeOf[c] \in Homes
  BY HomeType
<1>2. /\ \A h \in Homes : pins[h] \in Nat /\ Cardinality(files[h]["manifest"]) \in Nat
      /\ \A c \in Commands : loaded[c] \in Nat /\ Cardinality(base[c]) \in Nat
  <2>1. \A h \in Homes : files[h]["manifest"] \in Contents
    BY DEF Inv, TypeOK, Trees, Files
  <2> QED BY <2>1, VersionType DEF Inv, TypeOK
<1>3. \A h \in Homes : Newest(h) \in Nat /\ Newest(h)' \in Nat /\ Newest(h) <= Newest(h)'
  BY NewestGrows
<1>4. \A h \in Homes : pins[h] <= Newest(h)' /\ Cardinality(files[h]["manifest"]) <= Newest(h)'
  BY <1>2, <1>3 DEF Near
<1>5. \A c \in Commands : loaded[c] <= Newest(HomeOf[c])'
  BY <1>1, <1>2, <1>3 DEF Near
<1>6. \A r \in Readers : Cardinality(base[r]) <= Newest(HomeOf[r])'
  BY <1>1, <1>2, <1>3 DEF Near, Commands
<1> QED BY <1>4, <1>5, <1>6 DEF Near

\* A step that changes the fetched heads of nobody.
LEMMA NewestSame ==
    ASSUME UNCHANGED fetched, NEW h PROVE Newest(h)' = Newest(h)
  BY DEF Newest

\* One mutation adds one to what was fetched.
LEMMA OneNewer ==
    ASSUME Inv, NEW w \in Writers, base[w] = fetched[HomeOf[w]].past, Mine(w) \notin base[w]
    PROVE  Cardinality(base[w] \cup {Mine(w)}) = Newest(HomeOf[w])
<1>1. base[w] \in Contents
  BY DEF Inv, TypeOK, Commands
<1>2. IsFiniteSet(base[w])
  BY <1>1, ContentsFinite
<1> QED BY <1>2, FS_AddElement DEF Newest

\* What is fetched is whole, so each of its files has its version.
LEMMA FetchedTree ==
    ASSUME Inv, NEW h \in Homes, NEW f \in Files
    PROVE  /\ fetched[h].tree[f] = fetched[h].past
           /\ Cardinality(fetched[h].tree[f]) <= Newest(h)
<1>1. fetched[h].tree[f] = fetched[h].past
  <2>1. \A s : Whole(s).tree[f] = s
    BY DEF Whole
  <2>2. fetched[h] = Whole(fetched[h].past)
    BY DEF Inv, FetchedInv
  <2>3. Whole(fetched[h].past).tree[f] = fetched[h].past
    BY <2>1
  <2> QED BY <2>2, <2>3
<1>2. Cardinality(fetched[h].past) \in Nat
  BY VersionType DEF Inv, TypeOK
<1> QED BY <1>1, <1>2 DEF Newest

LEMMA NextNear == Inv /\ Inv' /\ PinInv /\ [Next]_vars => Near'
<1> SUFFICES ASSUME Inv, Inv', PinInv, [Next]_vars PROVE Near'
  OBVIOUS
<1> USE HomeType DEF PinInv
<1>1. ASSUME NEW c \in Commands, NEW f \in Files, ResetFile(c, f) PROVE Near'
  <2>1. /\ \A h \in Homes : Newest(h)' = Newest(h)
        /\ UNCHANGED <<pins, loaded, base>>
    BY <1>1, NewestSame DEF ResetFile
  <2>2. \A h \in Homes : files'[h]["manifest"] \in {files[h]["manifest"], fetched[h].tree["manifest"]}
    BY <1>1 DEF ResetFile, Inv, TypeOK, Trees, Files
  <2>3. \A h \in Homes : Cardinality(files'[h]["manifest"]) <= Newest(h)
    BY <2>2, FetchedTree DEF Near, Files
  <2> QED BY <2>1, <2>3 DEF Near, Commands
<1>2. ASSUME NEW w \in Writers, NEW f \in Files, Write(w, f) PROVE Near'
  <2>1. /\ \A h \in Homes : Newest(h)' = Newest(h)
        /\ UNCHANGED <<pins, loaded, base>>
    BY <1>2, NewestSame DEF Write
  <2>2. \A h \in Homes : files'[h]["manifest"] # files[h]["manifest"] =>
            h = HomeOf[w] /\ files'[h]["manifest"] = base[w] \cup {Mine(w)}
    BY <1>2 DEF Write, Inv, TypeOK, Trees, Files
  <2>3. Cardinality(base[w] \cup {Mine(w)}) = Newest(HomeOf[w]) /\ Newest(HomeOf[w]) \in Nat
    <3>1. base[w] = fetched[HomeOf[w]].past /\ Mine(w) \notin base[w]
      BY <1>2 DEF Write, Own, Files
    <3> QED BY <3>1, OneNewer, NewestGrows DEF Commands
  <2>4. ASSUME NEW h \in Homes PROVE Cardinality(files'[h]["manifest"]) <= Newest(h)
    <3>1. CASE files'[h]["manifest"] = files[h]["manifest"]
      <4>1. Cardinality(files[h]["manifest"]) <= Newest(h)
        BY DEF Near
      <4> QED BY <3>1, <4>1
    <3>2. CASE files'[h]["manifest"] # files[h]["manifest"]
      <4>1. h = HomeOf[w] /\ files'[h]["manifest"] = base[w] \cup {Mine(w)}
        BY <2>2, <3>2
      <4>2. Cardinality(files'[h]["manifest"]) = Newest(h) /\ Newest(h) \in Nat
        BY <2>3, <4>1
      <4> QED BY <4>2
    <3> QED BY <3>1, <3>2
  <2> QED BY <2>1, <2>4 DEF Near, Commands
<1>3. ASSUME NEW c \in Commands, LoadPins(c) PROVE Near'
  <2>1. /\ \A h \in Homes : Newest(h)' = Newest(h)
        /\ UNCHANGED <<pins, files, base>>
    BY <1>3, NewestSame DEF LoadPins, clones
  <2>2. \A d \in Commands : loaded'[d] = IF d = c THEN pins[HomeOf[c]] ELSE loaded[d]
    BY <1>3 DEF LoadPins, Inv, TypeOK
  <2> QED BY <2>1, <2>2 DEF Near, Commands
<1>4. ASSUME NEW w \in Writers, SavePins(w) PROVE Near'
  <2>1. /\ \A h \in Homes : Newest(h)' = Newest(h)
        /\ UNCHANGED <<loaded, files, base>>
    BY <1>4, NewestSame DEF SavePins, clones
  <2>2. pins' = [pins EXCEPT ![HomeOf[w]] = AtLeast(loaded[w], Cardinality(base[w] \cup {Mine(w)}))]
    BY <1>4 DEF SavePins
  <2>3. base[w] = fetched[HomeOf[w]].past /\ Mine(w) \notin base[w]
    BY <1>4 DEF SavePins, Own
  <2>4. AtLeast(loaded[w], Cardinality(base[w] \cup {Mine(w)})) <= Newest(HomeOf[w])
    BY <2>3, OneNewer, NewestGrows DEF AtLeast, Near, Commands
  <2>5. \A h \in Homes : pins'[h] <= Newest(h)
    BY <2>2, <2>4 DEF Near, Inv, TypeOK
  <2> QED BY <2>1, <2>5 DEF Near, Commands
<1>5. ASSUME NEW r \in Readers, View(r) PROVE Near'
  <2>1. /\ \A h \in Homes : Newest(h)' = Newest(h)
        /\ UNCHANGED <<pins, files, loaded>>
    BY <1>5, NewestSame DEF View, clones
  <2>2. \A d \in Readers : base'[d] = IF d = r THEN files[HomeOf[r]]["manifest"] ELSE base[d]
    BY <1>5 DEF View, Inv, TypeOK, Commands
  <2> QED BY <2>1, <2>2 DEF Near, Commands
<1>6. ASSUME NEW r \in Readers, Record(r) PROVE Near'
  <2>1. /\ \A h \in Homes : Newest(h)' = Newest(h)
        /\ UNCHANGED <<files, loaded, base>>
    BY <1>6, NewestSame DEF Record, clones
  <2>2. pins' = [pins EXCEPT ![HomeOf[r]] = AtLeast(loaded[r], Cardinality(base[r]))]
    BY <1>6 DEF Record
  <2>3. AtLeast(loaded[r], Cardinality(base[r])) <= Newest(HomeOf[r])
    BY DEF AtLeast, Near, Commands
  <2>4. \A h \in Homes : pins'[h] <= Newest(h)
    BY <2>2, <2>3 DEF Near, Inv, TypeOK
  <2> QED BY <2>1, <2>4 DEF Near, Commands
<1>7. CASE UNCHANGED <<pins, files, loaded>> /\ \A r \in Readers : base'[r] = base[r]
  BY <1>7, NearKept
<1>8. \/ \E c \in Commands : LoadPins(c) \/ \E f \in Files : ResetFile(c, f)
      \/ \E w \in Writers : SavePins(w) \/ \E f \in Files : Write(w, f)
      \/ \E r \in Readers : View(r) \/ Record(r)
      \/ UNCHANGED <<pins, files, loaded>> /\ \A r \in Readers : base'[r] = base[r]
  <2>1. ASSUME NEW w \in Writers, Load(w) PROVE \A r \in Readers : base'[r] = base[r]
    BY <2>1, CommandsAssumption DEF Load, Inv, TypeOK, Commands
  <2> QED
    BY <2>1 DEF Next, Step, Mutate, Read, vars, remote, clones, Lock, LockFails, Fetch, ResetDone,
           Load, CommitAll, Push, Accepted, PushRejected, RetryOrGiveUp,
           Check, NetworkFails, ApplyFails, Crash, Rerun
<1> QED BY <1>1, <1>2, <1>3, <1>4, <1>5, <1>6, <1>7, <1>8

\* Nobody else fetches for a home while a mutation of it is at work.
LEMMA OthersOwn ==
    ASSUME Inv, NEW c \in Commands, Apart(c), NEW w \in Writers, w # c, Own(w)
    PROVE  Own(w)'
<1>1. w \in Commands /\ w \notin Readers /\ HomeOf[w] \in Homes
  BY CommandsAssumption, HomeType DEF Commands
<1>2. pc'[w] = pc[w] /\ base'[w] = base[w] /\ Mine(w)' = Mine(w)
  BY <1>1 DEF Apart, Mine
<1>3. ASSUME pc[w] \in Locked PROVE fetched'[HomeOf[w]] = fetched[HomeOf[w]]
  <2>1. CASE UNCHANGED clones
    BY <2>1 DEF clones
  <2>2. CASE pc[c] \in WithLock(c)
    <3>1. HomeOf[c] # HomeOf[w]
      BY <1>1, <1>3, <2>2, Exclusive DEF Inv, WithLock
    <3> QED BY <1>1, <3>1 DEF Apart
  <2> QED BY <2>1, <2>2 DEF Apart
<1> QED BY <1>2, <1>3 DEF Own, Locked

LEMMA NextOwn == Inv /\ PinInv /\ [Next]_vars => \A w \in Writers : Own(w)'
<1> SUFFICES ASSUME Inv, PinInv, [Next]_vars, NEW w \in Writers PROVE Own(w)'
  OBVIOUS
<1>0. Readers \subseteq Commands /\ Writers \subseteq Commands /\ w \notin Readers /\ Own(w)
  BY CommandsAssumption DEF Commands, PinInv
<1>1. CASE UNCHANGED vars
  BY <1>0, <1>1 DEF Own, Mine, vars, remote, clones
<1>2. ASSUME NEW c \in Commands, c # w,
             \/ Step(c) \/ NetworkFails(c)
             \/ c \in Writers /\ (Mutate(c) \/ ApplyFails(c) \/ Crash(c) \/ Rerun(c))
             \/ c \in Readers /\ Read(c)
      PROVE  Own(w)'
  BY <1>0, <1>2, StepApart, MutateApart, RestApart, OthersOwn
<1>3. CASE Step(w) \/ NetworkFails(w) \/ ApplyFails(w) \/ Crash(w) \/ Rerun(w)
  BY <1>0, <1>3 DEF Own, Inv, TypeOK, Goto, End, NotSynced, Step, Lock, LockFails, Fetch, ResetFile,
     ResetDone, LoadPins, NetworkFails, ApplyFails, Crash, Rerun
<1>4. CASE Mutate(w)
  <2>1. CASE Load(w)
    <3>1. files[HomeOf[w]] = fetched[HomeOf[w]].tree
      BY <2>1 DEF Load, Inv, WriterInv
    <3>2. files[HomeOf[w]]["manifest"] = fetched[HomeOf[w]].past
      BY <1>0, <3>1, HomeType, FetchedTree DEF Files
    <3>3. Mine(w) \notin fetched[HomeOf[w]].past /\ Mine(w)' = Mine(w)
      BY <1>0, <2>1, HomeType DEF Load, Inv, RunInv, FetchedInv, Unpushed, Mine
    <3> QED BY <1>0, <2>1, <3>2, <3>3 DEF Load, Own, Inv, TypeOK, Goto, End, clones
  <2>2. CASE CommitAll(w) \/ Push(w) \/ Accepted(w) \/ PushRejected(w) \/ RetryOrGiveUp(w) \/ SavePins(w)
    BY <1>0, <2>2 DEF Own, Mine, Inv, TypeOK, Goto, End, clones, CommitAll, Push, Accepted,
       PushRejected, RetryOrGiveUp, SavePins
  <2>3. ASSUME NEW f \in Files, Write(w, f) PROVE Own(w)'
    BY <1>0, <2>3 DEF Own, Mine, Inv, TypeOK, Goto, Write, Files
  <2> QED BY <1>4, <2>1, <2>2, <2>3 DEF Mutate
<1> QED BY <1>0, <1>1, <1>2, <1>3, <1>4 DEF Next, Commands

\* A mutation never takes the pins of its home back, whatever reads without the
\* lock save before, between or after: all of them are at most one ahead of what
\* was fetched, and the mutation is one ahead of it.
THEOREM PinsKept == Spec => MutationsKeepPins
<1>1. Init => PinInv
  <2> HAVE Init
  <2>1. Cardinality({}) = 0
    BY FS_EmptySet
  <2>2. ASSUME NEW h \in Homes PROVE Newest(h) = 1
    <3>1. fetched[h].past = {}
      BY DEF Init, Whole
    <3> QED BY <2>1, <3>1 DEF Newest
  <2>3. Near
    BY <2>1, <2>2, HomeType DEF Init, Near, Whole, Files, Commands
  <2>4. \A w \in Writers : Own(w)
    BY DEF Init, Own, Commands
  <2> QED BY <2>3, <2>4 DEF PinInv
<1>2. Inv /\ Inv' /\ PinInv /\ [Next]_vars => PinInv'
  BY NextNear, NextOwn DEF PinInv
<1>3. Inv /\ PinInv /\ [Next]_vars =>
          [\A w \in Writers :
               pc[w] = "save" /\ pc'[w] = "done" => pins'[HomeOf[w]] >= pins[HomeOf[w]]]_vars
  <2> SUFFICES ASSUME Inv, PinInv, [Next]_vars, NEW w \in Writers, pc[w] = "save", pc'[w] = "done"
               PROVE  pins'[HomeOf[w]] >= pins[HomeOf[w]]
    OBVIOUS
  <2>0. w \in Commands /\ w \notin Readers /\ HomeOf[w] \in Homes
    BY CommandsAssumption, HomeType DEF Commands
  <2>1. SavePins(w)
    <3>1. ASSUME NEW c \in Commands, Apart(c) PROVE c = w
      BY <2>0, <3>1 DEF Apart
    <3>2. Step(w) \/ NetworkFails(w) \/ Mutate(w) \/ ApplyFails(w) \/ Crash(w) \/ Rerun(w)
      BY <2>0, <3>1, StepApart, MutateApart, RestApart DEF Next, Commands, vars
    <3>3. ~Crash(w)
      BY <2>0 DEF Crash, End, Goto, Inv, TypeOK
    <3> QED
      BY <2>0, <3>2, <3>3 DEF Step, Lock, LockFails, Fetch, ResetFile, ResetDone, LoadPins, NetworkFails,
         Mutate, Load, Write, Files, CommitAll, Push, Accepted, PushRejected, RetryOrGiveUp,
         ApplyFails, Rerun
  <2>2. base[w] = fetched[HomeOf[w]].past /\ Mine(w) \notin base[w]
    BY DEF PinInv, Own
  <2>3. pins'[HomeOf[w]] = AtLeast(loaded[w], Newest(HomeOf[w]))
    BY <2>0, <2>1, <2>2, OneNewer DEF SavePins, Inv, TypeOK
  <2>4. pins[HomeOf[w]] <= Newest(HomeOf[w])
    BY <2>0 DEF PinInv, Near
  <2>5. pins[HomeOf[w]] \in Nat /\ loaded[w] \in Nat /\ Newest(HomeOf[w]) \in Nat
    BY <2>0, VersionType DEF Inv, TypeOK, Newest
  <2> QED BY <2>3, <2>4, <2>5 DEF AtLeast
<1> QED BY <1>1, <1>2, <1>3, InvCorrect, PTL DEF Spec, MutationsKeepPins

-----------------------------------------------------------------------------
(* Steps run out *)

LEMMA FilesFinite ==
    ASSUME NEW S \in SUBSET Files
    PROVE  IsFiniteSet(S) /\ Cardinality(S) \in 0..2
<1>1. IsFiniteSet(Files) /\ Cardinality(Files) \in 0..2
  <2>1. IsFiniteSet({}) /\ Cardinality({}) = 0
    BY FS_EmptySet
  <2>2. IsFiniteSet({"content"}) /\ Cardinality({"content"}) \in 0..1
    BY <2>1, FS_AddElement
  <2>3. IsFiniteSet({"content"} \cup {"manifest"})
        /\ Cardinality({"content"} \cup {"manifest"}) \in 0..2
    BY <2>2, FS_AddElement
  <2>4. Files = {"content"} \cup {"manifest"}
    BY DEF Files
  <2> QED BY <2>3, <2>4
<1>2. IsFiniteSet(S) /\ Cardinality(S) <= Cardinality(Files)
  BY <1>1, FS_Subset
<1>3. Cardinality(S) \in Nat
  BY <1>2, FS_CardinalityType
<1> QED BY <1>1, <1>2, <1>3

\* The retries a command has left, and the parts Left is the sum of.
Retries(c) == IF c \in Writers THEN MaxRetries - attempt[c] ELSE 0

LEMMA LeftIs ==
    ASSUME TypeOK, NEW c \in Commands
    PROVE  /\ Left(c) = 33 * Retries(c) + 3 * Stages(pc[c]) + Cardinality(ToReset(c))
           /\ Retries(c) \in Nat /\ Stages(pc[c]) \in 0..11 /\ Cardinality(ToReset(c)) \in 0..2
           /\ Left(c) \in Nat
           /\ pc[c] \notin {"reset", "rereset"} => Cardinality(ToReset(c)) = 0
<1>1. Retries(c) \in Nat
  BY BoundsAssumption DEF TypeOK, Retries
<1>2. Stages(pc[c]) \in 0..11
  BY DEF Stages
<1>3. Cardinality(ToReset(c)) \in 0..2
  <2>1. ToReset(c) \in SUBSET Files
    BY DEF ToReset
  <2> QED BY <2>1, FilesFinite
<1>4. pc[c] \notin {"reset", "rereset"} => Cardinality(ToReset(c)) = 0
  BY FS_EmptySet DEF ToReset
<1>5. Left(c) = 33 * Retries(c) + 3 * Stages(pc[c]) + Cardinality(ToReset(c))
  BY DEF Left, Retries
<1> QED BY <1>1, <1>2, <1>3, <1>4, <1>5

LEMMA LeftNext ==
    ASSUME TypeOK', NEW c \in Commands
    PROVE  /\ Left(c)' = 33 * Retries(c)' + 3 * Stages(pc[c])' + Cardinality(ToReset(c))'
           /\ Retries(c)' \in Nat /\ Stages(pc[c])' \in 0..11 /\ Cardinality(ToReset(c))' \in 0..2
           /\ Left(c)' \in Nat
           /\ pc'[c] \notin {"reset", "rereset"} => Cardinality(ToReset(c))' = 0
<1>1. Stages(pc[c])' \in 0..11
  BY DEF Stages
<1>2. Cardinality(ToReset(c))' \in 0..2
  <2>1. ToReset(c)' \in SUBSET Files
    BY DEF ToReset
  <2> QED BY <2>1, FilesFinite
<1>3. pc'[c] \notin {"reset", "rereset"} => Cardinality(ToReset(c))' = 0
  BY FS_EmptySet DEF ToReset
<1>4. Left(c)' = 33 * Retries(c)' + 3 * Stages(pc[c])' + Cardinality(ToReset(c))'
  BY DEF Left, Retries
<1>5. Retries(c)' \in Nat
  BY BoundsAssumption DEF TypeOK, Retries
<1> QED BY <1>1, <1>2, <1>3, <1>4, <1>5

\* A step to a later stage of the same attempt.
Later(c) == /\ pc[c] \in Steps /\ pc'[c] \in Steps
            /\ Stages(pc'[c]) < Stages(pc[c])
            /\ c \in Writers => attempt'[c] = attempt[c]

LEMMA SameAttempt ==
    ASSUME TypeOK, TypeOK', NEW c \in Commands,
           Retries(c)' = Retries(c), Stages(pc[c])' = Stages(pc[c]),
           Cardinality(ToReset(c))' = Cardinality(ToReset(c)) - 1
    PROVE  Left(c)' < Left(c)
<1>1. /\ Left(c) = 33 * Retries(c) + 3 * Stages(pc[c]) + Cardinality(ToReset(c))
      /\ Retries(c) \in Nat /\ Stages(pc[c]) \in 0..11 /\ Cardinality(ToReset(c)) \in 0..2
  BY LeftIs
<1>2. Left(c)' = 33 * Retries(c)' + 3 * Stages(pc[c])' + Cardinality(ToReset(c))'
  BY LeftNext
<1> QED BY <1>1, <1>2

LEMMA NextAttempt ==
    ASSUME TypeOK, TypeOK', NEW c \in Commands,
           Retries(c)' = Retries(c) - 1, Stages(pc[c]) = 1, Stages(pc[c])' = 10,
           Cardinality(ToReset(c))' = 0
    PROVE  Left(c)' < Left(c)
<1>1. /\ Left(c) = 33 * Retries(c) + 3 * Stages(pc[c]) + Cardinality(ToReset(c))
      /\ Retries(c) \in Nat /\ Cardinality(ToReset(c)) \in 0..2
  BY LeftIs
<1>2. Left(c)' = 33 * Retries(c)' + 3 * Stages(pc[c])' + Cardinality(ToReset(c))'
  BY LeftNext
<1> QED BY <1>1, <1>2

LEMMA LaterStage ==
    ASSUME TypeOK, TypeOK', NEW c \in Commands, Later(c)
    PROVE  Left(c)' < Left(c)
<1>1. Retries(c)' = Retries(c)
  BY DEF Retries, Later
<1>2. Stages(pc[c])' < Stages(pc[c])
  BY DEF Later, Stages
<1>3. /\ Left(c) = 33 * Retries(c) + 3 * Stages(pc[c]) + Cardinality(ToReset(c))
      /\ Retries(c) \in Nat /\ Stages(pc[c]) \in 0..11 /\ Cardinality(ToReset(c)) \in 0..2
  BY LeftIs
<1>4. /\ Left(c)' = 33 * Retries(c)' + 3 * Stages(pc[c])' + Cardinality(ToReset(c))'
      /\ Stages(pc[c])' \in 0..11 /\ Cardinality(ToReset(c))' \in 0..2
  BY LeftNext
<1> QED BY <1>1, <1>2, <1>3, <1>4

\* Every step of a command but a retry and the check-out of a file is to a later
\* stage.
LEMMA StepLeft ==
    ASSUME TypeOK, TypeOK', NEW c \in Commands, Step(c)
    PROVE  Left(c)' < Left(c)
<1> USE DEF TypeOK, Later, Goto, End, Steps, Locked, Ended
<1>1. CASE Lock(c)
  <2>1. pc[c] = "start" /\ pc'[c] = "fetch" /\ attempt' = attempt
    BY <1>1 DEF Lock
  <2>2. Later(c)
    BY <2>1 DEF Stages
  <2> QED BY <2>2, LaterStage
<1>2. CASE LockFails(c)
  <2>1. pc[c] = "start" /\ pc'[c] \in {"pins", "failed"} /\ attempt' = attempt
    BY <1>2 DEF LockFails, NotSynced
  <2>2. Later(c)
    BY <2>1 DEF Stages
  <2> QED BY <2>2, LaterStage
<1>3. CASE Fetch(c)
  <2>1. \/ pc[c] = "fetch" /\ pc'[c] = "reset"
        \/ pc[c] = "refetch" /\ pc'[c] = "rereset"
    BY <1>3 DEF Fetch
  <2>2. attempt' = attempt
    BY <1>3 DEF Fetch
  <2>3. Later(c)
    BY <2>1, <2>2 DEF Stages
  <2> QED BY <2>3, LaterStage
<1>4. CASE ResetDone(c)
  <2>1. pc[c] = "reset" /\ pc'[c] = "pins" /\ attempt' = attempt
    BY <1>4 DEF ResetDone
  <2>2. Later(c)
    BY <2>1 DEF Stages
  <2> QED BY <2>2, LaterStage
<1>5. CASE LoadPins(c)
  <2>1. pc[c] = "pins" /\ pc'[c] = "load" /\ attempt' = attempt
    BY <1>5 DEF LoadPins
  <2>2. Later(c)
    BY <2>1 DEF Stages
  <2> QED BY <2>2, LaterStage
<1>6. ASSUME NEW f \in Files, ResetFile(c, f) PROVE Left(c)' < Left(c)
  <2> DEFINE h == HomeOf[c]
  <2>1. h \in Homes
    BY HomeType
  <2>2. /\ pc' = pc /\ attempt' = attempt /\ fetched' = fetched
        /\ pc[c] \in {"reset", "rereset"}
        /\ files[h][f] # fetched[h].tree[f]
        /\ files' = [files EXCEPT ![h][f] = fetched[h].tree[f]]
    BY <1>6 DEF ResetFile
  <2>3. files'[h] = [files[h] EXCEPT ![f] = fetched[h].tree[f]]
    BY <2>1, <2>2
  <2>4. files[h] \in Trees
    BY <2>1
  <2>5. f \in ToReset(c)
    BY <2>2 DEF ToReset
  <2>6. ToReset(c)' = ToReset(c) \ {f}
    <3>1. \A g \in Files : files'[h][g] = IF g = f THEN fetched[h].tree[f] ELSE files[h][g]
      BY <2>3, <2>4 DEF Trees
    <3> QED BY <2>2, <3>1 DEF ToReset
  <2>7. ToReset(c) \in SUBSET Files
    BY DEF ToReset
  <2>8. IsFiniteSet(ToReset(c)) /\ Cardinality(ToReset(c)) \in 0..2
    BY <2>7, FilesFinite
  <2>9. Cardinality(ToReset(c)') = Cardinality(ToReset(c)) - 1
    BY <2>5, <2>6, <2>8, FS_RemoveElement
  <2>10. Retries(c)' = Retries(c) /\ Stages(pc[c])' = Stages(pc[c])
    BY <2>2 DEF Retries
  <2> QED BY <2>9, <2>10, SameAttempt
<1> QED BY <1>1, <1>2, <1>3, <1>4, <1>5, <1>6 DEF Step

LEMMA MutateLeft ==
    ASSUME TypeOK, TypeOK', NEW w \in Writers, Mutate(w)
    PROVE  Left(w)' < Left(w)
<1>0. w \in Commands
  BY DEF Commands
<1> USE <1>0 DEF TypeOK, Later, Goto, End, Steps, Locked, Ended
<1>1. CASE Load(w)
  <2>1. pc[w] = "load" /\ pc'[w] \in {"done", "failed", "content"} /\ attempt' = attempt
    BY <1>1 DEF Load
  <2>2. Later(w)
    BY <2>1 DEF Stages
  <2> QED BY <2>2, LaterStage
<1>2. CASE CommitAll(w)
  <2>1. pc[w] = "commit" /\ pc'[w] = "push" /\ attempt' = attempt
    BY <1>2 DEF CommitAll
  <2>2. Later(w)
    BY <2>1 DEF Stages
  <2> QED BY <2>2, LaterStage
<1>3. CASE Push(w) \/ PushRejected(w)
  <2>1. pc[w] = "push" /\ pc'[w] \in {"answer", "refetch"} /\ attempt' = attempt
    BY <1>3 DEF Push, PushRejected
  <2>2. Later(w)
    BY <2>1 DEF Stages
  <2> QED BY <2>2, LaterStage
<1>4. CASE Accepted(w)
  <2>1. pc[w] = "answer" /\ pc'[w] = "save" /\ attempt' = attempt
    BY <1>4 DEF Accepted
  <2>2. Later(w)
    BY <2>1 DEF Stages
  <2> QED BY <2>2, LaterStage
<1>5. CASE SavePins(w)
  <2>1. pc[w] = "save" /\ pc'[w] = "done" /\ attempt' = attempt
    BY <1>5 DEF SavePins
  <2>2. Later(w)
    BY <2>1 DEF Stages
  <2> QED BY <2>2, LaterStage
<1>6. ASSUME NEW f \in Files, Write(w, f) PROVE Left(w)' < Left(w)
  <2>1. \/ pc[w] = "content" /\ pc'[w] = "manifest"
        \/ pc[w] = "manifest" /\ pc'[w] = "commit"
    BY <1>6 DEF Write, Files
  <2>2. attempt' = attempt
    BY <1>6 DEF Write
  <2>3. Later(w)
    BY <2>1, <2>2 DEF Stages
  <2> QED BY <2>3, LaterStage
<1>7. CASE RetryOrGiveUp(w)
  <2>1. CASE attempt[w] < MaxRetries
    <3>1. pc[w] = "rereset" /\ pc'[w] = "fetch" /\ attempt'[w] = attempt[w] + 1
      BY <1>7, <2>1 DEF RetryOrGiveUp
    <3>2. Retries(w)' = Retries(w) - 1
      BY <3>1, BoundsAssumption DEF Retries
    <3>3. Stages(pc[w]) = 1 /\ Stages(pc[w])' = 10
      BY <3>1 DEF Stages
    <3>4. Cardinality(ToReset(w))' = 0
      BY <3>1, LeftNext
    <3> QED BY <3>2, <3>3, <3>4, NextAttempt
  <2>2. CASE ~(attempt[w] < MaxRetries)
    <3>1. pc[w] = "rereset" /\ pc'[w] = "exhausted" /\ attempt' = attempt
      BY <1>7, <2>2 DEF RetryOrGiveUp
    <3>2. Later(w)
      BY <3>1 DEF Stages
    <3> QED BY <3>2, LaterStage
  <2> QED BY <2>1, <2>2
<1> QED BY <1>1, <1>2, <1>3, <1>4, <1>5, <1>6, <1>7 DEF Mutate

LEMMA ReadLeft ==
    ASSUME TypeOK, TypeOK', NEW r \in Readers, Read(r)
    PROVE  Left(r)' < Left(r)
<1>0. r \in Commands
  BY DEF Commands
<1> USE <1>0 DEF TypeOK, Later, Goto, Steps, Locked, Ended
<1>1. \/ pc[r] = "load" /\ pc'[r] \in {"failed", "check"}
      \/ pc[r] = "check" /\ pc'[r] \in {"failed", "record"}
      \/ pc[r] = "record" /\ pc'[r] = "done"
  BY DEF Read, View, Check, Record
<1>2. attempt' = attempt
  BY DEF Read, View, Check, Record
<1>3. Later(r)
  BY <1>1, <1>2 DEF Stages
<1> QED BY <1>3, LaterStage

LEMMA FaultLeft ==
    ASSUME Inv, TypeOK', NEW c \in Commands,
           NetworkFails(c) \/ (c \in Writers /\ (ApplyFails(c) \/ Crash(c)))
    PROVE  Left(c)' < Left(c)
<1>0. TypeOK /\ attempt' = attempt
  BY DEF Inv, NetworkFails, ApplyFails, Crash
<1> USE <1>0 DEF TypeOK, Later, Goto, End, Steps, Locked, Ended
<1>1. CASE NetworkFails(c)
  <2>1. pc[c] \in {"fetch", "refetch", "push", "answer"}
    BY <1>1 DEF NetworkFails
  <2>2. pc'[c] = IF c \in Readers THEN "pins" ELSE "failed"
    BY <1>1 DEF NetworkFails, NotSynced
  <2>3. c \in Readers => pc[c] = "fetch"
    BY <2>1 DEF Inv, LockInv
  <2>4. Later(c)
    BY <2>1, <2>2, <2>3 DEF Stages
  <2> QED BY <2>4, LaterStage
<1>2. CASE c \in Writers /\ (ApplyFails(c) \/ Crash(c))
  <2>1. pc[c] \in Locked /\ pc'[c] \in {"failed", "crashed"}
    BY <1>2 DEF ApplyFails, Crash
  <2>2. Later(c)
    BY <2>1 DEF Stages
  <2> QED BY <2>2, LaterStage
<1> QED BY <1>1, <1>2

\* What the others have left stays: their stage and their attempts are their own,
\* and what one of them still has to reset is in a clone that it has the lock of.
LEMMA AttemptsApart ==
    ASSUME TypeOK, NEW c \in Commands,
           \/ Step(c) \/ NetworkFails(c)
           \/ c \in Writers /\ (Mutate(c) \/ ApplyFails(c) \/ Crash(c) \/ Rerun(c))
           \/ c \in Readers /\ Read(c)
    PROVE  \A v \in Writers \ {c} : attempt'[v] = attempt[v]
<1> USE DEF TypeOK
<1>1. CASE \/ Step(c) \/ NetworkFails(c)
           \/ c \in Writers /\ (ApplyFails(c) \/ Crash(c))
           \/ c \in Readers /\ Read(c)
  BY <1>1 DEF Step, Lock, LockFails, Fetch, ResetFile, ResetDone, LoadPins, NetworkFails, ApplyFails,
              Crash, Read, View, Check, Record
<1>2. CASE c \in Writers /\ (Mutate(c) \/ Rerun(c))
  BY <1>2 DEF Mutate, Load, Write, CommitAll, Push, Accepted, PushRejected, RetryOrGiveUp, SavePins, Rerun
<1> QED BY <1>1, <1>2

LEMMA OthersLeft ==
    ASSUME Inv, NEW c \in Commands, Apart(c), \A v \in Writers \ {c} : attempt'[v] = attempt[v],
           NEW d \in Commands, d # c
    PROVE  Left(d)' = Left(d)
<1>1. pc'[d] = pc[d]
  BY DEF Apart
<1>2. ToReset(d)' = ToReset(d)
  <2>1. CASE pc[d] \notin {"reset", "rereset"}
    BY <1>1, <2>1 DEF ToReset
  <2>2. CASE pc[d] \in {"reset", "rereset"}
    <3>1. pc[d] \in WithLock(d) /\ HomeOf[d] \in Homes
      BY <2>2, HomeType DEF Inv, LockInv, WithLock, Locked
    <3>2. fetched'[HomeOf[d]] = fetched[HomeOf[d]] /\ files'[HomeOf[d]] = files[HomeOf[d]]
      <4>1. CASE UNCHANGED clones
        BY <4>1 DEF clones
      <4>2. CASE pc[c] \in WithLock(c)
        <5>1. HomeOf[d] # HomeOf[c]
          BY <3>1, <4>2, Exclusive DEF Inv
        <5> QED BY <3>1, <5>1 DEF Apart
      <4> QED BY <4>1, <4>2 DEF Apart
    <3> QED BY <1>1, <3>2 DEF ToReset
  <2> QED BY <2>1, <2>2
<1>3. d \in Writers => attempt'[d] = attempt[d]
  OBVIOUS
<1>4. Stages(pc[d])' = Stages(pc[d])
  BY <1>1 DEF Stages
<1> QED BY <1>2, <1>3, <1>4 DEF Left

\* What EveryCommandEnds rests on, for any number of homes and commands: whatever
\* races and fails, each step is one of those some command has left, and no other
\* command has more left after it (mutate2.go:97-148).
THEOREM StepsBounded == Spec => StepsRunOut
<1>1. Inv /\ Inv' /\ [Next]_vars =>
          [\/ /\ rerun' = rerun
              /\ \E c \in Commands : Left(c)' < Left(c)
              /\ \A c \in Commands : Left(c)' <= Left(c)
           \/ /\ rerun' = rerun + 1
              /\ \E w \in Writers : \A c \in Commands \ {w} : Left(c)' <= Left(c)]_vars
  <2> SUFFICES ASSUME Inv, TypeOK', Next
               PROVE  \/ /\ rerun' = rerun
                         /\ \E c \in Commands : Left(c)' < Left(c)
                         /\ \A c \in Commands : Left(c)' <= Left(c)
                      \/ /\ rerun' = rerun + 1
                         /\ \E w \in Writers : \A c \in Commands \ {w} : Left(c)' <= Left(c)
    BY DEF Inv
  <2>0. TypeOK /\ Writers \subseteq Commands /\ Readers \subseteq Commands
    BY DEF Inv, Commands
  <2>1. PICK c \in Commands :
            \/ Step(c) \/ NetworkFails(c)
            \/ c \in Writers /\ (Mutate(c) \/ ApplyFails(c) \/ Crash(c) \/ Rerun(c))
            \/ c \in Readers /\ Read(c)
    BY <2>0 DEF Next
  <2>2. \A v \in Writers \ {c} : attempt'[v] = attempt[v]
    BY <2>0, <2>1, AttemptsApart
  <2>3. Apart(c)
    BY <2>0, <2>1, StepApart, MutateApart, RestApart
  <2>4. ASSUME NEW d \in Commands, d # c PROVE Left(d)' <= Left(d)
    <3>1. Left(d)' = Left(d)
      BY <2>2, <2>3, <2>4, OthersLeft
    <3>2. Left(d) \in Nat
      BY <2>0, LeftIs
    <3> QED BY <3>1, <3>2
  <2>5. CASE c \in Writers /\ Rerun(c)
    <3>1. rerun' = rerun + 1
      BY <2>5 DEF Rerun
    <3> QED BY <2>4, <2>5, <3>1
  <2>6. CASE ~(c \in Writers /\ Rerun(c))
    <3>1. Left(c)' < Left(c)
      BY <2>0, <2>1, <2>6, StepLeft, MutateLeft, ReadLeft, FaultLeft
    <3>2. rerun' = rerun
      BY <2>1, <2>6 DEF Step, Lock, LockFails, Fetch, ResetFile, ResetDone, LoadPins, NetworkFails,
         ApplyFails, Crash, Mutate, Load, Write, CommitAll, Push, Accepted, PushRejected,
         RetryOrGiveUp, SavePins, Read, View, Check, Record
    <3>3. Left(c)' <= Left(c)
      <4>1. Left(c) \in Nat /\ Left(c)' \in Int
        BY <2>0, LeftIs, LeftNext
      <4> QED BY <3>1, <4>1
    <3> QED BY <2>4, <3>1, <3>2, <3>3
  <2> QED BY <2>5, <2>6
<1> QED BY <1>1, InvCorrect, PTL DEF Spec, StepsRunOut
=============================================================================

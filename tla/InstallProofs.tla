---------------------------- MODULE InstallProofs ----------------------------
(***************************************************************************)
(* The user's content and that of other secrets is kept, the record is     *)
(* true, and rotations and repeated gets need no flag, for any gets,       *)
(* secrets, files and sections, and any number of starts, edits and        *)
(* seconds.                                                                *)
(***************************************************************************)
EXTENDS Install, TLAPS

-----------------------------------------------------------------------------
(* The inductive invariant *)

\* Whatever of kauket's is in a file or was seen in one is in the history.
HeldInv ==
    \A f \in Files, p \in Parts :
        /\ files[f][p] \in Ours => <<f, p, files[f][p]>> \in held
        /\ \A g \in Gets : seen[g][f][p] \in Ours => <<f, p, seen[g][f][p]>> \in held

\* What a secret may put anywhere, and what it may not.
Own(s) == Files \X Parts \X ({s} \X Versions)
Foreign(s) == (Theirs \cup Ours) \ ({s} \X Versions)

\* A secret is on record with its own contents only, in every copy of the record.
OwnClaims ==
    \A s \in Secrets :
        record[s] \subseteq Own(s) /\ \A g \in Gets : known[g][s] \subseteq Own(s)

\* A get that has loaded the record: what it has planned and need not change, or
\* has changed, holds the secret; and what it has still to change holds nothing
\* of the user's or of another secret in its own sections unless a flag says so.
PlanInv(g) ==
    /\ pc[g] = "load" => todo[g] = Targets(New(g)) /\ changed[g] = {}
    /\ pc[g] \in {"plan", "write", "record"} =>
        /\ \A f \in Targets(New(g)) \ (todo[g] \cup changed[g]) :
               \A p \in Sections[New(g)][f] : <<f, p, New(g)>> \in held
        /\ \A f \in changed[g] : \A p \in Sections[New(g)][f] :
               seen[g][f][p] \in Foreign(secret[g]) => flag[g] # "none"
        /\ pc[g] # "plan" => todo[g] = {}
        /\ pc[g] = "record" => changed[g] = {}

Inv == TypeOK /\ HeldInv /\ RecordsAreTrue /\ OwnClaims /\ \A g \in Gets : PlanInv(g)

-----------------------------------------------------------------------------
(* Lemmas *)

LEMMA SectionsType ==
    \A new \in Ours, f \in Files : Sections[new][f] \subseteq Parts
  BY SectionsAssumption DEF Ours, Versions

LEMMA NewType == ASSUME TypeOK, NEW g \in Gets PROVE New(g) \in Ours /\ New(g)[1] = secret[g]
  BY DEF TypeOK, New, Ours

LEMMA GotoType ==
    ASSUME NEW g \in Gets, NEW s \in Running \cup Ended, Goto(g, s),
           pc \in [Gets -> Running \cup Ended]
    PROVE  pc' \in [Gets -> Running \cup Ended]
  BY DEF Goto

LEMMA AnySecretType == AnySecret \in Secrets
  BY SectionsAssumption DEF AnySecret

LEMMA NothingType == Missing \in Texts /\ Nothing \in [Files -> Texts]
  BY DEF Missing, Nothing, Texts, Contents

LEMMA OneType == 1 \in Versions
  BY BoundsAssumption DEF Versions

\* The fields of a session.
SessionTyped ==
    /\ pc \in [Gets -> Running \cup Ended]
    /\ secret \in [Gets -> Secrets]
    /\ version \in [Gets -> Versions]
    /\ flag \in [Gets -> {"none"} \cup Flags]
    /\ known \in [Gets -> Records]
    /\ seen \in [Gets -> [Files -> Texts]]
    /\ todo \in [Gets -> SUBSET Files]
    /\ changed \in [Gets -> SUBSET Files]
    /\ tobackup \in [Gets -> SUBSET Files]
    /\ alone \in [Gets -> BOOLEAN]

LEMMA EndTyped == ASSUME TypeOK, NEW g \in Gets, End(g) PROVE SessionTyped'
<1> USE DEF TypeOK, End
<1>1. pc' \in [Gets -> Running \cup Ended]
  BY GotoType DEF Ended
<1>2. secret' \in [Gets -> Secrets] /\ version' \in [Gets -> Versions]
  BY AnySecretType, OneType
<1>3. flag' \in [Gets -> {"none"} \cup Flags]
  OBVIOUS
<1>4. known' \in [Gets -> Records]
  BY DEF Records
<1>5. seen' \in [Gets -> [Files -> Texts]]
  BY NothingType
<1>6. /\ todo' \in [Gets -> SUBSET Files] /\ changed' \in [Gets -> SUBSET Files]
      /\ tobackup' \in [Gets -> SUBSET Files] /\ alone' \in [Gets -> BOOLEAN]
  OBVIOUS
<1> QED BY <1>1, <1>2, <1>3, <1>4, <1>5, <1>6 DEF SessionTyped

LEMMA MergedType ==
    ASSUME TypeOK, NEW g \in Gets, NEW f \in Files PROVE Merged(g, f) \in Texts
  BY NewType DEF TypeOK, Merged, Texts, Contents

LEMMA ClaimedType ==
    ASSUME NEW new \in Ours PROVE Claimed(new) \subseteq Claims
  BY DEF Claimed, Places, Claims

-----------------------------------------------------------------------------
(* Type correctness *)

LEMMA InitTyped == Init => TypeOK
<1> HAVE Init
<1>1. files \in [Files -> Texts]
  BY ContentAssumption DEF Init, Texts, Contents
<1>2. backups \in [Files -> [0..MaxClock -> Texts]]
  BY NothingType DEF Init
<1>3. record \in Records /\ known \in [Gets -> Records]
  BY DEF Init, Records
<1>4. clock \in 0..MaxClock /\ starts \in 0..MaxStarts /\ edits \in 0..MaxEdits
  BY BoundsAssumption DEF Init
<1>5. secret \in [Gets -> Secrets] /\ version \in [Gets -> Versions]
  BY AnySecretType, OneType DEF Init
<1>6. seen \in [Gets -> [Files -> Texts]]
  BY NothingType DEF Init
<1>7. pc \in [Gets -> Running \cup Ended] /\ flag \in [Gets -> {"none"} \cup Flags]
  BY DEF Init, Ended
<1>8. /\ todo \in [Gets -> SUBSET Files] /\ changed \in [Gets -> SUBSET Files]
      /\ tobackup \in [Gets -> SUBSET Files] /\ alone \in [Gets -> BOOLEAN]
      /\ held \subseteq Claims /\ clean \in BOOLEAN
  BY DEF Init
<1> QED BY <1>1, <1>2, <1>3, <1>4, <1>5, <1>6, <1>7, <1>8 DEF TypeOK

LEMMA GetTyped == ASSUME TypeOK, NEW g \in Gets, Get(g) PROVE TypeOK'
<1> USE DEF disk, history
<1>1. ASSUME NEW s \in Secrets, NEW v \in Versions, NEW fl \in Flags, Start(g, s, v, fl)
      PROVE  TypeOK'
  <2>1. pc' \in [Gets -> Running \cup Ended]
    BY <1>1, GotoType DEF Start, TypeOK, Running
  <2>2. starts' \in 0..MaxStarts
    BY <1>1, BoundsAssumption DEF Start, TypeOK
  <2>3. todo' \in [Gets -> SUBSET Files]
    BY <1>1 DEF Start, TypeOK, Targets
  <2>4. alone' \in [Gets -> BOOLEAN] /\ clean' \in BOOLEAN
    BY <1>1 DEF Start, TypeOK
  <2> QED BY <1>1, <2>1, <2>2, <2>3, <2>4 DEF Start, TypeOK
<1>2. CASE LoadState(g)
  BY <1>2, GotoType DEF LoadState, TypeOK, Running
<1>3. ASSUME NEW f \in Files, PlanTarget(g, f) PROVE TypeOK'
  <2>1. changed' \in [Gets -> SUBSET Files]
    <3>1. changed' = changed \/ changed' = [changed EXCEPT ![g] = @ \cup {f}]
      BY <1>3 DEF PlanTarget
    <3>2. changed \in [Gets -> SUBSET Files]
      BY DEF TypeOK
    <3>3. CASE changed' = changed
      BY <3>2, <3>3
    <3>4. CASE changed' = [changed EXCEPT ![g] = @ \cup {f}]
      <4>1. changed[g] \cup {f} \in SUBSET Files
        BY <3>2
      <4> QED BY <3>2, <3>4, <4>1
    <3> QED BY <3>1, <3>3, <3>4
  <2>2. seen' \in [Gets -> [Files -> Texts]]
    BY <1>3 DEF PlanTarget, TypeOK
  <2>3. todo' \in [Gets -> SUBSET Files] /\ tobackup' \in [Gets -> SUBSET Files]
    BY <1>3 DEF PlanTarget, TypeOK
  <2> QED BY <1>3, <2>1, <2>2, <2>3 DEF PlanTarget, TypeOK
<1>4. ASSUME NEW f \in Files, Refuse(g, f) PROVE TypeOK'
  BY <1>4, EndTyped DEF Refuse, TypeOK, SessionTyped
<1>5. CASE Planned(g)
  <2>1. CASE changed[g] = {}
    BY <1>5, <2>1, EndTyped DEF Planned, TypeOK, SessionTyped
  <2>2. CASE changed[g] # {}
    BY <1>5, <2>2, GotoType DEF Planned, TypeOK, Running
  <2> QED BY <2>1, <2>2
<1>6. ASSUME NEW f \in Files, BackUp(g, f) PROVE TypeOK'
  <2>1. files' \in [Files -> Texts]
    BY <1>6, NothingType DEF BackUp, TypeOK
  <2>2. backups' \in [Files -> [0..MaxClock -> Texts]]
    BY <1>6 DEF BackUp, TypeOK
  <2> QED BY <1>6, <2>1, <2>2 DEF BackUp, TypeOK
<1>7. ASSUME NEW f \in Files, Replace(g, f) PROVE TypeOK'
  <2>1. files' \in [Files -> Texts]
    BY <1>7, MergedType DEF Replace, TypeOK
  <2>2. held' \subseteq Claims
    BY <1>7, NewType, SectionsType DEF Replace, TypeOK, Claims
  <2>3. pc' \in [Gets -> Running \cup Ended]
    BY <1>7, GotoType DEF Replace, TypeOK, Running
  <2> QED BY <1>7, <2>1, <2>2, <2>3 DEF Replace, TypeOK
<1>8. CASE Record(g)
  <2>1. record' \in Records
    BY <1>8, ClaimedType, NewType DEF Record, TypeOK, Records
  <2> QED BY <1>8, <2>1, EndTyped DEF Record, TypeOK, SessionTyped
<1>9. CASE Stop(g)
  BY <1>9, GotoType DEF Stop, TypeOK, Ended
<1> QED BY <1>1, <1>2, <1>3, <1>4, <1>5, <1>6, <1>7, <1>8, <1>9 DEF Get

LEMMA Typed == TypeOK /\ [Next]_vars => TypeOK'
<1> SUFFICES ASSUME TypeOK, [Next]_vars PROVE TypeOK'
  OBVIOUS
<1> USE DEF disk, session, history
<1>1. ASSUME NEW f \in Files, NEW p \in Parts, NEW text \in Theirs \cup {None}, Edit(f, p, text)
      PROVE  TypeOK'
  <2>1. files' \in [Files -> Texts]
    BY <1>1 DEF Edit, TypeOK, Texts, Contents
  <2>2. edits' \in 0..MaxEdits
    BY <1>1, BoundsAssumption DEF Edit, TypeOK
  <2> QED BY <1>1, <2>1, <2>2 DEF Edit, TypeOK
<1>2. CASE Tick
  BY <1>2, BoundsAssumption DEF Tick, TypeOK
<1>3. CASE UNCHANGED vars
  BY <1>3 DEF vars, TypeOK
<1> QED BY <1>1, <1>2, <1>3, GetTyped DEF Next

\* Every file, backup, record and session stays well typed.
THEOREM InstallTypeCorrect == Spec => []TypeOK
  BY InitTyped, Typed, PTL DEF Spec

-----------------------------------------------------------------------------
(* The record is true *)

\* What is written into a file was seen there or is new, and is in the history.
LEMMA MergedHeld ==
    ASSUME TypeOK, HeldInv, NEW g \in Gets, NEW f \in Files, NEW p \in Parts,
           held' = held \cup {<<f, x, New(g)>> : x \in Sections[New(g)][f]},
           Merged(g, f)[p] \in Ours
    PROVE  <<f, p, Merged(g, f)[p]>> \in held'
<1>1. CASE p \in Sections[New(g)][f]
  BY <1>1 DEF Merged
<1>2. CASE p \notin Sections[New(g)][f]
  BY <1>2 DEF Merged, HeldInv
<1> QED BY <1>1, <1>2

LEMMA MissingNotOurs == \A p \in Parts : Missing[p] \notin Ours
  BY ContentAssumption DEF Missing

LEMMA HeldStep == Inv /\ [Next]_vars => HeldInv' /\ held \subseteq held'
<1> SUFFICES ASSUME Inv, [Next]_vars PROVE HeldInv' /\ held \subseteq held'
  OBVIOUS
<1> USE DEF Inv, disk, session, history
<1>1. ASSUME NEW g \in Gets, Get(g) PROVE HeldInv' /\ held \subseteq held'
  <2>1. ASSUME NEW s \in Secrets, NEW v \in Versions, NEW fl \in Flags, Start(g, s, v, fl)
        PROVE  HeldInv' /\ held \subseteq held'
    BY <2>1 DEF Start, HeldInv
  <2>2. CASE LoadState(g) \/ Stop(g)
    BY <2>2 DEF LoadState, Stop, HeldInv
  <2>3. ASSUME NEW f \in Files, PlanTarget(g, f) PROVE HeldInv' /\ held \subseteq held'
    BY <2>3 DEF PlanTarget, HeldInv, TypeOK
  <2>4. ASSUME End(g), UNCHANGED <<files, held>> PROVE HeldInv' /\ held \subseteq held'
    BY <2>4, MissingNotOurs DEF End, HeldInv, TypeOK, Nothing
  <2>5. ASSUME NEW f \in Files, Refuse(g, f) PROVE HeldInv' /\ held \subseteq held'
    BY <2>4, <2>5 DEF Refuse
  <2>6. CASE Planned(g)
    <3>1. CASE changed[g] = {}
      BY <2>4, <2>6, <3>1 DEF Planned
    <3>2. CASE changed[g] # {}
      BY <2>6, <3>2 DEF Planned, HeldInv
    <3> QED BY <3>1, <3>2
  <2>7. ASSUME NEW f \in Files, BackUp(g, f) PROVE HeldInv' /\ held \subseteq held'
    BY <2>7, MissingNotOurs DEF BackUp, HeldInv, TypeOK
  <2>8. ASSUME NEW f \in Files, Replace(g, f) PROVE HeldInv' /\ held \subseteq held'
    <3>1. held' = held \cup {<<f, x, New(g)>> : x \in Sections[New(g)][f]}
      BY <2>8 DEF Replace
    <3>2. \A p \in Parts : files'[f][p] \in Ours => <<f, p, files'[f][p]>> \in held'
      BY <2>8, <3>1, MergedHeld DEF Replace, TypeOK
    <3>3. \A h \in Files \ {f} : files'[h] = files[h]
      BY <2>8 DEF Replace, TypeOK
    <3> QED BY <2>8, <3>1, <3>2, <3>3 DEF Replace, HeldInv
  <2>9. CASE Record(g)
    BY <2>4, <2>9 DEF Record
  <2> QED BY <1>1, <2>1, <2>2, <2>3, <2>5, <2>6, <2>7, <2>8, <2>9 DEF Get
<1>2. ASSUME NEW f \in Files, NEW p \in Parts, NEW text \in Theirs \cup {None}, Edit(f, p, text)
      PROVE  HeldInv' /\ held \subseteq held'
  BY <1>2, ContentAssumption DEF Edit, HeldInv, TypeOK, Texts
<1>3. CASE Tick \/ UNCHANGED vars
  BY <1>3 DEF Tick, vars, HeldInv
<1> QED BY <1>1, <1>2, <1>3 DEF Next

\* What a get that is about to record claims is in the history.
LEMMA ClaimedHeld ==
    ASSUME TypeOK, NEW g \in Gets, PlanInv(g), pc[g] = "record"
    PROVE  Claimed(New(g)) \subseteq held
<1> SUFFICES ASSUME NEW x \in Places(New(g)) PROVE <<x[1], x[2], New(g)>> \in held
  BY DEF Claimed
<1>1. x[1] \in Files /\ x[2] \in Sections[New(g)][x[1]]
  BY DEF Places
<1>2. x[1] \in Targets(New(g)) \ (todo[g] \cup changed[g])
  BY <1>1 DEF Targets, PlanInv
<1> QED BY <1>1, <1>2 DEF PlanInv

LEMMA RecordsStep == Inv /\ [Next]_vars => RecordsAreTrue'
<1> SUFFICES ASSUME Inv, [Next]_vars PROVE RecordsAreTrue'
  OBVIOUS
<1> USE DEF Inv, disk, session, history
<1>0. held \subseteq held'
  BY HeldStep
<1>1. ASSUME NEW g \in Gets, Get(g) PROVE RecordsAreTrue'
  <2>1. ASSUME End(g), UNCHANGED record PROVE RecordsAreTrue'
    BY <1>0, <2>1 DEF End, RecordsAreTrue, TypeOK
  <2>2. ASSUME UNCHANGED <<known, record>> PROVE RecordsAreTrue'
    BY <1>0, <2>2 DEF RecordsAreTrue
  <2>3. CASE LoadState(g)
    BY <1>0, <2>3 DEF LoadState, RecordsAreTrue, TypeOK
  <2>4. CASE Planned(g)
    BY <2>1, <2>2, <2>4 DEF Planned
  <2>5. CASE Record(g)
    <3>1. Claimed(New(g)) \subseteq held
      BY <2>5, ClaimedHeld DEF Record
    <3>2. \A s \in Secrets : record'[s] \subseteq held
      BY <2>5, <3>1 DEF Record, RecordsAreTrue, TypeOK, Records
    <3> QED BY <1>0, <2>5, <3>2 DEF Record, End, RecordsAreTrue, TypeOK
  <2>6. ASSUME NEW f \in Files, Refuse(g, f) PROVE RecordsAreTrue'
    BY <2>1, <2>6 DEF Refuse
  <2>7. CASE Stop(g) \/ (\E s \in Secrets, v \in Versions, fl \in Flags : Start(g, s, v, fl))
    BY <2>2, <2>7 DEF Stop, Start
  <2>8. ASSUME NEW f \in Files, PlanTarget(g, f) \/ BackUp(g, f) \/ Replace(g, f)
        PROVE  RecordsAreTrue'
    BY <2>2, <2>8 DEF PlanTarget, BackUp, Replace
  <2> QED BY <1>1, <2>3, <2>4, <2>5, <2>6, <2>7, <2>8 DEF Get
<1>2. CASE UNCHANGED <<known, record>>
  BY <1>0, <1>2 DEF RecordsAreTrue
<1> QED BY <1>1, <1>2 DEF Next, Edit, Tick, vars

\* A secret claims its own contents, and no other.
LEMMA ClaimsStep == Inv /\ [Next]_vars => OwnClaims'
<1> SUFFICES ASSUME Inv, [Next]_vars PROVE OwnClaims'
  OBVIOUS
<1> USE DEF Inv, disk, session, history
<1>1. ASSUME NEW g \in Gets, Get(g) PROVE OwnClaims'
  <2>1. ASSUME End(g), UNCHANGED record PROVE OwnClaims'
    BY <2>1 DEF End, OwnClaims, TypeOK
  <2>2. ASSUME UNCHANGED <<known, record>> PROVE OwnClaims'
    BY <2>2 DEF OwnClaims
  <2>3. CASE LoadState(g)
    BY <2>3 DEF LoadState, OwnClaims, TypeOK
  <2>4. CASE Planned(g)
    BY <2>1, <2>2, <2>4 DEF Planned
  <2>5. CASE Record(g)
    <3>1. Claimed(New(g)) \subseteq Own(secret[g])
      BY SectionsType DEF Claimed, Places, Own, New, TypeOK
    <3>2. \A s \in Secrets : record'[s] \subseteq Own(s)
      BY <2>5, <3>1 DEF Record, OwnClaims, TypeOK, Records
    <3> QED BY <2>5, <3>2 DEF Record, End, OwnClaims, TypeOK
  <2>6. ASSUME NEW f \in Files, Refuse(g, f) PROVE OwnClaims'
    BY <2>1, <2>6 DEF Refuse
  <2>7. CASE Stop(g) \/ (\E s \in Secrets, v \in Versions, fl \in Flags : Start(g, s, v, fl))
    BY <2>2, <2>7 DEF Stop, Start
  <2>8. ASSUME NEW f \in Files, PlanTarget(g, f) \/ BackUp(g, f) \/ Replace(g, f)
        PROVE  OwnClaims'
    BY <2>2, <2>8 DEF PlanTarget, BackUp, Replace
  <2> QED BY <1>1, <2>3, <2>4, <2>5, <2>6, <2>7, <2>8 DEF Get
<1>2. CASE UNCHANGED <<known, record>>
  BY <1>2 DEF OwnClaims
<1> QED BY <1>1, <1>2 DEF Next, Edit, Tick, vars

\* What is not of a secret is in its way wherever it fills a section.
LEMMA ForeignUnclaimed ==
    ASSUME TypeOK, OwnClaims, NEW g \in Gets, NEW f, NEW p, NEW text \in Foreign(secret[g])
    PROVE  text \notin {None, New(g)} /\ <<f, p, text>> \notin known[g][secret[g]]
<1>1. text # None /\ text \notin {secret[g]} \X Versions
  BY ContentAssumption DEF Foreign, Ours, TypeOK
<1>2. New(g) \in {secret[g]} \X Versions
  BY DEF New, TypeOK
<1>3. known[g][secret[g]] \subseteq Own(secret[g])
  BY DEF OwnClaims, TypeOK
<1>4. <<f, p, text>> \notin Own(secret[g])
  BY <1>1 DEF Own
<1> QED BY <1>1, <1>2, <1>3, <1>4

\* A get moved by no step but its own.
LEMMA PlanKept ==
    ASSUME Inv, HeldInv', held \subseteq held', NEW h \in Gets,
           pc'[h] = pc[h], secret'[h] = secret[h], version'[h] = version[h],
           flag'[h] = flag[h], seen'[h] = seen[h], todo'[h] = todo[h], changed'[h] = changed[h]
    PROVE  PlanInv(h)'
  BY DEF Inv, PlanInv, New, Targets

LEMMA OwnPlan == ASSUME Inv, [Next]_vars, NEW g \in Gets, Get(g) PROVE PlanInv(g)'
<1> USE DEF Inv, disk, session, history
<1>0. held \subseteq held' /\ TypeOK'
  BY HeldStep, Typed
<1>1. ASSUME pc'[g] \in Ended PROVE PlanInv(g)'
  BY <1>1 DEF PlanInv, Ended
<1>2. ASSUME End(g) PROVE PlanInv(g)'
  BY <1>1, <1>2 DEF End, Goto, TypeOK, Ended
<1>3. ASSUME NEW s \in Secrets, NEW v \in Versions, NEW fl \in Flags, Start(g, s, v, fl)
      PROVE  PlanInv(g)'
  BY <1>3 DEF Start, Goto, TypeOK, PlanInv, Targets, New
<1>4. CASE LoadState(g)
  BY <1>4 DEF LoadState, Goto, TypeOK, PlanInv, Targets, New
<1>5. ASSUME NEW f \in Files, PlanTarget(g, f) PROVE PlanInv(g)'
  <2>1. /\ pc' = pc /\ pc[g] = "plan" /\ secret' = secret /\ version' = version /\ flag' = flag
        /\ held' = held /\ f \in todo[g]
    BY <1>5 DEF PlanTarget, First
  <2>2. /\ todo'[g] = todo[g] \ {f}
        /\ \/ Unchanged(files[f], f, New(g)) /\ changed'[g] = changed[g]
           \/ changed'[g] = changed[g] \cup {f}
        /\ seen'[g] = [seen[g] EXCEPT ![f] = files[f]]
    BY <1>5 DEF PlanTarget, TypeOK
  <2>3. New(g)' = New(g) /\ Targets(New(g))' = Targets(New(g))
    BY <2>1 DEF New, Targets
  <2>4. ASSUME NEW h \in Targets(New(g)) \ (todo'[g] \cup changed'[g]),
               NEW p \in Sections[New(g)][h]
        PROVE  <<h, p, New(g)>> \in held
    <3>1. CASE h = f
      <4>1. files[f][p] = New(g)
        BY <2>2, <2>4, <3>1, NewType DEF Unchanged
      <4> QED BY <3>1, <4>1, NewType, SectionsType DEF HeldInv, TypeOK
    <3>2. CASE h # f
      BY <2>1, <2>2, <2>4, <3>2 DEF PlanInv
    <3> QED BY <3>1, <3>2
  <2>5. ASSUME NEW h \in changed'[g], NEW p \in Sections[New(g)][h],
               seen'[g][h][p] \in Foreign(secret[g])
        PROVE  flag[g] # "none"
    <3>1. CASE h = f
      <4>1. files[f][p] \in Foreign(secret[g])
        BY <2>2, <2>5, <3>1 DEF TypeOK
      <4>2. files[f][p] \notin {None, New(g)} /\ <<f, p, files[f][p]>> \notin known[g][secret[g]]
        BY <4>1, ForeignUnclaimed
      <4>3. Conflict(files[f], f, New(g), known[g][secret[g]])
        BY <2>5, <3>1, <4>2, NewType DEF Conflict
      <4> QED BY <1>5, <4>3 DEF PlanTarget
    <3>2. CASE h # f
      <4>1. h \in changed[g] /\ h \in Files
        BY <2>2, <2>5, <3>2 DEF TypeOK
      <4>2. seen'[g][h] = seen[g][h]
        BY <2>2, <3>2, <4>1 DEF TypeOK
      <4> QED BY <2>1, <2>5, <4>1, <4>2 DEF PlanInv
    <3> QED BY <3>1, <3>2
  <2> QED BY <2>1, <2>3, <2>4, <2>5 DEF PlanInv
<1>6. ASSUME NEW f \in Files, Refuse(g, f) PROVE PlanInv(g)'
  BY <1>2, <1>6 DEF Refuse
<1>7. CASE Planned(g)
  <2>1. CASE changed[g] = {}
    BY <1>2, <1>7, <2>1 DEF Planned
  <2>2. CASE changed[g] # {}
    BY <1>7, <2>2 DEF Planned, Goto, TypeOK, PlanInv, New, Targets
  <2> QED BY <2>1, <2>2
<1>8. ASSUME NEW f \in Files, BackUp(g, f) PROVE PlanInv(g)'
  BY <1>8 DEF BackUp, PlanInv, New, Targets
<1>9. ASSUME NEW f \in Files, Replace(g, f) PROVE PlanInv(g)'
  <2>1. /\ pc[g] = "write" /\ secret' = secret /\ version' = version /\ flag' = flag
        /\ seen' = seen /\ todo' = todo /\ todo[g] = {}
        /\ held' = held \cup {<<f, p, New(g)>> : p \in Sections[New(g)][f]}
    BY <1>9 DEF Replace, PlanInv
  <2>2. changed'[g] = changed[g] \ {f} /\ (pc'[g] = "record" => changed[g] = {f})
    BY <1>9 DEF Replace, Goto, TypeOK
  <2>3. New(g)' = New(g) /\ Targets(New(g))' = Targets(New(g))
    BY <2>1 DEF New, Targets
  <2>4. pc'[g] \in {"write", "record"}
    BY <1>9 DEF Replace, Goto, TypeOK
  <2>5. ASSUME NEW h \in Targets(New(g)) \ (todo'[g] \cup changed'[g]),
               NEW p \in Sections[New(g)][h]
        PROVE  <<h, p, New(g)>> \in held'
    BY <2>1, <2>2, <2>5 DEF PlanInv
  <2>6. ASSUME NEW h \in changed'[g], NEW p \in Sections[New(g)][h],
               seen'[g][h][p] \in Foreign(secret[g])
        PROVE  flag[g] # "none"
    BY <2>1, <2>2, <2>6 DEF PlanInv
  <2> QED BY <2>1, <2>2, <2>3, <2>4, <2>5, <2>6 DEF PlanInv
<1>10. CASE Record(g)
  BY <1>2, <1>10 DEF Record
<1>11. CASE Stop(g)
  BY <1>1, <1>11 DEF Stop, Goto, TypeOK, Ended
<1> QED BY <1>3, <1>4, <1>5, <1>6, <1>7, <1>8, <1>9, <1>10, <1>11 DEF Get

\* No step of a get touches the session of another.
LEMMA OtherPlans ==
    ASSUME Inv, [Next]_vars, NEW g \in Gets, Get(g), NEW h \in Gets, h # g
    PROVE  PlanInv(h)'
<1> USE DEF Inv, disk, session, history
<1>1. HeldInv' /\ held \subseteq held'
  BY HeldStep
<1> DEFINE Same == /\ pc'[h] = pc[h] /\ secret'[h] = secret[h] /\ version'[h] = version[h]
                   /\ flag'[h] = flag[h] /\ seen'[h] = seen[h] /\ todo'[h] = todo[h]
                   /\ changed'[h] = changed[h]
<1>2. ASSUME End(g) PROVE Same
  BY <1>2 DEF End, Goto, TypeOK
<1>3. ASSUME NEW s \in Secrets, NEW v \in Versions, NEW fl \in Flags, Start(g, s, v, fl)
      PROVE  Same
  BY <1>3 DEF Start, Goto, TypeOK
<1>4. ASSUME LoadState(g) \/ Stop(g) PROVE Same
  BY <1>4 DEF LoadState, Stop, Goto, TypeOK
<1>5. ASSUME NEW f \in Files, PlanTarget(g, f) PROVE Same
  BY <1>5 DEF PlanTarget, TypeOK
<1>6. ASSUME NEW f \in Files, Refuse(g, f) PROVE Same
  BY <1>2, <1>6 DEF Refuse
<1>7. ASSUME Planned(g) PROVE Same
  BY <1>2, <1>7 DEF Planned, Goto, TypeOK
<1>8. ASSUME NEW f \in Files, BackUp(g, f) PROVE Same
  BY <1>8 DEF BackUp
<1>9. ASSUME NEW f \in Files, Replace(g, f) PROVE Same
  BY <1>9 DEF Replace, Goto, TypeOK
<1>10. ASSUME Record(g) PROVE Same
  BY <1>2, <1>10 DEF Record
<1>11. Same
  BY <1>3, <1>4, <1>5, <1>6, <1>7, <1>8, <1>9, <1>10 DEF Get
<1> QED BY <1>1, <1>11, PlanKept

LEMMA Inductive == Inv /\ [Next]_vars => Inv'
<1> SUFFICES ASSUME Inv, [Next]_vars PROVE Inv'
  OBVIOUS
<1>1. TypeOK' /\ HeldInv' /\ RecordsAreTrue' /\ OwnClaims' /\ held \subseteq held'
  BY Typed, HeldStep, RecordsStep, ClaimsStep DEF Inv
<1>2. ASSUME NEW g \in Gets, Get(g), NEW h \in Gets PROVE PlanInv(h)'
  BY <1>2, OwnPlan, OtherPlans
<1>3. ASSUME NEW h \in Gets, UNCHANGED <<pc, secret, version, flag, seen, todo, changed>>
      PROVE  PlanInv(h)'
  BY <1>1, <1>3, PlanKept
<1>4. \A h \in Gets : PlanInv(h)'
  BY <1>2, <1>3 DEF Next, Edit, Tick, vars, session
<1> QED BY <1>1, <1>4 DEF Inv

LEMMA InitInv == Init => Inv
<1> HAVE Init
<1>1. TypeOK
  BY InitTyped
<1>2. HeldInv
  BY ContentAssumption, MissingNotOurs DEF Init, HeldInv, Nothing
<1>3. RecordsAreTrue /\ OwnClaims
  BY DEF Init, RecordsAreTrue, OwnClaims
<1>4. \A g \in Gets : PlanInv(g)
  BY DEF Init, PlanInv
<1> QED BY <1>1, <1>2, <1>3, <1>4 DEF Inv

\* Whichever copy of the record overwrites which, none ever names a content that
\* kauket did not put where it says (state.go:62-108).
THEOREM RecordsCorrect == Spec => []RecordsAreTrue
<1>1. Inv => RecordsAreTrue
  BY DEF Inv
<1> QED BY <1>1, InitInv, Inductive, PTL DEF Spec

-----------------------------------------------------------------------------
(* The user's content is kept *)

\* What a get replaces without being told is what it had looked at and may
\* change.
LEMMA ReplaceKeeps ==
    ASSUME Inv, NEW g \in Gets, NEW f \in Files, Replace(g, f),
           NEW p \in Parts, NEW text \in Theirs,
           files[f][p] = text, files'[f][p] # text
    PROVE  Told(g, f, p) \/ CameLater(g, f, p, text)
<1> SUFFICES ASSUME seen[g][f][p] = text PROVE Told(g, f, p) \/ Moved(g, f)
  BY DEF CameLater
<1>1. pc[g] = "write" /\ f \in changed[g] /\ f \notin tobackup[g]
  BY DEF Replace, First
<1>2. files'[f][p] = Merged(g, f)[p]
  BY DEF Replace, Inv, TypeOK
<1>3. p \in Sections[New(g)][f]
  BY <1>2 DEF Merged
<1>4. flag[g] # "none"
  <2>1. text \in Foreign(secret[g])
    BY ContentAssumption DEF Foreign, Ours, Inv, TypeOK
  <2> QED BY <1>1, <1>3, <2>1 DEF Inv, PlanInv
<1>5. CASE flag[g] = "force"
  BY <1>3, <1>5 DEF Told
<1>6. CASE flag[g] = "backup"
  <2>1. text \notin {None, New(g)} /\ <<f, p, text>> \notin known[g][secret[g]]
    BY ContentAssumption, NewType DEF Inv, TypeOK, Records, Claims
  <2>2. Conflict(seen[g][f], f, New(g), known[g][secret[g]])
    BY <1>3, <2>1, NewType DEF Conflict, Inv
  <2> QED BY <1>1, <1>6, <2>2 DEF Moved
<1> QED BY <1>4, <1>5, <1>6, SectionsAssumption DEF Inv, TypeOK

LEMMA BackUpKeeps ==
    ASSUME TypeOK, NEW g \in Gets, NEW f \in Files, BackUp(g, f),
           NEW h \in Files, NEW p \in Parts, NEW text \in Theirs,
           Kept(h, p, text), ~Kept(h, p, text)'
    PROVE  h = f /\ SameSecond(f)
<1>1. \A x \in Files, t \in 0..MaxClock :
        backups'[x][t] = IF x = f /\ t = clock THEN files[f] ELSE backups[x][t]
  BY DEF BackUp, TypeOK
<1>2. h = f
  BY <1>1 DEF BackUp, Kept, TypeOK
<1>3. files[f][p] # text
  BY <1>1, <1>2 DEF Kept, TypeOK
<1>4. backups[f][clock][p] = text
  BY <1>1, <1>2, <1>3 DEF Kept, TypeOK
<1>5. backups[f][clock] # Missing
  BY <1>4, ContentAssumption DEF Missing
<1> QED BY <1>2, <1>5 DEF SameSecond

\* Whatever runs at the same time, and wherever a get stops, the user's content
\* goes only where a get was told to overwrite it, could not know of it, or
\* makes two backups in a second (file.go:193-219, awsprofile.go:207-230).
THEOREM UserContentCorrect == Spec => UserContentKept
<1> DEFINE Excused(f, p, text) ==
      \/ edits' # edits
      \/ \E g \in Gets :
            /\ pc[g] = "write" /\ f \in changed[g]
            /\ \/ f \notin tobackup[g] /\ (Told(g, f, p) \/ CameLater(g, f, p, text))
               \/ f \in tobackup[g] /\ SameSecond(f)
<1>1. ASSUME Inv, [Next]_vars, NEW h \in Files, NEW p \in Parts, NEW text \in Theirs,
             Kept(h, p, text), ~Kept(h, p, text)'
      PROVE  Excused(h, p, text)
  <2> USE DEF disk, session, history
  <2>1. ~UNCHANGED <<files, backups>>
    BY <1>1 DEF Kept
  <2>2. ASSUME NEW g \in Gets, NEW f \in Files, Replace(g, f) PROVE Excused(h, p, text)
    <3>1. h = f /\ files[f][p] = text /\ files'[f][p] # text
      BY <1>1, <2>2 DEF Replace, Kept, Inv, TypeOK
    <3> QED BY <1>1, <2>2, <3>1, ReplaceKeeps DEF Replace, First
  <2>3. ASSUME NEW g \in Gets, NEW f \in Files, BackUp(g, f) PROVE Excused(h, p, text)
    BY <1>1, <2>3, BackUpKeeps DEF BackUp, First, Inv
  <2>4. ASSUME NEW f \in Files, NEW x \in Parts, NEW t \in Theirs \cup {None}, Edit(f, x, t)
        PROVE  Excused(h, p, text)
    BY <1>1, <2>4 DEF Edit, Inv, TypeOK
  <2>5. ASSUME NEW g \in Gets, Get(g) PROVE Excused(h, p, text)
    BY <2>1, <2>2, <2>3, <2>5
       DEF Get, LoadState, Planned, Record, Stop, Start, PlanTarget, Refuse
  <2> QED BY <1>1, <2>1, <2>4, <2>5 DEF Next, Tick, vars
<1>2. Inv /\ [Next]_vars => [\A f \in Files, p \in Parts, text \in Theirs :
           Kept(f, p, text) /\ ~Kept(f, p, text)' => Excused(f, p, text)]_vars
  BY <1>1
<1> QED BY <1>2, InitInv, Inductive, PTL DEF Spec, UserContentKept

-----------------------------------------------------------------------------
(* So is the content of the other secrets *)

\* What a get without a flag replaces of another secret came after it had looked.
LEMMA ReplaceKeepsOthers ==
    ASSUME Inv, NEW g \in Gets, NEW f \in Files, Replace(g, f),
           NEW p \in Parts, NEW text \in Ours,
           files[f][p] = text, files'[f][p] # text
    PROVE  \/ text[1] = secret[g]
           \/ p \in Sections[New(g)][f] /\ flag[g] # "none"
           \/ CameLater(g, f, p, text)
<1> SUFFICES ASSUME seen[g][f][p] = text, text[1] # secret[g]
             PROVE  p \in Sections[New(g)][f] /\ flag[g] # "none"
  BY DEF CameLater
<1>1. pc[g] = "write" /\ f \in changed[g]
  BY DEF Replace, First
<1>2. files'[f][p] = Merged(g, f)[p]
  BY DEF Replace, Inv, TypeOK
<1>3. p \in Sections[New(g)][f]
  BY <1>2 DEF Merged
<1>4. text \in Foreign(secret[g])
  BY DEF Foreign, Ours
<1> QED BY <1>1, <1>3, <1>4 DEF Inv, PlanInv

\* The sections of the other profiles of a file survive every get that is not
\* told otherwise and has seen them (awsprofile.go:93-121).
THEOREM OthersCorrect == Spec => OthersKept
<1> DEFINE Excused(f, p, text) ==
      \/ edits' # edits
      \/ \E g \in Gets :
            /\ pc[g] = "write" /\ f \in changed[g]
            /\ \/ text[1] = secret[g]
               \/ p \in Sections[New(g)][f] /\ flag[g] # "none"
               \/ f \in tobackup[g]
               \/ CameLater(g, f, p, text)
<1>1. ASSUME Inv, [Next]_vars, NEW h \in Files, NEW p \in Parts, NEW text \in Ours,
             files[h][p] = text, files'[h][p] # text
      PROVE  Excused(h, p, text)
  <2> USE DEF disk, session, history
  <2>1. ~UNCHANGED files
    BY <1>1
  <2>2. ASSUME NEW g \in Gets, NEW f \in Files, Replace(g, f) PROVE Excused(h, p, text)
    <3>1. h = f
      BY <1>1, <2>2 DEF Replace, Inv, TypeOK
    <3>2. pc[g] = "write" /\ f \in changed[g]
      BY <2>2 DEF Replace, First
    <3> QED BY <1>1, <2>2, <3>1, <3>2, ReplaceKeepsOthers
  <2>3. ASSUME NEW g \in Gets, NEW f \in Files, BackUp(g, f) PROVE Excused(h, p, text)
    <3>1. h = f
      BY <1>1, <2>3 DEF BackUp, Inv, TypeOK
    <3> QED BY <2>3, <3>1 DEF BackUp, First
  <2>4. ASSUME NEW f \in Files, NEW x \in Parts, NEW t \in Theirs \cup {None}, Edit(f, x, t)
        PROVE  Excused(h, p, text)
    BY <1>1, <2>4 DEF Edit, Inv, TypeOK
  <2>5. ASSUME NEW g \in Gets, Get(g) PROVE Excused(h, p, text)
    BY <2>1, <2>2, <2>3, <2>5
       DEF Get, LoadState, Planned, Record, Stop, Start, PlanTarget, Refuse
  <2> QED BY <1>1, <2>1, <2>4, <2>5 DEF Next, Tick, vars
<1>2. Inv /\ [Next]_vars => [\A f \in Files, p \in Parts, text \in Ours :
           files[f][p] = text /\ files'[f][p] # text => Excused(f, p, text)]_vars
  BY <1>1
<1> QED BY <1>2, InitInv, Inductive, PTL DEF Spec, OthersKept

-----------------------------------------------------------------------------
(* A rotation needs no flags *)

\* As long as the gets come one after the other: what a secret put where its
\* version on record puts something is on record, or the get that is about to record it is at work; that get writes back the
\* record it is to renew, keeps of others what is on record, and leaves of its own
\* secret nothing but what it is about to record.
OneByOne ==
    /\ \A g \in Gets : pc[g] # "stopped"
    /\ \A g, h \in Gets : pc[g] \in Running /\ pc[h] \in Running => g = h

\* A text in a part that the version on record fills is on record itself.
Recorded(claims, f, p, text) ==
    \A c \in claims : p \in Sections[c[3]][f] => <<f, p, text>> \in claims

OnRecord ==
    \A s \in Secrets, f \in Files, p \in Parts :
        files[f][p] \in {s} \X Versions =>
            \/ Recorded(record[s], f, p, files[f][p])
            \/ \E g \in Gets : pc[g] \in {"write", "record"} /\ secret[g] = s

Renews(g) ==
    pc[g] \in {"plan", "write", "record"} =>
        /\ known[g] = record
        /\ \A f \in changed[g], s \in Secrets \ {secret[g]} : \A p \in Parts :
               seen[g][f][p] \in {s} \X Versions => Recorded(record[s], f, p, seen[g][f][p])
        /\ \A f \in Targets(New(g)) \ (todo[g] \cup changed[g]) :
               \A p \in Sections[New(g)][f] :
                   files[f][p] \in {secret[g]} \X Versions => files[f][p] = New(g)

CleanInv == clean => OneByOne /\ OnRecord /\ \A g \in Gets : Renews(g)

LEMMA InitClean == Init => CleanInv
<1> HAVE Init
<1>1. \A f \in Files, p \in Parts, s \in Secrets : files[f][p] \notin {s} \X Versions
  BY ContentAssumption DEF Init, Ours
<1>2. OneByOne /\ OnRecord
  BY <1>1, SectionsType DEF Init, OneByOne, OnRecord, Running
<1>3. \A g \in Gets : Renews(g)
  BY DEF Init, Renews
<1> QED BY <1>2, <1>3 DEF CleanInv

\* Sessions other than g's.
Others(g) ==
    \A h \in Gets \ {g} :
        /\ pc'[h] = pc[h] /\ secret'[h] = secret[h] /\ version'[h] = version[h]
        /\ known'[h] = known[h] /\ seen'[h] = seen[h]
        /\ todo'[h] = todo[h] /\ changed'[h] = changed[h]

LEMMA GetAlone ==
    ASSUME TypeOK, NEW g \in Gets, Get(g) PROVE Others(g)
<1> USE DEF session, disk, history
<1>2. ASSUME End(g) PROVE Others(g)
  BY <1>2 DEF End, Goto, TypeOK, Others
<1>3. ASSUME NEW s \in Secrets, NEW v \in Versions, NEW fl \in Flags, Start(g, s, v, fl)
      PROVE  Others(g)
  BY <1>3 DEF Start, Goto, TypeOK, Others
<1>4. ASSUME LoadState(g) \/ Stop(g) PROVE Others(g)
  BY <1>4 DEF LoadState, Stop, Goto, TypeOK, Others
<1>5. ASSUME NEW f \in Files, PlanTarget(g, f) PROVE Others(g)
  BY <1>5 DEF PlanTarget, TypeOK, Others
<1>6. ASSUME NEW f \in Files, Refuse(g, f) PROVE Others(g)
  BY <1>2, <1>6 DEF Refuse
<1>7. ASSUME Planned(g) PROVE Others(g)
  BY <1>2, <1>7 DEF Planned, Goto, TypeOK, Others
<1>8. ASSUME NEW f \in Files, BackUp(g, f) PROVE Others(g)
  BY <1>8 DEF BackUp, Others
<1>9. ASSUME NEW f \in Files, Replace(g, f) PROVE Others(g)
  BY <1>9 DEF Replace, Goto, TypeOK, Others
<1>10. ASSUME Record(g) PROVE Others(g)
  BY <1>2, <1>10 DEF Record
<1> QED BY <1>3, <1>4, <1>5, <1>6, <1>7, <1>8, <1>9, <1>10 DEF Get

\* A session whose get is not running has nothing to renew, and one that runs
\* excludes the others.
LEMMA RenewsAlone ==
    ASSUME TypeOK, OneByOne, NEW g \in Gets, pc[g] \in Running, Others(g)
    PROVE  /\ \A h \in Gets \ {g} : Renews(h)'
           /\ \A h \in Gets \ {g} : pc'[h] \notin Running /\ pc'[h] # "stopped"
<1>1. \A h \in Gets \ {g} : pc[h] \notin Running
  BY DEF OneByOne
<1> QED BY <1>1 DEF Others, Renews, Running, OneByOne

LEMMA CleanGet ==
    ASSUME Inv, clean, OneByOne, OnRecord, \A h \in Gets : Renews(h),
           NEW g \in Gets, Get(g), clean'
    PROVE  OneByOne' /\ OnRecord' /\ \A h \in Gets : Renews(h)'
<1> USE DEF session, disk, history, Inv
<1>1. Others(g)
  BY GetAlone
\* What an action of a running get has to show.
<1>2. ASSUME pc[g] \in Running, pc'[g] # "stopped", OnRecord', Renews(g)'
      PROVE  OneByOne' /\ OnRecord' /\ \A h \in Gets : Renews(h)'
  BY <1>1, <1>2, RenewsAlone DEF OneByOne
<1>3. ASSUME pc[g] \in {"load", "plan"}
      PROVE  \A s \in Secrets, f \in Files, p \in Parts :
                 files[f][p] \in {s} \X Versions => Recorded(record[s], f, p, files[f][p])
  BY <1>3 DEF OnRecord, OneByOne, Running
<1>4. ASSUME pc[g] \in {"load", "plan"}, UNCHANGED <<files, record>> PROVE OnRecord'
  BY <1>3, <1>4 DEF OnRecord
<1>5. ASSUME End(g), pc[g] = "plan", UNCHANGED <<files, record>>
      PROVE  OneByOne' /\ OnRecord' /\ \A h \in Gets : Renews(h)'
  <2>1. pc'[g] = "idle"
    BY <1>5 DEF End, Goto, TypeOK
  <2>2. Renews(g)'
    BY <2>1 DEF Renews
  <2> QED BY <1>2, <1>4, <1>5, <2>1, <2>2 DEF Running
<1>6. ASSUME NEW s \in Secrets, NEW v \in Versions, NEW fl \in Flags, Start(g, s, v, fl)
      PROVE  OneByOne' /\ OnRecord' /\ \A h \in Gets : Renews(h)'
  <2>1. \A h \in Gets : pc[h] \in Ended
    BY <1>6 DEF Start
  <2>2. pc'[g] = "load" /\ UNCHANGED <<files, record>>
    BY <1>6 DEF Start, Goto, TypeOK
  <2>3. OnRecord'
    BY <2>1, <2>2 DEF OnRecord, Ended
  <2>4. \A h \in Gets : Renews(h)'
    BY <1>1, <2>1, <2>2 DEF Renews, Others, Ended
  <2>5. OneByOne'
    BY <1>1, <2>1, <2>2 DEF OneByOne, Others, Ended, Running
  <2> QED BY <2>3, <2>4, <2>5
<1>7. CASE LoadState(g)
  <2>1. /\ pc[g] = "load" /\ pc'[g] = "plan" /\ UNCHANGED <<files, record, changed, todo>>
        /\ UNCHANGED <<secret, version>> /\ known'[g] = record
    BY <1>7 DEF LoadState, Goto, TypeOK
  <2>2. changed[g] = {} /\ todo[g] = Targets(New(g))
    BY <2>1 DEF PlanInv
  <2>3. Renews(g)'
    BY <2>1, <2>2 DEF Renews, Targets, New
  <2> QED BY <1>2, <1>4, <2>1, <2>3 DEF Running
<1>8. ASSUME NEW f \in Files, PlanTarget(g, f)
      PROVE  OneByOne' /\ OnRecord' /\ \A h \in Gets : Renews(h)'
  <2>1. /\ pc' = pc /\ pc[g] = "plan" /\ UNCHANGED <<files, record, known, secret, version>>
        /\ todo'[g] = todo[g] \ {f}
        /\ \/ Unchanged(files[f], f, New(g)) /\ changed'[g] = changed[g]
           \/ changed'[g] = changed[g] \cup {f}
        /\ seen'[g] = [seen[g] EXCEPT ![f] = files[f]]
    BY <1>8 DEF PlanTarget, TypeOK
  <2>2. New(g)' = New(g) /\ Targets(New(g))' = Targets(New(g))
    BY <2>1 DEF New, Targets
  <2>3. ASSUME NEW h \in changed'[g], NEW s \in Secrets \ {secret[g]}, NEW p \in Parts,
               seen'[g][h][p] \in {s} \X Versions
        PROVE  Recorded(record[s], h, p, seen'[g][h][p])
    <3>1. CASE h = f
      <4>1. seen'[g][h] = files[f]
        BY <2>1, <3>1 DEF TypeOK
      <4> QED BY <1>3, <2>1, <2>3, <3>1, <4>1
    <3>2. CASE h # f
      <4>1. h \in changed[g] /\ h \in Files
        BY <2>1, <2>3, <3>2 DEF TypeOK
      <4>2. seen'[g][h] = seen[g][h]
        BY <2>1, <3>2, <4>1 DEF TypeOK
      <4> QED BY <2>1, <2>3, <4>1, <4>2 DEF Renews
    <3> QED BY <3>1, <3>2
  <2>4. ASSUME NEW h \in Targets(New(g)) \ (todo'[g] \cup changed'[g]),
               NEW p \in Sections[New(g)][h], files[h][p] \in {secret[g]} \X Versions
        PROVE  files[h][p] = New(g)
    <3>1. CASE h = f
      BY <2>1, <2>4, <3>1 DEF Unchanged, New, TypeOK
    <3>2. CASE h # f
      BY <2>1, <2>4, <3>2 DEF Renews
    <3> QED BY <3>1, <3>2
  <2>5. Renews(g)'
    BY <2>1, <2>2, <2>3, <2>4 DEF Renews
  <2> QED BY <1>2, <1>4, <2>1, <2>5 DEF Running
<1>9. ASSUME NEW f \in Files, Refuse(g, f)
      PROVE  OneByOne' /\ OnRecord' /\ \A h \in Gets : Renews(h)'
  BY <1>5, <1>9 DEF Refuse
<1>10. CASE Planned(g)
  <2>1. CASE changed[g] = {}
    BY <1>5, <1>10, <2>1 DEF Planned
  <2>2. CASE changed[g] # {}
    <3>1. /\ pc[g] = "plan" /\ pc'[g] = "write"
          /\ UNCHANGED <<files, record, known, secret, version, seen, todo, changed>>
      BY <1>10, <2>2 DEF Planned, Goto, TypeOK
    <3>2. Renews(g)'
      BY <3>1 DEF Renews, New, Targets
    <3> QED BY <1>2, <1>4, <3>1, <3>2 DEF Running
  <2> QED BY <2>1, <2>2
<1>11. ASSUME NEW f \in Files, BackUp(g, f)
      PROVE  OneByOne' /\ OnRecord' /\ \A h \in Gets : Renews(h)'
  <2>1. /\ pc' = pc /\ pc[g] = "write" /\ f \in changed[g]
        /\ UNCHANGED <<record, known, secret, version, seen, todo, changed>>
        /\ files' = [files EXCEPT ![f] = Missing]
    BY <1>11 DEF BackUp, First
  <2>2. \A h \in Files : h # f => files'[h] = files[h]
    BY <2>1 DEF TypeOK
  <2>3. \A s \in Secrets, p \in Parts : files'[f][p] \notin {s} \X Versions
    BY <2>1, MissingNotOurs DEF TypeOK, Ours
  <2>4. OnRecord'
    BY <2>1, <2>2, <2>3, SectionsType DEF OnRecord
  <2>5. Targets(New(g)) \subseteq Files
    BY DEF Targets
  <2>6. Renews(g)'
    BY <2>1, <2>2, <2>5 DEF Renews, New, Targets
  <2> QED BY <1>2, <2>1, <2>4, <2>6 DEF Running
<1>12. ASSUME NEW f \in Files, Replace(g, f)
      PROVE  OneByOne' /\ OnRecord' /\ \A h \in Gets : Renews(h)'
  <2>1. /\ pc[g] = "write" /\ f \in changed[g]
        /\ UNCHANGED <<record, known, secret, version, seen, todo>>
        /\ pc'[g] \in {"write", "record"}
        /\ changed'[g] = changed[g] \ {f}
    BY <1>12 DEF Replace, First, Goto, TypeOK
  <2>2. /\ \A h \in Files : h # f => files'[h] = files[h]
        /\ files'[f] = Merged(g, f)
    BY <1>12 DEF Replace, TypeOK
  <2>3. ASSUME NEW s \in Secrets, NEW h \in Files, NEW p \in Parts,
               files'[h][p] \in {s} \X Versions, s # secret[g]
        PROVE  Recorded(record[s], h, p, files'[h][p])
    <3>1. CASE h # f
      BY <2>1, <2>2, <2>3, <3>1 DEF OnRecord, OneByOne, Running
    <3>2. CASE h = f
      <4>1. p \notin Sections[New(g)][f]
        BY <2>2, <2>3, <3>2 DEF Merged, New
      <4>2. files'[h][p] = seen[g][f][p]
        BY <2>2, <3>2, <4>1 DEF Merged
      <4> QED BY <2>1, <2>3, <3>2, <4>2 DEF Renews
    <3> QED BY <3>1, <3>2
  <2>4. OnRecord'
    BY <2>1, <2>3 DEF OnRecord
  <2>5. New(g)' = New(g) /\ Targets(New(g))' = Targets(New(g)) /\ Targets(New(g)) \subseteq Files
    BY <2>1 DEF New, Targets
  <2>6. ASSUME NEW h \in Targets(New(g)) \ (todo[g] \cup changed'[g]),
               NEW p \in Sections[New(g)][h], files'[h][p] \in {secret[g]} \X Versions
        PROVE  files'[h][p] = New(g)
    <3>1. CASE h = f
      BY <2>2, <2>6, <3>1, NewType, SectionsType DEF Merged
    <3>2. CASE h # f
      BY <2>1, <2>2, <2>5, <2>6, <3>2 DEF Renews
    <3> QED BY <3>1, <3>2
  <2>7. Renews(g)'
    BY <2>1, <2>5, <2>6 DEF Renews
  <2> QED BY <1>2, <2>1, <2>4, <2>7 DEF Running
<1>13. CASE Record(g)
  <2>1. /\ pc[g] = "record" /\ End(g) /\ UNCHANGED files
        /\ record' = [known[g] EXCEPT ![secret[g]] = Claimed(New(g))]
    BY <1>13 DEF Record
  <2>2. known[g] = record /\ todo[g] = {} /\ changed[g] = {} /\ secret[g] \in Secrets
    BY <2>1 DEF Renews, PlanInv, TypeOK
  <2>3. /\ record'[secret[g]] = Claimed(New(g))
        /\ \A s \in Secrets : s # secret[g] => record'[s] = record[s]
    BY <2>1, <2>2 DEF TypeOK, Records
  <2>4. ASSUME NEW s \in Secrets, NEW f \in Files, NEW p \in Parts,
               files[f][p] \in {s} \X Versions
        PROVE  Recorded(record'[s], f, p, files[f][p])
    <3>1. CASE s = secret[g]
      <4>1. SUFFICES ASSUME p \in Sections[New(g)][f]
                     PROVE  <<f, p, files[f][p]>> \in Claimed(New(g))
        <5>1. \A c \in Claimed(New(g)) : c[3] = New(g)
          BY DEF Claimed
        <5> QED BY <2>3, <3>1, <5>1 DEF Recorded
      <4>2. f \in Targets(New(g))
        BY <4>1 DEF Targets
      <4>3. files[f][p] = New(g)
        BY <2>1, <2>2, <2>4, <3>1, <4>1, <4>2 DEF Renews
      <4>4. <<f, p>> \in Places(New(g))
        BY <4>1 DEF Places
      <4> QED BY <4>3, <4>4 DEF Claimed
    <3>2. CASE s # secret[g]
      BY <2>1, <2>3, <2>4, <3>2 DEF OnRecord, OneByOne, Running
    <3> QED BY <3>1, <3>2
  <2>5. pc'[g] = "idle"
    BY <2>1 DEF End, Goto, TypeOK
  <2>6. OnRecord' /\ Renews(g)'
    BY <2>1, <2>4, <2>5 DEF OnRecord, Renews
  <2> QED BY <1>2, <2>1, <2>5, <2>6 DEF Running
<1>14. ~Stop(g)
  BY DEF Stop
<1> QED BY <1>6, <1>7, <1>8, <1>9, <1>10, <1>11, <1>12, <1>13, <1>14 DEF Get

LEMMA CleanStep == Inv /\ CleanInv /\ [Next]_vars => CleanInv'
<1> SUFFICES ASSUME Inv, CleanInv, [Next]_vars, clean' PROVE CleanInv'
  BY DEF CleanInv
<1> USE DEF session, disk, history
<1>1. clean
  <2>1. clean \in BOOLEAN
    BY DEF Inv, TypeOK
  <2>2. ASSUME NEW g \in Gets, Get(g) PROVE clean
    <3>1. ASSUME NEW s \in Secrets, NEW v \in Versions, NEW fl \in Flags, Start(g, s, v, fl)
          PROVE  clean
      BY <2>1, <3>1 DEF Start
    <3>2. ASSUME NEW f \in Files, PlanTarget(g, f) \/ Refuse(g, f) \/ BackUp(g, f) \/ Replace(g, f)
          PROVE  clean
      BY <3>2 DEF PlanTarget, Refuse, BackUp, Replace
    <3>3. CASE LoadState(g) \/ Planned(g) \/ Record(g) \/ Stop(g)
      BY <3>3 DEF LoadState, Planned, Record, Stop
    <3> QED BY <2>2, <3>1, <3>2, <3>3 DEF Get
  <2>3. ASSUME NEW f \in Files, NEW p \in Parts, NEW text \in Theirs \cup {None}, Edit(f, p, text)
        PROVE  clean
    BY <2>3 DEF Edit
  <2> QED BY <2>2, <2>3 DEF Next, Tick, vars
<1>2. OneByOne /\ OnRecord /\ \A h \in Gets : Renews(h)
  BY <1>1 DEF CleanInv
<1>3. ASSUME NEW g \in Gets, Get(g) PROVE CleanInv'
  BY <1>1, <1>2, <1>3, CleanGet DEF CleanInv
<1>4. ASSUME NEW f \in Files, NEW p \in Parts, NEW text \in Theirs \cup {None}, Edit(f, p, text)
      PROVE  CleanInv'
  <2>1. UNCHANGED <<record, pc, secret, version, known, seen, todo, changed>>
    BY <1>4 DEF Edit
  <2>2. \A h \in Files, x \in Parts : files'[h][x] = files[h][x] \/ files'[h][x] \notin Ours
    BY <1>4, ContentAssumption DEF Edit, Inv, TypeOK, Texts
  <2>3. \A s \in Secrets, h \in Files, x \in Parts :
            files'[h][x] \in {s} \X Versions => files'[h][x] = files[h][x]
    BY <2>2 DEF Ours
  <2>4. OneByOne' /\ OnRecord'
    BY <1>2, <2>1, <2>3, SectionsType DEF OneByOne, OnRecord
  <2>5. \A h \in Gets : secret[h] \in Secrets /\ Targets(New(h)) \subseteq Files
    BY DEF Inv, TypeOK, Targets
  <2>6. \A h \in Gets : Renews(h)'
    <3> SUFFICES ASSUME NEW h \in Gets PROVE Renews(h)'
      OBVIOUS
    <3>1. New(h)' = New(h) /\ Targets(New(h))' = Targets(New(h))
      BY <2>1 DEF New, Targets
    <3>2. \A i \in Targets(New(h)) : \A x \in Sections[New(h)][i] :
              i \in Files /\ x \in Parts
      BY <2>5, NewType, SectionsType DEF Inv
    <3> QED BY <1>2, <2>1, <2>3, <2>5, <3>1, <3>2 DEF Renews
  <2> QED BY <2>4, <2>6 DEF CleanInv
<1>5. CASE UNCHANGED <<files, record, pc, secret, version, known, seen, todo, changed>>
  BY <1>2, <1>5 DEF CleanInv, OneByOne, OnRecord, Renews, Targets, New
<1> QED BY <1>3, <1>4, <1>5 DEF Next, Tick, vars

\* As long as the gets come one after the other and none stops half way, what a
\* secret put where its version on record puts something is on record while it is
\* there, so that a rotation which adds no section needs no flag (ADR 0003:22).
THEOREM RotationCorrect == Spec => []RotationNeedsNoFlags
<1>1. Inv /\ CleanInv => RotationNeedsNoFlags
  BY DEF CleanInv, OnRecord, Recorded, RotationNeedsNoFlags, Ended
<1> QED BY <1>1, InitInv, InitClean, Inductive, CleanStep, PTL DEF Spec

-----------------------------------------------------------------------------
(* A get may be repeated *)

\* As long as nothing but g has happened since g started: it carries the record as it
\* is, and what it has planned it will not write, will move away, or may replace.
InOrder(g) ==
    \A f \in Targets(New(g)) \ (todo[g] \cup tobackup[g]) :
        ~Conflict(files[f], f, New(g), record[secret[g]])

AloneInv(g) ==
    alone[g] =>
        /\ pc[g] # "idle"
        /\ \A h \in Gets \ {g} : pc[h] \in Ended
        /\ pc[g] \in {"plan", "write", "record"} => known[g] = record
        /\ flag[g] # "force" => InOrder(g)

LEMMA InitAlone == Init => \A g \in Gets : AloneInv(g)
  BY DEF Init, AloneInv

\* What a step of get g does for g.
LEMMA AloneOwn ==
    ASSUME TypeOK, NEW g \in Gets, AloneInv(g), Get(g), alone'[g] PROVE AloneInv(g)'
<1> USE DEF session, disk, history
<1>1. ASSUME NEW s \in Secrets, NEW v \in Versions, NEW fl \in Flags, Start(g, s, v, fl)
      PROVE  AloneInv(g)'
  <2>1. /\ \A h \in Gets : pc[h] \in Ended
        /\ pc'[g] = "load" /\ \A h \in Gets \ {g} : pc'[h] = pc[h]
        /\ secret'[g] = s /\ version'[g] = v /\ todo'[g] = Targets(<<s, v>>)
    BY <1>1 DEF Start, Goto, TypeOK
  <2>2. InOrder(g)'
    BY <2>1 DEF InOrder, Targets, New
  <2> QED BY <2>1, <2>2 DEF AloneInv
<1>2. ASSUME UNCHANGED <<files, record, secret, version, flag, todo, tobackup, alone>>,
             pc'[g] # "idle", \A h \in Gets \ {g} : pc'[h] = pc[h],
             pc'[g] \in {"plan", "write", "record"} => known'[g] = record
      PROVE  AloneInv(g)'
  BY <1>2 DEF AloneInv, InOrder, Targets, New
<1>3. CASE LoadState(g)
  <2>1. /\ pc'[g] = "plan" /\ \A h \in Gets \ {g} : pc'[h] = pc[h]
        /\ known'[g] = record
        /\ UNCHANGED <<files, record, secret, version, flag, todo, tobackup, alone>>
    BY <1>3 DEF LoadState, Goto, TypeOK
  <2> QED BY <1>2, <2>1
<1>4. CASE Stop(g)
  <2>1. /\ pc'[g] = "stopped" /\ \A h \in Gets \ {g} : pc'[h] = pc[h]
        /\ UNCHANGED <<files, record, secret, version, flag, todo, tobackup, alone>>
    BY <1>4 DEF Stop, Goto, TypeOK
  <2> QED BY <1>2, <2>1
<1>5. ASSUME End(g) PROVE AloneInv(g)'
  BY <1>5 DEF End, TypeOK
<1>6. CASE Planned(g)
  <2>1. CASE changed[g] = {}
    BY <1>5, <1>6, <2>1 DEF Planned
  <2>2. CASE changed[g] # {}
    <3>1. /\ pc[g] = "plan" /\ pc'[g] = "write" /\ \A h \in Gets \ {g} : pc'[h] = pc[h]
          /\ UNCHANGED <<files, record, secret, version, flag, known, todo, tobackup, alone>>
      BY <1>6, <2>2 DEF Planned, Goto, TypeOK
    <3> QED BY <1>2, <3>1 DEF AloneInv
  <2> QED BY <2>1, <2>2
<1>7. ASSUME NEW f \in Files, Refuse(g, f) PROVE AloneInv(g)'
  BY <1>5, <1>7 DEF Refuse
<1>8. CASE Record(g)
  BY <1>5, <1>8 DEF Record
<1>9. ASSUME NEW f \in Files, PlanTarget(g, f) PROVE AloneInv(g)'
  <2>1. /\ pc[g] = "plan" /\ f \in todo[g]
        /\ Conflict(files[f], f, New(g), known[g][secret[g]]) => flag[g] # "none"
        /\ todo'[g] = todo[g] \ {f}
        /\ tobackup'[g] = IF /\ Conflict(files[f], f, New(g), known[g][secret[g]])
                             /\ flag[g] = "backup"
                            THEN tobackup[g] \cup {f} ELSE tobackup[g]
        /\ UNCHANGED <<files, record, pc, secret, version, flag, known, alone>>
    BY <1>9 DEF PlanTarget, First, TypeOK
  <2>2. flag[g] \in {"none", "force", "backup"}
    BY SectionsAssumption DEF TypeOK
  <2>3. known[g] = record
    BY <2>1 DEF AloneInv
  <2>4. ASSUME flag[g] # "force" PROVE InOrder(g)'
    <3>1. SUFFICES ASSUME NEW h \in Targets(New(g)) \ (todo'[g] \cup tobackup'[g])
                   PROVE  ~Conflict(files[h], h, New(g), record[secret[g]])
      BY <2>1 DEF InOrder, Targets, New
    <3>2. CASE h = f
      BY <2>1, <2>2, <2>3, <2>4, <3>1, <3>2
    <3>3. CASE h # f
      BY <2>1, <2>4, <3>1, <3>3 DEF AloneInv, InOrder
    <3> QED BY <3>2, <3>3
  <2> QED BY <2>1, <2>3, <2>4 DEF AloneInv
<1>10. ASSUME NEW f \in Files, NEW text \in Texts,
              files' = [files EXCEPT ![f] = text],
              \A p \in Sections[New(g)][f] : text[p] \in {None, New(g)},
              UNCHANGED <<record, secret, version, flag, known, todo, alone>>,
              tobackup'[g] \in {tobackup[g], tobackup[g] \ {f}},
              pc[g] = "write", pc'[g] # "idle", \A h \in Gets \ {g} : pc'[h] = pc[h]
       PROVE  AloneInv(g)'
  <2>1. ASSUME flag[g] # "force" PROVE InOrder(g)'
    <3>1. SUFFICES ASSUME NEW h \in Targets(New(g)) \ (todo[g] \cup tobackup'[g])
                   PROVE  ~Conflict(files'[h], h, New(g), record[secret[g]])
      BY <1>10 DEF InOrder, Targets, New
    <3>2. CASE h = f
      <4>1. files'[h] = text
        BY <1>10, <3>2 DEF TypeOK
      <4> QED BY <1>10, <3>2, <4>1 DEF Conflict, New
    <3>3. CASE h # f
      <4>1. files'[h] = files[h]
        BY <1>10, <3>3, <3>1 DEF TypeOK, Targets
      <4> QED BY <1>10, <2>1, <3>1, <3>3, <4>1 DEF AloneInv, InOrder
    <3> QED BY <3>2, <3>3
  <2> QED BY <1>10, <2>1 DEF AloneInv
<1>11. ASSUME NEW f \in Files, BackUp(g, f) PROVE AloneInv(g)'
  <2>1. \A p \in Sections[New(g)][f] : Missing[p] \in {None, New(g)}
    BY NewType, SectionsType DEF Missing
  <2> QED BY <1>10, <1>11, <2>1, NothingType DEF BackUp, TypeOK
<1>12. ASSUME NEW f \in Files, Replace(g, f) PROVE AloneInv(g)'
  <2>1. \A p \in Sections[New(g)][f] : Merged(g, f)[p] \in {None, New(g)}
    BY NewType, SectionsType DEF Merged
  <2>2. /\ pc[g] = "write" /\ pc'[g] # "idle" /\ \A h \in Gets \ {g} : pc'[h] = pc[h]
        /\ files' = [files EXCEPT ![f] = Merged(g, f)]
        /\ UNCHANGED <<record, secret, version, flag, known, todo, tobackup, alone>>
    BY <1>12 DEF Replace, Goto, TypeOK
  <2> QED BY <1>10, <2>1, <2>2, MergedType
<1> QED BY <1>1, <1>3, <1>4, <1>6, <1>7, <1>8, <1>9, <1>11, <1>12 DEF Get

\* While g is alone, another get can do nothing but start, and g is alone no more.
LEMMA AloneOther ==
    ASSUME TypeOK, NEW g \in Gets, AloneInv(g), NEW h \in Gets \ {g}, Get(h), alone'[g]
    PROVE  FALSE
<1> USE DEF session, disk, history
<1>1. ASSUME NEW s \in Secrets, NEW v \in Versions, NEW fl \in Flags, Start(h, s, v, fl)
      PROVE  FALSE
  BY <1>1 DEF Start, TypeOK
<1>2. pc[h] \in {"load", "plan", "write", "record"} => pc[h] \notin Ended
  BY DEF Ended
<1>3. pc[h] \in {"load", "plan", "write", "record"} => alone'[g] = alone[g]
  <2>1. ASSUME pc[h] \in {"load", "plan", "write", "record"}, alone'[g] # alone[g] PROVE FALSE
    BY <1>1, <2>1 DEF Get, LoadState, Planned, Record, Stop, PlanTarget, Refuse, BackUp, Replace, End,
                      TypeOK
  <2> QED BY <2>1
<1>4. pc[h] \in {"load", "plan", "write", "record"}
  BY <1>1 DEF Get, LoadState, Planned, Record, Stop, PlanTarget, Refuse, BackUp, Replace, Running
<1> QED BY <1>2, <1>3, <1>4 DEF AloneInv

LEMMA AloneStep ==
    Inv /\ (\A g \in Gets : AloneInv(g)) /\ [Next]_vars => (\A g \in Gets : AloneInv(g))'
<1> SUFFICES ASSUME Inv, [Next]_vars, NEW g \in Gets, AloneInv(g), alone'[g] PROVE AloneInv(g)'
  BY DEF AloneInv
<1> USE DEF session, disk, history
<1>1. ASSUME NEW h \in Gets, Get(h) PROVE AloneInv(g)'
  BY <1>1, AloneOwn, AloneOther DEF Inv
<1>2. ASSUME NEW f \in Files, NEW p \in Parts, NEW text \in Theirs \cup {None}, Edit(f, p, text)
      PROVE  AloneInv(g)'
  BY <1>2 DEF Edit
<1>3. CASE UNCHANGED <<disk, session>>
  BY <1>3 DEF AloneInv, InOrder, Targets, New
<1> QED BY <1>1, <1>2, <1>3 DEF Next, Tick, vars

\* A get that stopped after it had decided, with nothing else going on, may be run
\* again as it was.
THEOREM RetryCorrect == Spec => []RetryIsAccepted
<1>1. (\A g \in Gets : AloneInv(g)) => RetryIsAccepted
  <2>1. ASSUME NEW g \in Gets, AloneInv(g), alone[g], flag[g] # "force", todo[g] = {},
               NEW f \in Files \ tobackup[g]
        PROVE  ~Conflict(files[f], f, New(g), record[secret[g]])
    <3>1. CASE f \in Targets(New(g))
      BY <2>1, <3>1 DEF AloneInv, InOrder
    <3>2. CASE f \notin Targets(New(g))
      BY <2>1, <3>2 DEF Targets, Conflict, New
    <3> QED BY <3>1, <3>2
  <2> QED BY <2>1 DEF RetryIsAccepted
<1> QED BY <1>1, InitInv, InitAlone, Inductive, AloneStep, PTL DEF Spec
=============================================================================

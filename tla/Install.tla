------------------------------- MODULE Install -------------------------------
(***************************************************************************)
(* What `kauket get` leaves on a client: files installed from secrets, and *)
(* AWS profiles merged section by section into ~/.aws/config and           *)
(* ~/.aws/credentials (internal/install).  installed.json remembers what   *)
(* was put where, and is what tells kauket's own content, which may be     *)
(* replaced, from the user's, which may not.  Nothing is locked: several   *)
(* gets and the user's editor run at the same time, and a get may die at   *)
(* any step.                                                               *)
(*                                                                         *)
(* A file secret fills the only part of its file; a profile fills some     *)
(* sections of two files (what Merge does to their text is in AwsMerge).   *)
(* Which they are is up to each version: adding a secret again may drop a  *)
(* section or name another file.  Content is abstracted to where it comes  *)
(* from: a version of a secret, or the user.  A file none of whose parts   *)
(* is there is missing.                                                    *)
(***************************************************************************)
EXTENDS Naturals, FiniteSets

CONSTANTS Gets,         \* processes that run `kauket get`
          Secrets,
          Files,        \* destinations
          Parts,        \* sections; a plain file has one
          Sections,     \* the parts of a file that a version of a secret fills
          Merging,      \* files into whose text sections are merged
          Rank,         \* the order in which the files of a secret are handled
          Theirs,       \* contents a user writes
          Before,       \* the files a user may have had before
          None,         \* no such section, no such file
          Flags,        \* "none", "force", "backup"
          MaxVersion, MaxStarts, MaxEdits, MaxClock  \* bounds

ASSUME SectionsAssumption ==
    /\ Sections \in [Secrets \X (1..MaxVersion) -> [Files -> SUBSET Parts]]
    /\ Merging \subseteq Files
    /\ Rank \in [Files -> Nat]
    /\ Secrets # {}
    /\ Flags \subseteq {"none", "force", "backup"}

ASSUME BoundsAssumption ==
    MaxVersion \in Nat \ {0} /\ MaxStarts \in Nat /\ MaxEdits \in Nat /\ MaxClock \in Nat

Versions == 1..MaxVersion
Ours == Secrets \X Versions

ASSUME ContentAssumption ==
    /\ Theirs \cap Ours = {}
    /\ None \notin Theirs \cup Ours
    /\ Before \subseteq [Files -> [Parts -> Theirs \cup {None}]]

Contents == Theirs \cup Ours \cup {None}
Texts == [Parts -> Contents]
Claims == Files \X Parts \X Ours

VARIABLES
    files,     \* the destinations
    backups,   \* FILE.kauket-bak-STAMP, by the second it was made in
    record,    \* installed.json: what each secret put where
    clock,     \* the current second
    pc, secret, version, flag,  \* what each get is doing
    known,     \* the installed.json it loaded
    seen,      \* the files as it planned the change
    todo,      \* the files it has not planned yet
    changed,   \* the files it still has to replace
    tobackup,  \* those it moves away first
    alone,     \* history: nothing else happened since a get started
    starts, edits,  \* counters behind the bounds
    held,      \* history: what kauket's contents each part ever held
    clean      \* history: every get was alone, and none stopped half way

disk == <<files, backups, record>>
session == <<pc, secret, version, flag, known, seen, todo, changed, tobackup, alone>>
history == <<held, clean>>
vars == <<disk, clock, session, starts, edits, history>>

Missing == [p \in Parts |-> None]
Nothing == [f \in Files |-> Missing]
AnySecret == CHOOSE s \in Secrets : TRUE
Records == [Secrets -> SUBSET Claims]
Running == {"load", "plan", "write", "record"}
Ended == {"idle", "stopped"}

TypeOK ==
    /\ files \in [Files -> Texts]
    /\ backups \in [Files -> [0..MaxClock -> Texts]]
    /\ record \in Records
    /\ clock \in 0..MaxClock
    /\ pc \in [Gets -> Running \cup Ended]
    /\ secret \in [Gets -> Secrets]
    /\ version \in [Gets -> Versions]
    /\ flag \in [Gets -> {"none"} \cup Flags]
    /\ known \in [Gets -> Records]
    /\ seen \in [Gets -> [Files -> Texts]]
    /\ todo \in [Gets -> SUBSET Files]
    /\ changed \in [Gets -> SUBSET Files]
    /\ tobackup \in [Gets -> SUBSET Files]
    /\ starts \in 0..MaxStarts
    /\ edits \in 0..MaxEdits
    /\ held \subseteq Claims
    /\ alone \in [Gets -> BOOLEAN]
    /\ clean \in BOOLEAN

Init ==
    /\ files \in Before
    /\ backups = [f \in Files |-> [t \in 0..MaxClock |-> Missing]]
    /\ record = [s \in Secrets |-> {}]
    /\ clock = 0
    /\ pc = [g \in Gets |-> "idle"]
    /\ secret = [g \in Gets |-> AnySecret]
    /\ version = [g \in Gets |-> 1]
    /\ flag = [g \in Gets |-> "none"]
    /\ known = [g \in Gets |-> record]
    /\ seen = [g \in Gets |-> Nothing]
    /\ todo = [g \in Gets |-> {}]
    /\ changed = [g \in Gets |-> {}]
    /\ tobackup = [g \in Gets |-> {}]
    /\ starts = 0
    /\ edits = 0
    /\ held = {}
    /\ alone = [g \in Gets |-> FALSE]
    /\ clean = TRUE

\* What a get installs, where it does, and what a file then holds.
New(g) == <<secret[g], version[g]>>
Targets(new) == {f \in Files : Sections[new][f] # {}}
Merged(g, f) ==
    [p \in Parts |-> IF p \in Sections[New(g)][f] THEN New(g) ELSE seen[g][f][p]]

\* Mutant: any entry of the secret makes its file its own.
ConflictUnlessEntry(text, f, new, claims) ==
    \E p \in Sections[new][f] : text[p] \notin {None, new} /\ claims = {}

\* Mutant: what any secret has put there is kauket's own.
ConflictUnlessOurs(text, f, new, claims) ==
    \E p \in Sections[new][f] : text[p] \notin {None} \cup Ours

\* A part of a file is in the way if it differs, and is not what the record
\* says the secret itself put there.
Conflict(text, f, new, claims) ==
    \E p \in Sections[new][f] :
        /\ text[p] \notin {None, new}
        /\ <<f, p, text[p]>> \notin claims

Unchanged(text, f, new) == \A p \in Sections[new][f] : text[p] = new

First(f, S) == f \in S /\ \A h \in S : Rank[f] <= Rank[h]

Goto(g, step) == pc' = [pc EXCEPT ![g] = step]

\* A get ends, and its memory goes with it.
End(g) ==
    /\ Goto(g, "idle")
    /\ secret' = [secret EXCEPT ![g] = AnySecret]
    /\ version' = [version EXCEPT ![g] = 1]
    /\ flag' = [flag EXCEPT ![g] = "none"]
    /\ known' = [known EXCEPT ![g] = [s \in Secrets |-> {}]]
    /\ seen' = [seen EXCEPT ![g] = Nothing]
    /\ todo' = [todo EXCEPT ![g] = {}]
    /\ changed' = [changed EXCEPT ![g] = {}]
    /\ tobackup' = [tobackup EXCEPT ![g] = {}]
    /\ alone' = [alone EXCEPT ![g] = FALSE]

-----------------------------------------------------------------------------
(* One get *)

\* The secret has been fetched and decrypted, in the version of the store or of
\* the older copy of a client that is offline; destination and mode are
\* acceptable (the checks InstallFile starts with).
Start(g, s, v, fl) ==
    /\ pc[g] \in Ended
    /\ starts < MaxStarts
    /\ starts' = starts + 1
    /\ Goto(g, "load")
    /\ secret' = [secret EXCEPT ![g] = s]
    /\ version' = [version EXCEPT ![g] = v]
    /\ flag' = [flag EXCEPT ![g] = fl]
    /\ todo' = [todo EXCEPT ![g] = Targets(<<s, v>>)]
    /\ changed' = [changed EXCEPT ![g] = {}]
    /\ tobackup' = [tobackup EXCEPT ![g] = {}]
    /\ LET nobody == \A h \in Gets : pc[h] \in Ended IN
       /\ alone' = [h \in Gets |-> h = g /\ nobody]
       /\ clean' = (clean /\ nobody)
    /\ UNCHANGED <<disk, clock, known, seen, edits, held>>

\* installed.json is read once, before any destination is looked at.
LoadState(g) ==
    /\ pc[g] = "load"
    /\ known' = [known EXCEPT ![g] = record]
    /\ Goto(g, "plan")
    /\ UNCHANGED <<disk, clock, secret, version, flag, seen, todo, changed, tobackup,
                   alone, starts, edits, history>>

\* All files are read and decided on before the first is replaced, so that a
\* conflict in one leaves all of them as they are.  What is up to date is not
\* written, unless the merge lays its text out in another way.
PlanTarget(g, f) ==
    LET text == files[f]
        conflict == Conflict(text, f, New(g), known[g][secret[g]])
    IN
    /\ pc[g] = "plan"
    /\ First(f, todo[g])
    /\ conflict => flag[g] # "none"
    /\ seen' = [seen EXCEPT ![g][f] = text]
    /\ todo' = [todo EXCEPT ![g] = @ \ {f}]
    /\ \/ Unchanged(text, f, New(g)) /\ UNCHANGED changed
       \/ /\ ~Unchanged(text, f, New(g)) \/ f \in Merging
          /\ changed' = [changed EXCEPT ![g] = @ \cup {f}]
    /\ tobackup' = [tobackup EXCEPT ![g] =
                        IF conflict /\ flag[g] = "backup" THEN @ \cup {f} ELSE @]
    /\ UNCHANGED <<disk, clock, pc, secret, version, flag, known, alone, starts, edits, history>>

\* Without a flag, a get does not touch what is not its own.
Refuse(g, f) ==
    /\ pc[g] = "plan"
    /\ First(f, todo[g])
    /\ Conflict(files[f], f, New(g), known[g][secret[g]])
    /\ flag[g] = "none"
    /\ End(g)
    /\ UNCHANGED <<disk, clock, starts, edits, history>>

\* When every file is up to date, nothing is recorded.
Planned(g) ==
    /\ pc[g] = "plan"
    /\ todo[g] = {}
    /\ IF changed[g] = {}
         THEN End(g)
         ELSE /\ Goto(g, "write")
              /\ UNCHANGED <<secret, version, flag, known, seen, todo, changed, tobackup, alone>>
    /\ UNCHANGED <<disk, clock, starts, edits, history>>

\* The user's file is renamed to a name with the current second in it, over a
\* backup made in the same second.  A file that has gone cannot be renamed.
BackUp(g, f) ==
    /\ pc[g] = "write"
    /\ First(f, changed[g])
    /\ f \in tobackup[g]
    /\ files[f] # Missing
    /\ backups' = [backups EXCEPT ![f][clock] = files[f]]
    /\ files' = [files EXCEPT ![f] = Missing]
    /\ tobackup' = [tobackup EXCEPT ![g] = @ \ {f}]
    /\ UNCHANGED <<record, clock, pc, secret, version, flag, known, seen, todo,
                   changed, alone, starts, edits, history>>

Places(new) == {x \in Files \X Parts : x[2] \in Sections[new][x[1]]}
Claimed(new) == {<<x[1], x[2], new>> : x \in Places(new)}

\* The file as it was planned, with the new sections in it, is renamed over
\* whatever the file is now.
Replace(g, f) ==
    /\ pc[g] = "write"
    /\ First(f, changed[g])
    /\ f \notin tobackup[g]
    /\ files' = [files EXCEPT ![f] = Merged(g, f)]
    /\ changed' = [changed EXCEPT ![g] = @ \ {f}]
    /\ held' = held \cup {<<f, p, New(g)>> : p \in Sections[New(g)][f]}
    /\ Goto(g, IF changed[g] = {f} THEN "record" ELSE "write")
    /\ UNCHANGED <<backups, record, clock, secret, version, flag, known, seen, todo,
                   tobackup, starts, alone, edits, clean>>

\* Mutant: the record is written before the files are.
RecordFirst(g) ==
    /\ pc[g] = "write"
    /\ record' = [known[g] EXCEPT ![secret[g]] = Claimed(New(g))]
    /\ UNCHANGED <<files, backups, clock, session, starts, edits, history>>

\* Mutant: what the get read is recorded, not what it wrote.
RecordSeen(g) ==
    /\ pc[g] = "record"
    /\ record' = [known[g] EXCEPT ![secret[g]] =
                      {<<x[1], x[2], seen[g][x[1]][x[2]]>> : x \in Places(New(g))}]
    /\ End(g)
    /\ UNCHANGED <<files, backups, clock, starts, edits, history>>

\* Mutant: the sections of each file take the place of those before.
RecordLast(g) ==
    /\ pc[g] = "record"
    /\ record' = [known[g] EXCEPT ![secret[g]] =
                      {c \in Claimed(New(g)) :
                          \A f \in Targets(New(g)) : Rank[f] <= Rank[c[1]]}]
    /\ End(g)
    /\ UNCHANGED <<files, backups, clock, starts, edits, history>>

\* The whole installed.json is written back as it was loaded, with the entry
\* of this secret replaced: a section that only an older version filled is
\* forgotten, though it stays in its file.
Record(g) ==
    /\ pc[g] = "record"
    /\ record' = [known[g] EXCEPT ![secret[g]] = Claimed(New(g))]
    /\ End(g)
    /\ UNCHANGED <<files, backups, clock, starts, edits, history>>

\* It dies, or a write fails.
Stop(g) ==
    /\ pc[g] \in Running
    /\ Goto(g, "stopped")
    /\ clean' = FALSE
    /\ UNCHANGED <<disk, clock, secret, version, flag, known, seen, todo, changed,
                   tobackup, alone, starts, edits, held>>

-----------------------------------------------------------------------------
(* What happens around it *)

\* The user writes or deletes one part of a file.
Edit(f, p, text) ==
    /\ edits < MaxEdits
    /\ edits' = edits + 1
    /\ files[f][p] # text
    /\ files' = [files EXCEPT ![f][p] = text]
    /\ alone' = [g \in Gets |-> FALSE]
    /\ UNCHANGED <<backups, record, clock, pc, secret, version, flag, known, seen, todo, changed,
                   tobackup, starts, history>>

Tick ==
    /\ clock < MaxClock
    /\ clock' = clock + 1
    /\ UNCHANGED <<disk, session, starts, edits, history>>

Get(g) ==
    \/ LoadState(g) \/ Planned(g) \/ Record(g) \/ Stop(g)
    \/ \E s \in Secrets, v \in Versions, fl \in Flags : Start(g, s, v, fl)
    \/ \E f \in Files : PlanTarget(g, f) \/ Refuse(g, f) \/ BackUp(g, f) \/ Replace(g, f)

Next ==
    \/ \E g \in Gets : Get(g)
    \/ \E f \in Files, p \in Parts, text \in Theirs \cup {None} : Edit(f, p, text)
    \/ Tick

Spec == Init /\ [][Next]_vars

-----------------------------------------------------------------------------
(* Properties *)

\* What the user wrote is somewhere: in its file, or in a backup of it.
Kept(f, p, text) == files[f][p] = text \/ \E t \in 0..MaxClock : backups[f][t][p] = text

\* Why a step of get g takes the user's text away from where it was: get was
\* told to, with --force; the text came after get had looked at the file or
\* moved it away; or get makes a backup in the second of an earlier one.
Told(g, f, p) == flag[g] = "force" /\ p \in Sections[New(g)][f]
Moved(g, f) ==
    /\ flag[g] = "backup" /\ f \notin tobackup[g]
    /\ Conflict(seen[g][f], f, New(g), known[g][secret[g]])
CameLater(g, f, p, text) == seen[g][f][p] # text \/ Moved(g, f)
SameSecond(f) == backups[f][clock] # Missing

\* What a user wrote is never lost otherwise, whoever else gets, rotates or
\* edits at the same time and wherever a get stops: "Existing unmanaged files
\* are not overwritten silently" (acceptance-v1.0.md:20, file.go:193-219,
\* awsprofile.go:207-230).
UserContentKept ==
    [][\A f \in Files, p \in Parts, text \in Theirs :
           Kept(f, p, text) /\ ~Kept(f, p, text)' =>
               \/ edits' # edits
               \/ \E g \in Gets :
                     /\ pc[g] = "write" /\ f \in changed[g]
                     /\ \/ f \notin tobackup[g] /\ (Told(g, f, p) \/ CameLater(g, f, p, text))
                        \/ f \in tobackup[g] /\ SameSecond(f)]_vars

\* What another secret has put into a shared file stays there, unless a get with
\* a flag replaces it or moves it away, or merged into an older file than it
\* replaces: nothing else tells apart, and protects, the sections of the profiles
\* of one file (awsprofile.go:93-121).
OthersKept ==
    [][\A f \in Files, p \in Parts, text \in Ours :
           files[f][p] = text /\ files'[f][p] # text =>
               \/ edits' # edits
               \/ \E g \in Gets :
                     /\ pc[g] = "write" /\ f \in changed[g]
                     /\ \/ text[1] = secret[g]
                        \/ p \in Sections[New(g)][f] /\ flag[g] # "none"
                        \/ f \in tobackup[g]
                        \/ CameLater(g, f, p, text)]_vars

\* What installed.json says kauket put somewhere has been there, in every copy
\* of it a get carries, whichever copy overwrites which: it never makes the
\* user's content look like kauket's (state.go:62-108).
RecordsAreTrue ==
    \A s \in Secrets :
        record[s] \subseteq held /\ \A g \in Gets : known[g][s] \subseteq held

\* As long as the gets come one after the other and none stops half way, what a
\* secret put where the version on record puts something is on record for as long
\* as it is there: "Rotation via re-`add --force` + re-`get` needs no flags on the
\* client" (ADR 0003:22), unless it brings back a section that a version between
\* had dropped.
RotationNeedsNoFlags ==
    clean /\ (\A g \in Gets : pc[g] \in Ended) =>
        \A s \in Secrets : \A c \in record[s] : \A f \in Files, p \in Parts :
            p \in Sections[c[3]][f] /\ files[f][p] \in {s} \X Versions
            => <<f, p, files[f][p]>> \in record[s]

\* A get that stopped after it had decided, with nothing else going on, may be
\* run again as it was: what it already wrote, backed up or recorded does not
\* make it refuse the rest.
RetryIsAccepted ==
    \A g \in Gets :
        /\ pc[g] = "stopped" /\ alone[g] /\ flag[g] # "force" /\ todo[g] = {}
        => \A f \in Files \ tobackup[g] :
               ~Conflict(files[f], f, New(g), record[secret[g]])
=============================================================================

------------------------------ MODULE AwsMerge ------------------------------
(***************************************************************************)
(* AWS profiles, from one machine's ~/.aws/config to another's             *)
(* (internal/awsconfig).  `kauket add --aws-profile` captures a profile    *)
(* section, with the sso-session section it names, into a secret; `kauket  *)
(* get` merges the sections of the secret into the file of the client.     *)
(* The file is the user's: what is not of the profile stays, in its order, *)
(* and installing twice changes nothing the second time.                   *)
(*                                                                         *)
(* A text is a sequence of lines; only its last line may lack a newline.   *)
(* A line is a header, which spells the key of its section in one of       *)
(* several ways, a blank of one of two kinds, or a word of the user.  The  *)
(* credentials file is handled in the same way, with other spellings and   *)
(* without sessions.                                                       *)
(***************************************************************************)
EXTENDS Naturals, SequencesExt

CONSTANTS Headers, Words,
          Empty, Spaces,    \* no characters, only whitespace
          Keys, Key,        \* the key each header spells
          Session,          \* the section a word names as sso_session, or None
          Denied,           \* words that set a denied directive
          Profiles,         \* keys that are profiles
          Sources,          \* files a profile is captured from
          Targets,          \* files a profile is installed into
          None

ASSUME FilesAssumption ==
    /\ Key \in [Headers -> Keys]
    /\ Session \in [Words -> (Keys \ Profiles) \cup {None}]
    /\ Denied \subseteq Words
    /\ Profiles \subseteq Keys
    /\ Headers \cap (Words \cup {Empty, Spaces}) = {}
    /\ Words \cap {Empty, Spaces} = {}
    /\ Empty # Spaces
    /\ None \notin Keys

VARIABLE file    \* the client's ~/.aws/config

Lines == [body : Headers \cup Words \cup {Spaces}, nl : BOOLEAN]
             \cup {[body |-> Empty, nl |-> TRUE]}
IsText(t) ==
    /\ t \in Seq(Lines)
    /\ \A i \in DOMAIN t : i < Len(t) => t[i].nl

ASSUME TextsAssumption == \A t \in Sources \cup Targets : IsText(t)

\* No two lines of the file ever run into each other.
TypeOK == IsText(file)

Init == file \in Targets

-----------------------------------------------------------------------------
(* Files and sections *)

EmptyLine == [body |-> Empty, nl |-> TRUE]
Blank(line) == line.body \in {Empty, Spaces}
EndsLine(t) == t = <<>> \/ Last(t).nl

\* t + "\n": it ends the last line, or is a line of its own.
Newline(t) ==
    IF EndsLine(t) THEN Append(t, EmptyLine) ELSE [t EXCEPT ![Len(t)].nl = TRUE]

Ended(t) == IF EndsLine(t) THEN t ELSE Newline(t)

\* The text up to its last line that is not blank, with a newline at its end.
NormalizeSection(raw) ==
    LET n == Max({0} \cup {i \in DOMAIN raw : ~Blank(raw[i])})
    IN Ended(SubSeq(raw, 1, n))

IsHeader(line) == line.body \in Headers

\* The blocks of a text are the lines before its first header, and each header
\* with the lines up to the next one.
AddLine(blocks, line) ==
    IF IsHeader(line)
      THEN Append(blocks, <<line>>)
      ELSE [blocks EXCEPT ![Len(blocks)] = Append(@, line)]

Blocks(t) ==
    LET upTo[n \in 0..Len(t)] ==
            IF n = 0 THEN << <<>> >> ELSE AddLine(upTo[n - 1], t[n])
    IN upTo[Len(t)]

\* A section is its lines; its header, the first one, spells its key.
Preamble(t) == Head(Blocks(t))
Parse(t) == Tail(Blocks(t))
SectionKey(section) == Key[Head(section).body]

KeysOf(sections) == {SectionKey(sections[j]) : j \in DOMAIN sections}
PositionsOf(sections, key) == {j \in DOMAIN sections : SectionKey(sections[j]) = key}
IsFirst(sections, j) == \A i \in 1..(j - 1) : SectionKey(sections[i]) # SectionKey(sections[j])

\* The first section of a key, <<>> if there is none.
FindSection(t, key) ==
    LET found == PositionsOf(Parse(t), key)
    IN IF found = {} THEN <<>> ELSE Parse(t)[Min(found)]

\* The numbers of a set up to n, in their order.
InOrder(n, S) ==
    LET upTo[k \in 0..n] ==
            IF k = 0 THEN <<>>
            ELSE IF k \in S THEN Append(upTo[k - 1], k) ELSE upTo[k - 1]
    IN upTo[n]

-----------------------------------------------------------------------------
(* Capturing a profile *)

\* The section the first sso_session of a section names.
SessionOf(raw) ==
    LET named == {i \in DOMAIN raw : raw[i].body \in Words /\ Session[raw[i].body] # None}
    IN IF named = {} THEN None ELSE Session[raw[Min(named)].body]

\* Mutant: the sections are captured as they are.
CaptureRaw(t, profile) ==
    LET own == FindSection(t, profile)
        session == IF SessionOf(own) = None THEN <<>> ELSE FindSection(t, SessionOf(own))
    IN own \o session

\* The profile's section, and that of its session when the file has it.
CaptureProfile(t, profile) ==
    LET own == FindSection(t, profile)
        session == IF SessionOf(own) = None THEN <<>> ELSE FindSection(t, SessionOf(own))
    IN NormalizeSection(own)
         \o (IF session = <<>> THEN <<>> ELSE <<EmptyLine>> \o NormalizeSection(session))

\* Only sections of the profile and of the session it names are accepted, and
\* none with a denied directive.
ValidateEnvelope(t, profile) ==
    \A s \in Range(Parse(t)) :
        /\ \/ SectionKey(s) = profile
           \/ \E own \in Range(Parse(t)) :
                  SectionKey(own) = profile /\ SessionOf(own) = SectionKey(s)
        /\ \A l \in Range(s) : l.body \notin Denied

-----------------------------------------------------------------------------
(* Merging *)

\* The incoming sections, by key; what is captured has one of each.
Incoming(text) ==
    [k \in KeysOf(Parse(text)) |-> NormalizeSection(FindSection(text, k))]

Mergeable(text) ==
    /\ \A l \in Range(Preamble(text)) : Blank(l)
    /\ Parse(text) # <<>>

Old(text) == [text |-> text, written |-> FALSE, appended |-> FALSE]
Written(text, appended) == [text |-> text, written |-> TRUE, appended |-> appended]

\* The sections that are not dropped: those of other keys, and the first of each
\* incoming one.
Kept(sections, keys) ==
    InOrder(Len(sections), {j \in DOMAIN sections :
                                SectionKey(sections[j]) \in keys => IsFirst(sections, j)})

Others(sections, keys) ==
    InOrder(Len(sections), {j \in DOMAIN sections : SectionKey(sections[j]) \notin keys})

\* Mutant: every section is written at the end.
ChunksAtEnd(t, text) ==
    LET old == Parse(t)
        new == Parse(text)
        incoming == Incoming(text)
        others == Others(old, DOMAIN incoming)
    IN <<Old(Preamble(t))>>
         \o [k \in DOMAIN others |-> Old(old[others[k]])]
         \o [k \in DOMAIN new |-> Written(incoming[SectionKey(new[k])], TRUE)]

\* Mutant: a session the file has already is left as it is.
ChunksButSession(t, text) ==
    LET old == Parse(t)
        new == Parse(text)
        incoming == Incoming(text)
        added == Others(new, KeysOf(old))
        chunk(s) == IF SectionKey(s) \in DOMAIN incoming \cap Profiles
                      THEN Written(incoming[SectionKey(s)], FALSE)
                      ELSE Old(s)
    IN <<Old(Preamble(t))>>
         \o [k \in DOMAIN old |-> chunk(old[k])]
         \o [k \in DOMAIN added |-> Written(incoming[SectionKey(new[added[k]])], TRUE)]

\* The parts of the new file: the first section of an incoming key is replaced
\* where it is, its other sections are dropped, and the keys the file does not
\* have are appended.  An empty preamble, no part in the code, stays empty.
Chunks(t, text) ==
    LET old == Parse(t)
        new == Parse(text)
        incoming == Incoming(text)
        kept == Kept(old, DOMAIN incoming)
        added == Others(new, KeysOf(old))
        chunk(s) == IF SectionKey(s) \in DOMAIN incoming
                      THEN Written(incoming[SectionKey(s)], FALSE)
                      ELSE Old(s)
    IN <<Old(Preamble(t))>>
         \o [k \in DOMAIN kept |-> chunk(old[kept[k]])]
         \o [k \in DOMAIN added |-> Written(incoming[SectionKey(new[added[k]])], TRUE)]

\* Mutant: what precedes an appended section is not looked at.
SeparatedWrittenOnly(chunks, i) ==
    IF chunks[i].written /\ i < Len(chunks)
      THEN Newline(chunks[i].text)
      ELSE chunks[i].text

\* Mutant: a blank line is put around each written section, with no look at
\* what is there.
SeparatedAlways(chunks, i) ==
    IF i < Len(chunks) /\ (chunks[i].written \/ chunks[i + 1].written)
      THEN Newline(Newline(chunks[i].text))
      ELSE chunks[i].text

\* A blank line follows each written section but the last, and whatever
\* precedes an appended one.
Separated(chunks, i) ==
    LET text == chunks[i].text
        line == Ended(text)
        ends == Len(line) > 1 /\ Last(line) = EmptyLine
    IN IF i = Len(chunks) \/ text = <<>> THEN text
       ELSE IF chunks[i].written THEN Newline(text)
       ELSE IF ~chunks[i + 1].appended THEN text
       ELSE IF ends THEN line
       ELSE Newline(line)

Merge(t, text) ==
    LET chunks == Chunks(t, text)
    IN FlattenSeq([i \in DOMAIN chunks |-> Separated(chunks, i)])

-----------------------------------------------------------------------------
(* Adding and getting *)

\* What `kauket add --aws-profile` can have made of a profile, on a machine with
\* one of the files of Sources.
Secrets ==
    {[profile |-> x[2], text |-> CaptureProfile(x[1], x[2])] :
        x \in {y \in Sources \X Profiles :
                   /\ FindSection(y[1], y[2]) # <<>>
                   /\ ValidateEnvelope(CaptureProfile(y[1], y[2]), y[2])}}

\* `kauket get` of the secret on the client, once Install has found no
\* conflict or was told to go on.
Get(secret) ==
    /\ ValidateEnvelope(secret.text, secret.profile)
    /\ Mergeable(secret.text)
    /\ file' = Merge(file, secret.text)

Next == \E secret \in Secrets : Get(secret)

Spec == Init /\ [][Next]_file

-----------------------------------------------------------------------------
(* Properties *)

\* Merging the same secret once more leaves the file as it is, so that a get
\* repeated finds nothing to do, writes nothing and asks for no flag
\* (awsprofile.go:197-202).
MergedTwice ==
    \A secret \in Secrets :
        LET once == Merge(file, secret.text) IN Merge(once, secret.text) = once

\* A profile captured from a machine it was installed on is the secret it was
\* installed from, whatever the client's file looked like before; only a
\* session the secret did not have can come from the file.
CapturedAgain ==
    [][\A secret \in Secrets :
           Get(secret) =>
               LET again == CaptureProfile(file', secret.profile) IN
               \/ again = secret.text
               \/ /\ Len(Parse(secret.text)) = 1
                  /\ IsPrefix(secret.text, again)]_file

\* Two texts that differ at most in the blanks at their end.
SameButEnd(a, b) ==
    LET n == IF Len(a) < Len(b) THEN Len(a) ELSE Len(b) IN
    /\ \A i \in 1..n : a[i] = b[i] \/ (i = Len(a) /\ a[i].body = b[i].body)
    /\ \A i \in (n + 1)..Len(a) : Blank(a[i])
    /\ \A i \in (n + 1)..Len(b) : Blank(b[i])

\* Getting a profile leaves the lines before the first section, and the
\* sections of others, line by line as they were and in their order, also
\* relative to the sections that were replaced; only where something is
\* appended is a blank line added (ADR 0003:13).
OthersInOrder ==
    [][\A secret \in Secrets :
           Get(secret) =>
               LET incoming == DOMAIN Incoming(secret.text)
                   before == Parse(file)
                   after == Parse(file')
                   theirs(sections) ==
                       LET others == Others(sections, incoming)
                       IN [k \in DOMAIN others |-> sections[others[k]]]
                   order(sections) ==
                       LET kept == Kept(sections, incoming)
                       IN [k \in DOMAIN kept |-> SectionKey(sections[kept[k]])]
               IN
               /\ \/ Preamble(file') = Preamble(file)
                  \/ before = <<>> /\ SameButEnd(Preamble(file), Preamble(file'))
               /\ Len(theirs(after)) = Len(theirs(before))
               /\ \A j \in DOMAIN theirs(before) :
                      \/ theirs(after)[j] = theirs(before)[j]
                      \/ /\ j = Len(theirs(before))
                         /\ SameButEnd(theirs(before)[j], theirs(after)[j])
               /\ IsPrefix(order(before), order(after))]_file

\* What Install takes of every merge: the file as a map from keys to the contents
\* of their first sections, which are what a get compares with its record, has the
\* new content for the keys of the secret and the old one for all others.
SectionsOf(t) == [k \in Keys |-> NormalizeSection(FindSection(t, k))]

MergesSections ==
    [][\A secret \in Secrets :
           Get(secret) =>
               LET incoming == Incoming(secret.text) IN
               SectionsOf(file') =
                   [k \in Keys |-> IF k \in DOMAIN incoming THEN incoming[k]
                                                          ELSE SectionsOf(file)[k]]]_file
=============================================================================

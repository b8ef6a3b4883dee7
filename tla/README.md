# Formal models of kauket

kauket keeps secrets in a git repository. The repository is the only server:
names, access lists and secrets are age ciphertexts in it, every manifest is
signed, and each command of each user clones, changes and pushes it. This
directory holds TLA+ models of the code under `src/`, the TLC configurations
that check them on small instances, and proofs of their main properties for
every value of the constants.

Run from this directory:

    tlc -config MCManifest_tree.cfg MCManifest     # any run of PROJECT.json
    tlapm RequestsProofs.tla                       # any *Proofs module

`PROJECT.json` lists the components, the runs, the lines each definition
models, the hazards of the code and which property covers each, and the
theorems.

## The system

### Components

| Component (code) | State it keeps | Operations | Modelled in |
|---|---|---|---|
| Namespace tree and engine (`manifest/engine.go`, `recipients.go`, `types.go`) | per node: owners, readers, extra readers, attested child keys, version, index of names, envelopes of manifest, index and objects | add, grant, grant owner, rescue, revoke, revoke owner | `Manifest` |
| Trust chain and envelopes (`manifest/walk.go`, `codec.go`) | none of its own: verifies each manifest against its parent's attestation | walk the spine, load the readable tree | `Manifest` (as guards) |
| Pins (`manifest/pins.go`) | `pins.json` of a home: the newest version seen of each node, the root's version and anchors | load, advance, save | `GitStore` (versions), `StoreRoot` (anchors) |
| Git store and lock (`gitstore/store.go`, `lock.go`) | clone, worktree, lock file | sync, commit and push, lock | `GitStore` |
| Mutations and reads (`cli/mutate2.go`, `autosync.go`, `get2.go`, ...) | none | retry loop; read without the lock | `GitStore` |
| Requests and approvals (`cli/requests2.go`, `approve2.go`, `gitstore/request_branch.go`, `deploy_key.go`) | request branches, remote-tracking branches, deploy keys, client config | enrol, join, request, approve | `Requests` |
| Init and rescue (`cli/init2.go`, `rescue.go`) | the first root node; the home's files | init, rescue | `Manifest`, `StoreRoot` (the store's part) |
| Store root and anchors (`cli/store2.go`) | `store.json`, its signature, anchors in the pins | verify, append, remove, sign, publish, pin | `StoreRoot` |
| Installed files (`install/*.go`, `cli/get*.go`) | destinations, backups, `installed.json` | plan, refuse, back up, replace, record | `Install` |
| AWS profile merge (`awsconfig/*.go`) | none: works on the text of a file | parse, capture, validate, merge | `AwsMerge` |
| Age envelopes and padding (`agebox/*.go`) | none | encrypt, pad | recipients in `Manifest`; padding not modelled |
| Read-only commands, configuration, login, names, terminal | - | - | not modelled, see below |

### How they interact

A *home* is a directory of one user or machine: a config, keys, pins, one clone
of the store and one lock file. A mutation takes the lock, fetches and hard
resets the clone, reads the pins, runs the engine on the worktree, commits the
whole worktree and pushes; when another home was faster it syncs and runs the
whole command again, a fixed number of times. A read holds the lock only while
it syncs, and goes on with what is in the worktree when it cannot. Commands of
different homes meet only at the remote: on the branch `main`, and on the
`request/*` branches. An approval is a mutation of its own: it calls GitHub to
register keys and runs the engine several times before its single commit, and
it has no retry.

The root of trust of a home is `store.json`, which names the anchors and is
verified against the anchors the home pinned before. Owners of the root and
anchors change together, in the mutations that grant or revoke the ownership of
the root, and in a rescue. What a home reads ends up outside the store: `get`
writes it to files of the user, some of which it shares with the user and with
other secrets, and remembers in `installed.json` what it put there. Gets take no
lock for that.

### What is hard here

* **Interleaving.** Homes race for `main`; processes of one home share a
  worktree and `pins.json`, and reads touch both without the lock.
* **Partial failure.** The engine writes straight into the worktree and can
  stop anywhere; an approval changes GitHub before it changes the store.
* **Lost answers.** A push may be accepted and reported as failed, after which
  the user runs the command again.
* **Long sequences of legal commands.** Owners of different parts of the tree
  edit documents that must stay consistent: the attestation in the parent and
  the owners in the child, the envelope of a node and the members below it, the
  signed extra readers and the encrypted index. No command recomputes all of
  them, and one that is wrong shows only to another user, later.
* **Stale local state.** Remote-tracking request branches and pins outlive what
  they describe. A get decides on what it read of a file, and replaces the file
  later.
* **Two files, one meaning.** `store.json` and its signature, the two files of
  an AWS profile, a destination and the record of it are written one after the
  other, and a command may end in between.

## The modules

### Manifest

The published tree, one action per successful command. A node is a position in
the tree, an identity stands for its age key and its signing key, a ciphertext
is the set of keys that decrypt it and a signature is the key that made it.
The guards of each action are the conditions under which the engine succeeds:
the part of the tree the actor reads verifies (`Verifies`), the target is found
and its index decrypts (`Opens`), the actor may sign (`CanSign`), the objects
to re-encrypt decrypt (`Decrypts`), the descendants whose members it needs can
be enumerated (`Enumerates`). The effects are the engine's helpers: `Bump`,
`Resign`, `WriteIndexes`, `WriteObjects`, `WriteManifests`, where `W` is the
set of ancestors `widenAncestors` only widens.

Three uses of the commands leave a store that no longer verifies. They are
named in `Hazards`, so that a run or a theorem says whether it allows them:
an owner revoking its own ownership, a subtree operation over nodes whose owner
is somebody else, and a rescue. Without them the signature chain is intact for
ever (`ChainCorrect`); with one, the violation runs show what breaks.

Properties: `EnvelopeCovers` (whoever must open a manifest can),
`OwnerSeesSubtree` (an owner reads everything below, so no path is created
twice), `ChainVerifies`, `OwnersAttested`, `RolesWellFormed`, `IndexExact`,
`ObjectAccess`, `ExtraIsUnion`, and the action properties `WriterOwnsSpine` and
`MembershipRaisesVersion`.

### GitStore, CommandLog

How commands reach the remote, step by step: lock, fetch, reset file by file,
pins, load, write content, write manifest, commit, push, answer, save. Contents
are the set of effects they hold, split into two files so that a torn
worktree is visible; a node version is the number of effects. Faults
(`network`, `engine`, `crash`) may strike at every step where the code can
fail, and a failed mutation may be run again.

Nothing in the store names the command that wrote it, so an effect is that of
one *run* of a mutation. Run again after a lost answer, most commands find
their own effect and do nothing (a grant) or fail (an `add`, engine.go:194);
those in `Forced` (`add --force`) write it again, and those in `Repeatable` may,
when another command has undone it.

`CommandLog` is the promise: a log that each run enters at most once, that a
later run of a command enters only if the command is repeatable, and a result
that says "done" only for commands in the log, of a forced one only for this
very run. `ImplementsLog` is the refinement, with the history of `main` as the
log.

Properties: `PublishedWhole` (no update lost, nothing torn, no leftovers
published), `RetriesMeanProgress` (an attempt is lost only to another command
that got through), `MutationsKeepPins` (no step of a mutation lowers what its home
has pinned, although reads pin without the lock), `StepsRunOut` (each step is
one of a bounded number, and takes none back from another command),
`ImplementsLog`, `EveryCommandEnds`.

### Requests

Hosts enrol and ask again, admins approve and revoke. A request is sent under
an id before the host saves the id, so a crash makes it ask again under
another id with the same key. An approval is a sequence: sync, fetch the
request branches into the remote-tracking ones, one action per request
(register the deploy key, write the record, grant the paths in order), one
push, one deletion per branch. `Answer` says what the engine answers an admin
who grants a path: `grant`, `missing` (skipped with a warning), `route`
(passed on to the owners) or `refuse` (an error that stops the request and
leaves what was written). A call that is refused half way has rewritten some
files of its path and not signed for them: the path is `torn`, and a later call
on it is refused when it comes upon a file that does not have the hash its
manifest or index names, which is a choice here (`Answers`). Paths are apart, so
one is torn by itself. The worktree of a run is what it `added` to its
`base`; a run that does not publish leaves nothing, which is `GitStore`'s
result about the reset that starts every run.

Properties: `NoRequestLost`, `EnrolledHasKey`, `PushAddsItsOwn`.

### StoreRoot

Every home has a worktree with `store.json` and its signature, and its pins. A
change of the anchors is a sequence, as the code has it: sync, verify and check
(`Load`), write the document, write the signature, push, and save the pins, of
the root that was verified and not of the one that was published. It may fail
anywhere and leaves the worktree as it is; after a lost push an owner starts
again, a rescue gives up; who rescues needs the recovery key and the home of an
admin, not any ownership. A read verifies what is in the worktree against the
pins (`ReadRoot`), whether it has synced or not and also while a mutation of the
same home is half way, and saves it as the new pins later (`SaveRead`), over
whatever was pinned meanwhile, or never. `Accepts` is the rule of
`loadV2Context`. A read loads the two files and the pins in one step, and one
read at a time is under way in a home.

A root is its version and its anchors. The recovery keys never change, so the
comparison of recovery sets is left out, and every store is taken to be sealed.
A command that fails before it saves the pins does not advance them.

Properties: `RootsChain` (each published root is the next version, signed by an
anchor of the one before), `FreshCanPin`, `ClientsFollow` (a home in which nobody
changes the anchors never sees a rollback, and accepts a root at most one version
newer than its pins), `PinsStayNear`.

### Install

Gets, any number of them and of different secrets, beside a user who edits. A
version of a secret fills the `Sections` of its files: one for an ordinary file,
up to two sections in each of two files for an AWS profile, which it may share
with another profile. The next version may drop a session or the credentials,
or go elsewhere, and the record of a secret is that of the version installed last,
whatever stays behind in the files. A get loads `installed.json`, reads and judges each file in
turn (`PlanTarget`, or `Refuse`), moves the user's away if told to (`BackUp`),
renames the new text over the file (`Replace`), whatever it is by then, and
writes the whole record back (`Record`). It may stop before any step. What the
code puts into a temporary file first is one step here, since it becomes
visible by the rename; a crash leaves the temporary file behind, which nothing
reads.

A content is a version of a secret or a text of the user, so "who wrote this"
is a question the model can ask. `held`, `alone` and `clean` are history
variables for that. The version a get installs is any one, since an offline
client installs what it has. The record is a set of claims, by file, part and
content. Files in `Merging` may be rewritten although every section in them is
up to date, since a merge may lay the text out in another way.

Properties: `UserContentKept` and `OthersKept` (what may be lost, to whom),
`RecordsAreTrue`, `RotationNeedsNoFlags`, `RetryIsAccepted`.

### AwsMerge

The text of `~/.aws/config` as a sequence of lines, and parsing, capture,
validation and merge as operators on it. The state is the file, and the actions
capture a profile of another machine and merge it. What a line says is
abstracted to what the code distinguishes: which section a header opens, by
which of its spellings, whether a line is blank and how, whether it names an
SSO session or sets a denied directive, and whether the last line ends in a
newline. Comments are words; those before a header belong to the section before
it, as in the parser. Loops of the code over lines and sections are recursive
functions (`Blocks` splits a text at its headers, `InOrder` selects sections in
their order, which gives `Kept` and `Others`), so that they can be proved about.
The credentials file is handled by the same code with
other spellings and without sessions, and has no run of its own: `CapturedAgain`
is about the text of the config file, and says nothing of a credentials section
that a profile has on the second machine and the secret does not.

Properties: `MergedTwice` (a second merge changes nothing), `MergesSections`
(the sections of the profile are those of the secret, all others as they were),
`CapturedAgain`, `OthersInOrder`, and `TypeOK`, which here says that no two
lines ever run into each other.

### How they compose

`MergesSections` and `OthersInOrder` of `AwsMerge` are why `Merged` of
`Install` may treat a shared file as a function from sections to contents and
change only those of the secret. `OwnersAttested` of `Manifest` is why
`StoreRoot` may speak of owners of the root and anchors as the same identities.

`GitStore` shows that the store is one log of whole commands, which is why
`Manifest` may model a command as one step on the published tree and
`Requests` may model a push as one step and drop a run that did not publish.
`Manifest` is what the engine does with a grant, which `Requests` sees as
`Answer`.

## The runs

| Run | Shows |
|---|---|
| `manifest_tree` | all structural properties over root / n1 / n2, two signing identities, a recovery key, without the three hazardous uses |
| `manifest_keys` | who decrypts what, with two names, one namespace, and the hazardous uses allowed |
| `manifest_delegated` | **violation**: a subtree operation across delegated ownership breaks the chain |
| `gitstore_race` | three mutations in two homes, one of them forced and one that can be undone, every fault, one re-run |
| `gitstore_ends` | liveness, the bound on steps and the pins of mutations, for two mutations and a read, every fault, one re-run |
| `gitstore_ahead` | **violation**: an unlocked read pins what was never published |
| `requests_race` | a machine that enrols, fails and enrols again, two requests, two admins, lost calls and answers, crashes |
| `requests_pending` | **violation**: a request handled by another admin is offered again |
| `requests_atomic` | **violation**: half a request is published with the next one |
| `storeroot_anchors` | two owners, the recovery key and a client, reads in the homes of one owner and of the client, every interleaving and failure, up to version 3 |
| `install_clients` | two gets of two profiles that share a session, which one drops in its second version, every flag, stops, one edit of the user, one tick of the clock |
| `awsmerge_texts` | every profile of three source files merged, in every order, into every file of up to three lines |

### Bounds and why they are enough

* *Tree.* Three nodes in a chain are the smallest tree in which a node has an
  ancestor that is not its parent and a descendant that is not its child, which
  is what tells widening from recomputing apart. Two signing identities are
  needed for ownership to be delegated; the delegated run adds a third that
  only reads. Siblings do not interact: no recipient set of one reads the
  other. `manifest_keys` uses two names, the least for "reads another name of
  the node". The theorems remove these bounds.
* *Versions* are not bounded, as in the code. No guard reads them, so the three
  configurations identify states that differ in versions only (`VIEW
  Unversioned`); `MembershipRaisesVersion` compares the two ends of one step, and
  is evaluated at every step TLC takes from one state of each such class.
* *Store.* Two mutations in one home contend for the lock and leave files
  behind for each other; the third, in the other home, wins races. With
  `MaxRetries = 2` (the code has 5) both outcomes of the loop, retry and
  giving up, occur. One re-run is enough for a lost answer followed by a
  repetition, which takes effect again for the forced mutation. The theorems
  hold for every bound.
* *Requests.* Two requests, two ids and one machine give re-enrolment under the
  same key, a second request of a known identity, and two requests in one run;
  two admins with different rights give the race and the partial grant. Two
  machines with all faults are beyond TLC (more than seven million states);
  the theorems cover them.
* *Store root.* Two owners are the least that race and remove each other;
  three versions let a home miss one. Reads run in two homes: that of an owner,
  beside its own mutations, and that of a client; the founder's own reads would
  add nothing but size. The theorems remove all these bounds.
* *Installation.* Two profiles that share one section of one file, in two
  versions, the second of which drops the shared section: each has something to
  keep of the other and something to dispute.
  Two starts are two gets at once, a rotation, or a get and its repetition.
  One edit comes at every point of a get. Two seconds make backups in the same
  and in different seconds. The theorems remove all these bounds.
* *Texts.* Three lines over five headers, two kinds of words and two kinds of
  blanks, with and without a final newline, hold every joint the merge makes:
  preamble and section, two sections, two sections of one key, blanks before a
  header and at the end. The sources are longer: a profile with its session, a
  file in disorder with a section between others, and one without final newline.
  The theorems hold for files and sources of any length.
* `SYMMETRY` is used for model values that appear only as elements of sets:
  names of secrets, ids and requests, and gets, in runs without liveness.
* `CHECK_DEADLOCK FALSE` appears where the system really stops: all commands
  ended, a chain that no longer verifies, so that no command is accepted, or the
  user and the gets of `Install` at their bounds.

### Fairness

`EveryCommandEnds` assumes weak fairness of each command's own steps
(`Step`, `Mutate`, `Read`): a process that can go on does, which the operating
system's scheduling gives. It assumes nothing of faults or re-runs, and nothing
of the lock: a command that finds it held fails after ten attempts, which is
the action `LockFails`. A dead process holds no lock, because `flock` ends with
it. Nothing is claimed to happen eventually in `Requests`: every step of an
approval depends on a person who runs the command. The same is true of
`StoreRoot` and `Install`, which state no liveness either.

## The proofs

TLAPS checks all of them for every value of the constants, from the named
assumptions of the modules: identities and recovery keys are apart, `Parent`
and `Anc` describe a tree (as axioms of a strict order, so that no induction is
needed), mutations and reads are apart, `Wants` are non-empty sequences of
paths, the founder is an owner and the recovery key nobody's, the user's
contents are not kauket's, and the texts of `AwsMerge` are lines of which only
the last may lack its newline.

* `ManifestProofs`: types, and `Structure`, that existing nodes form a tree and
  nothing hangs from a missing one. Both are inductive.
* `ManifestAccessProofs`: `IndexExact` and `RolesWellFormed` are inductive with
  the types. `ExtraIsUnion` needs `Structure`, because a new node must start
  without entries. `ObjectAccess` needs `ExtraIsUnion`: a command that writes
  one object leaves the others encrypted to a former member set, which is still
  enough only because nobody leaves the members without re-encrypting all.
* `ManifestChainProofs`: `ChainVerifies` and `OwnersAttested` are inductive
  only together, as the signer of a node is an owner, and hence attested; they
  assume `Hazards = {}`. `WriterOwnsSpine` and `MembershipRaisesVersion` follow
  from types and structure step by step.
  `EnvelopeCovers` is inductive with types and structure. The argument is by
  how recipients move: a grant adds one identity, and only along one
  root-to-leaf path and below it, which is where the engine widens; a
  revocation removes recipients and can only make an envelope larger than
  needed. `OwnerSeesSubtree` follows.
* `GitStoreProofs`: the invariant says that whoever is past the lock holds it,
  that every head a clone has fetched is whole and part of the remote's
  history, and, for each step of a mutation, what its worktree and local branch
  hold (`WriterInv`), one effect per run. That is what turns "commit everything in the worktree"
  into "commit what I wrote". `StoreIsLog` maps every step to a step or a
  stutter of `CommandLog`. `RetriesCorrect` counts: each attempt a mutation has
  lost is another command in the history it will fetch (`Progress`). `PinsKept`
  is an action property; whatever reads pin meanwhile, it is at most one ahead of what
  the mutation fetched, and what the mutation saves is one ahead of that.
  `StepsRunOut` is the part of `EveryCommandEnds` that can be proved: `Left`
  bounds the steps of a command, each step lowers it for the command that takes
  the step and raises it for no other (`LockInv` keeps a reset from being undone),
  and a re-run, of which there are `Reruns`, is all that raises it.
* `RequestsProofs`: `CloneInv` (a clone that is not stale is what `main` is, an
  older one is contained in it up to revocations) makes a push add and never
  take; `AcceptInv` follows an approved request from the worktree to `main`,
  where its answer must be when the branch goes; `KeyInv` says that every id on
  record or in a worktree belongs to a host with its key, and `IdsInv`, that an
  id is drawn once, carries it from one request of the host to the others. That
  torn paths change no approval is `AnswersFacts`: who is refused none of them
  grants what it may grant.

* `StoreRootProofs`: the invariant follows a change through its home
  (`TaskInv`): what was synced is what the base says, what is written is the
  next version of it, and what is signed is signed by one of its anchors. A push
  is accepted only from the head, which makes `RootsChain` of that, and `FreshCanPin`
  (`PublishedInv`), for homes that have pinned nothing. In a home where nobody
  changes the anchors, the worktree, the pins and what a read has in hand are no
  newer than the published root, and one of the last two roots if they have the
  version of one (`Genuine`, `ClientInv`), and so `ClientsFollow`, however late a
  read saves.
  `PinsStayNear` follows from what any worktree can hold: nothing more than a
  version ahead of the published root (`NearInv`).
* `InstallProofs`: `HeldInv` (what is in a file or was seen in one has been put
  there) carries `RecordsAreTrue` through the copies of the record that
  overwrite each other. `OwnClaims` and `PlanInv` (what a get has still to change
  holds, in its own sections, nothing foreign unless a flag says so) give
  `UserContentKept` and `OthersKept`, step by step. `CleanInv` says, as long as
  gets come one after the other, that what is not on record is about to be
  recorded by the get at work, for whatever the version on record fills;
  `AloneInv`, that a get that was left alone
  carries the current record, and has in front of it only what it may replace.

* `AwsMergeProofs`: what merging does to a text, for every file, every profile
  and any number of lines. The library's induction rules are out of the prover's
  reach, so induction is done over sets (`Least`, from the well-foundedness of
  the naturals; `Induction`; `SeqInduction` for texts that grow line by line),
  and a recursive function is known through the run it follows (`RunExists`,
  `RunUnique`). The argument has four layers.
  - *Parsing.* The blocks of a text are lines without header, then sections, and
    joined they are the text again; joined blocks are parsed into the same blocks
    (`BlocksCorrect`, `BlocksOfFlatten`, and `ParseAndRender` of them). So a text and its blocks determine each
    other, and what the merge joins is what the next command parses.
  - *The parts of a merge.* Each part is the preamble, a kept section or an added
    one, and has the key it had or that of the secret's section (`ChunkKinds`,
    `ChunkKeys`). What a part gains from `Separated` is blanks and a newline, so
    that normalising it gives what it gave before (`SeparatedFacts`).
  - *Secrets.* What `add` captures has each key once (`Distinct`), its sections
    are normalised, and it is the profile's section and at most that of its
    session, which is no profile (`SecretsAre`, `SecretFacts`). This is why
    `planIdx`, which would keep the last of two equal keys, and `findSection`,
    which finds the first, agree.
  - *The properties.* Merged again, every section is found and replaced by
    itself (`AgainChunks`), which is `MergedTwice`; the first section of each key
    in the new file is known (`FindIncoming`, `FindOther`), which is
    `MergesSections`, and with `CaptureMerged` `CapturedAgain`; a list of numbers
    in order is determined by its elements (`ListsUnique`), which is
    `OthersInOrder`.

  None of the five needs an invariant but `TypeOK`, which is inductive; the four
  others hold of one merge into any text.

Only model-checked: `EveryCommandEnds`, as liveness under fairness is out of the
prover's reach. `StepsBounded` proves that no behaviour goes on for ever; that no
command is stuck before its end needs `ENABLED`, and is TLC's. Every other property of a passing run is a theorem. The
violation runs are TLC's: each shows one behaviour.

## Where code and documents disagree

The four violation runs are described under `findings` in `PROJECT.json`.
More differences show in the models, or are plain from the code, and have no
run:

* A rescued owner is not attested by the parent (engine.go:333), so it cannot
  sign the node before an owner above grants it the ownership again; the design
  says that an owner "may sign the node's manifest"
  (`src/specs/design-v2.0-namespace-acl.md:30`).
* A read loads, advances and saves pins without the lock (get2.go:68), so it can
  write back older pins than a command has saved meanwhile, against ADR 0004:15.
  `MutationsKeepPins` is what remains: only reads do that.
* After a rejected push the deploy key of a new machine is registered and the
  identity is not; GitHub refuses the key the next time, although the message
  says to run approve again (approve2.go:164, :202).
* A read of a worktree that a mutation is about to publish can pin a root that
  is never published (store2.go:136). The home reports a rollback of the store
  until the anchors change again, which `PinsStayNear` says one change is enough
  for; but if the root it pinned had dropped the owner who signs that change, the
  home then trusts no signer of it, and stays locked out (store2.go:123). Only
  homes in which somebody changes the anchors are exposed, which is
  `ClientsFollow`.
* A home that missed more than one version of `store.json` may find no anchor it
  knows among the signers and be locked out, whereas the design has an offline
  client follow the chain (`design-v2.0-namespace-acl.md:82`, `:93`): only the
  last root is kept in the store. `ClientsFollow` covers clients that missed one.
* An owner that removes itself from the anchors of the root signs a document
  whose signer is no longer an anchor of it. A home that has pinned nothing
  cannot verify that (`SelfRemoved` in `FreshCanPin`), and a home that pinned it
  refuses it at its next read (`SelfRemoved` in `ClientsFollow`).
* A mutation that loses every race is tried five times (`maxMutationRetries`,
  mutate2.go:21); the specification says "Retry non-fast-forward pushes at most
  twice" (`src/specs/main-spec-v1.0.md:1688`).
* `add --force` that is run again after a lost answer is committed again
  (engine.go:194), since nothing in the store says which command wrote what is
  there; the secret is the same, but whoever has replaced it meanwhile is
  overwritten.
* A path of a request that is routed to its owners (approve2.go:241) is answered
  as far as the approval, and `NoRequestLost`, are concerned, but no command
  reads, answers or removes a routed request.
* A grant that fails half way leaves objects and an index in the worktree that
  no manifest vouches for (engine.go:299-308), and the approval commits them with
  the other requests of its run (approve2.go:162): from then on reads of what was
  rewritten fail, and so do grants and revocations that come upon it. `torn` in
  `Requests` follows it.
* Two gets at once may each write the shared file from what it read, and the
  second loses the merge of the first, where ADR 0003:13 preserves "everything
  else byte-for-byte"; `OthersKept` names it (`CameLater`). Records may be lost
  in the same way.
* A rotation "needs no flags on the client" (ADR 0003:22) only as long as it
  adds no section and what was installed was recorded. A version that drops a
  section leaves it in the file and takes it off the record, which is replaced as
  a whole (awsprofile.go:114-135), so a later version that brings it back with
  another content needs a flag. And a get that dies between `Replace` and
  `Record`, or whose record another get overwrote, makes the next rotation refuse.
* Further sections of a key that is merged are dropped, and are not looked at
  for a conflict (awsconfig/merge.go), so a user's duplicate section goes without
  a flag; ADR 0003:24 names the collapse, `acceptance-v1.0.md:20` says existing
  content is not overwritten silently.
* `addMembers` (recipients.go:67) counts the readers of any one name as readers
  of all objects of the node once they are re-encrypted; the design says
  "object recipients = node readers ∪ entry readers"
  (`src/specs/design-v2.0-namespace-acl.md:30`).
* Adding or replacing a secret does not raise the version of its node
  (engine.go:237), so pins cannot tell the bodies apart; ADR 0004 says they
  "detect rollback of an already-seen node".
* A revocation leaves the manifests of descendants whose members did not change
  as they were (engine.go:403); the design says that it "shrinks the envelopes
  of everything under the revoked node" (line 220).

## Assumptions and limits

* Encryption, signatures and digests do what they promise; whoever is not a
  recipient learns nothing. Identity and request ids are random and never
  collide.
* The hard reset of go-git leaves nothing untracked of a former command in the
  worktree.
* A push is refused exactly when it is not a fast-forward, and the client
  recognises the refusal, which it does by the wording of an error.
* An empty remote, for which a sync does nothing, and the first clone are left
  out: models start from an initialised store.
* Requests an admin cannot decrypt or verify, dry runs, requests left pending
  for want of a confirmation and a failed fetch are choices of an admin who
  takes up fewer requests.
* The content of a routed request is not modelled: no code reads it.

## Not modelled

* *Age envelopes and padding* (`agebox`): encryption is a library, seen as a
  set of recipients. Padding is a pure function from a length to a size class,
  whose unit tests visit every class and both its ends.
* *Read-only commands* (`list`, `show`, `verify`, ...): they print what a walk
  finds; the walk is in `Manifest`, the read of the worktree in `GitStore`.
* *Configuration and role homes*: small files of one process. The identity id
  and the pinned anchors, which others depend on, are in `Requests` and
  `StoreRoot`.
* *GitHub authentication*: calls login programs, and ends in a token or an error.
* *Names and identifiers*, *terminal and program entry*: validation, encoding,
  prompts and output, without state.

Partly modelled: the byte format of manifests and the walk's cache; the pins of
several nodes at once; the files `init` writes to a home; the encoding and the
signatures of requests, which are valid or left out by the admin.

## Plan

The order was by how much can go wrong unseen: the tree, the store, the
requests, the store root, installed files, merged texts. What is left:

1. *Pins of several nodes* in `GitStore`: a command advances the pins of the
   nodes on its way only.
2. *Composition* of `StoreRoot` and the root of `Manifest`: one command changes
   `store.json` and the root manifest in one commit, and a walk that starts from
   pinned anchors must accept the root manifest.
3. *Routed requests*, once something reads them.
4. *Credentials file* in `AwsMerge`, should it come to differ in more than
   spelling.

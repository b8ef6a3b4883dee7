------------------------------ MODULE GitStore ------------------------------
(***************************************************************************)
(* How commands reach the git repository that is the store.  A home holds  *)
(* one clone, a lock file and the pins of its user; commands of several    *)
(* homes race for the main branch of the remote, and commands of one home  *)
(* share its clone.  A mutation holds the lock from the first fetch to     *)
(* saving the pins (cli/mutate2.go); a read only holds it while it syncs,  *)
(* and goes on without having synced when it cannot (cli/autosync.go).     *)
(*                                                                         *)
(* Contents are abstracted to the set of the effects they hold, and a node *)
(* version to the number of them: every mutation changes the node that     *)
(* every read reads.  Nothing in the code names the command an effect is   *)
(* of, so a command that is run again may take effect again: an effect is  *)
(* that of one run of a mutation.                                          *)
(***************************************************************************)
EXTENDS Naturals, FiniteSets

CONSTANTS Homes,      \* role homes, each with a clone of the store
          Writers,    \* commands that change the store (runV2Mutation)
          Readers,    \* commands that read it (get, list, status, verify)
          Repeatable, \* mutations that may take effect again when run again: a
                      \* grant does once another command has taken it back
          Forced,     \* those that always do: add --force
          HomeOf,     \* the home a command runs in
          Nobody,     \* no holder of a lock
          MaxRetries, \* maxMutationRetries
          Reruns,     \* how many failed mutations users run again
          Faults      \* the faults a run allows

Commands == Writers \cup Readers

ASSUME CommandsAssumption ==
    /\ Writers \cap Readers = {}
    /\ Forced \subseteq Repeatable
    /\ IsFiniteSet(Writers)
    /\ HomeOf \in [Commands -> Homes]
    /\ Nobody \notin Commands

ASSUME BoundsAssumption ==
    /\ MaxRetries \in Nat \ {0}
    /\ Reruns \in Nat
    /\ Faults \subseteq {"network", "engine", "crash"}

\* The files of a clone a command reads or writes one after the other: the
\* objects and indexes of a node, and its signed manifest.
Files == {"content", "manifest"}

\* An effect: a mutation, and which run of it.  Runs are numbered as users start
\* them.
Effects == Writers \X (0..Reruns)

Contents == SUBSET Effects
Trees == [Files -> Contents]

VARIABLES
    published,  \* the head of main at the remote: its history and its tree
    fetched,    \* the remote-tracking head of each clone
    local,      \* the local main of each clone
    files,      \* the worktree of each clone
    holder,     \* who holds the lock of each home
    pins,       \* the node version in pins.json of each home
    pc,         \* the step each command is at
    attempt,    \* push attempts of a mutation so far
    base,       \* the contents a command loaded
    loaded,     \* the pins a command loaded
    rerun,      \* how many were run again so far
    round       \* the number of the run a mutation is in

remote == <<published>>
clones == <<fetched, local, files>>
vars == <<remote, clones, holder, pins, pc, attempt, base, loaded, rerun, round>>

Whole(s) == [past |-> s, tree |-> [f \in Files |-> s]]

\* Steps a mutation takes with the lock, and where a command may end.
Locked == {"fetch", "reset", "pins", "load", "content", "manifest", "commit", "push",
           "answer", "refetch", "rereset", "save"}
Ended == {"done", "failed", "exhausted", "crashed"}

TypeOK ==
    /\ published \in [past : Contents, tree : Trees]
    /\ fetched \in [Homes -> [past : Contents, tree : Trees]]
    /\ local \in [Homes -> [past : Contents, tree : Trees]]
    /\ files \in [Homes -> Trees]
    /\ holder \in [Homes -> Commands \cup {Nobody}]
    /\ pins \in [Homes -> Nat]
    /\ pc \in [Commands -> {"start", "check", "record"} \cup Locked \cup Ended]
    /\ attempt \in [Writers -> 1..MaxRetries]
    /\ base \in [Commands -> Contents]
    /\ loaded \in [Commands -> Nat]
    /\ rerun \in 0..Reruns
    /\ round \in [Writers -> 0..Reruns]

Init ==
    /\ published = Whole({})
    /\ fetched = [h \in Homes |-> Whole({})]
    /\ local = [h \in Homes |-> Whole({})]
    /\ files = [h \in Homes |-> Whole({}).tree]
    /\ holder = [h \in Homes |-> Nobody]
    /\ pins = [h \in Homes |-> 0]
    /\ pc = [c \in Commands |-> "start"]
    /\ attempt = [w \in Writers |-> 1]
    /\ base = [c \in Commands |-> {}]
    /\ loaded = [c \in Commands |-> 0]
    /\ rerun = 0
    /\ round = [w \in Writers |-> 0]

\* The effect of the run a mutation is in, and whether any run of it took effect.
Mine(w) == <<w, round[w]>>
Known(w, contents) == \E e \in contents : e[1] = w

Goto(c, step) == pc' = [pc EXCEPT ![c] = step]

\* A command ends, and its lock file closes with it.
End(c, outcome) ==
    /\ Goto(c, outcome)
    /\ holder' = [h \in Homes |-> IF holder[h] = c THEN Nobody ELSE holder[h]]

\* Where a command goes when it cannot sync: a mutation fails, a read uses the
\* local copy.
NotSynced(c) == IF c \in Readers THEN "pins" ELSE "failed"

-----------------------------------------------------------------------------
(* The lock and the sync *)

\* Mutant: the lock is taken whoever holds it.
LockAnyway(c) ==
    /\ pc[c] = "start"
    /\ holder' = [holder EXCEPT ![HomeOf[c]] = c]
    /\ Goto(c, "fetch")
    /\ UNCHANGED <<remote, clones, pins, attempt, base, loaded, rerun, round>>

Lock(c) ==
    /\ pc[c] = "start"
    /\ holder[HomeOf[c]] = Nobody
    /\ holder' = [holder EXCEPT ![HomeOf[c]] = c]
    /\ Goto(c, "fetch")
    /\ UNCHANGED <<remote, clones, pins, attempt, base, loaded, rerun, round>>

\* Ten attempts found the lock held.
LockFails(c) ==
    /\ pc[c] = "start"
    /\ holder[HomeOf[c]] # Nobody
    /\ Goto(c, NotSynced(c))
    /\ UNCHANGED <<remote, clones, holder, pins, attempt, base, loaded, rerun, round>>

\* Mutant: the fetch brings nothing.
FetchNothing(c) ==
    /\ pc[c] \in {"fetch", "refetch"}
    /\ Goto(c, IF pc[c] = "fetch" THEN "reset" ELSE "rereset")
    /\ UNCHANGED <<remote, clones, holder, pins, attempt, base, loaded, rerun, round>>

\* Sync first fetches the remote head.
Fetch(c) ==
    /\ pc[c] \in {"fetch", "refetch"}
    /\ fetched' = [fetched EXCEPT ![HomeOf[c]] = published]
    /\ Goto(c, IF pc[c] = "fetch" THEN "reset" ELSE "rereset")
    /\ UNCHANGED <<remote, local, files, holder, pins, attempt, base, loaded, rerun, round>>

\* The hard reset checks out one file after the other.
ResetFile(c, f) ==
    LET h == HomeOf[c] IN
    /\ pc[c] \in {"reset", "rereset"}
    /\ files[h][f] # fetched[h].tree[f]
    /\ files' = [files EXCEPT ![h][f] = fetched[h].tree[f]]
    /\ UNCHANGED <<remote, fetched, local, holder, pins, pc, attempt, base, loaded, rerun, round>>

\* The reset is complete.  A read closes the store.
ResetDone(c) ==
    LET h == HomeOf[c] IN
    /\ pc[c] = "reset"
    /\ files[h] = fetched[h].tree
    /\ local' = [local EXCEPT ![h] = fetched[h]]
    /\ IF c \in Readers THEN End(c, "pins") ELSE Goto(c, "pins") /\ UNCHANGED holder
    /\ UNCHANGED <<remote, fetched, files, pins, attempt, base, loaded, rerun, round>>

\* Mutant: one attempt too many.
RetryOnceMore(w) ==
    LET h == HomeOf[w] IN
    /\ pc[w] = "rereset"
    /\ files[h] = fetched[h].tree
    /\ local' = [local EXCEPT ![h] = fetched[h]]
    /\ IF attempt[w] <= MaxRetries
         THEN /\ attempt' = [attempt EXCEPT ![w] = @ + 1]
              /\ Goto(w, "fetch")
              /\ UNCHANGED holder
         ELSE End(w, "exhausted") /\ UNCHANGED attempt
    /\ UNCHANGED <<remote, fetched, files, pins, base, loaded, rerun, round>>

\* Mutant: the attempts are not counted.
RetryUncounted(w) ==
    LET h == HomeOf[w] IN
    /\ pc[w] = "rereset"
    /\ files[h] = fetched[h].tree
    /\ local' = [local EXCEPT ![h] = fetched[h]]
    /\ Goto(w, "fetch")
    /\ UNCHANGED <<remote, fetched, files, holder, pins, attempt, base, loaded, rerun, round>>

\* The reset after a lost race is complete: try again, or give up.
RetryOrGiveUp(w) ==
    LET h == HomeOf[w] IN
    /\ pc[w] = "rereset"
    /\ files[h] = fetched[h].tree
    /\ local' = [local EXCEPT ![h] = fetched[h]]
    /\ IF attempt[w] < MaxRetries
         THEN /\ attempt' = [attempt EXCEPT ![w] = @ + 1]
              /\ Goto(w, "fetch")
              /\ UNCHANGED holder
         ELSE End(w, "exhausted") /\ UNCHANGED attempt
    /\ UNCHANGED <<remote, fetched, files, pins, base, loaded, rerun, round>>

\* Every command first reads the pins of its home.
LoadPins(c) ==
    /\ pc[c] = "pins"
    /\ loaded' = [loaded EXCEPT ![c] = pins[HomeOf[c]]]
    /\ Goto(c, "load")
    /\ UNCHANGED <<remote, clones, holder, pins, attempt, base, rerun, round>>

-----------------------------------------------------------------------------
(* A mutation *)

\* It walks the tree, and refuses one that is older than its pins.  What the
\* store holds already is not done twice: a grant or a revocation says there is
\* nothing to do, an add fails because the secret exists.  But add --force
\* replaces whatever is there, its own earlier effect as well, and a command
\* whose effect was undone is done again.
Load(w) ==
    LET tree == files[HomeOf[w]]["manifest"] IN
    /\ pc[w] = "load"
    /\ base' = [base EXCEPT ![w] = tree]
    /\ \/ Cardinality(tree) < loaded[w] /\ End(w, "failed")
       \/ /\ Cardinality(tree) >= loaded[w] /\ Known(w, tree) /\ w \notin Forced
          /\ \E e \in {"done", "failed"} : End(w, e)
       \/ /\ Cardinality(tree) >= loaded[w] /\ (Known(w, tree) => w \in Repeatable)
          /\ Goto(w, "content") /\ UNCHANGED holder
    /\ UNCHANGED <<remote, clones, pins, attempt, loaded, rerun, round>>

\* The engine writes the objects and the index, then the manifests, straight
\* into the worktree.
Write(w, f) ==
    /\ pc[w] = f
    /\ f \in Files
    /\ files' = [files EXCEPT ![HomeOf[w]][f] = base[w] \cup {Mine(w)}]
    /\ Goto(w, IF f = "content" THEN "manifest" ELSE "commit")
    /\ UNCHANGED <<remote, fetched, local, holder, pins, attempt, base, loaded, rerun, round>>

\* Everything in the worktree is staged and committed on the local main.
CommitAll(w) ==
    LET h == HomeOf[w] IN
    /\ pc[w] = "commit"
    /\ local' = [local EXCEPT ![h] = [past |-> @.past \cup {Mine(w)}, tree |-> files[h]]]
    /\ Goto(w, "push")
    /\ UNCHANGED <<remote, fetched, files, holder, pins, attempt, base, loaded, rerun, round>>

\* The remote accepts a push only if its head is in the history of the pushed
\* commit.
FastForward(h) == published.past \subseteq local[h].past

\* Mutant: the push overwrites the remote head.
ForcePush(w) ==
    /\ pc[w] = "push"
    /\ published' = local[HomeOf[w]]
    /\ Goto(w, "answer")
    /\ UNCHANGED <<clones, holder, pins, attempt, base, loaded, rerun, round>>

Push(w) ==
    LET h == HomeOf[w] IN
    /\ pc[w] = "push"
    /\ FastForward(h)
    /\ published' = local[h]
    /\ Goto(w, "answer")
    /\ UNCHANGED <<clones, holder, pins, attempt, base, loaded, rerun, round>>

\* The answer of the remote arrives.
Accepted(w) ==
    /\ pc[w] = "answer"
    /\ Goto(w, "save")
    /\ UNCHANGED <<remote, clones, holder, pins, attempt, base, loaded, rerun, round>>

\* Mutant: a rejected mutation commits and pushes again what it made.
PushAgain(w) ==
    /\ pc[w] = "push"
    /\ ~FastForward(HomeOf[w])
    /\ Goto(w, "commit")
    /\ UNCHANGED <<remote, clones, holder, pins, attempt, base, loaded, rerun, round>>

\* Another home was faster: sync, then run the whole command again.
PushRejected(w) ==
    /\ pc[w] = "push"
    /\ ~FastForward(HomeOf[w])
    /\ Goto(w, "refetch")
    /\ UNCHANGED <<remote, clones, holder, pins, attempt, base, loaded, rerun, round>>

AtLeast(a, b) == IF a < b THEN b ELSE a

\* Mutant: the mutation saves the version it started from.
SaveOldPins(w) ==
    LET h == HomeOf[w] IN
    /\ pc[w] = "save"
    /\ pins' = [pins EXCEPT ![h] = AtLeast(loaded[w], Cardinality(base[w]))]
    /\ End(w, "done")
    /\ UNCHANGED <<remote, clones, attempt, base, loaded, rerun, round>>

\* The mutation knows its own version of the node, and says it is done.
SavePins(w) ==
    LET h == HomeOf[w] IN
    /\ pc[w] = "save"
    /\ pins' = [pins EXCEPT ![h] = AtLeast(loaded[w], Cardinality(base[w] \cup {Mine(w)}))]
    /\ End(w, "done")
    /\ UNCHANGED <<remote, clones, attempt, base, loaded, rerun, round>>

-----------------------------------------------------------------------------
(* A read, without the lock *)

\* It walks the manifests of the worktree, whoever writes them.
View(r) ==
    LET tree == files[HomeOf[r]]["manifest"] IN
    /\ pc[r] = "load"
    /\ base' = [base EXCEPT ![r] = tree]
    /\ Goto(r, IF Cardinality(tree) < loaded[r] THEN "failed" ELSE "check")
    /\ UNCHANGED <<remote, clones, holder, pins, attempt, loaded, rerun, round>>

\* It reads the index and the object, which must have the digests that the
\* signed manifest leads to.
Check(r) ==
    /\ pc[r] = "check"
    /\ Goto(r, IF files[HomeOf[r]]["content"] = base[r] THEN "record" ELSE "failed")
    /\ UNCHANGED <<remote, clones, holder, pins, attempt, base, loaded, rerun, round>>

\* It saves the pins it loaded, advanced to the version it read.
Record(r) ==
    LET h == HomeOf[r] IN
    /\ pc[r] = "record"
    /\ pins' = [pins EXCEPT ![h] = AtLeast(loaded[r], Cardinality(base[r]))]
    /\ Goto(r, "done")
    /\ UNCHANGED <<remote, clones, holder, attempt, base, loaded, rerun, round>>

-----------------------------------------------------------------------------
(* Faults *)

\* The remote cannot be reached, or its answer is lost: the push may have been
\* accepted, and the user sees an error.
NetworkFails(c) ==
    /\ "network" \in Faults
    /\ pc[c] \in {"fetch", "refetch", "push", "answer"}
    /\ End(c, NotSynced(c))
    /\ UNCHANGED <<remote, clones, pins, attempt, base, loaded, rerun, round>>

\* The engine, or what runs between it and the commit, fails half way.
ApplyFails(w) ==
    /\ "engine" \in Faults
    /\ pc[w] \in {"content", "manifest", "commit"}
    /\ End(w, "failed")
    /\ UNCHANGED <<remote, clones, pins, attempt, base, loaded, rerun, round>>

\* The process dies; the lock of a dead process is free.
Crash(w) ==
    /\ "crash" \in Faults
    /\ pc[w] \in Locked
    /\ End(w, "crashed")
    /\ UNCHANGED <<remote, clones, pins, attempt, base, loaded, rerun, round>>

\* The user runs a mutation again that did not succeed.
Rerun(w) ==
    /\ pc[w] \in {"failed", "exhausted", "crashed"}
    /\ rerun < Reruns
    /\ rerun' = rerun + 1
    /\ round' = [round EXCEPT ![w] = rerun + 1]
    /\ attempt' = [attempt EXCEPT ![w] = 1]
    /\ Goto(w, "start")
    /\ UNCHANGED <<remote, clones, holder, pins, base, loaded>>

Step(c) ==
    \/ Lock(c) \/ LockFails(c) \/ Fetch(c) \/ ResetDone(c) \/ LoadPins(c)
    \/ \E f \in Files : ResetFile(c, f)

Mutate(w) ==
    \/ Load(w) \/ CommitAll(w) \/ Push(w) \/ Accepted(w) \/ PushRejected(w)
    \/ RetryOrGiveUp(w) \/ SavePins(w)
    \/ \E f \in Files : Write(w, f)

Read(r) == View(r) \/ Check(r) \/ Record(r)

Next ==
    \/ \E c \in Commands : Step(c) \/ NetworkFails(c)
    \/ \E w \in Writers : Mutate(w) \/ ApplyFails(w) \/ Crash(w) \/ Rerun(w)
    \/ \E r \in Readers : Read(r)

Spec == Init /\ [][Next]_vars

\* A command that is running goes on: it waits for nothing but the lock, and
\* not for ever.
Fairness ==
    /\ \A c \in Commands : WF_vars(Step(c))
    /\ \A w \in Writers : WF_vars(Mutate(w))
    /\ \A r \in Readers : WF_vars(Read(r))

FairSpec == Spec /\ Fairness

-----------------------------------------------------------------------------
(* Properties *)

\* What is published is the outcome of its history and of nothing else: no
\* update is lost in a race, no file of a crashed, failed or rejected command
\* of any process of the home is swept up by the commit of another, and no
\* commit holds a manifest without its contents (CommitAndPush stages the whole
\* worktree, store.go:184).
PublishedWhole == published = Whole(published.past)

\* The races, the lock, the retries and the crashes together are one log of
\* commands.  Each run takes effect once at most, on top of all before it, however
\* often it retries; a command that is run again because its answer was lost
\* takes effect again only if it is forced or was undone, and none is reported as
\* done that did not: a forced one in this very run (mutate2.go:97-148,
\* engine.go:194).
Log == INSTANCE CommandLog WITH
    Commands <- Writers,
    log <- published.past,
    run <- round,
    Runs <- 0..Reruns,
    result <- [w \in Writers |->
        IF pc[w] = "done" THEN "done"
        ELSE IF pc[w] \in Ended THEN "error" ELSE "running"]

ImplementsLog == Log!Spec

\* A push is only ever lost to another command that got through, never to an
\* earlier run of the same: a mutation that is at its n-th attempt has seen n - 1
\* effects of others published, and one that gives up has seen as many as it had
\* attempts (mutate2.go:97, store.go:215).
Others(w, contents) == {e \in contents : e[1] # w}

RetriesMeanProgress ==
    \A w \in Writers :
        Cardinality(Others(w, published.past)) >=
            IF pc[w] = "exhausted" THEN MaxRetries
            ELSE IF pc[w] \in {"refetch", "rereset"} THEN attempt[w]
            ELSE attempt[w] - 1

\* What a mutation saves does not take the pins of its home back to an older
\* version, although it saves what it loaded a whole retry loop ago and reads
\* save theirs without the lock meanwhile (mutate2.go:137-142).  A read may: it
\* saves what it loaded over what a mutation has saved since.
MutationsKeepPins ==
    [][\A w \in Writers :
           pc[w] = "save" /\ pc'[w] = "done" => pins'[HomeOf[w]] >= pins[HomeOf[w]]]_vars

\* A bound on the steps a command can still take: eleven stages at most in each
\* attempt, and in a reset the files still to check out.
Stages(step) ==
    CASE step = "start" -> 11
      [] step = "fetch" -> 10
      [] step = "reset" -> 9
      [] step = "pins" -> 8
      [] step = "load" -> 7
      [] step = "content" -> 6
      [] step = "manifest" -> 5
      [] step = "commit" -> 4
      [] step = "push" -> 3
      [] step \in {"answer", "refetch", "check"} -> 2
      [] step \in {"save", "rereset", "record"} -> 1
      [] OTHER -> 0

ToReset(c) ==
    IF pc[c] \in {"reset", "rereset"}
      THEN {f \in Files : files[HomeOf[c]][f] # fetched[HomeOf[c]].tree[f]}
      ELSE {}

Left(c) ==
    33 * (IF c \in Writers THEN MaxRetries - attempt[c] ELSE 0)
        + 3 * Stages(pc[c]) + Cardinality(ToReset(c))

\* Whatever runs besides, each step brings a command closer to its end and no
\* command further from it: no home undoes the reset of another, no lost race
\* starts a retry that does not count, and nothing but users who run failed
\* commands again keeps the store busy (mutate2.go:97, store.go:150-167).
StepsRunOut ==
    [][\/ /\ rerun' = rerun
          /\ \E c \in Commands : Left(c)' < Left(c)
          /\ \A c \in Commands : Left(c)' <= Left(c)
       \/ /\ rerun' = rerun + 1
          /\ \E w \in Writers : \A c \in Commands \ {w} : Left(c)' <= Left(c)]_vars

\* Every command ends, however the homes race and whatever crashes: nobody waits
\* for a lock for ever, and nobody retries for ever.
EveryCommandEnds == \A c \in Commands : <>[](pc[c] \in Ended)

-----------------------------------------------------------------------------
(* What the documents say and the code does not do *)

\* Once no mutation is under way, a home pins no version that was never
\* published: the next sync would bring an older one, and every command of the
\* home would refuse it.  "Use a lock around operations" (main-spec-v1.0).
PinsArePublished ==
    (\A w \in Writers : pc[w] \in Ended \cup {"start"}) =>
        \A h \in Homes : pins[h] <= Cardinality(published.past)
=============================================================================

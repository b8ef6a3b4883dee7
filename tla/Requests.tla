------------------------------ MODULE Requests ------------------------------
(***************************************************************************)
(* How an identity gets into a store.  A host (a machine, or the home of a *)
(* person who joins) pushes a signed and encrypted request to a branch of  *)
(* its own; an admin who runs approve fetches the request branches, enrols *)
(* the identities it does not know, grants what they ask for, publishes    *)
(* all of it as one commit and deletes the branches.                       *)
(*                                                                         *)
(* Commands of one home exclude each other by its lock, so each admin does *)
(* one thing at a time; that a commit is published whole or not at all is  *)
(* shown by module GitStore, and how a grant changes the tree by Manifest. *)
(* Here the published store is the set of identity records, the set of     *)
(* grants and the set of paths a failed call of the engine left torn: some *)
(* of their files rewritten, the manifests that vouch for them not signed  *)
(* again.  The keys of a host are written as the host; identity ids are    *)
(* random, so two enrolments never draw the same one.                      *)
(***************************************************************************)
EXTENDS Naturals, Sequences

CONSTANTS Admins,    \* the homes approve and revoke run in
          Hosts,     \* homes that request access
          Keyed,     \* machines on GitHub, which get a read-only deploy key
          Ids,       \* ids to enrol under (h_* and i_*)
          Requests,  \* request ids (rq_*)
          Paths,     \* namespaces and secrets of the store
          Wants,     \* what one request may ask for: sequences of paths
          Answer,    \* how the engine answers an admin who grants a path
          Faults,    \* what may fail: "network", "crash"
          None

ASSUME HostsAssumption ==
    /\ Keyed \subseteq Hosts
    /\ None \notin Ids

ASSUME PathsAssumption ==
    /\ Wants \subseteq Seq(Paths) \ {<<>>}
    /\ Answer \in [Admins -> [Paths -> {"grant", "missing", "route", "refuse"}]]

ASSUME FaultsAssumption == Faults \subseteq {"network", "crash"}

VARIABLES
    asked,      \* what each request says, once it was sent
    enrolling,  \* the id a host has just asked under, not yet in its config
    config,     \* the id in the config of each host
    branches,   \* request branches at the remote
    published,  \* identity records, grants and torn paths on main
    keys,       \* hosts whose deploy key is registered at GitHub
    tracking,   \* remote-tracking request branches of each admin's clone
    base,       \* what each admin's clone was last reset to
    stale,      \* whether main has moved since
    pc,         \* where the run of each admin is
    left,       \* requests it was told to approve and has not come to
    accepted,   \* requests it reported as approved
    added,      \* what it wrote into its worktree
    revoked     \* history: grants that were ever revoked

hosts == <<asked, enrolling, config>>
remote == <<branches, published, keys>>
clones == <<tracking, base, stale>>
run == <<pc, left, accepted, added>>
vars == <<hosts, remote, clones, run, revoked>>

Grants == Ids \X Paths
Contents == [ids : SUBSET Ids, grants : SUBSET Grants, torn : SUBSET Paths]
Nothing == [ids |-> {}, grants |-> {}, torn |-> {}]
Join(t, u) == [ids |-> t.ids \cup u.ids,
               grants |-> t.grants \cup u.grants,
               torn |-> t.torn \cup u.torn]

Unsent == [id |-> None, host |-> None, paths |-> <<>>]
Sent == {r \in Requests : asked[r] # Unsent}

TypeOK ==
    /\ asked \in [Requests -> [id : Ids, host : Hosts, paths : Wants] \cup {Unsent}]
    /\ enrolling \in [Hosts -> Ids \cup {None}]
    /\ config \in [Hosts -> Ids \cup {None}]
    /\ branches \subseteq Requests
    /\ published \in Contents
    /\ keys \subseteq Hosts
    /\ tracking \in [Admins -> SUBSET Requests]
    /\ base \in [Admins -> Contents]
    /\ stale \in [Admins -> BOOLEAN]
    /\ pc \in [Admins -> {"idle", "fetch", "approve", "push", "delete"}]
    /\ left \in [Admins -> SUBSET Requests]
    /\ accepted \in [Admins -> SUBSET Requests]
    /\ added \in [Admins -> Contents]
    /\ revoked \subseteq Grants

Init ==
    /\ asked = [r \in Requests |-> Unsent]
    /\ enrolling = [h \in Hosts |-> None]
    /\ config = [h \in Hosts |-> None]
    /\ branches = {}
    /\ published = Nothing
    /\ keys = {}
    /\ tracking = [a \in Admins |-> {}]
    /\ base = [a \in Admins |-> Nothing]
    /\ stale = [a \in Admins |-> FALSE]
    /\ pc = [a \in Admins |-> "idle"]
    /\ left = [a \in Admins |-> {}]
    /\ accepted = [a \in Admins |-> {}]
    /\ added = [a \in Admins |-> Nothing]
    /\ revoked = {}

-----------------------------------------------------------------------------
(* A host *)

Send(r, i, h, paths) ==
    /\ r \notin Sent
    /\ asked' = [asked EXCEPT ![r] = [id |-> i, host |-> h, paths |-> paths]]
    /\ branches' = branches \cup {r}

\* request or join in a home without a config: the host keeps the keys it may
\* have from an earlier attempt, draws a new id and pushes a request.
Enrol(h, r, i, paths) ==
    /\ config[h] = None
    /\ enrolling[h] = None
    /\ \A q \in Sent : asked[q].id # i
    /\ Send(r, i, h, paths)
    /\ enrolling' = [enrolling EXCEPT ![h] = i]
    /\ UNCHANGED <<config, published, keys, clones, run, revoked>>

\* Only then it saves its id.
SaveConfig(h) ==
    /\ enrolling[h] # None
    /\ config' = [config EXCEPT ![h] = enrolling[h]]
    /\ enrolling' = [enrolling EXCEPT ![h] = None]
    /\ UNCHANGED <<asked, remote, clones, run, revoked>>

\* The host dies in between, or never hears that its push was accepted.
EnrolFails(h) ==
    /\ Faults # {}
    /\ enrolling[h] # None
    /\ enrolling' = [enrolling EXCEPT ![h] = None]
    /\ UNCHANGED <<asked, config, remote, clones, run, revoked>>

\* Mutant: the host need not have been enrolled.
RequestAnyway(h, r, paths) ==
    /\ Send(r, config[h], h, paths)
    /\ UNCHANGED <<enrolling, config, published, keys, clones, run, revoked>>

\* request of a host that has a config, and a clone: a machine needs its deploy
\* key to be registered before it can make one.
Request(h, r, paths) ==
    /\ config[h] # None
    /\ h \in Keyed => h \in keys
    /\ Send(r, config[h], h, paths)
    /\ UNCHANGED <<enrolling, config, published, keys, clones, run, revoked>>

-----------------------------------------------------------------------------
(* approve *)

\* The run ends and the lock is free; its worktree is left as it is.
End(a) ==
    /\ pc' = [pc EXCEPT ![a] = "idle"]
    /\ left' = [left EXCEPT ![a] = {}]
    /\ accepted' = [accepted EXCEPT ![a] = {}]
    /\ added' = [added EXCEPT ![a] = Nothing]

\* The clone is reset to main.
Reset(a) ==
    /\ base' = [base EXCEPT ![a] = published]
    /\ stale' = [stale EXCEPT ![a] = FALSE]

Sync(a) ==
    /\ pc[a] = "idle"
    /\ pc' = [pc EXCEPT ![a] = "fetch"]
    /\ Reset(a)
    /\ UNCHANGED <<hosts, remote, tracking, left, accepted, added, revoked>>

\* The request branches are fetched, and the admin chooses from the
\* remote-tracking ones: those without a valid signature, for instance, are left
\* out.  A fetch adds branches and never removes any.
FetchRequestRefs(a, chosen) ==
    /\ pc[a] = "fetch"
    /\ tracking' = [tracking EXCEPT ![a] = @ \cup branches]
    /\ chosen \subseteq tracking'[a]
    /\ IF chosen = {} THEN End(a)
       ELSE /\ pc' = [pc EXCEPT ![a] = "approve"]
            /\ left' = [left EXCEPT ![a] = chosen]
            /\ UNCHANGED <<accepted, added>>
    /\ UNCHANGED <<hosts, remote, base, stale, revoked>>

Known(a) == base[a].ids \cup added[a].ids

\* The identity is new to the admin's clone and has to be given a deploy key.
NeedsKey(a, r) == asked[r].id \notin Known(a) /\ asked[r].host \in Keyed

\* How the engine may answer: a call on a torn path fails when it comes upon what
\* was rewritten, by the hashes in the manifest and the index.
Answers(a) ==
    LET torn == base[a].torn \cup added[a].torn IN
    {[p \in Paths |-> IF p \in failing THEN "refuse" ELSE Answer[a][p]] : failing \in SUBSET torn}

\* Paths of a request the engine comes to: it stops at the first refusal.
Reached(answer, paths) ==
    {n \in DOMAIN paths : \A m \in 1..(n - 1) : answer[paths[m]] # "refuse"}

PathsWith(answer, paths, what) ==
    {paths[n] : n \in {m \in Reached(answer, paths) : answer[paths[m]] = what}}

Granted(answer, paths) == PathsWith(answer, paths, "grant")
Refused(answer, paths) == \E n \in DOMAIN paths : answer[paths[n]] = "refuse"

\* One request is done with, and reported as approved or not.
Report(a, r, ok) ==
    /\ pc[a] = "approve"
    /\ r \in left[a]
    /\ left' = [left EXCEPT ![a] = @ \ {r}]
    /\ accepted' = [accepted EXCEPT ![a] = IF ok THEN @ \cup {r} ELSE @]

\* The record of the identity is written and the paths granted one after the
\* other.  The call that refuses one may have written some of its files by then.
Write(a, r, answer) ==
    LET paths == asked[r].paths IN
    \E torn \in SUBSET PathsWith(answer, paths, "refuse") :
        added' = [added EXCEPT ![a] =
                    Join(@, [ids |-> {asked[r].id},
                             grants |-> {asked[r].id} \X Granted(answer, paths),
                             torn |-> torn])]

\* Mutant: a request that could not be granted is reported as approved.
ApproveAnyway(a, r) ==
    /\ Report(a, r, TRUE)
    /\ NeedsKey(a, r) => asked[r].host \notin keys
    /\ keys' = IF NeedsKey(a, r) THEN keys \cup {asked[r].host} ELSE keys
    /\ \E answer \in Answers(a) : Write(a, r, answer)
    /\ UNCHANGED <<hosts, branches, published, clones, pc, revoked>>

\* Mutant: that the key could not be registered is ignored.
IgnoreKeyFailure(a, r) ==
    /\ keys' \in {keys, keys \cup {asked[r].host}}
    /\ \E answer \in Answers(a) :
          Report(a, r, ~Refused(answer, asked[r].paths)) /\ Write(a, r, answer)
    /\ UNCHANGED <<hosts, branches, published, clones, pc, revoked>>

\* The deploy key of a new identity is registered, then all is written; a path
\* that does not exist is skipped and one of another owner routed.  After a
\* refusal the next request is tried, and what was written for this one stays in
\* the worktree.
Approve(a, r) ==
    /\ NeedsKey(a, r) => asked[r].host \notin keys
    /\ keys' = IF NeedsKey(a, r) THEN keys \cup {asked[r].host} ELSE keys
    /\ \E answer \in Answers(a) :
          Report(a, r, ~Refused(answer, asked[r].paths)) /\ Write(a, r, answer)
    /\ UNCHANGED <<hosts, branches, published, clones, pc, revoked>>

\* GitHub cannot register the deploy key: a key it has is refused, a call may
\* fail, and the answer to one that succeeded may be lost.
AddKeyFails(a, r) ==
    /\ NeedsKey(a, r)
    /\ Report(a, r, FALSE)
    /\ \/ (asked[r].host \in keys \/ "network" \in Faults) /\ UNCHANGED keys
       \/ "network" \in Faults /\ keys' = keys \cup {asked[r].host}
    /\ UNCHANGED <<hosts, branches, published, clones, pc, added, revoked>>

\* All requests are done with.  If none was approved nothing is published.
Approved(a) ==
    /\ pc[a] = "approve"
    /\ left[a] = {}
    /\ IF accepted[a] = {} THEN End(a)
       ELSE pc' = [pc EXCEPT ![a] = "push"] /\ UNCHANGED <<left, accepted, added>>
    /\ UNCHANGED <<hosts, remote, clones, revoked>>

\* Whatever is new on main makes every clone stale.
Publish(t) ==
    /\ published' = t
    /\ stale' = [a \in Admins |-> TRUE]

\* Mutant: main is overwritten.
ForcePush(a) ==
    /\ pc[a] = "push"
    /\ Publish(Join(base[a], added[a]))
    /\ pc' = [pc EXCEPT ![a] = "delete"]
    /\ UNCHANGED <<hosts, branches, keys, tracking, base, left, accepted, added, revoked>>

\* The worktree is committed and pushed, which only a clone that is up to date
\* can do.
Push(a) ==
    /\ pc[a] = "push"
    /\ ~stale[a]
    /\ Publish(Join(base[a], added[a]))
    /\ pc' = [pc EXCEPT ![a] = "delete"]
    /\ UNCHANGED <<hosts, branches, keys, tracking, base, left, accepted, added, revoked>>

\* A run that wrote nothing new may have nothing to push.  (Whether granting what
\* is granted already writes anything is up to the engine.)
NothingToPush(a) ==
    /\ pc[a] = "push"
    /\ Join(base[a], added[a]) = base[a]
    /\ pc' = [pc EXCEPT ![a] = "delete"]
    /\ UNCHANGED <<hosts, remote, clones, left, accepted, added, revoked>>

\* Another home was faster: the clone is reset, unless that fails too, and the
\* admin is told to run approve again.
PushRejected(a) ==
    /\ pc[a] = "push"
    /\ stale[a]
    /\ \/ Reset(a)
       \/ "network" \in Faults /\ UNCHANGED <<base, stale>>
    /\ End(a)
    /\ UNCHANGED <<hosts, remote, tracking, revoked>>

\* The remote is not reached, or its answer is lost.
PushFails(a) ==
    /\ "network" \in Faults
    /\ pc[a] = "push"
    /\ \/ ~stale[a] /\ Publish(Join(base[a], added[a]))
       \/ UNCHANGED <<published, stale>>
    /\ End(a)
    /\ UNCHANGED <<hosts, branches, keys, tracking, base, revoked>>

\* The branch of an approved request is deleted, at the remote and here.
DeleteRequestBranch(a, r) ==
    /\ pc[a] = "delete"
    /\ r \in accepted[a]
    /\ branches' = branches \ {r}
    /\ tracking' = [tracking EXCEPT ![a] = @ \ {r}]
    /\ accepted' = [accepted EXCEPT ![a] = @ \ {r}]
    /\ UNCHANGED <<hosts, published, keys, base, stale, pc, left, added, revoked>>

\* It cannot be deleted, or is and the answer is lost: the admin goes on.
DeleteFails(a, r) ==
    /\ "network" \in Faults
    /\ pc[a] = "delete"
    /\ r \in accepted[a]
    /\ branches' \in {branches, branches \ {r}}
    /\ accepted' = [accepted EXCEPT ![a] = @ \ {r}]
    /\ UNCHANGED <<hosts, published, keys, clones, pc, left, added, revoked>>

Finish(a) ==
    /\ pc[a] = "delete"
    /\ accepted[a] = {}
    /\ End(a)
    /\ UNCHANGED <<hosts, remote, clones, revoked>>

Crash(a) ==
    /\ "crash" \in Faults
    /\ pc[a] # "idle"
    /\ End(a)
    /\ UNCHANGED <<hosts, remote, clones, revoked>>

\* revoke, a mutation of its own: nothing else of it matters here.  The record
\* of the identity and its deploy key stay.
Revoke(a, g) ==
    /\ pc[a] = "idle"
    /\ g \in published.grants
    /\ Answer[a][g[2]] = "grant"
    /\ Publish([published EXCEPT !.grants = @ \ {g}])
    /\ revoked' = revoked \cup {g}
    /\ UNCHANGED <<hosts, branches, keys, tracking, base, run>>

-----------------------------------------------------------------------------
Ask(h) ==
    \/ \E r \in Requests, i \in Ids, paths \in Wants : Enrol(h, r, i, paths)
    \/ SaveConfig(h) \/ EnrolFails(h)
    \/ \E r \in Requests, paths \in Wants : Request(h, r, paths)

Run(a) ==
    \/ Sync(a)
    \/ \E chosen \in SUBSET Requests : FetchRequestRefs(a, chosen)
    \/ \E r \in Requests : Approve(a, r) \/ AddKeyFails(a, r)
    \/ Approved(a) \/ Push(a) \/ NothingToPush(a) \/ PushRejected(a) \/ PushFails(a)
    \/ \E r \in Requests : DeleteRequestBranch(a, r) \/ DeleteFails(a, r)
    \/ Finish(a) \/ Crash(a)
    \/ \E g \in Grants : Revoke(a, g)

Next == (\E h \in Hosts : Ask(h)) \/ (\E a \in Admins : Run(a))

Spec == Init /\ [][Next]_vars

-----------------------------------------------------------------------------
(* Properties *)

\* A request whose branch is gone was answered in full: its identity is on
\* record, and some admin who refuses none of its paths granted all it may
\* grant, whatever failed or raced on the way.  Paths of others it has routed,
\* which no command reads; a path may be revoked later, or torn by the approval
\* of another request (approve2.go:171-175).
NoRequestLost ==
    \A r \in Sent \ branches :
        /\ asked[r].id \in published.ids
        /\ \E a \in Admins :
              /\ ~Refused(Answer[a], asked[r].paths)
              /\ {asked[r].id} \X Granted(Answer[a], asked[r].paths)
                    \subseteq published.grants \cup revoked

\* A machine on record can reach the store: "GitHub API first, [...] so an API
\* failure leaves the store untouched" (design-v2.0, section 7).
EnrolledHasKey ==
    \A r \in Sent : asked[r].id \in published.ids /\ asked[r].host \in Keyed
                       => asked[r].host \in keys

\* Nothing appears on main but what the run that pushes wrote itself: an
\* approval that races with a revocation never brings back what was revoked.
PushAddsItsOwn ==
    [][\A g \in published'.grants \ published.grants :
          \E a \in Admins : pc[a] = "push" /\ g \in added[a].grants]_vars

-----------------------------------------------------------------------------
(* What the documents and tests say and the code does not do *)

\* What was approved is not approved again (TestApproveRejectsAlreadyApproved):
\* a run only takes up requests that have a branch when it looks for them.
OnlyPendingTaken ==
    [][\A a \in Admins : pc[a] = "fetch" => left'[a] \subseteq branches]_vars

\* An approval writes the identity, registers the key and applies the grants
\* "atomically" (design-v2.0, section 7): every grant a run is about to publish
\* belongs to a request it approved.
ApprovalAtomic ==
    \A a \in Admins : pc[a] = "push" =>
        \A g \in added[a].grants : \E r \in accepted[a] :
            g \in {asked[r].id} \X Granted(Answer[a], asked[r].paths)
=============================================================================

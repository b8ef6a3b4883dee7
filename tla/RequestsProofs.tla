--------------------------- MODULE RequestsProofs ---------------------------
(***************************************************************************)
(* Proofs about requests and approvals: types, the deploy key of every     *)
(* machine on record, that a push publishes nothing but what its run wrote,*)
(* and that no request is lost.                                            *)
(***************************************************************************)
EXTENDS Requests, TLAPS

-----------------------------------------------------------------------------
(* Types *)

\* What a request is granted or refused are paths of the store.
LEMMA PathsOf ==
    ASSUME NEW answer, NEW paths \in Wants, NEW what
    PROVE  PathsWith(answer, paths, what) \in SUBSET Paths
<1>1. paths \in Seq(Paths)
  BY PathsAssumption
<1>2. \A n \in DOMAIN paths : paths[n] \in Paths
  BY <1>1
<1> QED
  BY <1>2 DEF PathsWith, Reached

\* An admin whom no torn path stops grants what it may grant.
LEMMA AnswersFacts ==
    ASSUME NEW a \in Admins, NEW paths \in Wants, NEW answer \in Answers(a),
           ~Refused(answer, paths)
    PROVE  /\ ~Refused(Answer[a], paths)
           /\ Granted(answer, paths) = Granted(Answer[a], paths)
<1>1. paths \in Seq(Paths)
  BY PathsAssumption
<1>2. \A n \in DOMAIN paths : n \in Nat /\ paths[n] \in Paths
  BY <1>1
<1>3. \A n \in DOMAIN paths : answer[paths[n]] # "refuse"
  BY DEF Refused
<1>4. \A n \in DOMAIN paths : answer[paths[n]] = Answer[a][paths[n]]
  BY <1>2, <1>3 DEF Answers
<1>5. Reached(answer, paths) = DOMAIN paths /\ Reached(Answer[a], paths) = DOMAIN paths
  <2>1. \A n \in DOMAIN paths : \A m \in 1..(n - 1) : m \in DOMAIN paths
    BY <1>1
  <2> QED
    BY <2>1, <1>3, <1>4 DEF Reached
<1> QED
  BY <1>3, <1>4, <1>5 DEF Refused, Granted, PathsWith

\* The contents of a store are closed under what the actions do to them.
LEMMA ContentsFacts ==
    /\ Nothing \in Contents
    /\ \A t, u \in Contents : Join(t, u) \in Contents
    /\ \A t \in Contents, g \in Grants : [t EXCEPT !.grants = @ \ {g}] \in Contents
BY DEF Nothing, Contents, Join

\* A request that was sent carries an id, a host and paths.
LEMMA SentType ==
    ASSUME TypeOK, NEW r \in Sent
    PROVE  /\ r \in Requests
           /\ asked[r].id \in Ids /\ asked[r].host \in Hosts /\ asked[r].paths \in Wants
<1>1. asked[r] \in [id : Ids, host : Hosts, paths : Wants]
  BY DEF TypeOK, Sent
<1> QED
  BY <1>1 DEF Sent

\* What an approval writes, whatever it tears, is well typed.
LEMMA WriteFacts ==
    ASSUME TypeOK, NEW a \in Admins, NEW r \in Sent, NEW answer, Write(a, r, answer)
    PROVE  /\ added' \in [Admins -> Contents]
           /\ \A b \in Admins \ {a} : added'[b] = added[b]
           /\ added'[a].ids = added[a].ids \cup {asked[r].id}
           /\ added'[a].grants = added[a].grants
                 \cup ({asked[r].id} \X Granted(answer, asked[r].paths))
<1>1. PICK torn \in SUBSET PathsWith(answer, asked[r].paths, "refuse") :
        added' = [added EXCEPT ![a] =
                    Join(@, [ids |-> {asked[r].id},
                             grants |-> {asked[r].id} \X Granted(answer, asked[r].paths),
                             torn |-> torn])]
  BY DEF Write
<1> DEFINE w == [ids |-> {asked[r].id},
                 grants |-> {asked[r].id} \X Granted(answer, asked[r].paths),
                 torn |-> torn]
<1>2. w \in Contents
  <2>1. asked[r].id \in Ids /\ asked[r].paths \in Wants
    BY SentType
  <2>2. Granted(answer, asked[r].paths) \in SUBSET Paths /\ torn \in SUBSET Paths
    BY <2>1, PathsOf DEF Granted
  <2> QED
    BY <2>1, <2>2 DEF Contents, Grants
<1>3. Join(added[a], w) \in Contents
  BY <1>2, ContentsFacts DEF TypeOK
<1> QED
  BY <1>1, <1>3 DEF TypeOK, Join

\* A run that ends leaves well-typed runs.
LEMMA EndType ==
    ASSUME TypeOK, NEW a \in Admins, End(a)
    PROVE  /\ pc' \in [Admins -> {"idle", "fetch", "approve", "push", "delete"}]
           /\ left' \in [Admins -> SUBSET Requests]
           /\ accepted' \in [Admins -> SUBSET Requests]
           /\ added' \in [Admins -> Contents]
BY ContentsFacts DEF TypeOK, End

\* Only what was sent is in the hands of an admin.
SentInv ==
    /\ branches \subseteq Sent
    /\ \A a \in Admins : tracking[a] \cup left[a] \cup accepted[a] \subseteq Sent

\* Every step keeps the types.
LEMMA TypeStep == TypeOK /\ SentInv /\ [Next]_vars => TypeOK'
<1> SUFFICES ASSUME TypeOK, SentInv, [Next]_vars PROVE TypeOK'
  OBVIOUS
<1>1. ASSUME NEW h \in Hosts, NEW r \in Requests, NEW i \in Ids, NEW paths \in Wants, Enrol(h, r, i, paths) PROVE TypeOK'
  BY <1>1 DEF TypeOK, Enrol, Send, hosts, remote, clones, run, Sent, Unsent
<1>2. ASSUME NEW h \in Hosts, SaveConfig(h) PROVE TypeOK'
  BY <1>2 DEF TypeOK, SaveConfig, hosts, remote, clones, run
<1>3. ASSUME NEW h \in Hosts, EnrolFails(h) PROVE TypeOK'
  BY <1>3 DEF TypeOK, EnrolFails, hosts, remote, clones, run
<1>4. ASSUME NEW h \in Hosts, NEW r \in Requests, NEW paths \in Wants, Request(h, r, paths) PROVE TypeOK'
  BY <1>4, HostsAssumption DEF TypeOK, Request, Send, hosts, remote, clones, run, Sent, Unsent
<1>5. ASSUME NEW a \in Admins, Sync(a) PROVE TypeOK'
  BY <1>5 DEF TypeOK, Sync, Reset, hosts, remote, clones, run
<1>6. ASSUME NEW a \in Admins, NEW chosen \in SUBSET Requests, FetchRequestRefs(a, chosen) PROVE TypeOK'
  BY <1>6, EndType DEF TypeOK, FetchRequestRefs, hosts, remote, clones, run
<1>7. ASSUME NEW a \in Admins, NEW r \in Requests, Approve(a, r) PROVE TypeOK'
  <2>1. r \in Sent /\ \E answer \in Answers(a) : Write(a, r, answer)
    BY <1>7 DEF SentInv, Approve, Report
  <2>2. added' \in [Admins -> Contents]
    BY <2>1, WriteFacts
  <2>3. asked[r].host \in Hosts
    BY <2>1, SentType
  <2>4. /\ left' = [left EXCEPT ![a] = @ \ {r}]
        /\ accepted' = [accepted EXCEPT ![a] = @ \cup {r}] \/ accepted' = [accepted EXCEPT ![a] = @]
        /\ keys' = keys \/ keys' = keys \cup {asked[r].host}
        /\ UNCHANGED <<hosts, branches, published, clones, pc, revoked>>
    BY <1>7 DEF Approve, Report
  <2> QED
    BY <2>2, <2>3, <2>4 DEF TypeOK, hosts, clones
<1>8. ASSUME NEW a \in Admins, NEW r \in Requests, AddKeyFails(a, r) PROVE TypeOK'
  <2>4. asked[r].host \in Hosts
    BY <1>8, SentType DEF SentInv, Approve, AddKeyFails, Report
  <2> QED
    BY <1>8, <2>4 DEF TypeOK, AddKeyFails, Report, hosts, remote, clones, run
<1>9. ASSUME NEW a \in Admins, Approved(a) PROVE TypeOK'
  BY <1>9, EndType DEF TypeOK, Approved, hosts, remote, clones, run
<1>10. ASSUME NEW a \in Admins, Push(a) PROVE TypeOK'
  <2>1. Join(base[a], added[a]) \in Contents
    BY ContentsFacts DEF TypeOK
  <2> QED
    BY <1>10, <2>1 DEF TypeOK, Push, Publish, hosts, remote, clones, run
<1>11. ASSUME NEW a \in Admins, NothingToPush(a) PROVE TypeOK'
  BY <1>11 DEF TypeOK, NothingToPush, hosts, remote, clones, run
<1>12. ASSUME NEW a \in Admins, PushRejected(a) PROVE TypeOK'
  <2>1. base' \in [Admins -> Contents] /\ stale' \in [Admins -> BOOLEAN]
    <3>1. published \in Contents /\ base \in [Admins -> Contents] /\ stale \in [Admins -> BOOLEAN]
      BY DEF TypeOK
    <3>2. Reset(a) \/ UNCHANGED <<base, stale>>
      BY <1>12 DEF PushRejected
    <3> QED
      BY <3>1, <3>2 DEF Reset
  <2>2. /\ pc' \in [Admins -> {"idle", "fetch", "approve", "push", "delete"}]
        /\ left' \in [Admins -> SUBSET Requests]
        /\ accepted' \in [Admins -> SUBSET Requests]
        /\ added' \in [Admins -> Contents]
    BY <1>12, EndType DEF PushRejected
  <2> QED
    BY <1>12, <2>1, <2>2 DEF TypeOK, PushRejected, hosts, remote
<1>13. ASSUME NEW a \in Admins, PushFails(a) PROVE TypeOK'
  <2>1. Join(base[a], added[a]) \in Contents
    BY ContentsFacts DEF TypeOK
  <2> QED
    BY <1>13, <2>1, EndType DEF TypeOK, PushFails, Publish, hosts, remote, clones, run
<1>14. ASSUME NEW a \in Admins, NEW r \in Requests, DeleteRequestBranch(a, r) PROVE TypeOK'
  BY <1>14 DEF TypeOK, DeleteRequestBranch, hosts, remote, clones, run
<1>15. ASSUME NEW a \in Admins, NEW r \in Requests, DeleteFails(a, r) PROVE TypeOK'
  BY <1>15 DEF TypeOK, DeleteFails, hosts, remote, clones, run
<1>16. ASSUME NEW a \in Admins, Finish(a) PROVE TypeOK'
  BY <1>16, EndType DEF TypeOK, Finish, hosts, remote, clones, run
<1>17. ASSUME NEW a \in Admins, Crash(a) PROVE TypeOK'
  BY <1>17, EndType DEF TypeOK, Crash, hosts, remote, clones, run
<1>18. ASSUME NEW a \in Admins, NEW g \in Grants, Revoke(a, g) PROVE TypeOK'
  <2>1. [published EXCEPT !.grants = @ \ {g}] \in Contents
    BY ContentsFacts DEF TypeOK
  <2> QED
    BY <1>18, <2>1 DEF TypeOK, Revoke, Publish, hosts, remote, clones, run
<1>19. CASE UNCHANGED vars
  BY <1>19 DEF TypeOK, hosts, remote, clones, run, vars
<1>20. QED
  BY <1>1, <1>2, <1>3, <1>4, <1>5, <1>6, <1>7, <1>8, <1>9, <1>10, <1>11, <1>12, <1>13, <1>14, <1>15, <1>16, <1>17, <1>18, <1>19 DEF Next, Ask, Run

\* Sending adds one request with its branch and changes no other.
LEMMA SendFacts ==
    ASSUME TypeOK, NEW r \in Requests, NEW i \in Ids, NEW h \in Hosts, NEW paths \in Wants,
           Send(r, i, h, paths)
    PROVE  /\ Sent' = Sent \cup {r}
           /\ r \notin Sent
           /\ asked'[r] = [id |-> i, host |-> h, paths |-> paths]
           /\ \A q \in Sent : asked'[q] = asked[q]
           /\ branches' = branches \cup {r}
<1>1. i # None
  BY HostsAssumption
<1> QED
  BY <1>1 DEF Send, Sent, TypeOK, Unsent

\* Every step keeps SentInv: branches are only made by sending, and an admin
\* takes requests from them.
LEMMA SentStep == TypeOK /\ SentInv /\ [Next]_vars => SentInv'
<1> SUFFICES ASSUME TypeOK, SentInv, [Next]_vars PROVE SentInv'
  OBVIOUS
<1>1. ASSUME NEW h \in Hosts, NEW r \in Requests, NEW i \in Ids, NEW paths \in Wants, Enrol(h, r, i, paths) PROVE SentInv'
  <2>1. Send(r, i, h, paths) /\ tracking' = tracking /\ left' = left /\ accepted' = accepted
    BY <1>1 DEF Enrol, clones, run
  <2>2. Sent' = Sent \cup {r} /\ branches' = branches \cup {r}
    BY <2>1, SendFacts
  <2> QED
    BY <2>1, <2>2 DEF SentInv
<1>2. ASSUME NEW h \in Hosts, SaveConfig(h) PROVE SentInv'
  BY <1>2 DEF SentInv, TypeOK, Sent, SaveConfig, hosts, remote, clones, run
<1>3. ASSUME NEW h \in Hosts, EnrolFails(h) PROVE SentInv'
  BY <1>3 DEF SentInv, TypeOK, Sent, EnrolFails, hosts, remote, clones, run
<1>4. ASSUME NEW h \in Hosts, NEW r \in Requests, NEW paths \in Wants, Request(h, r, paths) PROVE SentInv'
  <2>1. config[h] \in Ids
    BY <1>4 DEF TypeOK, Request
  <2> QED
    BY <1>4, <2>1, SendFacts DEF SentInv, Request, clones, run
<1>5. ASSUME NEW a \in Admins, Sync(a) PROVE SentInv'
  BY <1>5 DEF SentInv, TypeOK, Sent, Sync, hosts, remote, clones, run
<1>6. ASSUME NEW a \in Admins, NEW chosen \in SUBSET Requests, FetchRequestRefs(a, chosen) PROVE SentInv'
  BY <1>6 DEF SentInv, TypeOK, Sent, FetchRequestRefs, End, hosts, remote, clones, run
<1>7. ASSUME NEW a \in Admins, NEW r \in Requests, Approve(a, r) PROVE SentInv'
  BY <1>7 DEF SentInv, TypeOK, Sent, Approve, Report, hosts, remote, clones, run
<1>8. ASSUME NEW a \in Admins, NEW r \in Requests, AddKeyFails(a, r) PROVE SentInv'
  BY <1>8 DEF SentInv, TypeOK, Sent, AddKeyFails, Report, hosts, remote, clones, run
<1>9. ASSUME NEW a \in Admins, Approved(a) PROVE SentInv'
  BY <1>9 DEF SentInv, TypeOK, Sent, Approved, End, hosts, remote, clones, run
<1>10. ASSUME NEW a \in Admins, Push(a) PROVE SentInv'
  BY <1>10 DEF SentInv, TypeOK, Sent, Push, Publish, Join, hosts, remote, clones, run
<1>11. ASSUME NEW a \in Admins, NothingToPush(a) PROVE SentInv'
  BY <1>11 DEF SentInv, TypeOK, Sent, NothingToPush, hosts, remote, clones, run
<1>12. ASSUME NEW a \in Admins, PushRejected(a) PROVE SentInv'
  BY <1>12 DEF SentInv, TypeOK, Sent, PushRejected, End, hosts, remote, clones, run
<1>13. ASSUME NEW a \in Admins, PushFails(a) PROVE SentInv'
  BY <1>13 DEF SentInv, TypeOK, Sent, PushFails, Publish, End, Join, hosts, remote, clones, run
<1>14. ASSUME NEW a \in Admins, NEW r \in Requests, DeleteRequestBranch(a, r) PROVE SentInv'
  BY <1>14 DEF SentInv, TypeOK, Sent, DeleteRequestBranch, hosts, remote, clones, run
<1>15. ASSUME NEW a \in Admins, NEW r \in Requests, DeleteFails(a, r) PROVE SentInv'
  BY <1>15 DEF SentInv, TypeOK, Sent, DeleteFails, hosts, remote, clones, run
<1>16. ASSUME NEW a \in Admins, Finish(a) PROVE SentInv'
  BY <1>16 DEF SentInv, TypeOK, Sent, Finish, End, hosts, remote, clones, run
<1>17. ASSUME NEW a \in Admins, Crash(a) PROVE SentInv'
  BY <1>17 DEF SentInv, TypeOK, Sent, Crash, End, hosts, remote, clones, run
<1>18. ASSUME NEW a \in Admins, NEW g \in Grants, Revoke(a, g) PROVE SentInv'
  BY <1>18 DEF SentInv, TypeOK, Sent, Revoke, Publish, hosts, remote, clones, run
<1>19. CASE UNCHANGED vars
  BY <1>19 DEF SentInv, Sent, vars, hosts, remote, clones, run
<1>20. QED
  BY <1>1, <1>2, <1>3, <1>4, <1>5, <1>6, <1>7, <1>8, <1>9, <1>10, <1>11, <1>12, <1>13, <1>14, <1>15, <1>16, <1>17, <1>18, <1>19 DEF Next, Ask, Run

-----------------------------------------------------------------------------
(* What only grows *)

\* A request stays what it was when it was sent, a new one has a branch, and a
\* deploy key is never taken away.
LEMMA AskedStep ==
    ASSUME TypeOK, [Next]_vars
    PROVE  /\ Sent \subseteq Sent'
           /\ \A r \in Sent : asked'[r] = asked[r]
           /\ Sent' \ Sent \subseteq branches'
           /\ keys \subseteq keys'
<1> DEFINE Goal == /\ Sent \subseteq Sent'
                   /\ \A r \in Sent : asked'[r] = asked[r]
                   /\ Sent' \ Sent \subseteq branches'
                   /\ keys \subseteq keys'
<1>1. ASSUME NEW h \in Hosts, Ask(h) PROVE Goal
  <2>1. ASSUME NEW r \in Requests, NEW i \in Ids, NEW paths \in Wants, Enrol(h, r, i, paths)
        PROVE  Goal
    BY <2>1, SendFacts DEF Enrol
  <2>2. ASSUME NEW r \in Requests, NEW paths \in Wants, Request(h, r, paths)
        PROVE  Goal
    <3>1. config[h] \in Ids
      BY <2>2 DEF TypeOK, Request
    <3> QED
      BY <2>2, <3>1, SendFacts DEF Request
  <2>3. CASE SaveConfig(h) \/ EnrolFails(h)
    BY <2>3 DEF SaveConfig, EnrolFails, Sent, remote
  <2> QED
    BY <1>1, <2>1, <2>2, <2>3 DEF Ask
<1>2. ASSUME NEW a \in Admins, Run(a) PROVE Goal
  <2>1. asked' = asked /\ keys \subseteq keys'
    BY <1>2 DEF Run, Sync, FetchRequestRefs, Approve, AddKeyFails, Approved, Push, NothingToPush,
                PushRejected, PushFails, DeleteRequestBranch, DeleteFails, Finish, Crash, Revoke,
                hosts, remote
  <2> QED
    BY <2>1 DEF Sent
<1>3. CASE UNCHANGED vars
  BY <1>3 DEF Sent, vars, hosts, remote
<1> QED
  BY <1>1, <1>2, <1>3 DEF Next

\* Ids are drawn once: an id belongs to the host that asked under it.
Asks(h, i) == \E r \in Sent : asked[r].host = h /\ asked[r].id = i

IdsInv ==
    /\ \A q, r \in Sent : asked[q].id = asked[r].id => asked[q].host = asked[r].host
    /\ \A h \in Hosts : enrolling[h] # None => Asks(h, enrolling[h])
    /\ \A h \in Hosts : config[h] # None => Asks(h, config[h])

\* Every step keeps it: an enrolment draws a new id, and a later request is
\* sent under the one the host has.
LEMMA IdsStep == TypeOK /\ IdsInv /\ [Next]_vars => IdsInv'
<1> SUFFICES ASSUME TypeOK, IdsInv, [Next]_vars PROVE IdsInv'
  OBVIOUS
<1>1. ASSUME NEW h \in Hosts, NEW r \in Requests, NEW i \in Ids, NEW paths \in Wants,
             Send(r, i, h, paths),
             \A q \in Sent : asked[q].id = i => asked[q].host = h
      PROVE  /\ \A p, q \in Sent' : asked'[p].id = asked'[q].id => asked'[p].host = asked'[q].host
             /\ \A g \in Hosts, j \in Ids : Asks(g, j) => Asks(g, j)'
             /\ Asks(h, i)'
  <2>1. /\ Sent' = Sent \cup {r}
        /\ asked'[r].id = i /\ asked'[r].host = h
        /\ \A q \in Sent : asked'[q] = asked[q]
    <3>1. /\ Sent' = Sent \cup {r}
          /\ asked'[r] = [id |-> i, host |-> h, paths |-> paths]
          /\ \A q \in Sent : asked'[q] = asked[q]
      BY <1>1, SendFacts
    <3> QED
      BY <3>1
  <2>2. \A p, q \in Sent' : asked'[p].id = asked'[q].id => asked'[p].host = asked'[q].host
    BY <1>1, <2>1 DEF IdsInv
  <2>3. \A g \in Hosts, j \in Ids : Asks(g, j) => Asks(g, j)'
    BY <2>1 DEF Asks
  <2>4. Asks(h, i)'
    BY <2>1 DEF Asks
  <2> QED
    BY <2>2, <2>3, <2>4
<1>2. ASSUME NEW h \in Hosts, NEW r \in Requests, NEW i \in Ids, NEW paths \in Wants,
             Enrol(h, r, i, paths)
      PROVE  IdsInv'
  <2>1. /\ Send(r, i, h, paths)
        /\ \A q \in Sent : asked[q].id = i => asked[q].host = h
        /\ enrolling' = [enrolling EXCEPT ![h] = i]
        /\ config' = config
    BY <1>2 DEF Enrol
  <2>2. /\ \A p, q \in Sent' : asked'[p].id = asked'[q].id => asked'[p].host = asked'[q].host
        /\ \A g \in Hosts, j \in Ids : Asks(g, j) => Asks(g, j)'
        /\ Asks(h, i)'
    BY <1>1, <2>1
  <2>3. ASSUME NEW g \in Hosts, enrolling'[g] # None PROVE Asks(g, enrolling[g])' \/ g = h
    BY <2>1, <2>2, <2>3 DEF IdsInv, TypeOK, Asks
  <2>4. Asks(h, enrolling[h])'
    BY <2>1, <2>2 DEF TypeOK, Asks
  <2>5. ASSUME NEW g \in Hosts, config'[g] # None PROVE Asks(g, config[g])'
    BY <2>1, <2>2, <2>5 DEF IdsInv, TypeOK, Asks
  <2> QED
    BY <2>2, <2>3, <2>4, <2>5 DEF IdsInv
<1>3. ASSUME NEW h \in Hosts, NEW r \in Requests, NEW paths \in Wants, Request(h, r, paths)
      PROVE  IdsInv'
  <2>1. /\ Send(r, config[h], h, paths)
        /\ config[h] \in Ids
        /\ UNCHANGED <<enrolling, config>>
    BY <1>3 DEF Request, TypeOK
  <2>2. \A q \in Sent : asked[q].id = config[h] => asked[q].host = h
    BY <1>3 DEF IdsInv, Request, Asks
  <2>3. /\ \A p, q \in Sent' : asked'[p].id = asked'[q].id => asked'[p].host = asked'[q].host
        /\ \A g \in Hosts, j \in Ids : Asks(g, j) => Asks(g, j)'
    BY <1>1, <2>1, <2>2
  <2> QED
    BY <2>1, <2>3 DEF IdsInv, TypeOK, Asks
<1>4. ASSUME NEW h \in Hosts, SaveConfig(h) \/ EnrolFails(h) PROVE IdsInv'
  BY <1>4 DEF IdsInv, TypeOK, Asks, Sent, SaveConfig, EnrolFails
<1>5. ASSUME UNCHANGED <<asked, enrolling, config>> PROVE IdsInv'
  BY <1>5 DEF IdsInv, Asks, Sent
<1>6. ASSUME NEW a \in Admins, Run(a) PROVE UNCHANGED <<asked, enrolling, config>>
  BY <1>6 DEF Run, Sync, FetchRequestRefs, Approve, AddKeyFails, Approved, Push, NothingToPush,
              PushRejected, PushFails, DeleteRequestBranch, DeleteFails, Finish, Crash, Revoke, hosts
<1>7. CASE UNCHANGED vars
  BY <1>5, <1>7 DEF vars, hosts
<1> QED
  BY <1>2, <1>3, <1>4, <1>5, <1>6, <1>7 DEF Next, Ask

-----------------------------------------------------------------------------
(* Clones, and what a push publishes *)

\* Nothing is in hand before the requests were fetched.
IdleInv ==
    \A a \in Admins : pc[a] \in {"idle", "fetch"} =>
        left[a] = {} /\ accepted[a] = {} /\ added[a] = Nothing

\* Every step keeps it: a run ends with nothing in hand.
LEMMA IdleStep == TypeOK /\ SentInv /\ IdleInv /\ [Next]_vars => IdleInv'
<1> SUFFICES ASSUME TypeOK, SentInv, IdleInv, [Next]_vars PROVE IdleInv'
  OBVIOUS
<1>1. ASSUME NEW h \in Hosts, Ask(h) PROVE UNCHANGED run
  BY <1>1 DEF Ask, Enrol, SaveConfig, EnrolFails, Request
<1>2. ASSUME NEW a \in Admins, End(a) PROVE IdleInv'
  BY <1>2 DEF IdleInv, TypeOK, End
<1>3. ASSUME NEW a \in Admins, pc' = [pc EXCEPT ![a] = "push"] \/ pc' = [pc EXCEPT ![a] = "delete"],
             UNCHANGED <<left, accepted, added>>
      PROVE  IdleInv'
  BY <1>3 DEF IdleInv, TypeOK
<1>4. ASSUME NEW a \in Admins, NEW r \in Requests,
             Approve(a, r) \/ AddKeyFails(a, r) \/ DeleteRequestBranch(a, r) \/ DeleteFails(a, r)
      PROVE  IdleInv'
  <2>1. CASE Approve(a, r)
    <3>1. /\ pc[a] = "approve" /\ pc' = pc
          /\ \A b \in Admins \ {a} : left'[b] = left[b] /\ accepted'[b] = accepted[b]
      BY <2>1 DEF TypeOK, Approve, Report
    <3>2. \A b \in Admins \ {a} : added'[b] = added[b]
      BY <2>1, WriteFacts DEF SentInv, Approve, Report
    <3> QED
      BY <3>1, <3>2 DEF IdleInv
  <2> QED
    BY <1>4, <2>1 DEF IdleInv, TypeOK, AddKeyFails, Report, DeleteRequestBranch, DeleteFails
<1>5. ASSUME NEW a \in Admins, NEW chosen \in SUBSET Requests, FetchRequestRefs(a, chosen)
      PROVE  IdleInv'
  BY <1>2, <1>5 DEF IdleInv, TypeOK, FetchRequestRefs
<1>6. ASSUME NEW a \in Admins, Sync(a) PROVE IdleInv'
  BY <1>6 DEF IdleInv, TypeOK, Sync
<1>7. CASE UNCHANGED run
  BY <1>7 DEF IdleInv, run
<1>8. ASSUME NEW a \in Admins, NEW g \in Grants, Revoke(a, g) PROVE UNCHANGED run
  BY <1>8 DEF Revoke
<1>9. ASSUME NEW a \in Admins, Approved(a) \/ Push(a) \/ NothingToPush(a) \/ PushRejected(a)
                                  \/ PushFails(a) \/ Finish(a) \/ Crash(a)
      PROVE  IdleInv'
  BY <1>2, <1>3, <1>9 DEF Approved, Push, NothingToPush, PushRejected, PushFails, Finish, Crash
<1> QED
  BY <1>1, <1>4, <1>5, <1>6, <1>7, <1>8, <1>9 DEF Next, Run, vars

\* A clone holds what main holds or held, and exactly that unless it is stale.
CloneInv ==
    \A a \in Admins :
        /\ base[a].ids \subseteq published.ids
        /\ base[a].grants \subseteq published.grants \cup revoked
        /\ ~stale[a] => base[a] = published

\* A push takes nothing from main, as only a clone that is up to date can push.
LEMMA PublishFacts ==
    ASSUME CloneInv, NEW a \in Admins, ~stale[a], Publish(Join(base[a], added[a]))
    PROVE  /\ published' = Join(published, added[a])
           /\ published.ids \subseteq published'.ids
           /\ published.grants \subseteq published'.grants
BY DEF CloneInv, Publish, Join

\* In any step an id stays on record, and a grant on main or among the revoked.
LEMMA PublishedStep ==
    ASSUME TypeOK, CloneInv, [Next]_vars
    PROVE  /\ published.ids \subseteq published'.ids
           /\ published.grants \cup revoked \subseteq published'.grants \cup revoked'
<1> DEFINE Goal == /\ published.ids \subseteq published'.ids
                   /\ published.grants \cup revoked \subseteq published'.grants \cup revoked'
<1>1. ASSUME NEW a \in Admins, Push(a) \/ PushFails(a) PROVE Goal
  BY <1>1, PublishFacts DEF Push, PushFails
<1>2. ASSUME NEW a \in Admins, NEW g \in Grants, Revoke(a, g) PROVE Goal
  BY <1>2 DEF Revoke, Publish, TypeOK, Contents
<1>3. CASE UNCHANGED <<published, revoked>>
  BY <1>3
<1>4. ASSUME NEW h \in Hosts, Ask(h) PROVE UNCHANGED <<published, revoked>>
  BY <1>4 DEF Ask, Enrol, SaveConfig, EnrolFails, Request, remote
<1>5. ASSUME NEW a \in Admins, Run(a),
             ~ Push(a), ~ PushFails(a), ~ \E g \in Grants : Revoke(a, g)
      PROVE  UNCHANGED <<published, revoked>>
  BY <1>5 DEF Run, Sync, FetchRequestRefs, Approve, AddKeyFails, Approved, NothingToPush,
              PushRejected, DeleteRequestBranch, DeleteFails, Finish, Crash, remote
<1>6. CASE UNCHANGED vars
  BY <1>6 DEF vars, remote
<1> QED
  BY <1>1, <1>2, <1>3, <1>4, <1>5, <1>6 DEF Next

\* Every step keeps CloneInv: a reset makes the clone what main is, and
\* whoever changes main makes every clone stale.
LEMMA CloneStep == TypeOK /\ CloneInv /\ [Next]_vars => CloneInv'
<1> SUFFICES ASSUME TypeOK, CloneInv, [Next]_vars PROVE CloneInv'
  OBVIOUS
<1>1. /\ published.ids \subseteq published'.ids
      /\ published.grants \cup revoked \subseteq published'.grants \cup revoked'
  BY PublishedStep
<1>2. ASSUME base' = base, stale' = stale, published' = published PROVE CloneInv'
  BY <1>1, <1>2 DEF CloneInv
<1>3. ASSUME base' = base, stale' = [a \in Admins |-> TRUE] PROVE CloneInv'
  BY <1>1, <1>3 DEF CloneInv
<1>4. ASSUME NEW a \in Admins, Reset(a), published' = published PROVE CloneInv'
  BY <1>1, <1>4 DEF CloneInv, TypeOK, Reset
<1>5. ASSUME NEW a \in Admins, Run(a), ~ (Reset(a) /\ published' = published)
      PROVE  base' = base /\ \/ stale' = stale /\ published' = published
                             \/ stale' = [b \in Admins |-> TRUE]
  BY <1>5 DEF Run, Sync, FetchRequestRefs, Approve, AddKeyFails, Approved, Push, NothingToPush, PushRejected,
              PushFails, DeleteRequestBranch, DeleteFails, Finish, Crash, Revoke, Publish, clones, remote
<1>6. ASSUME NEW h \in Hosts, Ask(h) PROVE UNCHANGED <<base, stale, published>>
  BY <1>6 DEF Ask, Enrol, SaveConfig, EnrolFails, Request, clones, remote
<1>7. CASE UNCHANGED vars
  BY <1>2, <1>7 DEF vars, clones, remote
<1> QED
  BY <1>2, <1>3, <1>4, <1>5, <1>6, <1>7 DEF Next

\* What is new on main was written by the run that pushed it.
LEMMA PushStep ==
    ASSUME TypeOK, CloneInv, [Next]_vars, NEW g \in published'.grants \ published.grants
    PROVE  \E a \in Admins : pc[a] = "push" /\ g \in added[a].grants
<1>1. ASSUME NEW a \in Admins, Push(a) \/ PushFails(a), published' # published
      PROVE  pc[a] = "push" /\ g \in added[a].grants
  <2>1. pc[a] = "push" /\ ~stale[a] /\ Publish(Join(base[a], added[a]))
    BY <1>1 DEF Push, PushFails
  <2> QED
    BY <2>1, PublishFacts DEF Join
<1>2. ASSUME NEW a \in Admins, NEW f \in Grants, Revoke(a, f) PROVE FALSE
  BY <1>2 DEF Revoke, Publish, TypeOK, Contents
<1>3. ASSUME NEW h \in Hosts, Ask(h) PROVE published' = published
  BY <1>3 DEF Ask, Enrol, SaveConfig, EnrolFails, Request, remote
<1>4. ASSUME NEW a \in Admins, Run(a),
             ~ Push(a), ~ PushFails(a), ~ \E f \in Grants : Revoke(a, f)
      PROVE  published' = published
  BY <1>4 DEF Run, Sync, FetchRequestRefs, Approve, AddKeyFails, Approved, NothingToPush,
              PushRejected, DeleteRequestBranch, DeleteFails, Finish, Crash, remote
<1>5. CASE UNCHANGED vars
  BY <1>5 DEF vars, remote
<1> QED
  BY <1>1, <1>2, <1>3, <1>4, <1>5 DEF Next

-----------------------------------------------------------------------------
(* Deploy keys *)

\* i is the id of a host that has its deploy key if it needs one.
HasKey(i) == \E r \in Sent : /\ asked[r].id = i
                             /\ asked[r].host \in Keyed => asked[r].host \in keys

\* That is so for all records, those not yet published included.
KeyInv ==
    /\ \A i \in published.ids : HasKey(i)
    /\ \A a \in Admins : \A i \in added[a].ids : HasKey(i)

\* An id on main was there before the step, or in some worktree.
LEMMA PublishedIds ==
    ASSUME TypeOK, CloneInv, [Next]_vars, NEW i \in published'.ids
    PROVE  i \in published.ids \/ \E a \in Admins : i \in added[a].ids
<1>1. ASSUME NEW a \in Admins, Push(a) \/ PushFails(a) PROVE published' = published \/ published' = Join(published, added[a])
  BY <1>1, PublishFacts DEF Push, PushFails
<1>2. ASSUME NEW a \in Admins, NEW g \in Grants, Revoke(a, g) PROVE published'.ids = published.ids
  BY <1>2 DEF Revoke, Publish, TypeOK, Contents
<1>3. ASSUME NEW h \in Hosts, Ask(h) PROVE published' = published
  BY <1>3 DEF Ask, Enrol, SaveConfig, EnrolFails, Request, remote
<1>4. ASSUME NEW a \in Admins, Run(a),
             ~ Push(a), ~ PushFails(a), ~ \E g \in Grants : Revoke(a, g)
      PROVE  published' = published
  BY <1>4 DEF Run, Sync, FetchRequestRefs, Approve, AddKeyFails, Approved, NothingToPush,
              PushRejected, DeleteRequestBranch, DeleteFails, Finish, Crash, remote
<1>5. CASE UNCHANGED vars
  BY <1>5 DEF vars, remote
<1> QED
  BY <1>1, <1>2, <1>3, <1>4, <1>5 DEF Next, Join

\* An id comes into a worktree by Approve only.
LEMMA AddedIds ==
    ASSUME TypeOK, SentInv, [Next]_vars, NEW a \in Admins, NEW i \in added'[a].ids
    PROVE  \/ i \in added[a].ids
           \/ \E r \in Requests : Approve(a, r) /\ i = asked[r].id
<1>1. ASSUME NEW b \in Admins, End(b) PROVE i \in added[a].ids
  BY <1>1 DEF End, Nothing, TypeOK
<1>2. ASSUME NEW b \in Admins, NEW r \in Requests, Approve(b, r)
      PROVE  i \in added[a].ids \/ (b = a /\ i = asked[r].id)
  <2>1. r \in Sent /\ \E answer \in Answers(b) : Write(b, r, answer)
    BY <1>2 DEF SentInv, Approve, Report
  <2> QED
    BY <2>1, WriteFacts
<1>3. ASSUME NEW h \in Hosts, Ask(h) PROVE added' = added
  BY <1>3 DEF Ask, Enrol, SaveConfig, EnrolFails, Request, run
<1>4. ASSUME NEW b \in Admins, Run(b), ~ \E r \in Requests : Approve(b, r)
      PROVE  added' = added \/ End(b)
  BY <1>4 DEF Run, Sync, FetchRequestRefs, AddKeyFails, Approved, Push, NothingToPush, PushRejected,
              PushFails, DeleteRequestBranch, DeleteFails, Finish, Crash, Revoke, run
<1>5. CASE UNCHANGED vars
  BY <1>5 DEF vars, run
<1> QED
  BY <1>1, <1>2, <1>3, <1>4, <1>5 DEF Next

\* Every step keeps KeyInv: what a run approves it either knew already, or has
\* just registered the key of.
LEMMA KeyStep == TypeOK /\ SentInv /\ CloneInv /\ KeyInv /\ [Next]_vars => KeyInv'
<1> SUFFICES ASSUME TypeOK, SentInv, CloneInv, KeyInv, [Next]_vars PROVE KeyInv'
  OBVIOUS
<1>1. ASSUME NEW i, HasKey(i) PROVE HasKey(i)'
  BY <1>1, AskedStep DEF HasKey
<1>2. ASSUME NEW i \in published'.ids PROVE HasKey(i)'
  BY <1>1, <1>2, PublishedIds DEF KeyInv
<1>3. ASSUME NEW a \in Admins, NEW r \in Requests, NEW i, Approve(a, r), i = asked[r].id
      PROVE  HasKey(i)'
  <2>1. r \in Sent
    BY <1>3 DEF SentInv, Approve, Report
  <2>2. CASE i \in Known(a)
    BY <1>1, <2>2 DEF KeyInv, CloneInv, Known
  <2>3. CASE i \notin Known(a)
    <3>1. asked[r].host \in Keyed => asked[r].host \in keys'
      BY <1>3, <2>3 DEF Approve, NeedsKey
    <3>2. r \in Sent' /\ asked'[r] = asked[r]
      BY <2>1, AskedStep
    <3> QED
      BY <1>3, <3>1, <3>2 DEF HasKey
  <2> QED
    BY <2>2, <2>3
<1>4. ASSUME NEW a \in Admins, NEW i \in added'[a].ids PROVE HasKey(i)'
  BY <1>1, <1>3, <1>4, AddedIds DEF KeyInv
<1> QED
  BY <1>2, <1>4 DEF KeyInv

-----------------------------------------------------------------------------
(* Answers *)

\* Request q is answered in full by admin a, if ids are on record and grants
\* are made.
AnsweredBy(a, q, ids, grants) ==
    /\ ~Refused(Answer[a], q.paths)
    /\ q.id \in ids
    /\ {q.id} \X Granted(Answer[a], q.paths) \subseteq grants

\* Where the answers to the requests an admin has approved are: in its worktree
\* until they are published, on main when the branches are about to go.
HeldIds(a) == IF pc[a] = "delete" THEN published.ids ELSE base[a].ids \cup added[a].ids
HeldGrants(a) ==
    revoked \cup IF pc[a] = "delete" THEN published.grants ELSE base[a].grants \cup added[a].grants

AcceptInv ==
    \A a \in Admins : \A r \in accepted[a] : AnsweredBy(a, asked[r], HeldIds(a), HeldGrants(a))

\* An admin whose list does not grow loses no answer while what it holds grows.
LEMMA HeldGrows ==
    ASSUME TypeOK, SentInv, AcceptInv, [Next]_vars, NEW a \in Admins,
           accepted'[a] \subseteq accepted[a],
           HeldIds(a) \subseteq HeldIds(a)', HeldGrants(a) \subseteq HeldGrants(a)'
    PROVE  \A r \in accepted'[a] : AnsweredBy(a, asked[r], HeldIds(a), HeldGrants(a))'
<1> SUFFICES ASSUME NEW r \in accepted'[a]
             PROVE  AnsweredBy(a, asked'[r], HeldIds(a)', HeldGrants(a)')
  OBVIOUS
<1>1. r \in Sent
  BY DEF SentInv
<1>2. asked'[r] = asked[r]
  BY <1>1, AskedStep
<1>3. AnsweredBy(a, asked[r], HeldIds(a), HeldGrants(a))
  BY DEF AcceptInv
<1> QED
  BY <1>2, <1>3 DEF AnsweredBy

\* A step of an admin leaves the runs and clones of the others alone.
LEMMA RunFrame ==
    ASSUME TypeOK, SentInv, NEW a \in Admins, Run(a), NEW b \in Admins \ {a}
    PROVE  /\ pc'[b] = pc[b] /\ accepted'[b] = accepted[b]
           /\ added'[b] = added[b] /\ base'[b] = base[b]
<1> USE DEF clones, run
<1> DEFINE Frame == /\ pc'[b] = pc[b] /\ accepted'[b] = accepted[b]
                    /\ added'[b] = added[b] /\ base'[b] = base[b]
<1>1. ASSUME End(a), base'[b] = base[b] PROVE Frame
  BY <1>1 DEF End, TypeOK
<1>2. ASSUME Reset(a) PROVE base'[b] = base[b]
  BY <1>2 DEF Reset, TypeOK
<1>3. CASE Sync(a)
  BY <1>2, <1>3 DEF Sync, TypeOK
<1>4. ASSUME NEW chosen, FetchRequestRefs(a, chosen) PROVE Frame
  BY <1>1, <1>4 DEF FetchRequestRefs, TypeOK
<1>5. ASSUME NEW r \in Requests, Approve(a, r) \/ AddKeyFails(a, r) PROVE Frame
  <2>1. r \in Sent
    BY <1>5 DEF SentInv, Approve, AddKeyFails, Report
  <2>2. ASSUME Approve(a, r) PROVE added'[b] = added[b]
    BY <2>1, <2>2, WriteFacts DEF Approve
  <2> QED
    BY <1>5, <2>2 DEF Approve, AddKeyFails, Report, TypeOK
<1>6. CASE Approved(a)
  BY <1>1, <1>6 DEF Approved, TypeOK
<1>7. CASE Push(a) \/ NothingToPush(a)
  BY <1>7 DEF Push, NothingToPush, TypeOK
<1>8. CASE PushRejected(a)
  BY <1>1, <1>2, <1>8 DEF PushRejected
<1>9. CASE PushFails(a)
  BY <1>1, <1>9 DEF PushFails
<1>10. ASSUME NEW r \in Requests, DeleteRequestBranch(a, r) \/ DeleteFails(a, r) PROVE Frame
  BY <1>10 DEF DeleteRequestBranch, DeleteFails, TypeOK
<1>11. CASE Finish(a) \/ Crash(a)
  BY <1>1, <1>11 DEF Finish, Crash
<1>12. ASSUME NEW g \in Grants, Revoke(a, g) PROVE Frame
  BY <1>12 DEF Revoke
<1> QED BY <1>3, <1>4, <1>5, <1>6, <1>7, <1>8, <1>9, <1>10, <1>11, <1>12 DEF Run

\* Every step keeps AcceptInv: what a run reports as approved it has written,
\* a push carries it to main, and nothing but a revocation takes it away.
LEMMA AcceptStep ==
    TypeOK /\ SentInv /\ IdleInv /\ CloneInv /\ AcceptInv /\ [Next]_vars => AcceptInv'
<1> SUFFICES ASSUME TypeOK, SentInv, IdleInv, CloneInv, AcceptInv, [Next]_vars,
                    NEW a \in Admins
             PROVE  \A r \in accepted'[a] : AnsweredBy(a, asked[r], HeldIds(a), HeldGrants(a))'
  BY DEF AcceptInv
<1>1. /\ published.ids \subseteq published'.ids
      /\ published.grants \cup revoked \subseteq published'.grants \cup revoked'
      /\ revoked \subseteq revoked'
  <2>1. revoked \subseteq revoked'
    BY DEF Next, Ask, Enrol, SaveConfig, EnrolFails, Request, Run, Sync, FetchRequestRefs, Approve,
           AddKeyFails, Approved, Push, NothingToPush, PushRejected, PushFails, DeleteRequestBranch,
           DeleteFails, Finish, Crash, Revoke, vars
  <2> QED
    BY <2>1, PublishedStep
<1> DEFINE Goal == \A r \in accepted'[a] : AnsweredBy(a, asked[r], HeldIds(a), HeldGrants(a))'
<1>2. ASSUME accepted'[a] \subseteq accepted[a], pc'[a] = "delete" <=> pc[a] = "delete",
             base'[a] = base[a], added'[a] = added[a]
      PROVE  Goal
  <2>1. HeldIds(a) \subseteq HeldIds(a)' /\ HeldGrants(a) \subseteq HeldGrants(a)'
    BY <1>1, <1>2 DEF HeldIds, HeldGrants
  <2> QED
    BY <1>2, <2>1, HeldGrows
<1>3. ASSUME accepted'[a] = {} PROVE Goal
  BY <1>3
<1>4. ASSUME End(a) PROVE Goal
  BY <1>3, <1>4 DEF End, TypeOK
<1>5. ASSUME Sync(a) \/ \E chosen \in SUBSET Requests : FetchRequestRefs(a, chosen) PROVE Goal
  BY <1>3, <1>4, <1>5 DEF Sync, FetchRequestRefs, IdleInv
<1>6. ASSUME NEW r \in Requests, Approve(a, r) PROVE Goal
  <2>0. PICK answer \in Answers(a) :
          Report(a, r, ~Refused(answer, asked[r].paths)) /\ Write(a, r, answer)
    BY <1>6 DEF Approve
  <2> DEFINE new == {asked[r].id} \X Granted(answer, asked[r].paths)
  <2>1. /\ pc[a] = "approve" /\ pc' = pc /\ base' = base
        /\ r \in Sent
        /\ \/ accepted'[a] = accepted[a]
           \/ accepted'[a] = accepted[a] \cup {r} /\ ~Refused(answer, asked[r].paths)
    BY <1>6, <2>0 DEF Approve, Report, TypeOK, clones, SentInv
  <2>2. /\ HeldIds(a)' = HeldIds(a) \cup {asked[r].id}
        /\ HeldGrants(a) \cup new \subseteq HeldGrants(a)'
    <3>1. /\ added'[a].ids = added[a].ids \cup {asked[r].id}
          /\ added'[a].grants = added[a].grants \cup new
      BY <2>0, <2>1, WriteFacts
    <3> QED
      BY <1>1, <2>1, <3>1 DEF HeldIds, HeldGrants
  <2>3. \A q \in Sent : asked'[q] = asked[q]
    BY AskedStep
  <2>4. ASSUME ~Refused(answer, asked[r].paths)
        PROVE  AnsweredBy(a, asked'[r], HeldIds(a)', HeldGrants(a)')
    <3>1. asked[r].paths \in Wants
      BY <2>1, SentType
    <3>2. ~Refused(Answer[a], asked[r].paths)
          /\ new = {asked[r].id} \X Granted(Answer[a], asked[r].paths)
      BY <2>4, <3>1, AnswersFacts
    <3> QED
      BY <2>1, <2>2, <2>3, <3>2 DEF AnsweredBy
  <2>5. \A q \in accepted[a] : AnsweredBy(a, asked'[q], HeldIds(a)', HeldGrants(a)')
    <3> SUFFICES ASSUME NEW q \in accepted[a]
                 PROVE  AnsweredBy(a, asked'[q], HeldIds(a)', HeldGrants(a)')
      OBVIOUS
    <3>1. asked'[q] = asked[q] /\ AnsweredBy(a, asked[q], HeldIds(a), HeldGrants(a))
      BY <2>3 DEF SentInv, AcceptInv
    <3> QED
      BY <3>1, <2>2 DEF AnsweredBy
  <2> QED
    BY <2>1, <2>4, <2>5
<1>7. ASSUME Push(a) PROVE Goal
  <2>1. /\ pc[a] = "push" /\ pc'[a] = "delete"
        /\ published' = Join(base[a], added[a])
        /\ accepted' = accepted
    BY <1>7 DEF Push, Publish, TypeOK
  <2>2. HeldIds(a) \subseteq HeldIds(a)' /\ HeldGrants(a) \subseteq HeldGrants(a)'
    BY <1>1, <2>1 DEF HeldIds, HeldGrants, Join
  <2> QED
    BY <2>1, <2>2, HeldGrows
<1>8. ASSUME NothingToPush(a) PROVE Goal
  <2>1. /\ pc[a] = "push" /\ pc'[a] = "delete"
        /\ base[a] = Join(base[a], added[a])
        /\ accepted' = accepted
        /\ published' = published
    BY <1>8 DEF NothingToPush, TypeOK, remote
  <2>2. base[a].ids = base[a].ids \cup added[a].ids /\ base[a].grants = base[a].grants \cup added[a].grants
    BY <2>1 DEF Join
  <2>3. HeldIds(a) \subseteq HeldIds(a)' /\ HeldGrants(a) \subseteq HeldGrants(a)'
    BY <1>1, <2>1, <2>2 DEF HeldIds, HeldGrants, CloneInv
  <2> QED
    BY <2>1, <2>3, HeldGrows
<1>9. ASSUME \/ \E r \in Requests : AddKeyFails(a, r) \/ DeleteRequestBranch(a, r) \/ DeleteFails(a, r)
             \/ \E g \in Grants : Revoke(a, g)
      PROVE  Goal
  <2>1. /\ pc' = pc /\ base' = base /\ added' = added
        /\ accepted'[a] \subseteq accepted[a]
    <3>1. ASSUME NEW r \in Requests, AddKeyFails(a, r)
          PROVE  /\ pc' = pc /\ base' = base /\ added' = added
                 /\ accepted'[a] \subseteq accepted[a]
      BY <3>1 DEF AddKeyFails, Report, clones, TypeOK
    <3>2. ASSUME NEW r \in Requests, DeleteRequestBranch(a, r) \/ DeleteFails(a, r)
          PROVE  /\ pc' = pc /\ base' = base /\ added' = added
                 /\ accepted'[a] \subseteq accepted[a]
      BY <3>2 DEF DeleteRequestBranch, DeleteFails, clones, TypeOK
    <3>3. ASSUME NEW g \in Grants, Revoke(a, g)
          PROVE  /\ pc' = pc /\ base' = base /\ added' = added
                 /\ accepted'[a] \subseteq accepted[a]
      BY <3>3 DEF Revoke, clones, run
    <3> QED
      BY <1>9, <3>1, <3>2, <3>3
  <2> QED
    BY <1>2, <2>1
<1>10. ASSUME Approved(a) PROVE Goal
  <2>1. CASE End(a)
    BY <1>4, <2>1
  <2>2. CASE ~End(a)
    BY <1>2, <1>10, <2>2 DEF Approved, clones, TypeOK
  <2> QED
    BY <2>1, <2>2
<1>11. CASE Run(a)
  <2>1. ASSUME PushRejected(a) \/ PushFails(a) \/ Finish(a) \/ Crash(a) PROVE End(a)
    BY <2>1 DEF PushRejected, PushFails, Finish, Crash
  <2> QED
    BY <1>4, <1>5, <1>6, <1>7, <1>8, <1>9, <1>10, <1>11, <2>1 DEF Run
<1>12. ASSUME NEW b \in Admins \ {a}, Run(b) PROVE Goal
  BY <1>2, <1>12, RunFrame
<1>13. ASSUME NEW h \in Hosts, Ask(h) PROVE Goal
  BY <1>2, <1>13 DEF Ask, Enrol, SaveConfig, EnrolFails, Request, clones, run
<1>14. CASE UNCHANGED vars
  BY <1>2, <1>14 DEF vars, clones, run
<1> QED
  BY <1>11, <1>12, <1>13, <1>14 DEF Next

\* A branch goes when its request is one its admin has approved and published.
LEMMA BranchGoes ==
    ASSUME TypeOK, [Next]_vars, NEW r \in branches \ branches'
    PROVE  \E a \in Admins : pc[a] = "delete" /\ r \in accepted[a]
<1>1. ASSUME NEW a \in Admins, NEW q \in Requests, DeleteRequestBranch(a, q) \/ DeleteFails(a, q)
      PROVE  pc[a] = "delete" /\ r \in accepted[a]
  BY <1>1 DEF DeleteRequestBranch, DeleteFails
<1>2. ASSUME NEW h \in Hosts, Ask(h) PROVE branches \subseteq branches'
  BY <1>2 DEF Ask, Enrol, Send, SaveConfig, EnrolFails, Request, remote
<1>3. ASSUME NEW a \in Admins, Run(a),
             ~ \E q \in Requests : DeleteRequestBranch(a, q) \/ DeleteFails(a, q)
      PROVE  branches' = branches
  BY <1>3 DEF Run, Sync, FetchRequestRefs, Approve, AddKeyFails, Approved, Push, NothingToPush,
              PushRejected, PushFails, Finish, Crash, Revoke, remote
<1>4. CASE UNCHANGED vars
  BY <1>4 DEF vars, remote
<1> QED
  BY <1>1, <1>2, <1>3, <1>4 DEF Next

\* Every step keeps NoRequestLost.
LEMMA LostStep ==
    TypeOK /\ AcceptInv /\ CloneInv /\ NoRequestLost /\ [Next]_vars => NoRequestLost'
<1> SUFFICES ASSUME TypeOK, AcceptInv, CloneInv, NoRequestLost, [Next]_vars,
                    NEW r \in Sent' \ branches'
             PROVE  /\ asked'[r].id \in published'.ids
                    /\ \E a \in Admins :
                          /\ ~Refused(Answer[a], asked'[r].paths)
                          /\ {asked'[r].id} \X Granted(Answer[a], asked'[r].paths)
                                \subseteq published'.grants \cup revoked'
  BY DEF NoRequestLost
<1>1. r \in Sent /\ asked'[r] = asked[r]
  BY AskedStep
<1>2. \E a \in Admins : AnsweredBy(a, asked[r], published.ids, published.grants \cup revoked)
  <2>1. CASE r \notin branches
    BY <1>1, <2>1 DEF NoRequestLost, AnsweredBy
  <2>2. CASE r \in branches
    <3>1. PICK a \in Admins : pc[a] = "delete" /\ r \in accepted[a]
      BY <2>2, BranchGoes
    <3>2. AnsweredBy(a, asked[r], HeldIds(a), HeldGrants(a))
      BY <3>1 DEF AcceptInv
    <3> QED
      BY <3>1, <3>2 DEF HeldIds, HeldGrants, AnsweredBy
  <2> QED
    BY <2>1, <2>2
<1> QED
  BY <1>1, <1>2, PublishedStep DEF AnsweredBy

-----------------------------------------------------------------------------
(* The theorems *)

Inv ==
    /\ TypeOK
    /\ SentInv
    /\ IdsInv
    /\ IdleInv
    /\ CloneInv
    /\ KeyInv
    /\ AcceptInv
    /\ NoRequestLost

\* The inductive invariant holds in every state.
LEMMA InvCorrect == Spec => []Inv
<1>1. Init => Inv
  <2> SUFFICES ASSUME Init PROVE Inv
    OBVIOUS
  <2>1. Sent = {}
    BY DEF Init, Sent
  <2>2. TypeOK
    BY ContentsFacts DEF Init, TypeOK
  <2>3. SentInv /\ IdsInv /\ KeyInv
    BY <2>1 DEF Init, SentInv, IdsInv, KeyInv, Nothing
  <2>4. IdleInv /\ CloneInv /\ AcceptInv
    BY DEF Init, IdleInv, CloneInv, AcceptInv, Nothing
  <2>5. NoRequestLost
    BY <2>1 DEF NoRequestLost
  <2> QED
    BY <2>2, <2>3, <2>4, <2>5 DEF Inv
<1>2. Inv /\ [Next]_vars => Inv'
  BY TypeStep, SentStep, IdsStep, IdleStep, CloneStep, KeyStep, AcceptStep, LostStep DEF Inv
<1> QED
  BY <1>1, <1>2, PTL DEF Spec

\* Requests, store, clones and runs are what the code takes them for.
THEOREM RequestsTypeCorrect == Spec => []TypeOK
<1>1. Inv => TypeOK
  BY DEF Inv
<1> QED
  BY <1>1, InvCorrect, PTL

\* However runs, failures and revocations interleave, the branch of a request
\* goes only when the request is answered in full.
THEOREM RequestsAnswered == Spec => []NoRequestLost
<1>1. Inv => NoRequestLost
  BY DEF Inv
<1> QED
  BY <1>1, InvCorrect, PTL

\* Every machine on record has its deploy key registered, although GitHub and
\* the store cannot be changed in one step.
THEOREM KeysRegistered == Spec => []EnrolledHasKey
<1>1. Inv => EnrolledHasKey
  <2> SUFFICES ASSUME Inv, NEW r \in Sent, asked[r].id \in published.ids, asked[r].host \in Keyed
               PROVE  asked[r].host \in keys
    BY DEF EnrolledHasKey
  <2>1. PICK q \in Sent : asked[q].id = asked[r].id /\ (asked[q].host \in Keyed => asked[q].host \in keys)
    BY DEF Inv, KeyInv, HasKey
  <2>2. asked[q].host = asked[r].host
    BY <2>1 DEF Inv, IdsInv
  <2> QED
    BY <2>1, <2>2
<1> QED
  BY <1>1, InvCorrect, PTL

\* A push publishes no grant but those its own run has written, so that none
\* brings back what was revoked while the run went on.
THEOREM PushesAddTheirOwn == Spec => PushAddsItsOwn
<1> DEFINE Own == \A g \in published'.grants \ published.grants :
                     \E a \in Admins : pc[a] = "push" /\ g \in added[a].grants
<1>1. Inv /\ [Next]_vars => [Own]_vars
  BY PushStep DEF Inv
<1> QED
  BY <1>1, InvCorrect, PTL DEF Spec, PushAddsItsOwn
=============================================================================

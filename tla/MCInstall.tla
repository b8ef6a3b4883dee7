----------------------------- MODULE MCInstall -----------------------------
(***************************************************************************)
(* Two AWS profiles: the first has its section in the config and in the    *)
(* credentials file, and a session in the config file, which its second    *)
(* version drops; the second has only the same session.  So each has       *)
(* something of the other's file to keep and something to dispute.         *)
(***************************************************************************)
EXTENDS Install, TLC

CONSTANTS a, b, config, credentials, p, q, g1, g2, u

MCSections ==
    [new \in Secrets \X (1..MaxVersion) |-> [f \in Files |->
        (IF new[1] = a THEN {p} ELSE {})
        \cup (IF f = config /\ new # <<a, 2>> THEN {q} ELSE {})]]
MCBefore ==
    {[f \in Files |-> [x \in Parts |-> IF f = config THEN t[x] ELSE None]] :
        t \in {x \in [Parts -> {u, None}] : x[p] = None}}
Symmetry == Permutations(Gets)
MCRank == [f \in Files |-> IF f = config THEN 0 ELSE 1]
=============================================================================

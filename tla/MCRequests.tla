----------------------------- MODULE MCRequests -----------------------------
(* Small instances of the request and approval protocol for TLC. *)
EXTENDS Requests, TLC

CONSTANTS a1, a2, p1, p2

OnePath == {<<p1>>}
TwoPaths == {<<p1>>, <<p1, p2>>}

\* Each admin owns one of the paths.  a1 cannot open p2 at all, while a2 reads
\* p1 without owning it.
Shared == a1 :> (p1 :> "grant" @@ p2 :> "refuse") @@ a2 :> (p1 :> "route" @@ p2 :> "grant")

Interchangeable == Permutations(Requests) \cup Permutations(Ids)
=============================================================================

----------------------------- MODULE MCManifest -----------------------------
(* Small instances of the namespace tree for TLC. *)
EXTENDS Manifest, TLC

CONSTANTS root, n1, n2

\* A chain: root / n1 / n2.
ChainNodes == {root, n1, n2}
ChainParent == n1 :> root @@ n2 :> n1
ChainAnc == root :> {} @@ n1 :> {root} @@ n2 :> {root, n1}

\* One namespace under the root: root / n1.
PairNodes == {root, n1}
PairParent == n1 :> root
PairAnc == root :> {} @@ n1 :> {root}

\* No command and no property but MembershipRaisesVersion, which compares two
\* successive states, depends on how high a version is.
Unversioned == <<exists, owners, readers, extra, attested, signer, content, envelopes>>

\* Names of secrets are interchangeable.
Names == Permutations(Keys)
=============================================================================

----------------------------- MODULE MCGitStore -----------------------------
(***************************************************************************)
(* Two homes.  The first belongs to two mutations and, in the runs about   *)
(* pins, to a read as well; the second to a mutation that may lose every   *)
(* race.                                                                   *)
(***************************************************************************)
EXTENDS GitStore

CONSTANTS h1, h2, w1, w2, w3, r1, r2

MCHomeOf == [c \in Commands |-> IF c \in {w1, w2, r1, r2} THEN h1 ELSE h2]
=============================================================================

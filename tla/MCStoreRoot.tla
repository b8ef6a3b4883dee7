---------------------------- MODULE MCStoreRoot ----------------------------
(***************************************************************************)
(* The founder, a second owner of the root, and a client.                  *)
(***************************************************************************)
EXTENDS StoreRoot

CONSTANTS founder, second, client
=============================================================================

----------------------------- MODULE MCLRUCache -----------------------------
(***************************************************************************)
(* A small instance of LRUCache for TLC: three keys for two slots, entries *)
(* that live for one tick and entries that never expire.                   *)
(***************************************************************************)
EXTENDS LRUCache

CONSTANTS k1, k2, k3

MCKeys == {k1, k2, k3}
MCTtls == {0, 1}

=============================================================================

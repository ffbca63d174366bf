--------------------------- MODULE MCCacheManager ---------------------------
(***************************************************************************)
(* Small instances of CacheManager for TLC: three requests for two         *)
(* resources that share one slot of the cache.                             *)
(***************************************************************************)
EXTENDS CacheManager

CONSTANTS a, b

MCKeys == {a, b}
OneKey == {a}

Call(k, get, enabled, ttl) ==
  [key |-> k, get |-> get, route |-> [enabled |-> enabled, ttl |-> ttl]]

\* Routes whose answers live for one tick; b is only read.
ShortLived == {Call(a, TRUE, TRUE, 1), Call(a, FALSE, TRUE, 1), Call(b, TRUE, TRUE, 1)}

\* A route whose cache is off.
Disabled == {Call(a, TRUE, FALSE, Null)}

=============================================================================

----------------------------- MODULE LRUPolicy -----------------------------
(***************************************************************************)
(* The abstract specification of cache/LRUCache.js: the operations on a    *)
(* cache as Recency describes it, the answer of the last get, and the      *)
(* counters the dashboard shows.                                           *)
(***************************************************************************)
EXTENDS Recency

CONSTANTS
  Keys,       \* the cache keys
  Ttls,       \* the times to live passed to put
  Values,     \* what is cached
  Capacity,   \* LRU_CAPACITY
  Missing     \* what get returns when it has nothing: null

VARIABLES
  now,        \* Date.now()
  cache,      \* what the cache holds
  answer,     \* what the last get returned
  stats       \* hits, misses, evictions, expirations

vars == <<now, cache, answer, stats>>

Counting(b) == IF b THEN 1 ELSE 0

Init ==
  /\ now = 0
  /\ cache = EmptyCache
  /\ answer = Missing
  /\ stats = [hits |-> 0, misses |-> 0, evictions |-> 0, expirations |-> 0]

Get(k) ==
  /\ cache' = AfterGet(cache, k, now)
  /\ answer' = IF Hits(cache, k, now) THEN cache.entries[k].value ELSE Missing
  /\ stats' = [stats EXCEPT !.hits = @ + Counting(Hits(cache, k, now)),
                            !.misses = @ + Counting(~Hits(cache, k, now)),
                            !.expirations = @ + Counting(Expires(cache, k, now))]
  /\ UNCHANGED now

Put(k, v, ttl) ==
  /\ cache' = AfterPut(cache, k, [value |-> v, expiresAt |-> Deadline(ttl, now)], Capacity)
  /\ stats' = [stats EXCEPT !.evictions = @ + Counting(Evicts(cache, k, Capacity))]
  /\ UNCHANGED <<now, answer>>

Delete(k) ==
  /\ cache' = Removed(cache, k)
  /\ UNCHANGED <<now, answer, stats>>

Clear ==
  /\ cache' = EmptyCache
  /\ UNCHANGED <<now, answer, stats>>

Tick ==
  /\ now' = now + 1
  /\ UNCHANGED <<cache, answer, stats>>

Next ==
  \/ \E k \in Keys : Get(k)
  \/ \E k \in Keys, v \in Values, ttl \in Ttls : Put(k, v, ttl)
  \/ \E k \in Keys : Delete(k)
  \/ Clear
  \/ Tick

Spec == Init /\ [][Next]_vars

=============================================================================

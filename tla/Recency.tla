------------------------------ MODULE Recency ------------------------------
(***************************************************************************)
(* What an LRU cache with lazy expiry keeps, without lists or pointers: a  *)
(* partial function from keys to entries and a strict total order on its   *)
(* keys, newer, in which <<a, b>> says that a was used after b.            *)
(*                                                                         *)
(* A cache is a record [entries, newer]; an entry has at least the field   *)
(* expiresAt.  The operators are those of cache/LRUCache.js, seen from     *)
(* outside.                                                                *)
(***************************************************************************)
EXTENDS Integers, FiniteSets

\* expiresAt of an entry without a time to live: Infinity in the code.
Infinity == -1

EmptyCache == [entries |-> [k \in {} |-> Infinity], newer |-> {}]

Held(c) == DOMAIN c.entries

IsExpired(e, now) == e.expiresAt # Infinity /\ now > e.expiresAt

\* put(): the time to live becomes a deadline, and only a positive one does.
Deadline(ttl, now) == IF ttl > 0 THEN now + ttl ELSE Infinity

Unordered(c, k) == {p \in c.newer : p[1] # k /\ p[2] # k}

Removed(c, k) ==
  [entries |-> [j \in Held(c) \ {k} |-> c.entries[j]], newer |-> Unordered(c, k)]

\* k becomes the most recently used key.
Touched(c, k) ==
  [c EXCEPT !.newer = Unordered(c, k) \cup {<<k, j>> : j \in Held(c) \ {k}}]

Stored(c, k, e) ==
  Touched([c EXCEPT !.entries = [j \in Held(c) \cup {k} |->
                                   IF j = k THEN e ELSE c.entries[j]]], k)

IsOldest(c, k) == k \in Held(c) /\ \A j \in Held(c) \ {k} : <<j, k>> \in c.newer

Oldest(c) == CHOOSE k \in Held(c) : IsOldest(c, k)

IsFull(c, capacity) == Cardinality(Held(c)) >= capacity

\* get(k) finds a live entry, or an expired one, which it removes.
Hits(c, k, now) == k \in Held(c) /\ ~IsExpired(c.entries[k], now)
Expires(c, k, now) == k \in Held(c) /\ IsExpired(c.entries[k], now)

AfterGet(c, k, now) ==
  CASE Hits(c, k, now) -> Touched(c, k)
    [] Expires(c, k, now) -> Removed(c, k)
    [] OTHER -> c

\* put(k): a key that is new to a full cache pushes the oldest one out.
Evicts(c, k, capacity) == k \notin Held(c) /\ IsFull(c, capacity)

AfterPut(c, k, e, capacity) ==
  Stored(IF Evicts(c, k, capacity) THEN Removed(c, Oldest(c)) ELSE c, k, e)

-----------------------------------------------------------------------------
\* newer is a strict total order on the keys held.
IsOrdered(c) ==
  /\ c.newer \subseteq Held(c) \X Held(c)
  /\ \A a, b \in Held(c) : a # b => (<<a, b>> \in c.newer <=> <<b, a>> \notin c.newer)
  /\ \A a \in Held(c) : <<a, a>> \notin c.newer
  /\ \A a, b, d \in Held(c) :
       <<a, b>> \in c.newer /\ <<b, d>> \in c.newer => <<a, d>> \in c.newer

=============================================================================

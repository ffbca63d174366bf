------------------------------ MODULE LRUCache ------------------------------
(***************************************************************************)
(* cache/LRUCache.js: the hash map and the doubly linked list between the  *)
(* sentinels Head and Tail, with the pointer surgery of the code.  A node  *)
(* is identified by its key (the map holds at most one node per key), and  *)
(* the pointers of a node that has left the list are Null.                 *)
(***************************************************************************)
EXTENDS Integers, FiniteSets

CONSTANTS
  Keys,          \* the cache keys
  Ttls,          \* the times to live passed to put
  Capacity,      \* LRU_CAPACITY
  Head, Tail,    \* the sentinel nodes
  Null,          \* a pointer to no node, and what get returns on a miss
  MaxNow,        \* bound on the clock
  MaxOps         \* bound on the number of operations

ASSUME CapacityAssumption == Capacity \in Nat \ {0}
ASSUME KeysAssumption ==
  IsFiniteSet(Keys) /\ Head # Tail /\ Head \notin Keys /\ Tail \notin Keys
ASSUME BoundsAssumption == MaxNow \in Nat /\ MaxOps \in Nat

VARIABLES
  now,           \* Date.now()
  map,           \* per key: the value and the deadline of its node
  next, prev,    \* the pointers of every node and of the sentinels
  stats,         \* the counters of the dashboard
  answer,        \* what the last get returned
  ops,           \* history: operations so far, and the value of the next put
  removals       \* history: how many nodes delete and clear took out

history == <<ops, removals>>
vars == <<now, map, next, prev, stats, answer, history>>

R == INSTANCE Recency

Nodes == Keys \cup {Head, Tail}
Values == 1 .. MaxOps

Init ==
  /\ now = 0
  /\ map = [k \in {} |-> Null]
  /\ next = [[n \in Nodes |-> Null] EXCEPT ![Head] = Tail]
  /\ prev = [[n \in Nodes |-> Null] EXCEPT ![Tail] = Head]
  /\ stats = [hits |-> 0, misses |-> 0, evictions |-> 0, expirations |-> 0]
  /\ answer = Null
  /\ ops = 0
  /\ removals = 0

-----------------------------------------------------------------------------
\* The list as one value, for operations that cut and splice in sequence.
List == [next |-> next, prev |-> prev]

\* Mutant: only the forward pointer is repaired.
DetachForward(l, n) ==
  [l EXCEPT !.next = [@ EXCEPT ![l.prev[n]] = l.next[n]]]

Detach(l, n) ==
  [next |-> [l.next EXCEPT ![l.prev[n]] = l.next[n]],
   prev |-> [l.prev EXCEPT ![l.next[n]] = l.prev[n]]]

InsertAtHead(l, n) ==
  [next |-> [l.next EXCEPT ![n] = l.next[Head], ![Head] = n],
   prev |-> [l.prev EXCEPT ![n] = Head, ![l.next[Head]] = n]]

MoveToHead(l, n) == InsertAtHead(Detach(l, n), n)

\* Detached and no longer in the map: the node is garbage.
Discard(l, n) ==
  LET d == Detach(l, n)
  IN  [next |-> [d.next EXCEPT ![n] = Null], prev |-> [d.prev EXCEPT ![n] = Null]]

Relink(l) == next' = l.next /\ prev' = l.prev

MapWithout(k) == [j \in DOMAIN map \ {k} |-> map[j]]

MapWith(m, k, e) == [j \in DOMAIN m \cup {k} |-> IF j = k THEN e ELSE m[j]]

\* Mutant: an entry has expired when its deadline is reached.
ExpiredAtDeadline(k) == map[k].expiresAt # R!Infinity /\ now >= map[k].expiresAt

Expired(k) == map[k].expiresAt # R!Infinity /\ now > map[k].expiresAt

-----------------------------------------------------------------------------
Get(k) ==
  /\ ops < MaxOps
  /\ ops' = ops + 1
  /\ \/ /\ k \notin DOMAIN map
        /\ stats' = [stats EXCEPT !.misses = @ + 1]
        /\ answer' = Null
        /\ UNCHANGED <<map, next, prev>>
     \/ /\ k \in DOMAIN map /\ Expired(k)
        /\ Relink(Discard(List, k))
        /\ map' = MapWithout(k)
        /\ stats' = [stats EXCEPT !.expirations = @ + 1, !.misses = @ + 1]
        /\ answer' = Null
     \/ /\ k \in DOMAIN map /\ ~Expired(k)
        /\ Relink(MoveToHead(List, k))
        /\ stats' = [stats EXCEPT !.hits = @ + 1]
        /\ answer' = map[k].value
        /\ UNCHANGED map
  /\ UNCHANGED <<now, removals>>

\* put of an existing key: updated in place and promoted.
Overwrite(k, e) ==
  /\ k \in DOMAIN map
  /\ map' = MapWith(map, k, e)
  /\ Relink(MoveToHead(List, k))
  /\ UNCHANGED stats

\* put of a new key while there is room.
Insert(k, e) ==
  /\ k \notin DOMAIN map
  /\ Cardinality(DOMAIN map) < Capacity
  /\ map' = MapWith(map, k, e)
  /\ Relink(InsertAtHead(List, k))
  /\ UNCHANGED stats

\* Mutant: an eviction is not counted.
EvictUncounted(k, e) ==
  LET victim == prev[Tail]
  IN  /\ k \notin DOMAIN map
      /\ Cardinality(DOMAIN map) >= Capacity
      /\ map' = MapWith(MapWithout(victim), k, e)
      /\ Relink(InsertAtHead(Discard(List, victim), k))
      /\ UNCHANGED stats

\* put of a new key into a full cache: the node before Tail is evicted first.
EvictAndInsert(k, e) ==
  LET victim == prev[Tail]
  IN  /\ k \notin DOMAIN map
      /\ Cardinality(DOMAIN map) >= Capacity
      /\ map' = MapWith(MapWithout(victim), k, e)
      /\ Relink(InsertAtHead(Discard(List, victim), k))
      /\ stats' = [stats EXCEPT !.evictions = @ + 1]

Put(k, ttl) ==
  /\ ops < MaxOps
  /\ ops' = ops + 1
  /\ LET e == [value |-> ops', expiresAt |-> IF ttl > 0 THEN now + ttl ELSE R!Infinity]
     IN  Overwrite(k, e) \/ Insert(k, e) \/ EvictAndInsert(k, e)
  /\ UNCHANGED <<now, answer, removals>>

Delete(k) ==
  /\ ops < MaxOps
  /\ k \in DOMAIN map
  /\ ops' = ops + 1
  /\ Relink(Discard(List, k))
  /\ map' = MapWithout(k)
  /\ removals' = removals + 1
  /\ UNCHANGED <<now, stats, answer>>

Clear ==
  /\ ops < MaxOps
  /\ DOMAIN map # {}
  /\ ops' = ops + 1
  /\ map' = [k \in {} |-> Null]
  /\ next' = [[n \in Nodes |-> Null] EXCEPT ![Head] = Tail]
  /\ prev' = [[n \in Nodes |-> Null] EXCEPT ![Tail] = Head]
  /\ removals' = removals + Cardinality(DOMAIN map)
  /\ UNCHANGED <<now, stats, answer>>

Tick ==
  /\ now < MaxNow
  /\ now' = now + 1
  /\ UNCHANGED <<map, next, prev, stats, answer, history>>

Next ==
  \/ \E k \in Keys : Get(k)
  \/ \E k \in Keys, ttl \in Ttls : Put(k, ttl)
  \/ \E k \in Keys : Delete(k)
  \/ Clear
  \/ Tick

Spec == Init /\ [][Next]_vars

-----------------------------------------------------------------------------
\* The nodes met from Head, following next: at[i] is the i-th one, and what
\* lies past the end stays where the walk got stuck.
Walk ==
  LET at[i \in 0 .. Cardinality(Keys) + 1] ==
        IF i = 0 THEN Head
        ELSE LET before == at[i - 1]
             IN  IF before \in Keys \cup {Head} THEN next[before] ELSE before
  IN  at

Size == Cardinality(DOMAIN map)

\* After any sequence of operations the list from Head to Tail holds every key
\* of the map once and nothing else, prev undoes next, and there are never more than
\* Capacity keys.
ListIsMap ==
  /\ Size <= Capacity
  /\ Walk[Size + 1] = Tail
  /\ {Walk[i] : i \in 1 .. Size} = DOMAIN map
  /\ \A i \in 1 .. Size + 1 : prev[Walk[i]] = Walk[i - 1]

\* The counters of the dashboard account for every entry: whatever was ever
\* put under a new key is still held, or was evicted, or expired, or removed.
Accounting ==
  [][stats'.evictions + stats'.expirations + removals' + Size'
     - (stats.evictions + stats.expirations + removals + Size)
       = Cardinality(DOMAIN map' \ DOMAIN map)]_vars

\* The list and the map together implement the abstract cache.
Policy == INSTANCE LRUPolicy WITH
  Missing <- Null,
  cache <- [entries |-> map,
            newer |-> {<<Walk[p[1]], Walk[p[2]]>> :
                         p \in {q \in (1 .. Size) \X (1 .. Size) : q[1] < q[2]}}]

ImplementsPolicy == Policy!Spec

=============================================================================

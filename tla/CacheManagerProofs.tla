------------------------ MODULE CacheManagerProofs ------------------------
(***************************************************************************)
(* Proofs about CacheManager, for any number of requests, keys and routes, *)
(* any capacity and any upstream: at most one fetch of a key is at the     *)
(* upstream, the inflight map never keeps an entry whose fetch is over,    *)
(* whatever is cached is what the upstream said, and no answer is older    *)
(* than its time to live allows.                                           *)
(***************************************************************************)
EXTENDS CacheManager, FiniteSetTheorems, WellFoundedInduction, TLAPS

-----------------------------------------------------------------------------
(* The operators of Recency: get and put keep the order of recency a       *)
(* strict total order on the keys held, put never holds more than the      *)
(* capacity, and neither changes an entry other than its own.              *)

\* A cache the operators can be applied to.
IsCache(c) ==
  /\ c = [entries |-> c.entries, newer |-> c.newer]
  /\ IsFiniteSet(Held(c))
  /\ IsOrdered(c)

\* d has no entry that c has not.
Keeps(c, d) ==
  /\ Held(d) \subseteq Held(c)
  /\ \A j \in Held(d) : d.entries[j] = c.entries[j]

LEMMA EmptyIsCache == IsCache(EmptyCache) /\ Held(EmptyCache) = {}
<1>1. EmptyCache.newer = {} /\ Held(EmptyCache) = {}
  BY DEF EmptyCache, Held
<1>2. EmptyCache = [entries |-> EmptyCache.entries, newer |-> EmptyCache.newer]
  BY DEF EmptyCache
<1>3. IsOrdered(EmptyCache)
  BY <1>1 DEF IsOrdered
<1> QED
  BY <1>1, <1>2, <1>3, FS_EmptySet DEF IsCache

\* Who is used last is newer than all the others, whose order stays.
LEMMA TopOrdered ==
  ASSUME NEW c, IsOrdered(c), NEW k, NEW d,
         Held(d) = Held(c) \cup {k},
         d.newer = Unordered(c, k) \cup {<<k, j>> : j \in Held(d) \ {k}}
  PROVE  IsOrdered(d)
<1>1. ASSUME NEW a, NEW b
      PROVE  <<a, b>> \in d.newer <=>
               \/ <<a, b>> \in c.newer /\ a # k /\ b # k
               \/ a = k /\ b \in Held(d) \ {k}
  BY DEF Unordered
<1>2. d.newer \subseteq Held(d) \X Held(d)
  BY DEF IsOrdered, Unordered
<1>3. \A a, b \in Held(d) : a # b => (<<a, b>> \in d.newer <=> <<b, a>> \notin d.newer)
  BY <1>1 DEF IsOrdered
<1>4. \A a \in Held(d) : <<a, a>> \notin d.newer
  BY <1>1 DEF IsOrdered
<1>5. ASSUME NEW a \in Held(d), NEW b \in Held(d), NEW e \in Held(d),
             <<a, b>> \in d.newer, <<b, e>> \in d.newer
      PROVE  <<a, e>> \in d.newer
  <2>1. b # k /\ e # k
    BY <1>1, <1>5
  <2>2. CASE a = k
    BY <2>1, <2>2, <1>1
  <2>3. CASE a # k
    <3>1. <<a, b>> \in c.newer /\ <<b, e>> \in c.newer
      BY <2>1, <2>3, <1>1, <1>5
    <3>2. <<a, e>> \in c.newer
      BY <3>1, <2>1, <2>3 DEF IsOrdered
    <3> QED
      BY <3>2, <2>1, <2>3, <1>1
  <2> QED
    BY <2>2, <2>3
<1> QED
  BY <1>2, <1>3, <1>4, <1>5 DEF IsOrdered

LEMMA TouchedKeeps ==
  ASSUME NEW c, IsCache(c), NEW k \in Held(c)
  PROVE  IsCache(Touched(c, k)) /\ Touched(c, k).entries = c.entries
<1> DEFINE d == Touched(c, k)
<1>1. /\ d = [entries |-> c.entries,
              newer |-> Unordered(c, k) \cup {<<k, j>> : j \in Held(c) \ {k}}]
  BY DEF Touched, IsCache
<1>2. /\ d.entries = c.entries /\ Held(d) = Held(c)
      /\ d.newer = Unordered(c, k) \cup {<<k, j>> : j \in Held(d) \ {k}}
      /\ d = [entries |-> d.entries, newer |-> d.newer]
  BY <1>1 DEF Held
<1> HIDE DEF d
<1>3. IsOrdered(d)
  BY <1>2, TopOrdered DEF IsCache
<1>4. IsCache(d)
  BY <1>2, <1>3 DEF IsCache
<1> QED
  BY <1>2, <1>4 DEF d

LEMMA RemovedKeeps ==
  ASSUME NEW c, IsCache(c), NEW k
  PROVE  /\ IsCache(Removed(c, k))
         /\ Held(Removed(c, k)) = Held(c) \ {k}
         /\ Keeps(c, Removed(c, k))
<1> DEFINE d == Removed(c, k)
<1>1. /\ d.newer = Unordered(c, k)
      /\ d.entries = [j \in Held(c) \ {k} |-> c.entries[j]]
      /\ d = [entries |-> d.entries, newer |-> d.newer]
  BY DEF Removed
<1>2. /\ Held(d) = Held(c) \ {k}
      /\ \A j \in Held(d) : d.entries[j] = c.entries[j]
  BY <1>1 DEF Held
<1> HIDE DEF d
<1>3. IsFiniteSet(Held(d))
  BY <1>2, FS_RemoveElement DEF IsCache
<1>4. IsOrdered(d)
  <2>1. ASSUME NEW a, NEW b
        PROVE  <<a, b>> \in d.newer <=> <<a, b>> \in c.newer /\ a # k /\ b # k
    BY <1>1 DEF Unordered
  <2>2. d.newer \subseteq Held(d) \X Held(d)
    BY <1>1, <1>2 DEF IsCache, IsOrdered, Unordered
  <2> QED
    BY <2>1, <2>2, <1>2 DEF IsCache, IsOrdered
<1>5. IsCache(d) /\ Keeps(c, d)
  BY <1>1, <1>2, <1>3, <1>4 DEF IsCache, Keeps
<1> QED
  BY <1>2, <1>5 DEF d

LEMMA StoredKeeps ==
  ASSUME NEW c, IsCache(c), NEW k, NEW e
  PROVE  /\ IsCache(Stored(c, k, e))
         /\ Held(Stored(c, k, e)) = Held(c) \cup {k}
         /\ Stored(c, k, e).entries[k] = e
         /\ \A j \in Held(c) \ {k} : Stored(c, k, e).entries[j] = c.entries[j]
<1> DEFINE f == [j \in Held(c) \cup {k} |-> IF j = k THEN e ELSE c.entries[j]]
           d == Stored(c, k, e)
<1>1. DOMAIN f = Held(c) \cup {k} /\ f[k] = e /\ \A j \in Held(c) \ {k} : f[j] = c.entries[j]
  OBVIOUS
<1>2. d = Touched([c EXCEPT !.entries = f], k)
  BY DEF Stored
<1> HIDE DEF d, f
<1>3. [c EXCEPT !.entries = f] = [entries |-> f, newer |-> c.newer]
  BY DEF IsCache
<1>4. d = [entries |-> f,
           newer |-> Unordered(c, k) \cup {<<k, j>> : j \in DOMAIN f \ {k}}]
  BY <1>2, <1>3 DEF Touched, Unordered, Held
<1>5. /\ d.entries = f /\ Held(d) = Held(c) \cup {k}
      /\ d.newer = Unordered(c, k) \cup {<<k, j>> : j \in Held(d) \ {k}}
      /\ d = [entries |-> d.entries, newer |-> d.newer]
  BY <1>1, <1>4 DEF Held
<1>6. IsOrdered(d)
  BY <1>5, TopOrdered DEF IsCache
<1>7. IsFiniteSet(Held(d))
  BY <1>5, FS_AddElement DEF IsCache
<1>8. IsCache(d)
  BY <1>5, <1>6, <1>7 DEF IsCache
<1> QED
  BY <1>1, <1>5, <1>8 DEF d

\* A cache that is not empty has a key that is used least recently.
LEMMA OldestIsHeld ==
  ASSUME NEW c, IsCache(c), Held(c) # {}
  PROVE  Oldest(c) \in Held(c) /\ IsOldest(c, Oldest(c))
<1> DEFINE Older(a) == {b \in Held(c) : <<a, b>> \in c.newer}
           Ranks == {Cardinality(Older(a)) : a \in Held(c)}
           Less == {p \in Nat \X Nat : p[1] < p[2]}
<1>1. \A a \in Held(c) : IsFiniteSet(Older(a)) /\ Cardinality(Older(a)) \in Nat
  <2>1. \A a \in Held(c) : IsFiniteSet(Older(a))
    BY FS_Subset DEF IsCache
  <2> QED
    BY <2>1, FS_CardinalityType
<1>2. PICK n \in Ranks : \A m \in Ranks : ~(<<m, n>> \in Less)
  <2>1. IsWellFoundedOn(Less, Nat)
    BY NatLessThanWellFounded DEF OpToRel
  <2>2. Ranks \in SUBSET Nat /\ Ranks # {}
    BY <1>1
  <2> QED
    BY <2>1, <2>2, WFMin, Zenon
<1>3. PICK k \in Held(c) : n = Cardinality(Older(k))
  OBVIOUS
<1>4. ASSUME NEW j \in Held(c) \ {k}, <<j, k>> \notin c.newer
      PROVE  FALSE
  <2>1. j \in Older(k) /\ j \notin Older(j)
    BY <1>4 DEF IsCache, IsOrdered
  <2>2. Older(j) \in SUBSET Older(k)
    BY <2>1 DEF IsCache, IsOrdered
  <2>3. /\ Cardinality(Older(j)) <= Cardinality(Older(k))
        /\ Cardinality(Older(k)) # Cardinality(Older(j))
    BY <2>1, <2>2, <1>1, FS_Subset
  <2>4. Cardinality(Older(j)) < n /\ Cardinality(Older(j)) \in Nat /\ n \in Nat
    BY <2>3, <1>1, <1>3
  <2>5. <<Cardinality(Older(j)), n>> \in Less
    BY <2>4
  <2> QED
    BY <2>5, <1>2
<1>5. IsOldest(c, k)
  BY <1>4 DEF IsOldest
<1>6. IsOldest(c, Oldest(c))
  BY <1>5, Zenon DEF Oldest
<1> QED
  BY <1>6 DEF IsOldest

\* get() drops the entry it finds expired and changes no other.
LEMMA GetKeeps ==
  ASSUME NEW c, IsCache(c), NEW k, NEW t
  PROVE  IsCache(AfterGet(c, k, t)) /\ Keeps(c, AfterGet(c, k, t))
<1>1. CASE Hits(c, k, t)
  <2>1. k \in Held(c) /\ AfterGet(c, k, t) = Touched(c, k)
    BY <1>1 DEF AfterGet, Hits, Expires
  <2> QED
    BY <2>1, TouchedKeeps DEF Keeps, Held
<1>2. CASE Expires(c, k, t)
  <2>1. AfterGet(c, k, t) = Removed(c, k)
    BY <1>2 DEF AfterGet, Hits, Expires
  <2> QED
    BY <2>1, RemovedKeeps
<1>3. CASE ~Hits(c, k, t) /\ ~Expires(c, k, t)
  <2>1. AfterGet(c, k, t) = c
    BY <1>3 DEF AfterGet
  <2> QED
    BY <2>1 DEF Keeps
<1> QED
  BY <1>1, <1>2, <1>3

\* put() stores its entry, evicts another one when the cache is full, and
\* changes no other.
LEMMA PutKeeps ==
  ASSUME NEW capacity \in Nat \ {0}, NEW c, IsCache(c), Cardinality(Held(c)) <= capacity,
         NEW k, NEW e
  PROVE  LET d == AfterPut(c, k, e, capacity)
         IN  /\ IsCache(d)
             /\ Cardinality(Held(d)) <= capacity
             /\ k \in Held(d) /\ d.entries[k] = e
             /\ \A j \in Held(d) \ {k} : j \in Held(c) /\ d.entries[j] = c.entries[j]
<1> DEFINE b == IF Evicts(c, k, capacity) THEN Removed(c, Oldest(c)) ELSE c
           d == AfterPut(c, k, e, capacity)
<1>1. d = Stored(b, k, e)
  BY DEF AfterPut
<1>2. IsFiniteSet(Held(c)) /\ Cardinality(Held(c)) \in Nat
  BY FS_CardinalityType DEF IsCache
<1>3. IsCache(b) /\ Keeps(c, b)
  BY RemovedKeeps DEF Keeps
<1>4. IsFiniteSet(Held(b)) /\ Cardinality(Held(b)) \in Nat
  BY <1>3, FS_CardinalityType DEF IsCache
<1>5. k \in Held(b) \/ Cardinality(Held(b)) < capacity
  <2>1. CASE Evicts(c, k, capacity)
    <3>1. Held(c) # {}
      BY <2>1, <1>2, FS_EmptySet DEF Evicts, IsFull
    <3>2. Oldest(c) \in Held(c) /\ Held(b) = Held(c) \ {Oldest(c)}
      BY <2>1, <3>1, OldestIsHeld, RemovedKeeps
    <3>3. Cardinality(Held(b)) = Cardinality(Held(c)) - 1
      BY <3>2, <1>2, FS_RemoveElement
    <3> QED
      BY <3>3, <1>2
  <2>2. CASE ~Evicts(c, k, capacity)
    BY <2>2, <1>2 DEF Evicts, IsFull
  <2> QED
    BY <2>1, <2>2
<1>6. Cardinality(Held(b)) <= capacity
  <2>1. Cardinality(Held(b)) <= Cardinality(Held(c))
    BY <1>2, <1>3, FS_Subset DEF Keeps
  <2> QED
    BY <2>1, <1>2, <1>4
<1> HIDE DEF b, d
<1>7. /\ IsCache(d) /\ Held(d) = Held(b) \cup {k} /\ d.entries[k] = e
      /\ \A j \in Held(b) \ {k} : d.entries[j] = b.entries[j]
  BY <1>1, <1>3, StoredKeeps
<1>8. Cardinality(Held(d)) <= capacity
  <2>1. Cardinality(Held(d)) = IF k \in Held(b) THEN Cardinality(Held(b))
                               ELSE Cardinality(Held(b)) + 1
    BY <1>4, <1>7, FS_AddElement
  <2> QED
    BY <2>1, <1>4, <1>5, <1>6
<1>9. \A j \in Held(d) \ {k} : j \in Held(c) /\ d.entries[j] = c.entries[j]
  BY <1>3, <1>7 DEF Keeps
<1> QED
  BY <1>7, <1>8, <1>9 DEF d

-----------------------------------------------------------------------------
USE CallsAssumption, BoundsAssumption

-----------------------------------------------------------------------------
(* Queues of requests.                                                     *)

In(e, s) == \E i \in DOMAIN s : s[i] = e

Distinct(s) == \A i, j \in DOMAIN s : s[i] = s[j] => i = j

LEMMA InAppend ==
  ASSUME NEW S, NEW s \in Seq(S), NEW e \in S
  PROVE  /\ Append(s, e) \in Seq(S)
         /\ \A x : In(x, Append(s, e)) <=> In(x, s) \/ x = e
         /\ Distinct(s) /\ ~In(e, s) => Distinct(Append(s, e))
<1>1. /\ Append(s, e) \in Seq(S) /\ Len(Append(s, e)) = Len(s) + 1
      /\ \A i \in 1 .. Len(s) : Append(s, e)[i] = s[i]
      /\ Append(s, e)[Len(s) + 1] = e
      /\ Len(s) \in Nat
  OBVIOUS
<1>2. DOMAIN s = 1 .. Len(s) /\ DOMAIN Append(s, e) = 1 .. (Len(s) + 1)
  BY <1>1
<1>3. \A x : In(x, Append(s, e)) <=> In(x, s) \/ x = e
  BY <1>1, <1>2 DEF In
<1>4. ASSUME Distinct(s), ~In(e, s),
             NEW i \in DOMAIN Append(s, e), NEW j \in DOMAIN Append(s, e),
             Append(s, e)[i] = Append(s, e)[j]
      PROVE  i = j
  <2>1. CASE i \in DOMAIN s /\ j \in DOMAIN s
    BY <2>1, <1>1, <1>2, <1>4 DEF Distinct
  <2>2. CASE i \in DOMAIN s /\ j = Len(s) + 1
    BY <2>2, <1>1, <1>2, <1>4 DEF In
  <2>3. CASE i = Len(s) + 1 /\ j \in DOMAIN s
    BY <2>3, <1>1, <1>2, <1>4 DEF In
  <2>4. CASE i = Len(s) + 1 /\ j = Len(s) + 1
    BY <2>4
  <2> QED
    BY <2>1, <2>2, <2>3, <2>4, <1>1, <1>2
<1>5. Distinct(s) /\ ~In(e, s) => Distinct(Append(s, e))
  BY <1>4 DEF Distinct
<1> QED
  BY <1>1, <1>3, <1>5

LEMMA InConcat ==
  ASSUME NEW S, NEW s \in Seq(S), NEW t \in Seq(S)
  PROVE  /\ s \o t \in Seq(S)
         /\ \A x : In(x, s \o t) <=> In(x, s) \/ In(x, t)
         /\ Distinct(s) /\ Distinct(t) /\ (\A x : In(x, s) => ~In(x, t))
              => Distinct(s \o t)
<1>1. /\ s \o t \in Seq(S) /\ Len(s \o t) = Len(s) + Len(t)
      /\ Len(s) \in Nat /\ Len(t) \in Nat
      /\ DOMAIN s = 1 .. Len(s) /\ DOMAIN t = 1 .. Len(t)
      /\ DOMAIN (s \o t) = 1 .. (Len(s) + Len(t))
  OBVIOUS
<1>2. ASSUME NEW i \in DOMAIN s
      PROVE  i \in DOMAIN (s \o t) /\ (s \o t)[i] = s[i]
  BY <1>1
<1>3. ASSUME NEW i \in DOMAIN t
      PROVE  Len(s) + i \in DOMAIN (s \o t) /\ (s \o t)[Len(s) + i] = t[i]
  BY <1>1
<1>4. ASSUME NEW i \in DOMAIN (s \o t)
      PROVE  \/ i \in DOMAIN s /\ (s \o t)[i] = s[i]
             \/ i - Len(s) \in DOMAIN t /\ (s \o t)[i] = t[i - Len(s)]
  BY <1>1
<1>5. \A x : In(x, s \o t) <=> In(x, s) \/ In(x, t)
  BY <1>2, <1>3, <1>4 DEF In
<1>6. ASSUME Distinct(s), Distinct(t), \A x : In(x, s) => ~In(x, t),
             NEW i \in DOMAIN (s \o t), NEW j \in DOMAIN (s \o t),
             (s \o t)[i] = (s \o t)[j]
      PROVE  i = j
  <2>1. CASE i \in DOMAIN s /\ j \in DOMAIN s
    BY <2>1, <1>2, <1>6 DEF Distinct
  <2>2. CASE i \notin DOMAIN s /\ j \notin DOMAIN s
    <3>1. i - Len(s) = j - Len(s)
      BY <2>2, <1>4, <1>6 DEF Distinct
    <3> QED
      BY <3>1, <1>1
  <2>3. CASE i \in DOMAIN s /\ j \notin DOMAIN s
    BY <2>3, <1>2, <1>4, <1>6 DEF In
  <2>4. CASE i \notin DOMAIN s /\ j \in DOMAIN s
    BY <2>4, <1>2, <1>4, <1>6 DEF In
  <2> QED
    BY <2>1, <2>2, <2>3, <2>4
<1>7. Distinct(s) /\ Distinct(t) /\ (\A x : In(x, s) => ~In(x, t)) => Distinct(s \o t)
  BY <1>6 DEF Distinct
<1> QED
  BY <1>1, <1>5, <1>7

LEMMA InTail ==
  ASSUME NEW S, NEW s \in Seq(S), s # <<>>, Distinct(s)
  PROVE  /\ Tail(s) \in Seq(S) /\ Distinct(Tail(s))
         /\ In(s[1], s) /\ s[1] \in S
         /\ \A x : In(x, Tail(s)) <=> In(x, s) /\ x # s[1]
<1>1. /\ Tail(s) \in Seq(S) /\ Len(Tail(s)) = Len(s) - 1
      /\ Len(s) \in Nat \ {0}
      /\ DOMAIN s = 1 .. Len(s) /\ DOMAIN Tail(s) = 1 .. (Len(s) - 1)
      /\ \A i \in 1 .. (Len(s) - 1) : Tail(s)[i] = s[i + 1]
  OBVIOUS
<1>2. In(s[1], s) /\ s[1] \in S
  BY <1>1 DEF In
<1>3. ASSUME NEW i \in DOMAIN Tail(s)
      PROVE  i + 1 \in DOMAIN s /\ i + 1 # 1 /\ Tail(s)[i] = s[i + 1]
  BY <1>1
<1>4. ASSUME NEW i \in DOMAIN s, i # 1
      PROVE  i - 1 \in DOMAIN Tail(s) /\ Tail(s)[i - 1] = s[i]
  BY <1>1, <1>4
<1>5. 1 \in DOMAIN s
  BY <1>1
<1>6. \A x : In(x, Tail(s)) <=> In(x, s) /\ x # s[1]
  <2>1. ASSUME NEW x, In(x, Tail(s)) PROVE In(x, s) /\ x # s[1]
    <3>1. PICK i \in DOMAIN Tail(s) : Tail(s)[i] = x
      BY <2>1 DEF In
    <3>2. i + 1 \in DOMAIN s /\ s[i + 1] = x /\ i + 1 # 1
      BY <3>1, <1>3
    <3> QED
      BY <3>2, <1>5 DEF In, Distinct
  <2>2. ASSUME NEW x, In(x, s), x # s[1] PROVE In(x, Tail(s))
    <3>1. PICK i \in DOMAIN s : s[i] = x
      BY <2>2 DEF In
    <3> QED
      BY <3>1, <2>2, <1>4 DEF In
  <2> QED
    BY <2>1, <2>2
<1>7. ASSUME NEW i \in DOMAIN Tail(s), NEW j \in DOMAIN Tail(s), Tail(s)[i] = Tail(s)[j]
      PROVE  i = j
  <2>1. i + 1 = j + 1
    BY <1>3, <1>7 DEF Distinct
  <2> QED
    BY <2>1, <1>1
<1>8. Distinct(Tail(s))
  BY <1>7 DEF Distinct
<1> QED
  BY <1>1, <1>2, <1>6, <1>8

-----------------------------------------------------------------------------
(* The inductive invariant.                                                *)

States == {"none", "sent", "served", "settled"}
Statuses == {"none", "good", "bad", "rejected"}
FetchRecord == [state : States, status : Statuses, version : Nat, since : Nat]

Types ==
  /\ now \in Nat
  /\ version \in [Keys -> Nat]
  /\ DOMAIN inflight \subseteq Keys
  /\ \A k \in DOMAIN inflight : inflight[k] \in Requests
  /\ pc \in [Requests -> {"idle", "waiting", "done"}]
  /\ DOMAIN call = {r \in Requests : pc[r] # "idle"}
  /\ \A r \in DOMAIN call : call[r] \in Calls
  /\ source \in [Requests -> Requests]
  /\ promise \in [Requests -> FetchRecord]
  /\ reactions \in [Requests -> Seq(Requests)]
  /\ microtasks \in Seq(Requests)

\* A request that has not come has no fetch and waits for nobody else's.
IdleUntouched ==
  \A r \in Requests : pc[r] = "idle" => source[r] = r /\ promise[r].state = "none"

\* Who has a fetch at the upstream is still waiting for it.
ActiveWait ==
  \A r \in Requests :
    promise[r].state \in {"sent", "served"} => pc[r] = "waiting" /\ source[r] = r

\* A microtask continues a request whose promise has settled ...
MicrotasksDue ==
  \A r \in Requests :
    In(r, microtasks) => pc[r] = "waiting" /\ promise[source[r]].state = "settled"

\* ... a reaction is of a request whose promise has not ...
ReactionsWait ==
  \A q, r \in Requests :
    In(r, reactions[q]) =>
      pc[r] = "waiting" /\ source[r] = q /\ promise[q].state # "settled"

\* ... and no request is continued twice.
NoneTwice == Distinct(microtasks) /\ \A q \in Requests : Distinct(reactions[q])

Waits == IdleUntouched /\ ActiveWait /\ MicrotasksDue /\ ReactionsWait /\ NoneTwice

FlightInv == Types /\ Waits /\ InflightExact

LEMMA EmptyQueue ==
  /\ <<>> \in Seq(Requests) /\ Distinct(<<>>) /\ \A x : ~In(x, <<>>)
  BY DEF Distinct, In

LEMMA SingleQueue ==
  ASSUME NEW r \in Requests
  PROVE  /\ <<r>> \in Seq(Requests) /\ Distinct(<<r>>)
         /\ \A x : In(x, <<r>>) <=> x = r
  BY DEF Distinct, In

LEMMA InitFlight == Init => FlightInv
<1> SUFFICES ASSUME Init PROVE FlightInv
  OBVIOUS
<1>1. Types
  <2>1. NoFetch \in FetchRecord
    BY DEF NoFetch, FetchRecord, States, Statuses
  <2> QED
    BY <2>1, EmptyQueue DEF Init, Types
<1>2. Waits
  <2>1. \A r \in Requests : /\ source[r] = r /\ promise[r] = NoFetch
                            /\ reactions[r] = <<>> /\ pc[r] = "idle"
    BY DEF Init
  <2>2. NoFetch.state = "none" /\ microtasks = <<>>
    BY DEF Init, NoFetch
  <2> QED
    BY <2>1, <2>2, EmptyQueue
       DEF Waits, IdleUntouched, ActiveWait, MicrotasksDue, ReactionsWait, NoneTwice
<1>3. InflightExact
  <2>1. DOMAIN inflight = {} /\ DOMAIN call = {}
    BY DEF Init
  <2> QED
    BY <2>1 DEF InflightExact, Fetchers, Gets
<1> QED
  BY <1>1, <1>2, <1>3 DEF FlightInv

\* What every call does first.
LEMMA EnterEffect ==
  ASSUME Types, Waits, NEW r \in Requests, NEW c \in Calls, Enter(r, c)
  PROVE  /\ pc[r] = "idle" /\ r \notin DOMAIN call
         /\ source[r] = r /\ promise[r].state = "none"
         /\ DOMAIN call' = DOMAIN call \cup {r} /\ call'[r] = c
         /\ \A q \in DOMAIN call : q # r /\ call'[q] = call[q]
         /\ now' = now /\ version' = version
         /\ ~In(r, microtasks) /\ \A q \in Requests : ~In(r, reactions[q])
<1>1. pc[r] = "idle" /\ r \notin DOMAIN call
  BY DEF Enter, Types
<1>2. source[r] = r /\ promise[r].state = "none"
  BY <1>1 DEF Waits, IdleUntouched
<1>3. /\ DOMAIN call' = DOMAIN call \cup {r} /\ call'[r] = c
      /\ \A q \in DOMAIN call : q # r /\ call'[q] = call[q]
  BY <1>1 DEF Enter
<1>4. ~In(r, microtasks) /\ \A q \in Requests : ~In(r, reactions[q])
  BY <1>1 DEF Waits, MicrotasksDue, ReactionsWait
<1> QED
  BY <1>1, <1>2, <1>3, <1>4 DEF Enter, upstream

\* The calls that send a request of their own.
LEMMA StartEffect ==
  ASSUME Types, NEW r \in Requests, StartFetch(r)
  PROVE  /\ promise' \in [Requests -> FetchRecord]
         /\ promise'[r].state = "sent"
         /\ \A q \in Requests \ {r} : promise'[q] = promise[q]
         /\ reactions' \in [Requests -> Seq(Requests)]
         /\ reactions'[r] = <<r>>
         /\ \A q \in Requests \ {r} : reactions'[q] = reactions[q]
         /\ source' = source
<1> DEFINE f == [promise[r] EXCEPT !.state = "sent", !.since = now]
<1>1. promise[r] \in FetchRecord /\ now \in Nat
  BY DEF Types
<1>2. f \in FetchRecord /\ f.state = "sent"
  BY <1>1 DEF FetchRecord, States
<1>3. promise' = [promise EXCEPT ![r] = f] /\ reactions' = [reactions EXCEPT ![r] = <<r>>]
  BY DEF StartFetch
<1> HIDE DEF f
<1> QED
  BY <1>2, <1>3, SingleQueue DEF Types, StartFetch

LEMMA StartWaits ==
  ASSUME Types, Waits, NEW r \in Requests, NEW c \in Calls, Enter(r, c), StartFetch(r),
         pc' = [pc EXCEPT ![r] = "waiting"], microtasks' = microtasks,
         DOMAIN inflight' \subseteq Keys,
         \A k \in DOMAIN inflight' : inflight'[k] \in Requests
  PROVE  Types' /\ Waits'
<1>1. /\ pc[r] = "idle" /\ r \notin DOMAIN call
      /\ source[r] = r /\ promise[r].state = "none"
      /\ DOMAIN call' = DOMAIN call \cup {r} /\ call'[r] = c
      /\ \A q \in DOMAIN call : q # r /\ call'[q] = call[q]
      /\ now' = now /\ version' = version
      /\ ~In(r, microtasks) /\ \A q \in Requests : ~In(r, reactions[q])
  BY EnterEffect
<1>2. /\ promise' \in [Requests -> FetchRecord]
      /\ promise'[r].state = "sent"
      /\ \A q \in Requests \ {r} : promise'[q] = promise[q]
      /\ reactions' \in [Requests -> Seq(Requests)]
      /\ reactions'[r] = <<r>>
      /\ \A q \in Requests \ {r} : reactions'[q] = reactions[q]
      /\ source' = source
  BY StartEffect
<1>3. /\ pc' \in [Requests -> {"idle", "waiting", "done"}]
      /\ pc'[r] = "waiting" /\ \A q \in Requests \ {r} : pc'[q] = pc[q]
  BY DEF Types
<1>4. Types'
  <2>1. DOMAIN call' = {q \in Requests : pc'[q] # "idle"}
    BY <1>1, <1>3 DEF Types
  <2>2. \A q \in DOMAIN call' : call'[q] \in Calls
    BY <1>1 DEF Types
  <2> QED
    BY <1>1, <1>2, <1>3, <2>1, <2>2 DEF Types
<1>5. IdleUntouched'
  <2> SUFFICES ASSUME NEW q \in Requests, pc'[q] = "idle"
               PROVE  source'[q] = q /\ promise'[q].state = "none"
    BY DEF IdleUntouched
  <2>1. q # r
    BY <1>3
  <2>2. pc[q] = "idle" /\ source'[q] = source[q] /\ promise'[q] = promise[q]
    BY <2>1, <1>2, <1>3
  <2> QED
    BY <2>2 DEF Waits, IdleUntouched
<1>6. ActiveWait'
  BY <1>1, <1>2, <1>3 DEF ActiveWait, Waits
<1>7. MicrotasksDue'
  <2> SUFFICES ASSUME NEW q \in Requests, In(q, microtasks)
               PROVE  pc'[q] = "waiting" /\ promise'[source'[q]].state = "settled"
    BY DEF MicrotasksDue
  <2>1. pc[q] = "waiting" /\ promise[source[q]].state = "settled"
    BY DEF Waits, MicrotasksDue
  <2>2. q # r /\ source[q] # r /\ source[q] \in Requests
    BY <2>1, <1>1 DEF Types
  <2>3. pc'[q] = pc[q] /\ source'[q] = source[q] /\ promise'[source[q]] = promise[source[q]]
    BY <2>2, <1>2, <1>3
  <2> QED
    BY <2>1, <2>3
<1>8. ReactionsWait'
  <2> SUFFICES ASSUME NEW p \in Requests, NEW q \in Requests, In(q, reactions'[p])
               PROVE  pc'[q] = "waiting" /\ source'[q] = p /\ promise'[p].state # "settled"
    BY DEF ReactionsWait
  <2>1. CASE p = r
    <3>1. q = r
      BY <2>1, <1>2, SingleQueue
    <3> QED
      BY <2>1, <3>1, <1>1, <1>2, <1>3
  <2>2. CASE p # r
    <3>1. In(q, reactions[p]) /\ promise'[p] = promise[p]
      BY <2>2, <1>2
    <3>2. pc[q] = "waiting" /\ source[q] = p /\ promise[p].state # "settled"
      BY <3>1 DEF Waits, ReactionsWait
    <3>3. q # r
      BY <3>2, <1>1
    <3> QED
      BY <3>1, <3>2, <3>3, <1>2, <1>3
  <2> QED
    BY <2>1, <2>2
<1>9. NoneTwice'
  BY <1>2, SingleQueue DEF NoneTwice, Waits
<1> QED
  BY <1>4, <1>5, <1>6, <1>7, <1>8, <1>9 DEF Waits

LEMMA BypassFlight ==
  ASSUME FlightInv, NEW r \in Requests, NEW c \in Calls, Bypass(r, c)
  PROVE  FlightInv'
<1>1. /\ Types /\ Waits /\ InflightExact /\ ~c.get /\ Enter(r, c) /\ StartFetch(r)
      /\ pc' = [pc EXCEPT ![r] = "waiting"]
      /\ inflight' = inflight /\ microtasks' = microtasks
  BY DEF FlightInv, Bypass
<1>2. Types' /\ Waits'
  BY <1>1, StartWaits DEF Types
<1>3. /\ r \notin DOMAIN call /\ DOMAIN call' = DOMAIN call \cup {r} /\ call'[r] = c
      /\ \A q \in DOMAIN call : q # r /\ call'[q] = call[q]
      /\ source' = source
  BY <1>1, EnterEffect DEF StartFetch
<1>4. Fetchers' = Fetchers
  <2>1. \A q \in DOMAIN call : pc'[q] = pc[q]
    BY <1>1, <1>3 DEF Types
  <2> QED
    BY <2>1, <1>1, <1>3 DEF Fetchers, Gets
<1>5. \A q \in Fetchers : call'[q] = call[q]
  BY <1>3 DEF Fetchers, Gets
<1>6. InflightExact'
  BY <1>1, <1>4, <1>5 DEF InflightExact
<1> QED
  BY <1>2, <1>6 DEF FlightInv

LEMMA FetchFlight ==
  ASSUME FlightInv, NEW r \in Requests, NEW c \in Calls, Fetch(r, c)
  PROVE  FlightInv'
<1>1. /\ Types /\ Waits /\ InflightExact /\ c.get /\ Enter(r, c) /\ StartFetch(r)
      /\ pc' = [pc EXCEPT ![r] = "waiting"]
      /\ c.key \notin DOMAIN inflight
      /\ inflight' = [k \in DOMAIN inflight \cup {c.key} |->
                        IF k = c.key THEN r ELSE inflight[k]]
      /\ microtasks' = microtasks
  BY DEF FlightInv, Fetch
<1>2. c.key \in Keys
  OBVIOUS
<1>3. /\ DOMAIN inflight' = DOMAIN inflight \cup {c.key}
      /\ inflight'[c.key] = r
      /\ \A k \in DOMAIN inflight : k # c.key /\ inflight'[k] = inflight[k]
  BY <1>1
<1>4. Types' /\ Waits'
  <2>1. DOMAIN inflight' \subseteq Keys /\ \A k \in DOMAIN inflight' : inflight'[k] \in Requests
    BY <1>1, <1>2, <1>3 DEF Types
  <2> QED
    BY <1>1, <2>1, StartWaits
<1>5. /\ r \notin DOMAIN call /\ DOMAIN call' = DOMAIN call \cup {r} /\ call'[r] = c
      /\ \A q \in DOMAIN call : q # r /\ call'[q] = call[q]
      /\ source' = source /\ source[r] = r
  BY <1>1, EnterEffect DEF StartFetch
<1>6. Fetchers' = Fetchers \cup {r} /\ \A q \in Fetchers : call'[q] = call[q]
  <2>1. \A q \in DOMAIN call : pc'[q] = pc[q]
    BY <1>1, <1>5 DEF Types
  <2>2. pc'[r] = "waiting"
    BY <1>1 DEF Types
  <2> QED
    BY <2>1, <2>2, <1>1, <1>5 DEF Fetchers, Gets
<1>7. InflightExact'
  BY <1>1, <1>3, <1>5, <1>6 DEF InflightExact
<1> QED
  BY <1>4, <1>7 DEF FlightInv

LEMMA HitFlight ==
  ASSUME FlightInv, NEW r \in Requests, NEW c \in Calls, Hit(r, c)
  PROVE  FlightInv'
<1>1. /\ Types /\ Waits /\ InflightExact /\ Enter(r, c)
      /\ pc' = [pc EXCEPT ![r] = "done"]
      /\ UNCHANGED <<inflight, source, promise, reactions, microtasks>>
  BY DEF FlightInv, Hit
<1>2. /\ pc[r] = "idle" /\ r \notin DOMAIN call
      /\ promise[r].state = "none"
      /\ DOMAIN call' = DOMAIN call \cup {r} /\ call'[r] = c
      /\ \A q \in DOMAIN call : q # r /\ call'[q] = call[q]
      /\ now' = now /\ version' = version
      /\ ~In(r, microtasks) /\ \A q \in Requests : ~In(r, reactions[q])
  BY <1>1, EnterEffect
<1>3. /\ pc' \in [Requests -> {"idle", "waiting", "done"}]
      /\ pc'[r] = "done" /\ \A q \in Requests \ {r} : pc'[q] = pc[q]
  BY <1>1 DEF Types
<1>4. Types'
  <2>1. DOMAIN call' = {q \in Requests : pc'[q] # "idle"}
    BY <1>1, <1>2, <1>3 DEF Types
  <2>2. \A q \in DOMAIN call' : call'[q] \in Calls
    BY <1>1, <1>2 DEF Types
  <2> QED
    BY <1>1, <1>2, <1>3, <2>1, <2>2 DEF Types
<1>5. Waits'
  <2>1. IdleUntouched'
    BY <1>1, <1>3 DEF Waits, IdleUntouched
  <2>2. ActiveWait'
    BY <1>1, <1>2, <1>3 DEF Waits, ActiveWait
  <2>3. MicrotasksDue' /\ ReactionsWait' /\ NoneTwice'
    BY <1>1, <1>2, <1>3 DEF Waits, MicrotasksDue, ReactionsWait, NoneTwice
  <2> QED
    BY <2>1, <2>2, <2>3 DEF Waits
<1>6. Fetchers' = Fetchers /\ \A q \in Fetchers : call'[q] = call[q]
  <2>1. \A q \in DOMAIN call : pc'[q] = pc[q]
    BY <1>1, <1>2, <1>3 DEF Types
  <2> QED
    BY <2>1, <1>1, <1>2, <1>3 DEF Fetchers, Gets
<1>7. InflightExact'
  BY <1>1, <1>6 DEF InflightExact
<1> QED
  BY <1>4, <1>5, <1>7 DEF FlightInv

\* The continuation of r is queued where the fetch of s calls for, and no other is.
Joins(r, s) ==
  /\ \A x : In(x, microtasks') <=> In(x, microtasks) \/ (x = r /\ promise[s].state = "settled")
  /\ \A q \in Requests : \A x :
       In(x, reactions'[q]) <=>
         In(x, reactions[q]) \/ (x = r /\ q = s /\ promise[s].state # "settled")

\* A request that attaches waits for the fetcher, which is another request.
LEMMA AttachEffect ==
  ASSUME FlightInv, NEW r \in Requests, NEW c \in Calls, Attach(r, c),
         NEW s, s = inflight[c.key]
  PROVE  /\ s \in Fetchers /\ s # r /\ call[s].key = c.key
         /\ source' \in [Requests -> Requests]
         /\ source'[r] = s /\ \A q \in Requests \ {r} : source'[q] = source[q]
         /\ microtasks' \in Seq(Requests) /\ reactions' \in [Requests -> Seq(Requests)]
         /\ microtasks' = IF promise[s].state = "settled"
                          THEN Append(microtasks, r) ELSE microtasks
         /\ Joins(r, s) /\ NoneTwice'
<1>1. /\ Types /\ Waits /\ InflightExact /\ Enter(r, c)
      /\ c.key \in DOMAIN inflight
      /\ pc' = [pc EXCEPT ![r] = "waiting"]
      /\ source' = [source EXCEPT ![r] = s]
      /\ UNCHANGED <<inflight, promise>>
  BY DEF FlightInv, Attach
<1>2. /\ pc[r] = "idle" /\ r \notin DOMAIN call
      /\ promise[r].state = "none"
      /\ DOMAIN call' = DOMAIN call \cup {r} /\ call'[r] = c
      /\ \A q \in DOMAIN call : q # r /\ call'[q] = call[q]
      /\ now' = now /\ version' = version
      /\ ~In(r, microtasks) /\ \A q \in Requests : ~In(r, reactions[q])
  BY <1>1, EnterEffect
<1>3. s \in Requests /\ s # r /\ s \in Fetchers /\ call[s].key = c.key
  BY <1>1, <1>2 DEF InflightExact, Fetchers, Gets, Types
<1>4. /\ source' \in [Requests -> Requests]
      /\ source'[r] = s /\ \A q \in Requests \ {r} : source'[q] = source[q]
  BY <1>1, <1>3 DEF Types
\* Where the continuation of r goes.
<1>5. /\ microtasks' \in Seq(Requests) /\ reactions' \in [Requests -> Seq(Requests)]
      /\ \A x : In(x, microtasks') <=>
                  In(x, microtasks) \/ (x = r /\ promise[s].state = "settled")
      /\ \A q \in Requests : \A x :
           In(x, reactions'[q]) <=>
             In(x, reactions[q]) \/ (x = r /\ q = s /\ promise[s].state # "settled")
      /\ NoneTwice'
  <2>1. CASE promise[s].state = "settled"
    <3>1. microtasks' = Append(microtasks, r) /\ reactions' = reactions
      BY <2>1 DEF Attach
    <3>2. /\ microtasks' \in Seq(Requests)
          /\ \A x : In(x, microtasks') <=> In(x, microtasks) \/ x = r
          /\ Distinct(microtasks')
      BY <3>1, <1>1, <1>2, InAppend DEF Types, Waits, NoneTwice
    <3>3. NoneTwice' /\ reactions' \in [Requests -> Seq(Requests)]
      BY <3>1, <3>2, <1>1 DEF Types, Waits, NoneTwice
    <3> QED
      BY <3>1, <3>2, <3>3, <2>1
  <2>2. CASE promise[s].state # "settled"
    <3>1. /\ microtasks' = microtasks
          /\ reactions' = [reactions EXCEPT ![s] = Append(reactions[s], r)]
      BY <2>2 DEF Attach
    <3>2. /\ Append(reactions[s], r) \in Seq(Requests)
          /\ \A x : In(x, Append(reactions[s], r)) <=> In(x, reactions[s]) \/ x = r
          /\ Distinct(Append(reactions[s], r))
      <4>1. reactions[s] \in Seq(Requests) /\ ~In(r, reactions[s]) /\ Distinct(reactions[s])
        BY <1>1, <1>2, <1>3 DEF Types, Waits, NoneTwice
      <4> QED
        BY <4>1, InAppend
    <3>3. /\ reactions'[s] = Append(reactions[s], r)
          /\ \A q \in Requests \ {s} : reactions'[q] = reactions[q]
          /\ reactions' \in [Requests -> Seq(Requests)]
      BY <3>1, <3>2, <1>1, <1>3 DEF Types
    <3>4. NoneTwice'
      BY <3>1, <3>2, <3>3, <1>1 DEF Waits, NoneTwice
    <3>5. \A q \in Requests : \A x :
            In(x, reactions'[q]) <=> In(x, reactions[q]) \/ (x = r /\ q = s)
      <4>1. ASSUME NEW q \in Requests, NEW x
            PROVE  In(x, reactions'[q]) <=> In(x, reactions[q]) \/ (x = r /\ q = s)
        <5>1. CASE q = s
          BY <5>1, <3>2, <3>3
        <5>2. CASE q # s
          <6>1. reactions'[q] = reactions[q]
            BY <5>2, <3>3
          <6> QED
            BY <6>1, <5>2
        <5> QED
          BY <5>1, <5>2
      <4> QED
        BY <4>1
    <3>6. microtasks' \in Seq(Requests)
      BY <3>1, <1>1 DEF Types
    <3> QED
      BY <3>1, <3>3, <3>4, <3>5, <3>6, <2>2
  <2> QED
    BY <2>1, <2>2
<1>6. microtasks' = IF promise[s].state = "settled" THEN Append(microtasks, r) ELSE microtasks
  BY DEF Attach
<1> QED
  BY <1>3, <1>4, <1>5, <1>6 DEF Joins

LEMMA AttachFlight ==
  ASSUME FlightInv, NEW r \in Requests, NEW c \in Calls, Attach(r, c)
  PROVE  FlightInv'
<1> PICK s : s = inflight[c.key]
  OBVIOUS
<1>1. /\ Types /\ Waits /\ InflightExact /\ Enter(r, c)
      /\ pc' = [pc EXCEPT ![r] = "waiting"]
      /\ UNCHANGED <<inflight, promise>>
  BY DEF FlightInv, Attach
<1>2. /\ pc[r] = "idle" /\ r \notin DOMAIN call
      /\ promise[r].state = "none"
      /\ DOMAIN call' = DOMAIN call \cup {r} /\ call'[r] = c
      /\ \A q \in DOMAIN call : q # r /\ call'[q] = call[q]
      /\ now' = now /\ version' = version
      /\ ~In(r, microtasks) /\ \A q \in Requests : ~In(r, reactions[q])
  BY <1>1, EnterEffect
<1>3. /\ s \in Fetchers /\ s # r /\ call[s].key = c.key
      /\ source' \in [Requests -> Requests]
      /\ source'[r] = s /\ \A q \in Requests \ {r} : source'[q] = source[q]
      /\ microtasks' \in Seq(Requests) /\ reactions' \in [Requests -> Seq(Requests)]
      /\ Joins(r, s) /\ NoneTwice'
  BY AttachEffect
<1>4. s \in Requests /\ s # r
  BY <1>1, <1>3 DEF Fetchers, Gets, Types
<1>5. /\ pc' \in [Requests -> {"idle", "waiting", "done"}]
      /\ pc'[r] = "waiting" /\ \A q \in Requests \ {r} : pc'[q] = pc[q]
      /\ source' \in [Requests -> Requests]
      /\ source'[r] = s /\ \A q \in Requests \ {r} : source'[q] = source[q]
  BY <1>1, <1>3 DEF Types
<1>6. Types'
  <2>1. DOMAIN call' = {q \in Requests : pc'[q] # "idle"}
    BY <1>1, <1>2, <1>5 DEF Types
  <2>2. \A q \in DOMAIN call' : call'[q] \in Calls
    BY <1>1, <1>2 DEF Types
  <2> QED
    BY <1>1, <1>2, <1>5, <1>3, <2>1, <2>2 DEF Types
<1>7. Waits'
  <2>1. IdleUntouched'
    BY <1>1, <1>5 DEF Waits, IdleUntouched
  <2>2. ActiveWait'
    BY <1>1, <1>2, <1>5 DEF Waits, ActiveWait
  <2>3. MicrotasksDue'
    <3> SUFFICES ASSUME NEW q \in Requests, In(q, microtasks')
                 PROVE  pc'[q] = "waiting" /\ promise[source'[q]].state = "settled"
      BY <1>1 DEF MicrotasksDue
    <3>1. CASE q = r
      BY <3>1, <1>2, <1>5, <1>3 DEF Joins
    <3>2. CASE q # r
      <4>1. In(q, microtasks)
        BY <3>2, <1>3 DEF Joins
      <4> QED
        BY <3>2, <4>1, <1>1, <1>5 DEF Waits, MicrotasksDue
    <3> QED
      BY <3>1, <3>2
  <2>4. ReactionsWait'
    <3> SUFFICES ASSUME NEW p \in Requests, NEW q \in Requests, In(q, reactions'[p])
                 PROVE  pc'[q] = "waiting" /\ source'[q] = p /\ promise[p].state # "settled"
      BY <1>1 DEF ReactionsWait
    <3>1. CASE q = r
      BY <3>1, <1>2, <1>5, <1>3 DEF Joins
    <3>2. CASE q # r
      <4>1. In(q, reactions[p])
        BY <3>2, <1>3 DEF Joins
      <4> QED
        BY <3>2, <4>1, <1>1, <1>5 DEF Waits, ReactionsWait
    <3> QED
      BY <3>1, <3>2
  <2> QED
    BY <2>1, <2>2, <2>3, <2>4, <1>3 DEF Waits
<1>8. Fetchers' = Fetchers /\ \A q \in Fetchers : call'[q] = call[q]
  <2>1. \A q \in DOMAIN call : pc'[q] = pc[q] /\ source'[q] = source[q]
    BY <1>1, <1>2, <1>5 DEF Types
  <2> QED
    BY <2>1, <1>2, <1>4, <1>5 DEF Fetchers, Gets
<1>9. InflightExact'
  BY <1>1, <1>8 DEF InflightExact
<1> QED
  BY <1>6, <1>7, <1>9 DEF FlightInv

\* A fetch that goes on at the upstream or ends; its reactions become
\* microtasks when it ends.
LEMMA ServeFlight ==
  ASSUME FlightInv, NEW r \in Requests, Serve(r)
  PROVE  FlightInv'
<1>1. /\ Types /\ Waits /\ InflightExact
      /\ promise[r].state = "sent"
      /\ UNCHANGED <<now, inflight, pc, call, source, reactions, microtasks>>
  BY DEF FlightInv, Serve
<1>2. pc[r] = "waiting" /\ source[r] = r
  BY <1>1 DEF Waits, ActiveWait
<1>3. PICK status \in {"good", "bad"} :
        /\ version' = [version EXCEPT ![call[r].key] =
                         IF ~call[r].get /\ status = "good" THEN @ + 1 ELSE @]
        /\ promise' = [promise EXCEPT ![r] =
             [@ EXCEPT !.state = "served", !.status = status,
                       !.version = version'[call[r].key]]]
  BY DEF Serve
<1>4. call[r].key \in Keys
  BY <1>1, <1>2 DEF Types
<1>5. version' \in [Keys -> Nat]
  BY <1>1, <1>3, <1>4 DEF Types
<1>6. /\ promise' \in [Requests -> FetchRecord]
      /\ promise'[r].state = "served"
      /\ \A q \in Requests \ {r} : promise'[q] = promise[q]
  <2> DEFINE f == [promise[r] EXCEPT !.state = "served", !.status = status,
                                     !.version = version'[call[r].key]]
  <2>1. promise[r] \in FetchRecord /\ version'[call[r].key] \in Nat
    BY <1>1, <1>4, <1>5 DEF Types
  <2>2. f \in FetchRecord /\ f.state = "served"
    BY <2>1 DEF FetchRecord, States, Statuses
  <2>3. promise' = [promise EXCEPT ![r] = f]
    BY <1>3
  <2> HIDE DEF f
  <2> QED
    BY <2>2, <2>3, <1>1 DEF Types
<1>7. Types'
  BY <1>1, <1>5, <1>6 DEF Types
<1>8. \A q \in Requests : promise'[q].state = "settled" <=> promise[q].state = "settled"
  BY <1>1, <1>6
<1>9. IdleUntouched' /\ ActiveWait'
  BY <1>1, <1>2, <1>6 DEF Waits, IdleUntouched, ActiveWait
<1>10. MicrotasksDue'
  BY <1>1, <1>8 DEF Waits, MicrotasksDue, Types
<1>11. ReactionsWait'
  BY <1>1, <1>8 DEF Waits, ReactionsWait
<1>12. NoneTwice' /\ InflightExact'
  BY <1>1 DEF Waits, NoneTwice, InflightExact, Fetchers, Gets
<1> QED
  BY <1>7, <1>9, <1>10, <1>11, <1>12 DEF FlightInv, Waits

LEMMA SettleFlight ==
  ASSUME FlightInv, NEW r \in Requests, Settle(r)
  PROVE  FlightInv'
<1>1. /\ Types /\ Waits /\ InflightExact
      /\ promise[r].state \in {"sent", "served"}
      /\ microtasks' = microtasks \o reactions[r]
      /\ reactions' = [reactions EXCEPT ![r] = <<>>]
      /\ UNCHANGED <<now, version, inflight, pc, call, source>>
  BY DEF FlightInv, Settle, upstream
<1>2. pc[r] = "waiting" /\ source[r] = r
  BY <1>1 DEF Waits, ActiveWait
<1>3. /\ promise' \in [Requests -> FetchRecord]
      /\ promise'[r].state = "settled"
      /\ \A q \in Requests \ {r} : promise'[q] = promise[q]
  <2>1. promise[r] \in FetchRecord
    BY <1>1 DEF Types
  <2>2. PICK f \in FetchRecord : f.state = "settled" /\ promise' = [promise EXCEPT ![r] = f]
    <3>1. [promise[r] EXCEPT !.state = "settled"] \in FetchRecord
      BY <2>1 DEF FetchRecord, States
    <3>2. [promise[r] EXCEPT !.state = "settled", !.status = "rejected", !.version = 0]
            \in FetchRecord
      BY <2>1 DEF FetchRecord, States, Statuses
    <3> QED
      BY <3>1, <3>2, <2>1 DEF Settle, FetchRecord
  <2> QED
    BY <2>2, <1>1 DEF Types
<1>4. /\ microtasks \in Seq(Requests) /\ reactions[r] \in Seq(Requests)
      /\ Distinct(microtasks) /\ Distinct(reactions[r])
  BY <1>1 DEF Types, Waits, NoneTwice
<1>5. \A x \in Requests : In(x, microtasks) => ~In(x, reactions[r])
  BY <1>1 DEF Waits, MicrotasksDue, ReactionsWait
<1>6. \A x : In(x, microtasks) => x \in Requests
  BY <1>4 DEF In
<1>7. /\ microtasks' \in Seq(Requests) /\ Distinct(microtasks')
      /\ \A x : In(x, microtasks') <=> In(x, microtasks) \/ In(x, reactions[r])
  BY <1>1, <1>4, <1>5, <1>6, InConcat
<1>8. /\ reactions' \in [Requests -> Seq(Requests)] /\ reactions'[r] = <<>>
      /\ \A q \in Requests \ {r} : reactions'[q] = reactions[q]
  BY <1>1, EmptyQueue DEF Types
<1>9. Types'
  BY <1>1, <1>3, <1>7, <1>8 DEF Types
<1>10. IdleUntouched' /\ ActiveWait'
  BY <1>1, <1>2, <1>3 DEF Waits, IdleUntouched, ActiveWait
<1>11. MicrotasksDue'
  <2> SUFFICES ASSUME NEW q \in Requests, In(q, microtasks) \/ In(q, reactions[r])
               PROVE  pc[q] = "waiting" /\ promise'[source[q]].state = "settled"
    BY <1>1, <1>7 DEF MicrotasksDue
  <2>1. source[q] \in Requests
    BY <1>1 DEF Types
  <2>2. CASE In(q, microtasks)
    <3>1. pc[q] = "waiting" /\ promise[source[q]].state = "settled"
      BY <2>2, <1>1 DEF Waits, MicrotasksDue
    <3> QED
      BY <3>1, <2>1, <1>1, <1>3
  <2>3. CASE In(q, reactions[r])
    BY <2>3, <1>1, <1>3 DEF Waits, ReactionsWait
  <2> QED
    BY <2>2, <2>3
<1>12. ReactionsWait'
  <2> SUFFICES ASSUME NEW p \in Requests, NEW q \in Requests, In(q, reactions'[p])
               PROVE  pc[q] = "waiting" /\ source[q] = p /\ promise'[p].state # "settled"
    BY <1>1 DEF ReactionsWait
  <2>1. p # r
    BY <1>8, EmptyQueue
  <2>2. In(q, reactions[p]) /\ promise'[p] = promise[p]
    BY <2>1, <1>3, <1>8
  <2> QED
    BY <2>2, <1>1 DEF Waits, ReactionsWait
<1>13. NoneTwice'
  BY <1>1, <1>7, <1>8, EmptyQueue DEF Waits, NoneTwice
<1>14. InflightExact'
  BY <1>1 DEF InflightExact, Fetchers, Gets
<1> QED
  BY <1>9, <1>10, <1>11, <1>12, <1>13, <1>14 DEF FlightInv, Waits

\* The first microtask: its request is done, and continued nowhere else.
LEMMA ReturnWaits ==
  ASSUME Types, Waits, microtasks # <<>>,
         NEW r, r = microtasks[1], Return(r),
         DOMAIN inflight' \subseteq Keys,
         \A k \in DOMAIN inflight' : inflight'[k] \in Requests
  PROVE  /\ Types' /\ Waits'
         /\ r \in Requests /\ pc[r] = "waiting"
         /\ pc'[r] = "done" /\ \A q \in Requests \ {r} : pc'[q] = pc[q]
         /\ call' = call /\ source' = source
<1>1. /\ microtasks' = Tail(microtasks)
      /\ pc' = [pc EXCEPT ![r] = "done"]
      /\ UNCHANGED <<now, version, call, source, promise, reactions>>
  BY DEF Return, upstream
<1>2. /\ microtasks' \in Seq(Requests) /\ Distinct(microtasks')
      /\ In(r, microtasks) /\ r \in Requests
      /\ \A x : In(x, microtasks') <=> In(x, microtasks) /\ x # r
  <2>1. microtasks \in Seq(Requests) /\ Distinct(microtasks)
    BY DEF Types, Waits, NoneTwice
  <2> QED
    BY <2>1, <1>1, InTail
<1>3. pc[r] = "waiting" /\ promise[source[r]].state = "settled" /\ source[r] \in Requests
  BY <1>2 DEF Waits, MicrotasksDue, Types
<1>4. /\ pc' \in [Requests -> {"idle", "waiting", "done"}]
      /\ pc'[r] = "done" /\ \A q \in Requests \ {r} : pc'[q] = pc[q]
  BY <1>1, <1>2 DEF Types
<1>5. Types'
  <2>1. DOMAIN call' = {q \in Requests : pc'[q] # "idle"}
    BY <1>1, <1>3, <1>4 DEF Types
  <2> QED
    BY <2>1, <1>1, <1>2, <1>4 DEF Types
<1>6. IdleUntouched'
  BY <1>1, <1>4 DEF Waits, IdleUntouched
<1>7. ActiveWait'
  <2>1. promise[r].state \notin {"sent", "served"}
    BY <1>2, <1>3 DEF Waits, ActiveWait
  <2> QED
    BY <2>1, <1>1, <1>4 DEF Waits, ActiveWait
<1>8. MicrotasksDue'
  BY <1>1, <1>2, <1>4 DEF Waits, MicrotasksDue
<1>9. ReactionsWait'
  <2>1. \A q \in Requests : ~In(r, reactions[q])
    BY <1>2, <1>3 DEF Waits, ReactionsWait
  <2> QED
    BY <2>1, <1>1, <1>4 DEF Waits, ReactionsWait
<1>10. NoneTwice'
  BY <1>1, <1>2 DEF Waits, NoneTwice
<1> QED
  BY <1>1, <1>2, <1>3, <1>4, <1>5, <1>6, <1>7, <1>8, <1>9, <1>10 DEF Waits

LEMMA ResumeFlight ==
  ASSUME FlightInv, Resume
  PROVE  FlightInv'
<1> PICK r : r = microtasks[1]
  OBVIOUS
<1>1. Types /\ Waits /\ InflightExact /\ microtasks # <<>>
  BY DEF FlightInv, Resume
<1>2. CASE ResumeFetcher(r)
  <2>1. /\ source[r] = r /\ call[r].get /\ Return(r)
        /\ inflight' = [k \in DOMAIN inflight \ {call[r].key} |-> inflight[k]]
    BY <1>2 DEF ResumeFetcher
  <2>2. /\ DOMAIN inflight' = DOMAIN inflight \ {call[r].key}
        /\ \A k \in DOMAIN inflight' : inflight'[k] = inflight[k]
    BY <2>1
  <2>3. DOMAIN inflight' \subseteq Keys /\ \A k \in DOMAIN inflight' : inflight'[k] \in Requests
    BY <2>2, <1>1 DEF Types
  <2>4. /\ Types' /\ Waits'
        /\ r \in Requests /\ pc[r] = "waiting"
        /\ pc'[r] = "done" /\ \A q \in Requests \ {r} : pc'[q] = pc[q]
        /\ call' = call /\ source' = source
    BY <1>1, <2>1, <2>3, ReturnWaits
  <2>5. r \in Fetchers /\ Fetchers' = Fetchers \ {r}
    BY <1>1, <2>1, <2>4 DEF Fetchers, Gets, Types
  <2>6. InflightExact'
    BY <1>1, <2>2, <2>4, <2>5 DEF InflightExact
  <2> QED
    BY <2>4, <2>6 DEF FlightInv
<1>3. CASE ResumeOther(r)
  <2>1. (source[r] # r \/ ~call[r].get) /\ Return(r) /\ inflight' = inflight
    BY <1>3 DEF ResumeOther
  <2>2. /\ Types' /\ Waits'
        /\ r \in Requests /\ pc[r] = "waiting"
        /\ pc'[r] = "done" /\ \A q \in Requests \ {r} : pc'[q] = pc[q]
        /\ call' = call /\ source' = source
    BY <1>1, <2>1, ReturnWaits DEF Types
  <2>3. Fetchers' = Fetchers
    BY <1>1, <2>1, <2>2 DEF Fetchers, Gets, Types
  <2>4. InflightExact'
    BY <1>1, <2>1, <2>2, <2>3 DEF InflightExact
  <2> QED
    BY <2>2, <2>4 DEF FlightInv
<1> QED
  BY <1>2, <1>3 DEF Resume

\* FlightInv is inductive.
LEMMA NextFlight == FlightInv /\ [Next]_vars => FlightInv'
<1> SUFFICES ASSUME FlightInv, [Next]_vars PROVE FlightInv'
  OBVIOUS
<1>1. ASSUME NEW r \in Requests, NEW c \in Calls, GetOrFetch(r, c) PROVE FlightInv'
  BY <1>1, BypassFlight, HitFlight, AttachFlight, FetchFlight DEF GetOrFetch
<1>2. ASSUME NEW r \in Requests, Serve(r) \/ Settle(r) PROVE FlightInv'
  BY <1>2, ServeFlight, SettleFlight
<1>3. CASE Resume
  BY <1>3, ResumeFlight
<1>4. ASSUME now' \in Nat, version' \in [Keys -> Nat],
             UNCHANGED <<inflight, pc, call, source, promise, reactions, microtasks>>
      PROVE  FlightInv'
  <2>1. Types'
    BY <1>4 DEF FlightInv, Types
  <2>2. Waits'
    BY <1>4 DEF FlightInv, Waits, IdleUntouched, ActiveWait, MicrotasksDue,
                ReactionsWait, NoneTwice
  <2>3. InflightExact'
    BY <1>4 DEF FlightInv, InflightExact, Fetchers, Gets
  <2> QED
    BY <2>1, <2>2, <2>3 DEF FlightInv
<1>5. ASSUME NEW k \in Volatile, Change(k) PROVE FlightInv'
  <2>1. version' \in [Keys -> Nat] /\ now' \in Nat
    <3>1. version \in [Keys -> Nat] /\ now \in Nat /\ k \in Keys
      BY VolatileAssumption DEF FlightInv, Types
    <3>2. version' = [version EXCEPT ![k] = @ + 1] /\ now' = now
      BY <1>5 DEF Change
    <3> QED
      BY <3>1, <3>2
  <2> QED
    BY <1>4, <1>5, <2>1 DEF Change
<1>6. CASE Tick
  <2>1. version' \in [Keys -> Nat] /\ now' \in Nat
    BY <1>6 DEF Tick, FlightInv, Types
  <2> QED
    BY <1>4, <1>6, <2>1 DEF Tick
<1>7. CASE UNCHANGED vars
  <2>1. version' \in [Keys -> Nat] /\ now' \in Nat
    BY <1>7 DEF vars, FlightInv, Types
  <2> QED
    BY <1>4, <1>7, <2>1 DEF vars
<1> QED
  BY <1>1, <1>2, <1>3, <1>5, <1>6, <1>7 DEF Next

LEMMA FlightInvariant == Spec => []FlightInv
  BY InitFlight, NextFlight, PTL DEF Spec

\* Whatever fails, the inflight map names exactly the fetchers still at work.
THEOREM InflightIsExact == Spec => []InflightExact
<1>1. FlightInv => InflightExact
  BY DEF FlightInv
<1> QED
  BY <1>1, FlightInvariant, PTL

\* Two fetches at the upstream have two fetchers at work, which the map would
\* have to name under one key.
THEOREM FlightIsSingle == Spec => []SingleFlight
<1>1. FlightInv => SingleFlight
  <2> SUFFICES ASSUME FlightInv,
                      NEW r \in Gets, promise[r].state \in {"sent", "served"},
                      NEW s \in Gets, promise[s].state \in {"sent", "served"},
                      call[r].key = call[s].key
               PROVE  r = s
    BY DEF SingleFlight
  <2>1. r \in Requests /\ s \in Requests
    BY DEF FlightInv, Types, Gets
  <2>2. r \in Fetchers /\ s \in Fetchers
    BY <2>1 DEF FlightInv, Waits, ActiveWait, Fetchers
  <2> QED
    BY <2>2 DEF FlightInv, InflightExact
<1> QED
  BY <1>1, FlightInvariant, PTL

-----------------------------------------------------------------------------
(* What is cached and answered.                                            *)

AnswerRecord ==
  [from : {"none", "cache", "upstream", "coalesced"}, status : Statuses, version : Nat,
   since : Nat, age : Int]

EntryRecord ==
  [version : Nat, expiresAt : Int, since : Nat, storedAt : Nat, ttl : Nat \cup {Null}]

Shapes ==
  /\ now <= MaxNow
  /\ asOf \in [Keys -> [0 .. MaxNow -> Nat]]
  /\ answer \in [Requests -> AnswerRecord]
  /\ IsCache(cache)
  /\ Cardinality(Held(cache)) <= Capacity

\* Version v of k was the present one at t or came after it.
Shown(k, v, t) == t \in 0 .. now /\ v >= asOf[k][t]

\* The versions of a resource grow, from 0 to the present one.
Past ==
  \A k \in Keys :
    /\ asOf[k][0] = 0
    /\ \A t \in 0 .. now : asOf[k][t] <= version[k]
    /\ \A s, t \in 0 .. now : s <= t => asOf[k][s] <= asOf[k][t]

\* The version a fetch brings is one of the time since it was sent.
Fetches ==
  \A r \in Requests :
    /\ promise[r].since <= now
    /\ promise[r].state \in {"served", "settled"} /\ promise[r].status # "rejected" =>
         Shown(call[r].key, promise[r].version, promise[r].since)

\* A request waits for a fetch of its own key.
SameKey ==
  \A r \in DOMAIN call :
    source[r] \in DOMAIN call /\ call[source[r]].key = call[r].key

\* A GET of k was answered by the upstream with e.
Origin(k, e) ==
  \E r \in AnsweredGets :
    /\ call[r].key = k
    /\ answer[r].from = "upstream"
    /\ answer[r].status = "good"
    /\ answer[r].version = e.version

\* An entry was fetched since e.since, stored when it was there, and has the
\* deadline that its time to live gives it.
Sound(k, e) ==
  /\ k \in Keys /\ e \in EntryRecord
  /\ e.since <= e.storedAt /\ e.storedAt <= now
  /\ e.expiresAt = Deadline(e.ttl, e.storedAt)
  /\ Shown(k, e.version, e.since)
  /\ Origin(k, e)

Entries == \A k \in Held(cache) : Sound(k, cache.entries[k])

Answers ==
  \A r \in AnsweredGets : Shown(call[r].key, answer[r].version, answer[r].since)

CacheInv == FlightInv /\ Shapes /\ Past /\ Fetches /\ SameKey /\ Entries /\ Answers

LEMMA InitCache == Init => CacheInv
<1> SUFFICES ASSUME Init PROVE CacheInv
  OBVIOUS
<1>1. FlightInv
  BY InitFlight
<1>2. DOMAIN call = {} /\ AnsweredGets = {}
  BY DEF Init, AnsweredGets, Gets
<1>3. Shapes
  <2>1. NoAnswer \in AnswerRecord
    BY DEF NoAnswer, AnswerRecord, Statuses
  <2>2. IsCache(cache) /\ Cardinality(Held(cache)) = 0
    BY EmptyIsCache, FS_EmptySet DEF Init
  <2> QED
    BY <2>1, <2>2, CapacityAssumption DEF Init, Shapes
<1>4. Past
  BY DEF Init, Past
<1>5. Fetches
  <2>1. NoFetch.since = 0 /\ NoFetch.state = "none"
    BY DEF NoFetch
  <2> QED
    BY <2>1 DEF Init, Fetches
<1>6. SameKey /\ Answers
  BY <1>2 DEF SameKey, Answers
<1>7. Entries
  BY EmptyIsCache DEF Init, Entries
<1> QED
  BY <1>1, <1>3, <1>4, <1>5, <1>6, <1>7 DEF CacheInv

\* A step that goes on in time and does not change the past.
Later ==
  /\ now \in Nat /\ now' \in Nat /\ now <= now'
  /\ \A k \in Keys : \A t \in 0 .. now : asOf'[k][t] = asOf[k][t]

\* A step that leaves the answers given so far as they are.
Remembered ==
  \A r \in AnsweredGets : r \in AnsweredGets' /\ answer'[r] = answer[r] /\ call'[r] = call[r]

LEMMA ShownStays ==
  ASSUME Later, NEW k \in Keys, NEW v, NEW t, Shown(k, v, t)
  PROVE  Shown(k, v, t)'
BY DEF Later, Shown

LEMMA SoundStays ==
  ASSUME Later, Remembered, NEW k, NEW e, Sound(k, e)
  PROVE  Sound(k, e)'
<1>1. /\ k \in Keys /\ e \in EntryRecord
      /\ e.since <= e.storedAt /\ e.storedAt <= now
      /\ e.expiresAt = Deadline(e.ttl, e.storedAt)
      /\ Shown(k, e.version, e.since)
      /\ Origin(k, e)
  BY DEF Sound
<1>2. Shown(k, e.version, e.since)'
  BY <1>1, ShownStays
<1>3. Origin(k, e)'
  BY <1>1 DEF Origin, Remembered
<1>4. e.storedAt <= now'
  BY <1>1 DEF Later, EntryRecord
<1> QED
  BY <1>1, <1>2, <1>3, <1>4 DEF Sound

\* Nothing new is cached.
LEMMA EntriesStay ==
  ASSUME Later, Remembered, Entries, Keeps(cache, cache')
  PROVE  Entries'
<1>1. ASSUME NEW k \in DOMAIN cache'.entries
      PROVE  Sound(k, cache.entries[k])'
  <2>1. k \in Held(cache) /\ cache'.entries[k] = cache.entries[k]
    BY <1>1 DEF Keeps, Held
  <2>2. PICK e : e = cache.entries[k]
    OBVIOUS
  <2>3. Sound(k, e)
    BY <2>1, <2>2 DEF Entries
  <2>4. Sound(k, e)'
    BY <2>3, SoundStays
  <2>5. cache'.entries[k] = e
    BY <2>1, <2>2
  <2> QED
    BY <2>4, <2>5 DEF Sound, Origin, Shown
<1> QED
  BY <1>1 DEF Entries, Held

LEMMA AnswersStay ==
  ASSUME Types, Later, Remembered, Answers,
         \A r \in AnsweredGets' \ AnsweredGets :
           Shown(call[r].key, answer[r].version, answer[r].since)'
  PROVE  Answers'
<1> SUFFICES ASSUME NEW r \in AnsweredGets', r \in AnsweredGets
             PROVE  Shown(call[r].key, answer[r].version, answer[r].since)'
  BY DEF Answers
<1> PICK k, v, t : k = call[r].key /\ v = answer[r].version /\ t = answer[r].since
  OBVIOUS
<1>1. k \in Keys /\ Shown(k, v, t)
  BY DEF Answers, AnsweredGets, Gets, Types
<1>2. Shown(k, v, t)'
  BY <1>1, ShownStays
<1>3. call'[r].key = k /\ answer'[r].version = v /\ answer'[r].since = t
  BY DEF Remembered
<1> QED
  BY <1>2, <1>3 DEF Shown

\* A call that comes in and has to wait.
LEMMA WaitCache ==
  ASSUME CacheInv, FlightInv', NEW r \in Requests, NEW c \in Calls, Enter(r, c),
         pc' = [pc EXCEPT ![r] = "waiting"], answer' = answer,
         IsCache(cache'), Keeps(cache, cache'),
         promise'[r].state \in {"none", "sent"}, promise'[r].since <= now,
         \A q \in Requests \ {r} : promise'[q] = promise[q] /\ source'[q] = source[q],
         \/ source'[r] = r
         \/ source'[r] \in DOMAIN call /\ call[source'[r]].key = c.key
  PROVE  CacheInv'
<1>1. /\ FlightInv /\ Types /\ Waits /\ Shapes /\ Past /\ Fetches /\ SameKey
      /\ Entries /\ Answers
  BY DEF CacheInv, FlightInv
<1>2. /\ pc[r] = "idle" /\ r \notin DOMAIN call
      /\ DOMAIN call' = DOMAIN call \cup {r} /\ call'[r] = c
      /\ \A q \in DOMAIN call : q # r /\ call'[q] = call[q]
      /\ now' = now /\ version' = version
  BY <1>1, EnterEffect
<1>3. asOf' = asOf
  BY DEF Enter, upstream
<1>4. pc'[r] = "waiting" /\ \A q \in Requests \ {r} : pc'[q] = pc[q]
  BY <1>1 DEF Types
<1>5. DOMAIN call \subseteq Requests
  BY <1>1 DEF Types
<1>6. AnsweredGets' = AnsweredGets
  <2>1. \A q \in DOMAIN call : pc'[q] = pc[q]
    BY <1>2, <1>4, <1>5
  <2> QED
    BY <2>1, <1>2, <1>4 DEF AnsweredGets, Gets
<1>7. Remembered
  BY <1>2, <1>6 DEF Remembered, AnsweredGets, Gets
<1>8. Later
  BY <1>1, <1>2, <1>3 DEF Later, Types
<1>9. Shapes'
  <2>1. Held(cache') \subseteq Held(cache) /\ IsFiniteSet(Held(cache))
    BY <1>1 DEF Keeps, Shapes, IsCache
  <2>2. IsFiniteSet(Held(cache')) /\ Cardinality(Held(cache')) <= Cardinality(Held(cache))
    BY <2>1, FS_Subset
  <2>3. Cardinality(Held(cache')) \in Nat /\ Cardinality(Held(cache)) \in Nat
    BY <2>1, <2>2, FS_CardinalityType
  <2>4. Cardinality(Held(cache')) <= Capacity
    BY <1>1, <2>2, <2>3, CapacityAssumption DEF Shapes
  <2>5. Cardinality(Held(cache)')= Cardinality(Held(cache'))
    BY DEF Held
  <2>6. IsCache(cache)'
    BY DEF IsCache, Held, IsOrdered
  <2> QED
    BY <1>1, <1>2, <1>3, <2>4, <2>5, <2>6 DEF Shapes
<1>10. Past'
  BY <1>1, <1>2, <1>3 DEF Past
<1>11. Fetches'
  <2> SUFFICES ASSUME NEW q \in Requests
               PROVE  /\ promise'[q].since <= now
                      /\ promise'[q].state \in {"served", "settled"}
                           /\ promise'[q].status # "rejected" =>
                           Shown(call[q].key, promise[q].version, promise[q].since)'
    BY <1>2 DEF Fetches
  <2>1. CASE q = r
    BY <2>1
  <2>2. CASE q # r
    <3>1. promise'[q] = promise[q]
      BY <2>2
    <3>2. promise[q].state # "none" => q \in DOMAIN call
      BY <1>1 DEF Waits, IdleUntouched, Types
    <3> QED
      BY <3>1, <3>2, <1>1, <1>2, <1>3 DEF Fetches, Shown
  <2> QED
    BY <2>1, <2>2
<1>12. SameKey'
  <2> SUFFICES ASSUME NEW q \in DOMAIN call'
               PROVE  source'[q] \in DOMAIN call' /\ call'[source'[q]].key = call'[q].key
    BY DEF SameKey
  <2>1. CASE q = r
    BY <2>1, <1>2
  <2>2. CASE q # r
    <3>1. q \in DOMAIN call /\ source'[q] = source[q]
      BY <2>2, <1>2, <1>5
    <3> QED
      BY <3>1, <1>1, <1>2 DEF SameKey
  <2> QED
    BY <2>1, <2>2
<1>13. Entries'
  BY <1>1, <1>7, <1>8, EntriesStay
<1>14. Answers'
  BY <1>1, <1>6, <1>7, <1>8, AnswersStay
<1> QED
  BY <1>9, <1>10, <1>11, <1>12, <1>13, <1>14 DEF CacheInv

\* A call that sends a request of its own.
LEMMA SendCache ==
  ASSUME CacheInv, FlightInv', NEW r \in Requests, NEW c \in Calls, Enter(r, c),
         StartFetch(r), pc' = [pc EXCEPT ![r] = "waiting"], answer' = answer,
         IsCache(cache'), Keeps(cache, cache')
  PROVE  CacheInv'
<1>1. Types /\ Waits
  BY DEF CacheInv, FlightInv
<1>2. /\ promise'[r].state = "sent"
      /\ \A q \in Requests \ {r} : promise'[q] = promise[q]
      /\ source' = source
  BY <1>1, StartEffect
<1>3. promise'[r].since <= now
  <2> DEFINE f == [promise[r] EXCEPT !.state = "sent", !.since = now]
  <2>1. promise[r] \in FetchRecord /\ now \in Nat
    BY <1>1 DEF Types
  <2>2. f.since = now
    BY <2>1 DEF FetchRecord
  <2>3. promise' = [promise EXCEPT ![r] = f]
    BY DEF StartFetch
  <2> HIDE DEF f
  <2> QED
    BY <2>1, <2>2, <2>3, <1>1 DEF Types
<1>4. source[r] = r
  BY <1>1, EnterEffect
<1> QED
  BY <1>2, <1>3, <1>4, WaitCache

LEMMA BypassCache ==
  ASSUME CacheInv, NEW r \in Requests, NEW c \in Calls, Bypass(r, c)
  PROVE  CacheInv'
<1>1. /\ FlightInv'
      /\ Enter(r, c) /\ StartFetch(r) /\ pc' = [pc EXCEPT ![r] = "waiting"]
      /\ answer' = answer /\ cache' = cache
  BY BypassFlight DEF CacheInv, Bypass
<1>2. IsCache(cache') /\ Keeps(cache, cache')
  BY <1>1 DEF CacheInv, Shapes, Keeps
<1> QED
  BY <1>1, <1>2, SendCache

LEMMA FetchCache ==
  ASSUME CacheInv, NEW r \in Requests, NEW c \in Calls, Fetch(r, c)
  PROVE  CacheInv'
<1>1. /\ FlightInv'
      /\ Enter(r, c) /\ StartFetch(r) /\ pc' = [pc EXCEPT ![r] = "waiting"]
      /\ answer' = answer /\ cache' = AfterGet(cache, c.key, now)
  BY FetchFlight DEF CacheInv, Fetch
<1>2. IsCache(cache') /\ Keeps(cache, cache')
  BY <1>1, GetKeeps DEF CacheInv, Shapes
<1> QED
  BY <1>1, <1>2, SendCache

LEMMA AttachCache ==
  ASSUME CacheInv, NEW r \in Requests, NEW c \in Calls, Attach(r, c)
  PROVE  CacheInv'
<1> PICK s : s = inflight[c.key]
  OBVIOUS
<1>1. /\ FlightInv /\ FlightInv' /\ Types /\ Fetches
      /\ Enter(r, c) /\ pc' = [pc EXCEPT ![r] = "waiting"]
      /\ c.key \in DOMAIN inflight /\ source' = [source EXCEPT ![r] = s]
      /\ promise' = promise /\ answer' = answer
      /\ cache' = AfterGet(cache, c.key, now)
  BY AttachFlight DEF CacheInv, FlightInv, Attach
<1>2. IsCache(cache') /\ Keeps(cache, cache')
  BY <1>1, GetKeeps DEF CacheInv, Shapes
<1>3. s \in DOMAIN call /\ call[s].key = c.key
  BY <1>1 DEF FlightInv, InflightExact, Fetchers, Gets
<1>4. source'[r] = s /\ \A q \in Requests \ {r} : source'[q] = source[q]
  BY <1>1 DEF Types
<1>5. promise[r].state = "none"
  BY <1>1, EnterEffect DEF FlightInv
<1>6. promise[r].since <= now
  BY <1>1 DEF Fetches
<1> QED
  BY <1>1, <1>2, <1>3, <1>4, <1>5, <1>6, WaitCache

\* An entry that is not past its deadline shows a version that its lifetime and
\* the time its fetch took allow.
LEMMA HorizonShown ==
  ASSUME Types, Shapes, Past, NEW k, NEW e, Sound(k, e), ~IsExpired(e, now)
  PROVE  Shown(k, e.version, Horizon(e)) /\ Horizon(e) \in Nat
<1>1. /\ k \in Keys /\ now \in Nat /\ now <= MaxNow
      /\ e.version \in Nat /\ e.since \in Nat /\ e.storedAt \in Nat
      /\ e.ttl \in Nat \cup {-1} /\ e.expiresAt \in Int
      /\ e.since <= e.storedAt /\ e.storedAt <= now
      /\ e.expiresAt = Deadline(e.ttl, e.storedAt)
      /\ e.since \in 0 .. now /\ e.version >= asOf[k][e.since]
  BY DEF Types, Shapes, Sound, EntryRecord, Shown, Null
<1>2. Horizon(e) \in 0 .. e.since
  <2>1. CASE e.expiresAt = Infinity
    BY <2>1, <1>1 DEF Horizon
  <2>2. CASE e.expiresAt # Infinity
    <3>1. e.ttl > 0 /\ e.expiresAt = e.storedAt + e.ttl
      BY <2>2, <1>1 DEF Deadline
    <3>2. now <= e.storedAt + e.ttl
      BY <2>2, <3>1, <1>1 DEF IsExpired
    <3>3. now - e.ttl - (e.storedAt - e.since) <= e.since
      BY <3>2, <1>1
    <3> QED
      BY <2>2, <3>3, <1>1 DEF Horizon
  <2> QED
    BY <2>1, <2>2
<1> PICK t : t = Horizon(e)
  OBVIOUS
<1>3. t \in 0 .. now /\ t <= e.since
  BY <1>1, <1>2
<1>4. asOf[k][t] <= asOf[k][e.since]
  BY <1>1, <1>3 DEF Past
<1>5. asOf[k][t] \in Nat /\ asOf[k][e.since] \in Nat
  BY <1>1, <1>3 DEF Shapes
<1> QED
  BY <1>1, <1>3, <1>4, <1>5 DEF Shown

LEMMA HitCache ==
  ASSUME CacheInv, NEW r \in Requests, NEW c \in Calls, Hit(r, c)
  PROVE  CacheInv'
<1> PICK e : e = cache.entries[c.key]
  OBVIOUS
<1>1. /\ FlightInv /\ FlightInv' /\ Types /\ Waits /\ Shapes /\ Past /\ Fetches /\ SameKey
      /\ Entries /\ Answers
      /\ c.get /\ Hits(cache, c.key, now) /\ Enter(r, c)
      /\ pc' = [pc EXCEPT ![r] = "done"]
      /\ cache' = AfterGet(cache, c.key, now)
      /\ UNCHANGED <<inflight, source, promise, reactions, microtasks>>
  BY HitFlight DEF CacheInv, FlightInv, Hit
<1>2. /\ pc[r] = "idle" /\ r \notin DOMAIN call /\ source[r] = r /\ promise[r].state = "none"
      /\ DOMAIN call' = DOMAIN call \cup {r} /\ call'[r] = c
      /\ \A q \in DOMAIN call : q # r /\ call'[q] = call[q]
      /\ now' = now /\ version' = version
  BY <1>1, EnterEffect
<1>3. asOf' = asOf
  BY <1>1 DEF Enter, upstream
<1>4. pc'[r] = "done" /\ \A q \in Requests \ {r} : pc'[q] = pc[q]
  BY <1>1 DEF Types
<1>5. DOMAIN call \subseteq Requests
  BY <1>1 DEF Types
<1>6. Sound(c.key, e) /\ ~IsExpired(e, now) /\ c.key \in Held(cache)
  BY <1>1 DEF Hits, Entries
<1>7. Shown(c.key, e.version, Horizon(e)) /\ Horizon(e) \in Nat
  BY <1>1, <1>6, HorizonShown
\* The answer.
<1> DEFINE f == [from |-> "cache", status |-> "good", version |-> e.version,
                 since |-> Horizon(e), age |-> now - e.storedAt]
<1>8. f \in AnswerRecord /\ f.version = e.version /\ f.since = Horizon(e)
  BY <1>1, <1>6, <1>7 DEF AnswerRecord, Statuses, Sound, EntryRecord, Types
<1>9. answer' = [answer EXCEPT ![r] = f]
  BY <1>1 DEF Hit
<1> HIDE DEF f
<1>10. /\ answer' \in [Requests -> AnswerRecord] /\ answer'[r] = f
       /\ \A q \in Requests \ {r} : answer'[q] = answer[q]
  BY <1>1, <1>8, <1>9 DEF Shapes
<1>11. AnsweredGets' \subseteq AnsweredGets \cup {r}
  <2>1. \A q \in DOMAIN call : pc'[q] = pc[q] /\ answer'[q] = answer[q]
    BY <1>2, <1>4, <1>5, <1>10
  <2> QED
    BY <2>1, <1>2 DEF AnsweredGets, Gets
<1>12. Remembered
  <2>1. \A q \in DOMAIN call : pc'[q] = pc[q] /\ answer'[q] = answer[q]
    BY <1>2, <1>4, <1>5, <1>10
  <2> QED
    BY <2>1, <1>2 DEF Remembered, AnsweredGets, Gets
<1>13. Later
  BY <1>1, <1>2, <1>3 DEF Later, Types
<1>14. IsCache(cache') /\ Keeps(cache, cache')
  BY <1>1, GetKeeps DEF Shapes
<1>15. Held(cache') = Held(cache)
  <2>1. cache' = Touched(cache, c.key)
    BY <1>1, <1>6 DEF AfterGet, Hits, Expires
  <2> QED
    BY <2>1, <1>1, <1>6, TouchedKeeps DEF Shapes, Held
<1>16. Shapes'
  <2>1. Held(cache)' = Held(cache)
    BY <1>15 DEF Held
  <2>2. IsCache(cache)'
    BY <1>14 DEF IsCache, Held, IsOrdered
  <2> QED
    BY <1>1, <1>2, <1>3, <1>10, <2>1, <2>2 DEF Shapes
<1>17. Past'
  BY <1>1, <1>2, <1>3 DEF Past
<1>18. Fetches'
  <2> SUFFICES ASSUME NEW q \in Requests
               PROVE  /\ promise[q].since <= now
                      /\ promise[q].state \in {"served", "settled"}
                           /\ promise[q].status # "rejected" =>
                           Shown(call[q].key, promise[q].version, promise[q].since)'
    BY <1>1, <1>2 DEF Fetches
  <2>1. promise[q].state # "none" => q \in DOMAIN call
    BY <1>1 DEF Waits, IdleUntouched, Types
  <2> QED
    BY <2>1, <1>1, <1>2, <1>3 DEF Fetches, Shown
<1>19. SameKey'
  BY <1>1, <1>2 DEF SameKey
<1>20. Entries'
  BY <1>1, <1>12, <1>13, <1>14, EntriesStay
<1>21. Answers'
  <2>1. ASSUME NEW q \in AnsweredGets' \ AnsweredGets
        PROVE  Shown(call[q].key, answer[q].version, answer[q].since)'
    <3>1. q = r
      BY <1>11, <2>1
    <3>2. call'[q].key = c.key /\ answer'[q].version = e.version /\ answer'[q].since = Horizon(e)
      BY <3>1, <1>2, <1>8, <1>10
    <3> PICK t : t = Horizon(e)
      OBVIOUS
    <3>3. Shown(c.key, e.version, t) /\ answer'[q].since = t
      BY <1>7, <3>2
    <3> QED
      BY <3>2, <3>3, <1>2, <1>3 DEF Shown
  <2> QED
    BY <2>1, <1>1, <1>12, <1>13, AnswersStay
<1> QED
  BY <1>1, <1>16, <1>17, <1>18, <1>19, <1>20, <1>21 DEF CacheInv

\* What the steps of the upstream and of the clock leave alone.
LEMMA QuietCache ==
  ASSUME CacheInv, FlightInv', Past', Fetches', now \in Nat, now' \in Nat, now <= now',
         now' <= MaxNow,
         asOf' \in [Keys -> [0 .. MaxNow -> Nat]],
         \A k \in Keys : \A t \in 0 .. now : asOf'[k][t] = asOf[k][t],
         cache' = cache, pc' = pc, call' = call, source' = source, answer' = answer
  PROVE  CacheInv'
<1>1. Shapes /\ SameKey /\ Entries /\ Answers /\ Types
  BY DEF CacheInv, FlightInv
<1>2. Later
  BY DEF Later
<1>3. AnsweredGets' = AnsweredGets
  BY DEF AnsweredGets, Gets
<1>4. Remembered
  BY <1>3 DEF Remembered
<1>5. Shapes'
  BY <1>1 DEF Shapes, IsCache, Held, IsOrdered
<1>6. SameKey'
  BY <1>1 DEF SameKey
<1>7. Entries'
  BY <1>1, <1>2, <1>4, EntriesStay DEF Keeps
<1>8. Answers'
  BY <1>1, <1>2, <1>3, <1>4, AnswersStay
<1> QED
  BY <1>5, <1>6, <1>7, <1>8 DEF CacheInv

LEMMA ServeCache ==
  ASSUME CacheInv, NEW r \in Requests, Serve(r)
  PROVE  CacheInv'
<1>1. /\ FlightInv /\ FlightInv' /\ Types /\ Waits /\ Shapes /\ Past /\ Fetches
      /\ promise[r].state = "sent"
      /\ UNCHANGED <<now, cache, pc, call, source, answer, asOf>>
  BY ServeFlight DEF CacheInv, FlightInv, Serve
<1>2. r \in DOMAIN call
  BY <1>1 DEF Waits, ActiveWait, Types
<1> PICK k : k = call[r].key
  OBVIOUS
<1>3. k \in Keys
  BY <1>1, <1>2 DEF Types
<1>4. PICK status \in {"good", "bad"} :
        /\ version' = [version EXCEPT ![k] =
                         IF ~call[r].get /\ status = "good" THEN @ + 1 ELSE @]
        /\ promise' = [promise EXCEPT ![r] =
             [@ EXCEPT !.state = "served", !.status = status, !.version = version'[k]]]
  BY DEF Serve
<1>5. /\ version'[k] \in Nat /\ \A j \in Keys : version'[j] \in Nat /\ version[j] <= version'[j]
  BY <1>1, <1>3, <1>4 DEF Types
<1>6. Past'
  <2> SUFFICES ASSUME NEW j \in Keys, NEW t \in 0 .. now
               PROVE  asOf[j][t] <= version'[j]
    BY <1>1 DEF Past
  <2>1. asOf[j][t] <= version[j] /\ asOf[j][t] \in Nat /\ version[j] \in Nat
    BY <1>1 DEF Past, Shapes, Types
  <2> QED
    BY <2>1, <1>5
<1>7. /\ promise'[r].since = promise[r].since /\ promise'[r].version = version'[k]
      /\ \A q \in Requests \ {r} : promise'[q] = promise[q]
  <2> DEFINE f == [promise[r] EXCEPT !.state = "served", !.status = status,
                                     !.version = version'[k]]
  <2>1. promise[r] \in FetchRecord
    BY <1>1 DEF Types
  <2>2. f.since = promise[r].since /\ f.version = version'[k]
    BY <2>1 DEF FetchRecord
  <2>3. promise' = [promise EXCEPT ![r] = f]
    BY <1>4
  <2> HIDE DEF f
  <2> QED
    BY <2>2, <2>3, <1>1 DEF Types
<1>8. Fetches'
  <2> SUFFICES ASSUME NEW q \in Requests
               PROVE  /\ promise'[q].since <= now
                      /\ promise'[q].state \in {"served", "settled"}
                           /\ promise'[q].status # "rejected" =>
                           Shown(call[q].key, promise[q].version, promise[q].since)'
    BY <1>1 DEF Fetches
  <2>1. CASE q = r
    <3> PICK t, v : t = promise[r].since /\ v = version'[k]
      OBVIOUS
    <3>1. t \in 0 .. now
      BY <1>1 DEF Fetches, Types, FetchRecord
    <3>2. asOf'[k][t] <= v
      BY <1>1, <1>3, <1>6, <3>1 DEF Past
    <3>3. asOf'[k][t] \in Nat /\ v \in Nat
      BY <1>1, <1>3, <1>5, <3>1 DEF Shapes, Types
    <3> QED
      BY <2>1, <3>1, <3>2, <3>3, <1>1, <1>7 DEF Shown
  <2>2. CASE q # r
    BY <2>2, <1>1, <1>7 DEF Fetches, Shown
  <2> QED
    BY <2>1, <2>2
<1>9. now \in Nat /\ now' \in Nat /\ now <= now' /\ now' <= MaxNow
  BY <1>1 DEF Types, Shapes
<1>10. asOf' \in [Keys -> [0 .. MaxNow -> Nat]]
  BY <1>1 DEF Shapes
<1> QED
  BY <1>1, <1>6, <1>8, <1>9, <1>10, QuietCache

LEMMA SettleCache ==
  ASSUME CacheInv, NEW r \in Requests, Settle(r)
  PROVE  CacheInv'
<1>1. /\ FlightInv /\ FlightInv' /\ Types /\ Shapes /\ Past /\ Fetches
      /\ UNCHANGED <<now, version, asOf, cache, pc, call, source, answer>>
  BY SettleFlight DEF CacheInv, FlightInv, Settle, upstream
<1>2. /\ promise'[r].since = promise[r].since
      /\ \/ promise'[r].status = "rejected"
         \/ /\ promise[r].state = "served"
            /\ promise'[r].status = promise[r].status
            /\ promise'[r].version = promise[r].version
      /\ \A q \in Requests \ {r} : promise'[q] = promise[q]
  <2>1. promise[r] \in FetchRecord
    BY <1>1 DEF Types
  <2>2. CASE /\ promise[r].state = "served"
             /\ promise' = [promise EXCEPT ![r] = [@ EXCEPT !.state = "settled"]]
    <3> DEFINE f == [promise[r] EXCEPT !.state = "settled"]
    <3>1. f.since = promise[r].since /\ f.status = promise[r].status
          /\ f.version = promise[r].version
      BY <2>1 DEF FetchRecord
    <3>2. promise' = [promise EXCEPT ![r] = f]
      BY <2>2
    <3> HIDE DEF f
    <3> QED
      BY <3>1, <3>2, <2>2, <1>1 DEF Types
  <2>3. CASE promise' = [promise EXCEPT ![r] =
               [@ EXCEPT !.state = "settled", !.status = "rejected", !.version = 0]]
    <3> DEFINE f == [promise[r] EXCEPT !.state = "settled", !.status = "rejected",
                                       !.version = 0]
    <3>1. f.since = promise[r].since /\ f.status = "rejected"
      BY <2>1 DEF FetchRecord
    <3>2. promise' = [promise EXCEPT ![r] = f]
      BY <2>3
    <3> HIDE DEF f
    <3> QED
      BY <3>1, <3>2, <1>1 DEF Types
  <2> QED
    BY <2>2, <2>3 DEF Settle
<1>3. Past'
  BY <1>1 DEF Past
<1>4. Fetches'
  BY <1>1, <1>2 DEF Fetches, Shown
<1>5. now \in Nat /\ now' \in Nat /\ now <= now' /\ now' <= MaxNow
  BY <1>1 DEF Types, Shapes
<1>6. asOf' \in [Keys -> [0 .. MaxNow -> Nat]]
  BY <1>1 DEF Shapes
<1> QED
  BY <1>1, <1>3, <1>4, <1>5, <1>6, QuietCache

LEMMA ChangeCache ==
  ASSUME CacheInv, FlightInv', NEW k \in Volatile, Change(k)
  PROVE  CacheInv'
<1>1. /\ FlightInv /\ Types /\ Shapes /\ Past /\ Fetches
      /\ version' = [version EXCEPT ![k] = @ + 1]
      /\ UNCHANGED <<now, asOf, cache, pc, call, source, promise, answer>>
  BY DEF CacheInv, FlightInv, Change
<1>2. Past'
  <2> SUFFICES ASSUME NEW j \in Keys, NEW t \in 0 .. now
               PROVE  asOf[j][t] <= version'[j]
    BY <1>1 DEF Past
  <2>1. asOf[j][t] <= version[j] /\ asOf[j][t] \in Nat /\ version[j] \in Nat
    BY <1>1 DEF Past, Shapes, Types
  <2> QED
    BY <2>1, <1>1, VolatileAssumption DEF Types
<1>3. Fetches'
  BY <1>1 DEF Fetches, Shown
<1>4. now \in Nat /\ now' \in Nat /\ now <= now' /\ now' <= MaxNow
  BY <1>1 DEF Types, Shapes
<1>5. asOf' \in [Keys -> [0 .. MaxNow -> Nat]]
  BY <1>1 DEF Shapes
<1> QED
  BY <1>1, <1>2, <1>3, <1>4, <1>5, QuietCache

\* A new instant begins with the version that is present.
LEMMA TickCache ==
  ASSUME CacheInv, FlightInv', Tick
  PROVE  CacheInv'
<1>1. /\ FlightInv /\ Types /\ Waits /\ Shapes /\ Past /\ Fetches
      /\ now < MaxNow /\ now' = now + 1
      /\ asOf' = [k \in Keys |-> [asOf[k] EXCEPT ![now + 1] = version[k]]]
      /\ UNCHANGED <<version, cache, pc, call, source, promise, answer>>
  BY DEF CacheInv, FlightInv, Tick
<1>2. now \in Nat /\ now' \in Nat /\ now <= now' /\ now' <= MaxNow /\ MaxNow \in Nat
  BY <1>1 DEF Types
<1>3. \A k \in Keys : /\ asOf'[k] \in [0 .. MaxNow -> Nat]
                      /\ asOf'[k][now + 1] = version[k]
                      /\ \A t \in 0 .. now : asOf'[k][t] = asOf[k][t]
  <2> SUFFICES ASSUME NEW k \in Keys
               PROVE  /\ asOf'[k] \in [0 .. MaxNow -> Nat]
                      /\ asOf'[k][now + 1] = version[k]
                      /\ \A t \in 0 .. now : asOf'[k][t] = asOf[k][t]
    OBVIOUS
  <2>1. asOf[k] \in [0 .. MaxNow -> Nat] /\ version[k] \in Nat
    BY <1>1 DEF Shapes, Types
  <2>2. asOf'[k] = [asOf[k] EXCEPT ![now + 1] = version[k]]
    BY <1>1
  <2>3. now + 1 \in 0 .. MaxNow /\ \A t \in 0 .. now : t \in 0 .. MaxNow /\ t # now + 1
    BY <1>1, <1>2
  <2> QED
    BY <2>1, <2>2, <2>3
<1>4. asOf' \in [Keys -> [0 .. MaxNow -> Nat]]
  BY <1>1, <1>3
<1>5. Past'
  <2> SUFFICES ASSUME NEW k \in Keys
               PROVE  /\ asOf'[k][0] = 0
                      /\ \A t \in 0 .. now + 1 : asOf'[k][t] <= version[k]
                      /\ \A s, t \in 0 .. now + 1 : s <= t => asOf'[k][s] <= asOf'[k][t]
    BY <1>1 DEF Past
  <2>1. /\ asOf[k][0] = 0
        /\ \A t \in 0 .. now : asOf[k][t] <= version[k]
        /\ \A s, t \in 0 .. now : s <= t => asOf[k][s] <= asOf[k][t]
    BY <1>1 DEF Past
  <2>2. 0 \in 0 .. now /\ \A t \in 0 .. now + 1 : t \in 0 .. now \/ t = now + 1
    BY <1>2
  <2>3. /\ asOf'[k][now + 1] = version[k] /\ \A t \in 0 .. now : asOf'[k][t] = asOf[k][t]
        /\ version[k] \in Nat
    BY <1>1, <1>3 DEF Types
  <2>4. ASSUME NEW s \in 0 .. now + 1, NEW t \in 0 .. now + 1, s <= t
        PROVE  asOf'[k][s] <= asOf'[k][t]
    <3>1. CASE s = now + 1
      BY <3>1, <2>3, <2>4, <1>2
    <3>2. CASE t = now + 1 /\ s # now + 1
      BY <3>2, <2>1, <2>2, <2>3
    <3>3. CASE s # now + 1 /\ t # now + 1
      BY <3>3, <2>1, <2>2, <2>3, <2>4
    <3> QED
      BY <3>1, <3>2, <3>3
  <2> QED
    BY <2>1, <2>2, <2>3, <2>4
<1>6. Fetches'
  <2> SUFFICES ASSUME NEW q \in Requests
               PROVE  /\ promise[q].since <= now + 1
                      /\ promise[q].state \in {"served", "settled"}
                           /\ promise[q].status # "rejected" =>
                           Shown(call[q].key, promise[q].version, promise[q].since)'
    BY <1>1 DEF Fetches
  <2>1. promise[q].since <= now /\ promise[q].since \in Nat
    BY <1>1 DEF Fetches, Types, FetchRecord
  <2>2. promise[q].state # "none" => call[q].key \in Keys
    BY <1>1 DEF Waits, IdleUntouched, Types
  <2>3. ASSUME promise[q].state \in {"served", "settled"}, promise[q].status # "rejected"
        PROVE  Shown(call[q].key, promise[q].version, promise[q].since)'
    <3>1. call[q].key \in Keys /\ promise[q].since \in 0 .. now
          /\ promise[q].version >= asOf[call[q].key][promise[q].since]
      BY <2>2, <2>3, <1>1 DEF Fetches, Shown
    <3>2. asOf'[call[q].key][promise[q].since] = asOf[call[q].key][promise[q].since]
      BY <3>1, <1>3
    <3> QED
      BY <3>1, <3>2, <1>1, <1>2 DEF Shown
  <2> QED
    BY <2>1, <2>3, <1>2
<1> QED
  BY <1>1, <1>2, <1>3, <1>4, <1>5, <1>6, QuietCache

\* A request returns with what the fetch it waited for has brought.
LEMMA ReturnAnswers ==
  ASSUME CacheInv, microtasks # <<>>, NEW r, r = microtasks[1], Return(r)
  PROVE  /\ r \in DOMAIN call /\ source[r] \in DOMAIN call
         /\ promise[source[r]].state = "settled"
         /\ pc' = [pc EXCEPT ![r] = "done"]
         /\ answer' \in [Requests -> AnswerRecord]
         /\ answer'[r].from = (IF source[r] = r THEN "upstream" ELSE "coalesced")
         /\ answer'[r].status = promise[source[r]].status
         /\ answer'[r].version = promise[source[r]].version
         /\ Later /\ Remembered
         /\ Past' /\ Fetches' /\ SameKey' /\ Answers'
<1>1. /\ FlightInv /\ Types /\ Waits /\ Shapes /\ Past /\ Fetches /\ SameKey
      /\ Entries /\ Answers
  BY DEF CacheInv, FlightInv
<1>2. /\ pc' = [pc EXCEPT ![r] = "done"]
      /\ UNCHANGED <<now, version, asOf, call, source, promise, reactions>>
  BY DEF Return, upstream
<1>3. r \in Requests /\ In(r, microtasks)
  <2>1. microtasks \in Seq(Requests) /\ Distinct(microtasks)
    BY <1>1 DEF Types, Waits, NoneTwice
  <2> QED
    BY <2>1, InTail
<1>4. pc[r] = "waiting" /\ promise[source[r]].state = "settled"
  BY <1>1, <1>3 DEF Waits, MicrotasksDue
<1>5. r \in DOMAIN call /\ source[r] \in DOMAIN call /\ call[source[r]].key = call[r].key
  BY <1>1, <1>3, <1>4 DEF Types, SameKey
<1> PICK p : p = promise[source[r]]
  OBVIOUS
<1>6. p \in FetchRecord
  BY <1>1, <1>3 DEF Types
<1> DEFINE f == [from |-> IF source[r] = r THEN "upstream" ELSE "coalesced",
                 status |-> p.status, version |-> p.version, since |-> p.since, age |-> 0]
<1>7. /\ f \in AnswerRecord /\ f.status = p.status /\ f.version = p.version
      /\ f.since = p.since /\ f.from = (IF source[r] = r THEN "upstream" ELSE "coalesced")
  BY <1>6 DEF AnswerRecord, FetchRecord
<1>8. answer' = [answer EXCEPT ![r] = f]
  BY DEF Return
<1> HIDE DEF f
<1>9. /\ answer' \in [Requests -> AnswerRecord] /\ answer'[r] = f
      /\ \A q \in Requests \ {r} : answer'[q] = answer[q]
  BY <1>1, <1>3, <1>7, <1>8 DEF Shapes
<1>10. pc'[r] = "done" /\ \A q \in Requests \ {r} : pc'[q] = pc[q]
  BY <1>1, <1>2, <1>3 DEF Types
<1>11. DOMAIN call \subseteq Requests
  BY <1>1 DEF Types
<1>12. Remembered
  BY <1>2, <1>4, <1>9, <1>10, <1>11 DEF Remembered, AnsweredGets, Gets
<1>13. Later
  BY <1>1, <1>2 DEF Later, Types
<1>14. Past'
  BY <1>1, <1>2 DEF Past
<1>15. Fetches'
  BY <1>1, <1>2 DEF Fetches, Shown
<1>16. SameKey'
  BY <1>1, <1>2 DEF SameKey
<1>17. Answers'
  <2>1. ASSUME NEW q \in AnsweredGets' \ AnsweredGets
        PROVE  Shown(call[q].key, answer[q].version, answer[q].since)'
    <3>1. q = r
      BY <2>1, <1>2, <1>9, <1>10, <1>11 DEF AnsweredGets, Gets
    <3>2. p.status # "rejected"
      BY <2>1, <3>1, <1>7, <1>9 DEF AnsweredGets
    <3>3. Shown(call[r].key, p.version, p.since)
      BY <3>2, <1>1, <1>3, <1>4, <1>5 DEF Fetches, Types
    <3> QED
      BY <3>1, <3>3, <1>2, <1>7, <1>9 DEF Shown
  <2> QED
    BY <2>1, <1>1, <1>12, <1>13, AnswersStay
<1> QED
  BY <1>2, <1>4, <1>5, <1>7, <1>9, <1>12, <1>13, <1>14, <1>15, <1>16, <1>17

\* The entry that a fetcher stores is what the upstream has just answered it.
LEMMA StoredSound ==
  ASSUME CacheInv, microtasks # <<>>, NEW r, r = microtasks[1], Return(r),
         source[r] = r, call[r].get, Cacheable(promise[r]),
         NEW e, e = Entry(call[r], promise[r])
  PROVE  Sound(call[r].key, e)'
<1>1. /\ Types /\ Shapes /\ Fetches
  BY DEF CacheInv, FlightInv
<1>2. /\ r \in DOMAIN call /\ r \in Requests /\ promise[r].state = "settled"
      /\ pc' = [pc EXCEPT ![r] = "done"]
      /\ answer'[r].from = "upstream"
      /\ answer'[r].status = promise[r].status
      /\ answer'[r].version = promise[r].version
  BY <1>1, ReturnAnswers DEF Types
<1>3. UNCHANGED <<now, asOf, call>>
  BY DEF Return, upstream
<1>4. promise[r] \in FetchRecord /\ promise[r].status = "good" /\ call[r] \in Calls
      /\ now \in Nat
  BY <1>1, <1>2 DEF Types, Cacheable
<1>5. Shown(call[r].key, promise[r].version, promise[r].since) /\ promise[r].since <= now
  BY <1>1, <1>2, <1>4 DEF Fetches
<1>6. TtlArg(call[r].route) \in Nat \cup {Null}
  BY <1>4 DEF TtlArg, Routes
<1>7. /\ e \in EntryRecord /\ e.version = promise[r].version /\ e.since = promise[r].since
      /\ e.storedAt = now /\ e.expiresAt = Deadline(e.ttl, now)
  BY <1>4, <1>6 DEF Entry, ResolvedTtl, EntryRecord, FetchRecord, Deadline, Infinity, Null
<1>8. r \in AnsweredGets'
  BY <1>1, <1>2, <1>3, <1>4 DEF AnsweredGets, Gets, Types
<1>9. Origin(call[r].key, e)'
  BY <1>2, <1>3, <1>4, <1>7, <1>8 DEF Origin
<1>10. Shown(call[r].key, e.version, e.since)'
  BY <1>3, <1>5, <1>7 DEF Shown
<1>11. call[r].key \in Keys
  BY <1>4
<1> QED
  BY <1>3, <1>4, <1>5, <1>7, <1>9, <1>10, <1>11 DEF Sound

LEMMA ResumeCache ==
  ASSUME CacheInv, Resume
  PROVE  CacheInv'
<1> PICK r : r = microtasks[1]
  OBVIOUS
<1>1. /\ FlightInv /\ FlightInv' /\ Types /\ Shapes /\ Entries /\ microtasks # <<>>
      /\ (ResumeFetcher(r) \/ ResumeOther(r)) /\ Return(r)
  BY ResumeFlight DEF CacheInv, FlightInv, Resume, ResumeFetcher, ResumeOther
<1>2. /\ answer' \in [Requests -> AnswerRecord]
      /\ Later /\ Remembered /\ Past' /\ Fetches' /\ SameKey' /\ Answers'
  BY <1>1, ReturnAnswers
<1>3. UNCHANGED <<now, asOf, call>>
  BY <1>1 DEF Return, upstream
<1>4. ASSUME IsCache(cache'), Cardinality(Held(cache')) <= Capacity
      PROVE  Shapes'
  BY <1>1, <1>2, <1>3, <1>4 DEF Shapes, IsCache, Held, IsOrdered
<1>5. CASE cache' = cache
  <2>1. Entries'
    BY <1>1, <1>2, <1>5, EntriesStay DEF Keeps
  <2>2. Shapes'
    BY <1>1, <1>4, <1>5 DEF Shapes
  <2> QED
    BY <2>1, <2>2, <1>1, <1>2 DEF CacheInv
<1>6. CASE cache' # cache
  <2>1. /\ source[r] = r /\ call[r].get /\ Cacheable(promise[r])
        /\ cache' = AfterPut(cache, call[r].key, Entry(call[r], promise[r]), Capacity)
    BY <1>1, <1>6 DEF ResumeFetcher, ResumeOther
  <2> PICK k, e : k = call[r].key /\ e = Entry(call[r], promise[r])
    OBVIOUS
  <2>2. Sound(k, e)'
    <3>1. Sound(call[r].key, e)'
      BY <2>1, <1>1, StoredSound
    <3> QED
      BY <3>1, <1>3 DEF Sound, Shown, Origin
  <2>3. /\ IsCache(cache') /\ Cardinality(Held(cache')) <= Capacity
        /\ k \in Held(cache') /\ cache'.entries[k] = e
        /\ \A j \in Held(cache') \ {k} : j \in Held(cache) /\ cache'.entries[j] = cache.entries[j]
    BY <2>1, <1>1, PutKeeps, CapacityAssumption DEF Shapes
  <2>4. Shapes'
    BY <2>3, <1>4
  <2>5. ASSUME NEW j \in DOMAIN cache'.entries
        PROVE  Sound(j, cache.entries[j])'
    <3>1. CASE j = k
      BY <3>1, <2>2, <2>3 DEF Sound, Shown, Origin
    <3>2. CASE j # k
      <4>1. j \in Held(cache) /\ cache'.entries[j] = cache.entries[j]
        BY <3>2, <2>3, <2>5 DEF Held
      <4> PICK g : g = cache.entries[j]
        OBVIOUS
      <4>2. Sound(j, g)'
        BY <4>1, <1>1, <1>2, SoundStays DEF Entries
      <4>3. cache'.entries[j] = g
        BY <4>1
      <4> QED
        BY <4>2, <4>3 DEF Sound, Shown, Origin
    <3> QED
      BY <3>1, <3>2
  <2>6. Entries'
    BY <2>5 DEF Entries, Held
  <2> QED
    BY <2>4, <2>6, <1>1, <1>2 DEF CacheInv
<1> QED
  BY <1>5, <1>6

\* CacheInv is inductive.
LEMMA NextCache == CacheInv /\ [Next]_vars => CacheInv'
<1> SUFFICES ASSUME CacheInv, [Next]_vars PROVE CacheInv'
  OBVIOUS
<1>1. FlightInv /\ FlightInv'
  BY NextFlight DEF CacheInv
<1>2. ASSUME NEW r \in Requests, NEW c \in Calls, GetOrFetch(r, c) PROVE CacheInv'
  BY <1>2, BypassCache, HitCache, AttachCache, FetchCache DEF GetOrFetch
<1>3. ASSUME NEW r \in Requests, Serve(r) \/ Settle(r) PROVE CacheInv'
  BY <1>3, ServeCache, SettleCache
<1>4. CASE Resume
  BY <1>4, ResumeCache
<1>5. ASSUME NEW k \in Volatile, Change(k) PROVE CacheInv'
  BY <1>1, <1>5, ChangeCache
<1>6. CASE Tick
  BY <1>1, <1>6, TickCache
<1>7. CASE UNCHANGED vars
  <2>1. Types /\ Shapes /\ Past /\ Fetches
    BY DEF CacheInv, FlightInv, Types
  <2>2. UNCHANGED <<now, version, asOf, cache, pc, call, source, promise, answer>>
    BY <1>7 DEF vars
  <2>3. Past' /\ Fetches'
    BY <2>1, <2>2 DEF Past, Fetches, Shown
  <2>4. now \in Nat /\ now' \in Nat /\ now <= now' /\ now' <= MaxNow
    BY <2>1, <2>2 DEF Types, Shapes
  <2>5. asOf' \in [Keys -> [0 .. MaxNow -> Nat]]
    BY <2>1, <2>2 DEF Shapes
  <2> QED
    BY <1>1, <2>2, <2>3, <2>4, <2>5, QuietCache
<1> QED
  BY <1>2, <1>3, <1>4, <1>5, <1>6, <1>7 DEF Next

LEMMA CacheInvariant == Spec => []CacheInv
  BY InitCache, NextCache, PTL DEF Spec

\* Whatever the cache evicts, drops or stores again, it holds at most Capacity
\* keys, and under each of them what the upstream has answered a GET of it.
THEOREM CacheIsHonest == Spec => []CacheHonest
<1>1. CacheInv => CacheHonest
  BY DEF CacheInv, Shapes, Entries, Sound, Origin, CacheHonest
<1> QED
  BY <1>1, CacheInvariant, PTL

\* However long a fetch takes, and whoever it was for, an answer shows the
\* version of the instant that its time to live allows or a later one.
THEOREM StalenessIsBounded == Spec => []BoundedStaleness
<1>1. CacheInv => BoundedStaleness
  BY DEF CacheInv, Answers, Shown, BoundedStaleness
<1> QED
  BY <1>1, CacheInvariant, PTL

-----------------------------------------------------------------------------
(* The order of the microtasks.                                            *)

\* a is somewhere before b.
Before(a, b, s) == \E i, j \in DOMAIN s : i < j /\ s[i] = a /\ s[j] = b

LEMMA BeforeIsIn ==
  ASSUME NEW s, NEW a, NEW b, Before(a, b, s)
  PROVE  In(a, s) /\ In(b, s)
BY DEF Before, In

LEMMA BeforeAppend ==
  ASSUME NEW S, NEW s \in Seq(S), NEW e \in S, NEW a, NEW b, Before(a, b, Append(s, e))
  PROVE  Before(a, b, s) \/ (In(a, s) /\ b = e)
<1>1. /\ DOMAIN s = 1 .. Len(s) /\ Len(s) \in Nat
      /\ DOMAIN Append(s, e) = 1 .. (Len(s) + 1)
      /\ \A i \in 1 .. Len(s) : Append(s, e)[i] = s[i]
      /\ Append(s, e)[Len(s) + 1] = e
  OBVIOUS
<1>2. PICK i \in DOMAIN Append(s, e), j \in DOMAIN Append(s, e) :
        i < j /\ Append(s, e)[i] = a /\ Append(s, e)[j] = b
  BY DEF Before
<1>3. i \in DOMAIN s /\ s[i] = a
  BY <1>1, <1>2
<1>4. CASE j = Len(s) + 1
  BY <1>1, <1>2, <1>3, <1>4 DEF In
<1>5. CASE j # Len(s) + 1
  <2>1. j \in DOMAIN s /\ s[j] = b
    BY <1>1, <1>2, <1>5
  <2> QED
    BY <2>1, <1>2, <1>3 DEF Before
<1> QED
  BY <1>4, <1>5

LEMMA BeforeConcat ==
  ASSUME NEW S, NEW s \in Seq(S), NEW t \in Seq(S), NEW a, NEW b, Before(a, b, s \o t)
  PROVE  \/ Before(a, b, s)
         \/ In(a, s) /\ In(b, t)
         \/ In(a, t) /\ In(b, t)
<1>1. /\ DOMAIN s = 1 .. Len(s) /\ DOMAIN t = 1 .. Len(t)
      /\ Len(s) \in Nat /\ Len(t) \in Nat
      /\ DOMAIN (s \o t) = 1 .. (Len(s) + Len(t))
  OBVIOUS
<1>2. ASSUME NEW i \in DOMAIN (s \o t)
      PROVE  \/ i \in DOMAIN s /\ (s \o t)[i] = s[i]
             \/ i > Len(s) /\ In((s \o t)[i], t)
  <2>1. CASE i \in DOMAIN s
    BY <2>1, <1>1
  <2>2. CASE i \notin DOMAIN s
    <3>1. i > Len(s) /\ i - Len(s) \in DOMAIN t /\ (s \o t)[i] = t[i - Len(s)]
      BY <2>2, <1>1
    <3> QED
      BY <3>1 DEF In
  <2> QED
    BY <2>1, <2>2
<1>3. PICK i \in DOMAIN (s \o t), j \in DOMAIN (s \o t) :
        i < j /\ (s \o t)[i] = a /\ (s \o t)[j] = b
  BY DEF Before
<1>4. CASE i \in DOMAIN s /\ j \in DOMAIN s
  BY <1>1, <1>2, <1>3, <1>4 DEF Before
<1>5. CASE i \in DOMAIN s /\ j \notin DOMAIN s
  BY <1>2, <1>3, <1>5 DEF In
<1>6. CASE i \notin DOMAIN s
  <2>1. j \notin DOMAIN s
    BY <1>1, <1>3, <1>6
  <2> QED
    BY <2>1, <1>2, <1>3, <1>6
<1> QED
  BY <1>4, <1>5, <1>6

LEMMA BeforeTail ==
  ASSUME NEW S, NEW s \in Seq(S), s # <<>>, Distinct(s), NEW b, In(b, Tail(s))
  PROVE  Before(s[1], b, s) /\ \A a : Before(a, b, Tail(s)) => Before(a, b, s)
<1>1. /\ Len(s) \in Nat \ {0}
      /\ DOMAIN s = 1 .. Len(s) /\ DOMAIN Tail(s) = 1 .. (Len(s) - 1)
      /\ \A i \in 1 .. (Len(s) - 1) : Tail(s)[i] = s[i + 1]
  OBVIOUS
<1>2. ASSUME NEW i \in DOMAIN Tail(s)
      PROVE  i \in Nat /\ i + 1 \in DOMAIN s /\ 1 < i + 1 /\ Tail(s)[i] = s[i + 1]
  BY <1>1
<1>3. 1 \in DOMAIN s
  BY <1>1
<1>4. Before(s[1], b, s)
  <2>1. PICK j \in DOMAIN Tail(s) : Tail(s)[j] = b
    BY DEF In
  <2>2. j + 1 \in DOMAIN s /\ 1 < j + 1 /\ s[j + 1] = b
    BY <2>1, <1>2
  <2> QED
    BY <2>2, <1>3 DEF Before
<1>5. ASSUME NEW a, Before(a, b, Tail(s))
      PROVE  Before(a, b, s)
  <2>1. PICK i \in DOMAIN Tail(s), j \in DOMAIN Tail(s) :
          i < j /\ Tail(s)[i] = a /\ Tail(s)[j] = b
    BY <1>5 DEF Before
  <2>2. /\ i + 1 \in DOMAIN s /\ j + 1 \in DOMAIN s /\ i + 1 < j + 1
        /\ s[i + 1] = a /\ s[j + 1] = b
    BY <2>1, <1>2
  <2> QED
    BY <2>2 DEF Before
<1> QED
  BY <1>4, <1>5

Key(r) == call[r].key

\* A GET of a key that is queued behind the fetcher of the key waits for it.
BehindFetcher ==
  \A a \in Fetchers, b \in Gets :
    Before(a, b, microtasks) /\ Key(a) = Key(b) => source[b] = a

\* What is being fetched is not cached.
Apart == \A k \in DOMAIN inflight : k \notin Held(cache)

GetsFollowGets == \A q \in Gets : source[q] \in Gets

\* Who waits is queued somewhere.
NoneForgotten ==
  \A q \in Requests : pc[q] = "waiting" =>
    IF promise[source[q]].state = "settled" THEN In(q, microtasks)
    ELSE In(q, reactions[source[q]])

QueueInv == CacheInv /\ BehindFetcher /\ Apart /\ GetsFollowGets /\ NoneForgotten

\* get() of a key that is not there or has expired leaves it out of the cache.
LEMMA MissLeavesOut ==
  ASSUME NEW c, IsCache(c), NEW k, NEW t, ~Hits(c, k, t)
  PROVE  k \notin Held(AfterGet(c, k, t))
<1>1. CASE Expires(c, k, t)
  <2>1. AfterGet(c, k, t) = Removed(c, k)
    BY <1>1 DEF AfterGet, Hits, Expires
  <2> QED
    BY <2>1, RemovedKeeps
<1>2. CASE ~Expires(c, k, t)
  <2>1. AfterGet(c, k, t) = c
    BY <1>2 DEF AfterGet
  <2> QED
    BY <2>1, <1>2 DEF Hits, Expires
<1> QED
  BY <1>1, <1>2

LEMMA InitQueue == Init => QueueInv
<1> SUFFICES ASSUME Init PROVE QueueInv
  OBVIOUS
<1>1. CacheInv
  BY InitCache
<1>2. DOMAIN call = {} /\ DOMAIN inflight = {} /\ \A r \in Requests : pc[r] = "idle"
  BY DEF Init
<1>3. BehindFetcher /\ Apart /\ GetsFollowGets /\ NoneForgotten
  BY <1>2 DEF BehindFetcher, Apart, GetsFollowGets, NoneForgotten, Fetchers, Gets
<1> QED
  BY <1>1, <1>3 DEF QueueInv

LEMMA SendQueue ==
  ASSUME QueueInv, NEW r \in Requests, NEW c \in Calls, Bypass(r, c) \/ Fetch(r, c)
  PROVE  QueueInv'
<1>1. /\ CacheInv /\ CacheInv' /\ FlightInv /\ Types /\ Waits /\ SameKey /\ IsCache(cache)
      /\ Enter(r, c) /\ StartFetch(r)
      /\ pc' = [pc EXCEPT ![r] = "waiting"] /\ microtasks' = microtasks
  BY BypassCache, FetchCache DEF QueueInv, CacheInv, FlightInv, Shapes, Bypass, Fetch
<1>2. /\ pc[r] = "idle" /\ r \notin DOMAIN call /\ source[r] = r
      /\ DOMAIN call' = DOMAIN call \cup {r} /\ call'[r] = c
      /\ \A q \in DOMAIN call : q # r /\ call'[q] = call[q]
      /\ ~In(r, microtasks)
  BY <1>1, EnterEffect
<1>3. /\ promise'[r].state = "sent"
      /\ \A q \in Requests \ {r} : promise'[q] = promise[q]
      /\ reactions'[r] = <<r>>
      /\ \A q \in Requests \ {r} : reactions'[q] = reactions[q]
      /\ source' = source
  BY <1>1, StartEffect
<1>4. pc'[r] = "waiting" /\ \A q \in Requests \ {r} : pc'[q] = pc[q]
  BY <1>1 DEF Types
<1>5. Gets \subseteq Gets' /\ Gets' \subseteq Gets \cup {r} /\ (r \in Gets' => c.get)
  BY <1>2 DEF Gets
<1>6. BehindFetcher'
  <2> SUFFICES ASSUME NEW a \in Fetchers', NEW b \in Gets', Before(a, b, microtasks),
                      Key(a)' = Key(b)'
               PROVE  source[b] = a
    BY <1>1, <1>3 DEF BehindFetcher
  <2>1. In(a, microtasks) /\ In(b, microtasks)
    BY BeforeIsIn
  <2>2. a # r /\ b # r
    BY <2>1, <1>2
  <2>3. a \in Gets' /\ pc'[a] = "waiting" /\ source'[a] = a
    BY DEF Fetchers
  <2>4. a \in Gets /\ b \in Gets
    BY <2>2, <2>3, <1>5
  <2>5. a \in Fetchers
    BY <2>2, <2>3, <2>4, <1>1, <1>3, <1>4 DEF Fetchers, Gets, Types
  <2>6. Key(a) = Key(b)
    BY <2>4, <1>2 DEF Key, Gets
  <2> QED
    BY <2>4, <2>5, <2>6 DEF QueueInv, BehindFetcher
<1>7. Apart'
  <2>1. CASE Bypass(r, c)
    BY <2>1 DEF Bypass, QueueInv, Apart, Held
  <2>2. CASE Fetch(r, c)
    <3>1. /\ DOMAIN inflight' = DOMAIN inflight \cup {c.key}
          /\ ~Hits(cache, c.key, now) /\ cache' = AfterGet(cache, c.key, now)
      BY <2>2 DEF Fetch
    <3>2. c.key \notin Held(cache') /\ Held(cache') \subseteq Held(cache)
      BY <3>1, <1>1, MissLeavesOut, GetKeeps DEF Keeps
    <3> QED
      BY <3>1, <3>2 DEF QueueInv, Apart, Held
  <2> QED
    BY <2>1, <2>2
<1>8. GetsFollowGets'
  <2> SUFFICES ASSUME NEW q \in Gets' PROVE source[q] \in Gets'
    BY <1>3 DEF GetsFollowGets
  <2>1. CASE q = r
    BY <2>1, <1>2
  <2>2. CASE q # r
    BY <2>2, <1>5 DEF QueueInv, GetsFollowGets
  <2> QED
    BY <2>1, <2>2
<1>9. NoneForgotten'
  <2> SUFFICES ASSUME NEW q \in Requests, pc'[q] = "waiting"
               PROVE  IF promise'[source[q]].state = "settled" THEN In(q, microtasks)
                      ELSE In(q, reactions'[source[q]])
    BY <1>1, <1>3 DEF NoneForgotten
  <2>1. CASE q = r
    BY <2>1, <1>2, <1>3, SingleQueue
  <2>2. CASE q # r
    <3>1. pc[q] = "waiting"
      BY <2>2, <1>4
    <3>2. source[q] \in DOMAIN call /\ source[q] # r /\ source[q] \in Requests
      BY <3>1, <1>1, <1>2 DEF SameKey, Types
    <3>3. promise'[source[q]] = promise[source[q]] /\ reactions'[source[q]] = reactions[source[q]]
      BY <3>2, <1>3
    <3> QED
      BY <3>1, <3>3 DEF QueueInv, NoneForgotten
  <2> QED
    BY <2>1, <2>2
<1> QED
  BY <1>1, <1>6, <1>7, <1>8, <1>9 DEF QueueInv

LEMMA HitQueue ==
  ASSUME QueueInv, NEW r \in Requests, NEW c \in Calls, Hit(r, c)
  PROVE  QueueInv'
<1>1. /\ CacheInv /\ CacheInv' /\ FlightInv /\ Types /\ Waits /\ IsCache(cache)
      /\ Enter(r, c) /\ pc' = [pc EXCEPT ![r] = "done"]
      /\ cache' = AfterGet(cache, c.key, now)
      /\ UNCHANGED <<inflight, source, promise, reactions, microtasks>>
  BY HitCache DEF QueueInv, CacheInv, FlightInv, Shapes, Hit
<1>2. /\ r \notin DOMAIN call /\ source[r] = r
      /\ DOMAIN call' = DOMAIN call \cup {r} /\ call'[r] = c
      /\ \A q \in DOMAIN call : q # r /\ call'[q] = call[q]
      /\ ~In(r, microtasks)
  BY <1>1, EnterEffect
<1>3. pc'[r] = "done" /\ \A q \in Requests \ {r} : pc'[q] = pc[q]
  BY <1>1 DEF Types
<1>4. Gets \subseteq Gets' /\ Gets' \subseteq Gets \cup {r}
  BY <1>2 DEF Gets
<1>5. BehindFetcher'
  <2> SUFFICES ASSUME NEW a \in Fetchers', NEW b \in Gets', Before(a, b, microtasks),
                      Key(a)' = Key(b)'
               PROVE  source[b] = a
    BY <1>1 DEF BehindFetcher
  <2>1. In(a, microtasks) /\ In(b, microtasks)
    BY BeforeIsIn
  <2>2. a # r /\ b # r
    BY <2>1, <1>2
  <2>3. a \in Gets' /\ pc'[a] = "waiting" /\ source'[a] = a
    BY DEF Fetchers
  <2>4. a \in Gets /\ b \in Gets
    BY <2>2, <2>3, <1>4
  <2>5. a \in Fetchers
    BY <2>2, <2>3, <2>4, <1>1, <1>3 DEF Fetchers, Gets, Types
  <2>6. Key(a) = Key(b)
    BY <2>4, <1>2 DEF Key, Gets
  <2> QED
    BY <2>4, <2>5, <2>6 DEF QueueInv, BehindFetcher
<1>6. Apart'
  <2>1. Held(cache') \subseteq Held(cache)
    BY <1>1, GetKeeps DEF Keeps
  <2> QED
    BY <2>1, <1>1 DEF QueueInv, Apart, Held
<1>7. GetsFollowGets'
  BY <1>1, <1>2, <1>4 DEF QueueInv, GetsFollowGets
<1>8. NoneForgotten'
  <2> SUFFICES ASSUME NEW q \in Requests, pc'[q] = "waiting"
               PROVE  IF promise[source[q]].state = "settled" THEN In(q, microtasks)
                      ELSE In(q, reactions[source[q]])
    BY <1>1 DEF NoneForgotten
  <2>1. pc[q] = "waiting"
    BY <1>3
  <2> QED
    BY <2>1 DEF QueueInv, NoneForgotten
<1> QED
  BY <1>1, <1>5, <1>6, <1>7, <1>8 DEF QueueInv

LEMMA AttachQueue ==
  ASSUME QueueInv, NEW r \in Requests, NEW c \in Calls, Attach(r, c)
  PROVE  QueueInv'
<1> PICK s : s = inflight[c.key]
  OBVIOUS
<1>1. /\ CacheInv /\ CacheInv' /\ FlightInv /\ Types /\ Waits /\ InflightExact
      /\ IsCache(cache)
      /\ Enter(r, c) /\ pc' = [pc EXCEPT ![r] = "waiting"]
      /\ cache' = AfterGet(cache, c.key, now)
      /\ UNCHANGED <<inflight, promise>>
  BY AttachCache DEF QueueInv, CacheInv, FlightInv, Shapes, Attach
<1>2. /\ r \notin DOMAIN call
      /\ DOMAIN call' = DOMAIN call \cup {r} /\ call'[r] = c
      /\ \A q \in DOMAIN call : q # r /\ call'[q] = call[q]
      /\ ~In(r, microtasks)
  BY <1>1, EnterEffect
<1>3. /\ s \in Fetchers /\ s # r /\ call[s].key = c.key
      /\ source'[r] = s /\ \A q \in Requests \ {r} : source'[q] = source[q]
      /\ microtasks' = IF promise[s].state = "settled"
                       THEN Append(microtasks, r) ELSE microtasks
  BY <1>1, AttachEffect
<1>4. Joins(r, s)
  BY <1>1, AttachEffect
<1>5. pc'[r] = "waiting" /\ \A q \in Requests \ {r} : pc'[q] = pc[q]
  BY <1>1 DEF Types
<1>6. Gets \subseteq Gets' /\ Gets' \subseteq Gets \cup {r}
  BY <1>2 DEF Gets
<1>7. BehindFetcher'
  <2> SUFFICES ASSUME NEW a \in Fetchers', NEW b \in Gets', Before(a, b, microtasks'),
                      Key(a)' = Key(b)'
               PROVE  source'[b] = a
    BY DEF BehindFetcher
  <2>1. Before(a, b, microtasks) \/ (In(a, microtasks) /\ b = r)
    <3>1. CASE promise[s].state = "settled"
      <4>1. microtasks' = Append(microtasks, r) /\ microtasks \in Seq(Requests)
        BY <3>1, <1>1, <1>3 DEF Types
      <4> QED
        BY <4>1, BeforeAppend
    <3>2. CASE promise[s].state # "settled"
      BY <3>2, <1>3
    <3> QED
      BY <3>1, <3>2
  <2>2. In(a, microtasks) /\ a # r
    BY <2>1, <1>2, BeforeIsIn
  <2>3. a \in Gets' /\ pc'[a] = "waiting" /\ source'[a] = a
    BY DEF Fetchers
  <2>4. a \in Fetchers
    BY <2>2, <2>3, <1>1, <1>3, <1>5, <1>6 DEF Fetchers, Gets, Types
  <2>5. CASE b = r
    <3>1. call[a].key = c.key
      BY <2>2, <2>4, <2>5, <1>2 DEF Key, Fetchers, Gets
    <3>2. a = s
      BY <3>1, <2>4, <1>1 DEF InflightExact
    <3> QED
      BY <3>2, <2>5, <1>3
  <2>6. CASE b # r
    <3>1. b \in Gets /\ Before(a, b, microtasks) /\ b \in Requests
      BY <2>1, <2>6, <1>1, <1>6 DEF Gets, Types
    <3>2. Key(a) = Key(b)
      BY <2>4, <3>1, <1>2 DEF Key, Fetchers, Gets
    <3> QED
      BY <2>4, <2>6, <3>1, <3>2, <1>3 DEF QueueInv, BehindFetcher
  <2> QED
    BY <2>5, <2>6
<1>8. Apart'
  <2>1. Held(cache') \subseteq Held(cache)
    BY <1>1, GetKeeps DEF Keeps
  <2> QED
    BY <2>1, <1>1 DEF QueueInv, Apart, Held
<1>9. GetsFollowGets'
  <2> SUFFICES ASSUME NEW q \in Gets' PROVE source'[q] \in Gets'
    BY DEF GetsFollowGets
  <2>1. CASE q = r
    BY <2>1, <1>3, <1>6 DEF Fetchers
  <2>2. CASE q # r
    <3>1. q \in Gets /\ source'[q] = source[q]
      BY <2>2, <1>1, <1>3, <1>6 DEF Gets, Types
    <3> QED
      BY <3>1, <1>6 DEF QueueInv, GetsFollowGets
  <2> QED
    BY <2>1, <2>2
<1>10. NoneForgotten'
  <2> SUFFICES ASSUME NEW q \in Requests, pc'[q] = "waiting"
               PROVE  IF promise[source'[q]].state = "settled" THEN In(q, microtasks')
                      ELSE In(q, reactions'[source'[q]])
    BY <1>1 DEF NoneForgotten
  <2>1. CASE q = r
    <3>1. s \in Requests
      BY <1>1, <1>3 DEF Fetchers, Gets, Types
    <3> QED
      BY <2>1, <3>1, <1>3, <1>4 DEF Joins
  <2>2. CASE q # r
    <3>1. pc[q] = "waiting" /\ source'[q] = source[q] /\ source[q] \in Requests
      BY <2>2, <1>1, <1>3, <1>5 DEF Types
    <3>2. IF promise[source[q]].state = "settled" THEN In(q, microtasks)
          ELSE In(q, reactions[source[q]])
      BY <3>1 DEF QueueInv, NoneForgotten
    <3> QED
      BY <3>1, <3>2, <1>4 DEF Joins
  <2> QED
    BY <2>1, <2>2
<1> QED
  BY <1>1, <1>7, <1>8, <1>9, <1>10 DEF QueueInv

LEMMA ServeQueue ==
  ASSUME QueueInv, NEW r \in Requests, Serve(r)
  PROVE  QueueInv'
<1>1. /\ CacheInv /\ CacheInv' /\ Types /\ promise[r].state = "sent"
      /\ UNCHANGED <<cache, inflight, pc, call, source, reactions, microtasks>>
  BY ServeCache DEF QueueInv, CacheInv, FlightInv, Serve
<1>2. \A q \in Requests : promise'[q].state = "settled" <=> promise[q].state = "settled"
  <2>1. PICK v, status : promise' = [promise EXCEPT ![r] =
               [@ EXCEPT !.state = "served", !.status = status, !.version = v]]
    BY DEF Serve
  <2>2. promise[r] \in FetchRecord
    BY <1>1 DEF Types
  <2> DEFINE f == [promise[r] EXCEPT !.state = "served", !.status = status, !.version = v]
  <2>3. f.state = "served"
    BY <2>2 DEF FetchRecord
  <2>4. promise' = [promise EXCEPT ![r] = f]
    BY <2>1
  <2> HIDE DEF f
  <2> QED
    BY <2>3, <2>4, <1>1 DEF Types
<1>3. BehindFetcher' /\ Apart' /\ GetsFollowGets'
  BY <1>1 DEF QueueInv, BehindFetcher, Apart, GetsFollowGets, Fetchers, Gets, Key, Held
<1>4. NoneForgotten'
  <2> SUFFICES ASSUME NEW q \in Requests, pc[q] = "waiting"
               PROVE  IF promise'[source[q]].state = "settled" THEN In(q, microtasks)
                      ELSE In(q, reactions[source[q]])
    BY <1>1 DEF NoneForgotten
  <2>1. source[q] \in Requests
    BY <1>1 DEF Types
  <2> QED
    BY <2>1, <1>2 DEF QueueInv, NoneForgotten
<1> QED
  BY <1>1, <1>3, <1>4 DEF QueueInv

\* Two fetches of a key that are both still to end are one.
LEMMA SameFetcher ==
  ASSUME InflightExact, NEW a \in Fetchers, NEW b \in Fetchers, Key(a) = Key(b)
  PROVE  a = b
BY DEF InflightExact, Key

\* Who reacts to a fetch: the fetcher is a GET too, of the same key.
LEMMA ReactsToGet ==
  ASSUME QueueInv, NEW r \in Requests, promise[r].state \in {"sent", "served"},
         NEW q \in Gets, In(q, reactions[r])
  PROVE  source[q] = r /\ r \in Fetchers /\ Key(r) = Key(q)
<1>1. Types /\ Waits /\ SameKey
  BY DEF QueueInv, CacheInv, FlightInv
<1>2. q \in Requests /\ q \in DOMAIN call
  BY <1>1 DEF Gets, Types
<1>3. source[q] = r
  BY <1>1, <1>2 DEF Waits, ReactionsWait
<1>4. r \in Gets /\ pc[r] = "waiting" /\ source[r] = r
  BY <1>1, <1>3 DEF QueueInv, GetsFollowGets, Waits, ActiveWait
<1> QED
  BY <1>1, <1>2, <1>3, <1>4 DEF Fetchers, SameKey, Key

LEMMA SettleQueue ==
  ASSUME QueueInv, NEW r \in Requests, Settle(r)
  PROVE  QueueInv'
<1>1. /\ CacheInv /\ CacheInv' /\ FlightInv /\ Types /\ Waits /\ InflightExact
      /\ promise[r].state \in {"sent", "served"}
      /\ microtasks' = microtasks \o reactions[r]
      /\ reactions' = [reactions EXCEPT ![r] = <<>>]
      /\ UNCHANGED <<cache, inflight, pc, call, source>>
  BY SettleCache DEF QueueInv, CacheInv, FlightInv, Settle
<1>2. microtasks \in Seq(Requests) /\ reactions[r] \in Seq(Requests)
  BY <1>1 DEF Types
<1>3. \A x : In(x, microtasks') <=> In(x, microtasks) \/ In(x, reactions[r])
  BY <1>1, <1>2, InConcat
<1>4. Fetchers' = Fetchers /\ Gets' = Gets
  BY <1>1 DEF Fetchers, Gets
<1>5. BehindFetcher'
  <2> SUFFICES ASSUME NEW a \in Fetchers, NEW b \in Gets, Before(a, b, microtasks'),
                      Key(a) = Key(b)
               PROVE  source[b] = a
    BY <1>1, <1>4 DEF BehindFetcher, Key
  <2>1. \/ Before(a, b, microtasks)
        \/ In(a, microtasks) /\ In(b, reactions[r])
        \/ In(a, reactions[r]) /\ In(b, reactions[r])
    BY <1>1, <1>2, BeforeConcat
  <2>2. CASE Before(a, b, microtasks)
    BY <2>2 DEF QueueInv, BehindFetcher
  <2>3. CASE In(b, reactions[r])
    <3>1. source[b] = r /\ r \in Fetchers /\ Key(r) = Key(b)
      BY <2>3, <1>1, ReactsToGet
    <3> QED
      BY <3>1, <1>1, SameFetcher
  <2> QED
    BY <2>1, <2>2, <2>3
<1>6. Apart' /\ GetsFollowGets'
  BY <1>1, <1>4 DEF QueueInv, Apart, GetsFollowGets, Held
<1>7. NoneForgotten'
  <2> SUFFICES ASSUME NEW q \in Requests, pc[q] = "waiting"
               PROVE  IF promise'[source[q]].state = "settled" THEN In(q, microtasks')
                      ELSE In(q, reactions'[source[q]])
    BY <1>1 DEF NoneForgotten
  <2>1. source[q] \in Requests
    BY <1>1 DEF Types
  <2>2. IF promise[source[q]].state = "settled" THEN In(q, microtasks)
        ELSE In(q, reactions[source[q]])
    BY DEF QueueInv, NoneForgotten
  <2>3. CASE source[q] = r
    <3>1. In(q, microtasks')
      BY <2>2, <2>3, <1>1, <1>3
    <3>2. promise'[r].state = "settled"
      <4>1. promise[r] \in FetchRecord
        BY <1>1 DEF Types
      <4>2. \/ promise' = [promise EXCEPT ![r] = [@ EXCEPT !.state = "settled"]]
            \/ promise' = [promise EXCEPT ![r] =
                 [@ EXCEPT !.state = "settled", !.status = "rejected", !.version = 0]]
        BY DEF Settle
      <4>3. /\ [promise[r] EXCEPT !.state = "settled"].state = "settled"
            /\ [promise[r] EXCEPT !.state = "settled", !.status = "rejected",
                                  !.version = 0].state = "settled"
        BY <4>1 DEF FetchRecord
      <4> QED
        BY <4>2, <4>3, <1>1 DEF Types
    <3> QED
      BY <2>3, <3>1, <3>2
  <2>4. CASE source[q] # r
    <3>1. promise'[source[q]] = promise[source[q]]
      BY <2>1, <2>4, <1>1 DEF Settle, Types
    <3>2. reactions'[source[q]] = reactions[source[q]]
      BY <2>1, <2>4, <1>1 DEF Types
    <3> QED
      BY <3>1, <3>2, <2>2, <1>3
  <2> QED
    BY <2>3, <2>4
<1> QED
  BY <1>1, <1>5, <1>6, <1>7 DEF QueueInv

LEMMA ResumeQueue ==
  ASSUME QueueInv, Resume
  PROVE  QueueInv'
<1> PICK r : r = microtasks[1]
  OBVIOUS
<1>1. /\ CacheInv /\ CacheInv' /\ FlightInv /\ Types /\ Waits /\ IsCache(cache)
      /\ Cardinality(Held(cache)) <= Capacity
      /\ microtasks # <<>> /\ (ResumeFetcher(r) \/ ResumeOther(r)) /\ Return(r)
  BY ResumeCache DEF QueueInv, CacheInv, FlightInv, Shapes, Resume, ResumeFetcher, ResumeOther
<1>2. /\ microtasks' = Tail(microtasks) /\ pc' = [pc EXCEPT ![r] = "done"]
      /\ UNCHANGED <<call, source, promise, reactions>>
  BY <1>1 DEF Return
<1>3. microtasks \in Seq(Requests) /\ Distinct(microtasks)
  BY <1>1 DEF Types, Waits, NoneTwice
<1>4. r \in Requests /\ \A x : In(x, microtasks') <=> In(x, microtasks) /\ x # r
  BY <1>1, <1>2, <1>3, InTail
<1>5. pc'[r] = "done" /\ \A q \in Requests \ {r} : pc'[q] = pc[q]
  BY <1>1, <1>2, <1>4 DEF Types
<1>6. Gets' = Gets /\ Fetchers' \subseteq Fetchers
  <2>1. Gets' = Gets
    BY <1>2 DEF Gets
  <2> QED
    BY <2>1, <1>1, <1>2, <1>5 DEF Fetchers, Gets, Types
<1>7. BehindFetcher'
  <2> SUFFICES ASSUME NEW a \in Fetchers, NEW b \in Gets, Before(a, b, microtasks'),
                      Key(a) = Key(b)
               PROVE  source[b] = a
    BY <1>2, <1>6 DEF BehindFetcher, Key
  <2>1. In(b, Tail(microtasks))
    BY <1>2, BeforeIsIn
  <2>2. Before(a, b, microtasks)
    BY <2>1, <1>1, <1>2, <1>3, BeforeTail
  <2> QED
    BY <2>2 DEF QueueInv, BehindFetcher
<1>8. Apart'
  <2>1. CASE cache' = cache
    BY <2>1, <1>1 DEF QueueInv, Apart, ResumeFetcher, ResumeOther, Held
  <2>2. CASE cache' # cache
    <3>1. /\ cache' = AfterPut(cache, call[r].key, Entry(call[r], promise[r]), Capacity)
          /\ DOMAIN inflight' = DOMAIN inflight \ {call[r].key}
      BY <2>2, <1>1 DEF ResumeFetcher, ResumeOther
    <3>2. \A j \in Held(cache') \ {call[r].key} : j \in Held(cache)
      BY <3>1, <1>1, PutKeeps, CapacityAssumption
    <3> QED
      BY <3>1, <3>2 DEF QueueInv, Apart, Held
  <2> QED
    BY <2>1, <2>2
<1>9. GetsFollowGets'
  BY <1>2, <1>6 DEF QueueInv, GetsFollowGets
<1>10. NoneForgotten'
  <2> SUFFICES ASSUME NEW q \in Requests, pc'[q] = "waiting"
               PROVE  IF promise[source[q]].state = "settled" THEN In(q, microtasks')
                      ELSE In(q, reactions[source[q]])
    BY <1>2 DEF NoneForgotten
  <2>1. q # r /\ pc[q] = "waiting"
    BY <1>5
  <2> QED
    BY <2>1, <1>4 DEF QueueInv, NoneForgotten
<1> QED
  BY <1>1, <1>7, <1>8, <1>9, <1>10 DEF QueueInv

\* QueueInv is inductive.
LEMMA NextQueue == QueueInv /\ [Next]_vars => QueueInv'
<1> SUFFICES ASSUME QueueInv, [Next]_vars PROVE QueueInv'
  OBVIOUS
<1>1. CacheInv'
  BY NextCache DEF QueueInv
<1>2. ASSUME NEW r \in Requests, NEW c \in Calls, GetOrFetch(r, c) PROVE QueueInv'
  BY <1>2, SendQueue, HitQueue, AttachQueue DEF GetOrFetch
<1>3. ASSUME NEW r \in Requests, Serve(r) \/ Settle(r) PROVE QueueInv'
  BY <1>3, ServeQueue, SettleQueue
<1>4. CASE Resume
  BY <1>4, ResumeQueue
<1>5. ASSUME UNCHANGED <<cache, inflight, pc, call, source, promise, reactions, microtasks>>
      PROVE  QueueInv'
  BY <1>1, <1>5 DEF QueueInv, BehindFetcher, Apart, GetsFollowGets, NoneForgotten,
                    Fetchers, Gets, Key, Held
<1>6. ASSUME NEW k \in Volatile, Change(k) PROVE QueueInv'
  BY <1>5, <1>6 DEF Change
<1>7. CASE Tick
  BY <1>5, <1>7 DEF Tick
<1>8. CASE UNCHANGED vars
  BY <1>5, <1>8 DEF vars
<1> QED
  BY <1>2, <1>3, <1>4, <1>6, <1>7, <1>8 DEF Next

-----------------------------------------------------------------------------
(* Versions: answered, cached, and on their way.                           *)

\* The version that q will be answered with, once it is there.
Brought(q) == promise[source[q]].version

\* The GETs that will return a version, and the fetches that will bring one.
Due == {q \in Gets : In(q, microtasks) /\ promise[source[q]].status # "rejected"}
Served == {s \in Gets : promise[s].state = "served"}
Coming == Due \cup Served

\* No version is newer than the present one.
Newest ==
  /\ \A s \in AnsweredGets : answer[s].version <= version[Key(s)]
  /\ \A q \in Coming : Brought(q) <= version[Key(q)]
  /\ \A k \in Held(cache) : cache.entries[k].version <= version[k]

\* What has been answered is not newer than what is coming ...
AnsweredFirst ==
  \A s \in AnsweredGets, q \in Coming : Key(s) = Key(q) => answer[s].version <= Brought(q)

\* ... nor is what has come newer than what is being fetched ...
DueFirst ==
  \A q \in Due, s \in Served : Key(q) = Key(s) => Brought(q) <= Brought(s)

\* ... nor what comes first newer than what comes later.
InOrder ==
  \A a, b \in Due : Before(a, b, microtasks) /\ Key(a) = Key(b) => Brought(a) <= Brought(b)

\* While an entry is cached, nothing newer has been answered, and what is still
\* due is the same version.
CachedNow ==
  \A k \in Held(cache) :
    /\ \A s \in AnsweredGets : Key(s) = k => answer[s].version <= cache.entries[k].version
    /\ \A q \in Due : Key(q) = k => Brought(q) = cache.entries[k].version

OrderInv == Newest /\ AnsweredFirst /\ DueFirst /\ InOrder /\ CachedNow

LEMMA OrderTypes ==
  ASSUME CacheInv
  PROVE  /\ \A q \in Gets : /\ q \in Requests /\ q \in DOMAIN call /\ Key(q) \in Keys
                            /\ Brought(q) \in Nat /\ version[Key(q)] \in Nat
                            /\ source[q] \in Requests
         /\ \A s \in AnsweredGets : s \in Gets /\ answer[s].version \in Nat
         /\ \A k \in Held(cache) : /\ k \in Keys /\ cache.entries[k].version \in Nat
                                   /\ version[k] \in Nat
         /\ Due \subseteq Gets /\ Served \subseteq Gets
<1>1. Types /\ Shapes /\ Entries
  BY DEF CacheInv, FlightInv
<1>2. ASSUME NEW q \in Gets
      PROVE  /\ q \in Requests /\ q \in DOMAIN call /\ Key(q) \in Keys
             /\ Brought(q) \in Nat /\ version[Key(q)] \in Nat /\ source[q] \in Requests
  <2>1. q \in Requests /\ q \in DOMAIN call /\ call[q].key \in Keys
    BY <1>1 DEF Gets, Types
  <2>2. source[q] \in Requests /\ promise[source[q]] \in FetchRecord
    BY <2>1, <1>1 DEF Types
  <2> QED
    BY <2>1, <2>2, <1>1 DEF Key, Brought, FetchRecord, Types
<1>3. \A s \in AnsweredGets : s \in Gets /\ answer[s].version \in Nat
  BY <1>1, <1>2 DEF AnsweredGets, Shapes, AnswerRecord
<1>4. \A k \in Held(cache) : /\ k \in Keys /\ cache.entries[k].version \in Nat
                             /\ version[k] \in Nat
  BY <1>1 DEF Entries, Sound, EntryRecord, Types
<1> QED
  BY <1>2, <1>3, <1>4 DEF Due, Served

LEMMA InitOrder == Init => OrderInv
<1> SUFFICES ASSUME Init PROVE OrderInv
  OBVIOUS
<1>1. Gets = {} /\ Held(cache) = {}
  BY EmptyIsCache DEF Init, Gets
<1> QED
  BY <1>1 DEF OrderInv, Newest, AnsweredFirst, DueFirst, InOrder, CachedNow, AnsweredGets,
              Coming, Due, Served

\* A step that answers nobody and moves no continuation.
LEMMA QuietOrder ==
  ASSUME CacheInv, CacheInv', OrderInv,
         microtasks' = microtasks, answer' = answer, AnsweredGets' = AnsweredGets,
         Due' \subseteq Due, Served' \subseteq Served,
         \A q \in Due : Brought(q)' = Brought(q),
         \A q \in Served : Brought(q)' = Brought(q),
         \A q \in Gets : Key(q)' = Key(q),
         Keeps(cache, cache'),
         \A k \in Keys : version'[k] \in Nat /\ version[k] <= version'[k]
  PROVE  OrderInv'
<1>1. /\ \A q \in Gets : /\ Key(q) \in Keys /\ Brought(q) \in Nat /\ version[Key(q)] \in Nat
      /\ \A s \in AnsweredGets : s \in Gets /\ answer[s].version \in Nat
      /\ \A k \in Held(cache) : /\ k \in Keys /\ cache.entries[k].version \in Nat
                                /\ version[k] \in Nat
      /\ Due \subseteq Gets /\ Served \subseteq Gets
  BY OrderTypes
<1>2. /\ Held(cache') \subseteq Held(cache)
      /\ \A k \in Held(cache') : cache'.entries[k] = cache.entries[k]
  BY DEF Keeps
<1>3. Newest'
  <2>1. ASSUME NEW s \in AnsweredGets
        PROVE  answer[s].version <= version'[Key(s)]
    <3>1. answer[s].version <= version[Key(s)]
      BY DEF OrderInv, Newest
    <3>2. /\ answer[s].version \in Nat /\ version[Key(s)] \in Nat
          /\ version'[Key(s)] \in Nat /\ version[Key(s)] <= version'[Key(s)]
      BY <1>1
    <3> QED
      BY <3>1, <3>2
  <2>2. ASSUME NEW q \in Coming
        PROVE  Brought(q) <= version'[Key(q)]
    <3>1. Brought(q) <= version[Key(q)] /\ q \in Gets
      BY <1>1 DEF OrderInv, Newest, Coming
    <3>2. /\ Brought(q) \in Nat /\ version[Key(q)] \in Nat
          /\ version'[Key(q)] \in Nat /\ version[Key(q)] <= version'[Key(q)]
      BY <3>1, <1>1
    <3> QED
      BY <3>1, <3>2
  <2>3. ASSUME NEW k \in Held(cache)
        PROVE  cache.entries[k].version <= version'[k]
    <3>1. cache.entries[k].version <= version[k]
      BY DEF OrderInv, Newest
    <3>2. /\ cache.entries[k].version \in Nat /\ version[k] \in Nat
          /\ version'[k] \in Nat /\ version[k] <= version'[k]
      BY <1>1
    <3> QED
      BY <3>1, <3>2
  <2>4. \A s \in AnsweredGets : Key(s)' = Key(s)
    BY <1>1
  <2>5. \A q \in Coming' : q \in Coming /\ Brought(q)' = Brought(q) /\ Key(q)' = Key(q)
    BY <1>1 DEF Coming
  <2>6. \A s \in AnsweredGets' : answer'[s].version <= version'[Key(s)']
    BY <2>1, <2>4
  <2>7. \A q \in Coming' : Brought(q)' <= version'[Key(q)']
    BY <2>2, <2>5
  <2>8. \A k \in Held(cache)' : cache'.entries[k].version <= version'[k]
    BY <2>3, <1>2 DEF Held
  <2> QED
    BY <2>6, <2>7, <2>8 DEF Newest
<1>4. AnsweredFirst'
  BY <1>1 DEF OrderInv, AnsweredFirst, Coming
<1>5. DueFirst'
  BY <1>1 DEF OrderInv, DueFirst
<1>6. InOrder'
  BY <1>1 DEF OrderInv, InOrder
<1>7. CachedNow'
  <2>1. ASSUME NEW k \in Held(cache)'
        PROVE  /\ \A s \in AnsweredGets' :
                    Key(s)' = k => answer'[s].version <= cache'.entries[k].version
               /\ \A q \in Due' : Key(q)' = k => Brought(q)' = cache'.entries[k].version
    <3>1. k \in Held(cache) /\ cache'.entries[k] = cache.entries[k]
      BY <1>2 DEF Held
    <3> QED
      BY <3>1, <1>1 DEF OrderInv, CachedNow
  <2> QED
    BY <2>1 DEF CachedNow
<1> QED
  BY <1>3, <1>4, <1>5, <1>6, <1>7 DEF OrderInv

LEMMA SendOrder ==
  ASSUME QueueInv, OrderInv, NEW r \in Requests, NEW c \in Calls,
         Bypass(r, c) \/ Fetch(r, c)
  PROVE  OrderInv'
<1>1. /\ CacheInv /\ CacheInv' /\ FlightInv /\ Types /\ Waits /\ IsCache(cache)
      /\ Enter(r, c) /\ StartFetch(r)
      /\ pc' = [pc EXCEPT ![r] = "waiting"]
      /\ microtasks' = microtasks /\ answer' = answer
  BY BypassCache, FetchCache DEF QueueInv, CacheInv, FlightInv, Shapes, Bypass, Fetch
<1>2. /\ r \notin DOMAIN call /\ promise[r].state = "none"
      /\ DOMAIN call' = DOMAIN call \cup {r} /\ call'[r] = c
      /\ \A q \in DOMAIN call : q # r /\ call'[q] = call[q]
      /\ version' = version /\ ~In(r, microtasks)
  BY <1>1, EnterEffect
<1>3. /\ promise'[r].state = "sent"
      /\ \A q \in Requests \ {r} : promise'[q] = promise[q]
      /\ source' = source
  BY <1>1, StartEffect
<1>4. pc'[r] = "waiting" /\ \A q \in Requests \ {r} : pc'[q] = pc[q]
  BY <1>1 DEF Types
<1>5. Gets \subseteq Gets' /\ Gets' \subseteq Gets \cup {r} /\ \A q \in Gets : Key(q)' = Key(q)
  BY <1>2 DEF Gets, Key
<1>6. DOMAIN call \subseteq Requests /\ Gets \subseteq Requests
  BY <1>1 DEF Types, Gets
<1>7. AnsweredGets' = AnsweredGets
  <2>1. \A q \in DOMAIN call : pc'[q] = pc[q]
    BY <1>2, <1>4, <1>6
  <2> QED
    BY <2>1, <1>1, <1>2, <1>4 DEF AnsweredGets, Gets
<1>8. ASSUME NEW q \in Gets', In(q, microtasks)
      PROVE  /\ q \in Gets /\ source[q] \in Requests \ {r}
             /\ promise'[source[q]] = promise[source[q]]
  <2>1. q # r
    BY <1>2, <1>8
  <2>2. q \in Gets
    BY <2>1, <1>5, <1>8
  <2>3. source[q] \in Requests /\ promise[source[q]].state = "settled"
    BY <2>2, <1>1, <1>6, <1>8 DEF Types, Waits, MicrotasksDue
  <2> QED
    BY <2>2, <2>3, <1>2, <1>3
<1>9. Due' \subseteq Due /\ \A q \in Due : Brought(q)' = Brought(q)
  BY <1>1, <1>3, <1>5, <1>8 DEF Due, Brought
<1>10. Served' \subseteq Served /\ \A q \in Served : Brought(q)' = Brought(q)
  <2>1. ASSUME NEW q \in Served'
        PROVE  q \in Served
    <3>1. q \in Gets' /\ promise'[q].state = "served"
      BY DEF Served
    <3>2. q # r
      BY <3>1, <1>3
    <3> QED
      BY <3>1, <3>2, <1>3, <1>5, <1>6 DEF Served
  <2>2. ASSUME NEW q \in Served
        PROVE  Brought(q)' = Brought(q)
    <3>1. q \in Requests /\ source[q] = q /\ q # r
      BY <1>1, <1>2, <1>6 DEF Served, Waits, ActiveWait
    <3> QED
      BY <3>1, <1>3 DEF Brought
  <2> QED
    BY <2>1, <2>2
<1>11. Keeps(cache, cache')
  <2>1. cache' = cache \/ cache' = AfterGet(cache, c.key, now)
    BY DEF Bypass, Fetch
  <2> QED
    BY <2>1, <1>1, GetKeeps DEF Keeps
<1>12. \A k \in Keys : version'[k] \in Nat /\ version[k] <= version'[k]
  BY <1>1, <1>2 DEF Types
<1> QED
  BY <1>1, <1>5, <1>7, <1>9, <1>10, <1>11, <1>12, QuietOrder

LEMMA AttachOrder ==
  ASSUME QueueInv, OrderInv, NEW r \in Requests, NEW c \in Calls, Attach(r, c)
  PROVE  OrderInv'
<1> PICK s : s = inflight[c.key]
  OBVIOUS
<1>1. /\ CacheInv /\ CacheInv' /\ FlightInv /\ Types /\ Waits /\ InflightExact
      /\ IsCache(cache)
      /\ Enter(r, c) /\ pc' = [pc EXCEPT ![r] = "waiting"]
      /\ c.key \in DOMAIN inflight
      /\ cache' = AfterGet(cache, c.key, now)
      /\ UNCHANGED <<inflight, promise, answer>>
  BY AttachCache DEF QueueInv, CacheInv, FlightInv, Shapes, Attach
<1>2. /\ r \notin DOMAIN call /\ promise[r].state = "none"
      /\ DOMAIN call' = DOMAIN call \cup {r} /\ call'[r] = c
      /\ \A q \in DOMAIN call : q # r /\ call'[q] = call[q]
      /\ version' = version /\ ~In(r, microtasks)
  BY <1>1, EnterEffect
<1>3. /\ s \in Fetchers /\ s # r /\ call[s].key = c.key
      /\ source'[r] = s /\ \A q \in Requests \ {r} : source'[q] = source[q]
      /\ microtasks' = IF promise[s].state = "settled"
                       THEN Append(microtasks, r) ELSE microtasks
  BY <1>1, AttachEffect
<1>4. pc'[r] = "waiting" /\ \A q \in Requests \ {r} : pc'[q] = pc[q]
  BY <1>1 DEF Types
<1>5. Gets \subseteq Gets' /\ Gets' \subseteq Gets \cup {r} /\ \A q \in Gets : Key(q)' = Key(q)
  BY <1>2 DEF Gets, Key
<1>6. DOMAIN call \subseteq Requests /\ Gets \subseteq Requests \ {r}
  BY <1>1, <1>2 DEF Types, Gets
<1>7. AnsweredGets' = AnsweredGets
  <2>1. \A q \in DOMAIN call : pc'[q] = pc[q]
    BY <1>2, <1>4, <1>6
  <2> QED
    BY <2>1, <1>1, <1>2, <1>4 DEF AnsweredGets, Gets
<1>8. \A q \in Gets : Brought(q)' = Brought(q)
  BY <1>1, <1>3, <1>6 DEF Brought
<1>9. Served' \subseteq Served
  BY <1>1, <1>2, <1>5 DEF Served
<1>10. Keeps(cache, cache')
  BY <1>1, GetKeeps
<1>11. \A k \in Keys : version'[k] \in Nat /\ version[k] <= version'[k]
  BY <1>1, <1>2 DEF Types
<1>12. Due \subseteq Gets /\ Served \subseteq Gets
  BY DEF Due, Served
<1>13. CASE promise[s].state # "settled"
  <2>1. microtasks' = microtasks
    BY <1>3, <1>13
  <2>2. Due' \subseteq Due
    <3> SUFFICES ASSUME NEW q \in Due' PROVE q \in Due
      OBVIOUS
    <3>1. q \in Gets' /\ In(q, microtasks) /\ promise[source'[q]].status # "rejected"
      BY <1>1, <2>1 DEF Due
    <3>2. q # r
      BY <3>1, <1>2
    <3> QED
      BY <3>1, <3>2, <1>3, <1>5, <1>6 DEF Due
  <2> QED
    BY <2>1, <2>2, <1>1, <1>5, <1>7, <1>8, <1>9, <1>10, <1>11, <1>12, QuietOrder
\* The fetch has ended, and its fetcher is queued: r comes after it with the same.
<1>14. CASE promise[s].state = "settled"
  <2>1. microtasks' = Append(microtasks, r) /\ microtasks \in Seq(Requests)
    BY <1>1, <1>3, <1>14 DEF Types
  <2>2. s \in Gets /\ s \in Requests /\ source[s] = s /\ In(s, microtasks) /\ Key(s) = c.key
    BY <1>1, <1>3, <1>14 DEF Fetchers, Gets, Types, QueueInv, NoneForgotten, Key
  <2>3. Key(r)' = c.key /\ Brought(r)' = Brought(s)
    BY <2>2, <1>1, <1>2, <1>3 DEF Key, Brought
  <2>4. \A x : In(x, microtasks') <=> In(x, microtasks) \/ x = r
    BY <2>1, InAppend
  <2>5. Due' \subseteq Due \cup {r} /\ (r \in Due' => s \in Due)
    <3>1. ASSUME NEW q \in Due', q # r PROVE q \in Due
      <4>1. q \in Gets' /\ In(q, microtasks') /\ promise[source'[q]].status # "rejected"
        BY <1>1 DEF Due
      <4> QED
        BY <4>1, <3>1, <2>4, <1>3, <1>5, <1>6 DEF Due
    <3>2. ASSUME r \in Due' PROVE s \in Due
      <4>1. promise[s].status # "rejected"
        BY <3>2, <1>1, <1>3 DEF Due
      <4> QED
        BY <4>1, <2>2 DEF Due
    <3> QED
      BY <3>1, <3>2
  <2>6. /\ \A q \in Gets : Key(q) \in Keys /\ Brought(q) \in Nat /\ version[Key(q)] \in Nat
        /\ \A q \in AnsweredGets : q \in Gets /\ answer[q].version \in Nat
    BY <1>1, OrderTypes
  <2>7. Newest'
    <3>1. \A q \in AnsweredGets' : answer'[q].version <= version'[Key(q)']
      BY <2>6, <1>1, <1>2, <1>5, <1>7 DEF OrderInv, Newest
    <3>2. ASSUME NEW q \in Coming' PROVE Brought(q)' <= version'[Key(q)']
      <4>1. CASE q = r
        <5>1. s \in Due
          BY <4>1, <3>2, <2>5, <1>6, <1>9, <1>12 DEF Coming
        <5>2. Brought(s) <= version[Key(s)]
          BY <5>1 DEF OrderInv, Newest, Coming
        <5> QED
          BY <4>1, <5>2, <2>2, <2>3, <1>2
      <4>2. CASE q # r
        <5>1. q \in Coming /\ q \in Gets
          BY <4>2, <3>2, <2>5, <1>9, <1>12 DEF Coming
        <5>2. Brought(q) <= version[Key(q)]
          BY <5>1 DEF OrderInv, Newest
        <5> QED
          BY <5>1, <5>2, <1>2, <1>5, <1>8
      <4> QED
        BY <4>1, <4>2
    <3>3. ASSUME NEW k \in Held(cache)' PROVE cache'.entries[k].version <= version'[k]
      BY <1>2, <1>10, <3>3 DEF Keeps, OrderInv, Newest, Held
    <3> QED
      BY <3>1, <3>2, <3>3 DEF Newest
  <2>8. AnsweredFirst'
    <3>1. ASSUME NEW a \in AnsweredGets, NEW q \in Coming', Key(a)' = Key(q)'
          PROVE  answer[a].version <= Brought(q)'
      <4>1. a \in Gets /\ Key(a)' = Key(a)
        BY <2>6, <1>5
      <4>2. CASE q = r
        <5>1. s \in Due
          BY <4>2, <3>1, <2>5, <1>6, <1>9, <1>12 DEF Coming
        <5>2. Key(a) = Key(s)
          BY <4>1, <4>2, <3>1, <2>2, <2>3
        <5> QED
          BY <4>2, <5>1, <5>2, <2>3 DEF OrderInv, AnsweredFirst, Coming
      <4>3. CASE q # r
        <5>1. q \in Coming /\ q \in Gets
          BY <4>3, <3>1, <2>5, <1>9, <1>12 DEF Coming
        <5>2. Key(a) = Key(q) /\ Brought(q)' = Brought(q)
          BY <4>1, <5>1, <3>1, <1>5, <1>8
        <5> QED
          BY <5>1, <5>2 DEF OrderInv, AnsweredFirst
      <4> QED
        BY <4>2, <4>3
    <3> QED
      BY <3>1, <1>1, <1>7 DEF AnsweredFirst
  <2>9. DueFirst'
    <3>1. ASSUME NEW q \in Due', NEW a \in Served', Key(q)' = Key(a)'
          PROVE  Brought(q)' <= Brought(a)'
      <4>1. a \in Served /\ a \in Gets /\ Brought(a)' = Brought(a) /\ Key(a)' = Key(a)
        BY <1>5, <1>8, <1>9, <1>12
      <4>2. CASE q = r
        <5>1. s \in Due /\ Key(a) = Key(s)
          BY <4>1, <4>2, <3>1, <2>2, <2>3, <2>5
        <5> QED
          BY <4>1, <4>2, <5>1, <2>3 DEF OrderInv, DueFirst
      <4>3. CASE q # r
        <5>1. q \in Due /\ q \in Gets
          BY <4>3, <2>5, <1>12
        <5>2. Key(q) = Key(a) /\ Brought(q)' = Brought(q)
          BY <4>1, <5>1, <3>1, <1>5, <1>8
        <5> QED
          BY <4>1, <5>1, <5>2 DEF OrderInv, DueFirst
      <4> QED
        BY <4>2, <4>3
    <3> QED
      BY <3>1 DEF DueFirst
  <2>10. InOrder'
    <3>1. ASSUME NEW a \in Due', NEW b \in Due', Before(a, b, microtasks'), Key(a)' = Key(b)'
          PROVE  Brought(a)' <= Brought(b)'
      <4>1. Before(a, b, microtasks) \/ (In(a, microtasks) /\ b = r)
        BY <3>1, <2>1, BeforeAppend
      <4>2. In(a, microtasks) /\ a # r
        BY <4>1, <1>2, BeforeIsIn
      <4>3. a \in Due /\ a \in Gets /\ Brought(a)' = Brought(a) /\ Key(a)' = Key(a)
        BY <4>2, <2>5, <1>5, <1>8, <1>12
      <4>4. CASE b = r
        <5>1. s \in Due /\ Key(a) = Key(s) /\ Brought(b)' = Brought(s)
          BY <4>3, <4>4, <3>1, <2>2, <2>3, <2>5
        <5>2. CASE a = s
          BY <5>1, <5>2, <4>3, <2>6
        <5>3. CASE a # s
          <6>1. PICK i \in DOMAIN microtasks, j \in DOMAIN microtasks :
                  microtasks[i] = a /\ microtasks[j] = s
            BY <4>2, <2>2 DEF In
          <6>2. i \in Nat /\ j \in Nat /\ i # j
            BY <6>1, <5>3, <2>1
          <6>3. Before(a, s, microtasks) \/ Before(s, a, microtasks)
            BY <6>1, <6>2 DEF Before
          <6>4. CASE Before(a, s, microtasks)
            BY <6>4, <5>1, <4>3 DEF OrderInv, InOrder
          <6>5. CASE Before(s, a, microtasks)
            <7>1. source[a] = s
              BY <6>5, <5>1, <4>3, <1>3 DEF QueueInv, BehindFetcher
            <7>2. Brought(a) = Brought(s)
              BY <7>1, <2>2 DEF Brought
            <7> QED
              BY <7>2, <5>1, <4>3, <2>6
          <6> QED
            BY <6>3, <6>4, <6>5
        <5> QED
          BY <5>2, <5>3
      <4>5. CASE b # r
        <5>1. b \in Due /\ b \in Gets /\ Before(a, b, microtasks)
          BY <4>1, <4>5, <2>5, <1>12
        <5>2. Key(a) = Key(b) /\ Brought(b)' = Brought(b)
          BY <5>1, <4>3, <3>1, <1>5, <1>8
        <5> QED
          BY <4>3, <5>1, <5>2 DEF OrderInv, InOrder
      <4> QED
        BY <4>4, <4>5
    <3> QED
      BY <3>1 DEF InOrder
  <2>11. CachedNow'
    <3>1. ASSUME NEW k \in Held(cache)'
          PROVE  /\ \A a \in AnsweredGets' :
                      Key(a)' = k => answer'[a].version <= cache'.entries[k].version
                 /\ \A q \in Due' : Key(q)' = k => Brought(q)' = cache'.entries[k].version
      <4>1. k \in Held(cache) /\ cache'.entries[k] = cache.entries[k]
        BY <1>10 DEF Keeps, Held
      <4>2. k # c.key
        BY <4>1, <1>1 DEF QueueInv, Apart
      <4>3. \A a \in AnsweredGets : Key(a)' = Key(a)
        BY <2>6, <1>5
      <4>4. ASSUME NEW q \in Due', Key(q)' = k
            PROVE  Brought(q)' = cache.entries[k].version
        <5>1. q # r
          BY <4>2, <4>4, <2>3
        <5>2. q \in Due /\ Key(q)' = Key(q) /\ Brought(q)' = Brought(q)
          BY <5>1, <2>5, <1>5, <1>8, <1>12
        <5> QED
          BY <5>2, <4>1, <4>4 DEF OrderInv, CachedNow
      <4> QED
        BY <4>1, <4>3, <4>4, <1>1, <1>7 DEF OrderInv, CachedNow
    <3> QED
      BY <3>1 DEF CachedNow
  <2> QED
    BY <2>7, <2>8, <2>9, <2>10, <2>11 DEF OrderInv
<1> QED
  BY <1>13, <1>14

LEMMA HitOrder ==
  ASSUME QueueInv, OrderInv, NEW r \in Requests, NEW c \in Calls, Hit(r, c)
  PROVE  /\ OrderInv'
         /\ \A a \in AnsweredGets' \ AnsweredGets, s \in AnsweredGets :
              call'[a].key = call[s].key => answer'[a].version >= answer[s].version
<1> PICK e : e = cache.entries[c.key]
  OBVIOUS
<1>1. /\ CacheInv /\ CacheInv' /\ FlightInv /\ Types /\ Waits /\ InflightExact /\ Shapes
      /\ IsCache(cache)
      /\ Hits(cache, c.key, now) /\ Enter(r, c) /\ pc' = [pc EXCEPT ![r] = "done"]
      /\ cache' = AfterGet(cache, c.key, now)
      /\ UNCHANGED <<inflight, source, promise, reactions, microtasks>>
  BY HitCache DEF QueueInv, CacheInv, FlightInv, Shapes, Hit
<1>2. /\ r \notin DOMAIN call /\ promise[r].state = "none"
      /\ DOMAIN call' = DOMAIN call \cup {r} /\ call'[r] = c
      /\ \A q \in DOMAIN call : q # r /\ call'[q] = call[q]
      /\ version' = version /\ ~In(r, microtasks)
  BY <1>1, EnterEffect
<1>3. pc'[r] = "done" /\ \A q \in Requests \ {r} : pc'[q] = pc[q]
  BY <1>1 DEF Types
<1>4. answer'[r].version = e.version /\ \A q \in Requests \ {r} : answer'[q] = answer[q]
  <2> DEFINE f == [from |-> "cache", status |-> "good", version |-> e.version,
                   since |-> Horizon(e), age |-> now - e.storedAt]
  <2>1. f.version = e.version
    OBVIOUS
  <2>2. answer' = [answer EXCEPT ![r] = f]
    BY DEF Hit
  <2> HIDE DEF f
  <2> QED
    BY <2>1, <2>2, <1>1 DEF Shapes
<1>5. Gets \subseteq Gets' /\ Gets' \subseteq Gets \cup {r} /\ \A q \in Gets : Key(q)' = Key(q)
  BY <1>2 DEF Gets, Key
<1>6. DOMAIN call \subseteq Requests /\ Gets \subseteq Requests \ {r}
  BY <1>1, <1>2 DEF Types, Gets
<1>7. AnsweredGets' \subseteq AnsweredGets \cup {r} /\ AnsweredGets \subseteq Gets
  <2>1. \A q \in DOMAIN call : pc'[q] = pc[q] /\ answer'[q] = answer[q]
    BY <1>2, <1>3, <1>4, <1>6
  <2> QED
    BY <2>1, <1>2 DEF AnsweredGets, Gets
<1>8. \A a \in AnsweredGets : answer'[a] = answer[a] /\ Key(a)' = Key(a)
  BY <1>4, <1>5, <1>6, <1>7
<1>9. Key(r)' = c.key
  BY <1>2 DEF Key
<1>10. /\ Due' \subseteq Due /\ Served' \subseteq Served
       /\ Due \subseteq Gets /\ Served \subseteq Gets
       /\ \A q \in Gets : Brought(q)' = Brought(q)
  BY <1>1, <1>2, <1>5 DEF Due, Served, Brought
<1>11. Keeps(cache, cache')
  BY <1>1, GetKeeps
<1>12. c.key \in Held(cache)
  BY <1>1 DEF Hits
<1>13. /\ \A q \in Gets : Key(q) \in Keys /\ Brought(q) \in Nat /\ version[Key(q)] \in Nat
       /\ \A q \in AnsweredGets : q \in Gets /\ answer[q].version \in Nat
       /\ e.version \in Nat
  BY <1>1, <1>12, OrderTypes
\* Nothing newer has been answered or is coming.
<1>14. \A a \in AnsweredGets : Key(a) = c.key => answer[a].version <= e.version
  BY <1>12 DEF OrderInv, CachedNow
<1>15. \A q \in Due : Key(q) = c.key => Brought(q) = e.version
  BY <1>12 DEF OrderInv, CachedNow
<1>16. \A q \in Served : Key(q) # c.key
  <2> SUFFICES ASSUME NEW q \in Served, Key(q) = c.key PROVE FALSE
    OBVIOUS
  <2>1. q \in Gets /\ q \in Requests /\ pc[q] = "waiting" /\ source[q] = q
    BY <1>1, <1>6 DEF Served, Waits, ActiveWait
  <2>2. c.key \in DOMAIN inflight
    BY <2>1, <1>1 DEF Fetchers, InflightExact, Key
  <2> QED
    BY <2>2, <1>12 DEF QueueInv, Apart
<1>17. Newest'
  <2>1. ASSUME NEW a \in AnsweredGets' PROVE answer'[a].version <= version'[Key(a)']
    <3>1. CASE a = r
      BY <3>1, <1>2, <1>4, <1>9, <1>12 DEF OrderInv, Newest
    <3>2. CASE a # r
      <4>1. a \in AnsweredGets
        BY <3>2, <1>7
      <4>2. answer[a].version <= version[Key(a)]
        BY <4>1 DEF OrderInv, Newest
      <4> QED
        BY <4>1, <4>2, <1>2, <1>8
    <3> QED
      BY <3>1, <3>2
  <2>2. ASSUME NEW q \in Coming' PROVE Brought(q)' <= version'[Key(q)']
    <3>1. q \in Coming /\ q \in Gets
      BY <1>10, <2>2 DEF Coming
    <3>2. Brought(q) <= version[Key(q)]
      BY <3>1 DEF OrderInv, Newest
    <3> QED
      BY <3>1, <3>2, <1>2, <1>5, <1>10
  <2>3. ASSUME NEW k \in Held(cache)' PROVE cache'.entries[k].version <= version'[k]
    BY <1>2, <1>11, <2>3 DEF Keeps, OrderInv, Newest, Held
  <2> QED
    BY <2>1, <2>2, <2>3 DEF Newest
<1>18. AnsweredFirst'
  <2>1. ASSUME NEW a \in AnsweredGets', NEW q \in Coming', Key(a)' = Key(q)'
        PROVE  answer'[a].version <= Brought(q)'
    <3>1. /\ q \in Gets /\ (q \in Due \/ q \in Served) /\ Brought(q)' = Brought(q)
          /\ Key(q)' = Key(q)
      BY <1>5, <1>10, <2>1 DEF Coming
    <3>2. CASE a = r
      <4>1. Key(q) = c.key
        BY <3>1, <3>2, <2>1, <1>9
      <4>2. q \in Due
        BY <4>1, <3>1, <1>16
      <4> QED
        BY <4>1, <4>2, <3>1, <3>2, <1>4, <1>13, <1>15
    <3>3. CASE a # r
      <4>1. a \in AnsweredGets
        BY <3>3, <1>7
      <4>2. Key(a) = Key(q) /\ answer'[a] = answer[a]
        BY <4>1, <3>1, <2>1, <1>8
      <4> QED
        BY <4>1, <4>2, <3>1 DEF OrderInv, AnsweredFirst, Coming
    <3> QED
      BY <3>2, <3>3
  <2> QED
    BY <2>1 DEF AnsweredFirst
<1>19. DueFirst'
  BY <1>5, <1>10 DEF OrderInv, DueFirst
<1>20. InOrder'
  BY <1>1, <1>5, <1>10 DEF OrderInv, InOrder
<1>21. CachedNow'
  <2>1. ASSUME NEW k \in Held(cache)'
        PROVE  /\ \A a \in AnsweredGets' :
                    Key(a)' = k => answer'[a].version <= cache'.entries[k].version
               /\ \A q \in Due' : Key(q)' = k => Brought(q)' = cache'.entries[k].version
    <3>1. k \in Held(cache) /\ cache'.entries[k] = cache.entries[k]
      BY <1>11 DEF Keeps, Held
    <3>2. ASSUME NEW a \in AnsweredGets', Key(a)' = k
          PROVE  answer'[a].version <= cache.entries[k].version
      <4>1. CASE a = r
        BY <4>1, <3>2, <1>4, <1>9, <1>13
      <4>2. CASE a # r
        <5>1. a \in AnsweredGets
          BY <4>2, <1>7
        <5> QED
          BY <5>1, <3>1, <3>2, <1>8 DEF OrderInv, CachedNow
      <4> QED
        BY <4>1, <4>2
    <3>3. \A q \in Due' : Key(q)' = k => Brought(q)' = cache.entries[k].version
      BY <3>1, <1>5, <1>10 DEF OrderInv, CachedNow
    <3> QED
      BY <3>1, <3>2, <3>3
  <2> QED
    BY <2>1 DEF CachedNow
<1>22. ASSUME NEW a \in AnsweredGets' \ AnsweredGets, NEW s \in AnsweredGets,
              call'[a].key = call[s].key
       PROVE  answer'[a].version >= answer[s].version
  <2>1. a = r
    BY <1>7, <1>22
  <2>2. Key(s) = c.key
    BY <2>1, <1>2, <1>22 DEF Key
  <2> QED
    BY <2>1, <2>2, <1>4, <1>13, <1>14
<1> QED
  BY <1>17, <1>18, <1>19, <1>20, <1>21, <1>22 DEF OrderInv

\* The upstream answers with the present version.
LEMMA ServeOrder ==
  ASSUME QueueInv, OrderInv, NEW r \in Requests, Serve(r)
  PROVE  OrderInv'
<1>1. /\ CacheInv /\ CacheInv' /\ FlightInv /\ Types /\ Waits /\ promise[r].state = "sent"
      /\ UNCHANGED <<cache, inflight, pc, call, source, reactions, microtasks, answer>>
  BY ServeCache DEF QueueInv, CacheInv, FlightInv, Serve
<1>2. pc[r] = "waiting" /\ source[r] = r
  BY <1>1 DEF Waits, ActiveWait
<1> PICK k : k = call[r].key
  OBVIOUS
<1>3. k \in Keys /\ r \in DOMAIN call
  BY <1>1, <1>2 DEF Types
<1>4. PICK status \in {"good", "bad"} :
        /\ version' = [version EXCEPT ![k] =
                         IF ~call[r].get /\ status = "good" THEN @ + 1 ELSE @]
        /\ promise' = [promise EXCEPT ![r] =
             [@ EXCEPT !.state = "served", !.status = status, !.version = version'[k]]]
  BY DEF Serve
<1>5. /\ \A j \in Keys : version[j] \in Nat /\ version'[j] \in Nat /\ version[j] <= version'[j]
  BY <1>1, <1>3, <1>4 DEF Types
<1>6. /\ promise'[r].version = version'[k]
      /\ \A q \in Requests \ {r} : promise'[q] = promise[q]
  <2> DEFINE f == [promise[r] EXCEPT !.state = "served", !.status = status,
                                     !.version = version'[k]]
  <2>1. promise[r] \in FetchRecord
    BY <1>1 DEF Types
  <2>2. f.version = version'[k]
    BY <2>1 DEF FetchRecord
  <2>3. promise' = [promise EXCEPT ![r] = f]
    BY <1>4
  <2> HIDE DEF f
  <2> QED
    BY <2>2, <2>3, <1>1 DEF Types
<1>7. /\ \A q \in Gets : /\ q \in Requests /\ Key(q) \in Keys /\ Brought(q) \in Nat
                         /\ source[q] \in Requests
      /\ \A s \in AnsweredGets : s \in Gets /\ answer[s].version \in Nat
      /\ \A j \in Held(cache) : j \in Keys /\ cache.entries[j].version \in Nat
      /\ Due \subseteq Gets /\ Served \subseteq Gets
  BY <1>1, OrderTypes
<1>8. Gets' = Gets /\ AnsweredGets' = AnsweredGets /\ \A q \in Gets : Key(q)' = Key(q)
  BY <1>1 DEF Gets, AnsweredGets, Key
<1>9. ASSUME NEW q \in Gets, In(q, microtasks)
      PROVE  promise'[source[q]] = promise[source[q]]
  <2>1. promise[source[q]].state = "settled"
    BY <1>1, <1>7, <1>9 DEF Waits, MicrotasksDue
  <2> QED
    BY <2>1, <1>1, <1>6, <1>7
<1>10. Due' \subseteq Due /\ \A q \in Due : Brought(q)' = Brought(q)
  BY <1>1, <1>8, <1>9 DEF Due, Brought
<1>11. /\ Served' \subseteq Served \cup {r}
       /\ \A q \in Served : q # r /\ Brought(q)' = Brought(q)
  <2>1. Served' \subseteq Served \cup {r}
    BY <1>6, <1>7, <1>8 DEF Served
  <2>2. ASSUME NEW q \in Served
        PROVE  q # r /\ Brought(q)' = Brought(q)
    <3>1. q \in Requests /\ q # r /\ source[q] = q
      BY <1>1, <1>7 DEF Served, Waits, ActiveWait
    <3> QED
      BY <3>1, <1>1, <1>6 DEF Brought
  <2> QED
    BY <2>1, <2>2
<1>12. Brought(r)' = version'[k] /\ Key(r)' = k
  BY <1>1, <1>2, <1>6 DEF Brought, Key
<1>13. \A s \in AnsweredGets : answer[s].version <= version'[Key(s)]
  <2> SUFFICES ASSUME NEW s \in AnsweredGets PROVE answer[s].version <= version'[Key(s)]
    OBVIOUS
  <2>1. answer[s].version <= version[Key(s)]
    BY DEF OrderInv, Newest
  <2>2. Key(s) \in Keys /\ answer[s].version \in Nat
    BY <1>7
  <2> QED
    BY <2>1, <2>2, <1>5
<1>14. \A q \in Coming : Brought(q) <= version'[Key(q)]
  <2> SUFFICES ASSUME NEW q \in Coming PROVE Brought(q) <= version'[Key(q)]
    OBVIOUS
  <2>1. Brought(q) <= version[Key(q)]
    BY DEF OrderInv, Newest
  <2>2. Key(q) \in Keys /\ Brought(q) \in Nat
    BY <1>7 DEF Coming
  <2> QED
    BY <2>1, <2>2, <1>5
<1>15. Newest'
  <2>1. ASSUME NEW q \in Coming' PROVE Brought(q)' <= version'[Key(q)']
    <3>1. CASE q = r
      BY <3>1, <1>3, <1>5, <1>12
    <3>2. CASE q # r
      <4>1. q \in Coming /\ q \in Gets /\ Brought(q)' = Brought(q)
        BY <3>2, <2>1, <1>7, <1>10, <1>11 DEF Coming
      <4> QED
        BY <4>1, <1>8, <1>14
    <3> QED
      BY <3>1, <3>2
  <2>2. ASSUME NEW j \in Held(cache) PROVE cache.entries[j].version <= version'[j]
    <3>1. cache.entries[j].version <= version[j]
      BY DEF OrderInv, Newest
    <3>2. j \in Keys /\ cache.entries[j].version \in Nat
      BY <1>7
    <3> QED
      BY <3>1, <3>2, <1>5
  <2>3. \A s \in AnsweredGets' : answer'[s].version <= version'[Key(s)']
    BY <1>1, <1>7, <1>8, <1>13
  <2>4. \A j \in Held(cache)' : cache'.entries[j].version <= version'[j]
    BY <2>2, <1>1 DEF Held
  <2> QED
    BY <2>1, <2>3, <2>4 DEF Newest
<1>16. AnsweredFirst'
  <2>1. ASSUME NEW s \in AnsweredGets, NEW q \in Coming', Key(s)' = Key(q)'
        PROVE  answer[s].version <= Brought(q)'
    <3>1. Key(s)' = Key(s)
      BY <1>7, <1>8
    <3>2. CASE q = r
      <4>1. Key(s) = k
        BY <3>1, <3>2, <2>1, <1>12
      <4> QED
        BY <4>1, <3>2, <1>12, <1>13
    <3>3. CASE q # r
      <4>1. q \in Coming /\ q \in Gets /\ Brought(q)' = Brought(q)
        BY <3>3, <2>1, <1>7, <1>10, <1>11 DEF Coming
      <4>2. Key(s) = Key(q)
        BY <4>1, <3>1, <2>1, <1>8
      <4> QED
        BY <4>1, <4>2 DEF OrderInv, AnsweredFirst
    <3> QED
      BY <3>2, <3>3
  <2> QED
    BY <2>1, <1>1, <1>8 DEF AnsweredFirst
<1>17. DueFirst'
  <2>1. ASSUME NEW q \in Due', NEW s \in Served', Key(q)' = Key(s)'
        PROVE  Brought(q)' <= Brought(s)'
    <3>1. q \in Due /\ q \in Gets /\ Brought(q)' = Brought(q) /\ Key(q)' = Key(q)
      BY <1>7, <1>8, <1>10
    <3>2. CASE s = r
      <4>1. Key(q) = k
        BY <3>1, <3>2, <2>1, <1>12
      <4> QED
        BY <4>1, <3>1, <3>2, <1>12, <1>14 DEF Coming
    <3>3. CASE s # r
      <4>1. s \in Served /\ s \in Gets /\ Brought(s)' = Brought(s)
        BY <3>3, <1>7, <1>11
      <4>2. Key(q) = Key(s)
        BY <4>1, <3>1, <2>1, <1>8
      <4> QED
        BY <4>1, <4>2, <3>1 DEF OrderInv, DueFirst
    <3> QED
      BY <3>2, <3>3
  <2> QED
    BY <2>1 DEF DueFirst
<1>18. InOrder'
  BY <1>1, <1>7, <1>8, <1>10 DEF OrderInv, InOrder
<1>19. CachedNow'
  <2>1. ASSUME NEW j \in Held(cache)
        PROVE  /\ \A s \in AnsweredGets' :
                    Key(s)' = j => answer[s].version <= cache.entries[j].version
               /\ \A q \in Due' : Key(q)' = j => Brought(q)' = cache.entries[j].version
    BY <1>7, <1>8, <1>10 DEF OrderInv, CachedNow
  <2> QED
    BY <2>1, <1>1 DEF CachedNow, Held
<1> QED
  BY <1>15, <1>16, <1>17, <1>18, <1>19 DEF OrderInv

\* A fetch that ends: what it has brought is due now, to all who waited for it.
LEMMA SettleOrder ==
  ASSUME QueueInv, OrderInv, NEW r \in Requests, Settle(r)
  PROVE  OrderInv'
<1>1. /\ CacheInv /\ CacheInv' /\ FlightInv /\ Types /\ Waits /\ InflightExact
      /\ promise[r].state \in {"sent", "served"}
      /\ microtasks' = microtasks \o reactions[r]
      /\ UNCHANGED <<version, cache, inflight, pc, call, source, answer>>
  BY SettleCache DEF QueueInv, CacheInv, FlightInv, Settle, upstream
<1>2. microtasks \in Seq(Requests) /\ reactions[r] \in Seq(Requests)
  BY <1>1 DEF Types
<1>3. \A x : In(x, microtasks') <=> In(x, microtasks) \/ In(x, reactions[r])
  BY <1>1, <1>2, InConcat
<1>4. /\ promise'[r].state = "settled"
      /\ \/ promise'[r].status = "rejected"
         \/ promise[r].state = "served" /\ promise'[r].version = promise[r].version
      /\ \A q \in Requests \ {r} : promise'[q] = promise[q]
  <2>1. promise[r] \in FetchRecord
    BY <1>1 DEF Types
  <2>2. CASE /\ promise[r].state = "served"
             /\ promise' = [promise EXCEPT ![r] = [@ EXCEPT !.state = "settled"]]
    <3> DEFINE f == [promise[r] EXCEPT !.state = "settled"]
    <3>1. f.state = "settled" /\ f.version = promise[r].version
      BY <2>1 DEF FetchRecord
    <3>2. promise' = [promise EXCEPT ![r] = f]
      BY <2>2
    <3> HIDE DEF f
    <3> QED
      BY <3>1, <3>2, <2>2, <1>1 DEF Types
  <2>3. CASE promise' = [promise EXCEPT ![r] =
               [@ EXCEPT !.state = "settled", !.status = "rejected", !.version = 0]]
    <3> DEFINE f == [promise[r] EXCEPT !.state = "settled", !.status = "rejected",
                                       !.version = 0]
    <3>1. f.state = "settled" /\ f.status = "rejected"
      BY <2>1 DEF FetchRecord
    <3>2. promise' = [promise EXCEPT ![r] = f]
      BY <2>3
    <3> HIDE DEF f
    <3> QED
      BY <3>1, <3>2, <1>1 DEF Types
  <2> QED
    BY <2>2, <2>3 DEF Settle
<1>5. Gets' = Gets /\ AnsweredGets' = AnsweredGets /\ \A q \in Gets : Key(q)' = Key(q)
  BY <1>1 DEF Gets, AnsweredGets, Key
<1>6. /\ \A q \in Gets : /\ q \in Requests /\ Key(q) \in Keys /\ Brought(q) \in Nat
                         /\ source[q] \in Requests
      /\ \A s \in AnsweredGets : s \in Gets /\ answer[s].version \in Nat
      /\ Due \subseteq Gets /\ Served \subseteq Gets
  BY <1>1, OrderTypes
<1>7. ASSUME NEW q \in Gets, In(q, microtasks)
      PROVE  source[q] # r /\ promise'[source[q]] = promise[source[q]]
  <2>1. promise[source[q]].state = "settled"
    BY <1>1, <1>6, <1>7 DEF Waits, MicrotasksDue
  <2> QED
    BY <2>1, <1>1, <1>4, <1>6
<1>8. \A q \in Due : Brought(q)' = Brought(q)
  BY <1>1, <1>7 DEF Due, Brought
\* Whoever becomes due waited for the fetch, which is a GET that had been served.
<1>9. ASSUME NEW q \in Due', ~In(q, microtasks)
      PROVE  /\ q \in Gets /\ In(q, reactions[r]) /\ source[q] = r
             /\ r \in Served /\ r \in Fetchers /\ Key(r) = Key(q)
             /\ Brought(q)' = Brought(r)
  <2>1. q \in Gets /\ In(q, microtasks') /\ promise'[source[q]].status # "rejected"
    BY <1>1, <1>5, <1>9 DEF Due
  <2>2. In(q, reactions[r])
    BY <2>1, <1>3, <1>9
  <2>3. source[q] = r /\ r \in Fetchers /\ Key(r) = Key(q)
    BY <2>1, <2>2, <1>1, ReactsToGet
  <2>4. promise[r].state = "served" /\ promise'[r].version = promise[r].version
    BY <2>1, <2>3, <1>4
  <2>5. r \in Served /\ source[r] = r
    BY <2>3, <2>4 DEF Served, Fetchers
  <2> QED
    BY <2>1, <2>2, <2>3, <2>4, <2>5, <1>1 DEF Brought
<1>10. \A q \in Due' : In(q, microtasks) => q \in Due
  BY <1>1, <1>5, <1>7 DEF Due
<1>11. /\ Served' \subseteq Served
       /\ \A q \in Served' : Brought(q)' = Brought(q)
  <2> SUFFICES ASSUME NEW q \in Served' PROVE q \in Served /\ Brought(q)' = Brought(q)
    OBVIOUS
  <2>1. q \in Gets /\ promise'[q].state = "served" /\ q \in Requests
    BY <1>5, <1>6 DEF Served
  <2>2. q # r /\ promise'[q] = promise[q]
    BY <2>1, <1>4
  <2>3. q \in Served /\ source[q] = q
    BY <2>1, <2>2, <1>1 DEF Served, Waits, ActiveWait
  <2> QED
    BY <2>2, <2>3, <1>1 DEF Brought
\* Whatever is coming now was coming before, to q or to the fetcher.
<1>12. ASSUME NEW q \in Coming'
       PROVE  \E p \in Coming : p \in Gets /\ Key(p) = Key(q)' /\ Brought(p) = Brought(q)'
  <2>1. CASE q \in Served'
    BY <2>1, <1>5, <1>6, <1>11 DEF Coming
  <2>2. CASE q \in Due' /\ In(q, microtasks)
    BY <2>2, <1>5, <1>6, <1>8, <1>10 DEF Coming
  <2>3. CASE q \in Due' /\ ~In(q, microtasks)
    BY <2>3, <1>5, <1>6, <1>9 DEF Coming
  <2> QED
    BY <2>1, <2>2, <2>3, <1>12 DEF Coming
<1>13. Newest'
  <2>1. \A s \in AnsweredGets' : answer'[s].version <= version'[Key(s)']
    BY <1>1, <1>5, <1>6 DEF OrderInv, Newest
  <2>2. ASSUME NEW q \in Coming' PROVE Brought(q)' <= version'[Key(q)']
    <3>1. PICK p \in Coming : p \in Gets /\ Key(p) = Key(q)' /\ Brought(p) = Brought(q)'
      BY <1>12, <2>2
    <3>2. Brought(p) <= version[Key(p)]
      BY DEF OrderInv, Newest
    <3> QED
      BY <3>1, <3>2, <1>1
  <2>3. \A k \in Held(cache)' : cache'.entries[k].version <= version'[k]
    BY <1>1 DEF OrderInv, Newest, Held
  <2> QED
    BY <2>1, <2>2, <2>3 DEF Newest
<1>14. AnsweredFirst'
  <2>1. ASSUME NEW s \in AnsweredGets, NEW q \in Coming', Key(s)' = Key(q)'
        PROVE  answer[s].version <= Brought(q)'
    <3>1. PICK p \in Coming : p \in Gets /\ Key(p) = Key(q)' /\ Brought(p) = Brought(q)'
      BY <1>12, <2>1
    <3>2. Key(s) = Key(p)
      BY <3>1, <2>1, <1>5, <1>6
    <3> QED
      BY <3>1, <3>2 DEF OrderInv, AnsweredFirst
  <2> QED
    BY <2>1, <1>1, <1>5 DEF AnsweredFirst
<1>15. DueFirst'
  <2>1. ASSUME NEW q \in Due', NEW s \in Served', Key(q)' = Key(s)'
        PROVE  Brought(q)' <= Brought(s)'
    <3>1. s \in Served /\ s \in Gets /\ Brought(s)' = Brought(s) /\ Key(s)' = Key(s)
      BY <1>5, <1>6, <1>11
    <3>2. CASE In(q, microtasks)
      <4>1. q \in Due /\ q \in Gets /\ Brought(q)' = Brought(q) /\ Key(q)' = Key(q)
        BY <3>2, <1>5, <1>6, <1>8, <1>10
      <4> QED
        BY <4>1, <3>1, <2>1 DEF OrderInv, DueFirst
    <3>3. CASE ~In(q, microtasks)
      <4>1. q \in Gets /\ r \in Served /\ r \in Fetchers /\ Key(r) = Key(q)
        BY <3>3, <1>9
      <4>2. s \in Fetchers
        BY <3>1, <1>1, <1>6 DEF Served, Fetchers, Waits, ActiveWait
      <4>3. Key(r) = Key(s)
        BY <4>1, <3>1, <2>1, <1>5
      <4>4. r = s
        BY <4>1, <4>2, <4>3, <1>1, SameFetcher
      <4>5. promise'[r].state = "served"
        BY <4>4 DEF Served
      <4> QED
        BY <4>5, <1>4
    <3> QED
      BY <3>2, <3>3
  <2> QED
    BY <2>1 DEF DueFirst
<1>16. InOrder'
  <2>1. ASSUME NEW a \in Due', NEW b \in Due', Before(a, b, microtasks'), Key(a)' = Key(b)'
        PROVE  Brought(a)' <= Brought(b)'
    <3>1. a \in Gets /\ b \in Gets
      BY <2>1, <1>5 DEF Due
    <3>2. Key(a) = Key(b)
      BY <3>1, <2>1, <1>5
    <3>3. CASE Before(a, b, microtasks)
      <4>1. In(a, microtasks) /\ In(b, microtasks)
        BY <3>3, BeforeIsIn
      <4>2. a \in Due /\ b \in Due /\ Brought(a)' = Brought(a) /\ Brought(b)' = Brought(b)
        BY <4>1, <1>8, <1>10
      <4> QED
        BY <3>2, <3>3, <4>2 DEF OrderInv, InOrder
    <3>4. CASE In(b, reactions[r])
      <4>1. ~In(b, microtasks)
        <5>1. source[b] = r
          BY <3>1, <3>4, <1>1, ReactsToGet
        <5> QED
          BY <5>1, <3>1, <1>7
      <4>2. /\ r \in Served /\ r \in Gets /\ Key(r) = Key(b) /\ Brought(b)' = Brought(r)
            /\ Brought(r) \in Nat
        BY <4>1, <1>6, <1>9
      <4>3. CASE In(a, microtasks)
        <5>1. a \in Due /\ Brought(a)' = Brought(a)
          BY <4>3, <1>8, <1>10
        <5> QED
          BY <5>1, <4>2, <3>2 DEF OrderInv, DueFirst
      <4>4. CASE ~In(a, microtasks)
        BY <4>2, <4>4, <1>9
      <4> QED
        BY <4>3, <4>4
    <3>5. Before(a, b, microtasks) \/ In(b, reactions[r])
      BY <2>1, <1>1, <1>2, BeforeConcat
    <3> QED
      BY <3>3, <3>4, <3>5
  <2> QED
    BY <2>1 DEF InOrder
\* Nothing is cached of a key that was being fetched.
<1>17. CachedNow'
  <2>1. ASSUME NEW k \in Held(cache)
        PROVE  /\ \A s \in AnsweredGets' :
                    Key(s)' = k => answer[s].version <= cache.entries[k].version
               /\ \A q \in Due' : Key(q)' = k => Brought(q)' = cache.entries[k].version
    <3>1. \A s \in AnsweredGets' : Key(s)' = k => answer[s].version <= cache.entries[k].version
      BY <1>5, <1>6 DEF OrderInv, CachedNow
    <3>2. ASSUME NEW q \in Due', Key(q)' = k
          PROVE  Brought(q)' = cache.entries[k].version
      <4>1. q \in Gets /\ Key(q) = k
        BY <3>2, <1>5 DEF Due
      <4>2. CASE In(q, microtasks)
        <5>1. q \in Due /\ Brought(q)' = Brought(q)
          BY <4>2, <1>8, <1>10
        <5> QED
          BY <5>1, <4>1 DEF OrderInv, CachedNow
      <4>3. CASE ~In(q, microtasks)
        <5>1. r \in Fetchers /\ Key(r) = k
          BY <4>1, <4>3, <1>9
        <5>2. k \in DOMAIN inflight
          BY <5>1, <1>1 DEF InflightExact, Key
        <5> QED
          BY <5>2, <2>1 DEF QueueInv, Apart
      <4> QED
        BY <4>2, <4>3
    <3> QED
      BY <3>1, <3>2
  <2> QED
    BY <2>1, <1>1 DEF CachedNow, Held
<1> QED
  BY <1>13, <1>14, <1>15, <1>16, <1>17 DEF OrderInv

\* The head of the microtasks is answered with what was due to it; when it is the
\* fetcher of its key, that is cached too.
LEMMA ResumeOrder ==
  ASSUME QueueInv, OrderInv, Resume
  PROVE  /\ OrderInv'
         /\ \A a \in AnsweredGets' \ AnsweredGets, s \in AnsweredGets :
              call'[a].key = call[s].key => answer'[a].version >= answer[s].version
<1> PICK r : r = microtasks[1]
  OBVIOUS
<1>1. /\ CacheInv /\ CacheInv' /\ FlightInv /\ Types /\ Waits /\ IsCache(cache)
      /\ Cardinality(Held(cache)) <= Capacity
      /\ microtasks # <<>> /\ (ResumeFetcher(r) \/ ResumeOther(r)) /\ Return(r)
  BY ResumeCache DEF QueueInv, CacheInv, FlightInv, Shapes, Resume, ResumeFetcher, ResumeOther
<1>2. microtasks' = Tail(microtasks) /\ UNCHANGED <<version, call, source, promise>>
  BY <1>1 DEF Return, upstream
<1>3. microtasks \in Seq(Requests) /\ Distinct(microtasks)
  BY <1>1 DEF Types, Waits, NoneTwice
<1>4. /\ r \in Requests /\ In(r, microtasks)
      /\ \A x : In(x, microtasks') <=> In(x, microtasks) /\ x # r
  BY <1>1, <1>2, <1>3, InTail
<1>5. /\ r \in DOMAIN call
      /\ pc' = [pc EXCEPT ![r] = "done"]
      /\ answer'[r].status = promise[source[r]].status
      /\ answer'[r].version = promise[source[r]].version
  BY <1>1, ReturnAnswers
<1>6. \A q \in Requests \ {r} : pc'[q] = pc[q] /\ answer'[q] = answer[q]
  <2> PICK f : answer' = [answer EXCEPT ![r] = f]
    BY <1>1 DEF Return
  <2>1. answer \in [Requests -> AnswerRecord]
    BY <1>1 DEF CacheInv, Shapes
  <2> QED
    BY <2>1, <1>1, <1>5 DEF Types
<1>7. pc[r] = "waiting"
  BY <1>1, <1>4 DEF Waits, MicrotasksDue
<1>8. Gets' = Gets /\ Gets \subseteq Requests
  BY <1>1, <1>2 DEF Gets, Types
<1>9. \A q \in Gets : Key(q)' = Key(q) /\ Brought(q)' = Brought(q)
  BY <1>2 DEF Key, Brought
<1>10. Due' = Due \ {r} /\ Served' = Served
  <2>1. Served' = Served
    BY <1>2, <1>8 DEF Served
  <2>2. \A q : q \in Due' <=> q \in Due /\ q # r
    BY <1>2, <1>4, <1>8 DEF Due
  <2> QED
    BY <2>1, <2>2
<1>11. /\ \A q \in Gets : Key(q) \in Keys /\ Brought(q) \in Nat /\ version[Key(q)] \in Nat
       /\ \A s \in AnsweredGets : s \in Gets /\ answer[s].version \in Nat
       /\ Due \subseteq Gets /\ Served \subseteq Gets
  BY <1>1, OrderTypes
<1>12. Coming' \subseteq Coming /\ Coming \subseteq Gets
  BY <1>10, <1>11 DEF Coming
\* A GET is answered only by being due, and with what it was due.
<1>13. ASSUME NEW a \in AnsweredGets'
       PROVE  \/ a # r /\ a \in AnsweredGets /\ answer'[a] = answer[a]
              \/ a = r /\ r \in Due /\ r \in Gets /\ answer'[r].version = Brought(r)
  <2>1. a \in Gets /\ a \in Requests /\ pc'[a] = "done" /\ answer'[a].status # "rejected"
    BY <1>8, <1>13 DEF AnsweredGets
  <2>2. CASE a = r
    BY <2>1, <2>2, <1>4, <1>5 DEF Due, Brought
  <2>3. CASE a # r
    BY <2>1, <2>3, <1>6 DEF AnsweredGets
  <2> QED
    BY <2>2, <2>3
<1>14. \A q \in Due' : Before(r, q, microtasks)
  <2> SUFFICES ASSUME NEW q \in Due' PROVE Before(r, q, microtasks)
    OBVIOUS
  <2>1. In(q, Tail(microtasks))
    BY <1>2 DEF Due
  <2> QED
    BY <2>1, <1>1, <1>3, BeforeTail
\* What is coming to the key is not older than the new answer.
<1>15. ASSUME r \in Due, NEW q \in Coming', Key(q) = Key(r)
       PROVE  Brought(r) <= Brought(q)
  <2>1. CASE q \in Due'
    BY <2>1, <1>10, <1>14, <1>15 DEF OrderInv, InOrder
  <2>2. CASE q \in Served'
    BY <2>2, <1>10, <1>15 DEF OrderInv, DueFirst
  <2> QED
    BY <2>1, <2>2 DEF Coming
\* The new answer to a is r's, or it was there already.
<1>16. ASSUME NEW a \in AnsweredGets', NEW k, Key(a)' = k
       PROVE  \/ a # r /\ a \in AnsweredGets /\ answer'[a] = answer[a] /\ Key(a) = k
              \/ a = r /\ r \in Due /\ Key(r) = k /\ answer'[r].version = Brought(r)
  BY <1>9, <1>11, <1>13, <1>16
<1>17. ASSUME NEW q \in Due', NEW k, Key(q)' = k
       PROVE  q \in Due /\ q \in Gets /\ Key(q) = k /\ Brought(q)' = Brought(q)
  BY <1>9, <1>10, <1>11, <1>17
\* What was cached and still is.
<1>18. ASSUME NEW k \in Held(cache)', k \in Held(cache), cache'.entries[k] = cache.entries[k]
       PROVE  /\ cache'.entries[k].version <= version[k]
              /\ \A a \in AnsweredGets' :
                   Key(a)' = k => answer'[a].version <= cache'.entries[k].version
              /\ \A q \in Due' : Key(q)' = k => Brought(q)' = cache'.entries[k].version
  <2>1. cache.entries[k].version <= version[k]
    BY <1>18 DEF OrderInv, Newest
  <2>2. ASSUME NEW a \in AnsweredGets', Key(a)' = k
        PROVE  answer'[a].version <= cache.entries[k].version
    <3>1. CASE a = r
      <4>1. r \in Due /\ Key(r) = k /\ answer'[r].version = Brought(r) /\ Brought(r) \in Nat
        BY <3>1, <2>2, <1>11, <1>16
      <4>2. Brought(r) = cache.entries[k].version
        BY <4>1, <1>18 DEF OrderInv, CachedNow
      <4> QED
        BY <3>1, <4>1, <4>2
    <3>2. CASE a # r
      <4>1. a \in AnsweredGets /\ answer'[a] = answer[a] /\ Key(a) = k
        BY <3>2, <2>2, <1>16
      <4> QED
        BY <4>1, <1>18 DEF OrderInv, CachedNow
    <3> QED
      BY <3>1, <3>2
  <2>3. ASSUME NEW q \in Due', Key(q)' = k
        PROVE  Brought(q)' = cache.entries[k].version
    <3>1. q \in Due /\ Key(q) = k /\ Brought(q)' = Brought(q)
      BY <2>3, <1>17
    <3> QED
      BY <3>1, <1>18 DEF OrderInv, CachedNow
  <2> QED
    BY <2>1, <2>2, <2>3, <1>18
\* What the fetcher stores is what it is answered.
<1>19. ASSUME NEW k \in Held(cache)', ~(k \in Held(cache) /\ cache'.entries[k] = cache.entries[k])
       PROVE  /\ r \in Due /\ r \in Fetchers /\ source[r] = r /\ Key(r) = k
              /\ cache'.entries[k].version = Brought(r)
  <2>1. cache' # cache
    BY <1>19 DEF Held
  <2>2. /\ source[r] = r /\ call[r].get /\ Cacheable(promise[r])
        /\ cache' = AfterPut(cache, call[r].key, Entry(call[r], promise[r]), Capacity)
    BY <2>1, <1>1 DEF ResumeFetcher, ResumeOther
  <2> PICK e : e = Entry(call[r], promise[r])
    OBVIOUS
  <2>3. e.version = promise[r].version
    BY DEF Entry
  <2>4. /\ cache'.entries[call[r].key] = e
        /\ \A j \in Held(cache') \ {call[r].key} :
             j \in Held(cache) /\ cache'.entries[j] = cache.entries[j]
    <3> PICK j, d : j = call[r].key /\ d = AfterPut(cache, j, e, Capacity)
      OBVIOUS
    <3>1. /\ d.entries[j] = e
          /\ \A i \in Held(d) \ {j} : i \in Held(cache) /\ d.entries[i] = cache.entries[i]
      BY <1>1, PutKeeps, CapacityAssumption
    <3>2. d = cache'
      BY <2>2
    <3> QED
      BY <3>1, <3>2
  <2>5. k = call[r].key
    BY <2>4, <1>19 DEF Held
  <2>6. r \in Gets /\ r \in Fetchers
    BY <2>2, <1>5, <1>7 DEF Gets, Fetchers
  <2>7. r \in Due
    BY <2>2, <2>6, <1>4 DEF Due, Cacheable
  <2> QED
    BY <2>2, <2>3, <2>4, <2>5, <2>6, <2>7 DEF Key, Brought
<1>20. ASSUME NEW k \in Held(cache)', r \in Due, r \in Fetchers, source[r] = r, Key(r) = k,
              cache'.entries[k].version = Brought(r)
       PROVE  /\ cache'.entries[k].version <= version[k]
              /\ \A a \in AnsweredGets' :
                   Key(a)' = k => answer'[a].version <= cache'.entries[k].version
              /\ \A q \in Due' : Key(q)' = k => Brought(q)' = cache'.entries[k].version
  <2>1. Brought(r) <= version[k] /\ r \in Coming /\ r \in Gets /\ Brought(r) \in Nat
    BY <1>11, <1>20 DEF OrderInv, Newest, Coming
  <2>2. ASSUME NEW a \in AnsweredGets', Key(a)' = k
        PROVE  answer'[a].version <= Brought(r)
    <3>1. CASE a = r
      BY <3>1, <2>1, <2>2, <1>16
    <3>2. CASE a # r
      <4>1. a \in AnsweredGets /\ answer'[a] = answer[a] /\ Key(a) = k
        BY <3>2, <2>2, <1>16
      <4> QED
        BY <4>1, <2>1, <1>20 DEF OrderInv, AnsweredFirst
    <3> QED
      BY <3>1, <3>2
  <2>3. ASSUME NEW q \in Due', Key(q)' = k
        PROVE  Brought(q)' = Brought(r)
    <3>1. q \in Gets /\ Key(q) = k /\ Brought(q)' = Brought(q) /\ Before(r, q, microtasks)
      BY <2>3, <1>14, <1>17
    <3>2. source[q] = r
      BY <3>1, <1>20 DEF QueueInv, BehindFetcher
    <3> QED
      BY <3>1, <3>2, <1>20 DEF Brought
  <2> QED
    BY <2>1, <2>2, <2>3, <1>20
<1>21. ASSUME NEW k \in Held(cache)'
       PROVE  /\ cache'.entries[k].version <= version[k]
              /\ \A a \in AnsweredGets' :
                   Key(a)' = k => answer'[a].version <= cache'.entries[k].version
              /\ \A q \in Due' : Key(q)' = k => Brought(q)' = cache'.entries[k].version
  <2>1. CASE k \in Held(cache) /\ cache'.entries[k] = cache.entries[k]
    BY <2>1, <1>18
  <2>2. CASE ~(k \in Held(cache) /\ cache'.entries[k] = cache.entries[k])
    BY <2>2, <1>19, <1>20
  <2> QED
    BY <2>1, <2>2
<1>22. CachedNow'
  BY <1>21 DEF CachedNow
<1>23. Newest'
  <2>1. ASSUME NEW a \in AnsweredGets' PROVE answer'[a].version <= version'[Key(a)']
    <3>1. CASE a = r
      <4>1. r \in Coming /\ r \in Gets /\ answer'[r].version = Brought(r)
        BY <3>1, <1>13 DEF Coming
      <4> QED
        BY <3>1, <4>1, <1>2, <1>9 DEF OrderInv, Newest
    <3>2. CASE a # r
      <4>1. a \in AnsweredGets /\ a \in Gets /\ answer'[a] = answer[a]
        BY <3>2, <1>11, <1>13
      <4> QED
        BY <4>1, <1>2, <1>9 DEF OrderInv, Newest
    <3> QED
      BY <3>1, <3>2
  <2>2. ASSUME NEW q \in Coming' PROVE Brought(q)' <= version'[Key(q)']
    BY <1>2, <1>9, <1>12 DEF OrderInv, Newest
  <2>3. \A k \in Held(cache)' : cache'.entries[k].version <= version'[k]
    BY <1>2, <1>21
  <2> QED
    BY <2>1, <2>2, <2>3 DEF Newest
<1>24. AnsweredFirst'
  <2>1. ASSUME NEW a \in AnsweredGets', NEW q \in Coming', Key(a)' = Key(q)'
        PROVE  answer'[a].version <= Brought(q)'
    <3>1. q \in Coming /\ q \in Gets /\ Key(q)' = Key(q) /\ Brought(q)' = Brought(q)
      BY <1>9, <1>12
    <3>2. CASE a = r
      <4>1. r \in Due /\ Key(r) = Key(q) /\ answer'[r].version = Brought(r)
        BY <3>1, <3>2, <2>1, <1>9, <1>13
      <4> QED
        BY <4>1, <3>1, <3>2, <1>15
    <3>3. CASE a # r
      <4>1. a \in AnsweredGets /\ answer'[a] = answer[a] /\ Key(a) = Key(q)
        BY <3>1, <3>3, <2>1, <1>9, <1>11, <1>13
      <4> QED
        BY <4>1, <3>1 DEF OrderInv, AnsweredFirst
    <3> QED
      BY <3>2, <3>3
  <2> QED
    BY <2>1 DEF AnsweredFirst
<1>25. DueFirst'
  <2>1. ASSUME NEW q \in Due', NEW s \in Served', Key(q)' = Key(s)'
        PROVE  Brought(q)' <= Brought(s)'
    <3>1. /\ q \in Due /\ s \in Served /\ Key(q) = Key(s)
          /\ Brought(q)' = Brought(q) /\ Brought(s)' = Brought(s)
      BY <2>1, <1>9, <1>10, <1>11
    <3> QED
      BY <3>1 DEF OrderInv, DueFirst
  <2> QED
    BY <2>1 DEF DueFirst
<1>26. InOrder'
  <2>1. ASSUME NEW a \in Due', NEW b \in Due', Before(a, b, microtasks'), Key(a)' = Key(b)'
        PROVE  Brought(a)' <= Brought(b)'
    <3>1. /\ a \in Due /\ b \in Due /\ Key(a) = Key(b)
          /\ Brought(a)' = Brought(a) /\ Brought(b)' = Brought(b)
      BY <2>1, <1>9, <1>10, <1>11
    <3>2. In(b, Tail(microtasks)) /\ Before(a, b, Tail(microtasks))
      BY <2>1, <1>2, BeforeIsIn
    <3>3. Before(a, b, microtasks)
      BY <3>2, <1>1, <1>3, BeforeTail
    <3> QED
      BY <3>1, <3>3 DEF OrderInv, InOrder
  <2> QED
    BY <2>1 DEF InOrder
<1>27. ASSUME NEW a \in AnsweredGets' \ AnsweredGets, NEW s \in AnsweredGets,
              call'[a].key = call[s].key
       PROVE  answer'[a].version >= answer[s].version
  <2>1. a = r /\ r \in Due /\ r \in Gets /\ answer'[r].version = Brought(r)
    BY <1>13, <1>27
  <2>2. Key(s) = Key(r) /\ answer[s].version \in Nat /\ Brought(r) \in Nat
    BY <2>1, <1>2, <1>11, <1>27 DEF Key
  <2>3. answer[s].version <= Brought(r)
    BY <2>1, <2>2 DEF OrderInv, AnsweredFirst, Coming
  <2> QED
    BY <2>1, <2>2, <2>3
<1> QED
  BY <1>22, <1>23, <1>24, <1>25, <1>26, <1>27 DEF OrderInv

\* OrderInv is inductive relative to QueueInv, and no step answers a GET with
\* an earlier version than one answered before it.
LEMMA NextOrder ==
  ASSUME QueueInv, OrderInv, [Next]_vars
  PROVE  /\ OrderInv'
         /\ \A a \in AnsweredGets' \ AnsweredGets, s \in AnsweredGets :
              call'[a].key = call[s].key => answer'[a].version >= answer[s].version
<1>1. CacheInv /\ CacheInv' /\ Types /\ Waits /\ Shapes
  BY NextCache DEF QueueInv, CacheInv, FlightInv
<1>2. ASSUME NEW r \in Requests, NEW c \in Calls, Bypass(r, c) \/ Fetch(r, c) \/ Attach(r, c)
      PROVE  OrderInv' /\ AnsweredGets' \subseteq AnsweredGets
  <2>1. OrderInv'
    BY <1>2, SendOrder, AttachOrder
  <2>2. /\ r \in Requests /\ Enter(r, c) /\ pc' = [pc EXCEPT ![r] = "waiting"]
        /\ answer' = answer
    BY <1>2 DEF Bypass, Fetch, Attach
  <2>3. pc'[r] = "waiting" /\ \A q \in Requests \ {r} : pc'[q] = pc[q]
    BY <2>2, <1>1 DEF Types
  <2>4. DOMAIN call' = DOMAIN call \cup {r} /\ \A q \in DOMAIN call : call'[q] = call[q]
    BY <2>2, <1>1, EnterEffect
  <2> QED
    BY <2>1, <2>2, <2>3, <2>4, <1>1 DEF AnsweredGets, Gets, Types
<1>3. ASSUME NEW r \in Requests, Serve(r) \/ Settle(r)
      PROVE  OrderInv' /\ AnsweredGets' = AnsweredGets
  <2>1. OrderInv'
    BY <1>3, ServeOrder, SettleOrder
  <2>2. UNCHANGED <<pc, call, answer>>
    BY <1>3 DEF Serve, Settle
  <2> QED
    BY <2>1, <2>2 DEF AnsweredGets, Gets
<1>4. ASSUME UNCHANGED <<cache, pc, call, source, promise, microtasks, answer>>,
             \A k \in Keys : version'[k] \in Nat /\ version[k] <= version'[k]
      PROVE  OrderInv' /\ AnsweredGets' = AnsweredGets
  <2>1. Gets' = Gets /\ AnsweredGets' = AnsweredGets /\ \A q \in Gets : Key(q)' = Key(q)
    BY <1>4 DEF AnsweredGets, Gets, Key
  <2>2. /\ Due' = Due /\ Served' = Served
        /\ \A q \in Due : Brought(q)' = Brought(q)
        /\ \A q \in Served : Brought(q)' = Brought(q)
    BY <1>4, <2>1 DEF Due, Served, Brought
  <2>3. Keeps(cache, cache')
    BY <1>4 DEF Keeps
  <2>4. microtasks' = microtasks /\ answer' = answer
    BY <1>4
  <2> QED
    BY <1>1, <1>4, <2>1, <2>2, <2>3, <2>4, QuietOrder
<1>5. ASSUME NEW k \in Volatile, Change(k)
      PROVE  OrderInv' /\ AnsweredGets' = AnsweredGets
  BY <1>1, <1>4, <1>5, VolatileAssumption DEF Change, Types
<1>6. CASE Tick \/ UNCHANGED vars
  <2>1. UNCHANGED <<version, cache, pc, call, source, promise, microtasks, answer>>
    BY <1>6 DEF Tick, vars
  <2> QED
    BY <2>1, <1>1, <1>4 DEF Types
<1>7. CASE \E r \in Requests, c \in Calls : GetOrFetch(r, c)
  BY <1>2, <1>7, HitOrder DEF GetOrFetch
<1>8. CASE Resume
  BY <1>8, ResumeOrder
<1> QED
  BY <1>3, <1>5, <1>6, <1>7, <1>8 DEF Next

LEMMA OrderInvariant == Spec => [](QueueInv /\ OrderInv)
<1>1. Init => QueueInv /\ OrderInv
  BY InitQueue, InitOrder
<1>2. (QueueInv /\ OrderInv) /\ [Next]_vars => (QueueInv /\ OrderInv)'
  BY NextQueue, NextOrder
<1> QED
  BY <1>1, <1>2, PTL DEF Spec

\* The answers to the GETs of a key never go back to an earlier version, however
\* hits, coalesced answers and fetches of the key interleave with its eviction.
THEOREM ReadsAreMonotone == Spec => MonotoneReads
<1>1. (QueueInv /\ OrderInv) /\ [Next]_vars =>
        [\A r \in AnsweredGets' \ AnsweredGets, s \in AnsweredGets :
           call'[r].key = call[s].key => answer'[r].version >= answer[s].version]_vars
  BY NextOrder
<1> QED
  BY <1>1, OrderInvariant, PTL DEF Spec, MonotoneReads

=============================================================================

---------------------------- MODULE CacheManager ----------------------------
(***************************************************************************)
(* cache/cacheManager.js: getOrFetch, which answers a GET from the shared  *)
(* LRU cache, or attaches it to the fetch already in flight for its key,   *)
(* or makes it the fetcher of the key; anything but a GET goes straight to *)
(* the upstream.                                                           *)
(*                                                                         *)
(* JavaScript runs one callback at a time, and what follows an await runs  *)
(* later, as a microtask, in the order in which the awaits were issued.    *)
(* Each action is one such stretch of code between two awaits, or a step   *)
(* of the upstream.  New calls may come in between a promise settling and  *)
(* the microtasks that wait for it, a little more than the event loop      *)
(* allows.                                                                 *)
(***************************************************************************)
EXTENDS Recency, Sequences

CONSTANTS
  MaxRequests,\* bound on the calls of getOrFetch
  Keys,       \* buildCacheKey: method, host, path and sorted query
  Calls,      \* the calls made: a key, whether it is a GET, and what its route
              \* says of the cache, [enabled, ttl]
  Volatile,   \* the keys whose resource changes at the upstream by itself
  Capacity,   \* LRU_CAPACITY
  DefaultTtl, \* LRU_TTL_MS, the default of the LRU cache
  MaxNow,     \* bound on the clock
  MaxVersion  \* bound on the changes of an upstream resource

\* cache_ttl_ms of a route that sets none.  As in JavaScript, null > 0 is false.
Null == -1

ASSUME VolatileAssumption == Volatile \subseteq Keys
ASSUME CapacityAssumption == Capacity \in Nat \ {0}
Routes == [enabled : BOOLEAN, ttl : Nat \cup {Null}]

ASSUME CallsAssumption == Calls \subseteq [key : Keys, get : BOOLEAN, route : Routes]
ASSUME BoundsAssumption ==
  MaxRequests \in Nat /\ DefaultTtl \in Nat /\ MaxNow \in Nat /\ MaxVersion \in Nat

VARIABLES
  now,        \* Date.now()
  version,    \* per key, the version of the resource at the upstream
  cache,      \* the LRU cache
  inflight,   \* per key being fetched, the request that fetches it
  pc,         \* per request: "idle", "waiting" for a promise, or "done"
  call,       \* per request made: its key, whether it is a GET, its route
  source,     \* per request: whose fetch it waits for, its own at first
  promise,    \* per request: its own upstream fetch
  reactions,  \* per request: who awaits its fetch, in order
  microtasks, \* continuations ready to run
  answer,     \* per request: what it was answered
  asOf        \* history: per key and instant, the version when the instant began

\* The calls, numbered in the order in which they come.
Requests == 1 .. MaxRequests

vars == <<now, version, cache, inflight, pc, call, source, promise, reactions,
          microtasks, answer, asOf>>

upstream == <<version, asOf>>

NoFetch == [state |-> "none", status |-> "none", version |-> 0, since |-> 0]
NoAnswer == [from |-> "none", status |-> "none", version |-> 0, since |-> 0, age |-> 0]

Init ==
  /\ now = 0
  /\ version = [k \in Keys |-> 0]
  /\ cache = EmptyCache
  /\ inflight = [k \in {} |-> Null]
  /\ pc = [r \in Requests |-> "idle"]
  /\ call = [r \in {} |-> Null]
  /\ source = [r \in Requests |-> r]
  /\ promise = [r \in Requests |-> NoFetch]
  /\ reactions = [r \in Requests |-> <<>>]
  /\ microtasks = <<>>
  /\ answer = [r \in Requests |-> NoAnswer]
  /\ asOf = [k \in Keys |-> [t \in 0 .. MaxNow |-> 0]]

-----------------------------------------------------------------------------
\* interceptor.js: the ttlMs argument of getOrFetch.
TtlArg(route) == IF route.enabled THEN route.ttl ELSE Null

\* put(): only an undefined ttlMs falls back on the default, and null is not.
ResolvedTtl(ttl) == ttl

\* The earliest instant whose version a cached answer may still show: the
\* entry was fetched from e.since on, stored at e.storedAt and lives for e.ttl.
Horizon(e) ==
  IF e.expiresAt = Infinity THEN 0
  ELSE LET t == now - e.ttl - (e.storedAt - e.since) IN IF t < 0 THEN 0 ELSE t

\* fetchFn(): r sends its own request upstream and awaits the answer.
StartFetch(r) ==
  /\ promise' = [promise EXCEPT ![r] = [@ EXCEPT !.state = "sent", !.since = now]]
  /\ reactions' = [reactions EXCEPT ![r] = <<r>>]
  /\ UNCHANGED source

Enter(r, c) ==
  /\ pc[r] = "idle"
  /\ \A q \in 1 .. r - 1 : pc[q] # "idle"
  /\ call' = [q \in DOMAIN call \cup {r} |-> IF q = r THEN c ELSE call[q]]
  /\ UNCHANGED <<now, upstream>>

\* Anything but a GET skips the cache and the coalescing.
Bypass(r, c) ==
  /\ ~c.get
  /\ Enter(r, c)
  /\ pc' = [pc EXCEPT ![r] = "waiting"]
  /\ StartFetch(r)
  /\ UNCHANGED <<cache, inflight, microtasks, answer>>

\* Mutant: the deadline of an entry is not looked at.
HitExpired(r, c) ==
  /\ c.get
  /\ c.key \in Held(cache)
  /\ Enter(r, c)
  /\ pc' = [pc EXCEPT ![r] = "done"]
  /\ LET e == cache.entries[c.key]
     IN  answer' = [answer EXCEPT ![r] =
           [from |-> "cache", status |-> "good", version |-> e.version,
            since |-> Horizon(e), age |-> now - e.storedAt]]
  /\ cache' = Touched(cache, c.key)
  /\ UNCHANGED <<inflight, source, promise, reactions, microtasks>>

\* Step 1: the cache has a live entry.
Hit(r, c) ==
  /\ c.get
  /\ Hits(cache, c.key, now)
  /\ Enter(r, c)
  /\ pc' = [pc EXCEPT ![r] = "done"]
  /\ LET e == cache.entries[c.key]
     IN  answer' = [answer EXCEPT ![r] =
           [from |-> "cache", status |-> "good", version |-> e.version,
            since |-> Horizon(e), age |-> now - e.storedAt]]
  /\ cache' = AfterGet(cache, c.key, now)
  /\ UNCHANGED <<inflight, source, promise, reactions, microtasks>>

\* Step 2: another request is fetching the key; r awaits the same promise.  A
\* promise that has already settled runs its reaction as a microtask at once.
Attach(r, c) ==
  /\ c.get
  /\ ~Hits(cache, c.key, now)
  /\ c.key \in DOMAIN inflight
  /\ Enter(r, c)
  /\ pc' = [pc EXCEPT ![r] = "waiting"]
  /\ source' = [source EXCEPT ![r] = inflight[c.key]]
  /\ IF promise[inflight[c.key]].state = "settled"
     THEN microtasks' = Append(microtasks, r) /\ UNCHANGED reactions
     ELSE reactions' = [reactions EXCEPT ![inflight[c.key]] = Append(@, r)]
          /\ UNCHANGED microtasks
  /\ cache' = AfterGet(cache, c.key, now)
  /\ UNCHANGED <<inflight, promise, answer>>

\* Mutant: the inflight map is not looked at.
FetchAlways(r, c) ==
  /\ c.get
  /\ ~Hits(cache, c.key, now)
  /\ Enter(r, c)
  /\ pc' = [pc EXCEPT ![r] = "waiting"]
  /\ StartFetch(r)
  /\ inflight' = [k \in DOMAIN inflight \cup {c.key} |->
                    IF k = c.key THEN r ELSE inflight[k]]
  /\ cache' = AfterGet(cache, c.key, now)
  /\ UNCHANGED <<microtasks, answer>>

\* Step 3: r is the designated fetcher, entered in the map before any await.
Fetch(r, c) ==
  /\ c.get
  /\ ~Hits(cache, c.key, now)
  /\ c.key \notin DOMAIN inflight
  /\ Enter(r, c)
  /\ pc' = [pc EXCEPT ![r] = "waiting"]
  /\ StartFetch(r)
  /\ inflight' = [k \in DOMAIN inflight \cup {c.key} |->
                    IF k = c.key THEN r ELSE inflight[k]]
  /\ cache' = AfterGet(cache, c.key, now)
  /\ UNCHANGED <<microtasks, answer>>

GetOrFetch(r, c) == Bypass(r, c) \/ Hit(r, c) \/ Attach(r, c) \/ Fetch(r, c)

-----------------------------------------------------------------------------
\* The upstream handles r: a read shows the current version, a write that
\* succeeds makes a new one.
Serve(r) ==
  /\ promise[r].state = "sent"
  /\ \E status \in {"good", "bad"} :
       LET k == call[r].key
           writes == ~call[r].get /\ status = "good"
       IN  /\ writes => version[k] < MaxVersion
           /\ version' = [version EXCEPT ![k] = IF writes THEN @ + 1 ELSE @]
           /\ promise' = [promise EXCEPT ![r] =
                [@ EXCEPT !.state = "served", !.status = status, !.version = version'[k]]]
  /\ UNCHANGED <<now, cache, inflight, pc, call, source, reactions, microtasks, answer, asOf>>

\* forwardRequest resolves with the response, or rejects on an error of the
\* connection or on the timeout; the reactions become microtasks, in order.
Settle(r) ==
  /\ \/ /\ promise[r].state = "served"
        /\ promise' = [promise EXCEPT ![r] = [@ EXCEPT !.state = "settled"]]
     \/ /\ promise[r].state \in {"sent", "served"}
        /\ promise' = [promise EXCEPT ![r] =
             [@ EXCEPT !.state = "settled", !.status = "rejected", !.version = 0]]
  /\ microtasks' = microtasks \o reactions[r]
  /\ reactions' = [reactions EXCEPT ![r] = <<>>]
  /\ UNCHANGED <<now, upstream, cache, inflight, pc, call, source, answer>>

\* The request at the head of the microtasks returns to the interceptor.
Return(r) ==
  LET p == promise[source[r]]
  IN  /\ microtasks' = Tail(microtasks)
      /\ pc' = [pc EXCEPT ![r] = "done"]
      /\ answer' = [answer EXCEPT ![r] =
           [from |-> IF source[r] = r THEN "upstream" ELSE "coalesced",
            status |-> p.status, version |-> p.version, since |-> p.since, age |-> 0]]
      /\ UNCHANGED <<now, upstream, call, source, promise, reactions>>

\* The entry put for the answer p to call c; since, storedAt and ttl are
\* history, for the properties.
Entry(c, p) ==
  LET ttl == ResolvedTtl(TtlArg(c.route))
  IN  [version |-> p.version, expiresAt |-> Deadline(ttl, now),
       since |-> p.since, storedAt |-> now, ttl |-> ttl]

\* Mutant: whatever the upstream answered is cached.
CachesAnything(p) == p.status # "rejected"

Cacheable(p) == p.status = "good"

\* Mutant: a fetch that fails leaves its entry in the inflight map.
ResumeFetcherLeaky(r) ==
  /\ source[r] = r
  /\ call[r].get
  /\ IF Cacheable(promise[r])
     THEN /\ cache' = AfterPut(cache, call[r].key, Entry(call[r], promise[r]), Capacity)
          /\ inflight' = [k \in DOMAIN inflight \ {call[r].key} |-> inflight[k]]
     ELSE UNCHANGED <<cache, inflight>>
  /\ Return(r)

\* The fetcher caches a good answer and, in any case, clears the inflight map.
ResumeFetcher(r) ==
  /\ source[r] = r
  /\ call[r].get
  /\ cache' = IF Cacheable(promise[r])
              THEN AfterPut(cache, call[r].key, Entry(call[r], promise[r]), Capacity)
              ELSE cache
  /\ inflight' = [k \in DOMAIN inflight \ {call[r].key} |-> inflight[k]]
  /\ Return(r)

\* A coalesced request, or one that bypassed the cache, only returns.
ResumeOther(r) ==
  /\ source[r] # r \/ ~call[r].get
  /\ Return(r)
  /\ UNCHANGED <<cache, inflight>>

\* Mutant: the continuation of a coalesced request is lost when the fetch fails.
ResumeDropping ==
  /\ microtasks # <<>>
  /\ LET r == microtasks[1]
     IN  \/ ResumeFetcher(r)
         \/ ResumeOther(r) /\ promise[source[r]].status # "rejected"
         \/ /\ source[r] # r
            /\ promise[source[r]].status = "rejected"
            /\ microtasks' = Tail(microtasks)
            /\ UNCHANGED <<now, upstream, cache, inflight, pc, call, source, promise,
                           reactions, answer>>

Resume ==
  /\ microtasks # <<>>
  /\ LET r == microtasks[1] IN ResumeFetcher(r) \/ ResumeOther(r)

\* Someone else changes the resource at the upstream.
Change(k) ==
  /\ version[k] < MaxVersion
  /\ version' = [version EXCEPT ![k] = @ + 1]
  /\ UNCHANGED <<now, cache, inflight, pc, call, source, promise, reactions,
                 microtasks, answer, asOf>>

Tick ==
  /\ now < MaxNow
  /\ now' = now + 1
  /\ asOf' = [k \in Keys |-> [asOf[k] EXCEPT ![now + 1] = version[k]]]
  /\ UNCHANGED <<version, cache, inflight, pc, call, source, promise, reactions,
                 microtasks, answer>>

Next ==
  \/ \E r \in Requests, c \in Calls : GetOrFetch(r, c)
  \/ \E r \in Requests : Serve(r) \/ Settle(r)
  \/ Resume
  \/ \E k \in Volatile : Change(k)
  \/ Tick

Spec == Init /\ [][Next]_vars

\* Every upstream request ends, by its answer, an error or the 15 s timeout,
\* and the event loop drains its microtasks.
Fairness == WF_vars(Resume) /\ \A r \in Requests : WF_vars(Settle(r))

FairSpec == Spec /\ Fairness

-----------------------------------------------------------------------------
Gets == {r \in DOMAIN call : call[r].get}
AnsweredGets == {r \in Gets : pc[r] = "done" /\ answer[r].status # "rejected"}
Fetchers == {r \in Gets : pc[r] = "waiting" /\ source[r] = r}

\* "exactly ONE upstream call per unique resource, regardless of how many
\* concurrent requests arrive during the window": no two fetches of one key
\* are at the upstream at once.
SingleFlight ==
  \A r, s \in {q \in Gets : promise[q].state \in {"sent", "served"}} :
    call[r].key = call[s].key => r = s

\* The inflight map names, for exactly the keys being fetched, their fetcher:
\* no failure leaves an entry behind for later requests to wait on.
InflightExact ==
  /\ \A r \in Fetchers : call[r].key \in DOMAIN inflight /\ inflight[call[r].key] = r
  /\ \A k \in DOMAIN inflight : inflight[k] \in Fetchers /\ call[inflight[k]].key = k

\* Whatever is cached under a key is what a GET of that key was answered by
\* the upstream with success, and no more than Capacity keys are cached.
CacheHonest ==
  /\ Cardinality(Held(cache)) <= Capacity
  /\ \A k \in Held(cache) : \E r \in AnsweredGets :
       /\ call[r].key = k
       /\ answer[r].from = "upstream"
       /\ answer[r].status = "good"
       /\ answer[r].version = cache.entries[k].version

\* An answer is no older than its time to live plus the time its fetch took:
\* it shows the version of that instant or a later one.
BoundedStaleness ==
  \A r \in AnsweredGets : answer[r].version >= asOf[call[r].key][answer[r].since]

\* The answers to the GETs of a key never go back to an earlier version of the
\* resource, whether they were cached, coalesced or fetched.
MonotoneReads ==
  [][\A r \in AnsweredGets' \ AnsweredGets, s \in AnsweredGets :
       call'[r].key = call[s].key => answer'[r].version >= answer[s].version]_vars

\* Every call of getOrFetch returns, also when the fetch it waits for fails: there
\* are finitely many, and in the end none is waiting.
EveryCallReturns == <>[](\A r \in Requests : pc[r] # "waiting")

\* db/migrate.js on cache_enabled and cache_ttl_ms: a cached answer is given
\* only on a route whose cache is active, and only for the time to live of the
\* route, which is the global default when the route sets none.
ConfiguredLifetime ==
  \A r \in Gets : answer[r].from = "cache" =>
    LET route == call[r].route
    IN  /\ route.enabled
        /\ answer[r].age <= IF route.ttl = Null THEN DefaultTtl ELSE route.ttl

=============================================================================

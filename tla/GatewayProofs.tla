--------------------------- MODULE GatewayProofs ---------------------------
(***************************************************************************)
(* Proofs about Gateway, for any clients, paths, rows, statuses and        *)
(* capacity of the cache, any changes of the registry and any restarts.    *)
(***************************************************************************)
EXTENDS Gateway, FiniteSetTheorems, SequenceTheorems, TLAPS

-----------------------------------------------------------------------------
(* Sequences without repetition.                                           *)

Distinct(s) == \A i, j \in DOMAIN s : s[i] = s[j] => i = j

LEMMA InRange ==
  ASSUME NEW s, NEW x
  PROVE  x \in Range(s) <=> \E i \in DOMAIN s : s[i] = x
  BY DEF Range

\* Where the elements of s \o t come from.
LEMMA ConcatAt ==
  ASSUME NEW S, NEW s \in Seq(S), NEW t \in Seq(S)
  PROVE  /\ s \o t \in Seq(S) /\ Len(s \o t) = Len(s) + Len(t)
         /\ Len(s) \in Nat /\ DOMAIN s \subseteq Nat /\ DOMAIN t \subseteq Nat
         /\ \A i \in DOMAIN s : i \in DOMAIN (s \o t) /\ (s \o t)[i] = s[i]
         /\ \A i \in DOMAIN t : Len(s) + i \in DOMAIN (s \o t) /\ (s \o t)[Len(s) + i] = t[i]
         /\ \A i \in DOMAIN (s \o t) :
              \/ i \in DOMAIN s /\ (s \o t)[i] = s[i]
              \/ /\ i \in Nat /\ i \notin DOMAIN s /\ i - Len(s) \in DOMAIN t
                 /\ (s \o t)[i] = t[i - Len(s)]
<1>1. /\ s \o t \in Seq(S) /\ Len(s \o t) = Len(s) + Len(t)
      /\ Len(s) \in Nat /\ Len(t) \in Nat
      /\ DOMAIN s = 1 .. Len(s) /\ DOMAIN t = 1 .. Len(t)
      /\ DOMAIN (s \o t) = 1 .. (Len(s) + Len(t))
  OBVIOUS
<1>2. \A i \in DOMAIN s : i \in DOMAIN (s \o t) /\ (s \o t)[i] = s[i]
  BY <1>1
<1>3. \A i \in DOMAIN t : Len(s) + i \in DOMAIN (s \o t) /\ (s \o t)[Len(s) + i] = t[i]
  BY <1>1
<1>4. ASSUME NEW i \in DOMAIN (s \o t)
      PROVE  \/ i \in DOMAIN s /\ (s \o t)[i] = s[i]
             \/ /\ i \in Nat /\ i \notin DOMAIN s /\ i - Len(s) \in DOMAIN t
                /\ (s \o t)[i] = t[i - Len(s)]
  BY <1>1
<1> QED
  BY <1>1, <1>2, <1>3, <1>4

LEMMA RangeConcat ==
  ASSUME NEW S, NEW s \in Seq(S), NEW t \in Seq(S)
  PROVE  \A x : x \in Range(s \o t) <=> x \in Range(s) \/ x \in Range(t)
<1> DEFINE u == s \o t
           n == Len(s)
<1>1. /\ \A i \in DOMAIN s : i \in DOMAIN u /\ u[i] = s[i]
      /\ \A i \in DOMAIN t : n + i \in DOMAIN u /\ u[n + i] = t[i]
      /\ \A i \in DOMAIN u : \/ i \in DOMAIN s /\ u[i] = s[i]
                             \/ i - n \in DOMAIN t /\ u[i] = t[i - n]
  BY ConcatAt
<1> HIDE DEF u, n
<1>2. ASSUME NEW x, x \in Range(u)
      PROVE  x \in Range(s) \/ x \in Range(t)
  <2>1. PICK i \in DOMAIN u : x = u[i]
    BY <1>2 DEF Range
  <2>2. CASE i \in DOMAIN s /\ u[i] = s[i]
    BY <2>1, <2>2 DEF Range
  <2>3. CASE i - n \in DOMAIN t /\ u[i] = t[i - n]
    BY <2>1, <2>3 DEF Range
  <2> QED
    BY <1>1, <2>2, <2>3
<1>3. \A i \in DOMAIN s : s[i] \in Range(u)
  BY <1>1 DEF Range
<1>4. \A i \in DOMAIN t : t[i] \in Range(u)
  BY <1>1 DEF Range
<1>5. ASSUME NEW x, x \in Range(s) \/ x \in Range(t)
      PROVE  x \in Range(u)
  BY <1>3, <1>4, <1>5 DEF Range
<1> QED
  BY <1>2, <1>5 DEF u

LEMMA DistinctConcat ==
  ASSUME NEW S, NEW s \in Seq(S), NEW t \in Seq(S), Distinct(s), Distinct(t),
         \A x : x \in Range(s) => x \notin Range(t)
  PROVE  Distinct(s \o t)
<1> DEFINE u == s \o t
           n == Len(s)
<1>1. \A i \in DOMAIN u : \/ i \in DOMAIN s /\ u[i] = s[i] /\ u[i] \in Range(s)
                          \/ /\ i \in Nat /\ i - n \in DOMAIN t
                             /\ u[i] = t[i - n] /\ u[i] \in Range(t)
  BY ConcatAt DEF Range
<1>2. n \in Nat /\ DOMAIN t \subseteq Nat
  BY ConcatAt
<1> HIDE DEF u, n
<1> SUFFICES ASSUME NEW i \in DOMAIN u, NEW j \in DOMAIN u, u[i] = u[j]
             PROVE  i = j
  BY DEF Distinct, u
<1>3. CASE i \in DOMAIN s /\ j \in DOMAIN s /\ u[i] = s[i] /\ u[j] = s[j]
  BY <1>3 DEF Distinct
<1>4. CASE /\ i \in Nat /\ i - n \in DOMAIN t /\ u[i] = t[i - n]
           /\ j \in Nat /\ j - n \in DOMAIN t /\ u[j] = t[j - n]
  <2>1. i - n = j - n
    BY <1>4, Zenon DEF Distinct
  <2> QED
    BY <1>2, <1>4, <2>1
<1> QED
  BY <1>1, <1>3, <1>4, Zenon

LEMMA DistinctLen ==
  ASSUME NEW S, NEW s \in Seq(S), Distinct(s)
  PROVE  IsFiniteSet(Range(s)) /\ Cardinality(Range(s)) = Len(s)
<1> DEFINE D == 1 .. Len(s)
           T == Range(s)
<1>1. Len(s) \in Nat /\ DOMAIN s = D /\ s \in [D -> S]
  OBVIOUS
<1>2. IsFiniteSet(D) /\ Cardinality(D) = Len(s)
  <2>1. /\ IsFiniteSet(1 .. Len(s))
        /\ Cardinality(1 .. Len(s)) = IF 1 > Len(s) THEN 0 ELSE Len(s) - 1 + 1
    BY <1>1, FS_Interval
  <2> QED
    BY <1>1, <2>1
<1>3. s \in [D -> T] /\ \A t \in T : \E d \in D : s[d] = t
  BY <1>1, InRange
<1>4. \A a, b \in D : s[a] = s[b] => a = b
  BY <1>1 DEF Distinct
<1>5. s \in Surjection(D, T) /\ s \in Injection(D, T)
  BY <1>3, <1>4 DEF Surjection, Injection, IsInjective
<1> HIDE DEF D, T
<1>6. IsFiniteSet(T) /\ Cardinality(T) = Cardinality(D)
  BY <1>2, <1>5, FS_Surjection, Zenon
<1> QED
  BY <1>2, <1>6 DEF T

-----------------------------------------------------------------------------
(* The inductive invariant.                                                *)

Stages == {"idle", "body", "fetching", "attached", "done", "gone"}
Sources == {"none", "HIT", "MISS", "COALESCED", "catch", "LIMITER", "errorHandler", "fallback"}

SomeCalls == UNION {Calls[r] : r \in Requests}
Upstreams == {row.upstream : row \in Rows} \cup {Null}

AnswerRecord ==
  [status : Nat, from : Sources, fetcher : Requests \cup {Null}, origin : Upstreams]
RequestRecord ==
  [stage : Stages, call : SomeCalls \cup {Null}, row : Rows \cup {NoRoute}, charged : BOOLEAN,
   sent : Upstreams, seen : SUBSET (Rows \cup {NoRoute}), answer : AnswerRecord]
EntryRecord ==
  [request : Requests, user : Users, route : {row.id : row \in Rows},
   prefix : {row.prefix : row \in Rows}, client : {c.client : c \in SomeCalls},
   status : Nat, hit : BOOLEAN, limited : BOOLEAN, at : Int]
CacheRecord == [status : Nat, origin : Upstreams, fetcher : Requests, expires : BOOLEAN]

Types ==
  /\ registry \in [Paths -> Rows \cup {NoRoute}]
  /\ req \in [Requests -> RequestRecord]
  /\ \A k \in DOMAIN cache : cache[k] \in CacheRecord
  /\ \A k \in DOMAIN inflight : inflight[k] \in Seq(Requests) \ {<<>>}
  /\ buffer \in Seq(EntryRecord) /\ table \in Seq(EntryRecord)
  /\ lost \subseteq EntryRecord /\ IsFiniteSet(lost)
  /\ inserts \in Nat

\* A request has been given a route, and what it has done so far is what that row says.
OnRoute(q) ==
  /\ q.call \in SomeCalls
  /\ q.row \in Rows /\ q.row \in q.seen
  /\ q.charged = q.row.limited
  /\ q.sent \in {q.row.upstream, Null}
  /\ q.stage = "fetching" => q.sent = q.row.upstream
  /\ q.stage = "body" => q.sent = Null

HasRoute(q) ==
  \/ q.stage \in {"body", "fetching", "attached"}
  \/ q.stage = "done" /\ q.row # NoRoute

Routed == \A r \in Requests : HasRoute(req[r]) => OnRoute(req[r])

\* The requests that wait for the fetch of a key, the fetcher first.
Flight(k, s) ==
  /\ Distinct(s)
  /\ \A i \in DOMAIN s :
       /\ req[s[i]].stage = IF i = 1 THEN "fetching" ELSE "attached"
       /\ IsCacheable(req[s[i]].call) /\ CacheKey(req[s[i]].call) = k

Flights ==
  /\ \A k \in DOMAIN inflight : Flight(k, inflight[k])
  /\ \A r \in Requests :
       req[r].stage = "fetching" /\ IsCacheable(req[r].call) =>
         /\ CacheKey(req[r].call) \in DOMAIN inflight
         /\ inflight[CacheKey(req[r].call)][1] = r

\* Request f has fetched, under the key k, what an upstream said.
Fetched(f, k, status, origin) ==
  /\ f \in Proxied
  /\ CacheKey(req[f].call) = k
  /\ req[f].answer.status = status /\ req[f].sent = origin

\* An entry is what such a fetch has left, and lives as the row of that request says.
CachedAs(k, e) ==
  /\ Fetched(e.fetcher, k, e.status, e.origin)
  /\ e.origin = req[e.fetcher].row.upstream
  /\ e.expires <=> TtlArg(req[e.fetcher].row) > 0

Cached == \A k \in DOMAIN cache : CachedAs(k, cache[k])

\* An answer from the cache or from the fetch of another.
SharedFrom(r, answer) ==
  /\ answer.fetcher # r
  /\ Fetched(answer.fetcher, CacheKey(req[r].call), answer.status, answer.origin)

Sharing == \A r \in Shared : SharedFrom(r, req[r].answer)

\* An entry says what its client was told, and by whose route.
Truthful(e) ==
  LET q == req[e.request]
  IN  /\ e.request \in Proxied
      /\ e.user = q.row.owner /\ e.route = q.row.id
      /\ e.status = q.answer.status
      /\ e.hit <=> q.answer.from \in {"HIT", "COALESCED"}
      /\ e.limited <=> q.answer.from = "LIMITER"

\* The requests of the entries, in order.
Of(s) == [i \in DOMAIN s |-> s[i].request]

Recorded == Range(table) \cup Range(buffer) \cup lost

Logs ==
  /\ Len(table) + Len(buffer) + Cardinality(lost) = Cardinality(Proxied)
  /\ Distinct(Of(buffer))
  /\ \A d \in Range(buffer), e \in lost : d.request # e.request
  /\ \A e \in Recorded : Truthful(e)
  /\ \A r \in Proxied : \E e \in Recorded : e.request = r

GatewayInv == Types /\ Routed /\ Flights /\ Cached /\ Sharing /\ Logs

-----------------------------------------------------------------------------
(* The records of requests.                                                *)

LEMMA AnsweredIs ==
  ASSUME NEW q, NEW status, NEW from, NEW f, NEW origin,
         q \in RequestRecord, status \in Nat, from \in Sources,
         f \in Requests \cup {Null}, origin \in Upstreams
  PROVE  LET d == Answered(q, status, from, f, origin)
         IN  /\ d \in RequestRecord
             /\ d.stage = "done" /\ d.call = q.call /\ d.row = q.row
             /\ d.charged = q.charged /\ d.sent = q.sent /\ d.seen = q.seen
             /\ d.answer.status = status /\ d.answer.from = from
             /\ d.answer.fetcher = f /\ d.answer.origin = origin
  BY DEF Answered, RequestRecord, AnswerRecord, Stages

LEMMA StagedIs ==
  ASSUME NEW q, NEW stage, q \in RequestRecord, stage \in Stages
  PROVE  LET d == [q EXCEPT !.stage = stage]
         IN  /\ d \in RequestRecord
             /\ d.stage = stage /\ d.call = q.call /\ d.row = q.row
             /\ d.charged = q.charged /\ d.sent = q.sent /\ d.seen = q.seen
             /\ d.answer = q.answer
  BY DEF RequestRecord

LEMMA ForwardedIs ==
  ASSUME NEW q, q \in RequestRecord, q.row \in Rows
  PROVE  LET d == Forwarded(q)
         IN  /\ d \in RequestRecord
             /\ d.stage = "fetching" /\ d.call = q.call /\ d.row = q.row
             /\ d.charged = q.charged /\ d.sent = q.row.upstream /\ d.seen = q.seen
<1> DEFINE u == q.row.upstream
<1>1. u \in Upstreams
  BY DEF Upstreams
<1>2. Forwarded(q) = [q EXCEPT !.stage = "fetching", !.sent = u]
  BY DEF Forwarded
<1> HIDE DEF u
<1>3. LET d == [q EXCEPT !.stage = "fetching", !.sent = u]
      IN  /\ d \in RequestRecord
          /\ d.stage = "fetching" /\ d.call = q.call /\ d.row = q.row
          /\ d.charged = q.charged /\ d.sent = u /\ d.seen = q.seen
  BY <1>1 DEF RequestRecord, Stages
<1> QED
  BY <1>2, <1>3 DEF u

LEMMA IdleIs ==
  /\ Idle \in RequestRecord /\ Idle.stage = "idle" /\ Idle.row = NoRoute
  /\ Gone \in RequestRecord /\ Gone.stage = "gone" /\ Gone.row = NoRoute
  BY DEF Idle, Gone, NoAnswer, RequestRecord, AnswerRecord, Stages, Sources, Upstreams

LEMMA TakenIs ==
  ASSUME Types, NEW c, c \in SomeCalls, c.path \in Paths, NEW charged \in BOOLEAN
  PROVE  LET d == [Taken(c) EXCEPT !.charged = charged]
         IN  /\ d \in RequestRecord
             /\ d.call = c /\ d.row = registry[c.path] /\ d.row \in d.seen
             /\ d.charged = charged /\ d.sent = Null /\ d.stage = "idle"
<1> DEFINE row == registry[c.path]
<1>1. row \in Rows \cup {NoRoute}
  BY DEF Types
<1> DEFINE t == [Idle EXCEPT !.call = c, !.row = row, !.seen = {row}]
<1>2. Taken(c) = t
  BY DEF Taken
<1> HIDE DEF row
<1>3. /\ t \in RequestRecord /\ t.call = c /\ t.row = row /\ t.seen = {row}
      /\ t.sent = Null /\ t.stage = "idle"
  <2>1. Idle \in RequestRecord /\ Idle.sent = Null /\ Idle.stage = "idle"
    BY IdleIs DEF Idle
  <2> QED
    BY <1>1, <2>1 DEF RequestRecord
<1> HIDE DEF t
<1>4. LET d == [t EXCEPT !.charged = charged]
      IN  /\ d \in RequestRecord
          /\ d.call = c /\ d.row = row /\ d.row \in d.seen
          /\ d.charged = charged /\ d.sent = Null /\ d.stage = "idle"
  BY <1>3 DEF RequestRecord
<1> QED
  BY <1>2, <1>4 DEF row

-----------------------------------------------------------------------------
(* What is over stays as it is.                                            *)

FinalKept == \A r \in Requests : req[r].stage = "done" => req'[r] = req[r]

LEMMA CachedKeeps ==
  ASSUME GatewayInv, FinalKept,
         \A k \in DOMAIN cache' : \/ k \in DOMAIN cache /\ cache'[k] = cache[k]
                                  \/ CachedAs(k, cache[k])'
  PROVE  Cached'
<1> SUFFICES ASSUME NEW k \in DOMAIN cache'
             PROVE  CachedAs(k, cache[k])'
  BY DEF Cached
<1>1. CASE k \in DOMAIN cache /\ cache'[k] = cache[k]
  <2> DEFINE e == cache[k]
  <2>1. CachedAs(k, e) /\ cache'[k] = e
    BY <1>1 DEF GatewayInv, Cached
  <2> HIDE DEF e
  <2>2. e.fetcher \in Requests /\ req'[e.fetcher] = req[e.fetcher]
    BY <2>1 DEF CachedAs, Fetched, Proxied, FinalKept
  <2> QED
    BY <2>1, <2>2 DEF CachedAs, Fetched, Proxied
<1> QED
  BY <1>1

LEMMA SharingKeeps ==
  ASSUME GatewayInv, FinalKept,
         \A r \in Requests :
           req[r].stage # "done" /\ r \in Shared' => SharedFrom(r, req[r].answer)'
  PROVE  Sharing'
<1> SUFFICES ASSUME NEW r \in Shared'
             PROVE  SharedFrom(r, req[r].answer)'
  BY DEF Sharing
<1>1. r \in Requests
  BY DEF Shared, Proxied
<1>2. CASE req[r].stage = "done"
  <2>1. req'[r] = req[r]
    BY <1>1, <1>2 DEF FinalKept
  <2>2. r \in Shared
    BY <2>1 DEF Shared, Proxied
  <2>3. SharedFrom(r, req[r].answer)
    BY <2>2 DEF GatewayInv, Sharing
  <2> QED
    BY <2>1, <2>3 DEF SharedFrom, Fetched, Proxied, FinalKept
<1> QED
  BY <1>1, <1>2

\* The requests of a step that neither begins nor ends a fetch of a key.
LEMMA FlightsKeep ==
  ASSUME GatewayInv, inflight' = inflight,
         \A r \in Requests :
           \/ req'[r].stage = req[r].stage /\ req'[r].call = req[r].call
           \/ /\ req[r].stage \notin {"fetching", "attached"}
              /\ \/ req'[r].stage # "fetching"
                 \/ ~IsCacheable(req'[r].call)
  PROVE  Flights'
<1>1. ASSUME NEW k \in DOMAIN inflight
      PROVE  Flight(k, inflight[k])'
  <2> DEFINE s == inflight[k]
  <2>1. Flight(k, s) /\ s \in Seq(Requests)
    BY DEF GatewayInv, Flights, Types
  <2> HIDE DEF s
  <2>2. \A i \in DOMAIN s : s[i] \in Requests
    BY <2>1
  <2>3. \A i \in DOMAIN s : req'[s[i]].stage = req[s[i]].stage /\ req'[s[i]].call = req[s[i]].call
    BY <2>1, <2>2 DEF Flight
  <2>4. s' = s
    BY DEF s
  <2>5. Flight(k, s)'
    BY <2>1, <2>3, <2>4 DEF Flight
  <2> QED
    BY <2>5 DEF s
<1>2. ASSUME NEW r \in Requests, req'[r].stage = "fetching", IsCacheable(req'[r].call)
      PROVE  /\ CacheKey(req'[r].call) \in DOMAIN inflight
             /\ inflight[CacheKey(req'[r].call)][1] = r
  <2>1. req[r].stage = "fetching" /\ req'[r].call = req[r].call
    BY <1>2
  <2> QED
    BY <1>2, <2>1 DEF GatewayInv, Flights
<1> QED
  BY <1>1, <1>2 DEF Flights

-----------------------------------------------------------------------------
(* The log.                                                                *)

LEMMA OfIs ==
  ASSUME NEW s \in Seq(EntryRecord)
  PROVE  /\ Of(s) \in Seq(Requests) /\ Len(Of(s)) = Len(s) /\ Len(s) \in Nat
         /\ DOMAIN Of(s) = DOMAIN s
         /\ \A i \in DOMAIN s : s[i] \in EntryRecord /\ Of(s)[i] = s[i].request
         /\ \A x : x \in Range(Of(s)) <=> \E e \in Range(s) : e.request = x
<1>1. DOMAIN s = 1 .. Len(s) /\ Len(s) \in Nat /\ s \in [1 .. Len(s) -> EntryRecord]
  OBVIOUS
<1>2. \A i \in DOMAIN s : s[i] \in EntryRecord /\ s[i].request \in Requests
  BY <1>1 DEF EntryRecord
<1>3. /\ Of(s) \in [1 .. Len(s) -> Requests]
      /\ \A i \in DOMAIN s : Of(s)[i] = s[i].request
  BY <1>2, <1>1 DEF Of
<1>4. Of(s) \in Seq(Requests) /\ Len(Of(s)) = Len(s)
  BY <1>1, <1>3
<1>5. \A x : x \in Range(Of(s)) <=> \E e \in Range(s) : e.request = x
  BY <1>1, <1>3 DEF Range
<1> QED
  BY <1>2, <1>1, <1>3, <1>4, <1>5

LEMMA OfConcat ==
  ASSUME NEW s \in Seq(EntryRecord), NEW t \in Seq(EntryRecord)
  PROVE  Of(s \o t) = Of(s) \o Of(t)
<1> DEFINE u == s \o t
<1>1. /\ u \in Seq(EntryRecord)
      /\ Len(s) \in Nat /\ Len(t) \in Nat
      /\ DOMAIN s = 1 .. Len(s) /\ DOMAIN t = 1 .. Len(t)
      /\ DOMAIN u = 1 .. (Len(s) + Len(t))
      /\ \A i \in 1 .. (Len(s) + Len(t)) :
           u[i] = IF i \in 1 .. Len(s) THEN s[i] ELSE t[i - Len(s)]
  OBVIOUS
<1> HIDE DEF u
<1>2. /\ Of(s) \in Seq(Requests) /\ Of(t) \in Seq(Requests)
      /\ Len(Of(s)) = Len(s) /\ Len(Of(t)) = Len(t)
      /\ \A i \in DOMAIN s : Of(s)[i] = s[i].request
      /\ \A i \in DOMAIN t : Of(t)[i] = t[i].request
  BY OfIs
<1>3. Of(u) = [i \in 1 .. (Len(s) + Len(t)) |-> u[i].request]
  BY <1>1 DEF Of
<1> DEFINE a == Of(s)
           b == Of(t)
           v == a \o b
<1>4. /\ v \in Seq(Requests) /\ DOMAIN v = 1 .. (Len(s) + Len(t))
      /\ \A i \in 1 .. (Len(s) + Len(t)) :
           v[i] = IF i \in 1 .. Len(s) THEN a[i] ELSE b[i - Len(s)]
  <2> HIDE DEF a, b
  <2> QED
    BY <1>1, <1>2 DEF a, b
<1>5. v \in [1 .. (Len(s) + Len(t)) -> Requests]
  <2> HIDE DEF v
  <2> QED
    BY <1>4
<1> HIDE DEF a, b, v
<1>6. \A i \in 1 .. (Len(s) + Len(t)) :
        /\ i \in 1 .. Len(s) => i \in DOMAIN s
        /\ i \notin 1 .. Len(s) => i - Len(s) \in DOMAIN t
  BY <1>1
<1>7. \A i \in 1 .. (Len(s) + Len(t)) : u[i].request = v[i]
  BY <1>1, <1>2, <1>4, <1>6 DEF a, b
<1> QED
  BY <1>3, <1>5, <1>7 DEF u, v, a, b

LEMMA ProxiedFinite ==
  /\ IsFiniteSet(Requests) /\ IsFiniteSet(Proxied) /\ Cardinality(Proxied) \in Nat
<1>1. IsFiniteSet(Requests)
  <2>1. IsFiniteSet(1 .. Len(Calls))
    <3>1. 1 \in Int /\ Len(Calls) \in Int
      BY CallsAssumption
    <3> QED
      BY <3>1, FS_Interval
  <2> QED
    BY <2>1, CallsAssumption
<1>2. Proxied \in SUBSET Requests
  BY DEF Proxied
<1> QED
  BY <1>1, <1>2, FS_Subset, FS_CardinalityType

\* Requests are answered, and an entry is logged for each.
LEMMA LogsGrow ==
  ASSUME GatewayInv, FinalKept, NEW s \in Seq(EntryRecord),
         buffer' = buffer \o s, UNCHANGED <<table, lost>>,
         Distinct(Of(s)),
         \A r \in Requests :
           req[r].stage # "done" => (r \in Proxied' <=> r \in Range(Of(s))),
         \A e \in Range(s) : Truthful(e)' /\ req[e.request].stage # "done"
  PROVE  Logs'
<1>1. Types /\ Logs /\ buffer \in Seq(EntryRecord)
  BY DEF GatewayInv, Types
<1>2. \A e \in Recorded : e.request \in Proxied
  BY <1>1 DEF Logs, Truthful
<1>3. \A x : x \in Range(Of(s)) <=> \E e \in Range(s) : e.request = x
  BY OfIs
<1>4. \A x : x \in Range(Of(buffer)) <=> \E e \in Range(buffer) : e.request = x
  BY <1>1, OfIs
<1>5. \A e : e \in Range(buffer') <=> e \in Range(buffer) \/ e \in Range(s)
  BY <1>1, RangeConcat
<1>6. \A x : x \in Range(Of(s)) => /\ x \in Requests /\ x \notin Proxied
                                  /\ req[x].stage # "done"
  BY <1>3, OfIs DEF Truthful, Proxied
<1>7. Proxied' = Proxied \cup Range(Of(s)) /\ Proxied \cap Range(Of(s)) = {}
  <2>1. \A r \in Requests : req[r].stage = "done" => (r \in Proxied' <=> r \in Proxied)
    BY DEF FinalKept, Proxied
  <2>2. \A r \in Requests : r \in Proxied => req[r].stage = "done"
    BY DEF Proxied
  <2>3. Proxied \subseteq Requests /\ Proxied' \subseteq Requests
    BY DEF Proxied
  <2>4. \A r \in Requests : r \in Proxied' <=> r \in Proxied \/ r \in Range(Of(s))
    BY <2>1, <2>2, <1>6
  <2> QED
    BY <1>6, <2>3, <2>4
<1>8. /\ IsFiniteSet(Range(Of(s))) /\ Cardinality(Range(Of(s))) = Len(s) /\ Len(s) \in Nat
  BY OfIs, DistinctLen
<1>9. Cardinality(Proxied') = Cardinality(Proxied) + Len(s)
  <2>1. Cardinality(Proxied \cup Range(Of(s))) =
          Cardinality(Proxied) + Cardinality(Range(Of(s))) - Cardinality(Proxied \cap Range(Of(s)))
    BY <1>8, ProxiedFinite, FS_Union
  <2>2. Cardinality(Proxied \cap Range(Of(s))) = 0
    BY <1>7, FS_EmptySet
  <2> QED
    BY <1>7, <1>8, <2>1, <2>2, ProxiedFinite
<1>10. Len(table) + Len(buffer') + Cardinality(lost) = Cardinality(Proxied')
  <2>1. Len(buffer') = Len(buffer) + Len(s)
    BY <1>1
  <2>2. Len(table) \in Nat /\ Len(buffer) \in Nat /\ Cardinality(lost) \in Nat
    BY <1>1, FS_CardinalityType DEF Types
  <2> QED
    BY <1>1, <1>8, <1>9, <2>1, <2>2, ProxiedFinite DEF Logs
<1>11. Distinct(Of(buffer'))
  <2>1. Of(buffer') = Of(buffer) \o Of(s)
    BY <1>1, OfConcat
  <2>2. \A x : x \in Range(Of(buffer)) => x \notin Range(Of(s))
    BY <1>2, <1>4, <1>6 DEF Recorded
  <2>3. Of(buffer) \in Seq(Requests) /\ Of(s) \in Seq(Requests) /\ Distinct(Of(buffer))
    BY <1>1, OfIs DEF Logs
  <2> QED
    BY <2>1, <2>2, <2>3, DistinctConcat
<1>12. \A d \in Range(buffer'), e \in lost : d.request # e.request
  BY <1>1, <1>2, <1>3, <1>5, <1>6 DEF Logs, Recorded
<1>13. \A e : e \in Recorded' <=> e \in Recorded \/ e \in Range(s)
  BY <1>5 DEF Recorded
<1>14. ASSUME NEW e \in Recorded'
       PROVE  Truthful(e)'
  <2>1. CASE e \in Recorded
    BY <1>1, <2>1 DEF Logs, Truthful, Proxied, FinalKept
  <2> QED
    BY <1>13, <2>1
<1>15. \A r \in Proxied' : \E e \in Recorded' : e.request = r
  BY <1>1, <1>3, <1>7, <1>13 DEF Logs
<1> QED
  BY <1>10, <1>11, <1>12, <1>14, <1>15 DEF Logs

\* Nobody is answered.
LEMMA LogsKeep ==
  ASSUME GatewayInv, FinalKept, UNCHANGED <<buffer, table, lost>>,
         \A r \in Requests : req[r].stage # "done" => r \notin Proxied'
  PROVE  Logs'
<1>1. <<>> \in Seq(EntryRecord) /\ Range(<<>>) = {} /\ Of(<<>>) = <<>> /\ Distinct(Of(<<>>))
  BY DEF Of, Range, Distinct
<1>2. buffer' = buffer \o <<>>
  BY DEF GatewayInv, Types
<1> QED
  BY <1>1, <1>2, LogsGrow

-----------------------------------------------------------------------------
(* A step of one request, other than the end of a fetch.                   *)

LEMMA EntryIs ==
  ASSUME NEW r \in Requests, NEW d, d \in RequestRecord, OnRoute(d)
  PROVE  LET e == Entry(r, d)
         IN  /\ e \in EntryRecord
             /\ e.request = r /\ e.user = d.row.owner /\ e.route = d.row.id
             /\ e.status = d.answer.status
             /\ e.hit <=> d.answer.from \in {"HIT", "COALESCED"}
             /\ e.limited <=> d.answer.from = "LIMITER"
<1> DEFINE user == d.row.owner
           route == d.row.id
           prefix == d.row.prefix
           client == d.call.client
           status == d.answer.status
           hit == d.answer.from \in {"HIT", "COALESCED"}
           limited == d.answer.from = "LIMITER"
<1>1. /\ user \in Users /\ route \in {row.id : row \in Rows}
      /\ prefix \in {row.prefix : row \in Rows} /\ client \in {c.client : c \in SomeCalls}
  BY RowsAssumption DEF OnRoute
<1>2. d.answer \in AnswerRecord
  BY DEF RequestRecord
<1>3. status \in Nat /\ hit \in BOOLEAN /\ limited \in BOOLEAN
  BY <1>2 DEF AnswerRecord
<1>4. Entry(r, d) =
        [request |-> r, user |-> user, route |-> route, prefix |-> prefix,
         client |-> client, status |-> status, hit |-> hit, limited |-> limited, at |-> Null]
  BY DEF Entry
<1> HIDE DEF user, route, prefix, client, status, hit, limited
<1>5. LET e == Entry(r, d)
      IN  /\ e \in EntryRecord
          /\ e.request = r /\ e.user = user /\ e.route = route
          /\ e.status = status /\ e.hit = hit /\ e.limited = limited
  BY <1>1, <1>3, <1>4 DEF EntryRecord, Null
<1> QED
  BY <1>5 DEF user, route, prefix, client, status, hit, limited

LEMMA OneKeeps ==
  ASSUME GatewayInv, NEW r \in Requests, NEW d, d \in RequestRecord,
         req[r].stage \in {"idle", "body"}, req' = [req EXCEPT ![r] = d],
         HasRoute(d) => OnRoute(d),
         buffer' = IF d.stage = "done" /\ d.row # NoRoute
                   THEN Append(buffer, Entry(r, d)) ELSE buffer,
         d.stage = "done" /\ d.answer.from \in {"HIT", "COALESCED"} =>
           /\ d.answer.fetcher # r
           /\ Fetched(d.answer.fetcher, CacheKey(d.call), d.answer.status, d.answer.origin),
         Flights', \A k \in DOMAIN inflight' : inflight'[k] \in Seq(Requests) \ {<<>>},
         UNCHANGED <<registry, cache, table, lost, inserts>>
  PROVE  GatewayInv'
<1>1. Types /\ \A w \in Requests : req'[w] = IF w = r THEN d ELSE req[w]
  BY DEF GatewayInv, Types
<1>2. FinalKept
  BY <1>1 DEF FinalKept
<1>3. d.stage = "done" /\ d.row # NoRoute =>
        LET e == Entry(r, d)
        IN  /\ e \in EntryRecord
            /\ e.request = r /\ e.user = d.row.owner /\ e.route = d.row.id
            /\ e.status = d.answer.status
            /\ e.hit <=> d.answer.from \in {"HIT", "COALESCED"}
            /\ e.limited <=> d.answer.from = "LIMITER"
  BY EntryIs DEF HasRoute
<1>4. Types'
  <2>1. req' \in [Requests -> RequestRecord]
    BY <1>1 DEF Types
  <2>2. buffer' \in Seq(EntryRecord)
    BY <1>1, <1>3 DEF Types
  <2> QED
    BY <1>1, <2>1, <2>2 DEF Types
<1>5. Routed'
  BY <1>1 DEF GatewayInv, Routed, HasRoute, OnRoute
<1>6. Cached'
  BY <1>2, CachedKeeps
<1>7. Sharing'
  <2>1. ASSUME r \in Shared'
        PROVE  SharedFrom(r, req[r].answer)'
    <3>1. req'[r] = d /\ d.stage = "done" /\ d.answer.from \in {"HIT", "COALESCED"}
      BY <1>1, <2>1 DEF Shared, Proxied
    <3>2. /\ d.answer.fetcher # r
          /\ Fetched(d.answer.fetcher, CacheKey(d.call), d.answer.status, d.answer.origin)
      BY <3>1
    <3> QED
      BY <1>2, <3>1, <3>2 DEF SharedFrom, Fetched, Proxied, FinalKept
  <2>2. \A w \in Requests : req[w].stage # "done" /\ w \in Shared' => w = r
    BY <1>1 DEF Shared, Proxied
  <2> QED
    BY <1>2, <2>1, <2>2, SharingKeeps
<1>8. Logs'
  <2>1. CASE d.stage = "done" /\ d.row # NoRoute
    <3> DEFINE e == Entry(r, d)
               s == <<e>>
    <3>1. e \in EntryRecord /\ e.request = r
      BY <1>3, <2>1
    <3>2. Truthful(e)'
      BY <1>1, <1>3, <2>1 DEF Truthful, Proxied
    <3>3. buffer' = Append(buffer, e)
      BY <2>1
    <3> HIDE DEF e
    <3>4. s \in Seq(EntryRecord) /\ buffer' = buffer \o s
      <4>1. buffer \in Seq(EntryRecord)
        BY <1>1 DEF Types
      <4> QED
        BY <3>1, <3>3, <4>1
    <3>5. /\ \A x \in Range(s) : x = e
          /\ Distinct(Of(s)) /\ \A x : x \in Range(Of(s)) <=> x = r
      BY <3>1 DEF Of, Range, Distinct
    <3> HIDE DEF s
    <3>6. \A w \in Requests : req[w].stage # "done" => (w \in Proxied' <=> w \in Range(Of(s)))
      BY <1>1, <2>1, <3>5 DEF Proxied
    <3>7. \A x \in Range(s) : Truthful(x)' /\ req[x.request].stage # "done"
      BY <3>1, <3>2, <3>5
    <3> QED
      BY <1>2, <3>4, <3>5, <3>6, <3>7, LogsGrow
  <2>2. CASE ~(d.stage = "done" /\ d.row # NoRoute)
    <3>1. \A w \in Requests : req[w].stage # "done" => w \notin Proxied'
      BY <1>1, <2>2 DEF Proxied
    <3> QED
      BY <1>2, <2>2, <3>1, LogsKeep
  <2> QED
    BY <2>1, <2>2
<1> QED
  BY <1>4, <1>5, <1>6, <1>7, <1>8 DEF GatewayInv

-----------------------------------------------------------------------------
(* getOrFetch.                                                             *)

\* A request that is given to getOrFetch.
Ready(q) == q \in RequestRecord /\ OnRoute(q) /\ q.sent = Null

Unmoved == UNCHANGED <<registry, table, inserts, lost, changes, restarts>>

LEMMA ForwardedOnRoute ==
  ASSUME NEW q, Ready(q)
  PROVE  LET d == Forwarded(q)
         IN  /\ d \in RequestRecord /\ OnRoute(d)
             /\ d.stage = "fetching" /\ d.call = q.call /\ d.row = q.row
<1> DEFINE d == Forwarded(q)
<1>1. /\ d \in RequestRecord
      /\ d.stage = "fetching" /\ d.call = q.call /\ d.row = q.row
      /\ d.charged = q.charged /\ d.sent = q.row.upstream /\ d.seen = q.seen
  BY ForwardedIs DEF Ready, OnRoute
<1> HIDE DEF d
<1>2. OnRoute(d)
  BY <1>1 DEF Ready, OnRoute
<1> QED
  BY <1>1, <1>2 DEF d

LEMMA BypassKeeps ==
  ASSUME GatewayInv, NEW r \in Requests, NEW q, Ready(q), req[r].stage \in {"idle", "body"},
         Bypass(r, q), Unmoved
  PROVE  GatewayInv'
<1> DEFINE d == Forwarded(q)
<1>1. /\ d \in RequestRecord /\ OnRoute(d)
      /\ d.stage = "fetching" /\ d.call = q.call /\ d.row = q.row
  BY ForwardedOnRoute
<1>2. /\ req' = [req EXCEPT ![r] = d] /\ UNCHANGED <<caching, buffer>> /\ ~IsCacheable(q.call)
  BY DEF Bypass, Note
<1> HIDE DEF d
<1>3. \A w \in Requests : req'[w] = IF w = r THEN d ELSE req[w]
  BY <1>2 DEF GatewayInv, Types
<1>4. Flights'
  BY <1>1, <1>2, <1>3, FlightsKeep DEF caching
<1> QED
  BY <1>1, <1>2, <1>4, OneKeeps DEF Unmoved, caching, GatewayInv, Types

LEMMA HitKeeps ==
  ASSUME GatewayInv, NEW r \in Requests, NEW q, Ready(q), req[r].stage \in {"idle", "body"},
         Hit(r, q), Unmoved
  PROVE  GatewayInv'
<1> DEFINE k == CacheKey(q.call)
           e == cache[k]
           d == Answered(q, e.status, "HIT", e.fetcher, e.origin)
<1>1. k \in DOMAIN cache /\ e \in CacheRecord /\ CachedAs(k, e)
  BY DEF Hit, GatewayInv, Types, Cached
<1>2. e.status \in Nat /\ e.fetcher \in Requests \cup {Null} /\ e.origin \in Upstreams
  BY <1>1 DEF CacheRecord
<1>3. /\ req' = [req EXCEPT ![r] = d] /\ buffer' = Append(buffer, Entry(r, d))
      /\ UNCHANGED <<cache, inflight>>
  BY DEF Hit, EndAndLog, Note
<1>4. Fetched(e.fetcher, k, e.status, e.origin) /\ e.fetcher # r
  BY <1>1 DEF CachedAs, Fetched, Proxied
<1> HIDE DEF e
<1>5. /\ d \in RequestRecord
      /\ d.stage = "done" /\ d.call = q.call /\ d.row = q.row
      /\ d.charged = q.charged /\ d.sent = q.sent /\ d.seen = q.seen
      /\ d.answer.status = e.status /\ d.answer.from = "HIT"
      /\ d.answer.fetcher = e.fetcher /\ d.answer.origin = e.origin
  BY <1>2, AnsweredIs DEF Ready, Sources
<1> HIDE DEF d
<1>6. OnRoute(d) /\ d.row # NoRoute
  BY <1>5, RowsAssumption DEF Ready, OnRoute
<1>7. \A w \in Requests : req'[w] = IF w = r THEN d ELSE req[w]
  BY <1>3 DEF GatewayInv, Types
<1>8. Flights'
  BY <1>3, <1>5, <1>7, FlightsKeep
<1>9. Fetched(d.answer.fetcher, CacheKey(d.call), d.answer.status, d.answer.origin)
  BY <1>4, <1>5
<1>10. \A j \in DOMAIN inflight' : inflight'[j] \in Seq(Requests) \ {<<>>}
  BY <1>3 DEF GatewayInv, Types
<1> QED
  BY <1>3, <1>4, <1>5, <1>6, <1>8, <1>9, <1>10, OneKeeps DEF Unmoved

\* A flight that this request is no part of.
LEMMA FlightAside ==
  ASSUME GatewayInv, NEW r \in Requests, req[r].stage \in {"idle", "body"},
         NEW d, req' = [req EXCEPT ![r] = d], NEW k \in DOMAIN inflight
  PROVE  LET s == inflight[k]
         IN  /\ s \in Seq(Requests) /\ s # <<>> /\ Flight(k, s)
             /\ \A i \in DOMAIN s : /\ s[i] \in Requests /\ s[i] # r
                                    /\ req'[s[i]] = req[s[i]]
<1> DEFINE s == inflight[k]
<1>1. s \in Seq(Requests) /\ s # <<>> /\ Flight(k, s) /\ req \in [Requests -> RequestRecord]
  BY DEF GatewayInv, Types, Flights
<1> HIDE DEF s
<1>2. \A i \in DOMAIN s : s[i] \in Requests
  BY <1>1
<1>3. \A i \in DOMAIN s : s[i] # r
  BY <1>1 DEF Flight
<1> QED
  BY <1>1, <1>2, <1>3 DEF s

LEMMA AttachKeeps ==
  ASSUME GatewayInv, NEW r \in Requests, NEW q, Ready(q), req[r].stage \in {"idle", "body"},
         Attach(r, q), Unmoved
  PROVE  GatewayInv'
<1> DEFINE k == CacheKey(q.call)
           d == [q EXCEPT !.stage = "attached"]
           s == inflight[k]
           t == Append(s, r)
<1>1. /\ k \in DOMAIN inflight /\ IsCacheable(q.call)
      /\ req' = [req EXCEPT ![r] = d] /\ inflight' = [inflight EXCEPT ![k] = t]
      /\ UNCHANGED <<cache, buffer>>
  BY DEF Attach, Note
<1>2. /\ d \in RequestRecord
      /\ d.stage = "attached" /\ d.call = q.call /\ d.row = q.row
      /\ d.charged = q.charged /\ d.sent = q.sent /\ d.seen = q.seen /\ d.answer = q.answer
  BY StagedIs DEF Ready, Stages
<1> HIDE DEF d
<1>3. OnRoute(d)
  BY <1>2 DEF Ready, OnRoute
<1>4. \A w \in Requests : req'[w] = IF w = r THEN d ELSE req[w]
  BY <1>1 DEF GatewayInv, Types
<1>5. /\ s \in Seq(Requests) /\ s # <<>> /\ Flight(k, s)
      /\ \A i \in DOMAIN s : s[i] \in Requests /\ s[i] # r /\ req'[s[i]] = req[s[i]]
  BY <1>1, FlightAside
<1> HIDE DEF k, s
<1>6. /\ t \in Seq(Requests) /\ t # <<>> /\ Len(s) \in Nat \ {0}
      /\ DOMAIN s = 1 .. Len(s) /\ DOMAIN t = 1 .. Len(s) + 1
      /\ \A i \in 1 .. Len(s) : t[i] = s[i]
      /\ t[Len(s) + 1] = r
  BY <1>5
<1> HIDE DEF t
<1>7. ASSUME NEW i \in DOMAIN t
      PROVE  \/ i \in DOMAIN s /\ t[i] = s[i] /\ s[i] # r
             \/ i = Len(s) + 1 /\ i # 1 /\ t[i] = r
  BY <1>5, <1>6
<1>8. Distinct(t)
  BY <1>5, <1>7 DEF Distinct, Flight
<1>9. ASSUME NEW i \in DOMAIN t
      PROVE  /\ req'[t[i]].stage = IF i = 1 THEN "fetching" ELSE "attached"
             /\ IsCacheable(req'[t[i]].call) /\ CacheKey(req'[t[i]].call) = k
  <2>1. CASE i \in DOMAIN s /\ t[i] = s[i]
    BY <1>5, <2>1 DEF Flight
  <2>2. CASE i # 1 /\ t[i] = r
    BY <1>1, <1>2, <1>4, <2>2 DEF k
  <2> QED
    BY <1>7, <2>1, <2>2
<1>10. ASSUME NEW j \in DOMAIN inflight
       PROVE  Flight(j, inflight[j])' /\ inflight'[j] \in Seq(Requests) \ {<<>>}
  <2>1. CASE j = k
    <3>1. inflight'[j] = t
      BY <1>1, <2>1
    <3> QED
      BY <1>6, <1>8, <1>9, <2>1, <3>1 DEF Flight
  <2>2. CASE j # k
    <3> DEFINE u == inflight[j]
    <3>1. /\ u \in Seq(Requests) /\ u # <<>> /\ Flight(j, u)
          /\ \A i \in DOMAIN u : req'[u[i]] = req[u[i]]
      BY <1>1, FlightAside
    <3>2. inflight'[j] = u
      BY <1>1, <2>2
    <3> HIDE DEF u
    <3> QED
      BY <3>1, <3>2 DEF Flight
  <2> QED
    BY <2>1, <2>2
<1>11. Flights'
  <2>1. DOMAIN inflight' = DOMAIN inflight
    BY <1>1
  <2>2. ASSUME NEW w \in Requests, req'[w].stage = "fetching", IsCacheable(req'[w].call)
        PROVE  /\ CacheKey(req'[w].call) \in DOMAIN inflight
               /\ inflight'[CacheKey(req'[w].call)][1] = w
    <3>1. req'[w] = req[w]
      BY <1>2, <1>4, <2>2
    <3>2. /\ CacheKey(req[w].call) \in DOMAIN inflight
          /\ inflight[CacheKey(req[w].call)][1] = w
      BY <2>2, <3>1 DEF GatewayInv, Flights
    <3>3. t[1] = s[1]
      BY <1>6
    <3> QED
      BY <1>1, <3>1, <3>2, <3>3 DEF s
  <2> QED
    BY <1>10, <2>1, <2>2 DEF Flights
<1>12. \A j \in DOMAIN inflight' : inflight'[j] \in Seq(Requests) \ {<<>>}
  BY <1>1, <1>10
<1> QED
  BY <1>1, <1>2, <1>3, <1>11, <1>12, OneKeeps DEF Unmoved

LEMMA FetchKeeps ==
  ASSUME GatewayInv, NEW r \in Requests, NEW q, Ready(q), req[r].stage \in {"idle", "body"},
         Fetch(r, q), Unmoved
  PROVE  GatewayInv'
<1> DEFINE k == CacheKey(q.call)
           d == Forwarded(q)
           s == <<r>>
<1>1. /\ IsCacheable(q.call) /\ k \notin DOMAIN inflight
      /\ req' = [req EXCEPT ![r] = d]
      /\ inflight' = [j \in DOMAIN inflight \cup {k} |-> IF j = k THEN s ELSE inflight[j]]
      /\ UNCHANGED <<cache, buffer>>
  BY DEF Fetch, Note
<1>2. /\ d \in RequestRecord /\ OnRoute(d)
      /\ d.stage = "fetching" /\ d.call = q.call /\ d.row = q.row
  BY ForwardedOnRoute
<1> HIDE DEF d
<1>3. \A w \in Requests : req'[w] = IF w = r THEN d ELSE req[w]
  BY <1>1 DEF GatewayInv, Types
<1>4. /\ DOMAIN inflight' = DOMAIN inflight \cup {k} /\ inflight'[k] = s
      /\ \A j \in DOMAIN inflight : j # k /\ inflight'[j] = inflight[j]
  BY <1>1
<1>5. s \in Seq(Requests) \ {<<>>} /\ DOMAIN s = {1} /\ s[1] = r
  OBVIOUS
<1> HIDE DEF s
<1>6. Flight(k, s)'
  BY <1>1, <1>2, <1>3, <1>5 DEF Flight, Distinct, s
<1> HIDE DEF k
<1>7. ASSUME NEW j \in DOMAIN inflight
      PROVE  Flight(j, inflight[j])' /\ inflight'[j] \in Seq(Requests) \ {<<>>}
  <2> DEFINE u == inflight[j]
  <2>1. /\ u \in Seq(Requests) /\ u # <<>> /\ Flight(j, u)
        /\ \A i \in DOMAIN u : req'[u[i]] = req[u[i]]
    BY <1>1, FlightAside
  <2>2. inflight'[j] = u
    BY <1>4
  <2> HIDE DEF u
  <2> QED
    BY <2>1, <2>2 DEF Flight
<1>8. ASSUME NEW j \in DOMAIN inflight'
      PROVE  Flight(j, inflight[j])' /\ inflight'[j] \in Seq(Requests) \ {<<>>}
  <2>1. CASE j = k
    <3>1. Flight(j, s)' /\ inflight'[j] = s
      BY <1>4, <1>6, <2>1
    <3> QED
      BY <1>5, <3>1 DEF Flight, s
  <2> QED
    BY <1>4, <1>7, <2>1
<1>9. Flights'
  <2>1. ASSUME NEW w \in Requests, req'[w].stage = "fetching", IsCacheable(req'[w].call)
        PROVE  /\ CacheKey(req'[w].call) \in DOMAIN inflight'
               /\ inflight'[CacheKey(req'[w].call)][1] = w
    <3>1. CASE w = r
      BY <1>2, <1>3, <1>4, <1>5, <3>1 DEF k
    <3>2. CASE w # r
      <4>1. req'[w] = req[w]
        BY <1>3, <3>2
      <4>2. /\ CacheKey(req[w].call) \in DOMAIN inflight
            /\ inflight[CacheKey(req[w].call)][1] = w
        BY <2>1, <4>1 DEF GatewayInv, Flights
      <4> QED
        BY <1>4, <4>1, <4>2
    <3> QED
      BY <3>1, <3>2
  <2> QED
    BY <1>8, <2>1 DEF Flights
<1> QED
  BY <1>1, <1>2, <1>8, <1>9, OneKeeps DEF Unmoved

LEMMA GetOrFetchKeeps ==
  ASSUME GatewayInv, NEW r \in Requests, NEW q, Ready(q), req[r].stage \in {"idle", "body"},
         GetOrFetch(r, q), Unmoved
  PROVE  GatewayInv'
  BY BypassKeeps, HitKeeps, AttachKeeps, FetchKeeps DEF GetOrFetch

-----------------------------------------------------------------------------
(* The request comes and is answered at once, or goes on.                  *)

LEMMA ArriveKeeps ==
  ASSUME GatewayInv, NEW r \in Requests, NEW c \in Calls[r], Arrive(r, c)
  PROVE  GatewayInv'
<1>1. /\ req[r].stage = "idle" /\ Unmoved
      /\ c \in SomeCalls /\ c.path \in Paths
  BY CallsAssumption DEF Arrive, IsNext, Unmoved, SomeCalls
<1>2. Types /\ registry[c.path] \in Rows \cup {NoRoute}
  BY <1>1 DEF GatewayInv, Types
\* An answer to a request that has no route.
<1>3. ASSUME NEW status \in Nat, NEW from \in {"errorHandler", "fallback"},
             Note(r, AnsweredHere(Idle, status, from)), UNCHANGED <<caching, buffer>>
      PROVE  GatewayInv'
  <2> DEFINE d == AnsweredHere(Idle, status, from)
  <2>1. /\ d \in RequestRecord
        /\ d.stage = "done" /\ d.row = NoRoute /\ d.answer.from = from
    BY IdleIs, AnsweredIs DEF AnsweredHere, Sources, Upstreams
  <2>2. req' = [req EXCEPT ![r] = d]
    BY <1>3 DEF Note
  <2> HIDE DEF d
  <2>3. \A w \in Requests : req'[w] = IF w = r THEN d ELSE req[w]
    BY <1>2, <2>2 DEF Types
  <2>4. Flights'
    BY <1>1, <1>3, <2>1, <2>3, FlightsKeep DEF caching
  <2>5. ~HasRoute(d)
    BY <2>1 DEF HasRoute
  <2>6. \A k \in DOMAIN inflight' : inflight'[k] \in Seq(Requests) \ {<<>>}
    BY <1>2, <1>3 DEF caching, Types
  <2> QED
    BY <1>1, <1>3, <2>1, <2>2, <2>4, <2>5, <2>6, OneKeeps DEF Unmoved, caching
<1>4. CASE Unparsable(r, c) \/ Unrouted(r, c)
  BY <1>3, <1>4 DEF Unparsable, Unrouted
<1>5. CASE Refused(r, c)
  <2> DEFINE q == [Taken(c) EXCEPT !.charged = TRUE]
             d == AnsweredHere(q, 429, "LIMITER")
  <2>1. /\ registry[c.path] \in Rows /\ registry[c.path].limited
        /\ req' = [req EXCEPT ![r] = d] /\ buffer' = Append(buffer, Entry(r, d))
        /\ UNCHANGED caching
    BY <1>2, <1>5 DEF Refused, EndAndLog, Note
  <2>2. /\ q \in RequestRecord
        /\ q.call = c /\ q.row = registry[c.path] /\ q.row \in q.seen
        /\ q.charged = TRUE /\ q.sent = Null /\ q.stage = "idle"
    BY <1>1, <1>2, TakenIs
  <2> HIDE DEF q
  <2>3. /\ d \in RequestRecord
        /\ d.stage = "done" /\ d.call = q.call /\ d.row = q.row
        /\ d.charged = q.charged /\ d.sent = q.sent /\ d.seen = q.seen
        /\ d.answer.from = "LIMITER"
    BY <2>2, AnsweredIs DEF AnsweredHere, Sources, Upstreams
  <2> HIDE DEF d
  <2>4. OnRoute(d) /\ d.row # NoRoute
    BY <1>1, <2>1, <2>2, <2>3, RowsAssumption DEF OnRoute
  <2>5. \A w \in Requests : req'[w] = IF w = r THEN d ELSE req[w]
    BY <1>2, <2>1 DEF Types
  <2>6. Flights'
    BY <1>1, <2>1, <2>3, <2>5, FlightsKeep DEF caching
  <2>7. \A k \in DOMAIN inflight' : inflight'[k] \in Seq(Requests) \ {<<>>}
    BY <1>2, <2>1 DEF caching, Types
  <2> QED
    BY <1>1, <2>1, <2>3, <2>4, <2>6, <2>7, OneKeeps DEF Unmoved, caching
<1>6. CASE Admitted(r, c)
  <2> DEFINE q == [Taken(c) EXCEPT !.charged = registry[c.path].limited]
  <2>1. registry[c.path] \in Rows /\ registry[c.path].limited \in BOOLEAN
    BY <1>2, <1>6, RowsAssumption DEF Admitted
  <2>2. /\ q \in RequestRecord
        /\ q.call = c /\ q.row = registry[c.path] /\ q.row \in q.seen
        /\ q.charged = registry[c.path].limited /\ q.sent = Null /\ q.stage = "idle"
    BY <1>1, <1>2, <2>1, TakenIs
  <2>3. IF c.body = "json"
        THEN GetOrFetch(r, q)
        ELSE Note(r, [q EXCEPT !.stage = "body"]) /\ UNCHANGED <<caching, buffer>>
    BY <1>6 DEF Admitted
  <2> HIDE DEF q
  <2>4. Ready(q)
    BY <1>1, <2>1, <2>2 DEF Ready, OnRoute
  <2>5. CASE c.body = "json"
    BY <1>1, <2>3, <2>4, <2>5, GetOrFetchKeeps
  <2>6. CASE c.body # "json"
    <3> DEFINE d == [q EXCEPT !.stage = "body"]
    <3>1. /\ d \in RequestRecord
          /\ d.stage = "body" /\ d.call = q.call /\ d.row = q.row
          /\ d.charged = q.charged /\ d.sent = q.sent /\ d.seen = q.seen
      BY <2>2, StagedIs DEF Stages
    <3>2. req' = [req EXCEPT ![r] = d] /\ UNCHANGED <<caching, buffer>>
      BY <2>3, <2>6 DEF Note
    <3> HIDE DEF d
    <3>3. OnRoute(d)
      BY <2>4, <3>1 DEF Ready, OnRoute
    <3>4. \A w \in Requests : req'[w] = IF w = r THEN d ELSE req[w]
      BY <1>2, <3>2 DEF Types
    <3>5. Flights'
      BY <1>1, <3>1, <3>2, <3>4, FlightsKeep DEF caching
    <3>6. \A k \in DOMAIN inflight' : inflight'[k] \in Seq(Requests) \ {<<>>}
      BY <1>2, <3>2 DEF caching, Types
    <3> QED
      BY <1>1, <3>1, <3>2, <3>3, <3>5, <3>6, OneKeeps DEF Unmoved, caching
  <2> QED
    BY <2>5, <2>6
<1> QED
  BY <1>4, <1>5, <1>6 DEF Arrive

LEMMA EndOfBodyKeeps ==
  ASSUME GatewayInv, NEW r \in Requests, EndOfBody(r)
  PROVE  GatewayInv'
<1>1. req[r].stage = "body" /\ GetOrFetch(r, req[r]) /\ Unmoved
  BY DEF EndOfBody, Unmoved
<1>2. Ready(req[r])
  BY <1>1 DEF GatewayInv, Types, Routed, HasRoute, OnRoute, Ready
<1> QED
  BY <1>1, <1>2, GetOrFetchKeeps

LEMMA AbortKeeps ==
  ASSUME GatewayInv, NEW r \in Requests, Abort(r)
  PROVE  GatewayInv'
<1>1. /\ req[r].stage = "body" /\ req' = [req EXCEPT ![r] = Gone]
      /\ UNCHANGED <<registry, caching, logger>>
  BY DEF Abort, Note
<1>2. /\ Gone \in RequestRecord /\ Gone.stage = "gone" /\ Gone.row = NoRoute
      /\ ~HasRoute(Gone)
  BY IdleIs DEF HasRoute
<1>3. \A w \in Requests : req'[w] = IF w = r THEN Gone ELSE req[w]
  BY <1>1 DEF GatewayInv, Types
<1>4. Flights'
  BY <1>1, <1>2, <1>3, FlightsKeep DEF caching
<1>5. \A k \in DOMAIN inflight' : inflight'[k] \in Seq(Requests) \ {<<>>}
  BY <1>1 DEF caching, GatewayInv, Types
<1> QED
  BY <1>1, <1>2, <1>4, <1>5, OneKeeps DEF caching, logger

-----------------------------------------------------------------------------
(* The end of a fetch.                                                     *)

\* Who waits for the fetch of r: r itself, the first, and those who have attached.
LEMMA WaitingIs ==
  ASSUME GatewayInv, NEW r \in Requests, req[r].stage = "fetching"
  PROVE  LET s == Waiting(r)
         IN  /\ s \in Seq(Requests) /\ Distinct(s)
             /\ \E i \in DOMAIN s : s[i] = r
             /\ \A i \in DOMAIN s :
                  /\ s[i] \in Requests
                  /\ req[s[i]].stage \in {"fetching", "attached"}
                  /\ CacheKey(req[s[i]].call) = CacheKey(req[r].call)
             /\ IsCacheable(req[r].call) =>
                  /\ CacheKey(req[r].call) \in DOMAIN inflight
                  /\ inflight[CacheKey(req[r].call)] = s
                  /\ \A i \in DOMAIN s : IsCacheable(req[s[i]].call)
<1> DEFINE k == CacheKey(req[r].call)
           s == Waiting(r)
<1>1. CASE IsCacheable(req[r].call)
  <2>1. s = inflight[k] /\ k \in DOMAIN inflight
    BY <1>1 DEF Waiting, GatewayInv, Flights
  <2>2. inflight[k][1] = r /\ Flight(k, inflight[k]) /\ inflight[k] \in Seq(Requests) \ {<<>>}
    BY <1>1, <2>1 DEF GatewayInv, Flights, Types
  <2> HIDE DEF s, k
  <2>3. s[1] = r /\ Flight(k, s) /\ s \in Seq(Requests) /\ s # <<>>
    BY <2>1, <2>2
  <2>4. 1 \in DOMAIN s /\ \A i \in DOMAIN s : s[i] \in Requests
    BY <2>3
  <2> QED
    BY <2>1, <2>3, <2>4 DEF Flight, s, k
<1>2. CASE ~IsCacheable(req[r].call)
  <2>1. s = <<r>>
    BY <1>2 DEF Waiting
  <2> HIDE DEF s
  <2>2. s \in Seq(Requests) /\ DOMAIN s = {1} /\ s[1] = r
    BY <2>1
  <2> QED
    BY <1>2, <2>2 DEF Distinct, s
<1> QED
  BY <1>1, <1>2

\* The answer that a waiting request gets, as in Settle.
Ended(w, r, reply) ==
  Answered(req[w], StatusOf(reply),
           IF reply = Rejected THEN "catch" ELSE IF w = r THEN "MISS" ELSE "COALESCED",
           r, req[r].sent)

LEMMA EndedIs ==
  ASSUME GatewayInv, NEW r \in Requests, req[r].stage = "fetching", NEW reply \in Nat,
         NEW w \in Requests, req[w].stage \in {"fetching", "attached"}
  PROVE  LET d == Ended(w, r, reply)
         IN  /\ d \in RequestRecord /\ OnRoute(d) /\ d.row # NoRoute
             /\ d.stage = "done" /\ d.call = req[w].call /\ d.row = req[w].row
             /\ d.sent = req[w].sent
             /\ d.answer.status = StatusOf(reply)
             /\ d.answer.from \in {"catch", "MISS", "COALESCED"}
             /\ w = r => d.answer.from # "COALESCED"
             /\ d.answer.fetcher = r /\ d.answer.origin = req[r].sent
<1> DEFINE d == Ended(w, r, reply)
           status == StatusOf(reply)
           from == IF reply = Rejected THEN "catch" ELSE IF w = r THEN "MISS" ELSE "COALESCED"
           origin == req[r].sent
<1>1. req[w] \in RequestRecord /\ req[r] \in RequestRecord /\ OnRoute(req[w])
  BY DEF GatewayInv, Types, Routed, HasRoute
<1>2. /\ from \in Sources /\ from \in {"catch", "MISS", "COALESCED"}
      /\ w = r => from # "COALESCED"
      /\ origin \in Upstreams
  BY <1>1 DEF Sources, RequestRecord
<1>3. d = Answered(req[w], status, from, r, origin) /\ status \in Nat
  BY DEF Ended, StatusOf
<1> HIDE DEF d, from, origin, status
<1>4. /\ d \in RequestRecord
      /\ d.stage = "done" /\ d.call = req[w].call /\ d.row = req[w].row
      /\ d.charged = req[w].charged /\ d.sent = req[w].sent /\ d.seen = req[w].seen
      /\ d.answer.status = status /\ d.answer.from = from
      /\ d.answer.fetcher = r /\ d.answer.origin = origin
  BY <1>1, <1>2, <1>3, AnsweredIs
<1>5. OnRoute(d) /\ d.row # NoRoute
  BY <1>1, <1>4, RowsAssumption DEF OnRoute
<1> QED
  BY <1>2, <1>4, <1>5 DEF d, origin, status

\* What Settle changes: s wait and are answered with status, t is logged, and what origin
\* said goes under the key k.
Settled(r, reply, status, s, t, k, origin) ==
  /\ status = StatusOf(reply)
  /\ s = Waiting(r) /\ k = CacheKey(req[r].call) /\ origin = req[r].sent
  /\ t = [i \in DOMAIN s |-> Entry(s[i], Ended(s[i], r, reply))]
  /\ req[r].stage = "fetching"
  /\ req' = [w \in Requests |-> IF w \in Range(s) THEN Ended(w, r, reply) ELSE req[w]]
  /\ buffer' = buffer \o t
  /\ inflight' = [j \in {h \in DOMAIN inflight : inflight[h] # s} |-> inflight[j]]
  /\ cache' = cache \/ Entered(k, r, status)
  /\ UNCHANGED <<registry, table, inserts, lost>>

LEMMA SettleIs ==
  ASSUME NEW r, NEW reply, Settle(r, reply)
  PROVE  \E status, s, t, k, origin : Settled(r, reply, status, s, t, k, origin)
<1> DEFINE s == Waiting(r)
           t == [i \in DOMAIN s |-> Entry(s[i], Ended(s[i], r, reply))]
           k == CacheKey(req[r].call)
           origin == req[r].sent
           status == StatusOf(reply)
<1>1. /\ req[r].stage = "fetching"
      /\ req' = [w \in Requests |-> IF w \in Range(s) THEN Ended(w, r, reply) ELSE req[w]]
      /\ buffer' = buffer \o t
      /\ inflight' = [j \in {h \in DOMAIN inflight : inflight[h] # s} |-> inflight[j]]
      /\ cache' = cache \/ Entered(k, r, status)
      /\ registry' = registry /\ table' = table /\ inserts' = inserts /\ lost' = lost
  BY Zenon DEF Settle, Ended
<1>2. Settled(r, reply, status, s, t, k, origin)
  BY <1>1, Zenon DEF Settled
<1> HIDE DEF s, t, k, origin, status
<1> QED
  BY <1>2

LEMMA EnteredIs ==
  ASSUME NEW k, NEW r, NEW status, Entered(k, r, status), NEW j \in DOMAIN cache'
  PROVE  \/ j \in DOMAIN cache /\ cache'[j] = cache[j]
         \/ /\ j = k
            /\ \E expires \in BOOLEAN :
                 /\ expires <=> TtlArg(req[r].row) > 0
                 /\ cache'[j] = [status |-> status, origin |-> req[r].sent, fetcher |-> r,
                                 expires |-> expires]
<1> DEFINE expires == TtlArg(req[r].row) > 0
           e == [status |-> status, origin |-> req[r].sent, fetcher |-> r, expires |-> expires]
<1>1. PICK keys : /\ keys \subseteq DOMAIN cache
                  /\ cache' = [h \in keys \cup {k} |-> IF h # k THEN cache[h] ELSE e]
  BY DEF Entered
<1> HIDE DEF e
<1>2. CASE j # k
  BY <1>1, <1>2
<1>3. CASE j = k
  <2>1. cache'[j] = e
    BY <1>1, <1>3
  <2>2. expires \in BOOLEAN /\ (expires <=> TtlArg(req[r].row) > 0)
    OBVIOUS
  <2> HIDE DEF expires
  <2> QED
    BY <1>3, <2>1, <2>2 DEF e
<1> QED
  BY <1>2, <1>3

LEMMA SettleKeeps ==
  ASSUME GatewayInv, NEW r \in Requests, NEW reply \in Statuses \cup {Rejected}, Settle(r, reply)
  PROVE  GatewayInv'
<1>a. PICK status, s, t, k, origin : Settled(r, reply, status, s, t, k, origin)
  BY SettleIs
<1>1. /\ status = StatusOf(reply)
      /\ s = Waiting(r) /\ k = CacheKey(req[r].call) /\ origin = req[r].sent
      /\ t = [i \in DOMAIN s |-> Entry(s[i], Ended(s[i], r, reply))]
      /\ req[r].stage = "fetching"
      /\ req' = [w \in Requests |-> IF w \in Range(s) THEN Ended(w, r, reply) ELSE req[w]]
      /\ buffer' = buffer \o t
      /\ inflight' = [j \in {h \in DOMAIN inflight : inflight[h] # s} |-> inflight[j]]
      /\ cache' = cache \/ Entered(k, r, status)
      /\ UNCHANGED <<registry, table, inserts, lost>>
  BY <1>a, Zenon DEF Settled
<1>2. /\ s \in Seq(Requests) /\ Distinct(s)
      /\ \E i \in DOMAIN s : s[i] = r
      /\ \A i \in DOMAIN s :
           /\ s[i] \in Requests
           /\ req[s[i]].stage \in {"fetching", "attached"}
           /\ CacheKey(req[s[i]].call) = k
      /\ IsCacheable(req[r].call) =>
           /\ k \in DOMAIN inflight /\ inflight[k] = s
           /\ \A i \in DOMAIN s : IsCacheable(req[s[i]].call)
  BY <1>1, WaitingIs
<1>3. ~IsCacheable(req[r].call) => s = <<r>>
  BY <1>1 DEF Waiting
<1>4. reply \in Nat /\ status \in Nat
  BY <1>1, BoundsAssumption DEF Rejected, StatusOf
<1>5. /\ Types /\ req \in [Requests -> RequestRecord] /\ buffer \in Seq(EntryRecord)
      /\ origin \in Upstreams /\ origin = req[r].row.upstream
  BY <1>1 DEF GatewayInv, Types, RequestRecord, Routed, HasRoute, OnRoute
<1>6. ASSUME NEW w \in Requests
      PROVE  w \in Range(s) <=> \E i \in DOMAIN s : s[i] = w
  BY InRange
<1>7. ASSUME NEW w \in Requests, w \in Range(s)
      PROVE  /\ req[w].stage \in {"fetching", "attached"} /\ CacheKey(req[w].call) = k
             /\ IsCacheable(req[r].call) => IsCacheable(req[w].call)
             /\ req'[w] \in RequestRecord /\ OnRoute(req'[w]) /\ req'[w].row # NoRoute
             /\ req'[w].stage = "done" /\ req'[w].call = req[w].call /\ req'[w].row = req[w].row
             /\ req'[w].sent = req[w].sent
             /\ req'[w].answer.status = status
             /\ req'[w].answer.from \in {"catch", "MISS", "COALESCED"}
             /\ w = r => req'[w].answer.from # "COALESCED"
             /\ req'[w].answer.fetcher = r /\ req'[w].answer.origin = origin
  <2>1. req[w].stage \in {"fetching", "attached"} /\ CacheKey(req[w].call) = k
    BY <1>2, <1>6, <1>7
  <2>2. IsCacheable(req[r].call) => IsCacheable(req[w].call)
    BY <1>2, <1>6, <1>7
  <2>3. req'[w] = Ended(w, r, reply)
    BY <1>1, <1>7
  <2> QED
    BY <1>1, <1>4, <2>1, <2>2, <2>3, EndedIs
<1>8. \A w \in Requests : w \notin Range(s) => req'[w] = req[w]
  BY <1>1
<1>9. r \in Range(s) /\ Range(s) \subseteq Requests
  BY <1>2 DEF Range
<1>10. FinalKept
  BY <1>7, <1>8 DEF FinalKept
<1>11. Fetched(r, k, status, origin)'
  BY <1>1, <1>7, <1>9 DEF Fetched, Proxied
<1>12. ASSUME NEW i \in DOMAIN s
       PROVE  /\ t[i] \in EntryRecord /\ t[i].request = s[i]
              /\ Truthful(t[i])' /\ req[s[i]].stage # "done"
  <2> DEFINE w == s[i]
             e == t[i]
  <2>1. w \in Requests /\ w \in Range(s)
    BY <1>2 DEF Range
  <2>2. e = Entry(w, req'[w])
    <3>1. e = Entry(w, Ended(w, r, reply))
      BY <1>1
    <3>2. req'[w] = Ended(w, r, reply)
      BY <1>1, <2>1
    <3> QED
      BY <3>1, <3>2
  <2> HIDE DEF w, e
  <2>3. /\ e \in EntryRecord
        /\ e.request = w /\ e.user = req'[w].row.owner /\ e.route = req'[w].row.id
        /\ e.status = req'[w].answer.status
        /\ e.hit <=> req'[w].answer.from \in {"HIT", "COALESCED"}
        /\ e.limited <=> req'[w].answer.from = "LIMITER"
    BY <1>7, <2>1, <2>2, EntryIs
  <2>4. w \in Proxied' /\ req[w].stage # "done"
    BY <1>7, <2>1 DEF Proxied
  <2>5. Truthful(e)'
    BY <2>3, <2>4 DEF Truthful
  <2> QED
    BY <2>3, <2>4, <2>5 DEF w, e
<1>13. /\ t \in Seq(EntryRecord) /\ DOMAIN t = DOMAIN s /\ Of(t) = s
  <2>1. /\ Len(s) \in Nat /\ DOMAIN s = 1 .. Len(s) /\ DOMAIN t = DOMAIN s
        /\ s = [i \in DOMAIN s |-> s[i]]
    BY <1>1, <1>2
  <2>2. t \in [1 .. Len(s) -> EntryRecord]
    <3>1. t = [i \in 1 .. Len(s) |-> t[i]]
      BY <1>1, <2>1
    <3> QED
      BY <1>12, <2>1, <3>1
  <2>3. Of(t) = s
    BY <1>12, <2>1 DEF Of
  <2> QED
    BY <2>1, <2>2, <2>3
<1>14. ASSUME NEW j \in DOMAIN cache'
       PROVE  \/ j \in DOMAIN cache /\ cache'[j] = cache[j]
              \/ CachedAs(j, cache[j])' /\ cache'[j] \in CacheRecord
  <2>1. CASE cache' = cache
    BY <2>1
  <2>2. CASE Entered(k, r, status)
    <3>1. CASE j \in DOMAIN cache /\ cache'[j] = cache[j]
      BY <3>1
    <3>2. ASSUME j = k, NEW expires \in BOOLEAN, expires <=> TtlArg(req[r].row) > 0,
                 cache'[j] = [status |-> status, origin |-> origin, fetcher |-> r,
                              expires |-> expires]
          PROVE  CachedAs(j, cache[j])' /\ cache'[j] \in CacheRecord
      <4>1. /\ cache'[j] \in CacheRecord /\ cache'[j].fetcher = r
            /\ cache'[j].status = status /\ cache'[j].origin = origin
            /\ cache'[j].expires <=> TtlArg(req[r].row) > 0
        BY <1>4, <1>5, <3>2 DEF CacheRecord
      <4>2. req'[r].row = req[r].row
        BY <1>7, <1>9
      <4>3. CachedAs(j, cache[j])'
        BY <1>5, <1>11, <3>2, <4>1, <4>2 DEF CachedAs
      <4> QED
        BY <4>1, <4>3
    <3> QED
      BY <1>1, <2>2, <3>1, <3>2, EnteredIs
  <2> QED
    BY <1>1, <2>1, <2>2
<1>15. ASSUME NEW j \in DOMAIN inflight'
       PROVE  /\ inflight'[j] \in Seq(Requests) \ {<<>>}
              /\ Flight(j, inflight[j])'
  <2> DEFINE u == inflight[j]
  <2>1. j \in DOMAIN inflight /\ u # s /\ inflight'[j] = u
    BY <1>1
  <2>2. u \in Seq(Requests) \ {<<>>} /\ Flight(j, u)
    BY <2>1 DEF GatewayInv, Types, Flights
  <2>3. IsCacheable(req[r].call) => j # k
    BY <1>2, <2>1
  <2> HIDE DEF u
  <2>4. ASSUME NEW i \in DOMAIN u
        PROVE  req'[u[i]] = req[u[i]]
    <3>1. /\ u[i] \in Requests
          /\ IsCacheable(req[u[i]].call) /\ CacheKey(req[u[i]].call) = j
      BY <2>2 DEF Flight
    <3>2. u[i] \notin Range(s)
      <4>1. CASE IsCacheable(req[r].call)
        BY <1>7, <2>3, <3>1, <4>1
      <4>2. CASE ~IsCacheable(req[r].call)
        <5>1. \A x : x \in Range(s) => x = r
          BY <1>3, <4>2 DEF Range
        <5> QED
          BY <3>1, <4>2, <5>1
      <4> QED
        BY <4>1, <4>2
    <3> QED
      BY <1>8, <3>1, <3>2
  <2>5. Flight(j, inflight[j])'
    BY <2>1, <2>2, <2>4 DEF Flight
  <2> QED
    BY <2>1, <2>2, <2>5
<1>16. Flights'
  <2>1. ASSUME NEW w \in Requests, req'[w].stage = "fetching", IsCacheable(req'[w].call)
        PROVE  /\ CacheKey(req'[w].call) \in DOMAIN inflight'
               /\ inflight'[CacheKey(req'[w].call)][1] = w
    <3> DEFINE j == CacheKey(req[w].call)
    <3>1. w \notin Range(s) /\ req'[w] = req[w]
      BY <1>7, <1>8, <2>1
    <3>2. j \in DOMAIN inflight /\ inflight[j][1] = w
      BY <2>1, <3>1 DEF GatewayInv, Flights
    <3>3. inflight[j] # s
      <4>1. 1 \in DOMAIN s
        BY <1>2
      <4>2. s[1] \in Range(s)
        BY <4>1 DEF Range
      <4> QED
        BY <3>1, <3>2, <4>2
    <3> HIDE DEF j
    <3>4. j \in DOMAIN inflight' /\ inflight'[j] = inflight[j]
      BY <1>1, <3>2, <3>3
    <3> QED
      BY <3>1, <3>2, <3>4 DEF j
  <2> QED
    BY <1>15, <2>1 DEF Flights
<1>17. Types'
  <2>1. req' \in [Requests -> RequestRecord]
    <3>1. \A w \in Requests : req'[w] \in RequestRecord
      BY <1>5, <1>7, <1>8
    <3>2. req' = [w \in Requests |-> req'[w]]
      BY <1>1
    <3> QED
      BY <3>1, <3>2
  <2>2. buffer' \in Seq(EntryRecord)
    BY <1>1, <1>5, <1>13
  <2>3. \A j \in DOMAIN cache' : cache'[j] \in CacheRecord
    BY <1>5, <1>14 DEF Types
  <2> QED
    BY <1>1, <1>5, <1>15, <2>1, <2>2, <2>3 DEF Types
<1>18. Routed'
  <2> SUFFICES ASSUME NEW w \in Requests, HasRoute(req[w])'
               PROVE  OnRoute(req[w])'
    BY DEF Routed
  <2>1. CASE w \in Range(s)
    BY <1>7, <2>1
  <2>2. CASE w \notin Range(s)
    BY <1>8, <2>2 DEF GatewayInv, Routed
  <2> QED
    BY <2>1, <2>2
<1>19. Cached'
  BY <1>10, <1>14, CachedKeeps
<1>20. Sharing'
  <2>1. ASSUME NEW w \in Requests, req[w].stage # "done", w \in Shared'
        PROVE  SharedFrom(w, req[w].answer)'
    <3>1. w \in Range(s)
      BY <1>8, <2>1 DEF Shared, Proxied
    <3>2. w # r
      BY <1>7, <2>1, <3>1 DEF Shared
    <3> QED
      BY <1>7, <1>11, <3>1, <3>2 DEF SharedFrom
  <2> QED
    BY <1>10, <2>1, SharingKeeps
<1>21. Logs'
  <2>1. \A w \in Requests : req[w].stage # "done" => (w \in Proxied' <=> w \in Range(s))
    BY <1>7, <1>8 DEF Proxied
  <2>2. ASSUME NEW e \in Range(t)
        PROVE  Truthful(e)' /\ req[e.request].stage # "done"
    <3>1. PICK i \in DOMAIN s : e = t[i]
      BY <1>13 DEF Range
    <3> QED
      BY <1>12, <3>1
  <2>3. Distinct(Of(t)) /\ Range(Of(t)) = Range(s)
    BY <1>2, <1>13
  <2>4. \A w \in Requests : req[w].stage # "done" => (w \in Proxied' <=> w \in Range(Of(t)))
    BY <2>1, <2>3
  <2>5. t \in Seq(EntryRecord) /\ buffer' = buffer \o t /\ table' = table /\ lost' = lost
    BY <1>1, <1>13
  <2>6. \A e \in Range(t) : Truthful(e)' /\ req[e.request].stage # "done"
    BY <2>2
  <2> QED
    BY <1>10, <2>3, <2>4, <2>5, <2>6, LogsGrow
<1> QED
  BY <1>16, <1>17, <1>18, <1>19, <1>20, <1>21 DEF GatewayInv

-----------------------------------------------------------------------------
(* The steps that no request takes.                                        *)

LEMMA ExpireKeeps ==
  ASSUME GatewayInv, NEW k \in DOMAIN cache, Expire(k)
  PROVE  GatewayInv'
<1>1. /\ DOMAIN cache' \subseteq DOMAIN cache
      /\ \A j \in DOMAIN cache' : cache'[j] = cache[j]
      /\ UNCHANGED <<registry, req, inflight, buffer, table, inserts, lost>>
  BY DEF Expire, logger
<1>2. FinalKept
  BY <1>1 DEF FinalKept
<1>3. Types'
  BY <1>1 DEF GatewayInv, Types
<1>4. Routed'
  BY <1>1 DEF GatewayInv, Routed
<1>5. Flights'
  BY <1>1, FlightsKeep
<1>6. Cached'
  BY <1>1, <1>2, CachedKeeps
<1>7. Sharing'
  <2>1. Shared' = Shared
    BY <1>1 DEF Shared, Proxied
  <2> QED
    BY <1>1, <2>1 DEF GatewayInv, Sharing, SharedFrom, Fetched, Proxied
<1>8. Logs'
  <2>1. \A r \in Requests : req[r].stage # "done" => r \notin Proxied'
    BY <1>1 DEF Proxied
  <2> QED
    BY <1>1, <1>2, <2>1, LogsKeep
<1> QED
  BY <1>3, <1>4, <1>5, <1>6, <1>7, <1>8 DEF GatewayInv

LEMMA ReloadKeeps ==
  ASSUME GatewayInv, NEW p \in Paths, Reload(p)
  PROVE  GatewayInv'
<1>1. PICK row \in Rows \cup {NoRoute} :
        /\ registry' = [registry EXCEPT ![p] = row]
        /\ req' = [r \in Requests |->
             IF r \in UnderWay /\ req[r].call.path = p
             THEN [req[r] EXCEPT !.seen = @ \cup {row}] ELSE req[r]]
  BY DEF Reload
<1>2. UNCHANGED <<cache, inflight, buffer, table, inserts, lost>>
  BY DEF Reload, caching, logger
<1>3. Types
  BY DEF GatewayInv
<1>4. ASSUME NEW r \in Requests
      PROVE  /\ req'[r] \in RequestRecord /\ req[r].seen \subseteq req'[r].seen
             /\ req'[r].stage = req[r].stage /\ req'[r].call = req[r].call
             /\ req'[r].row = req[r].row /\ req'[r].charged = req[r].charged
             /\ req'[r].sent = req[r].sent
             /\ req[r].stage \in {"done", "idle", "gone"} => req'[r] = req[r]
  <2> DEFINE q == req[r]
             d == [q EXCEPT !.seen = q.seen \cup {row}]
  <2>1. q \in RequestRecord
    BY <1>3 DEF Types
  <2>2. \/ req'[r] = q
        \/ req'[r] = d /\ q.stage \notin {"done", "idle", "gone"}
    BY <1>1 DEF UnderWay
  <2> HIDE DEF q
  <2>3. /\ d \in RequestRecord /\ q.seen \subseteq d.seen
        /\ d.stage = q.stage /\ d.call = q.call
        /\ d.row = q.row /\ d.charged = q.charged /\ d.sent = q.sent
    BY <2>1 DEF RequestRecord
  <2> HIDE DEF d
  <2> QED
    BY <2>1, <2>2, <2>3 DEF q
<1>5. FinalKept
  BY <1>4 DEF FinalKept
<1>6. Types'
  <2>1. registry' \in [Paths -> Rows \cup {NoRoute}]
    BY <1>1, <1>3 DEF Types
  <2>2. req' \in [Requests -> RequestRecord]
    <3>1. req' = [r \in Requests |-> req'[r]]
      BY <1>1
    <3> QED
      BY <1>4, <3>1
  <2> QED
    BY <1>2, <1>3, <2>1, <2>2 DEF Types
<1>7. Routed'
  <2> SUFFICES ASSUME NEW r \in Requests, HasRoute(req[r])'
               PROVE  OnRoute(req[r])'
    BY DEF Routed
  <2>1. OnRoute(req[r])
    BY <1>4 DEF GatewayInv, Routed, HasRoute
  <2> QED
    BY <1>4, <2>1 DEF OnRoute
<1>8. Flights'
  BY <1>2, <1>4, FlightsKeep
<1>9. Cached'
  BY <1>2, <1>5, CachedKeeps
<1>10. \A r \in Requests : req[r].stage # "done" => r \notin Proxied'
  BY <1>4 DEF Proxied
<1>11. Sharing'
  BY <1>5, <1>10, SharingKeeps DEF Shared
<1>12. Logs'
  BY <1>2, <1>5, <1>10, LogsKeep
<1> QED
  BY <1>6, <1>7, <1>8, <1>9, <1>11, <1>12 DEF GatewayInv

LEMMA FlushKeeps ==
  ASSUME GatewayInv, Flush
  PROVE  GatewayInv'
<1>1. PICK t :
        /\ t = [i \in DOMAIN buffer |-> [buffer[i] EXCEPT !.at = inserts + 1]]
        /\ table' = table \o t
  BY DEF Flush
<1>2. /\ buffer' = <<>> /\ inserts' = inserts + 1
      /\ UNCHANGED <<registry, req, cache, inflight, lost>>
  BY DEF Flush, caching
<1>3. /\ Types /\ Logs /\ buffer \in Seq(EntryRecord) /\ table \in Seq(EntryRecord)
      /\ inserts + 1 \in Nat
  BY DEF GatewayInv, Types
<1>4. ASSUME NEW i \in DOMAIN buffer
      PROVE  /\ t[i] \in EntryRecord
             /\ t[i].request = buffer[i].request /\ t[i].user = buffer[i].user
             /\ t[i].route = buffer[i].route /\ t[i].status = buffer[i].status
             /\ t[i].hit = buffer[i].hit /\ t[i].limited = buffer[i].limited
  <2> DEFINE e == buffer[i]
             time == inserts + 1
             d == [e EXCEPT !.at = time]
  <2>1. e \in EntryRecord /\ t[i] = d /\ time \in Int
    BY <1>1, <1>3
  <2> HIDE DEF e, time
  <2>2. /\ d \in EntryRecord
        /\ d.request = e.request /\ d.user = e.user /\ d.route = e.route
        /\ d.status = e.status /\ d.hit = e.hit /\ d.limited = e.limited
    BY <2>1 DEF EntryRecord
  <2> HIDE DEF d
  <2> QED
    BY <2>1, <2>2 DEF e
<1>5. t \in Seq(EntryRecord) /\ Len(t) = Len(buffer) /\ DOMAIN t = DOMAIN buffer
  <2>1. Len(buffer) \in Nat /\ DOMAIN buffer = 1 .. Len(buffer) /\ DOMAIN t = DOMAIN buffer
    BY <1>1, <1>3
  <2>2. t \in [1 .. Len(buffer) -> EntryRecord]
    <3>1. t = [i \in 1 .. Len(buffer) |-> t[i]]
      BY <1>1, <2>1
    <3> QED
      BY <1>4, <2>1, <3>1
  <2> QED
    BY <2>1, <2>2
<1>6. /\ table' \in Seq(EntryRecord) /\ Len(table') = Len(table) + Len(buffer)
      /\ \A e : e \in Range(table') <=> e \in Range(table) \/ e \in Range(t)
  <2>1. table \o t \in Seq(EntryRecord) /\ Len(table \o t) = Len(table) + Len(t)
    BY <1>3, <1>5
  <2>2. \A e : e \in Range(table \o t) <=> e \in Range(table) \/ e \in Range(t)
    BY <1>3, <1>5, RangeConcat
  <2> QED
    BY <1>1, <1>5, <2>1, <2>2
<1>7. <<>> \in Seq(EntryRecord) /\ Range(<<>>) = {} /\ Len(<<>>) = 0 /\ Distinct(Of(<<>>))
  BY DEF Of, Range, Distinct
<1>8. Types'
  BY <1>2, <1>3, <1>6, <1>7 DEF Types
<1>9. Routed'
  BY <1>2 DEF GatewayInv, Routed
<1>10. Flights'
  BY <1>2, FlightsKeep
<1>11. FinalKept
  BY <1>2 DEF FinalKept
<1>12. Cached'
  BY <1>2, <1>11, CachedKeeps
<1>13. Proxied' = Proxied /\ Shared' = Shared
  BY <1>2 DEF Shared, Proxied
<1>14. Sharing'
  BY <1>2, <1>13 DEF GatewayInv, Sharing, SharedFrom, Fetched
<1>15. Logs'
  <2>1. Len(table') + Len(buffer') + Cardinality(lost') = Cardinality(Proxied')
    <3>1. Len(table) \in Nat /\ Len(buffer) \in Nat /\ Cardinality(lost) \in Nat
      BY <1>3, FS_CardinalityType DEF Types
    <3> QED
      BY <1>2, <1>3, <1>6, <1>7, <1>13, <3>1 DEF Logs
  <2>2. Distinct(Of(buffer'))
    BY <1>2, <1>7
  <2>3. \A d \in Range(buffer'), e \in lost' : d.request # e.request
    BY <1>2, <1>7
  <2>4. \A e : e \in Recorded' <=> e \in Range(table) \/ e \in Range(t) \/ e \in lost
    BY <1>2, <1>6, <1>7 DEF Recorded
  <2>5. ASSUME NEW e \in Recorded'
        PROVE  Truthful(e)'
    <3>1. CASE e \in Recorded
      BY <1>2, <1>3, <1>13, <3>1 DEF Logs, Truthful
    <3>2. CASE e \in Range(t)
      <4>1. PICK i \in DOMAIN buffer : e = t[i]
        BY <1>5, <3>2 DEF Range
      <4> DEFINE d == buffer[i]
      <4>2. d \in Recorded
        BY DEF Recorded, Range
      <4>3. /\ Truthful(d)
            /\ e.request = d.request /\ e.user = d.user /\ e.route = d.route
            /\ e.status = d.status /\ e.hit = d.hit /\ e.limited = d.limited
        BY <1>3, <1>4, <4>1, <4>2 DEF Logs
      <4> HIDE DEF d
      <4> QED
        BY <1>2, <1>13, <4>3 DEF Truthful
    <3> QED
      BY <2>4, <3>1, <3>2 DEF Recorded
  <2>6. ASSUME NEW r \in Proxied'
        PROVE  \E e \in Recorded' : e.request = r
    <3>1. PICK e \in Recorded : e.request = r
      BY <1>3, <1>13 DEF Logs
    <3>2. CASE e \in Range(buffer)
      <4>1. PICK i \in DOMAIN buffer : e = buffer[i]
        BY <3>2 DEF Range
      <4>2. t[i] \in Range(t) /\ t[i].request = r
        BY <1>4, <1>5, <3>1, <4>1 DEF Range
      <4> QED
        BY <2>4, <4>2
    <3>3. CASE e \notin Range(buffer)
      BY <2>4, <3>1, <3>3 DEF Recorded
    <3> QED
      BY <3>2, <3>3
  <2> QED
    BY <2>1, <2>2, <2>3, <2>5, <2>6 DEF Logs
<1> QED
  BY <1>8, <1>9, <1>10, <1>12, <1>14, <1>15 DEF GatewayInv

LEMMA RestartKeeps ==
  ASSUME GatewayInv, Restart
  PROVE  GatewayInv'
<1>1. req' = [r \in Requests |-> IF r \in UnderWay THEN Gone ELSE req[r]]
  BY DEF Restart
<1>2. /\ DOMAIN cache' = {} /\ DOMAIN inflight' = {}
      /\ buffer' = <<>> /\ lost' = lost \cup Range(buffer)
      /\ UNCHANGED <<registry, table, inserts>>
  BY DEF Restart
<1>3. /\ Types /\ Logs /\ buffer \in Seq(EntryRecord) /\ table \in Seq(EntryRecord)
      /\ lost \subseteq EntryRecord /\ IsFiniteSet(lost)
  BY DEF GatewayInv, Types
<1>4. ASSUME NEW r \in Requests
      PROVE  /\ req'[r] \in RequestRecord
             /\ \/ req'[r] = req[r] /\ req[r].stage \notin {"body", "fetching", "attached"}
                \/ /\ req'[r].stage = "gone" /\ req'[r].row = NoRoute
                   /\ req[r].stage \in {"body", "fetching", "attached"}
  <2>1. CASE r \in UnderWay
    BY <1>1, <2>1, IdleIs DEF UnderWay
  <2>2. CASE r \notin UnderWay
    BY <1>1, <1>3, <2>2 DEF UnderWay, Types
  <2> QED
    BY <2>1, <2>2
<1>5. FinalKept
  BY <1>4 DEF FinalKept
<1>6. Proxied' = Proxied
  BY <1>4 DEF Proxied
<1>7. <<>> \in Seq(EntryRecord) /\ Range(<<>>) = {} /\ Len(<<>>) = 0 /\ Distinct(Of(<<>>))
  BY DEF Of, Range, Distinct
\* No two entries of the buffer are equal, so the set of those that are lost has as many.
<1>8. IsFiniteSet(Range(buffer)) /\ Cardinality(Range(buffer)) = Len(buffer)
  <2>1. /\ DOMAIN Of(buffer) = DOMAIN buffer
        /\ \A i \in DOMAIN buffer : Of(buffer)[i] = buffer[i].request
    BY <1>3, OfIs
  <2>2. Distinct(buffer)
    <3> SUFFICES ASSUME NEW i \in DOMAIN buffer, NEW j \in DOMAIN buffer, buffer[i] = buffer[j]
                 PROVE  i = j
      BY DEF Distinct
    <3>1. Of(buffer)[i] = Of(buffer)[j]
      BY <2>1
    <3> QED
      BY <1>3, <2>1, <3>1, Zenon DEF Logs, Distinct
  <2> QED
    BY <1>3, <2>2, DistinctLen
<1>9. IsFiniteSet(lost') /\ Cardinality(lost') = Cardinality(lost) + Len(buffer)
  <2>1. lost \cap Range(buffer) = {}
    BY <1>3 DEF Logs
  <2>2. /\ IsFiniteSet(lost \cup Range(buffer))
        /\ Cardinality(lost \cup Range(buffer)) =
             Cardinality(lost) + Cardinality(Range(buffer)) - Cardinality(lost \cap Range(buffer))
    BY <1>3, <1>8, FS_Union
  <2>3. Cardinality(lost \cap Range(buffer)) = 0
    BY <2>1, FS_EmptySet
  <2>4. Cardinality(lost) \in Nat /\ Len(buffer) \in Nat
    BY <1>3, FS_CardinalityType
  <2> QED
    BY <1>2, <1>8, <2>2, <2>3, <2>4
<1>10. Types'
  <2>1. req' \in [Requests -> RequestRecord]
    <3>1. req' = [r \in Requests |-> req'[r]]
      BY <1>1
    <3> QED
      BY <1>4, <3>1
  <2>2. lost' \subseteq EntryRecord
    <3>1. Range(buffer) \subseteq EntryRecord
      BY <1>3 DEF Range
    <3> QED
      BY <1>2, <1>3, <3>1
  <2> QED
    BY <1>2, <1>3, <1>7, <1>9, <2>1, <2>2 DEF Types
<1>11. Routed'
  BY <1>4 DEF GatewayInv, Routed, HasRoute
<1>12. Flights'
  BY <1>2, <1>4 DEF Flights
<1>13. Cached'
  BY <1>2 DEF Cached
<1>14. Sharing'
  <2>1. \A r \in Requests : req[r].stage # "done" => r \notin Shared'
    BY <1>6 DEF Shared, Proxied
  <2> QED
    BY <1>5, <2>1, SharingKeeps
<1>15. Logs'
  <2>1. Len(table') + Len(buffer') + Cardinality(lost') = Cardinality(Proxied')
    <3>1. Len(table) \in Nat /\ Len(buffer) \in Nat /\ Cardinality(lost) \in Nat
      BY <1>3, FS_CardinalityType
    <3> QED
      BY <1>2, <1>3, <1>6, <1>7, <1>9, <3>1 DEF Logs
  <2>2. Distinct(Of(buffer')) /\ \A d \in Range(buffer'), e \in lost' : d.request # e.request
    BY <1>2, <1>7
  <2>3. Recorded' = Recorded
    BY <1>2, <1>7 DEF Recorded
  <2>4. ASSUME NEW e \in Recorded
        PROVE  Truthful(e)'
    <3>1. Truthful(e)
      BY <1>3 DEF Logs
    <3> QED
      BY <1>5, <1>6, <3>1 DEF Truthful, Proxied, FinalKept
  <2>5. \A r \in Proxied' : \E e \in Recorded' : e.request = r
    BY <1>3, <1>6, <2>3 DEF Logs
  <2> QED
    BY <2>1, <2>2, <2>3, <2>4, <2>5 DEF Logs
<1> QED
  BY <1>10, <1>11, <1>12, <1>13, <1>14, <1>15 DEF GatewayInv

-----------------------------------------------------------------------------
LEMMA InitGateway ==
  ASSUME Init
  PROVE  GatewayInv
<1>1. /\ registry = FirstRow /\ req = [r \in Requests |-> Idle]
      /\ DOMAIN cache = {} /\ DOMAIN inflight = {}
      /\ buffer = <<>> /\ table = <<>> /\ lost = {} /\ inserts = 0
  BY DEF Init
<1>2. \A r \in Requests : req[r] \in RequestRecord /\ req[r].stage = "idle"
  BY <1>1, IdleIs
<1>3. <<>> \in Seq(EntryRecord) /\ Range(<<>>) = {} /\ Len(<<>>) = 0 /\ Distinct(Of(<<>>))
  BY DEF Of, Range, Distinct
<1>4. IsFiniteSet({}) /\ Cardinality({}) = 0
  BY FS_EmptySet
<1>5. Proxied = {} /\ Shared = {}
  BY <1>2 DEF Shared, Proxied
<1>6. Types
  <2>1. req \in [Requests -> RequestRecord]
    BY <1>1, IdleIs
  <2> QED
    BY <1>1, <1>3, <1>4, <2>1, RowsAssumption DEF Types
<1>7. Routed /\ Flights /\ Cached /\ Sharing
  BY <1>1, <1>2, <1>5 DEF Routed, HasRoute, Flights, Cached, Sharing
<1>8. Logs
  BY <1>1, <1>3, <1>4, <1>5 DEF Logs, Recorded
<1> QED
  BY <1>6, <1>7, <1>8 DEF GatewayInv

LEMMA StepGateway ==
  ASSUME GatewayInv, [Next]_vars
  PROVE  GatewayInv'
<1>1. ASSUME NEW r \in Requests, NEW c \in Calls[r], Arrive(r, c)
      PROVE  GatewayInv'
  BY <1>1, ArriveKeeps
<1>2. ASSUME NEW r \in Requests, EndOfBody(r) \/ Abort(r)
      PROVE  GatewayInv'
  BY <1>2, EndOfBodyKeeps, AbortKeeps
<1>3. ASSUME NEW r \in Requests, NEW reply \in Statuses \cup {Rejected}, Settle(r, reply)
      PROVE  GatewayInv'
  BY <1>3, SettleKeeps
<1>4. ASSUME NEW k \in DOMAIN cache, Expire(k)
      PROVE  GatewayInv'
  BY <1>4, ExpireKeeps
<1>5. ASSUME NEW p \in Paths, Reload(p)
      PROVE  GatewayInv'
  BY <1>5, ReloadKeeps
<1>6. CASE Flush \/ Restart
  BY <1>6, FlushKeeps, RestartKeeps
<1>7. CASE UNCHANGED vars
  <2>1. UNCHANGED <<registry, req, cache, inflight, buffer, table, inserts, lost>>
    BY <1>7 DEF vars, caching, logger
  <2>2. Proxied' = Proxied
    BY <2>1 DEF Proxied
  <2>3. Types' /\ Routed'
    BY <2>1 DEF GatewayInv, Types, Routed
  <2>4. Flights'
    BY <2>1, FlightsKeep
  <2>5. FinalKept
    BY <2>1 DEF FinalKept
  <2>6. Cached'
    BY <2>1, <2>5, CachedKeeps
  <2>7. \A r \in Requests : req[r].stage # "done" => r \notin Proxied'
    BY <2>1 DEF Proxied
  <2>8. Sharing'
    BY <2>5, <2>7, SharingKeeps DEF Shared
  <2>9. Logs'
    BY <2>1, <2>5, <2>7, LogsKeep
  <2> QED
    BY <2>3, <2>4, <2>6, <2>8, <2>9 DEF GatewayInv
<1> QED
  BY <1>1, <1>2, <1>3, <1>4, <1>5, <1>6, <1>7 DEF Next

\* What Types, Routed, Flights, Cached, Sharing and Logs say holds in every reachable
\* state of the gateway, whatever interceptor.js, cacheManager.js, batchLogger.js and
\* routeRegistry.js interleave.
THEOREM Invariant == Spec => []GatewayInv
<1>1. Init => GatewayInv
  BY InitGateway
<1>2. GatewayInv /\ [Next]_vars => GatewayInv'
  BY StepGateway
<1> QED
  BY <1>1, <1>2, PTL DEF Spec

-----------------------------------------------------------------------------
(* What the text of a query tells apart: sequences cut in two, the steps   *)
(* of FlattenSeq, and plain queries.                                       *)

LEMMA LeastOf ==
  ASSUME NEW T \in SUBSET Nat, T # {}
  PROVE  \E x \in T : \A y \in T : x <= y
<1> DEFINE Below == {p \in Nat \X Nat : p[1] < p[2]}
<1>1. IsWellFoundedOn(Below, Nat)
  BY NatLessThanWellFounded DEF OpToRel
<1>2. PICK x \in T : \A y \in T : ~(<<y, x>> \in Below)
  BY <1>1, WFMin, Zenon
<1>3. ASSUME NEW y \in T, y < x
      PROVE  FALSE
  <2>1. <<y, x>> \in Nat \X Nat /\ <<y, x>>[1] < <<y, x>>[2]
    BY <1>3
  <2>2. <<y, x>> \in Below
    BY <2>1
  <2> QED
    BY <1>2, <2>2
<1> QED
  BY <1>3

\* What holds of 0 and of every number after one of which it holds.
LEMMA Climb ==
  ASSUME NEW n \in Nat, NEW T, 0 \in T, \A i \in 1 .. n : i - 1 \in T => i \in T
  PROVE  0 .. n \subseteq T
<1> DEFINE Rest == (0 .. n) \ T
<1>1. SUFFICES ASSUME Rest # {}
               PROVE  FALSE
  OBVIOUS
<1>2. Rest \in SUBSET Nat
  OBVIOUS
<1>3. PICK x \in Rest : \A y \in Rest : x <= y
  <2> HIDE DEF Rest
  <2> QED
    BY <1>1, <1>2, LeastOf
<1>4. x \in 1 .. n /\ x - 1 \in 0 .. n
  BY <1>3
<1>5. x - 1 \notin Rest
  BY <1>3, <1>4
<1> QED
  BY <1>3, <1>4, <1>5

\* The sequences that FlattenSeq builds on its way through s.
Steps(s, f) ==
  /\ f[0] = <<>>
  /\ \A i \in 1 .. Len(s) : f[i] = f[i - 1] \o s[i]

Flattens(s, g) == g = [i \in 1 .. Len(s) |-> IF i = 1 THEN s[i] ELSE g[i - 1] \o s[i]]

\* The first n steps of FlattenSeq.
Starts(s, n, g) ==
  g = [i \in 1 .. n |-> IF i = 1 THEN s[i] ELSE g[i - 1] \o s[i]]

LEMMA Flattened ==
  ASSUME NEW s, Len(s) \in Nat
  PROVE  \E g : Flattens(s, g)
<1> DEFINE T == {n \in 0 .. Len(s) : \E g : Starts(s, n, g)}
<1>1. 0 \in T
  <2> DEFINE g == [i \in 1 .. 0 |-> <<>>]
  <2>1. Starts(s, 0, g)
    BY DEF Starts
  <2> QED
    BY <2>1
<1>2. ASSUME NEW n \in 1 .. Len(s), n - 1 \in T
      PROVE  n \in T
  <2>1. PICK g : Starts(s, n - 1, g)
    BY <1>2
  <2> DEFINE h == [i \in 1 .. n |->
                    IF i < n THEN g[i] ELSE IF i = 1 THEN s[i] ELSE g[i - 1] \o s[i]]
  <2>2. \A i \in 1 .. n - 1 : g[i] = IF i = 1 THEN s[i] ELSE g[i - 1] \o s[i]
    BY <2>1, Zenon DEF Starts
  <2>3. \A i \in 1 .. n :
          h[i] = IF i < n THEN g[i] ELSE IF i = 1 THEN s[i] ELSE g[i - 1] \o s[i]
    OBVIOUS
  <2>4. \A i \in 1 .. n : i # 1 => i - 1 \in 1 .. n /\ i - 1 < n
    OBVIOUS
  <2>5. \A i \in 1 .. n : i # 1 => h[i - 1] = g[i - 1]
    BY <2>3, <2>4
  <2>6. \A i \in 1 .. n : i < n => i \in 1 .. n - 1
    OBVIOUS
  <2> HIDE DEF h
  <2>7. \A i \in 1 .. n : h[i] = IF i = 1 THEN s[i] ELSE h[i - 1] \o s[i]
    BY <2>2, <2>3, <2>5, <2>6, Zenon
  <2>8. Starts(s, n, h)
    <3>1. h = [i \in 1 .. n |-> h[i]]
      BY DEF h
    <3>2. [i \in 1 .. n |-> h[i]]
            = [i \in 1 .. n |-> IF i = 1 THEN s[i] ELSE h[i - 1] \o s[i]]
      BY <2>7, Zenon
    <3> QED
      BY <3>1, <3>2, Zenon DEF Starts
  <2> QED
    BY <2>8
<1>3. 0 .. Len(s) \subseteq T
  <2> HIDE DEF T
  <2> QED
    BY <1>1, <1>2, Climb
<1>4. Len(s) \in T
  BY <1>3
<1> QED
  BY <1>4, Zenon DEF Starts, Flattens

LEMMA FlattenIs ==
  ASSUME NEW s, Len(s) > 0
  PROVE  FlattenSeq(s) = (CHOOSE g : Flattens(s, g))[Len(s)]
  BY DEF FlattenSeq, Flattens

\* FlattenSeq(s) is the last of them.
LEMMA FlattenSteps ==
  ASSUME NEW S, NEW s \in Seq(Seq(S))
  PROVE  \E f \in [0 .. Len(s) -> Seq(S)] : Steps(s, f) /\ FlattenSeq(s) = f[Len(s)]
<1>1. Len(s) \in Nat /\ \A i \in 1 .. Len(s) : s[i] \in Seq(S)
  OBVIOUS
<1>2. CASE Len(s) = 0
  <2> DEFINE f == [i \in 0 .. Len(s) |-> <<>>]
  <2>1. s = <<>>
    BY <1>2
  <2>2. FlattenSeq(s) = <<>>
    BY <2>1 DEF FlattenSeq
  <2>3. f \in [0 .. Len(s) -> Seq(S)] /\ f[0] = <<>> /\ f[Len(s)] = <<>>
    BY <1>1
  <2>4. Steps(s, f)
    BY <1>2, <2>3 DEF Steps
  <2> QED
    BY <2>2, <2>3, <2>4
<1>3. CASE Len(s) > 0
  <2>1. PICK g : Flattens(s, g) /\ FlattenSeq(s) = g[Len(s)]
    BY <1>1, <1>3, Flattened, FlattenIs, Zenon
  <2>2. \A i \in 1 .. Len(s) : g[i] = IF i = 1 THEN s[i] ELSE g[i - 1] \o s[i]
    BY <2>1, Zenon DEF Flattens
  <2> DEFINE f == [i \in 0 .. Len(s) |-> IF i = 0 THEN <<>> ELSE g[i]]
             T == {i \in 0 .. Len(s) : f[i] \in Seq(S)}
  <2>3. f[0] = <<>> /\ \A i \in 1 .. Len(s) : f[i] = g[i] /\ f[i - 1] =
                        IF i = 1 THEN <<>> ELSE g[i - 1]
    BY <1>1
  <2>4. FlattenSeq(s) = f[Len(s)] /\ f = [i \in 0 .. Len(s) |-> f[i]]
    BY <1>1, <1>3, <2>1
  <2> HIDE DEF f
  <2>5. \A i \in 1 .. Len(s) : f[i] = f[i - 1] \o s[i]
    <3> TAKE i \in 1 .. Len(s)
    <3>1. CASE i = 1
      <4>1. <<>> \o s[i] = s[i]
        BY <1>1, ConcatEmptySeq
      <4> QED
        BY <2>2, <2>3, <3>1, <4>1
    <3>2. CASE i # 1
      BY <2>2, <2>3, <3>2
    <3> QED
      BY <3>1, <3>2
  <2>6. 0 \in T
    <3>1. f[0] \in Seq(S)
      BY <2>3
    <3>2. 0 \in 0 .. Len(s)
      BY <1>1
    <3> QED
      BY <3>1, <3>2
  <2>7. ASSUME NEW i \in 1 .. Len(s), i - 1 \in T
        PROVE  i \in T
    <3>1. f[i - 1] \in Seq(S) /\ s[i] \in Seq(S) /\ i \in 0 .. Len(s)
      BY <1>1, <2>7
    <3>2. f[i] \in Seq(S)
      BY <2>5, <3>1, ConcatProperties, Zenon
    <3> QED
      BY <3>1, <3>2
  <2>8. \A i \in 0 .. Len(s) : f[i] \in Seq(S)
    <3>1. 0 .. Len(s) \subseteq T
      <4> HIDE DEF T
      <4> QED
        BY <1>1, <2>6, <2>7, Climb
    <3> QED
      BY <3>1
  <2>9. f \in [0 .. Len(s) -> Seq(S)]
    BY <2>4, <2>8, Zenon
  <2> QED
    BY <2>3, <2>4, <2>5, <2>9 DEF Steps
<1> QED
  BY <1>1, <1>2, <1>3

-----------------------------------------------------------------------------
Joins(u, t, x, w) == u = t \o (<<x>> \o w)

\* The elements of t, x, w.
LEMMA JoinAt ==
  ASSUME NEW S, NEW x \in S, NEW t \in Seq(S), NEW w \in Seq(S), NEW u, Joins(u, t, x, w)
  PROVE  /\ u \in Seq(S) /\ Len(t) \in Nat /\ Len(w) \in Nat
         /\ DOMAIN t = 1 .. Len(t) /\ DOMAIN w = 1 .. Len(w)
         /\ Len(u) = Len(t) + 1 + Len(w)
         /\ \A i \in DOMAIN t : u[i] = t[i]
         /\ u[Len(t) + 1] = x
         /\ \A i \in DOMAIN w : u[Len(t) + 1 + i] = w[i]
<1> DEFINE v == <<x>> \o w
<1>1. /\ v \in Seq(S) /\ Len(v) = 1 + Len(w) /\ v[1] = x
      /\ \A i \in DOMAIN w : v[1 + i] = w[i]
  OBVIOUS
<1>2. /\ Len(t) \in Nat /\ Len(w) \in Nat /\ u = t \o v
      /\ DOMAIN t = 1 .. Len(t) /\ DOMAIN w = 1 .. Len(w)
  BY DEF Joins
<1>3. DOMAIN v = 1 .. Len(v)
  <2> HIDE DEF v
  <2> QED
    BY <1>1
<1>4. /\ u \in Seq(S) /\ Len(u) = Len(t) + Len(v)
      /\ \A i \in DOMAIN t : u[i] = t[i]
      /\ \A i \in DOMAIN v : u[Len(t) + i] = v[i]
  <2>1. v \in Seq(S)
    BY <1>1
  <2> HIDE DEF v
  <2>2. /\ t \o v \in Seq(S) /\ Len(t \o v) = Len(t) + Len(v)
        /\ \A i \in DOMAIN t : (t \o v)[i] = t[i]
        /\ \A i \in DOMAIN v : (t \o v)[Len(t) + i] = v[i]
    BY <2>1, ConcatAt
  <2> QED
    BY <1>2, <2>2
<1> HIDE DEF v
<1>5. \A i \in DOMAIN w : u[Len(t) + 1 + i] = w[i]
  <2> TAKE i \in DOMAIN w
  <2>1. 1 + i \in DOMAIN v /\ Len(t) + (1 + i) = Len(t) + 1 + i
    BY <1>1, <1>2, <1>3
  <2>2. u[Len(t) + (1 + i)] = v[1 + i]
    BY <1>4, <2>1
  <2> QED
    BY <1>1, <2>1, <2>2
<1>6. u[Len(t) + 1] = x
  <2>1. 1 \in DOMAIN v
    BY <1>1, <1>2, <1>3
  <2> QED
    BY <1>1, <1>4, <2>1
<1> QED
  BY <1>1, <1>2, <1>4, <1>5, <1>6

LEMMA JoinedSome ==
  ASSUME NEW S, NEW x \in S, NEW t \in Seq(S), NEW w \in Seq(S), NEW u, Joins(u, t, x, w)
  PROVE  u # <<>>
<1>1. Len(u) = Len(t) + 1 + Len(w) /\ Len(t) \in Nat /\ Len(w) \in Nat
  BY JoinAt
<1> QED
  BY <1>1

LEMMA JoinedAlike ==
  ASSUME NEW S, NEW x \in S,
         NEW t \in Seq(S), NEW w \in Seq(S), NEW v \in Seq(S), NEW z \in Seq(S),
         NEW u, Joins(u, t, x, w), Joins(u, v, x, z), Len(t) = Len(v)
  PROVE  t = v /\ w = z
<1>1. /\ Len(t) \in Nat /\ Len(w) \in Nat
      /\ DOMAIN t = 1 .. Len(t) /\ DOMAIN w = 1 .. Len(w)
      /\ Len(u) = Len(t) + 1 + Len(w)
      /\ \A i \in DOMAIN t : u[i] = t[i]
      /\ \A i \in DOMAIN w : u[Len(t) + 1 + i] = w[i]
  BY JoinAt
<1>2. /\ Len(z) \in Nat /\ DOMAIN v = 1 .. Len(v) /\ DOMAIN z = 1 .. Len(z)
      /\ Len(u) = Len(v) + 1 + Len(z)
      /\ \A i \in DOMAIN v : u[i] = v[i]
      /\ \A i \in DOMAIN z : u[Len(v) + 1 + i] = z[i]
  BY JoinAt
<1>3. t = v
  BY <1>1, <1>2, SeqEqual
<1>4. Len(t) + 1 + Len(w) = Len(t) + 1 + Len(z)
  BY <1>1, <1>2, Zenon
<1>5. Len(w) = Len(z)
  <2>1. \A a, b, c \in Nat : a + 1 + b = a + 1 + c => b = c
    OBVIOUS
  <2> QED
    BY <1>1, <1>2, <1>4, <2>1, Zenon
<1>6. w = z
  BY <1>1, <1>2, <1>5, SeqEqual
<1> QED
  BY <1>3, <1>6

\* The last x of a sequence is not later in one way of writing it than in another.
LEMMA LastNotLater ==
  ASSUME NEW S, NEW x \in S,
         NEW t \in Seq(S), NEW w \in Seq(S), NEW v \in Seq(S), NEW z \in Seq(S),
         NEW u, Joins(u, t, x, w), Joins(u, v, x, z), x \notin Range(w)
  PROVE  Len(v) <= Len(t)
<1>1. /\ Len(t) \in Nat /\ Len(w) \in Nat /\ Len(u) = Len(t) + 1 + Len(w)
      /\ DOMAIN w = 1 .. Len(w)
      /\ \A i \in DOMAIN w : u[Len(t) + 1 + i] = w[i]
  BY JoinAt
<1>2. /\ Len(v) \in Nat /\ Len(z) \in Nat /\ Len(u) = Len(v) + 1 + Len(z)
      /\ u[Len(v) + 1] = x
  BY JoinAt
<1> SUFFICES ASSUME Len(v) > Len(t)
             PROVE  FALSE
  BY <1>1, <1>2
<1>3. Len(v) - Len(t) \in 1 .. Len(w) /\ Len(t) + 1 + (Len(v) - Len(t)) = Len(v) + 1
  BY <1>1, <1>2
<1>4. w[Len(v) - Len(t)] = x
  BY <1>1, <1>2, <1>3
<1>5. DOMAIN w = 1 .. Len(w)
  OBVIOUS
<1> QED
  BY <1>3, <1>4, <1>5, InRange

\* Nor is the first one earlier.
LEMMA FirstNotEarlier ==
  ASSUME NEW S, NEW x \in S,
         NEW t \in Seq(S), NEW w \in Seq(S), NEW v \in Seq(S), NEW z \in Seq(S),
         NEW u, Joins(u, t, x, w), Joins(u, v, x, z), x \notin Range(v)
  PROVE  Len(v) <= Len(t)
<1>1. Len(t) \in Nat /\ u[Len(t) + 1] = x
  BY JoinAt
<1>2. Len(v) \in Nat /\ DOMAIN v = 1 .. Len(v) /\ \A i \in DOMAIN v : u[i] = v[i]
  BY JoinAt
<1> SUFFICES ASSUME Len(v) > Len(t)
             PROVE  FALSE
  BY <1>1, <1>2
<1>3. Len(t) + 1 \in 1 .. Len(v) /\ DOMAIN v = 1 .. Len(v)
  BY <1>1, <1>2
<1> QED
  BY <1>1, <1>2, <1>3, InRange

\* A sequence is cut in two at its last x, and at its first.
LEMMA CutLast ==
  ASSUME NEW S, NEW x \in S,
         NEW t \in Seq(S), NEW w \in Seq(S), NEW v \in Seq(S), NEW z \in Seq(S),
         NEW u, Joins(u, t, x, w), Joins(u, v, x, z), x \notin Range(w), x \notin Range(z)
  PROVE  t = v /\ w = z
<1>1. Len(v) <= Len(t) /\ Len(t) <= Len(v) /\ Len(t) \in Nat /\ Len(v) \in Nat
  BY LastNotLater
<1> QED
  BY <1>1, JoinedAlike

LEMMA CutFirst ==
  ASSUME NEW S, NEW x \in S,
         NEW t \in Seq(S), NEW w \in Seq(S), NEW v \in Seq(S), NEW z \in Seq(S),
         NEW u, Joins(u, t, x, w), Joins(u, v, x, z), x \notin Range(t), x \notin Range(v)
  PROVE  t = v /\ w = z
<1>1. Len(v) <= Len(t) /\ Len(t) <= Len(v) /\ Len(t) \in Nat /\ Len(v) \in Nat
  BY FirstNotEarlier
<1> QED
  BY <1>1, JoinedAlike

-----------------------------------------------------------------------------
\* What CallsAssumption says of a query.
Parsed(query) ==
  /\ DOMAIN query \subseteq {Names[i] : i \in DOMAIN Names}
  /\ query \in [DOMAIN query -> Values]
  /\ \A n \in DOMAIN query : query[n].is = "string" => Len(query[n].parts) = 1

\* A parameter without its separator, and with it where the query has it.
Body(query, i) == Names[i] \o (<<"=">> \o Text(query[Names[i]]))
Piece(query, i) == IF Names[i] \in DOMAIN query THEN <<"&">> \o Body(query, i) ELSE <<>>

LEMMA OneElement ==
  ASSUME NEW S, NEW x \in S
  PROVE  <<x>> \in Seq(S) /\ Range(<<x>>) = {x}
  BY DEF Range

\* STRING: the provers do not know that it has the separators.
Strings == STRING \cup {"&", "="}

LEMMA TextIs ==
  ASSUME NEW t \in Texts
  PROVE  t \in Seq(Strings)
<1>1. STRING \subseteq Strings
  BY DEF Strings
<1>2. t \in Seq(STRING)
  BY DEF Texts
<1> QED
  BY <1>1, <1>2, SeqMonotonic

\* A string prints as itself.
LEMMA StringText ==
  ASSUME NEW v \in Values, v.is = "string", Len(v.parts) = 1
  PROVE  Text(v) = v.parts[1] /\ v.parts[1] \in Texts /\ v.parts = <<v.parts[1]>>
<1> DEFINE s == [i \in DOMAIN v.parts |->
                  IF i = 1 THEN v.parts[i] ELSE <<",">> \o v.parts[i]]
<1>1. v.parts \in Seq(Texts)
  BY DEF Values
<1>2. /\ v.parts[1] \in Texts /\ DOMAIN v.parts = 1 .. 1
      /\ v.parts = <<v.parts[1]>>
  BY <1>1
<1>3. /\ s = [i \in 1 .. 1 |-> s[i]] /\ s[1] = v.parts[1] /\ Len(s) = 1
  BY <1>2
<1>4. s[1] \in Seq(Strings) /\ s \in Seq(Seq(Strings))
  BY <1>2, <1>3, TextIs
<1>5. Text(v) = FlattenSeq(s)
  BY Zenon DEF Text
<1> HIDE DEF s
<1>6. PICK f \in [0 .. Len(s) -> Seq(Strings)] :
        Steps(s, f) /\ FlattenSeq(s) = f[Len(s)]
  BY <1>4, FlattenSteps
<1>7. f[1] = <<>> \o s[1]
  <2>1. 1 \in 1 .. Len(s) /\ 1 - 1 = 0
    BY <1>3
  <2>2. f[1] = f[1 - 1] \o s[1] /\ f[0] = <<>>
    BY <1>6, <2>1, Zenon DEF Steps
  <2> QED
    BY <2>1, <2>2, Zenon
<1>8. <<>> \o s[1] = s[1]
  BY <1>4, ConcatEmptySeq
<1> QED
  BY <1>2, <1>3, <1>5, <1>6, <1>7, <1>8

\* Where the values and names of a plain query end can be read.
LEMMA PlainPiece ==
  ASSUME NEW query, Parsed(query), Plain(query),
         NEW i \in DOMAIN Names, Names[i] \in DOMAIN query
  PROVE  LET text == Text(query[Names[i]])
         IN  /\ text = query[Names[i]].parts[1]
             /\ text \in Seq(Strings) /\ Names[i] \in Seq(Strings)
             /\ Body(query, i) \in Seq(Strings)
             /\ Joins(Body(query, i), Names[i], "=", text)
             /\ "=" \notin Range(Names[i]) /\ "&" \notin Range(Body(query, i))
<1> DEFINE n == Names[i]
           v == query[n]
           rest == <<"=">> \o Text(v)
<1>1. v \in Values /\ v.is = "string" /\ Len(v.parts) = 1 /\ "&" \notin Range(v.parts[1])
  BY DEF Parsed, Plain
<1>2. "&" \notin Range(n) /\ "=" \notin Range(n)
  BY DEF Plain
<1>3. n \in Seq(Strings)
  BY NamesAssumption, TextIs
<1> HIDE DEF n, v
<1>4. Text(v) = v.parts[1] /\ Text(v) \in Seq(Strings)
  BY <1>1, StringText, TextIs
<1>5. <<"=">> \in Seq(Strings) /\ "&" \notin Range(<<"=">>)
  <2>1. "=" \in Strings
    BY DEF Strings
  <2>2. "=" # "&"
    OBVIOUS
  <2> QED
    BY <2>1, <2>2, OneElement
<1>6. rest \in Seq(Strings) /\ "&" \notin Range(rest)
  BY <1>1, <1>4, <1>5, RangeConcat, ConcatProperties
<1> HIDE DEF rest
<1>7. n \o rest \in Seq(Strings) /\ "&" \notin Range(n \o rest)
  BY <1>2, <1>3, <1>6, RangeConcat, ConcatProperties
<1>8. Body(query, i) = n \o rest
  BY DEF Body, n, v, rest
<1>9. Joins(Body(query, i), n, "=", Text(v))
  BY <1>8 DEF Joins, rest
<1> QED
  BY <1>2, <1>3, <1>4, <1>7, <1>8, <1>9 DEF n, v

\* The sequence of its pieces, and the steps in which they become the text of a query.
Pieces(query) == [i \in DOMAIN Names |-> Piece(query, i)]

Spells(query, f) ==
  /\ f \in [0 .. Len(Names) -> Seq(Strings)]
  /\ f[0] = <<>>
  /\ \A i \in 1 .. Len(Names) :
       IF Names[i] \in DOMAIN query THEN Joins(f[i], f[i - 1], "&", Body(query, i))
       ELSE f[i] = f[i - 1]
  /\ QueryText(query) = f[Len(Names)]

LEMMA SpellsPlain ==
  ASSUME NEW query, Parsed(query), Plain(query)
  PROVE  \E f : Spells(query, f)
<1> DEFINE s == Pieces(query)
           N == Len(Names)
<1>1. N \in Nat /\ DOMAIN Names = 1 .. N
  BY NamesAssumption
<1>2. Len(s) = N /\ \A i \in 1 .. N : s[i] = Piece(query, i)
  BY <1>1 DEF Pieces
<1>3. \A i \in 1 .. N : Piece(query, i) \in Seq(Strings)
  <2> TAKE i \in 1 .. N
  <2>1. CASE Names[i] \in DOMAIN query
    <3>1. Body(query, i) \in Seq(Strings)
      BY <1>1, <2>1, PlainPiece
    <3>2. Piece(query, i) = <<"&">> \o Body(query, i)
      BY <2>1 DEF Piece
    <3>3. <<"&">> \in Seq(Strings)
      <4>1. "&" \in Strings
        BY DEF Strings
      <4> QED
        BY <4>1, OneElement
    <3> QED
      BY <3>1, <3>2, <3>3, ConcatProperties
  <2>2. CASE Names[i] \notin DOMAIN query
    BY <2>2 DEF Piece
  <2> QED
    BY <2>1, <2>2
<1>4. s \in Seq(Seq(Strings))
  BY <1>1, <1>2, <1>3 DEF Pieces
<1>5. QueryText(query) = FlattenSeq(s)
  BY Zenon DEF QueryText, Pieces, Piece, Body
<1> HIDE DEF s
<1>6. PICK f \in [0 .. Len(s) -> Seq(Strings)] :
        Steps(s, f) /\ FlattenSeq(s) = f[Len(s)]
  BY <1>4, FlattenSteps
<1>7. /\ f \in [0 .. N -> Seq(Strings)] /\ f[0] = <<>> /\ QueryText(query) = f[N]
      /\ \A i \in 1 .. N : f[i] = f[i - 1] \o Piece(query, i)
  BY <1>2, <1>5, <1>6 DEF Steps
<1>8. ASSUME NEW i \in 1 .. N
      PROVE  IF Names[i] \in DOMAIN query THEN Joins(f[i], f[i - 1], "&", Body(query, i))
             ELSE f[i] = f[i - 1]
  <2>1. CASE Names[i] \in DOMAIN query
    BY <1>7, <2>1 DEF Piece, Joins
  <2>2. CASE Names[i] \notin DOMAIN query
    <3>1. i - 1 \in 0 .. N
      BY <1>1
    <3>2. f[i - 1] \in Seq(Strings)
      BY <1>7, <3>1
    <3>3. f[i - 1] \o <<>> = f[i - 1]
      BY <3>2, ConcatEmptySeq
    <3> QED
      BY <1>7, <2>2, <3>3 DEF Piece
  <2> QED
    BY <2>1, <2>2
<1> QED
  BY <1>7, <1>8 DEF Spells

\* What is spelled up to a name is nothing or ends with a parameter of an earlier name.
LEMMA EndsWith ==
  ASSUME NEW query, Parsed(query), Plain(query), NEW f, Spells(query, f),
         NEW m \in 0 .. Len(Names)
  PROVE  \/ f[m] = <<>>
         \/ \E j \in 1 .. m : /\ Names[j] \in DOMAIN query
                              /\ \E t \in Seq(Strings) : Joins(f[m], t, "&", Body(query, j))
<1> DEFINE N == Len(Names)
           Ends(i) == \/ f[i] = <<>>
                      \/ \E j \in 1 .. i :
                           /\ Names[j] \in DOMAIN query
                           /\ \E t \in Seq(Strings) : Joins(f[i], t, "&", Body(query, j))
           T == {i \in 0 .. N : Ends(i)}
<1>1. N \in Nat
  BY NamesAssumption
<1>2. 0 \in T
  BY <1>1 DEF Spells
<1>3. ASSUME NEW i \in 1 .. N, i - 1 \in T
      PROVE  i \in T
  <2>1. i \in 0 .. N /\ i \in 1 .. i /\ 1 .. i - 1 \subseteq 1 .. i
    BY <1>1
  <2>2. i - 1 \in 0 .. N
    BY <1>1
  <2>3. CASE Names[i] \in DOMAIN query
    <3>1. Joins(f[i], f[i - 1], "&", Body(query, i)) /\ f[i - 1] \in Seq(Strings)
      BY <2>2, <2>3 DEF Spells
    <3>2. Ends(i)
      BY <2>1, <2>3, <3>1
    <3> QED
      BY <2>1, <3>2
  <2>4. CASE Names[i] \notin DOMAIN query
    <3>1. f[i] = f[i - 1] /\ Ends(i - 1)
      BY <1>3, <2>4 DEF Spells
    <3>2. Ends(i)
      BY <2>1, <3>1
    <3> QED
      BY <2>1, <3>2
  <2> QED
    BY <2>3, <2>4
<1>4. 0 .. N \subseteq T
  <2> HIDE DEF T, N
  <2> QED
    BY <1>1, <1>2, <1>3, Climb
<1> QED
  BY <1>4

\* Of two plain queries that are spelled the same up to a name, neither has that name alone.
LEMMA NotAlone ==
  ASSUME NEW a, Parsed(a), Plain(a), NEW f, Spells(a, f),
         NEW b, Parsed(b), Plain(b), NEW g, Spells(b, g),
         NEW i \in 1 .. Len(Names), f[i] = g[i], Names[i] \in DOMAIN a
  PROVE  Names[i] \in DOMAIN b
<1> SUFFICES ASSUME Names[i] \notin DOMAIN b
             PROVE  FALSE
  OBVIOUS
<1>1. /\ Len(Names) \in Nat /\ DOMAIN Names = 1 .. Len(Names)
      /\ i - 1 \in 0 .. Len(Names) /\ i \in DOMAIN Names
  BY NamesAssumption
<1>2. "&" \in Strings /\ "=" \in Strings
  BY DEF Strings
<1>3. Joins(f[i], f[i - 1], "&", Body(a, i)) /\ f[i - 1] \in Seq(Strings)
  BY <1>1 DEF Spells
<1>4. g[i - 1] = f[i]
  BY DEF Spells
<1>5. /\ Body(a, i) \in Seq(Strings) /\ "&" \notin Range(Body(a, i))
      /\ Joins(Body(a, i), Names[i], "=", Text(a[Names[i]]))
      /\ Text(a[Names[i]]) \in Seq(Strings) /\ Names[i] \in Seq(Strings)
      /\ "=" \notin Range(Names[i])
  BY <1>1, PlainPiece
<1>6. f[i] # <<>>
  BY <1>2, <1>3, <1>5, JoinedSome, Zenon
<1>7. CASE \E j \in 1 .. i - 1 :
             /\ Names[j] \in DOMAIN b
             /\ \E t \in Seq(Strings) : Joins(f[i], t, "&", Body(b, j))
  <2>1. PICK j \in 1 .. i - 1, t \in Seq(Strings) :
          Names[j] \in DOMAIN b /\ Joins(f[i], t, "&", Body(b, j))
    BY <1>7
  <2>2. j \in DOMAIN Names /\ j # i
    BY <1>1
  <2>3. /\ Body(b, j) \in Seq(Strings) /\ "&" \notin Range(Body(b, j))
        /\ Joins(Body(b, j), Names[j], "=", Text(b[Names[j]]))
        /\ Text(b[Names[j]]) \in Seq(Strings) /\ Names[j] \in Seq(Strings)
        /\ "=" \notin Range(Names[j])
    BY <2>1, <2>2, PlainPiece
  <2>4. Body(a, i) = Body(b, j)
    BY <1>2, <1>3, <1>5, <2>1, <2>3, CutLast
  <2>5. Joins(Body(a, i), Names[j], "=", Text(b[Names[j]]))
    BY <2>3, <2>4
  <2>6. Names[i] = Names[j]
    BY <1>2, <1>5, <2>3, <2>5, CutFirst
  <2> QED
    BY <1>1, <2>2, <2>6, NamesAssumption
<1> QED
  BY <1>1, <1>4, <1>6, <1>7, EndsWith

\* If both have it, they give it the same value, and are spelled the same before it.
LEMMA SameBefore ==
  ASSUME NEW a, Parsed(a), Plain(a), NEW f, Spells(a, f),
         NEW b, Parsed(b), Plain(b), NEW g, Spells(b, g),
         NEW i \in 1 .. Len(Names), f[i] = g[i]
  PROVE  /\ f[i - 1] = g[i - 1]
         /\ Names[i] \in DOMAIN a <=> Names[i] \in DOMAIN b
         /\ Names[i] \in DOMAIN a => a[Names[i]] = b[Names[i]]
<1>1. Names[i] \in DOMAIN a <=> Names[i] \in DOMAIN b
  BY NotAlone
<1>2. CASE Names[i] \notin DOMAIN a
  BY <1>1, <1>2 DEF Spells
<1>3. CASE Names[i] \in DOMAIN a
  <2> DEFINE n == Names[i]
  <2>1. /\ Len(Names) \in Nat /\ DOMAIN Names = 1 .. Len(Names)
        /\ i - 1 \in 0 .. Len(Names) /\ i \in DOMAIN Names
    BY NamesAssumption
  <2>2. "&" \in Strings /\ "=" \in Strings
    BY DEF Strings
  <2>3. Joins(f[i], f[i - 1], "&", Body(a, i)) /\ f[i - 1] \in Seq(Strings)
    BY <1>3, <2>1 DEF Spells
  <2>4. Joins(f[i], g[i - 1], "&", Body(b, i)) /\ g[i - 1] \in Seq(Strings)
    BY <1>1, <1>3, <2>1 DEF Spells
  <2>5. /\ Body(a, i) \in Seq(Strings) /\ "&" \notin Range(Body(a, i))
        /\ Joins(Body(a, i), n, "=", Text(a[n]))
        /\ Text(a[n]) \in Seq(Strings) /\ n \in Seq(Strings)
        /\ "=" \notin Range(n) /\ Text(a[n]) = a[n].parts[1]
    BY <1>3, <2>1, PlainPiece
  <2>6. /\ Body(b, i) \in Seq(Strings) /\ "&" \notin Range(Body(b, i))
        /\ Joins(Body(b, i), n, "=", Text(b[n]))
        /\ Text(b[n]) \in Seq(Strings) /\ Text(b[n]) = b[n].parts[1]
    BY <1>1, <1>3, <2>1, PlainPiece
  <2>7. f[i - 1] = g[i - 1] /\ Body(a, i) = Body(b, i)
    BY <2>2, <2>3, <2>4, <2>5, <2>6, CutLast
  <2>8. Joins(Body(a, i), n, "=", Text(b[n]))
    BY <2>6, <2>7
  <2>9. Text(a[n]) = Text(b[n])
    BY <2>2, <2>5, <2>6, <2>8, CutFirst
  <2>10. /\ a[n] \in Values /\ a[n].is = "string" /\ Len(a[n].parts) = 1
         /\ b[n] \in Values /\ b[n].is = "string" /\ Len(b[n].parts) = 1
    BY <1>1, <1>3 DEF Parsed, Plain
  <2>11. a[n].parts = <<a[n].parts[1]>> /\ b[n].parts = <<b[n].parts[1]>>
    BY <2>10, StringText
  <2>12. a[n].parts = b[n].parts
    BY <2>5, <2>6, <2>9, <2>11
  <2>13. \A v \in Values : v = [is |-> v.is, parts |-> v.parts]
    BY DEF Values
  <2>14. a[n] = b[n]
    BY <2>10, <2>12, <2>13
  <2> QED
    BY <1>1, <2>7, <2>14
<1> QED
  BY <1>1, <1>2, <1>3

\* Plain queries that print the same are the same.
LEMMA PlainTells ==
  ASSUME NEW a, Parsed(a), Plain(a), NEW b, Parsed(b), Plain(b), QueryText(a) = QueryText(b)
  PROVE  a = b
<1> DEFINE N == Len(Names)
<1>1. N \in Nat /\ DOMAIN Names = 1 .. N
  BY NamesAssumption
<1>2. PICK f : Spells(a, f)
  BY SpellsPlain
<1>3. PICK g : Spells(b, g)
  BY SpellsPlain
<1> DEFINE T == {m \in 0 .. N : f[N - m] = g[N - m]}
<1>4. 0 \in T
  <2>1. f[N] = g[N]
    BY <1>2, <1>3 DEF Spells
  <2>2. 0 \in 0 .. N /\ N - 0 = N
    BY <1>1
  <2> QED
    BY <2>1, <2>2
<1>5. ASSUME NEW m \in 1 .. N, m - 1 \in T
      PROVE  m \in T
  <2>1. N - (m - 1) \in 1 .. N /\ m \in 0 .. N /\ (N - (m - 1)) - 1 = N - m
    BY <1>1
  <2>2. f[N - (m - 1)] = g[N - (m - 1)]
    BY <1>5
  <2>3. f[(N - (m - 1)) - 1] = g[(N - (m - 1)) - 1]
    BY <1>2, <1>3, <2>1, <2>2, SameBefore
  <2> QED
    BY <2>1, <2>3
<1>6. 0 .. N \subseteq T
  <2> HIDE DEF T, N
  <2> QED
    BY <1>1, <1>4, <1>5, Climb
<1>7. \A i \in 1 .. N : f[i] = g[i]
  <2> TAKE i \in 1 .. N
  <2>1. N - i \in 0 .. N /\ N - (N - i) = i
    BY <1>1
  <2>2. N - i \in T
    BY <1>6, <2>1
  <2>3. f[N - (N - i)] = g[N - (N - i)]
    BY <2>2
  <2> QED
    BY <2>1, <2>3
<1>8. \A i \in 1 .. N : /\ Names[i] \in DOMAIN a <=> Names[i] \in DOMAIN b
                        /\ Names[i] \in DOMAIN a => a[Names[i]] = b[Names[i]]
  BY <1>2, <1>3, <1>7, SameBefore
<1>9. /\ DOMAIN a \subseteq {Names[i] : i \in 1 .. N} /\ a = [n \in DOMAIN a |-> a[n]]
      /\ DOMAIN b \subseteq {Names[i] : i \in 1 .. N} /\ b = [n \in DOMAIN b |-> b[n]]
  BY <1>1 DEF Parsed
<1>10. DOMAIN a = DOMAIN b /\ \A n \in DOMAIN a : a[n] = b[n]
  BY <1>8, <1>9
<1> QED
  BY <1>9, <1>10

-----------------------------------------------------------------------------
LEMMA KeyIs ==
  ASSUME NEW c
  PROVE  /\ CacheKey(c)[1] = c.method /\ CacheKey(c)[2] = c.host
         /\ CacheKey(c)[3] = c.path /\ CacheKey(c)[4] = QueryText(c.query)
<1>1. CacheKey(c) = <<c.method, c.host, c.path, QueryText(c.query)>>
  BY Zenon DEF CacheKey
<1> QED
  BY <1>1

LEMMA KeyTells ==
  ASSUME NEW c \in SomeCalls, NEW d \in SomeCalls, CacheKey(c) = CacheKey(d)
  PROVE  /\ \A field \in {"method", "host", "path"} : c[field] = d[field]
         /\ SameQuery(c.query, d.query)
<1>1. /\ c.method = d.method /\ c.host = d.host /\ c.path = d.path
      /\ QueryText(c.query) = QueryText(d.query)
  BY KeyIs, Zenon
<1>2. Parsed(c.query) /\ Parsed(d.query)
  BY CallsAssumption DEF SomeCalls, Parsed
<1>3. SameQuery(c.query, d.query)
  BY <1>1, <1>2, PlainTells DEF SameQuery
<1> QED
  BY <1>1, <1>3

-----------------------------------------------------------------------------
LEMMA ProxiedOnRoute ==
  ASSUME GatewayInv, NEW r \in Proxied
  PROVE  r \in Requests /\ req[r].stage = "done" /\ OnRoute(req[r])
  BY DEF GatewayInv, Routed, HasRoute, Proxied

\* Every request that interceptor.js answers for a route is logged once, over all three
\* paths to log() and through buffer, table and crash, and its entry says what the client
\* was told: for any number of requests, routes, keys, reloads and restarts.
THEOREM EachIsLoggedOnce == Spec => []LoggedOnce
<1>1. ASSUME GatewayInv
      PROVE  LoggedOnce
  <2>1. /\ Logs /\ table \in Seq(EntryRecord) /\ buffer \in Seq(EntryRecord)
    BY <1>1 DEF GatewayInv, Types
  <2>2. Len(Logged) = Len(table) + Len(buffer)
    BY <2>1 DEF Logged
  <2>3. \A e : e \in Entries <=> e \in Recorded
    BY <2>1, RangeConcat DEF Entries, Logged, Recorded
  <2>4. Len(Logged) + Cardinality(lost) = Cardinality(Proxied)
    BY <2>1, <2>2 DEF Logs
  <2>5. {e.request : e \in Entries} = Proxied
    BY <2>1, <2>3 DEF Logs, Truthful
  <2>6. \A e \in Entries :
          /\ e.status = req[e.request].answer.status
          /\ e.hit <=> req[e.request].answer.from \in {"HIT", "COALESCED"}
          /\ e.limited <=> req[e.request].answer.from = "LIMITER"
    BY <2>1, <2>3 DEF Logs, Truthful
  <2> QED
    BY <2>4, <2>5, <2>6 DEF LoggedOnce
<1> QED
  BY <1>1, Invariant, PTL

\* The limit, the upstream, the lifetime of what is cached and the owner in the log are
\* those of one row, one that routeRegistry.js held while the request was under way,
\* however often loadRoutes() swaps the map.
THEOREM OneRouteServes == Spec => []OneRoute
<1>1. ASSUME GatewayInv
      PROVE  OneRoute
  <2>1. ASSUME NEW q, OnRoute(q)
        PROVE  q.row \in q.seen \ {NoRoute}
    BY <2>1, RowsAssumption DEF OnRoute
  <2>2. \A e \in Entries : Truthful(e)
    <3>1. /\ Logs /\ table \in Seq(EntryRecord) /\ buffer \in Seq(EntryRecord)
      BY <1>1 DEF GatewayInv, Types
    <3>2. \A e : e \in Entries <=> e \in Recorded
      BY <3>1, RangeConcat DEF Entries, Logged, Recorded
    <3> QED
      BY <3>1, <3>2 DEF Logs
  <2>3. ASSUME NEW r \in Requests, req[r].stage \in {"fetching", "attached"} \/ r \in Proxied
        PROVE  \E row \in req[r].seen \ {NoRoute} :
                 /\ req[r].charged <=> row.limited
                 /\ req[r].sent \in {Null, row.upstream}
                 /\ \A e \in Entries : e.request = r => e.user = row.owner /\ e.route = row.id
    <3> DEFINE row == req[r].row
    <3>1. OnRoute(req[r])
      BY <1>1, <2>3, ProxiedOnRoute DEF GatewayInv, Routed, HasRoute
    <3>2. row \in req[r].seen \ {NoRoute}
      BY <2>1, <3>1
    <3>3. (req[r].charged <=> row.limited) /\ req[r].sent \in {Null, row.upstream}
      BY <3>1 DEF OnRoute
    <3>4. \A e \in Entries : e.request = r => e.user = row.owner /\ e.route = row.id
      BY <2>2 DEF Truthful
    <3> HIDE DEF row
    <3> QED
      BY <3>2, <3>3, <3>4
  <2>4. ASSUME NEW k \in DOMAIN cache
        PROVE  \E row \in req[cache[k].fetcher].seen \ {NoRoute} :
                 cache[k].origin = row.upstream /\ (cache[k].expires <=> TtlArg(row) > 0)
    <3> DEFINE f == cache[k].fetcher
               row == req[f].row
    <3>1. CachedAs(k, cache[k])
      BY <1>1 DEF GatewayInv, Cached
    <3>2. /\ f \in Proxied /\ cache[k].origin = row.upstream
          /\ cache[k].expires <=> TtlArg(row) > 0
      BY <3>1 DEF CachedAs, Fetched
    <3>3. row \in req[f].seen \ {NoRoute}
      BY <1>1, <2>1, <3>2, ProxiedOnRoute
    <3> HIDE DEF row
    <3> QED
      BY <3>2, <3>3
  <2> QED
    BY <2>3, <2>4 DEF OneRoute
<1> QED
  BY <1>1, Invariant, PTL

\* Every answer that cacheManager.js shares, from the cache or from the fetch of another,
\* is what the upstream said to a request of the same method, host and path whose query
\* prints the same: the very same query if both are plain, for any names and values.
\* Nothing more holds: buildCacheKey escapes nothing, and other queries share answers.
THEOREM SharesLikeAnswers == Spec => []SharedAnswer
<1>1. ASSUME GatewayInv
      PROVE  SharedAnswer
  <2> SUFFICES ASSUME NEW r \in Shared
               PROVE  LET f == req[r].answer.fetcher
                      IN  /\ f # r /\ req[f].sent = req[r].answer.origin
                          /\ f \in Proxied => req[f].answer.status = req[r].answer.status
                          /\ \A field \in {"method", "host", "path"} :
                               req[f].call[field] = req[r].call[field]
                          /\ SameQuery(req[f].call.query, req[r].call.query)
    BY DEF SharedAnswer
  <2> DEFINE f == req[r].answer.fetcher
  <2>1. /\ f # r /\ f \in Proxied /\ CacheKey(req[f].call) = CacheKey(req[r].call)
        /\ req[f].answer.status = req[r].answer.status /\ req[f].sent = req[r].answer.origin
    BY <1>1 DEF GatewayInv, Sharing, SharedFrom, Fetched
  <2>2. req[f].call \in SomeCalls /\ req[r].call \in SomeCalls
    BY <1>1, <2>1, ProxiedOnRoute DEF OnRoute, Shared
  <2> QED
    BY <2>1, <2>2, KeyTells
<1> QED
  BY <1>1, Invariant, PTL

-----------------------------------------------------------------------------
(* Sums over the groups of a report.                                       *)

\* The rows that a label sorts into some of the groups.
Within(rows, label, some) == {i \in rows : label[i] \in some}

\* Taking away one group takes away its rows.
LEMMA GroupLeaves ==
  ASSUME NEW rows, IsFiniteSet(rows), NEW label, NEW some, NEW x \in some
  PROVE  LET whole == Cardinality(Within(rows, label, some))
             rest  == Cardinality(Within(rows, label, some \ {x}))
             group == Cardinality({i \in rows : label[i] = x})
         IN  whole \in Nat /\ rest \in Nat /\ group \in Nat /\ whole = group + rest
<1> DEFINE A == Within(rows, label, some)
           B == Within(rows, label, some \ {x})
           C == {i \in rows : label[i] = x}
<1>1. IsFiniteSet(A) /\ IsFiniteSet(B) /\ IsFiniteSet(C)
  <2>1. A \in SUBSET rows /\ B \in SUBSET rows /\ C \in SUBSET rows
    BY DEF Within
  <2> HIDE DEF A, B, C
  <2> QED
    BY <2>1, FS_Subset
<1>2. A = C \cup B /\ C \cap B = {}
  BY DEF Within
<1> HIDE DEF A, B, C
<1>3. /\ Cardinality(C \cup B) = Cardinality(C) + Cardinality(B) - Cardinality(C \cap B)
      /\ Cardinality(C \cap B) = 0
  BY <1>1, <1>2, FS_Union, FS_EmptySet
<1>4. Cardinality(A) \in Nat /\ Cardinality(B) \in Nat /\ Cardinality(C) \in Nat
  BY <1>1, FS_CardinalityType
<1> QED
  BY <1>2, <1>3, <1>4 DEF A, B, C

\* A sum over a set of labels, as CHOOSE takes them away one by one.
Adds(f, X, g) ==
  g = [s \in SUBSET X |->
         IF s = {} THEN 0
         ELSE f[CHOOSE x \in s : TRUE] + g[s \ {CHOOSE x \in s : TRUE}]]

\* In whatever order it takes the groups, such a sum of their sizes is the number of rows
\* in them.
LEMMA GroupsCount ==
  ASSUME NEW rows, IsFiniteSet(rows), NEW label, NEW X, IsFiniteSet(X), NEW f,
         \A x \in X : f[x] = Cardinality({i \in rows : label[i] = x}),
         NEW g, Adds(f, X, g)
  PROVE  g[X] = Cardinality(Within(rows, label, X))
<1> DEFINE n(s) == Cardinality(Within(rows, label, s))
           Wrong == {s \in SUBSET X : g[s] # n(s)}
           R == StrictSubsetOrdering(X)
<1>1. \A s \in SUBSET X :
        g[s] = IF s = {} THEN 0
               ELSE f[CHOOSE x \in s : TRUE] + g[s \ {CHOOSE x \in s : TRUE}]
  BY Zenon DEF Adds
<1>2. IsWellFoundedOn(R, SUBSET X)
  BY FS_StrictSubsetOrderingWellFounded, FS_FiniteSubsetsOfFinite
<1> HIDE DEF R, n
<1>3. SUFFICES ASSUME Wrong # {}
               PROVE  FALSE
  BY DEF n
<1>4. PICK s \in Wrong : \A t \in Wrong : ~(<<t, s>> \in R)
  <2>1. Wrong \subseteq SUBSET X
    OBVIOUS
  <2> HIDE DEF Wrong
  <2> QED
    BY <1>2, <1>3, <2>1, WFMin, Zenon
<1>5. s # {}
  <2>1. Within(rows, label, {}) = {}
    BY DEF Within
  <2>2. n({}) = 0
    BY <2>1, FS_EmptySet DEF n
  <2> QED
    BY <1>1, <1>4, <2>2
<1>6. PICK x \in s : x = CHOOSE y \in s : TRUE
  BY <1>5
<1>7. g[s] = f[x] + g[s \ {x}] /\ s \ {x} \in SUBSET X
  BY <1>1, <1>4, <1>5, <1>6
<1>8. <<s \ {x}, s>> \in R
  BY <1>4, <1>6 DEF R, StrictSubsetOrdering
<1>9. g[s \ {x}] = n(s \ {x})
  BY <1>4, <1>7, <1>8
<1>10. n(s) = f[x] + n(s \ {x})
  <2>1. f[x] = Cardinality({i \in rows : label[i] = x})
    BY <1>4, <1>6
  <2>2. Cardinality(Within(rows, label, s)) =
          Cardinality({i \in rows : label[i] = x}) + Cardinality(Within(rows, label, s \ {x}))
    BY GroupLeaves
  <2> QED
    BY <2>1, <2>2 DEF n
<1> QED
  BY <1>4, <1>7, <1>9, <1>10

\* There is such a sum.
LEMMA GroupsCounted ==
  ASSUME NEW rows, IsFiniteSet(rows), NEW label, NEW X, NEW f,
         \A x \in X : f[x] = Cardinality({i \in rows : label[i] = x})
  PROVE  Adds(f, X, [s \in SUBSET X |-> Cardinality(Within(rows, label, s))])
<1> DEFINE n(s) == Cardinality(Within(rows, label, s))
           w == [s \in SUBSET X |-> n(s)]
<1>1. ASSUME NEW s \in SUBSET X
      PROVE  n(s) = IF s = {} THEN 0
                    ELSE f[CHOOSE x \in s : TRUE] + w[s \ {CHOOSE x \in s : TRUE}]
  <2>1. CASE s = {}
    <3>1. Within(rows, label, {}) = {}
      BY DEF Within
    <3> QED
      BY <2>1, <3>1, FS_EmptySet
  <2>2. CASE s # {}
    <3>1. PICK x \in s : x = CHOOSE y \in s : TRUE
      BY <2>2
    <3>2. w[s \ {x}] = n(s \ {x})
      OBVIOUS
    <3>3. n(s) = Cardinality({i \in rows : label[i] = x}) + n(s \ {x})
      BY GroupLeaves
    <3> HIDE DEF w, n
    <3> QED
      BY <2>2, <3>1, <3>2, <3>3
  <2> QED
    BY <2>1, <2>2
<1> HIDE DEF n
<1>2. w = [s \in SUBSET X |->
             IF s = {} THEN 0
             ELSE f[CHOOSE x \in s : TRUE] + w[s \ {CHOOSE x \in s : TRUE}]]
  BY <1>1, Zenon
<1>3. Adds(f, X, w)
  BY <1>2 DEF Adds
<1> QED
  BY <1>3 DEF n

LEMMA FoldIs ==
  ASSUME NEW f
  PROVE  FoldFunction(+, 0, f) = (CHOOSE g : Adds(f, DOMAIN f, g))[DOMAIN f]
  BY DEF FoldFunction, FoldFunctionOnSet, MapThenFoldSet, Adds

\* What FoldFunction adds up over groups of rows is the number of the rows in them.
LEMMA SumOfGroups ==
  ASSUME NEW rows, IsFiniteSet(rows), NEW label, NEW f, IsFiniteSet(DOMAIN f),
         \A x \in DOMAIN f : f[x] = Cardinality({i \in rows : label[i] = x})
  PROVE  FoldFunction(+, 0, f) = Cardinality(Within(rows, label, DOMAIN f))
<1> DEFINE X == DOMAIN f
<1>1. \A x \in X : f[x] = Cardinality({i \in rows : label[i] = x})
  OBVIOUS
<1>2. IsFiniteSet(X)
  OBVIOUS
<1>3. FoldFunction(+, 0, f) = (CHOOSE h : Adds(f, X, h))[X]
  BY FoldIs
<1> HIDE DEF X
<1>4. \E h : Adds(f, X, h)
  <2>1. Adds(f, X, [s \in SUBSET X |-> Cardinality(Within(rows, label, s))])
    BY <1>1, GroupsCounted
  <2> QED
    BY <2>1
<1>5. PICK g : g = CHOOSE h : Adds(f, X, h)
  OBVIOUS
<1>6. Adds(f, X, g)
  BY <1>4, <1>5, Zenon
<1>7. g[X] = Cardinality(Within(rows, label, X))
  BY <1>1, <1>2, <1>6, GroupsCount
<1> QED
  BY <1>3, <1>5, <1>7 DEF X

LEMMA TotalIs ==
  ASSUME NEW report
  PROVE  Total(report) =
           [total   |-> FoldFunction(+, 0, [x \in DOMAIN report |-> report[x].total]),
            hits    |-> FoldFunction(+, 0, [x \in DOMAIN report |-> report[x].hits]),
            limited |-> FoldFunction(+, 0, [x \in DOMAIN report |-> report[x].limited]),
            errors  |-> FoldFunction(+, 0, [x \in DOMAIN report |-> report[x].errors])]
  BY DEF Total

\* One column of a report adds up to the rows of its groups that it counts.
LEMMA ColumnAddsUp ==
  ASSUME NEW counted, IsFiniteSet(counted), NEW label, NEW some, IsFiniteSet(some),
         NEW f, f = [x \in some |-> Cardinality({i \in counted : label[i] = x})]
  PROVE  FoldFunction(+, 0, f) = Cardinality(Within(counted, label, some))
<1>2. DOMAIN f = some /\ \A x \in some : f[x] = Cardinality({i \in counted : label[i] = x})
  BY Zenon
<1>3. /\ IsFiniteSet(DOMAIN f)
      /\ \A x \in DOMAIN f : f[x] = Cardinality({i \in counted : label[i] = x})
  BY <1>2
<1>4. FoldFunction(+, 0, f) = Cardinality(Within(counted, label, DOMAIN f))
  BY <1>3, SumOfGroups
<1> QED
  BY <1>2, <1>4

\* The groups of a report, or some of them, add up to a summary of the rows in them.
LEMMA GroupsAddUp ==
  ASSUME NEW log, NEW rows, IsFiniteSet(rows), NEW label, NEW some, IsFiniteSet(some)
  PROVE  Total([x \in some |-> Summary(log, {i \in rows : label[i] = x})]) =
           Summary(log, Within(rows, label, some))
<1> DEFINE report == [x \in some |-> Summary(log, {i \in rows : label[i] = x})]
           hits    == {i \in rows : log[i].hit}
           limited == {i \in rows : log[i].limited}
           errors  == {i \in rows : log[i].status >= 400}
           count(counted) == [x \in some |-> Cardinality({i \in counted : label[i] = x})]
<1>1. DOMAIN report = some /\ \A x \in some : report[x] = Summary(log, {i \in rows : label[i] = x})
  OBVIOUS
<1>2. /\ \A x : {i \in {j \in rows : label[j] = x} : log[i].hit} = {i \in hits : label[i] = x}
      /\ \A x : {i \in {j \in rows : label[j] = x} : log[i].limited} =
                  {i \in limited : label[i] = x}
      /\ \A x : {i \in {j \in rows : label[j] = x} : log[i].status >= 400} =
                  {i \in errors : label[i] = x}
  BY Zenon
<1> HIDE DEF hits, limited, errors, report
<1>3. \A x \in some :
        /\ report[x].total = Cardinality({i \in rows : label[i] = x})
        /\ report[x].hits = Cardinality({i \in hits : label[i] = x})
        /\ report[x].limited = Cardinality({i \in limited : label[i] = x})
        /\ report[x].errors = Cardinality({i \in errors : label[i] = x})
  <2> SUFFICES ASSUME NEW x \in some
               PROVE  /\ report[x].total = Cardinality({i \in rows : label[i] = x})
                      /\ report[x].hits = Cardinality({i \in hits : label[i] = x})
                      /\ report[x].limited = Cardinality({i \in limited : label[i] = x})
                      /\ report[x].errors = Cardinality({i \in errors : label[i] = x})
    OBVIOUS
  <2>1. PICK group : group = {i \in rows : label[i] = x}
    OBVIOUS
  <2>2. report[x] = Summary(log, group)
    BY <1>1, <2>1, Zenon
  <2>3. /\ Summary(log, group).total = Cardinality(group)
        /\ Summary(log, group).hits = Cardinality({i \in group : log[i].hit})
        /\ Summary(log, group).limited = Cardinality({i \in group : log[i].limited})
        /\ Summary(log, group).errors = Cardinality({i \in group : log[i].status >= 400})
    BY DEF Summary
  <2>4. /\ {i \in group : log[i].hit} = {i \in hits : label[i] = x}
        /\ {i \in group : log[i].limited} = {i \in limited : label[i] = x}
        /\ {i \in group : log[i].status >= 400} = {i \in errors : label[i] = x}
    BY <1>2, <2>1, Zenon
  <2> QED
    BY <2>1, <2>2, <2>3, <2>4, Zenon
<1>4. /\ [x \in DOMAIN report |-> report[x].total] = count(rows)
      /\ [x \in DOMAIN report |-> report[x].hits] = count(hits)
      /\ [x \in DOMAIN report |-> report[x].limited] = count(limited)
      /\ [x \in DOMAIN report |-> report[x].errors] = count(errors)
  BY <1>1, <1>3, Zenon
<1>5. rows \subseteq rows /\ hits \subseteq rows /\ limited \subseteq rows /\ errors \subseteq rows
  BY DEF hits, limited, errors
<1>6. ASSUME NEW counted, counted \subseteq rows
      PROVE  FoldFunction(+, 0, count(counted)) = Cardinality(Within(counted, label, some))
  <2>1. PICK f : f = [x \in some |-> Cardinality({i \in counted : label[i] = x})]
    OBVIOUS
  <2>2. FoldFunction(+, 0, f) = Cardinality(Within(counted, label, some))
    <3>1. IsFiniteSet(counted)
      BY <1>6, FS_Subset
    <3> HIDE DEF count
    <3> QED
      BY <2>1, <3>1, ColumnAddsUp
  <2>3. count(counted) = f
    BY <2>1
  <2> QED
    BY <2>2, <2>3
<1> HIDE DEF count
<1> DEFINE inside == Within(rows, label, some)
<1>7. /\ Within(hits, label, some) = {i \in inside : log[i].hit}
      /\ Within(limited, label, some) = {i \in inside : log[i].limited}
      /\ Within(errors, label, some) = {i \in inside : log[i].status >= 400}
  BY Zenon DEF Within, hits, limited, errors
<1>8. Total(report) =
        [total |-> Cardinality(inside), hits |-> Cardinality(Within(hits, label, some)),
         limited |-> Cardinality(Within(limited, label, some)),
         errors |-> Cardinality(Within(errors, label, some))]
  <2>1. /\ FoldFunction(+, 0, count(rows)) = Cardinality(inside)
        /\ FoldFunction(+, 0, count(hits)) = Cardinality(Within(hits, label, some))
        /\ FoldFunction(+, 0, count(limited)) = Cardinality(Within(limited, label, some))
        /\ FoldFunction(+, 0, count(errors)) = Cardinality(Within(errors, label, some))
    BY <1>5, <1>6
  <2>2. Total(report) =
          [total |-> FoldFunction(+, 0, count(rows)), hits |-> FoldFunction(+, 0, count(hits)),
           limited |-> FoldFunction(+, 0, count(limited)),
           errors |-> FoldFunction(+, 0, count(errors))]
    BY <1>4, TotalIs
  <2> QED
    BY <2>1, <2>2
<1> HIDE DEF inside
<1>9. Total(report) = Summary(log, inside)
  BY <1>7, <1>8 DEF Summary
<1> QED
  BY <1>9 DEF report, inside

\* A report by labels: all its groups, of which there are finitely many, and all its rows.
LEMMA GroupedAddsUp ==
  ASSUME NEW log, NEW rows, IsFiniteSet(rows), NEW label
  PROVE  /\ IsFiniteSet({label[i] : i \in rows})
         /\ Total(GroupedBy(log, rows, label)) = Summary(log, rows)
<1> DEFINE labels == {label[i] : i \in rows}
           f == [i \in rows |-> label[i]]
<1>1. IsFiniteSet(labels)
  <2>1. f \in Surjection(rows, labels)
    BY DEF Surjection
  <2> HIDE DEF f, labels
  <2> QED
    BY <2>1, FS_Surjection
<1>2. Within(rows, label, labels) = rows
  BY DEF Within
<1>3. GroupedBy(log, rows, label) =
        [x \in labels |-> Summary(log, {i \in rows : label[i] = x})]
  BY DEF GroupedBy
<1> HIDE DEF labels
<1> QED
  BY <1>1, <1>2, <1>3, GroupsAddUp DEF labels

-----------------------------------------------------------------------------
(* The table, as the reports read it.                                      *)

\* MySQL's times are in the order of the rows, and none is of the future.
Dated ==
  /\ \A i \in DOMAIN table : table[i].at \in 1 .. inserts
  /\ \A i, j \in DOMAIN table : i <= j => table[i].at <= table[j].at

LEMMA FlushDates ==
  ASSUME GatewayInv, Dated, Flush
  PROVE  Dated'
<1>1. PICK t :
        /\ t = [i \in DOMAIN buffer |-> [buffer[i] EXCEPT !.at = inserts + 1]]
        /\ table' = table \o t
  BY DEF Flush
<1>2. inserts' = inserts + 1 /\ inserts \in Nat
  BY DEF Flush, GatewayInv, Types
<1>3. buffer \in Seq(EntryRecord) /\ table \in Seq(EntryRecord)
  BY DEF GatewayInv, Types
<1>4. DOMAIN t = DOMAIN buffer /\ \A i \in DOMAIN t : t[i] = [buffer[i] EXCEPT !.at = inserts + 1]
  BY <1>1
<1>5. \A i \in DOMAIN t : t[i].at = inserts + 1
  <2> SUFFICES ASSUME NEW i \in DOMAIN t
               PROVE  t[i].at = inserts + 1
    OBVIOUS
  <2>1. PICK e : e = buffer[i]
    OBVIOUS
  <2>2. e \in EntryRecord /\ t[i] = [e EXCEPT !.at = inserts + 1]
    BY <1>3, <1>4, <2>1
  <2> QED
    BY <2>2 DEF EntryRecord
<1>6. t \in Seq({t[i] : i \in DOMAIN t})
  <2>1. Len(buffer) \in Nat /\ DOMAIN t = 1 .. Len(buffer)
    BY <1>3, <1>4
  <2>2. t \in [1 .. Len(buffer) -> {t[i] : i \in DOMAIN t}]
    BY <1>1, <2>1
  <2> QED
    BY <2>1, <2>2
<1>7. \A i \in DOMAIN table' :
        \/ i \in DOMAIN table /\ table'[i] = table[i]
        \/ i \notin DOMAIN table /\ table'[i].at = inserts + 1
  <2>1. PICK S : table \in Seq(S) /\ t \in Seq(S)
    <3>1. PICK S : S = EntryRecord \cup {t[i] : i \in DOMAIN t}
      OBVIOUS
    <3>2. table \in Seq(S) /\ t \in Seq(S)
      BY <1>3, <1>6, <3>1
    <3> QED
      BY <3>2
  <2>2. \A i \in DOMAIN (table \o t) :
          \/ i \in DOMAIN table /\ (table \o t)[i] = table[i]
          \/ /\ i \notin DOMAIN table /\ i - Len(table) \in DOMAIN t
             /\ (table \o t)[i] = t[i - Len(table)]
    BY <2>1, ConcatAt
  <2> QED
    BY <1>1, <1>5, <2>2
<1>8. DOMAIN table = 1 .. Len(table) /\ Len(table) \in Nat /\ DOMAIN table' \subseteq Nat \ {0}
  <2>1. table' \in Seq(EntryRecord)
    BY FlushKeeps DEF GatewayInv, Types
  <2> QED
    BY <1>3, <2>1
<1>9. ASSUME NEW i \in DOMAIN table'
      PROVE  table'[i].at \in 1 .. inserts'
  <2>1. CASE i \in DOMAIN table /\ table'[i] = table[i]
    BY <1>2, <2>1 DEF Dated
  <2>2. CASE table'[i].at = inserts + 1
    BY <1>2, <2>2
  <2> QED
    BY <1>7, <2>1, <2>2
<1>10. ASSUME NEW i \in DOMAIN table', NEW j \in DOMAIN table', i <= j
       PROVE  table'[i].at <= table'[j].at
  <2>1. CASE j \in DOMAIN table /\ table'[j] = table[j]
    <3>1. i \in DOMAIN table
      BY <1>8, <1>10, <2>1
    <3> QED
      BY <1>7, <1>10, <2>1, <3>1 DEF Dated
  <2>2. CASE table'[j].at = inserts + 1
    <3>1. table'[i].at \in 1 .. inserts'
      BY <1>9
    <3> QED
      BY <1>2, <2>2, <3>1
  <2> QED
    BY <1>7, <2>1, <2>2
<1> QED
  BY <1>9, <1>10 DEF Dated

\* Only the timer of the logger writes to the table.
LEMMA TableIsFlushed ==
  ASSUME [Next]_vars
  PROVE  Flush \/ UNCHANGED <<table, inserts>>
<1>1. ASSUME NEW r \in Requests, NEW c \in Calls[r], Arrive(r, c)
      PROVE  UNCHANGED <<table, inserts>>
  BY <1>1 DEF Arrive
<1>2. ASSUME NEW r \in Requests, EndOfBody(r) \/ Abort(r)
      PROVE  UNCHANGED <<table, inserts>>
  BY <1>2 DEF EndOfBody, Abort, logger
<1>3. ASSUME NEW r \in Requests, NEW reply \in Statuses \cup {Rejected}, Settle(r, reply)
      PROVE  UNCHANGED <<table, inserts>>
  BY <1>3 DEF Settle
<1>4. ASSUME NEW k \in DOMAIN cache, Expire(k)
      PROVE  UNCHANGED <<table, inserts>>
  BY <1>4 DEF Expire, logger
<1>5. ASSUME NEW p \in Paths, Reload(p)
      PROVE  UNCHANGED <<table, inserts>>
  BY <1>5 DEF Reload, logger
<1>6. CASE Restart
  BY <1>6 DEF Restart
<1>7. CASE UNCHANGED vars
  BY <1>7 DEF vars, logger
<1> QED
  BY <1>1, <1>2, <1>3, <1>4, <1>5, <1>6, <1>7 DEF Next

LEMMA AlwaysDated == Spec => []Dated
<1>1. Init => Dated
  BY DEF Init, Dated
<1>2. GatewayInv /\ Dated /\ [Next]_vars => Dated'
  BY FlushDates, TableIsFlushed DEF Dated
<1> QED
  BY <1>1, <1>2, Invariant, PTL DEF Spec

\* No request has two rows: as many entries as requests, and an entry for each.
LEMMA RowsOnce ==
  ASSUME GatewayInv
  PROVE  Distinct(Of(table)) /\ Len(table) <= Len(Calls)
<1> DEFINE a == Of(table)
           b == Of(buffer)
           A == Range(a)
           B == Range(b)
           C == {e.request : e \in lost}
<1>1. /\ table \in Seq(EntryRecord) /\ buffer \in Seq(EntryRecord) /\ IsFiniteSet(lost) /\ Logs
      /\ Len(table) \in Nat /\ Len(buffer) \in Nat /\ Cardinality(lost) \in Nat
  BY FS_CardinalityType DEF GatewayInv, Types
<1>2. /\ a \in [1 .. Len(table) -> Requests] /\ DOMAIN a = 1 .. Len(table)
      /\ \A x : x \in A <=> \E e \in Range(table) : e.request = x
  <2>1. a \in Seq(Requests) /\ Len(a) = Len(table)
    BY <1>1, OfIs
  <2>2. \A x : x \in A <=> \E e \in Range(table) : e.request = x
    BY <1>1, OfIs
  <2> HIDE DEF a
  <2> QED
    BY <2>1, <2>2
<1>3. IsFiniteSet(B) /\ Cardinality(B) = Len(buffer)
  <2>1. b \in Seq(Requests) /\ Len(b) = Len(buffer)
    BY <1>1, OfIs
  <2>2. Distinct(b)
    BY <1>1 DEF Logs
  <2> HIDE DEF b
  <2> QED
    BY <2>1, <2>2, DistinctLen
<1>4. \A x : x \in B <=> \E e \in Range(buffer) : e.request = x
  BY <1>1, OfIs
<1>5. IsFiniteSet(C) /\ Cardinality(C) <= Cardinality(lost)
  <2> DEFINE f == [e \in lost |-> e.request]
  <2>1. f \in Surjection(lost, C)
    BY DEF Surjection
  <2> HIDE DEF f, C
  <2> QED
    BY <1>1, <2>1, FS_Surjection
<1>6. a \in Surjection(1 .. Len(table), A)
  <2> HIDE DEF a
  <2>1. a \in [1 .. Len(table) -> A] /\ \A x \in A : \E i \in 1 .. Len(table) : a[i] = x
    BY <1>2 DEF Range
  <2> QED
    BY <2>1 DEF Surjection
<1>7. IsFiniteSet(1 .. Len(table)) /\ Cardinality(1 .. Len(table)) = Len(table)
  <2>1. /\ IsFiniteSet(1 .. Len(table))
        /\ Cardinality(1 .. Len(table)) = IF 1 > Len(table) THEN 0 ELSE Len(table) - 1 + 1
    <3>1. 1 \in Int /\ Len(table) \in Int
      BY <1>1
    <3> QED
      BY <3>1, FS_Interval
  <2> QED
    BY <1>1, <2>1
<1>8. Proxied = A \cup (B \cup C)
  <2>1. Proxied = {e.request : e \in Recorded}
    BY <1>1 DEF Logs, Truthful
  <2> HIDE DEF A, B
  <2> QED
    BY <1>2, <1>4, <2>1 DEF Recorded
<1> HIDE DEF a, b, A, B, C
<1>9. /\ IsFiniteSet(A) /\ Cardinality(A) <= Len(table)
      /\ Cardinality(A) = Len(table) <=> a \in Injection(1 .. Len(table), A)
  <2>1. PICK D : D = 1 .. Len(table)
    OBVIOUS
  <2>2. IsFiniteSet(D) /\ Cardinality(D) = Len(table) /\ a \in Surjection(D, A)
    BY <1>6, <1>7, <2>1
  <2>3. /\ IsFiniteSet(A) /\ Cardinality(A) <= Cardinality(D)
        /\ Cardinality(A) = Cardinality(D) <=> a \in Injection(D, A)
    BY <2>2, FS_Surjection, Zenon
  <2> QED
    BY <2>1, <2>2, <2>3
<1>10. Cardinality(Proxied) <= Cardinality(A) + Cardinality(B) + Cardinality(C)
  <2>1. /\ IsFiniteSet(B \cup C)
        /\ Cardinality(B \cup C) = Cardinality(B) + Cardinality(C) - Cardinality(B \cap C)
        /\ Cardinality(B \cap C) \in Nat
    BY <1>3, <1>5, FS_Union, FS_Intersection, FS_CardinalityType
  <2>2. /\ Cardinality(A \cup (B \cup C)) =
             Cardinality(A) + Cardinality(B \cup C) - Cardinality(A \cap (B \cup C))
        /\ Cardinality(A \cap (B \cup C)) \in Nat
    BY <1>9, <2>1, FS_Union, FS_Intersection, FS_CardinalityType
  <2>3. /\ Cardinality(A) \in Nat /\ Cardinality(B) \in Nat /\ Cardinality(C) \in Nat
        /\ Cardinality(B \cup C) \in Nat
    BY <1>3, <1>5, <1>9, <2>1, FS_CardinalityType
  <2> QED
    BY <1>8, <2>1, <2>2, <2>3
<1>11. Len(table) + Len(buffer) + Cardinality(lost) = Cardinality(Proxied)
  BY <1>1 DEF Logs
<1>12. Cardinality(A) = Len(table)
  <2>1. Cardinality(A) \in Nat /\ Cardinality(C) \in Nat
    BY <1>5, <1>9, FS_CardinalityType
  <2> QED
    BY <1>1, <1>3, <1>5, <1>9, <1>10, <1>11, <2>1
<1>13. Distinct(a)
  BY <1>2, <1>9, <1>12 DEF Injection, IsInjective, Distinct
<1>14. Len(table) <= Len(Calls)
  <2>1. Proxied \in SUBSET Requests
    BY DEF Proxied
  <2>2. Cardinality(Proxied) <= Cardinality(Requests)
    BY <2>1, ProxiedFinite, FS_Subset
  <2>3. Cardinality(Requests) = Len(Calls)
    <3>1. Len(Calls) \in Nat /\ Requests = 1 .. Len(Calls)
      BY CallsAssumption
    <3>2. Cardinality(1 .. Len(Calls)) = IF 1 > Len(Calls) THEN 0 ELSE Len(Calls) - 1 + 1
      BY <3>1, FS_Interval
    <3> QED
      BY <3>1, <3>2
  <2>4. Len(Calls) \in Nat /\ Cardinality(Proxied) \in Nat
    BY CallsAssumption, ProxiedFinite
  <2> QED
    BY <1>1, <1>11, <2>2, <2>3, <2>4
<1> QED
  BY <1>13, <1>14 DEF a

\* The rows of the routes of a user.
RowsOf(u) == {i \in DOMAIN table : table[i].user = u}

\* The requests that these rows are about.
MineOf(u) == {r \in {e.request : e \in Range(table)} : req[r].row.owner = u}

\* Counting rows is counting requests.
LEMMA RowsAreRequests ==
  ASSUME GatewayInv, NEW A, A \subseteq DOMAIN table
  PROVE  IsFiniteSet(A) /\ Cardinality({table[i].request : i \in A}) = Cardinality(A)
<1> DEFINE f == [i \in A |-> table[i].request]
           T == {table[i].request : i \in A}
<1>1. table \in Seq(EntryRecord)
  BY DEF GatewayInv, Types
<1>2. Len(table) \in Nat /\ DOMAIN table = 1 .. Len(table)
  BY <1>1
<1>3. IsFiniteSet(A)
  <2>1. IsFiniteSet(1 .. Len(table))
    BY <1>2, FS_Interval
  <2> QED
    BY <1>2, <2>1, FS_Subset
<1>4. \A i, j \in A : table[i].request = table[j].request => i = j
  <2>1. Distinct(Of(table))
    BY RowsOnce
  <2>2. DOMAIN Of(table) = DOMAIN table /\ \A i \in DOMAIN table : Of(table)[i] = table[i].request
    BY <1>1, OfIs
  <2> QED
    BY <2>1, <2>2 DEF Distinct
<1>5. f \in Surjection(A, T)
  BY DEF Surjection
<1>6. f \in Injection(A, T)
  BY <1>4 DEF Injection, IsInjective
<1> HIDE DEF f, T
<1>7. Cardinality(T) = Cardinality(A)
  BY <1>3, <1>5, <1>6, FS_Surjection, Zenon
<1> QED
  BY <1>3, <1>7 DEF T

LEMMA WindowIsAll ==
  ASSUME GatewayInv, Dated, NEW u
  PROVE  /\ Window(table, u, inserts, inserts) = RowsOf(u)
         /\ IsFiniteSet(RowsOf(u))
<1>1. inserts \in Nat
  BY DEF GatewayInv, Types
<1>2. \A i \in DOMAIN table : table[i].at >= inserts - inserts
  BY <1>1 DEF Dated
<1>3. Window(table, u, inserts, inserts) = RowsOf(u)
  BY <1>2 DEF Window, RowsOf
<1> QED
  BY <1>3, RowsAreRequests DEF RowsOf

\* The overview counts what the clients of the user's routes were told.
LEMMA OverviewIs ==
  ASSUME GatewayInv, Dated, NEW u
  PROVE  Overview(table, u, inserts, inserts) =
           [total |-> Cardinality(MineOf(u)),
            hits |-> Cardinality({r \in MineOf(u) : req[r].answer.from \in {"HIT", "COALESCED"}}),
            limited |-> Cardinality({r \in MineOf(u) : req[r].answer.from \in {"LIMITER"}}),
            errors |-> Cardinality({r \in MineOf(u) : req[r].answer.status >= 400})]
<1>1. ASSUME NEW i \in DOMAIN table
      PROVE  /\ table[i] \in Range(table)
             /\ table[i].user = req[table[i].request].row.owner
             /\ table[i].status = req[table[i].request].answer.status
             /\ table[i].hit <=> req[table[i].request].answer.from \in {"HIT", "COALESCED"}
             /\ table[i].limited <=> req[table[i].request].answer.from = "LIMITER"
  <2>1. table[i] \in Range(table) /\ table[i] \in Recorded
    BY DEF Range, Recorded
  <2>2. Truthful(table[i])
    BY <2>1 DEF GatewayInv, Logs
  <2> QED
    BY <2>1, <2>2 DEF Truthful
<1>2. \A e \in Range(table) : \E i \in DOMAIN table : e = table[i]
  BY DEF Range
<1> DEFINE rows == RowsOf(u)
           hits == {i \in rows : table[i].hit}
           limited == {i \in rows : table[i].limited}
           errors == {i \in rows : table[i].status >= 400}
<1>3. MineOf(u) = {table[i].request : i \in rows}
  <2>1. ASSUME NEW r \in MineOf(u)
        PROVE  r \in {table[i].request : i \in rows}
    <3>1. PICK i \in DOMAIN table : r = table[i].request /\ req[r].row.owner = u
      BY <1>2 DEF MineOf
    <3> QED
      BY <1>1, <3>1 DEF RowsOf
  <2>2. ASSUME NEW i \in rows
        PROVE  table[i].request \in MineOf(u)
    BY <1>1 DEF MineOf, RowsOf
  <2> QED
    BY <2>1, <2>2
<1>4. /\ rows \subseteq DOMAIN table /\ hits \subseteq DOMAIN table
      /\ limited \subseteq DOMAIN table /\ errors \subseteq DOMAIN table
  BY DEF RowsOf
<1>5. {r \in MineOf(u) : req[r].answer.from \in {"HIT", "COALESCED"}} =
        {table[i].request : i \in hits}
  BY <1>1, <1>3, <1>4
<1>6. {r \in MineOf(u) : req[r].answer.from \in {"LIMITER"}} = {table[i].request : i \in limited}
  BY <1>1, <1>3, <1>4
<1>7. {r \in MineOf(u) : req[r].answer.status >= 400} = {table[i].request : i \in errors}
  BY <1>1, <1>3, <1>4
<1>8. Overview(table, u, inserts, inserts) =
        [total |-> Cardinality(rows), hits |-> Cardinality(hits),
         limited |-> Cardinality(limited), errors |-> Cardinality(errors)]
  BY WindowIsAll DEF Overview, Summary
<1> HIDE DEF rows, hits, limited, errors
<1> QED
  BY <1>3, <1>4, <1>5, <1>6, <1>7, <1>8, RowsAreRequests

\* Counting to the first gap.
LEMMA FirstOnes ==
  ASSUME NEW n \in Nat, NEW K \in SUBSET (1 .. n),
         \A i, j \in 1 .. n : i <= j /\ j \in K => i \in K
  PROVE  K = 1 .. Cardinality(K) /\ Cardinality(K) \in 0 .. n
<1> DEFINE T == {m \in Nat : m + 1 \notin K}
<1>1. n \in T
  OBVIOUS
<1>2. PICK m \in T : \A k \in T : m <= k
  <2>1. T \in SUBSET Nat /\ T # {}
    BY <1>1
  <2> HIDE DEF T
  <2> QED
    BY <2>1, LeastOf
<1>3. m \in Nat /\ m + 1 \notin K /\ m <= n
  BY <1>1, <1>2
<1>4. ASSUME NEW i \in 1 .. m
      PROVE  i \in K
  <2>1. i - 1 \in Nat /\ i - 1 < m /\ (i - 1) + 1 = i
    BY <1>3
  <2>2. i - 1 \notin T
    BY <1>2, <1>3, <2>1
  <2> QED
    BY <2>1, <2>2
<1>5. ASSUME NEW j \in K
      PROVE  j \in 1 .. m
  <2>1. j \in 1 .. n
    OBVIOUS
  <2>2. CASE j >= m + 1
    <3>1. m + 1 \in 1 .. n /\ m + 1 <= j
      BY <1>3, <2>1, <2>2
    <3> QED
      BY <1>3, <2>1, <3>1
  <2> QED
    BY <1>3, <2>1, <2>2
<1>6. K = 1 .. m
  BY <1>4, <1>5
<1>7. Cardinality(1 .. m) = m
  <2>1. 1 \in Int /\ m \in Int
    BY <1>3
  <2>2. Cardinality(1 .. m) = IF 1 > m THEN 0 ELSE m - 1 + 1
    BY <2>1, FS_Interval
  <2> QED
    BY <1>3, <2>2
<1> QED
  BY <1>3, <1>6, <1>7

\* The columns that the charts group by.
LEMMA DayIs ==
  ASSUME NEW d \in Int
  PROVE  d \div 1 = d
  OBVIOUS

\* The rows of a moment are in every chart of it the same.
LEMMA BarStands ==
  ASSUME GatewayInv, Dated, NEW u,
         NEW t \in DOMAIN OverTime(table, u, inserts, inserts, 1, TRUE)
  PROVE  LET past == SubSeq(table, 1, Cardinality({i \in DOMAIN table : table[i].at <= t}))
         IN  OverTime(table, u, inserts, inserts, 1, TRUE)[t] = OverTime(past, u, t, 0, 1, FALSE)[t]
<1> DEFINE K == {i \in DOMAIN table : table[i].at <= t}
           n == Cardinality(K)
           past == SubSeq(table, 1, n)
           label == [i \in DOMAIN table |-> table[i].at \div 1]
           then == [i \in DOMAIN past |-> past[i].at \div 1]
           bar == {i \in RowsOf(u) : table[i].at = t}
<1>1. /\ table \in Seq(EntryRecord) /\ Len(table) \in Nat /\ DOMAIN table = 1 .. Len(table)
      /\ inserts \in Nat
  BY DEF GatewayInv, Types
<1>2. \A i \in DOMAIN table : table[i].at \in Nat /\ label[i] = table[i].at
  BY <1>1, DayIs DEF Dated
<1> HIDE DEF label
<1>3. OverTime(table, u, inserts, inserts, 1, TRUE) = GroupedBy(table, RowsOf(u), label)
  BY DEF OverTime, RowsOf, label
<1>4. /\ DOMAIN GroupedBy(table, RowsOf(u), label) = {label[i] : i \in RowsOf(u)}
      /\ GroupedBy(table, RowsOf(u), label)[t] = Summary(table, {i \in RowsOf(u) : label[i] = t})
  <2>1. t \in {label[i] : i \in RowsOf(u)}
    BY <1>3 DEF GroupedBy
  <2> QED
    BY <2>1 DEF GroupedBy
<1>5. t \in Nat /\ bar # {} /\ {i \in RowsOf(u) : label[i] = t} = bar
  <2>1. PICK i \in RowsOf(u) : label[i] = t
    BY <1>3, <1>4
  <2>2. \A j \in RowsOf(u) : j \in DOMAIN table
    BY DEF RowsOf
  <2> QED
    BY <1>2, <2>1, <2>2
<1>6. K = 1 .. n /\ n \in 0 .. Len(table)
  <2>1. K \in SUBSET (1 .. Len(table))
    BY <1>1
  <2>2. \A i, j \in 1 .. Len(table) : i <= j /\ j \in K => i \in K
    BY <1>1, <1>2, <1>5 DEF Dated
  <2> HIDE DEF K
  <2> QED
    BY <1>1, <2>1, <2>2, FirstOnes
<1>7. n \in Nat /\ 1 .. n \subseteq DOMAIN table
  BY <1>1, <1>6
<1> HIDE DEF n
<1>8. Len(past) = n /\ DOMAIN past = 1 .. n /\ \A i \in 1 .. n : past[i] = table[i]
  BY <1>1, <1>7
<1>9. \A i \in 1 .. n : then[i] = table[i].at
  BY <1>2, <1>7, <1>8, DayIs
<1> HIDE DEF past, then
<1>10. Window(past, u, t, 0) = bar
  <2>1. Window(past, u, t, 0) = {i \in 1 .. n : table[i].user = u /\ table[i].at >= t}
    BY <1>5, <1>8 DEF Window
  <2> QED
    BY <1>2, <1>5, <1>6, <1>7, <2>1 DEF RowsOf
<1>11. bar \subseteq 1 .. n
  BY <1>5, <1>6 DEF RowsOf
<1>12. OverTime(past, u, t, 0, 1, FALSE) = GroupedBy(past, bar, then)
  BY <1>10 DEF OverTime, then
<1>13. \A i \in bar : then[i] = t
  BY <1>9, <1>11
<1>14. GroupedBy(past, bar, then)[t] = Summary(past, bar)
  <2>1. {then[i] : i \in bar} = {t} /\ {i \in bar : then[i] = t} = bar
    BY <1>5, <1>13
  <2> HIDE DEF bar
  <2> QED
    BY <2>1 DEF GroupedBy
<1>15. Summary(past, bar) = Summary(table, bar)
  <2>1. \A i \in bar : past[i] = table[i]
    BY <1>8, <1>11
  <2> HIDE DEF bar
  <2>2. /\ {i \in bar : past[i].hit} = {i \in bar : table[i].hit}
        /\ {i \in bar : past[i].limited} = {i \in bar : table[i].limited}
        /\ {i \in bar : past[i].status >= 400} = {i \in bar : table[i].status >= 400}
    BY <2>1, Zenon
  <2> QED
    BY <2>2 DEF Summary
<1> QED
  BY <1>3, <1>4, <1>5, <1>12, <1>14, <1>15 DEF past, n

\* A page as long as there are requests shows every row of the user.
LEMMA PageShowsAll ==
  ASSUME GatewayInv, Dated, NEW u
  PROVE  RecentLogs(table, u, {row.prefix : row \in Rows}, Len(Calls), 0) = RowsOf(u)
<1> DEFINE rows == RowsOf(u)
           after(i) == {j \in rows : table[j].at > table[i].at}
           tied(i) == {j \in rows : table[j].at = table[i].at}
<1>1. {i \in DOMAIN table : table[i].user = u /\ table[i].prefix \in {row.prefix : row \in Rows}} =
        rows
  <2>1. \A i \in DOMAIN table : table[i].prefix \in {row.prefix : row \in Rows}
    <3>1. \A i \in DOMAIN table : table[i] \in EntryRecord
      BY DEF GatewayInv, Types
    <3> QED
      BY <3>1 DEF EntryRecord
  <2> QED
    BY <2>1 DEF RowsOf
<1>2. IsFiniteSet(rows) /\ Cardinality(rows) <= Len(Calls)
  <2>1. table \in Seq(EntryRecord) /\ Len(table) \in Nat /\ DOMAIN table = 1 .. Len(table)
    BY DEF GatewayInv, Types
  <2>2. IsFiniteSet(1 .. Len(table)) /\ Cardinality(1 .. Len(table)) = Len(table)
    <3>1. 1 \in Int /\ Len(table) \in Int
      BY <2>1
    <3>2. /\ IsFiniteSet(1 .. Len(table))
          /\ Cardinality(1 .. Len(table)) = IF 1 > Len(table) THEN 0 ELSE Len(table) - 1 + 1
      BY <3>1, FS_Interval
    <3> QED
      BY <2>1, <3>2
  <2>3. rows \in SUBSET (1 .. Len(table))
    BY <2>1 DEF RowsOf
  <2>4. IsFiniteSet(rows) /\ Cardinality(rows) <= Len(table) /\ Cardinality(rows) \in Nat
    <3> HIDE DEF rows
    <3> QED
      BY <2>2, <2>3, FS_Subset, FS_CardinalityType
  <2> QED
    BY <2>1, <2>4, RowsOnce, CallsAssumption
<1>3. ASSUME NEW i \in rows
      PROVE  /\ Cardinality(after(i)) < Len(Calls) + 0
             /\ Cardinality(after(i)) + Cardinality(tied(i)) > 0
  <2>1. table[i].at \in Nat
    <3>1. inserts \in Nat
      BY DEF GatewayInv, Types
    <3> QED
      BY <3>1 DEF Dated, RowsOf
  <2>2. /\ after(i) \in SUBSET rows /\ i \notin after(i)
        /\ tied(i) \in SUBSET rows /\ i \in tied(i)
    BY <2>1
  <2> HIDE DEF rows, after, tied
  <2>3. /\ IsFiniteSet(after(i)) /\ Cardinality(after(i)) <= Cardinality(rows)
        /\ Cardinality(after(i)) # Cardinality(rows) /\ IsFiniteSet(tied(i))
    BY <1>2, <1>3, <2>2, FS_Subset
  <2>4. Cardinality(tied(i)) # 0
    BY <2>2, <2>3, FS_EmptySet
  <2>5. /\ Cardinality(after(i)) \in Nat /\ Cardinality(tied(i)) \in Nat
        /\ Cardinality(rows) \in Nat /\ Len(Calls) \in Nat
    BY <1>2, <2>3, FS_CardinalityType, CallsAssumption
  <2> QED
    BY <1>2, <2>3, <2>4, <2>5
<1>4. RecentLogs(table, u, {row.prefix : row \in Rows}, Len(Calls), 0) =
        {i \in rows : /\ Cardinality(after(i)) < Len(Calls) + 0
                      /\ Cardinality(after(i)) + Cardinality(tied(i)) > 0}
  <2> DEFINE a == {i \in DOMAIN table :
                     table[i].user = u /\ table[i].prefix \in {row.prefix : row \in Rows}}
  <2>1. RecentLogs(table, u, {row.prefix : row \in Rows}, Len(Calls), 0) =
          {i \in a : /\ Cardinality({j \in a : table[j].at > table[i].at}) < Len(Calls) + 0
                     /\ Cardinality({j \in a : table[j].at > table[i].at})
                          + Cardinality({j \in a : table[j].at = table[i].at}) > 0}
    BY DEF RecentLogs
  <2>2. a = rows
    BY <1>1
  <2> HIDE DEF a
  <2> QED
    BY <2>1, <2>2, Zenon
<1> HIDE DEF rows, after, tied
<1>5. RecentLogs(table, u, {row.prefix : row \in Rows}, Len(Calls), 0) = rows
  BY <1>3, <1>4
<1> QED
  BY <1>5 DEF rows

\* Whichever clients are shown, they have no more requests than there are.
LEMMA ClientsAreSome ==
  ASSUME GatewayInv, Dated, NEW u, NEW clients \in TopClients(table, u, inserts, inserts, 1)
  PROVE  Total(clients).total <= Cardinality(RowsOf(u))
<1> DEFINE rows == RowsOf(u)
           label == Column(table, "client")
           all == {label[i] : i \in rows}
           byClient == GroupedBy(table, rows, label)
<1>1. Window(table, u, inserts, inserts) = rows /\ IsFiniteSet(rows)
  BY WindowIsAll
<1>2. IsFiniteSet(all)
  BY <1>1, GroupedAddsUp
<1>3. byClient = [x \in all |-> Summary(table, {i \in rows : label[i] = x})]
  BY Zenon DEF GroupedBy
<1>4. PICK shown \in SUBSET all : clients = [c \in shown |-> byClient[c]]
  <2>1. DOMAIN byClient = all
    BY <1>3
  <2>2. \A c \in TopClients(table, u, inserts, inserts, 1) :
          \E shown \in SUBSET DOMAIN byClient : c = [d \in shown |-> byClient[d]]
    BY <1>1 DEF TopClients
  <2> QED
    BY <2>1, <2>2
<1> HIDE DEF rows, label, byClient
<1>5. clients = [x \in shown |-> Summary(table, {i \in rows : label[i] = x})]
  BY <1>3, <1>4
<1>6. IsFiniteSet(shown)
  BY <1>2, <1>4, FS_Subset
<1>7. Total(clients) = Summary(table, Within(rows, label, shown))
  BY <1>1, <1>5, <1>6, GroupsAddUp
<1>8. Total(clients).total = Cardinality(Within(rows, label, shown))
  BY <1>7 DEF Summary
<1>9. Within(rows, label, shown) \in SUBSET rows
  BY DEF Within
<1>10. Cardinality(Within(rows, label, shown)) <= Cardinality(rows)
  BY <1>1, <1>9, FS_Subset
<1> QED
  BY <1>8, <1>10 DEF rows

\* What analyticsApi.js shows a user is what the clients of this user's routes were told:
\* the overview counts their requests, the reports by route, by status and over time add
\* up to it, a bar of the chart stands as it was, the page of the log can show them all,
\* and no choice of clients counts more: however many requests, users, routes, reloads,
\* flushes and restarts there are.
THEOREM ReportsShowTheAnswers == Spec => []ReportsAgree
<1>1. ASSUME GatewayInv, Dated, NEW u \in Users
      PROVE  LET mine == MineOf(u)
                 from(kinds) == Cardinality({r \in mine : req[r].answer.from \in kinds})
                 day == inserts
                 overview == Overview(table, u, inserts, day)
                 bins == OverTime(table, u, inserts, day, 1, TRUE)
             IN  /\ overview = [total |-> Cardinality(mine), hits |-> from({"HIT", "COALESCED"}),
                                limited |-> from({"LIMITER"}),
                                errors |-> Cardinality({r \in mine : req[r].answer.status >= 400})]
                 /\ Total(ByRoute(table, u, inserts, day)) = overview
                 /\ Total(StatusCodes(table, u, inserts, day)) = overview
                 /\ Total(bins) = overview
                 /\ \A t \in DOMAIN bins :
                      LET past ==
                            SubSeq(table, 1, Cardinality({i \in DOMAIN table : table[i].at <= t}))
                      IN  bins[t] = OverTime(past, u, t, 0, 1, FALSE)[t]
                 /\ \A clients \in TopClients(table, u, inserts, day, 1) :
                      Total(clients).total <= overview.total
                 /\ Cardinality(RecentLogs(table, u, {row.prefix : row \in Rows}, Len(Calls), 0)) =
                      overview.total
  <2>1. Overview(table, u, inserts, inserts) = Summary(table, RowsOf(u))
    BY <1>1, WindowIsAll DEF Overview
  <2>2. Window(table, u, inserts, inserts) = RowsOf(u) /\ IsFiniteSet(RowsOf(u))
    BY <1>1, WindowIsAll
  <2>3. Total(ByRoute(table, u, inserts, inserts)) = Summary(table, RowsOf(u))
    <3>1. ByRoute(table, u, inserts, inserts) =
            GroupedBy(table, RowsOf(u), Column(table, "prefix"))
      BY <2>2 DEF ByRoute
    <3> QED
      BY <2>2, <3>1, GroupedAddsUp
  <2>4. Total(StatusCodes(table, u, inserts, inserts)) = Summary(table, RowsOf(u))
    <3>1. StatusCodes(table, u, inserts, inserts) =
            GroupedBy(table, RowsOf(u), Column(table, "status"))
      BY <2>2 DEF StatusCodes
    <3> QED
      BY <2>2, <3>1, GroupedAddsUp
  <2>5. Total(OverTime(table, u, inserts, inserts, 1, TRUE)) = Summary(table, RowsOf(u))
    <3>1. OverTime(table, u, inserts, inserts, 1, TRUE) =
            GroupedBy(table, RowsOf(u), [i \in DOMAIN table |-> table[i].at \div 1])
      BY DEF OverTime, RowsOf
    <3> QED
      BY <2>2, <3>1, GroupedAddsUp
  <2>6. Overview(table, u, inserts, inserts).total = Cardinality(RowsOf(u))
    BY <2>1 DEF Summary
  <2> QED
    BY <1>1, <2>1, <2>3, <2>4, <2>5, <2>6, OverviewIs, BarStands, ClientsAreSome, PageShowsAll
<1>2. GatewayInv /\ Dated => ReportsAgree
  BY <1>1, Zenon DEF ReportsAgree, MineOf
<1> QED
  BY <1>2, Invariant, AlwaysDated, PTL

=============================================================================

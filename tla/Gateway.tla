------------------------------ MODULE Gateway ------------------------------
(***************************************************************************)
(* proxy/interceptor.js among the parts it calls: the middleware in front  *)
(* of it, the registry that swaps routes while requests are under way, the *)
(* limiter, getOrFetch with its cache and its inflight map, the log buffer *)
(* and the table it is flushed to, and a process that may end and start    *)
(* again.                                                                  *)
(*                                                                         *)
(* Each action is what the handler does from one await to the next.  What  *)
(* the modules of the parts show in detail is abstracted: the limiter      *)
(* allows or refuses, a settled fetch and the microtasks behind it are one *)
(* step, the registry changes from row to row, a cache entry with a        *)
(* deadline expires at some time, and only the timer flushes the buffer.   *)
(***************************************************************************)
EXTENDS Analytics, SequencesExt

CONSTANTS
  Calls,       \* the requests that clients send, a bounded sequence: for each, the
               \* calls (client, method, host, path, query and body) it may be
  Paths,       \* the paths below the prefixes of managed routes
  Rows,        \* the rows of the routes table that the registry may hold
  FirstRow,    \* per path, the row at the start
  NoRoute,     \* no route matches
  Users,
  Names,       \* the names of query parameters, in the order of sort()
  Capacity,    \* LRU_CAPACITY
  Statuses,    \* what upstreams answer
  MaxChanges,  \* bound on the changes of the registry
  MaxRestarts   \* bound on the restarts of the process

\* cache_ttl_ms of a route that sets none
Null == -1

Bodies == {"none", "json", "streamed"}

\* The requests, numbered in the order in which they come.
Requests == DOMAIN Calls

\* A text: the separators "&", "=" and "," in it and what stands between them.
Texts == Seq(STRING)

\* What a parameter of req.query is: ?a=1 has the string 1, ?a=1&a=2 an array, and
\* ?a[b]=1 an object.  A string has one part; escapes are decoded, so it may hold any
\* of the separators.
Values == [is : {"string", "array", "object"}, parts : Seq(Texts)]

ASSUME CallsAssumption ==
  /\ Len(Calls) \in Nat /\ Requests = 1 .. Len(Calls)
  /\ \A r \in Requests : \A c \in Calls[r] :
       /\ c.path \in Paths /\ c.body \in Bodies
       /\ DOMAIN c.query \subseteq {Names[i] : i \in DOMAIN Names}
       /\ c.query \in [DOMAIN c.query -> Values]
       /\ \A n \in DOMAIN c.query : c.query[n].is = "string" => Len(c.query[n].parts) = 1
ASSUME NamesAssumption ==
  Names \in Seq(Texts) /\ \A i, j \in DOMAIN Names : Names[i] = Names[j] => i = j
ASSUME RowsAssumption ==
  /\ NoRoute \notin Rows
  /\ FirstRow \in [Paths -> Rows \cup {NoRoute}]
  /\ \A row \in Rows : /\ row.ttl \in Nat \cup {Null} /\ row.owner \in Users
                        /\ row.limited \in BOOLEAN /\ row.cached \in BOOLEAN
ASSUME BoundsAssumption ==
  /\ MaxChanges \in Nat /\ MaxRestarts \in Nat
  /\ Capacity \in Nat \ {0}
  /\ Statuses \subseteq 100 .. 599

VARIABLES
  registry, \* per path, the row that matchRoute finds
  req,      \* per request: how far its handler has come, and its history
  cache,    \* the LRU cache, per key the live entry
  recency,  \* the keys of the cache, the oldest first
  inflight, \* per key being fetched: the fetcher and who has attached to it
  buffer,   \* the logger's buffer
  table,    \* request_logs
  inserts,  \* how many INSERTs the table has seen: the time of its rows
  lost,     \* history: the entries that a crash has taken
  changes,  \* how often the registry has changed
  restarts   \* how often the process has ended

caching == <<cache, recency, inflight>>
logger == <<buffer, table, inserts, lost>>
vars == <<registry, req, caching, logger, changes, restarts>>

NoAnswer == [status |-> 0, from |-> "none", fetcher |-> Null, origin |-> Null]

Idle == [stage |-> "idle", call |-> Null, row |-> NoRoute, charged |-> FALSE,
         sent |-> Null, seen |-> {}, answer |-> NoAnswer]

\* A request that is never answered.
Gone == [Idle EXCEPT !.stage = "gone"]

Init ==
  /\ registry = FirstRow
  /\ req = [r \in Requests |-> Idle]
  /\ cache = [k \in {} |-> Null]
  /\ recency = <<>>
  /\ inflight = [k \in {} |-> <<>>]
  /\ buffer = <<>> /\ table = <<>> /\ lost = {}
  /\ inserts = 0
  /\ changes = 0
  /\ restarts = 0

UnderWay == {r \in Requests : req[r].stage \in {"body", "fetching", "attached"}}

-----------------------------------------------------------------------------
\* A parsed value in a template literal: an array prints its items with commas between
\* them, and every object the same.
Text(value) ==
  IF value.is = "object" THEN <<"[object Object]">>
  ELSE FlattenSeq([i \in DOMAIN value.parts |->
         IF i = 1 THEN value.parts[i] ELSE <<",">> \o value.parts[i]])

\* The parameters k=v in the order of their names, each after its separator, the first
\* one of which is the "?"; nothing is escaped.
QueryText(query) ==
  FlattenSeq([i \in DOMAIN Names |->
    IF Names[i] \in DOMAIN query
    THEN <<"&">> \o (Names[i] \o (<<"=">> \o Text(query[Names[i]])))
    ELSE <<>>])

\* Mutant: the query is no part of the key.
CacheKeyOfPath(c) == <<c.method, c.host, c.path>>

\* buildCacheKey: neither the route nor its upstream is part of the key.  No host has a
\* slash and each path begins with one, so that the parts before the query can be told apart.
CacheKey(c) == <<c.method, c.host, c.path, QueryText(c.query)>>

IsCacheable(c) == c.method = "GET"

\* The ttlMs argument of getOrFetch.
TtlArg(row) == IF row.cached THEN row.ttl ELSE Null

\* The entry that log() is called with; it has no time before it is in the table.
Entry(r, q) ==
  [request |-> r, user |-> q.row.owner, route |-> q.row.id, prefix |-> q.row.prefix,
   client |-> q.call.client, status |-> q.answer.status,
   hit |-> q.answer.from \in {"HIT", "COALESCED"},
   limited |-> q.answer.from = "LIMITER",
   at |-> Null]

\* The answer sent: its status, where it is from, and, if it is an upstream's,
\* which upstream gave it and to the fetch of which request.
Answered(q, status, from, fetcher, origin) ==
  [q EXCEPT !.stage = "done",
            !.answer = [status |-> status, from |-> from,
                        fetcher |-> fetcher, origin |-> origin]]

AnsweredHere(q, status, from) == Answered(q, status, from, Null, Null)

Note(r, q) == req' = [req EXCEPT ![r] = q]

\* A request that ends in this very step is answered and logged.
EndAndLog(r, q) == Note(r, q) /\ buffer' = Append(buffer, Entry(r, q))

\* Mutant: the route is looked up again once the body is there.
ForwardedAnew(q) ==
  LET row == IF registry[q.call.path] = NoRoute THEN q.row ELSE registry[q.call.path]
  IN  [q EXCEPT !.stage = "fetching", !.sent = row.upstream]

\* forwardRequest: the request goes to the upstream of the row it was given.
Forwarded(q) == [q EXCEPT !.stage = "fetching", !.sent = q.row.upstream]

\* getOrFetch for a request that is not cacheable.
Bypass(r, q) ==
  /\ ~IsCacheable(q.call)
  /\ Note(r, Forwarded(q))
  /\ UNCHANGED <<caching, buffer>>

Hit(r, q) ==
  LET k == CacheKey(q.call)
  IN  /\ IsCacheable(q.call)
      /\ k \in DOMAIN cache
      /\ EndAndLog(r, Answered(q, cache[k].status, "HIT", cache[k].fetcher, cache[k].origin))
      /\ recency' = Append(Remove(recency, k), k)
      /\ UNCHANGED <<cache, inflight>>

Attach(r, q) ==
  LET k == CacheKey(q.call)
  IN  /\ IsCacheable(q.call)
      /\ k \notin DOMAIN cache
      /\ k \in DOMAIN inflight
      /\ Note(r, [q EXCEPT !.stage = "attached"])
      /\ inflight' = [inflight EXCEPT ![k] = Append(@, r)]
      /\ UNCHANGED <<cache, recency, buffer>>

Fetch(r, q) ==
  LET k == CacheKey(q.call)
  IN  /\ IsCacheable(q.call)
      /\ k \notin DOMAIN cache
      /\ k \notin DOMAIN inflight
      /\ Note(r, Forwarded(q))
      /\ inflight' = [j \in DOMAIN inflight \cup {k} |->
                        IF j = k THEN <<r>> ELSE inflight[j]]
      /\ UNCHANGED <<cache, recency, buffer>>

GetOrFetch(r, q) == Bypass(r, q) \/ Hit(r, q) \/ Attach(r, q) \/ Fetch(r, q)

-----------------------------------------------------------------------------
\* The next request reaches the handlers, and the interceptor matches its route.
Taken(c) == [Idle EXCEPT !.call = c, !.row = registry[c.path], !.seen = {registry[c.path]}]

IsNext(r) == req[r].stage = "idle" /\ \A q \in 1 .. r - 1 : req[q].stage # "idle"

\* express.json() refuses the body: the error handler answers with the status
\* of the error, before any route is looked for.
Unparsable(r, c) ==
  /\ c.body = "json"
  /\ Note(r, AnsweredHere(Idle, 400, "errorHandler"))
  /\ UNCHANGED <<caching, buffer>>

\* No route matches: next() leads to the 404 fallback.
Unrouted(r, c) ==
  /\ registry[c.path] = NoRoute
  /\ Note(r, AnsweredHere(Idle, 404, "fallback"))
  /\ UNCHANGED <<caching, buffer>>

\* Mutant: the handler does not return after the 429.
RefusedAndForwarded(r, c) ==
  /\ c.body = "none"
  /\ registry[c.path] # NoRoute
  /\ registry[c.path].limited
  /\ LET q == AnsweredHere([Taken(c) EXCEPT !.charged = TRUE], 429, "LIMITER")
     IN  Note(r, [q EXCEPT !.stage = "body"]) /\ buffer' = Append(buffer, Entry(r, q))
  /\ UNCHANGED caching

\* consumeToken refuses.
Refused(r, c) ==
  /\ registry[c.path] # NoRoute
  /\ registry[c.path].limited
  /\ EndAndLog(r, AnsweredHere([Taken(c) EXCEPT !.charged = TRUE], 429, "LIMITER"))
  /\ UNCHANGED caching

\* The route has no limit, or its limiter allows the request.  A body that
\* express.json() has parsed is at hand; of any other, an empty one included, the
\* end is awaited.
Admitted(r, c) ==
  LET q == [Taken(c) EXCEPT !.charged = registry[c.path].limited]
  IN  /\ registry[c.path] # NoRoute
      /\ IF c.body = "json"
         THEN GetOrFetch(r, q)
         ELSE Note(r, [q EXCEPT !.stage = "body"]) /\ UNCHANGED <<caching, buffer>>

Arrive(r, c) ==
  /\ IsNext(r)
  /\ Unparsable(r, c) \/ Unrouted(r, c) \/ Refused(r, c) \/ Admitted(r, c)
  /\ UNCHANGED <<registry, table, inserts, lost, changes, restarts>>

\* "end" of the request's stream.
EndOfBody(r) ==
  /\ req[r].stage = "body"
  /\ GetOrFetch(r, req[r])
  /\ UNCHANGED <<registry, table, inserts, lost, changes, restarts>>

\* The client goes away before the end of its body: "end" never comes, and the
\* promise is never settled.
Abort(r) ==
  /\ req[r].stage = "body"
  /\ req[r].call.body = "streamed"
  /\ Note(r, Gone)
  /\ UNCHANGED <<registry, caching, logger, changes, restarts>>

-----------------------------------------------------------------------------
\* Mutant: those who have attached to the fetch are not told.
WaitingAlone(r) == <<r>>

\* Who awaits the fetch of r, in the order of their microtasks.
Waiting(r) ==
  IF IsCacheable(req[r].call) THEN inflight[CacheKey(req[r].call)] ELSE <<r>>

\* put(): the oldest key leaves a full cache; only a positive time to live
\* gives the entry a deadline, and null is not.
Entered(k, r, status) ==
  LET keys == IF k \notin DOMAIN cache /\ Cardinality(DOMAIN cache) >= Capacity
              THEN DOMAIN cache \ {Head(recency)}
              ELSE DOMAIN cache
  IN  /\ cache' = [j \in keys \cup {k} |->
           IF j # k THEN cache[j]
           ELSE [status |-> status, origin |-> req[r].sent, fetcher |-> r,
                 expires |-> TtlArg(req[r].row) > 0]]
      /\ recency' = Append(SelectSeq(recency, LAMBDA j : j \in keys \ {k}), k)

\* forwardRequest rejects: on an error of the connection or after 15 s without an answer.
Rejected == 0

\* The catch block answers 502; an upstream may answer that as well.
StatusOf(reply) == IF reply = Rejected THEN 502 ELSE reply

\* forwardRequest resolves with a status, or it rejects.  The fetcher caches a good
\* answer and clears the inflight map, and whoever waits is answered and
\* logged, each under its own route.
Settle(r, reply) ==
  LET waiting == Waiting(r)
      status == StatusOf(reply)
      from(w) == IF reply = Rejected THEN "catch" ELSE IF w = r THEN "MISS" ELSE "COALESCED"
      ended(w) == Answered(req[w], status, from(w), r, req[r].sent)
      key     == CacheKey(req[r].call)
  IN  /\ req[r].stage = "fetching"
      /\ req' = [w \in Requests |-> IF w \in Range(waiting) THEN ended(w) ELSE req[w]]
      /\ buffer' = buffer \o [i \in DOMAIN waiting |-> Entry(waiting[i], ended(waiting[i]))]
      /\ inflight' = [k \in {j \in DOMAIN inflight : inflight[j] # waiting} |-> inflight[k]]
      /\ IF IsCacheable(req[r].call) /\ status < 400
         THEN Entered(key, r, status)
         ELSE UNCHANGED <<cache, recency>>
      /\ UNCHANGED <<registry, table, inserts, lost, changes, restarts>>

\* get() on an expired entry removes it.
Expire(k) ==
  /\ k \in DOMAIN cache
  /\ cache[k].expires
  /\ cache' = [j \in DOMAIN cache \ {k} |-> cache[j]]
  /\ recency' = Remove(recency, k)
  /\ UNCHANGED <<registry, req, inflight, logger, changes, restarts>>

\* loadRoutes() swaps a map in which the path has another row, or none.
Reload(p) ==
  /\ changes < MaxChanges
  /\ changes' = changes + 1
  /\ \E row \in (Rows \cup {NoRoute}) \ {registry[p]} :
       /\ registry' = [registry EXCEPT ![p] = row]
       /\ req' = [r \in Requests |->
            IF r \in UnderWay /\ req[r].call.path = p
            THEN [req[r] EXCEPT !.seen = @ \cup {row}] ELSE req[r]]
  /\ UNCHANGED <<caching, logger, restarts>>

-----------------------------------------------------------------------------
\* The timer of the logger: flush() writes the whole buffer with one INSERT, and
\* MySQL gives all its rows the time of that INSERT.  A failing INSERT leaves
\* the entries where they are; what becomes of those logged while an INSERT is
\* in flight is in BatchLogger.
Flush ==
  /\ buffer # <<>>
  /\ table' = table \o [i \in DOMAIN buffer |-> [buffer[i] EXCEPT !.at = inserts + 1]]
  /\ inserts' = inserts + 1
  /\ buffer' = <<>>
  /\ UNCHANGED <<registry, req, caching, lost, changes, restarts>>

\* The query of a handler without a try block rejects: nothing handles the
\* rejection, Node ends the process, and when it is started again start() loads
\* the routes and all else begins empty.  Clients see their connection reset.  (A
\* process that holds nothing would lose nothing.)
Restart ==
  /\ UnderWay # {} \/ buffer # <<>> \/ recency # <<>>
  /\ restarts < MaxRestarts
  /\ restarts' = restarts + 1
  /\ req' = [r \in Requests |->
       IF r \in UnderWay THEN Gone ELSE req[r]]
  /\ cache' = [k \in {} |-> Null] /\ recency' = <<>> /\ inflight' = [k \in {} |-> <<>>]
  /\ buffer' = <<>>
  /\ lost' = lost \cup Range(buffer)
  /\ UNCHANGED <<registry, table, inserts, changes>>

Next ==
  \/ \E r \in Requests : \E c \in Calls[r] : Arrive(r, c)
  \/ \E r \in Requests : EndOfBody(r) \/ Abort(r)
  \/ \E r \in Requests, reply \in Statuses \cup {Rejected} : Settle(r, reply)
  \/ \E k \in DOMAIN cache : Expire(k)
  \/ \E p \in Paths : Reload(p)
  \/ Flush \/ Restart

Spec == Init /\ [][Next]_vars

\* Every body that is not aborted ends, every upstream request is answered, fails
\* or times out, entries reach their deadline, and the logger's timer and the
\* database go on.
Fairness ==
  /\ WF_vars(\E r \in Requests :
       EndOfBody(r) \/ \E reply \in Statuses \cup {Rejected} : Settle(r, reply))
  /\ WF_vars(\E k \in DOMAIN cache : Expire(k))
  /\ WF_vars(Flush)

FairSpec == Spec /\ Fairness

-----------------------------------------------------------------------------
Logged == table \o buffer
Entries == Range(Logged) \cup lost

\* The requests that the interceptor has answered for one of its routes.
Proxied == {r \in Requests : req[r].stage = "done" /\ req[r].row # NoRoute}

Shared == {r \in Proxied : req[r].answer.from \in {"HIT", "COALESCED"}}

\* interceptor.js calls log() on three paths, for one request or for all that waited
\* for a fetch, and the logger moves entries from its buffer to the table: every request
\* that was answered for a route has one entry and no more, unless the process
\* ended, and it says what the client was told.
LoggedOnce ==
  /\ Len(Logged) + Cardinality(lost) = Cardinality(Proxied)
  /\ {e.request : e \in Entries} = Proxied
  /\ \A e \in Entries :
       LET answer == req[e.request].answer
       IN  /\ e.status = answer.status
           /\ e.hit <=> answer.from \in {"HIT", "COALESCED"}
           /\ e.limited <=> answer.from = "LIMITER"

\* The handler reads its route once, before it awaits the body, and the registry
\* may swap the row meanwhile: the limit that was applied, the upstream that was
\* asked, the lifetime of what was cached and the owner in the log are those of
\* one row, and of one the registry held while the request was under way.
OneRoute ==
  /\ \A r \in Requests :
       req[r].stage \in {"fetching", "attached"} \/ r \in Proxied =>
         \E row \in req[r].seen \ {NoRoute} :
           /\ req[r].charged <=> row.limited
           /\ req[r].sent \in {Null, row.upstream}
           /\ \A e \in Entries : e.request = r => e.user = row.owner /\ e.route = row.id
  /\ \A k \in DOMAIN cache : \E row \in req[cache[k].fetcher].seen \ {NoRoute} :
       cache[k].origin = row.upstream /\ (cache[k].expires <=> TtlArg(row) > 0)

\* A query that prints as it can be read: all values are strings, and no value holds
\* the separator of the parameters and no name that or an equals sign.
Plain(query) ==
  \A n \in DOMAIN query :
    /\ query[n].is = "string"
    /\ "&" \notin Range(query[n].parts[1])
    /\ {"&", "="} \cap Range(n) = {}

\* The queries that buildCacheKey does not tell apart print the same, which different ones
\* may do; but two plain ones do so only if they have the same names and values.
SameQuery(a, b) == QueryText(a) = QueryText(b) /\ (Plain(a) /\ Plain(b) => a = b)

\* The comment at buildCacheKey: the key includes the method, the host, the path
\* and the sorted query.  A request that is answered from the cache or from the
\* fetch of another gets what an upstream said to a request of the same method, host
\* and path whose query is the same, if both are plain, and prints the same in any case,
\* whatever was evicted, fetched again and coalesced between.
SharedAnswer ==
  \A r \in Shared :
    LET f == req[r].answer.fetcher
    IN  /\ f # r /\ req[f].sent = req[r].answer.origin
        /\ f \in Proxied => req[f].answer.status = req[r].answer.status
        /\ \A field \in {"method", "host", "path"} :
             req[f].call[field] = req[r].call[field]
        /\ SameQuery(req[f].call.query, req[r].call.query)

\* analyticsApi.js reads what interceptor.js logs: the overview of a user counts
\* the stored requests that routes of this user answered, with the cache hits,
\* refusals and errors that clients saw, and the other reports add up to it; and the
\* bar of a moment in the chart of all time is the one that a chart of that moment had.
ReportsAgree ==
  table # <<>> => \A u \in Users :
    LET mine == {r \in {e.request : e \in Range(table)} : req[r].row.owner = u}
        from(kinds) == Cardinality({r \in mine : req[r].answer.from \in kinds})
        day == inserts
        overview == Overview(table, u, inserts, day)
        bins == OverTime(table, u, inserts, day, 1, TRUE)
    IN  /\ overview = [total |-> Cardinality(mine), hits |-> from({"HIT", "COALESCED"}),
                       limited |-> from({"LIMITER"}),
                       errors |-> Cardinality({r \in mine : req[r].answer.status >= 400})]
        /\ Total(ByRoute(table, u, inserts, day)) = overview
        /\ Total(StatusCodes(table, u, inserts, day)) = overview
        /\ Total(bins) = overview
        /\ \A t \in DOMAIN bins :
             LET past == SubSeq(table, 1, Cardinality({i \in DOMAIN table : table[i].at <= t}))
             IN  bins[t] = OverTime(past, u, t, 0, 1, FALSE)[t]
        /\ \A clients \in TopClients(table, u, inserts, day, 1) :
             Total(clients).total <= overview.total
        /\ Cardinality(RecentLogs(table, u, {row.prefix : row \in Rows}, Len(Calls), 0)) =
             overview.total

\* Once clients stop asking and the process stays up, every request that was not
\* aborted is answered and its entry is in the table, and what is left in the
\* cache are entries without a deadline: a route that has moved stops serving its
\* old upstream's answers.
SettlesDown ==
  <>[](/\ UnderWay = {} /\ buffer = <<>>
       /\ \A k \in DOMAIN cache :
            \E row \in req[cache[k].fetcher].seen \ {NoRoute} : ~row.cached \/ row.ttl = Null)

=============================================================================

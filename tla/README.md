# GhostProxy in TLA+

GhostProxy is a reverse proxy in Node.js: it matches a request against routes
kept in MySQL, limits the rate of each client, answers GETs from an LRU cache or
by one shared fetch per resource, and logs every request in batches. A dashboard
manages routes, accounts and API keys.

This directory models the parts of it that keep state, checks them with TLC on
small instances and proves some of the results with TLAPS for all instances.
Paths below are relative to `src/server/src/` unless they say otherwise.

## 1. Inventory

| Component | State | Operations | Hard behaviour |
|---|---|---|---|
| Token bucket limiter `ratelimiter/tokenBucket.js` | `BucketStore.buckets`: per `ip:prefix` capacity, rate, tokens, last refill, last use | `consumeToken` (create, refill, take), `_prune` on a timer | wall clock that is set back; limits that change under a live bucket; pruning a bucket that is not full |
| LRU cache `cache/LRUCache.js` | map, doubly linked list, counters | `get` (expires lazily), `put` (evicts), `delete`, `clear`, `getMetrics` | pointer surgery; expiry against eviction; `null` as time to live |
| Cache manager `cache/cacheManager.js` | the cache and the `inflight` map of promises | `getOrFetch` | requests interleaving at `await`; failing fetches; stale answers |
| Batch logger `logger/batchLogger.js` | `buffer`, `isFlushing`, the timer | `log`, `flush`, `startFlushing`, `stopFlushing` | `flush` re-entered while an INSERT is in flight; failed and unacknowledged INSERTs |
| Process lifecycle `server.js` | listening socket, 15 s timer, pool | `start`, `shutdown` on SIGTERM and SIGINT | shutdown racing flushes, requests and itself |
| Interceptor `proxy/interceptor.js` | none of its own | one handler: route, limiter, body, `getOrFetch`, response, `log` | reads the route before an `await` and uses it after; body that never ends |
| Route registry `proxy/routeRegistry.js` | sorted array of routes | `loadRoutes` (timer and API), `matchRoute` | reloads that overlap and finish out of order |
| Routes API `routes/routesApi.js` | table `routes` | create, update, toggle, delete, each followed by `loadRoutes` | acknowledged changes undone by an older reload |
| Sessions `auth/tokenService.js`, `auth/authController.js`, `auth/authMiddleware.js` | table `refresh_tokens`, cookies, JWTs | login, refresh (rotation), logout | rotation in three statements; logout during a rotation |
| Accounts and API keys `auth/authController.js`, `routes/accountApi.js`, `routes/apiKeysApi.js` | tables `users` and `api_keys` | register, password check, password change, profile, create, list and delete keys | a hash that is read, compared and overwritten in three awaits; a crash between them |
| Dashboard client `src/ui/src/api/client.js`, `store/authStore.js`, `App.jsx` | access token of each page, cookie of each browser | calls with silent refresh on 401, refresh on page load, login, logout | parallel 401s that refresh with the same cookie |
| Dashboard pages `src/ui/src/pages/*.jsx`, `component/layout/Header.jsx`, `main.jsx` | forms, and one query cache per document | register, log in, settings, logout; lists that are fetched, invalidated and fetched again | answers that come after a logout, a navigation or a newer answer |
| Analytics `routes/analyticsApi.js` | none: reads `request_logs` | six reports | adding up to what clients were told |
| Error handlers `middleware/errorhandler.js`, `ErrorHandler.js` | none | answer what a handler passes to `next(err)` | what an async handler rejects with does not reach them |
| Schema `db/migrate.js`, pool `db/pool.js` | tables, connections | migration, configuration | - |

**Interaction.** A request enters the interceptor, which reads the registry,
calls `consumeToken` with the limits of the route, awaits the body, calls
`getOrFetch` with a function that forwards the request, and calls `log` when the
answer is sent. The limiter, the cache and the logger share nothing with each
other; they are coupled by the interceptor, by the routes' configuration
(limits, `cache_enabled`, `cache_ttl_ms`) and by the process, whose end takes
the buffer of the logger with it. Everything runs on one event loop: code between
two `await`s is atomic, and interleaving happens only at `await`s and at timers.

**What makes each component correct.**
- Limiter: no window holds more grants than burst plus refill; a client that
  waits `resetAfterMs` is let through; forgetting a bucket gives nothing away.
- LRU cache: list and map hold the same keys; the least recently used key goes;
  the counters add up; an entry is gone after its deadline.
- Cache manager: one fetch per key at a time; the inflight map is cleaned
  whatever happens; a cached answer is what the upstream said and not older than
  its lifetime allows; answers do not go back in time; every call returns.
- Logger: every entry is stored, in order, once (at least once when an
  acknowledgement is lost); the flag does not stick; nothing is lost by a
  clean shutdown.
- Registry: it is a copy of one table that existed, an acknowledged change is
  live, a request gets its longest prefix, and in the end it agrees with the table.
- Sessions: a refresh token is used once; what a logout revokes stays revoked; nobody is logged out
  without a reason; every call of the dashboard ends.
- Interceptor: a request is served under one row of the registry; what it was
  answered is logged once; it shares answers only with requests that read the same;
  nobody waits for ever behind somebody else.
- Analytics: the reports of a user add up to what clients of his routes were told.
- Accounts and pages: nobody gets in with a password the account did not have; an
  acknowledged change stands; a list shows the user's own writes, and only to him;
  no page is left signed in without a token.

The hazards of the code, each at its line, are in `PROJECT.json`.

## 2. Plan

Done, in this order (most important behaviour first):

1. `TokenBucket` against `EagerBucket`; proofs in `TokenBucketProofs`.
2. `Recency` (operators), `LRUPolicy` (abstract cache), `LRUCache` (list and map);
   proofs in `LRUCacheProofs`.
3. `CacheManager`, over `Recency`; proofs in `CacheManagerProofs`.
4. `BatchLogger` with the shutdown of `server.js`; proofs in `BatchLoggerProofs`.
5. `RouteRegistry`, registry and routes API; proofs in `RouteRegistryProofs`.
6. `Sessions`, server and dashboard; proofs in `SessionsProofs`.
7. `Gateway`, the interceptor as a whole over the parts it calls, with `Analytics`,
   the reports on what it logs; proofs in `GatewayProofs`.
8. `Accounts`, the account and API key handlers with the pages that call them; proofs in
   `AccountsProofs`.

Every safety property that a passing run checks, every action property and both
refinements are proved as well. What is left is liveness, which stays with TLC.

## 3. Modules

### EagerBucket, TokenBucket, MCTokenBucket, TokenBucketProofs

`TokenBucket` is `tokenBucket.js`. All its operations are synchronous, so each is
one action: `Consume(k)` is a whole `consumeToken` (`getBucket`, `consume` with
its lazy refill, the result), `Prune` is `_prune`, `Reconfigure` a PATCH of the
route's limits reaching the registry, and `Tick` the wall clock, which may also be
set back. `buckets` is `BucketStore.buckets`, a partial function. Time is in
ticks, `Second` to a second, and tokens are counted in units of one
`Second`-th: `elapsed * rate` is then exact, and only the rounding of floating
point is abstracted. `grants`, `first` and `seen` are history for the
properties: what was granted when, where in it the present bucket begins, and the
latest clock the bucket has read.

`EagerBucket` says what a bucket promises without any refill computation: a level
that rises with every tick and that a grant lowers by a token.
`ImplementsEager` is the refinement: the level of the abstract bucket is
`Refill(bucket).tokens`.

### Recency, LRUPolicy, LRUCache, MCLRUCache, LRUCacheProofs

`Recency` holds the operators of a cache seen from outside: a partial function
and a strict order of recency, with `get` and `put` as functions on them.
`LRUPolicy` makes a specification of them. `LRUCache` is the code: `map`, the
pointers `next` and `prev` of the nodes and of the two sentinels, and the
surgery of `_detach`, `_insertAtHead`, `_moveToHead` and `_evictLRU`, which are
operators that `Get`, `Put`, `Delete` and `Clear` apply in the order of the code.
`ImplementsPolicy` maps the walk along `next` to the order of recency.

### CacheManager, MCCacheManager, CacheManagerProofs

One action per stretch of `getOrFetch` between two awaits. A call enters as
`Bypass` (not a GET), `Hit`, `Attach` (another request is fetching the key) or
`Fetch`. `promise[r]` is the upstream fetch of request `r`, `Serve` and `Settle`
are the upstream's and the connection's steps (answer, error, timeout), and the
requests that await a promise are its `reactions`, which become `microtasks` when
it settles. `Resume` runs the first microtask: `ResumeFetcher` stores a good
answer in the cache and clears the map (the `finally`), `ResumeOther` only
returns. The cache is that of `Recency`, which `LRUCache` implements. The
upstream is a version number per key that writes (`Bypass`) and others
(`Change`) advance, so that staleness can be stated; `asOf` and the fields
`since`, `storedAt` and `ttl` of an entry are history. The model lets a call
come in between the settling of a promise and its microtasks, slightly more than
the event loop does.

### BatchLogger, MCBatchLogger, BatchLoggerProofs

`batchLogger.js` and the shutdown of `server.js`. `Accept`, `HangUp`, `Finish` and
`FinishOrphan` are the life of a request, as far as the logger is concerned;
`Finish` is the call of `log`, which flushes a full buffer. `Flush` is the part of
`flush()` before its `await`; `FlushSucceeds` and `FlushFails` are the parts
after it, with the `catch` (`Requeue`) and the `finally` (`Release`).
`DatabaseActs` decides what becomes of the INSERT: stored, failed, or stored with
its acknowledgement lost. `Shutdown`, `StopFlushing`, `EndPool`, `ExitClean` and
`ExitForced` are the steps of `shutdown`, per signal: nothing in the code keeps
SIGINT from running it a second time. `EndPool` follows mysql2: an INSERT in
flight finishes, a later one is refused. `disturbed` is history: whether an INSERT was in
flight when `stopFlushing` called `flush()`, one failed, or an entry was logged, after
the shutdown began to flush.

### RouteRegistry, MCRouteRegistry, RouteRegistryProofs

`routeRegistry.js` with the writers of `routesApi.js`. `table` is `routes`,
`registry` the Map: for each prefix its route and its place in the order of
insertion, which is what `matchRoute` walks. `Active`, `Sortings` and `MapOf` are the
three statements of `loadRoutes` (the WHERE, the sort, the Map); a sort leaves rows
of equal length in an order of the database's choice. A load is `Read` (its query
is executed), then `Finish`, which installs the Map; the code keeps no two loads
apart, so any number of them overlap. A handler is `Send` (validation, the
statement leaves), `Execute` or `StatementFails` (which may have been executed
all the same), and `Continue`, which answers at once or starts the load that it
awaits. `Reject` is a PATCH without a valid field. Prefixes are sequences of
fragments. `past`, `version` and `installed` are history. The model identifies a
row by user and prefix, as the 409 of the API and the documentation do; the
migration script in the repository creates an older table.

### Sessions, MCSessions, SessionsProofs

The table `refresh_tokens`, the cookie and the auth store of each browser, and the
calls of the dashboard, each a record that goes through the stages `sent`,
`answered` or `refused`, then `refreshing`, `selected`, `deleted`, `rotated` or
`failed`. The server's actions are its statements: `Select`, `Delete` and `Insert` are
the three of `rotateRefreshToken`, between which anything may happen. The
browser's are the two interceptors of `client.js` (`Call`; `RefreshAfter401`,
`Refreshed`, `RefreshFails`, `Reject`), the refresh of `App` on page load (`LoadPage`,
`LoadAsGuest`), and the pages' login and logout. `Unload` is what going to `/login` by
`window.location` does: the store is lost, and calls under way go on at the
server with nobody waiting (`Ignored`). A refresh token is named after the
request that created it. Of an access token only its age is kept, as it was when
the request left: one that expires on its way is a call sent a little later. A
refused call is a 401 of `requireAuth` or of a wrong password, which the
interceptor does not tell apart. A query that fails may have been executed or not, each
of the three and `revokeAllRefreshTokens` (`QueryFails`). `origin`, `parent`, `shared`,
`loggedOut`, `ended` and `outlived` are history. `ended` are the sessions that a logout
ended: those of all tokens of the user in the table, and those of rotations of the user
that are between their DELETE and INSERT, or between SELECT and DELETE (`EndedBy`). Such a
rotation goes on to insert a token which the logout did not see. `RevokedStaysDead` lets
exactly these tokens live, and what descends from them: `outlived` are the rotations, and
their tokens begin a session of their own (`Stored`).

### Analytics, Gateway, MCGateway, GatewayProofs

`Gateway` is `interceptor.js` among the parts it calls. `req[r].stage` says at which
`await` the handler of a request is: `body` (the promise of lines 90-94), `fetching` or
`attached` (line 122, as the fetcher or behind another's fetch), `done`, or `gone`.
`Arrive` is the middleware and the handler up to its first await: `Unparsable` (a
body that `express.json()` refuses), `Unrouted` (the 404 fallback), `Refused` (429)
or `Admitted`. `GetOrFetch` is `getOrFetch` up to its await, as `Bypass`, `Hit`,
`Attach` or `Fetch`. `Settle` is the end of an upstream request with all that follows in
the microtasks behind it: the cache, the inflight map, the answers and the log
entries of everyone who waited, or the 502 of the `catch`. `Reload` swaps the row that
`matchRoute` finds for a path, `Flush` is the logger's INSERT, `Abort` a client that
goes away while sending its body, and `Restart` the end of the process by a rejected
query (which no handler of Express 4 catches) and its next start.

`CacheKey` is `buildCacheKey`, its unescaped text included. A query is a function from names
to values: strings, arrays (`?a=1&a=2`) and objects (`?a[b]=1`), as Express parses and
decodes them. A text is a sequence of the separators `&`, `=` and `,` and of what stands
between them; `Text` is what the template literal makes of a value, an array with commas and
every object the same, and `QueryText` joins names and values in the order of `Names`, which
is that of `sort()`. So `?a=1%2C2` and `?a=1&a=2` have one key in the model as in the
code, and so have `?a=1%26b%3D3` and `?a=1&b=3`. A `Plain` query is one that can be read
back from its text: all values are strings, without a `&`, and its names have no `&` and no
`=`. `SharedAnswer` promises no more than the code gives: who shares an answer has asked for
the same method, host and path with a query that prints the same, and if both queries are
plain they are the same query. A host has no slash and a path begins with one, so the
rest of the key has one reading and stays a tuple.

What another module shows in detail is abstracted here: the limiter allows or
refuses at will, a settled fetch and its microtasks are one step, the registry changes
row by row, an entry with a deadline expires at some time, and only a timer flushes.

`Analytics` has the six reports of `analyticsApi.js` as functions of the rows of
`request_logs`. Rows of one INSERT have one `created_at`, so `TopClients` gives the
set of the answers MySQL may choose and `RecentLogs` the rows that a page may show.
`ReportsAgree`, in `Gateway`, compares them with what clients were told. `seen`, `sent`,
`charged` and `answer` of a request and the `fetcher` and `origin` of a cache entry
are history.

### Accounts, MCAccounts, AccountsProofs

The tables `users` (`password`, the password a hash was made of) and `api_keys`
(`keys`), the calls of pages, and the pages. A call goes through the statements of its
handler: `Refuse` or `Register`; `Lookup`, `Compare`, `Update` for a login or a password
change; `Rename`, `CreateKey`, `DeleteKey`. `Crash` is a query that rejects: the process
ends and no call under way is answered, whatever has been executed. `Take` is the
answer at the page, through the interceptor of `client.js`: a 401 leads to one silent
refresh and to the same call once more (`Resent`), or to `/login` in a new document
(`Unrefreshed`). A page has its auth store (`in`, `out`, or `hollow`: the session without a
token that `Register.jsx:18` stores), its cookie, and the query `['api-keys']` with its
fetch. `Visit` mounts the settings page, `Invalidated` is `invalidateQueries`, `Logout` is
`handleLogout`, which stays in the document. Tokens are in `Sessions`; here a cookie
names the account it can be turned into a token of. `setBy`, `valid`, `before` and
`settled` are history.

## 4. Runs

| Run | Instance | What it shows |
|---|---|---|
| `bucket_eager` | 2 clients, burst 2 at 1 token/s, 2 ticks per second, clock to 7, 3 grants per client | the lazy bucket refines the eager one, for each client independently, across pruning |
| `bucket_clock` | 1 client, 4 limits (one never refills) that are swapped at will, steps of +1 and -2, clock to 6, 3 grants | window rate, exact `resetAfterMs`, harmless pruning, all with a clock that is set back |
| `lru` | 3 keys, 2 slots, ttl 0 and 1, 5 operations | the list is the map and within its capacity, the counters, refinement of `LRUPolicy` |
| `cache` | 3 calls, a GET or a write of `a` or a GET of `b`, 1 slot, 2 ticks, 1 foreign or own change | single flight, exact inflight map, honest cache, bounded staleness, monotone reads, every call returns |
| `cache_disabled` (violated) | a route with `cache_enabled` false | see findings |
| `logger` | buffer of 2, 4 requests, 1 orphan, 1 lost acknowledgement, both signals | order, no loss, a quiet exit leaves nothing behind, every entry stored, shutdown ends |
| `registry` | 2 routes of 2 users, 2 API calls, 1 timer run and the load at the start, 1 fault | one past table, longest prefix, live when acknowledged, current in the end |
| `sessions` | 1 account on 2 browsers, 2 calls of one and 1 of the other, 1 fault | sessions end for a reason, what a logout revokes stays revoked, single use but for two refreshes at once, every call ends |
| `sessions_parallel` (violated) | 2 calls of one page, no fault | see findings |
| `gateway` | 3 requests for one path (three kinds of GET, a POST with a streamed body), 2 rows of 2 users, 1 cache slot, upstreams that answer 200 or 502, or fail, 1 change of the registry, 1 restart | logged once and as answered, one row per request, answers shared only by requests that print the same, and are the same if plain, reports that agree, everything settles |
| `accounts` | 1 page, 3 calls of any kind, 1 account and 1 address without one, 2 passwords and a short one, 1 crash | types, current password, changes stand, own writes shown, pages settle |
| `page_scoped` (violated) | 2 accounts, 2 logins on one page | see findings |

**Why the bounds are enough.** *Bucket:* a tick is half a second, so elapsed times
below, at and above a token's time occur; the idle time of 4 ticks lets a
bucket of burst 2 and rate 1 be exactly full when it goes stale, and the clock
reaches a second life of the bucket. Three grants exceed every burst.
With -2 the clock goes behind the last refill. *LRU:* three keys for two slots
give evictions of either position; five operations reach an eviction after a
promotion after an expiry. *Cache:* three calls are a fetcher, one that attaches
and one that comes after the settling or writes meanwhile; one slot makes keys
evict each other. *Logger:* a buffer of two is filled while an INSERT of two is
in flight; four entries are two full batches. *Registry:* two handlers, a timer
and the start are four loads that overlap; the prefixes are one that extends
another and one apart. *Sessions:* two calls of one page refresh at once or one
after the other, and a call whose page is gone still ends at the server; the
other browser logs out, or rotates, in between. The fault is a failing query
(before or after its effect), a lost answer, a reload of the page or a refresh
token that expires. A page load without a cookie costs no request, so
every failed refresh is followed to the page the user then sees. *Gateway:* three
requests are a fetcher, one that attaches or takes over the slot, and one
that hits, attaches or fetches again; the first and the last may be the POST. One row is
limited and cached, the other neither and to another upstream, so a mixture of
them would be seen. Three of the GETs have one key: the plain `?a=1,2&b=3`, the escaped
`?a=1%2C2%26b%3D3` and the array of `?a=1&a=2&b=3`; a fourth, without a query, has another
and competes for the slot. `PrintsAlike` evaluates these cases of `QueryText`, and two
objects, once.
*Accounts:* a register or a login and two calls after it, such as a create and a
delete, or two password changes, overlap at every await; the third call of a page is the
first that can meet the effects of two.

`CHECK_DEADLOCK FALSE`, where it is said: the model may stop, because requests,
operations, clock and versions are bounded, or because the process exits.

**Fairness.** Safety properties need none. `cache` assumes that a microtask that is
due runs (the event loop) and that every upstream request settles: by an answer,
an error, or the 15 s timeout of `forwardRequest`. `logger` assumes that the
interval timer fires, that the database answers each INSERT and does not refuse
for ever (strong fairness of `DatabaseStores`: INSERTs are retried, so the
outcome "stored" is offered again and again), that `flush()` continues when
its answer is there, and that the 15 s timer of a shutdown fires. It does not
assume that requests end or clients go away. `registry` assumes that the interval
timer fires and that every query of a load returns, with rows or an error.
`sessions` assumes that the server handles what it was sent and that answers, or
the loss of them, reach the browser; nothing is assumed of users. `gateway` assumes
that bodies which are not aborted end and upstream requests settle, that entries reach
their deadlines, and that the logger's timer and the database go on; nothing of
clients, of the registry or of the process. `accounts` assumes the same as `sessions`, and that a
dashboard asks for its data. Each
request, call and entry occurs once, so "every call returns" is stated as: from
some point on, none is under way.

## 5. Findings

- `cache_disabled`: a route with the cache off passes `null` as time to live, which
  `put` takes for "never expires": it is cached for ever. So is a route without
  a time to live of its own, which should use the default.
- `sessions_parallel`: two calls that find the access token expired refresh with
  the same cookie. The one that loses the rotation gets 401, and its answer
  clears the cookie and the store: the user is sent to the login page, although
  the session was valid. `SessionSurvives` shows that this, a fault and a logout
  are the only ways there.
- `page_scoped`: the logout clears the auth store but not the query cache, whose keys do
  not name the user. Who logs in next in the same document sees, until a fetch
  replaces it, the list of API keys that was fetched for the user before.

Met on the way, without a run of their own:
- `isStale` looks at the idle time only. A limit whose refill takes longer than five
  minutes (say 60 per hour) gives a second full burst to a client that was idle for
  that long. `PruneHarmless` states the condition under which pruning is harmless.
- `stopFlushing` calls `flush()`, which returns at once if another one is in flight; what
  was buffered behind it is lost, and the process exits with 0, although
  `src/server/README.md:361` says that the remaining buffer is flushed.
  `QuietExitFlushes` states when a clean exit leaves nothing behind.
- The registry is keyed by the prefix alone. Two users may register one prefix, and the
  route of one of them hides the other's, against `src/README.md:603`.
- `buildCacheKey` prints an object as `[object Object]`, an array with commas, and does not
  encode what it joins: `?x[a]=1` and `?x[b]=1`, `?a=1&a=2` and `?a=1,2`, or `?a=1%26b%3D2`
  and `?a=1&b=2`, share an answer, although the comment at `cacheManager.js:49` lists the
  query among what the key includes. In the run `gateway` such queries do share answers, and
  `SharedAnswer` allows it: it promises the same query for plain ones only. The key does not
  name the route either: after a
  prefix has changed hands its new owner's clients may get an answer of the old
  owner's upstream until it expires, or for ever if it has no deadline.
- `LRUCache.clear()`, whose comment says it is used on route config changes, and
  `delete()` are never called.
- A PATCH of a limit does not reach the buckets that live (`src/README.md:665` says
  it takes effect within 15 seconds).
- A JSON body is parsed and printed again, but sent under the client's `content-length`.
- `server.js` imports `./middleware/errorHandler.js`, while the file is
  `errorhandler.js`, so that the server does not start on a case-sensitive file system.
- `ErrorHandler.js:4-5` counts on async handlers' errors reaching the error handler; with
  Express 4 they are unhandled rejections, which end the process.
- `recent-logs` sorts by `created_at` only, which all rows of one INSERT share: pages may
  repeat or skip rows. A negative `limit` passes `Math.min`.
- `db/migrate.js` creates `routes` with a prefix that is unique for all users and
  without `user_id`, and none of `users`, `refresh_tokens`; the handlers need them.
- A logout during a rotation: `revokeAllRefreshTokens` (`auth/tokenService.js:123`) deletes
  what is in the table, and a rotation that is between its SELECT and its INSERT then
  inserts a token that nothing has revoked. Its browser stays signed in after the logout,
  against `src/README.md:433` ("revoked on logout and password change"). `RevokedStaysDead`
  states that this one token is all that outlives a logout, and holds.
- Two refreshes that present one token at once may both pass the SELECT of
  `rotateRefreshToken` and both get a new token, against `src/README.md:432` ("rotated on
  every use (single-use)"). `SingleUse` says that this is the only way.
- A rotation whose DELETE is executed and whose INSERT fails, or whose answer is lost, has
  cost the session: the browser is left with a token that no longer exists.
- An entry of a request whose client has hung up may be logged after the last flush of a
  shutdown, and is lost (`server.js:101`). `QuietExitFlushes` excuses this case too.
- Two `loadRoutes` that overlap may finish in the other order than they queried: the
  registry then goes back to before an acknowledged change, until the timer's next
  load. `AnsweredLive` is about the moment of the acknowledgement only.
- A password change leaves all refresh tokens alive, against the comment on
  `revokeAllRefreshTokens` and `src/README.md:433`.
- A login with a wrong password is a 401 as well: the client tries to refresh, fails,
  and reloads the login page, so that its error message is lost.
- `/auth/register` answers without a token, but the page stores what it did not get as a
  session; the dashboard it then shows is refused and goes to the login page.
- The answer of a profile change that arrives after a logout signs the page in again.
- An invalidation whose answer comes while the first list is still being fetched, or
  after the page was left, may leave an older list for a while; `OwnWritesShown` says when not.
- The settings page passes `onSuccess` to `useQuery`, which version 5 of the library
  ignores, so its profile form stays empty; the routes page sends PUT where the
  server knows PATCH only; the logs page unwraps the list of routes once too often.

## 6. Proofs

The assumptions are the named ones on the constants, and TLC evaluates each of them in a
run. *TokenBucket:* a second has at least one tick; limits, idle time and bounds are
natural numbers; clock steps are integers. *LRUCache:* finitely many keys, none of them a
sentinel, at least one slot. *CacheManager:* at least one slot, the shapes of calls and
routes. *BatchLogger:* the buffer holds at least one entry. *RouteRegistry:* finitely
many ids, the shapes of calls and tables, handlers, timers and the start are different
loaders. *Sessions:* browsers and requests are disjoint, `None` is neither a token nor an
age of one. *Gateway:* finitely many requests, the names of parameters are distinct, queries
are functions from some of them to values and a string has one part, the shapes of rows,
statuses between 100 and 599. *Accounts:* what is typed
normalises to an address, the first accounts have passwords of at least 8 characters, and
`Nobody` is not an address, a password or a page. Every bound is a natural number. One
theorem has a hypothesis of its own, `LazyIsEager`: the clock steps are natural numbers.

**TokenBucketProofs.** `TypeCorrect` is an induction on `TypeOK`, over lemmas about
one bucket: `RefillSound` (a refill stays below the ceiling, adds no more than
the rate allows and never moves the last refill back), `ConsumedSound` and
`ResultReply`. `PruneIsHarmless` adds that the last use of
a bucket is the time of its last reply (`UseAnswered`). `WindowRateHolds` needs a
strengthening, because a window is only known when it ends: `CreditKept` says of
every earlier grant `i` of the bucket's life that the grants since `i` and the
tokens still there are together at most the burst plus the refill from `i` to the
last refill. A refill adds equally to both sides (`RefusePaid`), a grant moves
a token from the bucket to the count (`GrantPaid`), and a window that ends with
the new grant is paid for by the credit of its first one (`GrantWindows`). The last
refill is never after the latest clock the bucket has read, which is what makes
the bound hold when the clock is set back.

`RetriesAreHonoured` needs to know what a refusal leaves behind (`Refused`, in `RetryInv`): a
bucket with less than a token, refilled at the time of the refusal, which would be told
the same wait again. `CeilDivLeast` then says that the rounded-up quotient is the first
time at which the refill makes up for what is missing, so that a retry is let through from
`resetAfterMs` on and not before. `LazyIsEager` is the refinement of `EagerBucket`, step by
step: a tick adds to the level what a longer wait adds to the next refill (`Lesser` of the
ceiling and tokens plus elapsed time), `Consume` first stores the level it is at, and a
pruned bucket was full. It uses `EagerInv`: no refill lies in the future. A clock that is set
back breaks this and with it the refinement, so the theorem is about clocks that
only advance; what holds of the others is `WindowRate`, `RetryHonoured` and `PruneHarmless`.

**LRUCacheProofs.** The walk from `Head` is hard to reason about, because every operation
cuts into the middle of it. The invariant, `Listed`, says instead that there *is* a
numbering `f` of the nodes, from `Head` as 0 to `Tail` as `Size + 1`, that numbers each
key of the map once and that `next` and `prev` follow (`Threads`). `DetachThreads` and
`InsertThreads` are the surgery: without its `j`-th node a list is threaded by
`Dropped`, with a new first one by `Pushed`; a promotion is one after the other, an
eviction and a put as well. `DroppedNewer` and `PushedNewer` say what becomes of the order
of use. That the walk is the numbering (`WalkFollows`) is the one place where the
recursion of `Walk` matters: a function that satisfies its equation exists, and at the
least number where another one would differ it does not. `Holds` and `Shown` carry this
to the next state, and each operation has its outcome (`GetMisses`, `GetExpires`, `GetHits`,
`PutUpdates`, `PutInserts`, `PutEvicts`), from which all three theorems follow:
`PointersThreadTheMap`, `EveryEntryIsAccountedFor` and `ListIsPolicy`, the refinement of
`LRUPolicy`. For the last one `VictimIsOldest` shows that the node before `Tail` is what
the abstract cache evicts.

**BatchLoggerProofs.** `LogInv` joins `FlagExact` (the flag is set exactly while an INSERT is
in flight), `ExactlyOnce` and `AtLeastOnce` with `AnswerDue`: an INSERT that reached the table left its whole batch there,
and one that is not acknowledged is counted. `FlushKeeps` says once for all callers
what `flush()` does to the queues; `LogKeeps`, `DatabaseKeeps`, `SuccessKeeps` and
`FailureKeeps` are the four steps that move entries. `QuietExitIsClean` adds `Drained`: while
nothing has disturbed a shutdown that has begun to flush, the buffer is empty, and
stays so until the process exits.

**CacheManagerProofs.** `FlightInv` is `InflightExact` with the types of the request
state (`Types`) and the bookkeeping of the event loop (`Waits`): a request that has not
come has no fetch (`IdleUntouched`), one whose fetch is at the upstream waits for
it (`ActiveWait`), a queued request is waiting and in the queue that the state
of its promise calls for (`ReactionsWait`, `MicrotasksDue`), and none is queued
twice (`NoneTwice`). The last is what the induction turns on:
a fetcher continued a second time would run its `finally` again and clear the map
entry of the fetch that replaced it. Each entry into `getOrFetch` and each
continuation has a lemma. `FlightIsSingle` follows: two fetches of a key under
way would both be the one the map names. Nothing is assumed of the cache for these two, so they
hold whatever it stores, expires or evicts.

The other three are about what is in the cache. The lemmas on `Recency` come first: its
operators keep a strict total order, a cache that is not empty has an oldest key, `put` stays
within the capacity and changes no entry but its own and the one it evicts. `CacheInv` adds to
`FlightInv` that a version brought by a fetch is one of the time since it was sent
(`Fetches`), that who waits, waits for a fetch of its own key (`SameKey`), that an entry
is what the upstream answered a GET of its key, with the deadline of its time to live
(`Entries`), and what answers are (`Answers`). `CacheIsHonest` is part of it, and
`StalenessIsBounded` follows with `HorizonShown`: an entry within its deadline shows a
version of the instant that `BoundedStaleness` names, or a later one (`Past`: versions grow).
`ReadsAreMonotone` is about the order of the event loop. `QueueInv` says where the
continuations are: nobody is forgotten, who attached is queued behind the fetcher, a key
that is being fetched is not cached, and a GET waits for a GET. `OrderInv` compares
versions along the way of an answer: what was answered is not newer than what is due or
coming (`AnsweredFirst`), what is due not newer than what is being fetched (`DueFirst`), what
comes first not newer than what comes later (`InOrder`), and while an entry is cached
nothing newer has been answered (`CachedNow`). It turns on the FIFO order of microtasks: the
fetcher puts its answer into the cache before those behind it return.

**RouteRegistryProofs.** `RegInv` is `RegistryIsPast` with the shapes of tables and loads
(`Shapes`), and with where rows come from: every table of the history is a table and the
present one is the last (`PastTables`), the rows a load has read are the active ones
of the table it names (`ReadsArePast`), and a load that a handler waits for asked
after the handler's statement was executed (`LoadsFollow`).
`RegistryCopiesPast` needs no order among loads: each installs a Map that
was right once. `AcknowledgedIsLive` follows from `LoadsFollow`: the load that a
handler awaits installs its Map in the very step that lets the handler go on.
`LongestPrefixWins` rests on `FirstIsLongest`, about any
sorted list of rows: the places in the Map follow the order of the list, also for
a prefix that occurs twice, so the first match is a longest one. `TypeCorrect` has the part of
`TypeOK` that is not a shape from `RegistryIsPast` and `LoadsFollow`: routes that are served
are active rows under their own prefix, and a handler waits exactly while its load is
under way.

**SessionsProofs.** `SessionInv` follows tokens through rotations. A token is named after
the request that makes it, and of a request that may still be given one there is no trace yet
(`Fresh`); a token that was exchanged, or deleted on the way to it, is not in the table
(`Spent`). Two refreshes with one token are known to be such (`Together`, `Late`), which
is what `TokensAreUsedOnce` excepts. A session stays with its user, and a rotation under way
of a session that was ended is one that has outlived the logout (`Lineage`).
`RevocationIsFinal` needs the latter, because a rotation that has passed its SELECT will
insert a token whatever a logout deletes meanwhile: the token begins a session of its own
(`Stored`), and of those that ended nothing else is under way that could revive them, nor
can anything begin, as their tokens are gone. `QueryFailsKeeps` has the cases in which a
statement fails, executed or not. Most
steps do one of a few harmless things to the records of requests (`Tame`), for which
the invariant is kept once and for all. `SessionsSurvive` adds `Health`, relative to
`SessionInv`: a browser for which nothing went wrong has its page, a cookie that is in the table or is
just being exchanged, and at most one refresh (`RefreshesAlone`). `LocalKeeps` says
that the steps of one request leave all other browsers well.

**GatewayProofs.** `GatewayInv` has six parts. `Routed`: what a request was charged, sent
and logged is what one row says, and the row is carried in the request from `matchRoute` on.
`Flights` ties the inflight map to the stages: behind a key are its fetcher, first, and
those that attached, all with that key. `Cached` and `Sharing` tie an entry, and an answer
from it or from another's fetch, to a request that did fetch under the same key what it
says. `Logs` counts: no request has two entries in table, buffer and loss together, each
entry is truthful, and who was answered has one. What is over stays as it is (`FinalKept`),
so that entries stay truthful and shared answers keep their origin. `SettleKeeps` is the
largest step: one fetch ends, and all who waited are answered and logged. `OneRouteServes` reads `Routed`
and `Cached`; `SharesLikeAnswers` needs also what `CacheKey` tells apart (`KeyTells`): equal
keys have the same method, host and path and print the same query, and two plain queries that
print the same are the same (`PlainTells`). The latter reads the text from its end. What is
spelled up to a name ends with a `&` and a parameter, or is empty (`EndsWith`); a sequence
is cut in one way at its last `&`, as no parameter holds one (`CutLast`), and a parameter at
its first `=`, as no name holds one (`CutFirst`). So two queries that are spelled the same up
to a name both have it or both lack it (`NotAlone`), with the same value, and are spelled
the same before it (`SameBefore`). `FlattenSteps` unfolds the recursion of `FlattenSeq`: a
function that satisfies its equation exists for every length, as `Climb` counts up to it
(from the least number principle, since induction over an operator is out of reach).

`ReportsShowTheAnswers` is about sums over a table of any length. No library theorem on
induction can be instantiated for the fold that `Total` is, but its definition says that the
sum takes away one group after the other (`Adds`); the number of rows in a set of groups
does so too (`GroupsCounted`), and at a smallest set of groups where the two differ they do not
(`GroupsCount`, over the well-founded order of the subsets). Hence `GroupsAddUp`: whatever a
report groups by, its groups add up to a summary of their rows. The rest ties rows to
requests. That no request has two rows is a matter of counting (`RowsOnce`, from `Logs`), so
numbers of rows are numbers of requests (`RowsAreRequests`), and as entries are truthful
the overview counts answers (`OverviewIs`). `Dated` is one more invariant, by `Flush` alone: rows
are in the order of their times. It makes the rows until a time the first ones
(`FirstOnes`), so that a chart of that time had the same bar (`BarStands`).

**AccountsProofs.** `AccountsInv` has three parts. `Types` gives the shapes of calls and pages
relative to the accounts that exist: a call of a signed-in page is under one of them, and so is a
page that has a token, a cookie or a list. Accounts are never deleted, so both stay
true when one is registered (`CallsGrow`, `PagesGrow`). `Seen` is what `CurrentPassword` needs:
a call that will still read the row knows every password the account has had since the call
was sent, the hash it has read is among these, and so is the password of whoever was let
through. A password is compared with the hash that was read and not with the row,
which may have changed meanwhile; hence "while the call was under way" and no more.
`Later` is what `ChangesStand` needs: the changes that a call knows of are over,
so that an UPDATE, whose own call is not over, never writes the number of one of them.
`ChangeKeeps` says once for `Register` and `Update` what a statement that sets a password does to
all the other calls; the steps of one call share `StepKeeps`, those of one page
`PageKeeps`, and a failed refresh, which touches every call of its page, is
`UnrefreshedKeeps`. `OwnWritesAreShown` adds `WritesInv`: a key was created by the call it is
named after (`KeysMade`), what an accepted delete has removed is never created again
(`KeysGone`), a write that is settled is over (`SettledOver`), and a list that is not marked
invalid tells its page of its own settled writes, and so does what has already been read to
replace it (`PageTells`). The last conjunct is where the order of invalidation and fetch
matters: rows that were read before the write are dropped by the fetch that the
invalidation starts. `Tame` and `Kept` describe what the other steps do to calls.

**Only model-checked.** Liveness (`EveryCallReturns`, `EveryEntryStored`,
`ShutdownEnds`, `EventuallyCurrent`, `EveryRequestEnds`, `SettlesDown`, `PagesSettle`): the
prover does not handle fairness. The three violated properties are refuted by TLC's
counterexamples.

## 7. Not modelled

- The rounding of floating point in the bucket, and JavaScript's `Infinity` but as a
  value of its own.
- Header rewriting, bodies, response formatting, averages and percentages of the reports,
  and the console.
- Of the sessions: `me`, `optionalAuth`, deactivated accounts, a logout or login whose query
  fails, and `pruneExpiredTokens`, which nothing calls. In `Accounts` a refresh needs no
  rotation, and the calls that a logout makes are left to `Sessions`.
- A database that refuses one entry for ever: nothing behind it in the batch would be
  stored, and the fairness of `logger` excludes it.
- `db/migrate.js` and `db/pool.js` (a script and configuration), `ErrorHandler.js` (not
  used), and the pages for routes, logs and charts: they show query results, and what
  they call is modelled at the server.

--------------------------- MODULE RouteRegistry ---------------------------
(***************************************************************************)
(* The routes: the table that the management API writes                    *)
(* (server/src/routes/routesApi.js) and the copy of its active rows that   *)
(* the proxy matches requests against (server/src/proxy/routeRegistry.js). *)
(*                                                                         *)
(* loadRoutes() awaits its query, and nothing keeps two loads apart: the   *)
(* timer and every API handler start one of their own, the pool gives each *)
(* a connection of its own, and the answers come back in any order.        *)
(*                                                                         *)
(* A prefix and a path are sequences of fragments of a URL.  The id of a   *)
(* row that a POST creates is named after the handler of that POST.        *)
(***************************************************************************)
EXTENDS Integers, Sequences, SequencesExt

CONSTANTS
  Users,      \* owners of routes
  RoutePrefixes, \* prefixes routes are registered under
  Paths,      \* paths of requests
  Upstreams,  \* where a route leads: the part of a row a PATCH changes
  OldIds,     \* ids of the rows present at the start
  Handlers,   \* runs of an API handler, each serves one call
  Timers,     \* runs of the reload timer that may be under way together
  Startup,    \* the load that start() awaits
  Calls,      \* the valid calls of POST, PATCH and DELETE
  OldTables,  \* what the table may hold at the start
  NoRoute,    \* matchRoute's null
  MaxFaults   \* bound: queries that fail or whose answer is lost

Ids == OldIds \cup Handlers
Loaders == Handlers \cup Timers \cup {Startup}

Rows == [id : Ids, user : Users, prefix : RoutePrefixes, upstream : Upstreams,
         active : BOOLEAN]

\* Each row under its id.
IsTable(t) ==
  /\ DOMAIN t \subseteq Ids
  /\ t \in [DOMAIN t -> Rows]
  /\ \A i \in DOMAIN t : t[i].id = i

ASSUME RoutesAssumption ==
  /\ \A s \in RoutePrefixes \cup Paths : s \in Seq({s[i] : i \in DOMAIN s})
  /\ Calls \subseteq [op : {"POST", "MOVE", "SWITCH", "DELETE"}, user : Users,
                      id : Ids, prefix : RoutePrefixes, upstream : Upstreams,
                      active : BOOLEAN]
  /\ \A t \in OldTables : IsTable(t)
  /\ IsFiniteSet(Ids)
  /\ MaxFaults \in Nat

ASSUME LoadersAssumption ==
  /\ Handlers \cap Timers = {}
  /\ Startup \notin Handlers \cup Timers
  /\ OldIds \cap Handlers = {}

VARIABLES
  table,      \* routes: the database's table, a row for each id in use
  registry,   \* the Map: for each prefix its route and its place in the order
  started,    \* start() has passed its first await
  pc,         \* of each handler: idle, sent, executed, loading, done
  call,       \* of each handler that is under way: the call it serves
  reply,      \* of each handler: what its statement came to
  load,       \* of each loader: how far its query is, and the rows it read
  faults,     \* queries that have failed
  past,       \* history: every table there has been
  version,    \* history, of each handler: the table its statement made
  installed   \* history: which table the registry is a copy of

vars == <<table, registry, started, pc, call, reply, load, faults, past,
          version, installed>>

-----------------------------------------------------------------------------
(* Building the Map and matching against it.                               *)

\* Mutant: Inactive routes are served as well.
AnyActive(t) == {t[i] : i \in DOMAIN t}

Active(t) == {t[i] : i \in {j \in DOMAIN t : t[j].active}}

\* Mutant: The comparator of sort() the wrong way round.
PrecedesShortest(a, b) == Len(a.prefix) <= Len(b.prefix)

\* a goes before b in the array that loadRoutes sorts
Precedes(a, b) == Len(a.prefix) >= Len(b.prefix)

\* The array: longest prefix first, in any order among equals.
Sortings(rows) ==
  {s \in SetToSeqs(rows) : \A i, j \in DOMAIN s : i < j => Precedes(s[i], s[j])}

Places(s, p) == {i \in DOMAIN s : s[i].prefix = p}

\* A Map keeps a key where it was first set, with the value it was last set to.
MapOf(s) ==
  [p \in {s[i].prefix : i \in DOMAIN s} |->
     [place |-> Min(Places(s, p)), route |-> s[Max(Places(s, p))]]]

EmptyMap == [p \in {} |-> NoRoute]

Matching(path) == {p \in DOMAIN registry : IsPrefix(p, path)}

\* matchRoute(path): the first entry whose prefix the path starts with.
MatchRoute(path) ==
  IF Matching(path) = {} THEN NoRoute
  ELSE registry[CHOOSE p \in Matching(path) :
                  \A q \in Matching(path) :
                    registry[p].place <= registry[q].place].route

-----------------------------------------------------------------------------
(* The statements of the handlers.                                         *)

\* WHERE id = ? AND user_id = ?
Selected(c) == {i \in DOMAIN table : i = c.id /\ table[i].user = c.user}

\* The unique key on (user_id, prefix), as the 409 of POST has it.
Duplicate(c) ==
  \E i \in DOMAIN table : table[i].user = c.user /\ table[i].prefix = c.prefix

Outcome(c) ==
  IF c.op = "POST"
  THEN IF Duplicate(c) THEN "duplicate" ELSE "ok"
  ELSE IF Selected(c) = {} THEN "missing" ELSE "ok"

NewRow(h, c) ==
  [id |-> h, user |-> c.user, prefix |-> c.prefix, upstream |-> c.upstream,
   active |-> TRUE]

\* The row after a PATCH of upstream_url or of is_active.
Patched(row, c) ==
  IF c.op = "MOVE" THEN [row EXCEPT !.upstream = c.upstream]
                   ELSE [row EXCEPT !.active = c.active]

\* The table after a statement that finds its row, or no duplicate of it.
Written(h, c) ==
  IF c.op = "POST"
  THEN [i \in DOMAIN table \cup {h} |-> IF i = h THEN NewRow(h, c) ELSE table[i]]
  ELSE IF c.op = "DELETE"
  THEN [i \in DOMAIN table \ Selected(c) |-> table[i]]
  ELSE [i \in DOMAIN table |->
          IF i \in Selected(c) THEN Patched(table[i], c) ELSE table[i]]

-----------------------------------------------------------------------------
NoLoad == [state |-> "none", rows |-> {}, version |-> 0]

Asked == [NoLoad EXCEPT !.state = "asked"]

Init ==
  /\ table \in OldTables
  /\ registry = EmptyMap
  /\ started = FALSE
  /\ pc = [h \in Handlers |-> "idle"]
  /\ call = EmptyMap
  /\ reply = [h \in Handlers |-> "none"]
  /\ load = [l \in Loaders |-> IF l = Startup THEN Asked ELSE NoLoad]
  /\ faults = 0
  /\ past = <<table>>
  /\ version = [h \in Handlers |-> 0]
  /\ installed = 0

-----------------------------------------------------------------------------
(* The API handlers.                                                       *)

\* A valid call arrives and its statement is on the way to the database.
Send(h) ==
  /\ started
  /\ pc[h] = "idle"
  /\ pc' = [pc EXCEPT ![h] = "sent"]
  /\ \E c \in Calls :
       call' = [g \in DOMAIN call \cup {h} |-> IF g = h THEN c ELSE call[g]]
  /\ UNCHANGED <<table, registry, started, reply, load, faults, past, version,
                 installed>>

\* A call with a missing field, or with no field to update: 400.
Reject(h) ==
  /\ started
  /\ pc[h] = "idle"
  /\ pc' = [pc EXCEPT ![h] = "done"]
  /\ reply' = [reply EXCEPT ![h] = "invalid"]
  /\ UNCHANGED <<table, registry, started, call, load, faults, past, version,
                 installed>>

\* The statement's effect on the table.
Write(h) ==
  IF Outcome(call[h]) = "ok"
  THEN /\ table' = Written(h, call[h])
       /\ past' = Append(past, table')
       /\ version' = [version EXCEPT ![h] = Len(past')]
  ELSE UNCHANGED <<table, past, version>>

\* The database executes the statement, and its answer arrives in the end.
Execute(h) ==
  /\ pc[h] = "sent"
  /\ Write(h)
  /\ pc' = [pc EXCEPT ![h] = "executed"]
  /\ reply' = [reply EXCEPT ![h] = Outcome(call[h])]
  /\ UNCHANGED <<registry, started, call, load, faults, installed>>

\* The statement fails, or only its answer is lost.
StatementFails(h) ==
  /\ pc[h] = "sent"
  /\ faults < MaxFaults
  /\ faults' = faults + 1
  /\ Write(h) \/ UNCHANGED <<table, past, version>>
  /\ pc' = [pc EXCEPT ![h] = "executed"]
  /\ reply' = [reply EXCEPT ![h] = "error"]
  /\ UNCHANGED <<registry, started, call, load, installed>>

\* Mutant: loadRoutes() without await.
ContinueAtOnce(h) ==
  /\ pc[h] = "executed"
  /\ pc' = [pc EXCEPT ![h] = "done"]
  /\ load' = [load EXCEPT ![h] = IF reply[h] = "ok" THEN Asked ELSE @]
  /\ UNCHANGED <<table, registry, started, call, reply, faults, past, version,
                 installed>>

\* The handler goes on: with its own load after a change, else with an error.
Continue(h) ==
  /\ pc[h] = "executed"
  /\ IF reply[h] = "ok"
     THEN /\ pc' = [pc EXCEPT ![h] = "loading"]
          /\ load' = [load EXCEPT ![h] = Asked]
     ELSE /\ pc' = [pc EXCEPT ![h] = "done"]
          /\ UNCHANGED load
  /\ UNCHANGED <<table, registry, started, call, reply, faults, past, version,
                 installed>>

-----------------------------------------------------------------------------
(* loadRoutes.                                                             *)

\* Mutant: The timer is left out once something has been loaded.
TimerOnlyFirst(l) ==
  /\ started /\ installed = 0
  /\ load[l].state = "none"
  /\ load' = [load EXCEPT ![l] = Asked]
  /\ UNCHANGED <<table, registry, started, pc, call, reply, faults, past,
                 version, installed>>

\* setInterval(loadRoutes, RELOAD_INTERVAL_MS), which awaits nothing.
TimerFires(l) ==
  /\ started
  /\ load[l].state = "none"
  /\ load' = [load EXCEPT ![l] = Asked]
  /\ UNCHANGED <<table, registry, started, pc, call, reply, faults, past,
                 version, installed>>

\* The database executes the SELECT.
Read(l) ==
  /\ load[l].state = "asked"
  /\ load' = [load EXCEPT ![l] = [state |-> "read", rows |-> Active(table),
                                  version |-> Len(past)]]
  /\ UNCHANGED <<table, registry, started, pc, call, reply, faults, past,
                 version, installed>>

\* The SELECT fails, or its answer is lost.
ReadFails(l) ==
  /\ load[l].state = "asked"
  /\ faults < MaxFaults
  /\ faults' = faults + 1
  /\ load' = [load EXCEPT ![l].state = "failed"]
  /\ UNCHANGED <<table, registry, started, pc, call, reply, past, version,
                 installed>>

\* Mutant: The rows are set in the Map in use.
InstallOver(l) ==
  IF load[l].state = "read"
  THEN /\ \E s \in Sortings(load[l].rows) :
            LET m == MapOf(s)
            IN  registry' = [p \in DOMAIN registry \cup DOMAIN m |->
                               IF p \in DOMAIN m THEN m[p] ELSE registry[p]]
       /\ installed' = load[l].version
  ELSE UNCHANGED <<registry, installed>>

\* The new Map takes the place of the old one, which a failed load leaves alone.
Install(l) ==
  IF load[l].state = "read"
  THEN /\ \E s \in Sortings(load[l].rows) : registry' = MapOf(s)
       /\ installed' = load[l].version
  ELSE UNCHANGED <<registry, installed>>

\* loadRoutes() returns to whoever called it: a handler answers, start() goes on.
Finish(l) ==
  /\ load[l].state \in {"read", "failed"}
  /\ Install(l)
  /\ load' = [load EXCEPT ![l] = NoLoad]
  /\ started' = (started \/ l = Startup)
  /\ pc' = [h \in Handlers |-> IF h = l THEN "done" ELSE pc[h]]
  /\ UNCHANGED <<table, call, reply, faults, past, version>>

-----------------------------------------------------------------------------
Handle(h) == Send(h) \/ Reject(h) \/ Execute(h) \/ StatementFails(h) \/ Continue(h)

Load(l) == Read(l) \/ ReadFails(l) \/ Finish(l)

Next ==
  \/ \E h \in Handlers : Handle(h)
  \/ \E l \in Timers : TimerFires(l)
  \/ \E l \in Loaders : Load(l)

Spec == Init /\ [][Next]_vars

\* The timer fires, the database answers, and the event loop goes on.
Fairness ==
  /\ \A l \in Timers : WF_vars(TimerFires(l))
  /\ \A l \in Loaders : WF_vars(Load(l))

FairSpec == Spec /\ Fairness

-----------------------------------------------------------------------------
(* Properties.                                                             *)

\* The registry's routes are active rows under their own prefix, and a handler
\* waits for a load exactly while the load is under way.
TypeOK ==
  /\ IsTable(table)
  /\ DOMAIN registry \subseteq RoutePrefixes
  /\ \A p \in DOMAIN registry :
       /\ registry[p].place \in Nat \ {0}
       /\ registry[p].route \in Rows
       /\ registry[p].route.active /\ registry[p].route.prefix = p
  /\ started \in BOOLEAN
  /\ pc \in [Handlers -> {"idle", "sent", "executed", "loading", "done"}]
  /\ \A h \in DOMAIN call : call[h] \in Calls
  /\ reply \in [Handlers -> {"none", "ok", "duplicate", "missing", "error", "invalid"}]
  /\ \A l \in Loaders : load[l].state \in {"none", "asked", "read", "failed"}
  /\ \A h \in Handlers : pc[h] = "loading" <=> load[h].state # "none"
  /\ faults \in 0 .. MaxFaults

\* The registry is a copy of the whole table as it was at one moment, never a
\* mixture of two loads and never a table that did not exist, however many loads
\* overlap, fail or come back late (loadRoutes builds the Map aside and swaps it).
RegistryIsPast ==
  IF installed = 0 THEN registry = EmptyMap
  ELSE /\ installed \in DOMAIN past
       /\ \E s \in Sortings(Active(past[installed])) : registry = MapOf(s)

\* A request gets the route with the longest prefix that its path starts with, in
\* whatever order the database returned routes of equal length (matchRoute stops at
\* the first match, which is only right because the array was sorted).
MatchesLongest ==
  \A path \in Paths :
    LET r == MatchRoute(path)
    IN  Matching(path) # {} =>
          /\ r.prefix \in Matching(path)
          /\ \A q \in Matching(path) : Len(q) <= Len(r.prefix)

\* When a change is acknowledged it is live: unless the handler's own load failed,
\* the registry at that moment holds the change, and later ones too (the handlers
\* await loadRoutes() before they answer).
AnsweredLive ==
  [][\A h \in Handlers :
       pc[h] # "done" /\ pc'[h] = "done" /\ reply'[h] = "ok" /\ load[h].state # "failed"
         => installed' >= version[h]]_vars

\* Once nobody changes the table any more the registry agrees with it and stays so,
\* although a late answer or a failed load may have taken it back (the timer).
EventuallyCurrent ==
  <>[](\E s \in Sortings(Active(table)) : registry = MapOf(s))

=============================================================================

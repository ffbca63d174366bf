------------------------ MODULE RouteRegistryProofs ------------------------
(***************************************************************************)
(* Proofs about RouteRegistry, for any number of handlers, timers, users   *)
(* and prefixes: the registry is always a copy of a table that existed, a  *)
(* request gets its longest prefix, and an acknowledged change is live.    *)
(***************************************************************************)
EXTENDS RouteRegistry, FiniteSetTheorems, TLAPS

-----------------------------------------------------------------------------
(* Least and greatest places.                                              *)

LEMMA LeastExists ==
  ASSUME NEW T \in SUBSET Nat, T # {}
  PROVE  \E x \in T : \A y \in T : x <= y
<1> DEFINE R == {p \in Nat \X Nat : p[1] < p[2]}
<1>1. IsWellFoundedOn(R, Nat)
  BY NatLessThanWellFounded DEF OpToRel
<1>2. PICK x \in T : \A y \in T : ~(<<y, x>> \in R)
  BY <1>1, WFMin, Zenon
<1>3. ASSUME NEW y \in T, y < x
      PROVE  FALSE
  <2>1. <<y, x>> \in Nat \X Nat /\ <<y, x>>[1] < <<y, x>>[2]
    BY <1>3
  <2>2. <<y, x>> \in R
    BY <2>1
  <2> QED
    BY <2>2, <1>2
<1> QED
  BY <1>3

LEMMA MinIsLeast ==
  ASSUME NEW T \in SUBSET Nat, T # {}
  PROVE  Min(T) \in T /\ \A y \in T : Min(T) <= y
BY LeastExists, Zenon DEF Min

LEMMA MaxIsGreatest ==
  ASSUME NEW n \in Nat, NEW T \in SUBSET (1 .. n), T # {}
  PROVE  Max(T) \in T /\ \A y \in T : Max(T) >= y
<1> DEFINE U == {n - x : x \in T}
<1>1. U \in SUBSET Nat /\ U # {}
  OBVIOUS
<1>2. PICK u \in U : \A v \in U : u <= v
  BY <1>1, LeastExists
<1>3. PICK x \in T : u = n - x
  BY <1>2
<1>4. \A y \in T : x >= y
  <2>1. ASSUME NEW y \in T
        PROVE  x >= y
    <3>1. n - y \in U
      OBVIOUS
    <3> QED
      BY <3>1, <1>2, <1>3
  <2> QED
    BY <2>1
<1> QED
  BY <1>4, Zenon DEF Max

-----------------------------------------------------------------------------
(* The Map that loadRoutes builds, and what matchRoute finds in it.        *)

\* Rows that a load may have read.
IsLoaded(rows) == rows \subseteq {r \in Rows : r.active} /\ Cardinality(rows) \in Nat

\* Only active rows are loaded, and there are no more of them than ids.
LEMMA ActiveLoaded ==
  ASSUME NEW t, IsTable(t), IsFiniteSet(Ids)
  PROVE  IsLoaded(Active(t))
<1>1. Active(t) \subseteq {r \in Rows : r.active}
  BY DEF Active, IsTable
<1> DEFINE f == [r \in Active(t) |-> r.id]
<1>2. f \in Injection(Active(t), Ids)
  <2>1. f \in [Active(t) -> Ids]
    BY <1>1 DEF Rows
  <2>2. ASSUME NEW a \in Active(t), NEW b \in Active(t), f[a] = f[b]
        PROVE  a = b
    <3>1. PICK i \in DOMAIN t : a = t[i]
      BY DEF Active
    <3>2. PICK j \in DOMAIN t : b = t[j]
      BY DEF Active
    <3>3. a.id = i /\ b.id = j
      BY <3>1, <3>2 DEF IsTable
    <3> QED
      BY <2>2, <3>1, <3>2, <3>3
  <2> QED
    BY <2>1, <2>2 DEF Injection, IsInjective
<1>3. IsFiniteSet(Active(t))
  BY <1>2, FS_Injection, Zenon
<1> QED
  BY <1>1, <1>3, FS_CardinalityType DEF IsLoaded

LEMMA SortingShape ==
  ASSUME NEW rows, IsLoaded(rows), NEW s \in Sortings(rows)
  PROVE  /\ DOMAIN s = 1 .. Cardinality(rows)
         /\ \A i \in DOMAIN s : s[i] \in Rows /\ s[i].active
         /\ \A i, j \in DOMAIN s : i < j => Precedes(s[i], s[j])
<1>1. s \in [1 .. Cardinality(rows) -> rows]
  BY DEF Sortings, SetToSeqs
<1> QED
  BY <1>1 DEF Sortings, IsLoaded

LEMMA MapShape ==
  ASSUME NEW rows, IsLoaded(rows), NEW s \in Sortings(rows),
         NEW p \in DOMAIN MapOf(s)
  PROVE  LET e == MapOf(s)[p]
         IN  /\ e.place \in DOMAIN s /\ e.place \in Nat \ {0}
             /\ s[e.place].prefix = p
             /\ e.route \in Rows /\ e.route.active /\ e.route.prefix = p
             /\ p \in RoutePrefixes
<1> DEFINE n == Cardinality(rows)
           T == Places(s, p)
<1>1. /\ n \in Nat /\ DOMAIN s = 1 .. n
      /\ \A i \in DOMAIN s : s[i] \in Rows /\ s[i].active
  BY SortingShape DEF IsLoaded
<1>2. T \subseteq 1 .. n /\ T # {} /\ \A i \in T : s[i].prefix = p
  BY <1>1 DEF MapOf, Places
<1>3. Min(T) \in T
  <2>1. T \in SUBSET Nat
    BY <1>1, <1>2
  <2> QED
    BY <2>1, <1>2, MinIsLeast
<1>4. Max(T) \in T
  <2> HIDE DEF T
  <2> QED
    BY <1>1, <1>2, MaxIsGreatest
<1>5. MapOf(s)[p] = [place |-> Min(T), route |-> s[Max(T)]]
  BY DEF MapOf
<1> HIDE DEF T, n
<1>6. s[Min(T)].prefix = p /\ s[Max(T)].prefix = p
  BY <1>2, <1>3, <1>4
<1>7. Min(T) \in 1 .. n /\ Max(T) \in 1 .. n
  BY <1>2, <1>3, <1>4
<1>8. s[Max(T)] \in Rows /\ s[Max(T)].active
  BY <1>1, <1>7
<1>9. p \in RoutePrefixes
  BY <1>6, <1>8 DEF Rows
<1> QED
  BY <1>1, <1>5, <1>6, <1>7, <1>8, <1>9

\* matchRoute on such a Map returns a matching route with the longest prefix.
LEMMA FirstIsLongest ==
  ASSUME RoutesAssumption,
         NEW rows, IsLoaded(rows), NEW s \in Sortings(rows), registry = MapOf(s),
         NEW path, Matching(path) # {}
  PROVE  LET r == MatchRoute(path)
         IN  /\ r.prefix \in Matching(path)
             /\ \A q \in Matching(path) : Len(q) <= Len(r.prefix)
<1> DEFINE M == Matching(path)
           First(p) == \A q \in M : registry[p].place <= registry[q].place
           p == CHOOSE x \in M : First(x)
<1>1. M \subseteq DOMAIN MapOf(s)
  BY DEF Matching
<1>2. /\ \A q \in M : /\ registry[q].place \in DOMAIN s
                      /\ registry[q].place \in Nat
                      /\ s[registry[q].place].prefix = q
                      /\ registry[q].route.prefix = q
                      /\ q \in RoutePrefixes
  BY <1>1, MapShape
<1>3. \E x \in M : First(x)
  <2> DEFINE U == {registry[q].place : q \in M}
  <2>1. U \in SUBSET Nat /\ U # {}
    BY <1>2
  <2>2. PICK u \in U : \A v \in U : u <= v
    BY <2>1, LeastExists
  <2>3. PICK x \in M : u = registry[x].place
    BY <2>2
  <2> QED
    BY <2>2, <2>3
<1>4. p \in M /\ First(p)
  BY <1>3, Zenon
<1>5. MatchRoute(path) = registry[p].route
  BY DEF MatchRoute
<1>6. \A q \in M : Len(q) \in Nat
  BY <1>2 DEF RoutesAssumption
<1> HIDE DEF p, M
<1>7. ASSUME NEW q \in M
      PROVE  Len(q) <= Len(p)
  <2> DEFINE i == registry[p].place
             j == registry[q].place
  <2>1. i \in DOMAIN s /\ j \in DOMAIN s /\ s[i].prefix = p /\ s[j].prefix = q
    BY <1>2, <1>4
  <2>2. i \in Nat /\ j \in Nat /\ i <= j
    BY <1>2, <1>4
  <2>3. CASE i = j
    BY <2>1, <2>3, <1>6
  <2>4. CASE i < j
    <3>1. Precedes(s[i], s[j])
      BY <2>1, <2>4, SortingShape
    <3> QED
      BY <3>1, <2>1 DEF Precedes
  <2> QED
    BY <2>2, <2>3, <2>4
<1> QED
  BY <1>2, <1>4, <1>5, <1>7 DEF M

-----------------------------------------------------------------------------
(* The inductive invariant.                                                *)

Tables == UNION {[D -> Rows] : D \in SUBSET Ids}

LoadRecord(v) ==
  [state : {"none", "asked", "read", "failed"}, rows : SUBSET Rows, version : v]

Shapes ==
  /\ IsTable(table)
  /\ started \in BOOLEAN
  /\ pc \in [Handlers -> {"idle", "sent", "executed", "loading", "done"}]
  /\ DOMAIN call \subseteq Handlers
  /\ \A h \in DOMAIN call : call[h] \in Calls
  /\ \A h \in Handlers : pc[h] = "sent" => h \in DOMAIN call
  /\ reply \in [Handlers -> {"none", "ok", "duplicate", "missing", "error", "invalid"}]
  /\ load \in [Loaders -> LoadRecord(Nat)]
  /\ faults \in 0 .. MaxFaults
  /\ version \in [Handlers -> Nat]
  /\ installed \in Nat

\* The past ends with the present.
PastTables ==
  /\ past \in Seq(Tables)
  /\ Len(past) > 0
  /\ past[Len(past)] = table
  /\ \A i \in DOMAIN past : IsTable(past[i])

\* What a load has read was the table at the moment it names.
ReadsArePast ==
  \A l \in Loaders : load[l].state = "read" =>
    /\ load[l].version \in DOMAIN past
    /\ load[l].rows = Active(past[load[l].version])

\* A handler's load is under way exactly while the handler waits for it; only a
\* statement that succeeded is followed by one, and it reads what was written.
LoadsFollow ==
  /\ \A h \in Handlers : pc[h] = "loading" <=> load[h].state # "none"
  /\ \A h \in Handlers :
       pc[h] \in {"executed", "loading"} /\ reply[h] = "ok" => version[h] <= Len(past)
  /\ \A h \in Handlers : pc[h] = "loading" => reply[h] = "ok"
  /\ \A h \in Handlers : load[h].state = "read" => version[h] <= load[h].version

RegInv == Shapes /\ PastTables /\ ReadsArePast /\ LoadsFollow /\ RegistryIsPast

LEMMA NoLoadRecord == NoLoad \in LoadRecord(Nat) /\ Asked \in LoadRecord(Nat)
                      /\ NoLoad.state = "none" /\ Asked.state = "asked"
BY DEF NoLoad, Asked, LoadRecord

LEMMA LoaderKinds ==
  /\ Handlers \subseteq Loaders /\ Timers \subseteq Loaders /\ Startup \in Loaders
BY DEF Loaders

LEMMA TableIn == ASSUME NEW t, IsTable(t) PROVE t \in Tables
BY DEF IsTable, Tables

LEMMA InitReg ==
  ASSUME RoutesAssumption, LoadersAssumption, Init
  PROVE  RegInv
<1> USE NoLoadRecord, LoaderKinds
<1>1. IsTable(table)
  BY DEF Init, RoutesAssumption
<1>2. /\ load \in [Loaders -> LoadRecord(Nat)]
      /\ \A h \in Handlers : load[h].state = "none"
      /\ \A l \in Loaders : load[l].state # "read"
  BY DEF Init, LoadersAssumption
<1>3. DOMAIN call = {}
  BY DEF Init, EmptyMap
<1>4. MaxFaults \in Nat
  BY DEF RoutesAssumption
<1>8. Shapes
  <2>1. /\ started \in BOOLEAN /\ version \in [Handlers -> Nat] /\ installed \in Nat
        /\ pc \in [Handlers -> {"idle", "sent", "executed", "loading", "done"}]
        /\ \A h \in Handlers : pc[h] # "sent"
    BY DEF Init
  <2>2. reply \in [Handlers -> {"none", "ok", "duplicate", "missing", "error", "invalid"}]
    BY DEF Init
  <2>3. faults \in 0 .. MaxFaults
    BY <1>4 DEF Init
  <2> QED
    BY <1>1, <1>2, <1>3, <2>1, <2>2, <2>3 DEF Shapes
<1>5. PastTables
  BY <1>1, TableIn DEF Init, PastTables
<1>6. ReadsArePast /\ LoadsFollow
  BY <1>2 DEF Init, ReadsArePast, LoadsFollow
<1>7. RegistryIsPast
  BY DEF Init, RegistryIsPast
<1> QED
  BY <1>5, <1>6, <1>7, <1>8 DEF RegInv

-----------------------------------------------------------------------------
(* A statement.                                                            *)

LEMMA WrittenTable ==
  ASSUME RoutesAssumption, IsTable(table), NEW h \in Handlers, NEW c \in Calls
  PROVE  IsTable(Written(h, c))
<1>1. h \in Ids /\ c \in [op : {"POST", "MOVE", "SWITCH", "DELETE"}, user : Users,
                         id : Ids, prefix : RoutePrefixes, upstream : Upstreams,
                         active : BOOLEAN]
  BY DEF Ids, RoutesAssumption
<1>2. NewRow(h, c) \in Rows /\ NewRow(h, c).id = h
  BY <1>1 DEF NewRow, Rows
<1>3. \A i \in DOMAIN table : Patched(table[i], c) \in Rows /\ Patched(table[i], c).id = i
  BY <1>1 DEF IsTable, Patched, Rows
<1>4. CASE c.op = "POST"
  BY <1>1, <1>2, <1>4 DEF Written, IsTable
<1>5. CASE c.op = "DELETE"
  BY <1>5 DEF Written, IsTable
<1>6. CASE c.op \notin {"POST", "DELETE"}
  BY <1>3, <1>6 DEF Written, IsTable
<1> QED
  BY <1>4, <1>5, <1>6

\* The past only grows, and what it held stays where it was.
LEMMA WriteKeeps ==
  ASSUME RoutesAssumption, RegInv, NEW h \in Handlers, pc[h] = "sent",
         Write(h) \/ UNCHANGED <<table, past, version>>
  PROVE  /\ IsTable(table') /\ PastTables'
         /\ version' \in [Handlers -> Nat]
         /\ \A g \in Handlers : g # h => version'[g] = version[g]
         /\ Write(h) /\ Outcome(call[h]) = "ok" => version'[h] = Len(past')
         /\ Len(past) <= Len(past')
         /\ \A i \in DOMAIN past : i \in DOMAIN past' /\ past'[i] = past[i]
<1> /\ IsTable(table) /\ version \in [Handlers -> Nat] /\ PastTables
    /\ h \in DOMAIN call /\ call[h] \in Calls /\ Len(past) \in Nat
  BY DEF RegInv, Shapes, PastTables
<1>1. CASE UNCHANGED <<table, past, version>> /\ ~(Write(h) /\ Outcome(call[h]) = "ok")
  BY <1>1 DEF PastTables
<1>2. CASE Write(h) /\ Outcome(call[h]) = "ok"
  <2>1. /\ table' = Written(h, call[h])
        /\ past' = Append(past, table')
        /\ version' = [version EXCEPT ![h] = Len(past')]
    BY <1>2 DEF Write
  <2>2. IsTable(table') /\ table' \in Tables
    BY <2>1, WrittenTable, TableIn
  <2>3. /\ past' \in Seq(Tables) /\ Len(past') = Len(past) + 1 /\ Len(past) \in Nat
        /\ past'[Len(past) + 1] = table'
        /\ \A i \in 1 .. Len(past) : past'[i] = past[i]
        /\ DOMAIN past = 1 .. Len(past) /\ DOMAIN past' = 1 .. (Len(past) + 1)
    BY <2>1, <2>2 DEF PastTables
  <2>4. ASSUME NEW i \in DOMAIN past'
        PROVE  IsTable(past'[i])
    <3>1. CASE i = Len(past) + 1
      BY <3>1, <2>2, <2>3
    <3>2. CASE i \in 1 .. Len(past)
      <4>1. past'[i] = past[i] /\ IsTable(past[i])
        BY <3>2, <2>3 DEF PastTables
      <4> QED
        BY <4>1
    <3> QED
      BY <3>1, <3>2, <2>3
  <2>5. PastTables'
    BY <2>3, <2>4 DEF PastTables
  <2>6. /\ version' \in [Handlers -> Nat] /\ version'[h] = Len(past')
        /\ \A g \in Handlers : g # h => version'[g] = version[g]
    <3>1. Len(past') \in Nat
      BY <2>3
    <3> QED
      BY <2>1, <3>1
  <2> QED
    BY <2>2, <2>3, <2>5, <2>6
<1>3. CASE Write(h) /\ Outcome(call[h]) # "ok"
  BY <1>1, <1>3 DEF Write
<1> QED
  BY <1>1, <1>2, <1>3

\* A step that writes at most the table, and reads and installs nothing.
LEMMA StatementKeeps ==
  ASSUME RoutesAssumption, RegInv, NEW h \in Handlers, pc[h] = "sent",
         Write(h) \/ UNCHANGED <<table, past, version>>,
         pc' = [pc EXCEPT ![h] = "executed"],
         NEW o \in {"ok", "duplicate", "missing", "error"},
         o = "ok" => Write(h) /\ Outcome(call[h]) = "ok",
         reply' = [reply EXCEPT ![h] = o],
         faults' \in 0 .. MaxFaults,
         UNCHANGED <<registry, started, call, load, installed>>
  PROVE  RegInv'
<1>1. /\ IsTable(table') /\ PastTables'
      /\ version' \in [Handlers -> Nat]
      /\ \A g \in Handlers : g # h => version'[g] = version[g]
      /\ o = "ok" => version'[h] = Len(past')
      /\ Len(past) <= Len(past')
      /\ \A i \in DOMAIN past : i \in DOMAIN past' /\ past'[i] = past[i]
  BY WriteKeeps
<1>2. Len(past) \in Nat /\ Len(past') \in Nat
  BY <1>1 DEF RegInv, PastTables
<1>3. Shapes'
  BY <1>1 DEF RegInv, Shapes
<1>4. ReadsArePast'
  BY <1>1 DEF RegInv, ReadsArePast
<1>5. LoadsFollow'
  <2>1. ASSUME NEW g \in Handlers
        PROVE  /\ pc'[g] = "loading" <=> load'[g].state # "none"
               /\ pc'[g] \in {"executed", "loading"} /\ reply'[g] = "ok"
                    => version'[g] <= Len(past')
               /\ pc'[g] = "loading" => reply'[g] = "ok"
               /\ load'[g].state = "read" => version'[g] <= load'[g].version
    <3>1. CASE g = h
      <4>1. pc'[g] = "executed" /\ reply'[g] = o /\ load'[g].state = "none"
        BY <3>1 DEF RegInv, Shapes, LoadsFollow
      <4> QED
        BY <4>1, <3>1, <1>1, <1>2
    <3>2. CASE g # h
      <4>1. pc'[g] = pc[g] /\ reply'[g] = reply[g] /\ version'[g] = version[g]
            /\ version[g] \in Nat
        BY <3>2, <1>1 DEF RegInv, Shapes
      <4> QED
        BY <4>1, <1>1, <1>2 DEF RegInv, LoadsFollow
    <3> QED
      BY <3>1, <3>2
  <2> QED
    BY <2>1 DEF LoadsFollow
<1>6. RegistryIsPast'
  BY <1>1 DEF RegInv, RegistryIsPast
<1> QED
  BY <1>1, <1>3, <1>4, <1>5, <1>6 DEF RegInv

-----------------------------------------------------------------------------
(* The steps.                                                              *)

LEMMA ExecuteKeeps ==
  ASSUME RoutesAssumption, RegInv, NEW h \in Handlers, Execute(h) \/ StatementFails(h)
  PROVE  RegInv'
<1>1. CASE Execute(h)
  <2>1. Outcome(call[h]) \in {"ok", "duplicate", "missing", "error"}
    BY DEF Outcome
  <2>2. faults' \in 0 .. MaxFaults
    BY <1>1 DEF Execute, RegInv, Shapes
  <2> QED
    BY <1>1, <2>1, <2>2, StatementKeeps DEF Execute
<1>2. CASE StatementFails(h)
  <2>1. faults' \in 0 .. MaxFaults
    BY <1>2 DEF StatementFails, RegInv, Shapes, RoutesAssumption
  <2> QED
    BY <1>2, <2>1, StatementKeeps DEF StatementFails
<1> QED
  BY <1>1, <1>2

\* A step that touches neither the table nor the registry nor any load's answer.
LEMMA PastKept ==
  ASSUME RegInv, UNCHANGED <<table, registry, past, installed>>
  PROVE  PastTables' /\ RegistryIsPast'
BY DEF RegInv, PastTables, RegistryIsPast

LEMMA ArriveKeeps ==
  ASSUME RegInv, NEW h \in Handlers, Send(h) \/ Reject(h)
  PROVE  RegInv'
<1>1. /\ pc[h] = "idle"
      /\ \E v \in {"sent", "done"} : pc' = [pc EXCEPT ![h] = v]
      /\ \/ UNCHANGED reply
         \/ reply' = [reply EXCEPT ![h] = "invalid"]
      /\ UNCHANGED <<table, registry, started, load, faults, past, version, installed>>
  BY DEF Send, Reject
<1>2. /\ DOMAIN call' \subseteq Handlers
      /\ \A g \in DOMAIN call' : call'[g] \in Calls
      /\ \A g \in Handlers : pc'[g] = "sent" => g \in DOMAIN call'
  <2>1. CASE Send(h)
    <3>1. PICK c \in Calls :
            call' = [g \in DOMAIN call \cup {h} |-> IF g = h THEN c ELSE call[g]]
      BY <2>1 DEF Send
    <3> QED
      BY <2>1, <3>1 DEF Send, RegInv, Shapes
  <2>2. CASE Reject(h)
    BY <2>2 DEF Reject, RegInv, Shapes
  <2> QED
    BY <2>1, <2>2
<1>3. Shapes'
  BY <1>1, <1>2 DEF RegInv, Shapes
<1>4. ReadsArePast'
  BY <1>1 DEF RegInv, ReadsArePast
<1>5. LoadsFollow'
  BY <1>1 DEF RegInv, LoadsFollow, Shapes
<1> QED
  BY <1>1, <1>3, <1>4, <1>5, PastKept DEF RegInv

\* A load is asked for, by a handler after its change or by the timer.
LEMMA AskKeeps ==
  ASSUME LoadersAssumption, RegInv,
         (\E h \in Handlers : Continue(h)) \/ (\E l \in Timers : TimerFires(l))
  PROVE  RegInv'
<1> USE NoLoadRecord, LoaderKinds
<1>1. UNCHANGED <<table, registry, started, call, reply, faults, past, version, installed>>
  BY DEF Continue, TimerFires
<1>2. CASE \E h \in Handlers : Continue(h)
  <2>1. PICK h \in Handlers : Continue(h)
    BY <1>2
  <2>2. CASE reply[h] = "ok"
    <3>1. pc' = [pc EXCEPT ![h] = "loading"] /\ load' = [load EXCEPT ![h] = Asked]
      BY <2>1, <2>2 DEF Continue
    <3>2. Shapes'
      BY <1>1, <3>1 DEF RegInv, Shapes
    <3>3. ReadsArePast'
      BY <1>1, <3>1 DEF RegInv, Shapes, ReadsArePast
    <3>4. LoadsFollow'
      BY <1>1, <2>1, <2>2, <3>1 DEF Continue, RegInv, Shapes, LoadsFollow
    <3> QED
      BY <1>1, <3>2, <3>3, <3>4, PastKept DEF RegInv
  <2>3. CASE reply[h] # "ok"
    <3>1. pc' = [pc EXCEPT ![h] = "done"] /\ load' = load /\ pc[h] = "executed"
      BY <2>1, <2>3 DEF Continue
    <3>2. Shapes'
      BY <1>1, <3>1 DEF RegInv, Shapes
    <3>3. ReadsArePast'
      BY <1>1, <3>1 DEF RegInv, ReadsArePast
    <3>4. LoadsFollow'
      BY <1>1, <3>1 DEF RegInv, Shapes, LoadsFollow
    <3> QED
      BY <1>1, <3>2, <3>3, <3>4, PastKept DEF RegInv
  <2> QED
    BY <2>2, <2>3
<1>3. CASE \E l \in Timers : TimerFires(l)
  <2>1. PICK l \in Timers : TimerFires(l)
    BY <1>3
  <2>2. pc' = pc /\ load' = [load EXCEPT ![l] = Asked] /\ l \notin Handlers
    BY <2>1 DEF TimerFires, LoadersAssumption
  <2>3. Shapes'
    BY <1>1, <2>2 DEF RegInv, Shapes
  <2>4. ReadsArePast'
    BY <1>1, <2>2 DEF RegInv, Shapes, ReadsArePast
  <2>5. LoadsFollow'
    BY <1>1, <2>2 DEF RegInv, Shapes, LoadsFollow
  <2> QED
    BY <1>1, <2>3, <2>4, <2>5, PastKept DEF RegInv
<1> QED
  BY <1>2, <1>3

LEMMA ReadKeeps ==
  ASSUME RoutesAssumption, RegInv, NEW l \in Loaders, Read(l) \/ ReadFails(l)
  PROVE  RegInv'
<1>1. UNCHANGED <<table, registry, started, pc, call, reply, past, version, installed>>
      /\ load[l].state = "asked"
  BY DEF Read, ReadFails
<1>2. faults' \in 0 .. MaxFaults
  BY DEF Read, ReadFails, RegInv, Shapes, RoutesAssumption
<1>3. PICK r \in LoadRecord(Nat) :
        /\ load' = [load EXCEPT ![l] = r]
        /\ r.state \in {"read", "failed"}
        /\ r.state = "read" => r.version = Len(past) /\ r.rows = Active(table)
  <2>1. CASE Read(l)
    <3> DEFINE r == [state |-> "read", rows |-> Active(table), version |-> Len(past)]
    <3>1. Active(table) \subseteq Rows
      BY DEF RegInv, Shapes, IsTable, Active
    <3>2. r \in LoadRecord(Nat)
      BY <3>1 DEF RegInv, PastTables, LoadRecord
    <3> QED
      BY <2>1, <3>2 DEF Read
  <2>2. CASE ReadFails(l)
    <3> DEFINE r == [load[l] EXCEPT !.state = "failed"]
    <3>1. r \in LoadRecord(Nat) /\ r.state = "failed"
      BY DEF RegInv, Shapes, LoadRecord
    <3> QED
      BY <2>2, <3>1 DEF ReadFails
  <2> QED
    BY <2>1, <2>2
<1>4. Shapes'
  BY <1>1, <1>2, <1>3 DEF RegInv, Shapes
<1>5. ReadsArePast'
  BY <1>1, <1>3 DEF RegInv, Shapes, PastTables, ReadsArePast
<1>6. LoadsFollow'
  <2>1. \A g \in Handlers : g \in Loaders
    BY LoaderKinds
  <2> QED
    BY <1>1, <1>3, <2>1 DEF RegInv, Shapes, LoadsFollow
<1> QED
  BY <1>1, <1>4, <1>5, <1>6, PastKept DEF RegInv

LEMMA FinishKeeps ==
  ASSUME RegInv, NEW l \in Loaders, Finish(l)
  PROVE  RegInv'
<1> USE NoLoadRecord, LoaderKinds
<1>1. /\ load' = [load EXCEPT ![l] = NoLoad]
      /\ pc' = [h \in Handlers |-> IF h = l THEN "done" ELSE pc[h]]
      /\ UNCHANGED <<table, call, reply, faults, past, version>>
      /\ started' \in BOOLEAN
  BY DEF Finish, RegInv, Shapes
<1>2. installed' \in Nat /\ RegistryIsPast'
  <2>1. CASE load[l].state = "read"
    <3>1. PICK s \in Sortings(load[l].rows) : registry' = MapOf(s)
      BY <2>1 DEF Finish, Install
    <3>2. installed' = load[l].version
      BY <2>1 DEF Finish, Install
    <3>3. load[l].version \in DOMAIN past /\ load[l].rows = Active(past[load[l].version])
      BY <2>1 DEF RegInv, ReadsArePast
    <3>4. load[l].version \in Nat \ {0}
      BY <3>3 DEF RegInv, PastTables
    <3> QED
      BY <1>1, <3>1, <3>2, <3>3, <3>4 DEF RegistryIsPast
  <2>2. CASE load[l].state # "read"
    <3>1. UNCHANGED <<registry, installed>>
      BY <2>2 DEF Finish, Install
    <3> QED
      BY <1>1, <3>1 DEF RegInv, Shapes, RegistryIsPast
  <2> QED
    BY <2>1, <2>2
<1>3. Shapes'
  BY <1>1, <1>2 DEF RegInv, Shapes
<1>4. PastTables'
  BY <1>1 DEF RegInv, PastTables
<1>5. ReadsArePast'
  BY <1>1 DEF RegInv, Shapes, ReadsArePast
<1>6. LoadsFollow'
  BY <1>1 DEF RegInv, Shapes, LoadsFollow
<1> QED
  BY <1>2, <1>3, <1>4, <1>5, <1>6 DEF RegInv

LEMMA NextKeeps ==
  ASSUME RoutesAssumption, LoadersAssumption, RegInv, [Next]_vars
  PROVE  RegInv'
<1>1. ASSUME NEW h \in Handlers, Handle(h)
      PROVE  RegInv'
  <2>1. CASE Send(h) \/ Reject(h)
    BY <2>1, ArriveKeeps
  <2>2. CASE Execute(h) \/ StatementFails(h)
    BY <2>2, ExecuteKeeps
  <2>3. CASE Continue(h)
    BY <2>3, AskKeeps
  <2> QED
    BY <1>1, <2>1, <2>2, <2>3 DEF Handle
<1>2. ASSUME NEW l \in Timers, TimerFires(l)
      PROVE  RegInv'
  BY <1>2, AskKeeps
<1>3. ASSUME NEW l \in Loaders, Load(l)
      PROVE  RegInv'
  <2>1. CASE Read(l) \/ ReadFails(l)
    BY <2>1, ReadKeeps
  <2>2. CASE Finish(l)
    BY <2>2, FinishKeeps
  <2> QED
    BY <1>3, <2>1, <2>2 DEF Load
<1>4. CASE UNCHANGED vars
  BY <1>4 DEF vars, RegInv, Shapes, PastTables, ReadsArePast, LoadsFollow,
     RegistryIsPast
<1> QED
  BY <1>1, <1>2, <1>3, <1>4 DEF Next

LEMMA RegInvariant == Spec => []RegInv
<1>1. Init => RegInv
  BY InitReg, RoutesAssumption, LoadersAssumption
<1>2. RegInv /\ [Next]_vars => RegInv'
  BY NextKeeps, RoutesAssumption, LoadersAssumption
<1> QED
  BY <1>1, <1>2, PTL DEF Spec

-----------------------------------------------------------------------------
(* The results.                                                            *)

\* The registry is always a copy of the whole table as it was at one moment
\* (loadRoutes builds a new Map aside and swaps it in).
THEOREM RegistryCopiesPast == Spec => []RegistryIsPast
<1>1. RegInv => RegistryIsPast
  BY DEF RegInv
<1> QED
  BY <1>1, RegInvariant, PTL

\* Whatever the loads do, the routes the proxy serves are active rows, each under its own
\* prefix, and a handler waits for a load exactly while its load is under way
\* (routeRegistry.js, routesApi.js).
THEOREM TypeCorrect == Spec => []TypeOK
<1>1. RegInv => TypeOK
  <2> SUFFICES ASSUME RegInv PROVE TypeOK
    OBVIOUS
  <2>1. ASSUME NEW p \in DOMAIN registry
        PROVE  /\ p \in RoutePrefixes
               /\ registry[p].place \in Nat \ {0}
               /\ registry[p].route \in Rows
               /\ registry[p].route.active /\ registry[p].route.prefix = p
    <3>1. installed # 0
      BY DEF RegInv, RegistryIsPast, EmptyMap
    <3>2. PICK s \in Sortings(Active(past[installed])) : registry = MapOf(s)
      BY <3>1 DEF RegInv, RegistryIsPast
    <3>3. IsTable(past[installed])
      BY <3>1 DEF RegInv, RegistryIsPast, PastTables
    <3>4. IsLoaded(Active(past[installed]))
      BY <3>3, ActiveLoaded, RoutesAssumption DEF RoutesAssumption
    <3> QED
      BY <3>2, <3>4, MapShape
  <2>2. \A l \in Loaders : load[l].state \in {"none", "asked", "read", "failed"}
    BY DEF RegInv, Shapes, LoadRecord
  <2> QED
    BY <2>1, <2>2 DEF RegInv, Shapes, LoadsFollow, TypeOK
<1> QED
  BY <1>1, RegInvariant, PTL

\* A request gets the route with the longest prefix of its path (matchRoute).
THEOREM LongestPrefixWins == Spec => []MatchesLongest
<1>1. RegInv => MatchesLongest
  <2> SUFFICES ASSUME RegInv, NEW path \in Paths, Matching(path) # {}
               PROVE  LET r == MatchRoute(path)
                      IN  /\ r.prefix \in Matching(path)
                          /\ \A q \in Matching(path) : Len(q) <= Len(r.prefix)
    BY DEF MatchesLongest
  <2>1. installed # 0
    BY DEF RegInv, RegistryIsPast, Matching, EmptyMap
  <2>2. PICK s \in Sortings(Active(past[installed])) : registry = MapOf(s)
    BY <2>1 DEF RegInv, RegistryIsPast
  <2>3. IsTable(past[installed])
    BY <2>1 DEF RegInv, RegistryIsPast, PastTables
  <2>4. IsLoaded(Active(past[installed]))
    BY <2>3, ActiveLoaded, RoutesAssumption DEF RoutesAssumption
  <2> QED
    BY <2>2, <2>4, FirstIsLongest, RoutesAssumption
<1> QED
  BY <1>1, RegInvariant, PTL

\* A change that is acknowledged is live at that moment, unless the handler's own
\* load failed (the handlers await loadRoutes before they answer).
THEOREM AcknowledgedIsLive == Spec => AnsweredLive
<1> DEFINE Live == \A h \in Handlers :
                     pc[h] # "done" /\ pc'[h] = "done" /\ reply'[h] = "ok"
                       /\ load[h].state # "failed" => installed' >= version[h]
<1>1. RegInv /\ [Next]_vars => Live
  <2> SUFFICES ASSUME RegInv, [Next]_vars, NEW h \in Handlers,
                      pc[h] # "done", pc'[h] = "done", reply'[h] = "ok",
                      load[h].state # "failed"
               PROVE  installed' >= version[h]
    OBVIOUS
  <2>1. pc \in [Handlers -> {"idle", "sent", "executed", "loading", "done"}]
        /\ reply \in [Handlers -> {"none", "ok", "duplicate", "missing", "error", "invalid"}]
    BY DEF RegInv, Shapes
  <2>2. Finish(h)
    <3>1. ASSUME NEW g \in Handlers, Handle(g)
          PROVE  FALSE
      BY <2>1, <3>1 DEF Handle, Send, Reject, Execute, StatementFails, Continue
    <3>2. ASSUME NEW l \in Loaders, Load(l)
          PROVE  Finish(h)
      BY <2>1, <3>2 DEF Load, Read, ReadFails, Finish
    <3>3. ~(\E l \in Timers : TimerFires(l)) /\ ~UNCHANGED vars
      BY DEF TimerFires, vars
    <3> QED
      BY <3>1, <3>2, <3>3 DEF Next
  <2>3. load[h].state = "read"
    BY <2>2 DEF Finish
  <2>4. installed' = load[h].version /\ version[h] <= load[h].version
    BY <2>2, <2>3 DEF Finish, Install, RegInv, LoadsFollow
  <2>5. load[h].version \in Nat /\ version[h] \in Nat
    BY LoaderKinds DEF RegInv, Shapes, LoadRecord
  <2> QED
    BY <2>4, <2>5
<1>2. RegInv /\ [Next]_vars => [Live]_vars
  BY <1>1
<1> QED
  BY <1>2, RegInvariant, PTL DEF Spec, AnsweredLive

=============================================================================

----------------------------- MODULE Analytics -----------------------------
(***************************************************************************)
(* routes/analyticsApi.js: the reports of the dashboard, as functions of   *)
(* the rows of request_logs.  A row is a record with at least the fields   *)
(* user, prefix, client, status, hit, limited and at; at is created_at,    *)
(* which MySQL sets when the row is inserted, so all rows of one INSERT of *)
(* the logger have the same.                                               *)
(*                                                                         *)
(* Sums and counts are kept; the latencies, the byte sums and the rounded  *)
(* percentages, which are quotients of them, are left out.                 *)
(***************************************************************************)
EXTENDS Integers, Sequences, FiniteSets, Functions

\* WHERE user_id = ? AND created_at >= NOW() - INTERVAL ? HOUR
Window(log, user, now, hours) ==
  {i \in DOMAIN log : log[i].user = user /\ log[i].at >= now - hours}

\* COUNT(*), SUM(cache_hit), SUM(rate_limited) and the count of the statuses
\* from 400 on, over some rows of the log.
Summary(log, rows) ==
  [total   |-> Cardinality(rows),
   hits    |-> Cardinality({i \in rows : log[i].hit}),
   limited |-> Cardinality({i \in rows : log[i].limited}),
   errors  |-> Cardinality({i \in rows : log[i].status >= 400})]

\* Mutant: the rows of every user are counted.
OverviewOfAll(log, user, now, day) ==
  Summary(log, {i \in DOMAIN log : log[i].at >= now - day})

\* GET /overview, over the last day
Overview(log, user, now, day) == Summary(log, Window(log, user, now, day))

\* GROUP BY the labels of the rows: a report per label that occurs.
GroupedBy(log, rows, label) ==
  [x \in {label[i] : i \in rows} |-> Summary(log, {i \in rows : label[i] = x})]

Column(log, field) == [i \in DOMAIN log |-> log[i][field]]

\* GET /requests-over-time, in buckets of width units; "all" has no window.
OverTime(log, user, now, hours, width, all) ==
  GroupedBy(log,
            IF all THEN {i \in DOMAIN log : log[i].user = user}
                   ELSE Window(log, user, now, hours),
            [i \in DOMAIN log |-> log[i].at \div width])

\* GET /by-route
ByRoute(log, user, now, hours) ==
  GroupedBy(log, Window(log, user, now, hours), Column(log, "prefix"))

\* GET /status-codes
StatusCodes(log, user, now, hours) ==
  GroupedBy(log, Window(log, user, now, hours), Column(log, "status"))

\* GET /top-clients: the limit clients with the most requests.  The order of
\* clients with as many requests is MySQL's choice: the set of what it may be.
TopClients(log, user, now, hours, limit) ==
  LET byClient == GroupedBy(log, Window(log, user, now, hours), Column(log, "client"))
      clients  == DOMAIN byClient
  IN  {[c \in shown |-> byClient[c]] : shown \in
        {some \in SUBSET clients :
           /\ Cardinality(some) <= limit
           /\ Cardinality(some) < limit => some = clients
           /\ \A c \in some, d \in clients \ some : byClient[c].total >= byClient[d].total}}

\* GET /recent-logs, the rows that a page may show: ORDER BY created_at DESC
\* LIMIT ? OFFSET ?, in which rows of one created_at come in any order.
RecentLogs(log, user, prefixes, limit, offset) ==
  LET rows == {i \in DOMAIN log : log[i].user = user /\ log[i].prefix \in prefixes}
      before(i) == Cardinality({j \in rows : log[j].at > log[i].at})
      tied(i)   == Cardinality({j \in rows : log[j].at = log[i].at})
  IN  {i \in rows : before(i) < offset + limit /\ before(i) + tied(i) > offset}

-----------------------------------------------------------------------------
\* What the groups of a report add up to.
Total(report) ==
  LET add(field) == FoldFunction(+, 0, [x \in DOMAIN report |-> report[x][field]])
  IN  [total |-> add("total"), hits |-> add("hits"), limited |-> add("limited"),
       errors |-> add("errors")]

=============================================================================

-------------------------- MODULE MCRouteRegistry --------------------------
(***************************************************************************)
(* Small instances of RouteRegistry for TLC: two users whose calls overlap *)
(* with each other and with a timer.                                       *)
(***************************************************************************)
EXTENDS RouteRegistry

CONSTANTS ann, bob, h1, h2, t1, t2, s1, s2, old1, old2, boot, none

MCUsers == {ann, bob}
OneUser == {ann}
MCHandlers == {h1, h2}
OneTimer == {t1}
TwoTimers == {t1, t2}

\* "/api", "/api/v1", "/pay" and paths below them.
Api == <<"/api">>
ApiV1 == <<"/api", "/v1">>
Pay == <<"/pay">>
MCPrefixes == {Api, ApiV1, Pay}
MCPaths == {Api, ApiV1, Api \o ApiV1, ApiV1 \o Pay, Pay \o ApiV1, <<"/v1">>}

Call(op, user, id, prefix, upstream, active) ==
  [op |-> op, user |-> user, id |-> id, prefix |-> prefix, upstream |-> upstream,
   active |-> active]

Row(id, user, prefix) ==
  [id |-> id, user |-> user, prefix |-> prefix, upstream |-> s1, active |-> TRUE]

\* Ann's route "/api" beside a free one of Bob.
MCTable == (old1 :> Row(old1, ann, Api)) @@ (old2 :> Row(old2, bob, Pay))

\* New routes, one a longer prefix and one a duplicate; changes of Ann's first
\* route, some of them tried by Bob.
MCCalls ==
  {Call("POST", ann, old1, p, s1, TRUE) : p \in {Api, ApiV1}}
  \cup {Call("MOVE", u, old1, Api, s2, TRUE) : u \in MCUsers}
  \cup {Call("SWITCH", ann, old1, Api, s1, b) : b \in BOOLEAN}
  \cup {Call("DELETE", u, old1, Api, s1, TRUE) : u \in MCUsers}

MCTables == {MCTable}

=============================================================================

--------------------------- MODULE SessionsProofs ---------------------------
(***************************************************************************)
(* Proofs about Sessions, for any number of users, browsers and requests,  *)
(* and any number of faults.                                               *)
(***************************************************************************)
EXTENDS Sessions, TLAPS

USE SessionsAssumption

-----------------------------------------------------------------------------
(* The records of requests.                                                *)

Kinds == {"api", "password", "logout", "login", "load"}

RotateStages == {"selected", "deleted"}
RefreshStages == {"refreshing", "rotated", "failed"} \cup RotateStages

CallRecord ==
  [stage : Stages, kind : Kinds, bearer : {None, "valid", "expired"},
   presented : Tokens \cup {None}, retried : BOOLEAN, dropped : BOOLEAN]

\* The requests of browser b: they present tokens of this browser, a rotation has found
\* one, and whatever refreshes is the load of a page or has its _retry set.
CallsOf(b) ==
  {c \in CallRecord :
     /\ c.presented # None => Home(c.presented) = b
     /\ c.stage \in RotateStages => c.presented # None
     /\ c.kind = "load" => c.stage \in RefreshStages
     /\ c.stage \in RefreshStages => c.kind = "load" \/ c.retried}

\* The request may still be given a session.
Fruitful(c) ==
  \/ c.stage \in {"idle", "refreshing"} \cup RotateStages
  \/ c.stage \in {"sent", "refused"} /\ ~c.retried

\* The inductive form of TypeOK.
Types ==
  /\ rows \subseteq Tokens /\ expired \subseteq Tokens
  /\ cookie \in [Browsers -> Tokens \cup {None}]
  /\ \A b \in Browsers : cookie[b] # None => Home(cookie[b]) = b
  /\ store \in [Browsers -> {None, "valid", "expired"}]
  /\ loading \in [Browsers -> {"due", "running", "over"}]
  /\ call \in [Requests -> CallRecord]
  /\ \A r \in Requests : call[r] \in CallsOf(BrowserOf[r])
  /\ faults \in 0 .. MaxFaults
  /\ origin \in [Tokens -> Tokens] /\ parent \in [Tokens -> Tokens \cup {None}]
  /\ shared \subseteq Tokens

-----------------------------------------------------------------------------
(* The life of a token.                                                    *)

\* The token of a request that may still be given one is nowhere yet.
Unused(r) ==
  /\ r \notin rows /\ r \notin ended /\ parent[r] = None
  /\ \A b \in Browsers : cookie[b] # r
  /\ \A q \in Requests : call[q].presented # r
  /\ \A t \in Tokens : parent[t] # r
  /\ \A t \in Tokens : origin[t] = r <=> t = r

Fresh == \A r \in Requests : Fruitful(call[r]) => Unused(r)

\* A token that was exchanged, or is being exchanged and was deleted, is not in the
\* table.
Spent ==
  /\ \A r \in Requests : parent[r] \notin rows
  /\ \A r \in Requests : call[r].stage = "deleted" => call[r].presented \notin rows

\* Two refreshes that present one token are known to have done so.
Together ==
  \A r, q \in Requests :
    r # q /\ {call[r].stage, call[q].stage} \subseteq RefreshStages
      /\ call[r].presented = call[q].presented => call[r].presented \in shared \cup {None}

\* So are a rotation under way and one that has exchanged its token before.
Late ==
  \A r, q \in Requests :
    call[q].stage \in RotateStages /\ call[q].presented = parent[r] => parent[r] \in shared

\* A rotation under way is of no session that was ended, or it was half done then.
Current(c, r) ==
  c.stage \in RotateStages => origin[c.presented] \notin ended \/ r \in outlived

\* A session stays with its user.
Lineage ==
  /\ \A t \in Tokens : Owner(origin[t]) = Owner(t)
  /\ \A r \in Requests : Current(call[r], r)

SessionInv ==
  Types /\ Fresh /\ Spent /\ Together /\ Late /\ SingleUse /\ Lineage /\ RevokedStaysDead

-----------------------------------------------------------------------------
(* What SessionSurvives needs.                                             *)

Well(b) ==
  /\ UserOf[b] \notin loggedOut
  /\ faults = 0
  /\ \A t \in shared : Home(t) # b

\* A request of a browser whose session is well.
WellCall(r) ==
  /\ call[r].kind \notin {"login", "load"} /\ ~call[r].dropped
  /\ call[r].stage # "failed"
  /\ call[r].stage \in RefreshStages => call[r].presented = cookie[BrowserOf[r]]
  /\ call[r].stage = "rotated" => r \in rows

\* Its page is there, and its cookie is in the table or is just being exchanged.
WellPage(b) ==
  /\ loading[b] = "over" /\ store[b] # None /\ cookie[b] # None
  /\ \/ cookie[b] \in rows
     \/ \E r \in Requests : BrowserOf[r] = b /\ call[r].stage \in {"deleted", "rotated"}

Health ==
  /\ \A r \in Requests : call[r].kind = "logout" => User(r) \in loggedOut
  /\ faults = 0 => expired = {}
  /\ \A b \in Browsers : Well(b) => WellPage(b)
  /\ \A r \in Requests : Well(BrowserOf[r]) => WellCall(r)

-----------------------------------------------------------------------------
LEMMA InitInv == Init => SessionInv
<1> SUFFICES ASSUME Init PROVE SessionInv
  OBVIOUS
<1>1. Idle \in CallRecord /\ Idle.stage = "idle" /\ Idle.kind = "api" /\ Idle.presented = None
  BY DEF Idle, Request, CallRecord, Kinds, Stages
<1>2. \A b \in Browsers : Idle \in CallsOf(b)
  BY <1>1 DEF CallsOf, RotateStages, RefreshStages
<1>3. Types
  BY <1>1, <1>2 DEF Init, Types, Tokens, Home
<1>4. Fresh
  BY <1>1 DEF Init, Fresh, Unused, Tokens
<1>5. Spent /\ Together /\ Late
  BY <1>1 DEF Init, Spent, Together, Late, RotateStages, RefreshStages, Tokens
<1>6. SingleUse /\ RevokedStaysDead
  BY DEF Init, SingleUse, RevokedStaysDead, Tokens
<1>7. Lineage
  BY <1>1 DEF Init, Lineage, Current, RotateStages
<1> QED
  BY <1>3, <1>4, <1>5, <1>6, <1>7 DEF SessionInv

-----------------------------------------------------------------------------
(* Steps that give nobody a session and let nobody begin a refresh or a    *)
(* rotation.                                                               *)

Tame(c, d, b) ==
  /\ d \in CallsOf(b)
  /\ Fruitful(d) => Fruitful(c)
  /\ d.presented \in {c.presented, None}
  /\ d.stage \in RefreshStages => c.stage \in RefreshStages /\ d.presented = c.presented
  /\ d.stage \in RotateStages => c.stage \in RotateStages
  /\ d.stage = "deleted" => c.stage = "deleted"

LEMMA TameKeeps ==
  ASSUME SessionInv,
         rows' \subseteq rows, expired' \subseteq Tokens, faults' \in 0 .. MaxFaults,
         UNCHANGED <<origin, parent, shared, ended, outlived>>,
         store' \in [Browsers -> {None, "valid", "expired"}],
         loading' \in [Browsers -> {"due", "running", "over"}],
         cookie' \in [Browsers -> Tokens \cup {None}],
         \A b \in Browsers : cookie'[b] # None => Home(cookie'[b]) = b,
         \A r \in Requests, b \in Browsers : Fruitful(call[r]) => cookie'[b] # r,
         call' \in [Requests -> CallRecord],
         \A r \in Requests : Tame(call[r], call'[r], BrowserOf[r])
  PROVE  SessionInv'
<1>1. Types'
  BY DEF SessionInv, Types, Tame
<1>2. ASSUME NEW r \in Requests, Fruitful(call'[r])
      PROVE  Unused(r)'
  <2>1. Fruitful(call[r]) /\ Unused(r)
    BY <1>2 DEF SessionInv, Fresh, Tame
  <2>2. \A q \in Requests : call'[q].presented # r
    BY <2>1 DEF Unused, Tame, Tokens
  <2> QED
    BY <2>1, <2>2 DEF Unused
<1>3. Fresh'
  BY <1>2 DEF Fresh, Fruitful
<1>4. Spent'
  BY DEF SessionInv, Spent, Tame, RefreshStages, RotateStages
<1>5. Together'
  <2> SUFFICES ASSUME NEW r \in Requests, NEW q \in Requests, r # q,
                      {call'[r].stage, call'[q].stage} \subseteq RefreshStages,
                      call'[r].presented = call'[q].presented
               PROVE  call'[r].presented \in shared \cup {None}
    BY DEF Together
  <2>1. /\ {call[r].stage, call[q].stage} \subseteq RefreshStages
        /\ call'[r].presented = call[r].presented /\ call'[q].presented = call[q].presented
    BY DEF Tame
  <2> QED
    BY <2>1 DEF SessionInv, Together
<1>6. Late'
  <2> SUFFICES ASSUME NEW r \in Requests, NEW q \in Requests,
                      call'[q].stage \in RotateStages, call'[q].presented = parent[r]
               PROVE  parent[r] \in shared
    BY DEF Late
  <2>1. call[q].stage \in RotateStages /\ call'[q].presented = call[q].presented
    BY DEF Tame, RefreshStages
  <2> QED
    BY <2>1 DEF SessionInv, Late
<1>7. SingleUse' /\ RevokedStaysDead'
  BY DEF SessionInv, SingleUse, RevokedStaysDead
<1>8. Lineage'
  <2>1. ASSUME NEW r \in Requests, call'[r].stage \in RotateStages
        PROVE  origin[call'[r].presented] \notin ended \/ r \in outlived
    <3>1. call[r].stage \in RotateStages /\ call'[r].presented = call[r].presented
      BY <2>1 DEF Tame, RefreshStages
    <3> QED
      BY <3>1 DEF SessionInv, Lineage, Current
  <2> QED
    BY <2>1 DEF SessionInv, Lineage, Current, Owner, User
<1> QED
  BY <1>1, <1>3, <1>4, <1>5, <1>6, <1>7, <1>8 DEF SessionInv

LEMMA TameSame ==
  ASSUME NEW b, NEW c \in CallsOf(b)
  PROVE  Tame(c, c, b)
  BY DEF Tame

\* The request that is through.
LEMMA TameOver ==
  ASSUME NEW b, NEW c
  PROVE  Tame(c, Over, b)
<1>1. Over \in CallRecord /\ Over.stage = "over" /\ Over.kind = "api" /\ Over.presented = None
  BY DEF Over, Request, CallRecord, Kinds, Stages
<1> QED
  BY <1>1 DEF Tame, CallsOf, Fruitful, RotateStages, RefreshStages

\* A step of one request that leaves the cookies alone.
LEMMA TameStep ==
  ASSUME SessionInv, NEW r \in Requests, NEW d, Tame(call[r], d, BrowserOf[r]),
         call' = [call EXCEPT ![r] = d],
         rows' \subseteq rows, faults' \in 0 .. MaxFaults,
         UNCHANGED <<expired, cookie, origin, parent, shared, ended, outlived>>,
         store' \in [Browsers -> {None, "valid", "expired"}],
         loading' \in [Browsers -> {"due", "running", "over"}]
  PROVE  SessionInv'
<1>1. Types /\ Fresh /\ d \in CallRecord
  BY DEF SessionInv, Tame, CallsOf
<1>2. call' \in [Requests -> CallRecord]
  BY <1>1 DEF Types
<1>3. \A q \in Requests : Tame(call[q], call'[q], BrowserOf[q])
  BY <1>1, TameSame DEF Types
<1>4. /\ expired' \subseteq Tokens /\ cookie' \in [Browsers -> Tokens \cup {None}]
      /\ \A b \in Browsers : cookie'[b] # None => Home(cookie'[b]) = b
      /\ \A q \in Requests, b \in Browsers : Fruitful(call[q]) => cookie'[b] # q
  BY <1>1 DEF Types, Fresh, Unused
<1> QED
  BY <1>2, <1>3, <1>4, TameKeeps

-----------------------------------------------------------------------------
(* What requests are made into.                                            *)

Moved(c, stage) == [c EXCEPT !.stage = stage, !.bearer = None]

LEMMA MovedCall ==
  ASSUME NEW c, NEW stage, c \in CallRecord, stage \in Stages
  PROVE  LET d == Moved(c, stage)
         IN  /\ d \in CallRecord
             /\ d.stage = stage /\ d.kind = c.kind /\ d.presented = c.presented
             /\ d.retried = c.retried /\ d.dropped = c.dropped
  BY DEF Moved, CallRecord

LEMMA ToMoved ==
  ASSUME SessionInv, NEW r \in Requests, NEW stage \in Stages, To(r, stage)
  PROVE  /\ call' = [call EXCEPT ![r] = Moved(call[r], stage)]
         /\ call[r] \in CallRecord /\ call[r] \in CallsOf(BrowserOf[r])
         /\ Moved(call[r], stage) \in CallRecord
<1>1. call[r] \in CallRecord /\ call[r] \in CallsOf(BrowserOf[r])
  BY DEF SessionInv, Types
<1>2. call' = [call EXCEPT ![r] = Moved(call[r], stage)]
  BY <1>1 DEF To, Moved, CallRecord
<1> QED
  BY <1>1, <1>2, MovedCall

LEMMA TameAnswer ==
  ASSUME NEW b, NEW c, NEW stage, c \in CallsOf(b), c.stage = "sent",
         stage \in {"answered", "refused"}
  PROVE  Tame(c, Moved(c, stage), b)
<1> DEFINE d == Moved(c, stage)
<1>1. c \in CallRecord /\ stage \in Stages
  BY DEF CallsOf, Stages
<1>2. /\ d \in CallRecord
      /\ d.stage = stage /\ d.kind = c.kind /\ d.presented = c.presented
      /\ d.retried = c.retried
  BY <1>1, MovedCall
<1> HIDE DEF d
<1>3. d \in CallsOf(b)
  BY <1>2 DEF CallsOf, RotateStages, RefreshStages
<1> QED
  BY <1>2, <1>3 DEF Tame, Fruitful, RotateStages, RefreshStages, d

LEMMA TameFailed ==
  ASSUME NEW b, NEW c, c \in CallsOf(b), c.stage \in {"refreshing", "selected", "deleted"}
  PROVE  Tame(c, Moved(c, "failed"), b)
<1> DEFINE d == Moved(c, "failed")
<1>1. c \in CallRecord /\ "failed" \in Stages
  BY DEF CallsOf, Stages
<1>2. /\ d \in CallRecord
      /\ d.stage = "failed" /\ d.kind = c.kind /\ d.presented = c.presented
      /\ d.retried = c.retried
  BY <1>1, MovedCall
<1> HIDE DEF d
<1>3. d \in CallsOf(b)
  BY <1>2 DEF CallsOf, RotateStages, RefreshStages
<1> QED
  BY <1>2, <1>3 DEF Tame, Fruitful, RotateStages, RefreshStages, d

Tamed ==
  /\ call' \in [Requests -> CallRecord]
  /\ \A q \in Requests : Tame(call[q], call'[q], BrowserOf[q])

LEMMA TamedDone ==
  ASSUME SessionInv, NEW r \in Requests, Done(r)
  PROVE  Tamed
<1>1. Over \in CallRecord
  BY DEF Over, Request, CallRecord, Kinds, Stages
<1> QED
  BY <1>1, TameSame, TameOver DEF SessionInv, Types, Done, Tamed

LEMMA TamedUnload ==
  ASSUME SessionInv, NEW b \in Browsers, NEW finished, Unload(b, finished)
  PROVE  /\ Tamed
         /\ store' \in [Browsers -> {None, "valid", "expired"}]
         /\ loading' \in [Browsers -> {"due", "running", "over"}]
<1>1. store \in [Browsers -> {None, "valid", "expired"}]
      /\ loading \in [Browsers -> {"due", "running", "over"}]
  BY DEF SessionInv, Types
<1>2. Over \in CallRecord
  BY DEF Over, Request, CallRecord, Kinds, Stages
<1>3. ASSUME NEW q \in Requests
      PROVE  call'[q] \in CallRecord /\ Tame(call[q], call'[q], BrowserOf[q])
  <2> DEFINE c == call[q]
             d == [c EXCEPT !.dropped = TRUE]
  <2>1. c \in CallsOf(BrowserOf[q]) /\ c \in CallRecord
    BY DEF SessionInv, Types
  <2>2. call'[q] \in {Over, d, c}
    BY DEF Unload
  <2> HIDE DEF c
  <2>3. /\ d \in CallRecord
        /\ d.stage = c.stage /\ d.kind = c.kind /\ d.presented = c.presented
        /\ d.retried = c.retried
    BY <2>1 DEF CallRecord
  <2> HIDE DEF d
  <2>4. d \in CallsOf(BrowserOf[q])
    BY <2>1, <2>3 DEF CallsOf
  <2>5. Tame(c, d, BrowserOf[q])
    BY <2>3, <2>4 DEF Tame, Fruitful
  <2> QED
    BY <1>2, <2>1, <2>2, <2>3, <2>5, TameSame, TameOver DEF c
<1>4. call' \in [Requests -> CallRecord]
  BY <1>3 DEF Unload
<1> QED
  BY <1>1, <1>3, <1>4 DEF Unload, Tamed

-----------------------------------------------------------------------------
(* The page.                                                               *)

LEMMA CallKeeps ==
  ASSUME SessionInv, NEW r \in Requests, NEW kind \in Kinds \ {"load"}, Call(r, kind)
  PROVE  SessionInv'
<1> DEFINE d == [Request("sent", kind) EXCEPT !.bearer = store[BrowserOf[r]]]
<1>1. /\ call[r] = Idle /\ call' = [call EXCEPT ![r] = d]
      /\ UNCHANGED <<server, client, faults, origin, parent, shared, ended, outlived>>
  BY DEF Call
<1>2. store[BrowserOf[r]] \in {None, "valid", "expired"} /\ Types
  BY DEF SessionInv, Types
<1>3. /\ d \in CallRecord
      /\ d.stage = "sent" /\ d.kind = kind /\ d.presented = None /\ d.retried = FALSE
  BY <1>2 DEF Request, CallRecord, Stages
<1> HIDE DEF d
<1>4. Idle.stage = "idle"
  BY DEF Idle, Request
<1>5. d \in CallsOf(BrowserOf[r])
  BY <1>3 DEF CallsOf, RotateStages, RefreshStages
<1>6. Tame(call[r], d, BrowserOf[r])
  BY <1>1, <1>3, <1>4, <1>5 DEF Tame, Fruitful, RotateStages, RefreshStages
<1> QED
  BY <1>1, <1>2, <1>6, TameStep DEF Types, server, client

LEMMA SendKeeps ==
  ASSUME SessionInv, NEW r \in Requests, Send(r)
  PROVE  SessionInv'
  BY CallKeeps DEF Send, Kinds

LEMMA SignInKeeps ==
  ASSUME SessionInv, NEW r \in Requests, SignIn(r)
  PROVE  SessionInv'
  BY CallKeeps DEF SignIn, Kinds

\* A refresh begins: it presents the cookie of its browser, and whoever presents the
\* same token at this time is known.
LEMMA RefreshKeeps ==
  ASSUME SessionInv, NEW r \in Requests, NEW request,
         Refresh(r, request), request \in CallRecord, request.retried \/ request.kind = "load",
         Fruitful(call[r]), call[r].stage \notin RefreshStages,
         UNCHANGED <<server, cookie, store, faults, origin, parent, ended, outlived>>,
         loading' \in [Browsers -> {"due", "running", "over"}]
  PROVE  SessionInv'
<1> DEFINE t == cookie[BrowserOf[r]]
           d == [request EXCEPT !.stage = "refreshing", !.presented = t]
<1>1. /\ Types /\ t \in Tokens \cup {None} /\ (t # None => Home(t) = BrowserOf[r])
      /\ shared \subseteq shared' /\ shared' \subseteq Tokens
      /\ \A q \in Requests : call[q].stage \in RefreshStages /\ call[q].presented = t
           => t \in shared' \cup {None}
  <2>1. Types /\ t \in Tokens \cup {None} /\ (t # None => Home(t) = BrowserOf[r])
    BY DEF SessionInv, Types
  <2>2. shared \subseteq shared' /\ shared' \subseteq Tokens
    BY <2>1 DEF Refresh, Types
  <2>3. \A q \in Requests : call[q].stage \in RefreshStages <=> q \in Refreshing
    BY DEF Refreshing, Rotating, RefreshStages, RotateStages
  <2> QED
    BY <2>1, <2>2, <2>3 DEF Refresh
<1>2. /\ d \in CallRecord
      /\ d.stage = "refreshing" /\ d.kind = request.kind /\ d.presented = t
      /\ d.retried = request.retried
  BY <1>1 DEF CallRecord, Stages
<1>3. call' = [call EXCEPT ![r] = d]
  BY DEF Refresh
<1> HIDE DEF d
<1>4. d \in CallsOf(BrowserOf[r])
  BY <1>1, <1>2 DEF CallsOf, RotateStages, RefreshStages
<1>5. \A q \in Requests : call'[q] = IF q = r THEN d ELSE call[q]
  BY <1>3 DEF SessionInv, Types
<1>6. \A q \in Requests : Fruitful(call'[q]) => Fruitful(call[q])
  BY <1>5
<1>7. Types'
  <2>1. call' \in [Requests -> CallRecord]
    BY <1>1, <1>2, <1>3 DEF Types
  <2>2. \A q \in Requests : call'[q] \in CallsOf(BrowserOf[q])
    BY <1>1, <1>4, <1>5 DEF Types
  <2> QED
    BY <1>1, <2>1, <2>2 DEF Types, server
<1>8. Fresh'
  <2>1. ASSUME NEW q \in Requests, Fruitful(call'[q])
        PROVE  Unused(q)'
    <3>1. Unused(q) /\ t # q
      BY <1>6, <2>1 DEF SessionInv, Fresh, Unused
    <3>2. \A p \in Requests : call'[p].presented # q
      BY <1>2, <1>5, <3>1 DEF Unused
    <3> QED
      BY <3>1, <3>2 DEF Unused, server
  <2> QED
    BY <2>1 DEF Fresh, Fruitful
<1>9. Spent'
  BY <1>2, <1>5 DEF SessionInv, Spent, server
<1>10. Together'
  <2> SUFFICES ASSUME NEW p \in Requests, NEW q \in Requests, p # q,
                      {call'[p].stage, call'[q].stage} \subseteq RefreshStages,
                      call'[p].presented = call'[q].presented
               PROVE  call'[p].presented \in shared' \cup {None}
    BY DEF Together
  <2>1. CASE p # r /\ q # r
    BY <1>1, <1>5, <2>1 DEF SessionInv, Together
  <2>2. CASE p = r
    BY <1>1, <1>2, <1>5, <2>2
  <2>3. CASE q = r
    BY <1>1, <1>2, <1>5, <2>3
  <2> QED
    BY <2>1, <2>2, <2>3
<1>11. Late'
  BY <1>1, <1>2, <1>5 DEF SessionInv, Late, RotateStages
<1>12. SingleUse' /\ RevokedStaysDead'
  BY <1>1 DEF SessionInv, SingleUse, RevokedStaysDead, server
<1>13. Lineage'
  <2>1. \A q \in Requests : call'[q].stage \in RotateStages => call'[q] = call[q]
    BY <1>2, <1>5 DEF RotateStages
  <2> QED
    BY <2>1 DEF SessionInv, Lineage, Current, Owner, User
<1> QED
  BY <1>7, <1>8, <1>9, <1>10, <1>11, <1>12, <1>13 DEF SessionInv

LEMMA LoadPageKeeps ==
  ASSUME SessionInv, NEW r \in Requests, LoadPage(r)
  PROVE  SessionInv'
<1> DEFINE request == Request("refreshing", "load")
<1>1. request \in CallRecord /\ request.kind = "load"
  BY DEF Request, CallRecord, Kinds, Stages
<1>2. Idle.stage = "idle"
  BY DEF Idle, Request
<1>3. Fruitful(call[r]) /\ call[r].stage \notin RefreshStages
  BY <1>2 DEF LoadPage, Fruitful, RefreshStages, RotateStages
<1>4. loading' \in [Browsers -> {"due", "running", "over"}]
  BY DEF LoadPage, SessionInv, Types
<1> HIDE DEF request
<1>5. Refresh(r, request)
  BY DEF LoadPage, request
<1> QED
  BY <1>1, <1>3, <1>4, <1>5, RefreshKeeps DEF LoadPage

LEMMA RefreshAfter401Keeps ==
  ASSUME SessionInv, NEW r \in Requests, RefreshAfter401(r)
  PROVE  SessionInv'
<1> DEFINE c == call[r]
           request == [c EXCEPT !.retried = TRUE]
<1>1. c \in CallRecord /\ c.stage = "refused" /\ ~c.retried
  BY DEF RefreshAfter401, Arrives, SessionInv, Types
<1>2. request \in CallRecord /\ request.retried
  <2> HIDE DEF c
  <2> QED
    BY <1>1 DEF CallRecord
<1>3. Fruitful(call[r]) /\ call[r].stage \notin RefreshStages
  BY <1>1 DEF Fruitful, RefreshStages, RotateStages
<1>4. Refresh(r, request)
  BY DEF RefreshAfter401
<1>5. loading' \in [Browsers -> {"due", "running", "over"}]
  BY DEF RefreshAfter401, SessionInv, Types, client
<1> HIDE DEF request
<1> QED
  BY <1>2, <1>3, <1>4, <1>5, RefreshKeeps DEF RefreshAfter401, client

LEMMA LoadAsGuestKeeps ==
  ASSUME SessionInv, NEW b \in Browsers, LoadAsGuest(b)
  PROVE  SessionInv'
<1>1. Tamed
  BY TameSame DEF LoadAsGuest, SessionInv, Types, Tamed
<1>2. loading' \in [Browsers -> {"due", "running", "over"}]
  BY DEF LoadAsGuest, SessionInv, Types
<1> QED
  BY <1>1, <1>2, TameKeeps
     DEF LoadAsGuest, SessionInv, Types, Fresh, Unused, Tamed, server, history

LEMMA ReloadKeeps ==
  ASSUME SessionInv, NEW b \in Browsers, Reload(b)
  PROVE  SessionInv'
<1>1. /\ Tamed
      /\ store' \in [Browsers -> {None, "valid", "expired"}]
      /\ loading' \in [Browsers -> {"due", "running", "over"}]
  BY TamedUnload DEF Reload
<1>2. faults' \in 0 .. MaxFaults
  BY DEF Reload, SessionInv, Types
<1> QED
  BY <1>1, <1>2, TameKeeps
     DEF Reload, SessionInv, Types, Fresh, Unused, Tamed, server, history

-----------------------------------------------------------------------------
(* The server.                                                             *)

LEMMA RefuseKeeps ==
  ASSUME SessionInv, NEW r \in Requests, Refuse(r)
  PROVE  SessionInv'
<1>1. /\ call' = [call EXCEPT ![r] = Moved(call[r], "refused")]
      /\ Tame(call[r], Moved(call[r], "refused"), BrowserOf[r])
  BY ToMoved, TameAnswer DEF Refuse, Stages
<1> QED
  BY <1>1, TameStep DEF Refuse, SessionInv, Types, server, client, history

\* The SELECT has found its row: the session it belongs to is not one that was ended,
\* and nobody has exchanged its token.
LEMMA SelectKeeps ==
  ASSUME SessionInv, NEW r \in Requests, Select(r)
  PROVE  SessionInv'
<1> DEFINE c == call[r]
           t == c.presented
           d == Moved(c, "selected")
<1>1. /\ c \in CallRecord /\ c \in CallsOf(BrowserOf[r]) /\ c.stage = "refreshing" /\ Types
      /\ UNCHANGED <<server, client, faults, history>>
  BY DEF Select, SessionInv, Types
<1>2. CASE t \notin rows \ expired
  <2>1. To(r, "failed")
    BY <1>2 DEF Select
  <2>2. /\ call' = [call EXCEPT ![r] = Moved(call[r], "failed")]
        /\ Tame(call[r], Moved(call[r], "failed"), BrowserOf[r])
    BY <1>1, <2>1, ToMoved, TameFailed DEF Stages
  <2> QED
    BY <1>1, <2>2, TameStep DEF Types, server, client, history
<1>3. CASE t \in rows \ expired
  <2>1. call' = [call EXCEPT ![r] = d]
    BY <1>3, ToMoved DEF Select, Stages
  <2>2. /\ d \in CallRecord
        /\ d.stage = "selected" /\ d.kind = c.kind /\ d.presented = t /\ d.retried = c.retried
    BY <1>1, MovedCall DEF Stages
  <2>3. t \in Tokens /\ t # None
    BY <1>1, <1>3 DEF Types
  <2> HIDE DEF d
  <2>4. \A q \in Requests : call'[q] = IF q = r THEN d ELSE call[q]
    BY <1>1, <2>1 DEF Types
  <2>5. d \in CallsOf(BrowserOf[r]) /\ Fruitful(c)
    BY <1>1, <2>2, <2>3 DEF CallsOf, Fruitful, RotateStages, RefreshStages
  <2>6. Types'
    <3>1. call' \in [Requests -> CallRecord]
      BY <1>1, <2>1, <2>2 DEF Types
    <3>2. \A q \in Requests : call'[q] \in CallsOf(BrowserOf[q])
      BY <1>1, <2>4, <2>5 DEF Types
    <3> QED
      BY <1>1, <3>1, <3>2 DEF Types, server, client, history
  <2>7. Fresh'
    <3>1. ASSUME NEW q \in Requests, Fruitful(call'[q])
          PROVE  Unused(q)'
      <4>1. Unused(q)
        BY <2>4, <2>5, <3>1 DEF SessionInv, Fresh
      <4> QED
        BY <1>1, <2>2, <2>4, <4>1 DEF Unused, server, client, history
    <3> QED
      BY <3>1 DEF Fresh, Fruitful
  <2>8. Spent'
    BY <1>1, <2>2, <2>4 DEF SessionInv, Spent, server, history
  <2>9. Together'
    <3>1. \A q \in Requests : /\ call'[q].presented = call[q].presented
                              /\ call'[q].stage \in RefreshStages => call[q].stage \in RefreshStages
      BY <1>1, <2>2, <2>4 DEF RefreshStages
    <3> QED
      BY <1>1, <3>1 DEF SessionInv, Together, history
  <2>10. Late'
    <3>1. \A p \in Requests : parent[p] # t
      BY <1>3 DEF SessionInv, Spent
    <3> QED
      BY <1>1, <2>2, <2>4, <3>1 DEF SessionInv, Late, history
  <2>11. SingleUse' /\ RevokedStaysDead'
    BY <1>1 DEF SessionInv, SingleUse, RevokedStaysDead, server, history
  <2>12. Lineage'
    <3>1. origin[t] \notin ended
      BY <1>3 DEF SessionInv, RevokedStaysDead
    <3>2. \A q \in Requests : Current(call'[q], q)
      BY <2>2, <2>4, <3>1 DEF SessionInv, Lineage, Current
    <3> QED
      BY <1>1, <3>2 DEF SessionInv, Lineage, Current, Owner, User, history
  <2> QED
    BY <2>6, <2>7, <2>8, <2>9, <2>10, <2>11, <2>12 DEF SessionInv
<1> QED
  BY <1>2, <1>3

\* The DELETE: the used token leaves the table.
LEMMA DeleteKeeps ==
  ASSUME SessionInv, NEW r \in Requests, Delete(r)
  PROVE  SessionInv'
<1> DEFINE c == call[r]
           t == c.presented
           d == Moved(c, "deleted")
<1>1. /\ c \in CallRecord /\ c \in CallsOf(BrowserOf[r]) /\ c.stage = "selected" /\ Types
      /\ UNCHANGED <<expired, client, faults, history>>
  BY DEF Delete, SessionInv, Types
<1>2. call' = [call EXCEPT ![r] = d] /\ rows' = rows \ {t}
  BY ToMoved DEF Delete, Stages, Used
<1>3. /\ d \in CallRecord
      /\ d.stage = "deleted" /\ d.kind = c.kind /\ d.presented = t /\ d.retried = c.retried
  BY <1>1, MovedCall DEF Stages
<1> HIDE DEF d
<1>4. \A q \in Requests : call'[q] = IF q = r THEN d ELSE call[q]
  BY <1>1, <1>2 DEF Types
<1>5. d \in CallsOf(BrowserOf[r]) /\ Fruitful(c)
  BY <1>1, <1>3 DEF CallsOf, Fruitful, RotateStages, RefreshStages
<1>6. \A q \in Requests : /\ call'[q].presented = call[q].presented
                          /\ call'[q].stage \in RefreshStages => call[q].stage \in RefreshStages
                          /\ call'[q].stage \in RotateStages => call[q].stage \in RotateStages
  BY <1>1, <1>3, <1>4 DEF RefreshStages, RotateStages
<1>7. Types'
  <2>1. call' \in [Requests -> CallRecord]
    BY <1>1, <1>2, <1>3 DEF Types
  <2>2. \A q \in Requests : call'[q] \in CallsOf(BrowserOf[q])
    BY <1>1, <1>4, <1>5 DEF Types
  <2> QED
    BY <1>1, <1>2, <2>1, <2>2 DEF Types, client, history
<1>8. Fresh'
  <2>1. ASSUME NEW q \in Requests, Fruitful(call'[q])
        PROVE  Unused(q)'
    <3>1. Unused(q)
      BY <1>4, <1>5, <2>1 DEF SessionInv, Fresh
    <3> QED
      BY <1>1, <1>2, <1>6, <3>1 DEF Unused, client, history
  <2> QED
    BY <2>1 DEF Fresh, Fruitful
<1>9. Spent'
  BY <1>1, <1>2, <1>3, <1>4 DEF SessionInv, Spent, history
<1>10. Together'
  BY <1>1, <1>6 DEF SessionInv, Together, history
<1>11. Late'
  BY <1>1, <1>6 DEF SessionInv, Late, history
<1>12. SingleUse' /\ RevokedStaysDead'
  BY <1>1, <1>2 DEF SessionInv, SingleUse, RevokedStaysDead, history
<1>13. Lineage'
  <2>1. \A q \in Requests : Current(call'[q], q)
    BY <1>6 DEF SessionInv, Lineage, Current
  <2> QED
    BY <1>1, <2>1 DEF SessionInv, Lineage, Current, Owner, User, history
<1> QED
  BY <1>7, <1>8, <1>9, <1>10, <1>11, <1>12, <1>13 DEF SessionInv

\* The INSERT, acknowledged or not: the new token takes the place of the one that was
\* presented.
LEMMA StoredKeeps ==
  ASSUME SessionInv, NEW r \in Requests, NEW stage \in {"rotated", "failed"},
         call[r].stage = "deleted", To(r, stage), Stored(r), faults' \in 0 .. MaxFaults,
         UNCHANGED <<expired, client, shared, loggedOut, ended, outlived>>
  PROVE  SessionInv'
<1> DEFINE c == call[r]
           t == c.presented
           o == IF r \in outlived THEN r ELSE origin[t]
           d == Moved(c, stage)
<1>1. /\ c \in CallRecord /\ c \in CallsOf(BrowserOf[r]) /\ c.stage = "deleted" /\ Types
      /\ rows' = rows \cup {r}
      /\ origin' = [origin EXCEPT ![r] = o] /\ parent' = [parent EXCEPT ![r] = t]
      /\ UNCHANGED <<expired, client, shared, loggedOut, ended, outlived>>
      /\ faults' \in 0 .. MaxFaults
  BY DEF Stored, SessionInv, Types
<1>2. call' = [call EXCEPT ![r] = d]
  BY ToMoved DEF Stages
<1>3. /\ d \in CallRecord
      /\ d.stage \in {"rotated", "failed"}
      /\ d.kind = c.kind /\ d.presented = t /\ d.retried = c.retried
  BY <1>1, MovedCall DEF Stages
<1> HIDE DEF d
<1>4. \A q \in Requests : call'[q] = IF q = r THEN d ELSE call[q]
  BY <1>1, <1>2 DEF Types
<1>5. d \in CallsOf(BrowserOf[r]) /\ Fruitful(c) /\ ~Fruitful(d)
  BY <1>1, <1>3 DEF CallsOf, Fruitful, RotateStages, RefreshStages
<1>6. \A q \in Requests :
        /\ call'[q].presented = call[q].presented
        /\ call'[q].stage \in RefreshStages => call[q].stage \in RefreshStages
        /\ call'[q].stage \in RotateStages => call[q].stage \in RotateStages /\ q # r
        /\ call'[q].stage = "deleted" => call[q].stage = "deleted"
  BY <1>1, <1>3, <1>4 DEF RefreshStages, RotateStages
<1>7. r \in Tokens /\ t \in Tokens /\ Home(t) = BrowserOf[r] /\ t # r /\ t \notin rows
  <2>1. t \in Tokens /\ Home(t) = BrowserOf[r]
    BY <1>1 DEF CallsOf, CallRecord, RotateStages
  <2> QED
    BY <1>1, <1>5, <2>1 DEF SessionInv, Fresh, Unused, Spent, Tokens
<1>8. Unused(r)
  BY <1>5 DEF SessionInv, Fresh
<1>16. o \in Tokens /\ o \in {r, origin[t]} /\ o \notin ended
  BY <1>1, <1>7, <1>8 DEF Types, SessionInv, Lineage, Current, RotateStages, Unused
<1> HIDE DEF o
<1>9. /\ \A s \in Tokens : origin'[s] = IF s = r THEN o ELSE origin[s]
      /\ \A s \in Tokens : parent'[s] = IF s = r THEN t ELSE parent[s]
      /\ origin' \in [Tokens -> Tokens] /\ parent' \in [Tokens -> Tokens \cup {None}]
  BY <1>1, <1>7, <1>16 DEF Types
<1>10. Types'
  <2>1. call' \in [Requests -> CallRecord]
    BY <1>1, <1>2, <1>3 DEF Types
  <2>2. \A q \in Requests : call'[q] \in CallsOf(BrowserOf[q])
    BY <1>1, <1>4, <1>5 DEF Types
  <2> QED
    BY <1>1, <1>7, <1>9, <2>1, <2>2 DEF Types, client
<1>11. Fresh'
  <2>1. ASSUME NEW q \in Requests, Fruitful(call'[q])
        PROVE  Unused(q)'
    <3>1. Unused(q) /\ q # r /\ t # q
      BY <1>4, <1>5, <2>1 DEF SessionInv, Fresh, Unused
    <3>2. \A s \in Tokens : origin'[s] = q <=> s = q
      BY <1>7, <1>9, <1>16, <3>1 DEF Unused
    <3>3. parent'[q] = None /\ \A s \in Tokens : parent'[s] # q
      BY <1>9, <3>1 DEF Unused, Tokens
    <3> QED
      BY <1>1, <1>6, <3>1, <3>2, <3>3 DEF Unused, client
  <2> QED
    BY <2>1 DEF Fresh, Fruitful
<1>12. Spent'
  <2>1. \A q \in Requests : parent'[q] \notin rows'
    BY <1>1, <1>7, <1>8, <1>9 DEF SessionInv, Spent, Unused, Tokens
  <2>2. \A q \in Requests : call'[q].stage = "deleted" => call'[q].presented \notin rows'
    BY <1>1, <1>6, <1>8 DEF SessionInv, Spent, Unused
  <2> QED
    BY <2>1, <2>2 DEF Spent
<1>13. Together'
  BY <1>1, <1>6 DEF SessionInv, Together
\* Another rotation of this token has begun while this one was under way.
<1>14. Late'
  <2> SUFFICES ASSUME NEW p \in Requests, NEW q \in Requests,
                      call'[q].stage \in RotateStages, call'[q].presented = parent'[p]
               PROVE  parent'[p] \in shared
    BY <1>1 DEF Late
  <2>1. call[q].stage \in RotateStages /\ q # r /\ call[q].presented = parent'[p]
    BY <1>6
  <2>2. CASE p # r
    BY <1>9, <2>1, <2>2 DEF SessionInv, Late, Tokens
  <2>3. CASE p = r
    <3>1. call[q].presented = t /\ parent'[p] = t
      BY <1>7, <1>9, <2>1, <2>3
    <3>2. {call[r].stage, call[q].stage} \subseteq RefreshStages
      BY <1>1, <2>1 DEF RefreshStages, RotateStages
    <3>3. t \in shared \cup {None}
      BY <2>1, <3>1, <3>2 DEF SessionInv, Together
    <3> QED
      BY <1>7, <3>1, <3>3
  <2> QED
    BY <2>2, <2>3
\* A token that was exchanged before is not the one of this rotation, unless two
\* refreshes shared it.
<1>15. SingleUse'
  <2>1. \A q \in Requests : parent[q] = t => t \in shared
    BY <1>1 DEF SessionInv, Late, RotateStages
  <2>2. ASSUME NEW p \in Requests, NEW q \in Requests, parent'[p] # None, parent'[p] = parent'[q]
        PROVE  p = q \/ parent'[p] \in shared
    BY <1>9, <2>1, <2>2 DEF SessionInv, SingleUse, Tokens
  <2> QED
    BY <1>1, <2>2 DEF SingleUse
<1>17. RevokedStaysDead'
  BY <1>1, <1>9, <1>16 DEF SessionInv, RevokedStaysDead, Types
<1>18. Lineage'
  <2>1. Owner(t) = Owner(r)
    BY <1>7 DEF Owner, Home, User, Tokens
  <2>2. \A s \in Tokens : Owner(origin'[s]) = Owner(s)
    BY <1>7, <1>9, <1>16, <2>1 DEF SessionInv, Lineage
  <2>3. ASSUME NEW q \in Requests, call'[q].stage \in RotateStages
        PROVE  origin'[call'[q].presented] \notin ended \/ q \in outlived
    <3>1. call[q].stage \in RotateStages /\ call'[q].presented = call[q].presented
      BY <1>6, <2>3
    <3>2. call[q].presented # r /\ call[q].presented \in Tokens
      BY <1>1, <1>8, <3>1 DEF Unused, Types, CallsOf, CallRecord
    <3> QED
      BY <1>9, <3>1, <3>2 DEF SessionInv, Lineage, Current
  <2>4. (\A s \in Tokens : Owner(origin[s]) = Owner(s))'
    BY <2>2 DEF Owner, User
  <2>5. (\A q \in Requests : Current(call[q], q))'
    BY <1>1, <2>3 DEF Current
  <2> QED
    BY <2>4, <2>5 DEF Lineage
<1> QED
  BY <1>10, <1>11, <1>12, <1>13, <1>14, <1>15, <1>17, <1>18 DEF SessionInv

LEMMA InsertKeeps ==
  ASSUME SessionInv, NEW r \in Requests, Insert(r)
  PROVE  SessionInv'
  BY StoredKeeps DEF Insert, SessionInv, Types

LEMMA QueryFailsKeeps ==
  ASSUME SessionInv, NEW r \in Requests, QueryFails(r)
  PROVE  SessionInv'
<1>1. faults' \in 0 .. MaxFaults /\ To(r, "failed")
  BY DEF QueryFails, SessionInv, Types
<1>2. CASE call[r].stage = "deleted" /\ Stored(r)
  BY <1>1, <1>2, StoredKeeps DEF QueryFails
<1>3. CASE rows' \subseteq rows /\ UNCHANGED <<origin, parent>>
  <2>1. /\ call' = [call EXCEPT ![r] = Moved(call[r], "failed")]
        /\ Tame(call[r], Moved(call[r], "failed"), BrowserOf[r])
    BY ToMoved, TameFailed DEF QueryFails, Stages
  <2> QED
    BY <1>1, <1>3, <2>1, TameStep DEF QueryFails, SessionInv, Types, client
<1> QED
  BY <1>2, <1>3 DEF QueryFails

\* A step of the server that changes the tables but begins no refresh and no rotation.
LEMMA ServeOther ==
  ASSUME SessionInv, NEW r \in Requests, Serve(r), call[r].kind \notin {"login", "logout"}
  PROVE  SessionInv'
<1>1. /\ call' = [call EXCEPT ![r] = Moved(call[r], "answered")]
      /\ Tame(call[r], Moved(call[r], "answered"), BrowserOf[r])
  BY ToMoved, TameAnswer DEF Serve, Stages
<1>2. rows' = rows /\ ended' = ended /\ outlived' = outlived
  BY DEF Serve
<1> QED
  BY <1>1, <1>2, TameStep DEF Serve, SessionInv, Types, client

\* A login makes a session of its own.
LEMMA ServeLogin ==
  ASSUME SessionInv, NEW r \in Requests, Serve(r), call[r].kind = "login"
  PROVE  SessionInv'
<1> DEFINE c == call[r]
           d == Moved(c, "answered")
<1>1. /\ c \in CallRecord /\ c \in CallsOf(BrowserOf[r]) /\ c.stage = "sent" /\ Types
      /\ ~c.retried /\ r \in Tokens
      /\ rows' = rows \cup {r}
      /\ UNCHANGED <<expired, client, faults, origin, parent, shared, loggedOut, ended, outlived>>
  BY DEF Serve, Authorized, SessionInv, Types, Tokens
<1>2. call' = [call EXCEPT ![r] = d] /\ Tame(c, d, BrowserOf[r])
  BY ToMoved, TameAnswer DEF Serve, Stages
<1>3. /\ d \in CallRecord
      /\ d.stage = "answered" /\ d.kind = c.kind /\ d.presented = c.presented
      /\ d.retried = c.retried
  BY <1>1, MovedCall DEF Stages
<1> HIDE DEF d
<1>4. \A q \in Requests : call'[q] = IF q = r THEN d ELSE call[q]
  BY <1>1, <1>2 DEF Types
<1>5. d \in CallsOf(BrowserOf[r]) /\ Fruitful(c) /\ ~Fruitful(d)
  BY <1>1, <1>2, <1>3 DEF Tame, Fruitful, RotateStages
<1>6. \A q \in Requests :
        /\ call'[q].presented = call[q].presented
        /\ call'[q].stage \in RefreshStages => call[q].stage \in RefreshStages
        /\ call'[q].stage \in RotateStages => call[q].stage \in RotateStages
        /\ call'[q].stage = "deleted" => call[q].stage = "deleted"
  BY <1>1, <1>3, <1>4 DEF RefreshStages, RotateStages
<1>7. Unused(r) /\ origin[r] = r
  BY <1>1, <1>5 DEF SessionInv, Fresh, Unused
<1>8. Types'
  <2>1. call' \in [Requests -> CallRecord]
    BY <1>1, <1>2, <1>3 DEF Types
  <2>2. \A q \in Requests : call'[q] \in CallsOf(BrowserOf[q])
    BY <1>1, <1>4, <1>5 DEF Types
  <2> QED
    BY <1>1, <2>1, <2>2 DEF Types, client
<1>9. Fresh'
  <2>1. ASSUME NEW q \in Requests, Fruitful(call'[q])
        PROVE  Unused(q)'
    <3>1. Unused(q) /\ q # r
      BY <1>4, <1>5, <2>1 DEF SessionInv, Fresh
    <3> QED
      BY <1>1, <1>6, <3>1 DEF Unused, client
  <2> QED
    BY <2>1 DEF Fresh, Fruitful
<1>10. Spent'
  BY <1>1, <1>6, <1>7 DEF SessionInv, Spent, Unused, Tokens
<1>11. Together' /\ Late'
  BY <1>1, <1>6 DEF SessionInv, Together, Late
<1>12. SingleUse' /\ RevokedStaysDead'
  BY <1>1, <1>7 DEF SessionInv, SingleUse, RevokedStaysDead, Unused
<1>13. Lineage'
  <2>1. (\A q \in Requests : Current(call[q], q))'
    BY <1>1, <1>6 DEF SessionInv, Lineage, Current
  <2> QED
    BY <1>1, <2>1 DEF SessionInv, Lineage, Owner, User
<1> QED
  BY <1>8, <1>9, <1>10, <1>11, <1>12, <1>13 DEF SessionInv

\* A logout ends the sessions whose tokens it deletes: the tokens that are left are of
\* other users, and so are their sessions.
LEMMA ServeLogout ==
  ASSUME SessionInv, NEW r \in Requests, Serve(r), call[r].kind = "logout"
  PROVE  SessionInv'
<1> DEFINE c == call[r]
           d == Moved(c, "answered")
<1>1. /\ c \in CallRecord /\ c \in CallsOf(BrowserOf[r]) /\ c.stage = "sent" /\ Types
      /\ rows' = rows \ LiveOf(User(r)) /\ ended' = ended \cup EndedBy(r)
      /\ outlived' = outlived \cup HalfDone(User(r))
      /\ UNCHANGED <<expired, client, faults, origin, parent, shared, loggedOut>>
  BY DEF Serve, Revoked, SessionInv, Types
<1>2. call' = [call EXCEPT ![r] = d] /\ Tame(c, d, BrowserOf[r])
  BY ToMoved, TameAnswer DEF Serve, Stages
<1>3. /\ d \in CallRecord
      /\ d.stage = "answered" /\ d.presented = c.presented
  BY <1>1, MovedCall DEF Stages
<1> HIDE DEF d
<1>4. \A q \in Requests : call'[q] = IF q = r THEN d ELSE call[q]
  BY <1>1, <1>2 DEF Types
<1>5. \A q \in Requests : Fruitful(call'[q]) => Fruitful(call[q])
  BY <1>2, <1>4 DEF Tame
<1>6. \A q \in Requests :
        /\ call'[q].presented = call[q].presented
        /\ call'[q].stage \in RefreshStages => call[q].stage \in RefreshStages
        /\ call'[q].stage \in RotateStages => call[q].stage \in RotateStages
        /\ call'[q].stage = "deleted" => call[q].stage = "deleted"
  BY <1>1, <1>3, <1>4 DEF RefreshStages, RotateStages
<1>7. Types'
  <2>1. call' \in [Requests -> CallRecord]
    BY <1>1, <1>2, <1>3 DEF Types
  <2>2. \A q \in Requests : call'[q] \in CallsOf(BrowserOf[q])
    BY <1>1, <1>2, <1>4 DEF Types, Tame
  <2> QED
    BY <1>1, <2>1, <2>2 DEF Types, client
<1>8. \A e \in EndedBy(r) : \E t \in Tokens :
        /\ e = origin[t] /\ Owner(t) = User(r)
        /\ t \in rows \/ \E q \in Requests : call[q].presented = t
  <2>1. ASSUME NEW q \in HalfDone(User(r))
        PROVE  q \in Requests /\ call[q].presented \in Tokens /\ Owner(call[q].presented) = User(r)
    <3>1. /\ q \in Requests /\ User(q) = User(r)
          /\ call[q] \in CallsOf(BrowserOf[q]) /\ call[q].stage \in RotateStages
      BY <1>1 DEF HalfDone, Rotating, RotateStages, Types
    <3> QED
      BY <3>1 DEF CallsOf, CallRecord, Owner, Home, User
  <2>2. \A t \in LiveOf(User(r)) : t \in rows /\ t \in Tokens /\ Owner(t) = User(r)
    BY <1>1 DEF LiveOf, Types
  <2> QED
    BY <2>1, <2>2 DEF EndedBy
<1>9. Fresh'
  <2>1. ASSUME NEW q \in Requests, Fruitful(call'[q])
        PROVE  Unused(q)'
    <3>1. Unused(q)
      BY <1>5, <2>1 DEF SessionInv, Fresh
    <3>2. q \notin EndedBy(r)
      BY <1>8, <3>1 DEF Unused
    <3> QED
      BY <1>1, <1>6, <3>1, <3>2 DEF Unused, client
  <2> QED
    BY <2>1 DEF Fresh, Fruitful
<1>10. Spent'
  BY <1>1, <1>6 DEF SessionInv, Spent
<1>11. Together' /\ Late' /\ SingleUse'
  BY <1>1, <1>6 DEF SessionInv, Together, Late, SingleUse
<1>12. RevokedStaysDead'
  <2> SUFFICES ASSUME NEW t \in rows'
               PROVE  origin[t] \notin ended'
    BY <1>1 DEF RevokedStaysDead
  <2>1. t \in rows /\ t \in Tokens /\ Owner(t) # User(r) /\ origin[t] \notin ended
    BY <1>1 DEF LiveOf, SessionInv, Types, RevokedStaysDead
  <2>2. \A s \in Tokens : Owner(origin[s]) = Owner(s)
    BY DEF SessionInv, Lineage
  <2> QED
    BY <1>1, <1>8, <2>1, <2>2
<1>13. Lineage'
  <2>1. (\A q \in Requests : Current(call[q], q))'
    <3> SUFFICES ASSUME NEW q \in Requests, call'[q].stage \in RotateStages
                 PROVE  origin[call[q].presented] \notin ended' \/ q \in outlived'
      BY <1>1, <1>6 DEF Current
    <3>1. /\ call[q].stage \in RotateStages
          /\ origin[call[q].presented] \notin ended \/ q \in outlived
      BY <1>6 DEF SessionInv, Lineage, Current
    <3>2. /\ q \in Rotating /\ call[q].presented \in Tokens
          /\ Owner(call[q].presented) = User(q)
      <4>1. q \in Rotating /\ call[q] \in CallsOf(BrowserOf[q])
        BY <1>1, <3>1 DEF Rotating, RotateStages, Types
      <4> QED
        BY <3>1, <4>1 DEF CallsOf, CallRecord, Owner, Home, User
    <3>3. CASE User(q) = User(r)
      BY <1>1, <3>2, <3>3 DEF HalfDone
    <3>4. CASE User(q) # User(r)
      <4>1. \A s \in Tokens : Owner(origin[s]) = Owner(s)
        BY DEF SessionInv, Lineage
      <4> QED
        BY <1>1, <1>8, <3>1, <3>2, <3>4, <4>1
    <3> QED
      BY <3>3, <3>4
  <2> QED
    BY <1>1, <2>1 DEF SessionInv, Lineage, Owner, User
<1> QED
  BY <1>7, <1>9, <1>10, <1>11, <1>12, <1>13 DEF SessionInv

LEMMA ServerKeeps ==
  ASSUME SessionInv, NEW r \in Requests, Server(r)
  PROVE  SessionInv'
  BY RefuseKeeps, ServeOther, ServeLogin, ServeLogout, SelectKeeps, DeleteKeeps, InsertKeeps
     DEF Server

-----------------------------------------------------------------------------
(* The answers.                                                            *)

\* An answer that arrives or is lost: a new cookie is a token that has been made.
LEMMA ArrivalKeeps ==
  ASSUME SessionInv, NEW r \in Requests, Tamed, TakeCookie(r) \/ UNCHANGED cookie,
         UNCHANGED <<server, history>>, faults' \in 0 .. MaxFaults,
         store' \in [Browsers -> {None, "valid", "expired"}],
         loading' \in [Browsers -> {"due", "running", "over"}]
  PROVE  SessionInv'
<1>1. Types /\ Fresh /\ r \in Tokens /\ Home(r) = BrowserOf[r] /\ r # None
  BY DEF SessionInv, Tokens, Home
<1>2. SetsCookie(r) => ~Fruitful(call[r])
  BY DEF SetsCookie, Fruitful, RotateStages
<1>3. \A b \in Browsers : \/ cookie'[b] = cookie[b]
                          \/ cookie'[b] = None
                          \/ cookie'[b] = r /\ SetsCookie(r) /\ b = BrowserOf[r]
  BY <1>1 DEF TakeCookie, Types
<1>4. cookie' \in [Browsers -> Tokens \cup {None}]
  BY <1>1 DEF TakeCookie, Types
<1>5. \A b \in Browsers : cookie'[b] # None => Home(cookie'[b]) = b
  BY <1>1, <1>3 DEF Types
<1>6. \A q \in Requests, b \in Browsers : Fruitful(call[q]) => cookie'[b] # q
  BY <1>1, <1>2, <1>3 DEF Fresh, Unused, Tokens
<1> QED
  BY <1>1, <1>4, <1>5, <1>6, TameKeeps DEF Tamed, Types, server, history

LEMMA NotRefreshedTames ==
  ASSUME SessionInv, NEW r \in Requests, NotRefreshed(r)
  PROVE  /\ Tamed
         /\ store' \in [Browsers -> {None, "valid", "expired"}]
         /\ loading' \in [Browsers -> {"due", "running", "over"}]
<1>1. CASE call[r].kind = "load"
  BY <1>1, TamedDone DEF NotRefreshed, SessionInv, Types
<1>2. CASE call[r].kind # "load"
  BY <1>2, TamedUnload DEF NotRefreshed
<1> QED
  BY <1>1, <1>2

LEMMA GiveUpTames ==
  ASSUME SessionInv, NEW r \in Requests, GiveUp(r)
  PROVE  Tamed /\ store' \in [Browsers -> {None, "valid", "expired"}]
  BY TamedDone DEF GiveUp, SetAuth, SessionInv, Types

LEMMA IgnoredKeeps ==
  ASSUME SessionInv, NEW r \in Requests, Ignored(r)
  PROVE  SessionInv'
  BY TamedDone, ArrivalKeeps DEF Ignored, SessionInv, Types

LEMMA SucceedKeeps ==
  ASSUME SessionInv, NEW r \in Requests, Succeed(r)
  PROVE  SessionInv'
<1>1. store' \in [Browsers -> {None, "valid", "expired"}]
  BY DEF Succeed, SetAuth, SessionInv, Types
<1> QED
  BY <1>1, TamedDone, ArrivalKeeps DEF Succeed, SessionInv, Types

LEMMA RejectKeeps ==
  ASSUME SessionInv, NEW r \in Requests, Reject(r)
  PROVE  SessionInv'
  BY GiveUpTames, ArrivalKeeps DEF Reject, SessionInv, Types

LEMMA RefreshFailsKeeps ==
  ASSUME SessionInv, NEW r \in Requests, RefreshFails(r)
  PROVE  SessionInv'
  BY NotRefreshedTames, ArrivalKeeps DEF RefreshFails, SessionInv, Types

LEMMA AnswerLostKeeps ==
  ASSUME SessionInv, NEW r \in Requests, AnswerLost(r)
  PROVE  SessionInv'
<1>1. faults' \in 0 .. MaxFaults /\ UNCHANGED <<server, cookie, history>>
  BY DEF AnswerLost, SessionInv, Types
<1>2. CASE call[r].stage \in {"rotated", "failed"}
  BY <1>1, <1>2, NotRefreshedTames, ArrivalKeeps DEF AnswerLost
<1>3. CASE call[r].stage \notin {"rotated", "failed"}
  BY <1>1, <1>3, GiveUpTames, ArrivalKeeps DEF AnswerLost, SessionInv, Types
<1> QED
  BY <1>2, <1>3

\* The call is sent again, with its _retry set.
LEMMA RefreshedKeeps ==
  ASSUME SessionInv, NEW r \in Requests, Refreshed(r)
  PROVE  SessionInv'
<1>1. /\ store' \in [Browsers -> {None, "valid", "expired"}]
      /\ loading' \in [Browsers -> {"due", "running", "over"}]
      /\ UNCHANGED <<server, faults, history>> /\ TakeCookie(r)
      /\ call[r] \in CallRecord /\ call[r] \in CallsOf(BrowserOf[r]) /\ call[r].stage = "rotated"
      /\ faults' \in 0 .. MaxFaults
  BY DEF Refreshed, Arrives, SetAuth, SessionInv, Types
<1>2. CASE call[r].kind = "load"
  BY <1>1, <1>2, TamedDone, ArrivalKeeps DEF Refreshed
<1>3. CASE call[r].kind # "load"
  <2> DEFINE c == call[r]
             d == [c EXCEPT !.stage = "sent", !.bearer = "valid", !.presented = None]
  <2>1. call' = [call EXCEPT ![r] = d]
    <3>1. call' = [call EXCEPT ![r].stage = "sent", ![r].bearer = "valid", ![r].presented = None]
      BY <1>3 DEF Refreshed
    <3>2. call \in [Requests -> CallRecord]
      BY DEF SessionInv, Types
    <3>3. call'[r] = d /\ \A q \in Requests : q # r => call'[q] = call[q]
      BY <3>1, <3>2 DEF CallRecord
    <3> HIDE DEF d
    <3> QED
      BY <3>1, <3>2, <3>3
  <2>2. c.retried
    BY <1>1, <1>3 DEF CallsOf, RefreshStages
  <2> HIDE DEF c
  <2>3. /\ d \in CallRecord
        /\ d.stage = "sent" /\ d.kind = c.kind /\ d.presented = None /\ d.retried = c.retried
    BY <1>1 DEF CallRecord, Stages, c
  <2> HIDE DEF d
  <2>4. Tame(c, d, BrowserOf[r])
    BY <1>3, <2>2, <2>3 DEF Tame, CallsOf, Fruitful, RotateStages, RefreshStages, c
  <2>5. Tamed
    BY <2>1, <2>3, <2>4, TameSame DEF SessionInv, Types, Tamed, c
  <2> QED
    BY <1>1, <2>5, ArrivalKeeps
<1> QED
  BY <1>2, <1>3

LEMMA AnswerKeeps ==
  ASSUME SessionInv, NEW r \in Requests, Answer(r)
  PROVE  SessionInv'
  BY IgnoredKeeps, SucceedKeeps, RefreshAfter401Keeps, RejectKeeps, RefreshedKeeps,
     RefreshFailsKeeps DEF Answer

-----------------------------------------------------------------------------
LEMMA TimeKeeps ==
  ASSUME SessionInv, \/ \E b \in Browsers : AccessExpires(b)
                     \/ \E t \in Tokens : RefreshExpires(t)
                     \/ UNCHANGED vars
  PROVE  SessionInv'
<1>1. Tamed
  BY TameSame
     DEF AccessExpires, RefreshExpires, vars, SessionInv, Types, Tamed
<1>2. /\ store' \in [Browsers -> {None, "valid", "expired"}]
      /\ loading' \in [Browsers -> {"due", "running", "over"}]
      /\ faults' \in 0 .. MaxFaults
      /\ rows' = rows /\ expired' \subseteq Tokens
      /\ UNCHANGED <<cookie, history>>
  BY DEF AccessExpires, RefreshExpires, vars, server, client, SessionInv, Types
<1> QED
  BY <1>1, <1>2, TameKeeps DEF Tamed, SessionInv, Types, Fresh, Unused, history

LEMMA StepInv == SessionInv /\ [Next]_vars => SessionInv'
<1> SUFFICES ASSUME SessionInv, [Next]_vars PROVE SessionInv'
  OBVIOUS
<1>1. ASSUME NEW r \in Requests, Page(r)
      PROVE  SessionInv'
  BY <1>1, SendKeeps, SignInKeeps, LoadPageKeeps DEF Page
<1>2. ASSUME NEW r \in Requests, Server(r) \/ Answer(r) \/ QueryFails(r) \/ AnswerLost(r)
      PROVE  SessionInv'
  BY <1>2, ServerKeeps, AnswerKeeps, QueryFailsKeeps, AnswerLostKeeps
<1>3. ASSUME NEW b \in Browsers, Reload(b) \/ LoadAsGuest(b)
      PROVE  SessionInv'
  BY <1>3, ReloadKeeps, LoadAsGuestKeeps
<1> QED
  BY <1>1, <1>2, <1>3, TimeKeeps DEF Next

\* In every state that requests, answers and faults lead to, SessionInv holds.
THEOREM Invariant == Spec => []SessionInv
  BY InitInv, StepInv, PTL DEF Spec

\* A cookie was given to the browser that has it, and a rotation under way presents a
\* token of its own browser, whatever answers were late, lost or ignored.
THEOREM TypeCorrect == Spec => []TypeOK
<1>1. SessionInv => TypeOK
  <2> SUFFICES ASSUME SessionInv PROVE TypeOK
    OBVIOUS
  <2>1. \A r \in Requests : call[r].stage \in Stages
    BY DEF SessionInv, Types, CallRecord
  <2>2. \A r \in Rotating : /\ call[r].presented \in Tokens
                             /\ Home(call[r].presented) = BrowserOf[r]
    BY DEF SessionInv, Types, CallsOf, CallRecord, Rotating, RotateStages
  <2> QED
    BY <2>1, <2>2 DEF SessionInv, Types, TypeOK
<1> QED
  BY <1>1, Invariant, PTL

\* revokeAllRefreshTokens: a logout ends every session of its user, and no token that
\* descends from one is ever in the table again, whatever refreshes were sent before it,
\* fail or are retried; only a rotation that the logout met between its SELECT and its
\* INSERT still makes a token, which lives as a session of its own until the next logout.
THEOREM RevocationIsFinal == Spec => []RevokedStaysDead
<1>1. SessionInv => RevokedStaysDead
  BY DEF SessionInv
<1> QED
  BY <1>1, Invariant, PTL

\* rotateRefreshToken: a refresh token is exchanged once, unless two refreshes presented
\* it at the same time.
THEOREM TokensAreUsedOnce == Spec => []SingleUse
<1>1. SessionInv => SingleUse
  BY DEF SessionInv
<1> QED
  BY <1>1, Invariant, PTL

-----------------------------------------------------------------------------
(* The user stays logged in.                                               *)

LEMMA InitHealth == Init => Health
<1> SUFFICES ASSUME Init PROVE Health
  OBVIOUS
<1>1. Idle.stage = "idle" /\ Idle.kind = "api" /\ ~Idle.dropped
  BY DEF Idle, Request
<1>2. \A b \in Browsers : WellPage(b)
  BY DEF Init, WellPage, Tokens
<1>3. \A r \in Requests : WellCall(r) /\ call[r].kind # "logout"
  BY <1>1 DEF Init, WellCall, RotateStages, RefreshStages
<1> QED
  BY <1>2, <1>3 DEF Init, Health

\* While the session of a browser is well, only one of its requests refreshes.
LEMMA RefreshesAlone ==
  ASSUME SessionInv, Health, NEW r \in Requests, NEW q \in Requests,
         BrowserOf[r] = BrowserOf[q], Well(BrowserOf[r]),
         {call[r].stage, call[q].stage} \subseteq RefreshStages
  PROVE  r = q
<1> SUFFICES ASSUME r # q PROVE FALSE
  OBVIOUS
<1> DEFINE t == cookie[BrowserOf[r]]
<1>1. call[r].presented = t /\ call[q].presented = t
  BY DEF Health, WellCall
<1>2. t # None /\ Home(t) = BrowserOf[r]
  BY DEF Health, WellPage, SessionInv, Types
<1>3. t \in shared
  BY <1>1, <1>2 DEF SessionInv, Together
<1> QED
  BY <1>2, <1>3 DEF Well

\* A step that a request takes changes the cookie, the store and the requests of its
\* own browser, and removes tokens of that browser or of a user who has logged out.
LEMMA LocalKeeps ==
  ASSUME SessionInv, Health, NEW b \in Browsers,
         loggedOut \subseteq loggedOut', shared \subseteq shared', faults' = faults,
         expired' = expired,
         \A q \in Requests : call'[q].kind = "logout" => User(q) \in loggedOut',
         \A a \in Browsers : a # b => /\ store'[a] = store[a] /\ loading'[a] = loading[a]
                                      /\ cookie'[a] = cookie[a],
         \A q \in Requests : BrowserOf[q] # b => call'[q] = call[q],
         \A t \in rows \ rows' : Home(t) = b \/ Owner(t) \in loggedOut,
         Well(b) /\ Well(b)' => /\ WellPage(b)'
                                /\ \A q \in Requests : BrowserOf[q] = b => WellCall(q)'
  PROVE  Health'
<1>1. \A a \in Browsers : Well(a)' => Well(a)
  BY DEF Well
<1>2. ASSUME NEW a \in Browsers, Well(a)'
      PROVE  WellPage(a)'
  <2>1. CASE a = b
    BY <1>1, <1>2, <2>1
  <2>2. CASE a # b
    <3>1. Well(a) /\ WellPage(a) /\ UserOf[a] \notin loggedOut
      BY <1>1, <1>2 DEF Health, Well
    <3>2. cookie[a] \in rows => cookie[a] \in rows'
      <4>1. cookie[a] \in rows => Home(cookie[a]) = a /\ Owner(cookie[a]) = UserOf[a]
        BY DEF SessionInv, Types, Owner, Home, User
      <4> QED
        BY <2>2, <3>1, <4>1
    <3> QED
      BY <2>2, <3>1, <3>2 DEF WellPage
  <2> QED
    BY <2>1, <2>2
<1>3. ASSUME NEW q \in Requests, Well(BrowserOf[q])'
      PROVE  WellCall(q)'
  <2>1. CASE BrowserOf[q] = b
    BY <1>1, <1>3, <2>1
  <2>2. CASE BrowserOf[q] # b
    <3>1. Well(BrowserOf[q]) /\ WellCall(q) /\ User(q) \notin loggedOut
      BY <1>1, <1>3 DEF Health, Well, User
    <3>2. q \in rows => q \in rows'
      BY <2>2, <3>1 DEF Home, Owner
    <3> QED
      BY <2>2, <3>1, <3>2 DEF WellCall
  <2> QED
    BY <2>1, <2>2
<1>4. (\A q \in Requests : call[q].kind = "logout" => User(q) \in loggedOut)'
  BY DEF User
<1> QED
  BY <1>2, <1>3, <1>4 DEF Health

\* Most steps of a well browser leave its cookie, its page and the table alone.
LEMMA QuietKeeps ==
  ASSUME SessionInv, Health, NEW r \in Requests, NEW d,
         call' = [call EXCEPT ![r] = d],
         loggedOut \subseteq loggedOut', shared \subseteq shared', faults' = faults,
         expired' = expired,
         d.kind = "logout" => User(r) \in loggedOut',
         \A a \in Browsers : a # BrowserOf[r] =>
           store'[a] = store[a] /\ loading'[a] = loading[a] /\ cookie'[a] = cookie[a],
         \A t \in rows \ rows' : Owner(t) \in loggedOut,
         Well(BrowserOf[r]) =>
           /\ store'[BrowserOf[r]] # None /\ loading'[BrowserOf[r]] = loading[BrowserOf[r]]
           /\ cookie'[BrowserOf[r]] = cookie[BrowserOf[r]]
           /\ d.kind \notin {"login", "load"} /\ ~d.dropped
           /\ d.stage \notin {"failed", "rotated"}
           /\ d.stage \in RefreshStages => d.presented = cookie[BrowserOf[r]]
           /\ call[r].stage \notin {"deleted", "rotated"}
  PROVE  Health'
<1> DEFINE b == BrowserOf[r]
<1>1. b \in Browsers /\ \A q \in Requests : call'[q] = IF q = r THEN d ELSE call[q]
  BY DEF SessionInv, Types
<1>2. \A q \in Requests : call'[q].kind = "logout" => User(q) \in loggedOut'
  BY <1>1 DEF Health
<1>3. \A q \in Requests : BrowserOf[q] # b => call'[q] = call[q]
  BY <1>1
<1>4. ASSUME Well(b), Well(b)'
      PROVE  WellPage(b)' /\ \A q \in Requests : BrowserOf[q] = b => WellCall(q)'
  <2>1. WellPage(b) /\ UserOf[b] \notin loggedOut
    BY <1>1, <1>4 DEF Health, Well
  <2>2. cookie[b] \in rows => cookie[b] \in rows'
    BY <1>1, <2>1 DEF SessionInv, Types, Owner, Home, User
  <2>3. WellPage(b)'
    BY <1>1, <1>4, <2>1, <2>2 DEF WellPage
  <2>4. ASSUME NEW q \in Requests, BrowserOf[q] = b
        PROVE  WellCall(q)'
    <3>1. WellCall(q) /\ User(q) \notin loggedOut
      BY <1>4, <2>4 DEF Health, Well, User
    <3>2. q \in rows => q \in rows'
      BY <3>1 DEF Owner
    <3> QED
      BY <1>1, <1>4, <2>4, <3>1, <3>2 DEF WellCall, RefreshStages
  <2> QED
    BY <2>3, <2>4
<1> HIDE DEF b
<1>5. \A a \in Browsers : a # b => /\ store'[a] = store[a] /\ loading'[a] = loading[a]
                                   /\ cookie'[a] = cookie[a]
  BY DEF b
<1> QED
  BY <1>1, <1>2, <1>3, <1>4, <1>5, LocalKeeps


\* A request is sent: a logout by a user who is then known to have chosen it.
LEMMA CallHealth ==
  ASSUME SessionInv, Health, NEW r \in Requests, NEW kind, Call(r, kind),
         Well(BrowserOf[r]) => kind \notin {"login", "load"}
  PROVE  Health'
<1> DEFINE d == [Request("sent", kind) EXCEPT !.bearer = store[BrowserOf[r]]]
<1>1. /\ call[r] = Idle /\ call' = [call EXCEPT ![r] = d]
      /\ UNCHANGED <<server, client, faults, origin, parent, shared, ended, outlived>>
      /\ loggedOut' = IF kind = "logout" THEN loggedOut \cup {User(r)} ELSE loggedOut
  BY DEF Call
<1>2. d.stage = "sent" /\ d.kind = kind /\ ~d.dropped
  BY DEF Request
<1> HIDE DEF d
<1>3. Idle.stage = "idle"
  BY DEF Idle, Request
<1>4. Well(BrowserOf[r]) => WellPage(BrowserOf[r])
  BY DEF Health, SessionInv, Types
<1>5. /\ loggedOut \subseteq loggedOut' /\ shared \subseteq shared' /\ faults' = faults
      /\ expired' = expired /\ rows' = rows
      /\ cookie' = cookie /\ store' = store /\ loading' = loading
      /\ d.kind = "logout" => User(r) \in loggedOut'
  BY <1>1, <1>2 DEF server, client
<1>6. Well(BrowserOf[r]) =>
        /\ store'[BrowserOf[r]] # None
        /\ d.kind \notin {"login", "load"}
        /\ call[r].stage \notin {"deleted", "rotated"}
        /\ d.stage \notin {"failed", "rotated"} \cup RefreshStages
  BY <1>1, <1>2, <1>3, <1>4, <1>5 DEF WellPage, RefreshStages, RotateStages
<1> QED
  BY <1>1, <1>2, <1>5, <1>6, QuietKeeps

LEMMA PageHealth ==
  ASSUME SessionInv, Health, NEW r \in Requests, Send(r) \/ SignIn(r)
  PROVE  Health'
<1>1. CASE Send(r)
  <2>1. \A kind \in PageCalls : kind \notin {"login", "load"}
    OBVIOUS
  <2> QED
    BY <1>1, <2>1, CallHealth DEF Send
<1>2. CASE SignIn(r)
  BY <1>2, CallHealth DEF SignIn, AtLogin, Health, WellPage, SessionInv, Types
<1> QED
  BY <1>1, <1>2

\* The server looks at a request, and removes no token but of users who log out.
LEMMA ToHealth ==
  ASSUME SessionInv, Health, NEW r \in Requests, NEW stage \in Stages, To(r, stage),
         call[r].stage \in {"sent", "refreshing"},
         stage \in RefreshStages => call[r].stage = "refreshing",
         Well(BrowserOf[r]) => stage \notin {"failed", "rotated"},
         expired' = expired, UNCHANGED client, faults' = faults,
         shared' = shared, loggedOut' = loggedOut,
         \A t \in rows \ rows' : Owner(t) \in loggedOut
  PROVE  Health'
<1> DEFINE d == Moved(call[r], stage)
<1>1. call' = [call EXCEPT ![r] = d] /\ call[r] \in CallRecord
  BY ToMoved
<1>2. /\ d.stage = stage /\ d.kind = call[r].kind /\ d.presented = call[r].presented
      /\ d.dropped = call[r].dropped
  BY <1>1, MovedCall
<1> HIDE DEF d
<1>3. d.kind = "logout" => User(r) \in loggedOut'
  BY <1>2 DEF Health
<1>4. Well(BrowserOf[r]) => WellPage(BrowserOf[r]) /\ WellCall(r)
  BY DEF Health, SessionInv, Types
<1>5. Well(BrowserOf[r]) =>
        /\ store'[BrowserOf[r]] # None /\ loading'[BrowserOf[r]] = loading[BrowserOf[r]]
        /\ cookie'[BrowserOf[r]] = cookie[BrowserOf[r]]
        /\ d.kind \notin {"login", "load"} /\ ~d.dropped
        /\ d.stage \notin {"failed", "rotated"}
        /\ d.stage \in RefreshStages => d.presented = cookie[BrowserOf[r]]
        /\ call[r].stage \notin {"deleted", "rotated"}
  BY <1>2, <1>4 DEF client, WellPage, WellCall, RefreshStages
<1> QED
  BY <1>1, <1>3, <1>5, QuietKeeps DEF client

LEMMA RefuseHealth ==
  ASSUME SessionInv, Health, NEW r \in Requests, Refuse(r)
  PROVE  Health'
  BY ToHealth DEF Refuse, server, history, Stages, RefreshStages, RotateStages

LEMMA ServeHealth ==
  ASSUME SessionInv, Health, NEW r \in Requests, Serve(r)
  PROVE  Health'
<1>1. \A t \in rows \ rows' : Owner(t) \in loggedOut
  BY DEF Serve, Revoked, LiveOf, Health
<1> QED
  BY <1>1, ToHealth DEF Serve, Stages, RefreshStages, RotateStages

\* The token that the request of a well browser presents is in the table.
LEMMA SelectHealth ==
  ASSUME SessionInv, Health, NEW r \in Requests, Select(r)
  PROVE  Health'
<1>1. ASSUME Well(BrowserOf[r])
      PROVE  call[r].presented \in rows \ expired
  <2>1. expired = {} /\ WellPage(BrowserOf[r]) /\ WellCall(r)
    BY <1>1 DEF Health, Well, SessionInv, Types
  <2>2. call[r].presented = cookie[BrowserOf[r]]
    BY <2>1 DEF WellCall, Select, RefreshStages
  <2>3. \A q \in Requests :
          BrowserOf[q] = BrowserOf[r] => call[q].stage \notin {"deleted", "rotated"}
    BY <1>1, RefreshesAlone DEF Select, RefreshStages, RotateStages
  <2> QED
    BY <2>1, <2>2, <2>3 DEF WellPage
<1>2. PICK stage \in {"selected", "failed"} :
        To(r, stage) /\ (stage = "failed" => call[r].presented \notin rows \ expired)
  BY DEF Select
<1> QED
  BY <1>1, <1>2, ToHealth DEF Select, server, history, Stages, RefreshStages, RotateStages



-----------------------------------------------------------------------------
(* A refresh, on the side of the server.                                   *)

LEMMA DeleteHealth ==
  ASSUME SessionInv, Health, NEW r \in Requests, Delete(r)
  PROVE  Health'
<1> DEFINE b == BrowserOf[r]
           c == call[r]
           d == Moved(c, "deleted")
<1>1. /\ c \in CallRecord /\ c.stage = "selected" /\ call' = [call EXCEPT ![r] = d]
      /\ rows' = rows \ {c.presented} /\ Home(c.presented) = b
      /\ UNCHANGED <<expired, client, faults, history>>
  BY ToMoved DEF Delete, Stages, Used, CallsOf, RotateStages
<1>2. d.stage = "deleted" /\ d.kind = c.kind /\ d.presented = c.presented /\ d.dropped = c.dropped
  BY <1>1, MovedCall DEF Stages
<1> HIDE DEF d
<1>3. b \in Browsers /\ \A q \in Requests : call'[q] = IF q = r THEN d ELSE call[q]
  BY <1>1 DEF SessionInv, Types
<1>4. \A q \in Requests : call'[q].kind = "logout" => User(q) \in loggedOut'
  BY <1>1, <1>2, <1>3 DEF Health, history
<1>5. ASSUME Well(b)
      PROVE  WellPage(b)' /\ \A q \in Requests : BrowserOf[q] = b => WellCall(q)'
  <2>1. WellPage(b) /\ WellCall(r)
    BY <1>3, <1>5 DEF Health
  <2>2. WellPage(b)'
    BY <1>1, <1>2, <1>3, <2>1 DEF WellPage, client
  <2>3. WellCall(r)'
    BY <1>1, <1>2, <1>3, <2>1 DEF WellCall, client, RefreshStages, RotateStages
  <2>4. ASSUME NEW q \in Requests, BrowserOf[q] = b, q # r
        PROVE  WellCall(q)'
    <3>1. WellCall(q)
      BY <1>5, <2>4 DEF Health
    <3>2. call[q].stage \notin RefreshStages
      BY <1>1, <1>5, <2>4, RefreshesAlone DEF RefreshStages, RotateStages
    <3> QED
      BY <1>1, <1>3, <2>4, <3>1, <3>2 DEF WellCall, client, RefreshStages
  <2> QED
    BY <2>3, <2>2, <2>4
<1> HIDE DEF b
<1>6. \A q \in Requests : BrowserOf[q] # b => call'[q] = call[q]
  BY <1>3 DEF b
<1> QED
  BY <1>1, <1>3, <1>4, <1>5, <1>6, LocalKeeps DEF client, history

LEMMA InsertHealth ==
  ASSUME SessionInv, Health, NEW r \in Requests, Insert(r)
  PROVE  Health'
<1> DEFINE b == BrowserOf[r]
           c == call[r]
           d == Moved(c, "rotated")
<1>1. /\ c \in CallRecord /\ c.stage = "deleted" /\ call' = [call EXCEPT ![r] = d]
      /\ rows' = rows \cup {r}
      /\ UNCHANGED <<expired, client, faults, shared, loggedOut>>
  BY ToMoved DEF Insert, Stored, Stages
<1>2. d.stage = "rotated" /\ d.kind = c.kind /\ d.presented = c.presented /\ d.dropped = c.dropped
  BY <1>1, MovedCall DEF Stages
<1> HIDE DEF d
<1>3. b \in Browsers /\ \A q \in Requests : call'[q] = IF q = r THEN d ELSE call[q]
  BY <1>1 DEF SessionInv, Types
<1>4. \A q \in Requests : call'[q].kind = "logout" => User(q) \in loggedOut'
  BY <1>1, <1>2, <1>3 DEF Health
<1>5. ASSUME Well(b)
      PROVE  WellPage(b)' /\ \A q \in Requests : BrowserOf[q] = b => WellCall(q)'
  <2>1. WellPage(b) /\ WellCall(r)
    BY <1>3, <1>5 DEF Health
  <2>2. WellPage(b)'
    BY <1>1, <1>2, <1>3, <2>1 DEF WellPage, client
  <2>3. WellCall(r)'
    BY <1>1, <1>2, <1>3, <2>1 DEF WellCall, client, RefreshStages, RotateStages
  <2>4. ASSUME NEW q \in Requests, BrowserOf[q] = b, q # r
        PROVE  WellCall(q)'
    <3>1. WellCall(q)
      BY <1>5, <2>4 DEF Health
    <3> QED
      BY <1>1, <1>3, <2>4, <3>1 DEF WellCall, client
  <2> QED
    BY <2>3, <2>2, <2>4
<1> HIDE DEF b
<1>6. \A q \in Requests : BrowserOf[q] # b => call'[q] = call[q]
  BY <1>3 DEF b
<1> QED
  BY <1>1, <1>3, <1>4, <1>5, <1>6, LocalKeeps DEF client

-----------------------------------------------------------------------------
(* The page and the answers.                                               *)

\* The request presents the cookie.
LEMMA RefreshAfter401Health ==
  ASSUME SessionInv, Health, NEW r \in Requests, RefreshAfter401(r)
  PROVE  Health'
<1> DEFINE c == call[r]
           t == cookie[BrowserOf[r]]
           d == [[c EXCEPT !.retried = TRUE] EXCEPT !.stage = "refreshing", !.presented = t]
<1>1. /\ c \in CallRecord /\ c.stage = "refused" /\ call' = [call EXCEPT ![r] = d]
      /\ shared \subseteq shared' /\ UNCHANGED <<server, client, faults, loggedOut>>
  BY DEF RefreshAfter401, Arrives, Refresh, SessionInv, Types
<1>2. d.stage = "refreshing" /\ d.presented = t /\ d.kind = c.kind /\ d.dropped = c.dropped
  <2> HIDE DEF c
  <2> QED
    BY <1>1 DEF CallRecord
<1> HIDE DEF d
<1>3. Well(BrowserOf[r]) => WellPage(BrowserOf[r]) /\ WellCall(r)
  BY DEF Health, SessionInv, Types
<1>4. d.kind = "logout" => User(r) \in loggedOut'
  BY <1>1, <1>2 DEF Health
<1>5. Well(BrowserOf[r]) =>
        /\ store'[BrowserOf[r]] # None /\ loading'[BrowserOf[r]] = loading[BrowserOf[r]]
        /\ cookie'[BrowserOf[r]] = cookie[BrowserOf[r]]
        /\ d.kind \notin {"login", "load"} /\ ~d.dropped
        /\ d.stage \notin {"failed", "rotated"}
        /\ d.stage \in RefreshStages => d.presented = cookie[BrowserOf[r]]
        /\ call[r].stage \notin {"deleted", "rotated"}
  BY <1>1, <1>2, <1>3 DEF client, WellPage, WellCall
<1> QED
  BY <1>1, <1>4, <1>5, QuietKeeps DEF client, server

\* The page of a well browser is not waiting to be loaded.
LEMMA LoadPageHealth ==
  ASSUME SessionInv, Health, NEW r \in Requests, LoadPage(r)
  PROVE  Health'
<1> DEFINE t == cookie[BrowserOf[r]]
           d == [Request("refreshing", "load") EXCEPT !.stage = "refreshing", !.presented = t]
<1>1. /\ call' = [call EXCEPT ![r] = d] /\ shared \subseteq shared'
      /\ UNCHANGED <<server, cookie, store, faults, loggedOut>>
      /\ \A a \in Browsers : a # BrowserOf[r] => loading'[a] = loading[a]
  BY DEF LoadPage, Refresh, SessionInv, Types
<1>2. d.kind = "load"
  BY DEF Request
<1> HIDE DEF d
<1>3. ~Well(BrowserOf[r])
  BY DEF LoadPage, Health, WellPage, SessionInv, Types
<1> QED
  BY <1>1, <1>2, <1>3, QuietKeeps DEF server

\* A request that is through, of a kind that leaves a well browser alone.
LEMMA DoneHealth ==
  ASSUME SessionInv, Health, NEW r \in Requests, Done(r),
         \A a \in Browsers : a # BrowserOf[r] => store'[a] = store[a] /\ cookie'[a] = cookie[a],
         loading' = loading, UNCHANGED <<server, faults, history>>,
         Well(BrowserOf[r]) => /\ call[r].stage \notin {"deleted", "rotated"}
                               /\ store'[BrowserOf[r]] = store[BrowserOf[r]]
                               /\ cookie'[BrowserOf[r]] = cookie[BrowserOf[r]]
  PROVE  Health'
<1>1. Over.stage = "over" /\ Over.kind = "api" /\ ~Over.dropped
  BY DEF Over, Request
<1>2. Well(BrowserOf[r]) => WellPage(BrowserOf[r])
  BY DEF Health, SessionInv, Types
<1>3. Well(BrowserOf[r]) =>
        /\ store'[BrowserOf[r]] # None
        /\ Over.kind \notin {"login", "load"} /\ ~Over.dropped
        /\ Over.stage \notin {"failed", "rotated"} \cup RefreshStages
        /\ call[r].stage \notin {"deleted", "rotated"}
  BY <1>1, <1>2 DEF WellPage, RefreshStages, RotateStages
<1>4. /\ loggedOut' = loggedOut /\ shared' = shared /\ expired' = expired /\ rows' = rows
      /\ faults' = faults
  BY DEF server, history
<1>5. call' = [call EXCEPT ![r] = Over]
  BY DEF Done
<1> QED
  BY <1>1, <1>3, <1>4, <1>5, QuietKeeps

LEMMA AnswerHealth ==
  ASSUME SessionInv, Health, NEW r \in Requests, Ignored(r) \/ Succeed(r) \/ Reject(r)
  PROVE  Health'
<1>1. Well(BrowserOf[r]) => WellCall(r) /\ call[r].kind # "logout"
  BY DEF Health, Well, User
<1>2. CASE Ignored(r)
  <2>1. ~Well(BrowserOf[r])
    BY <1>1, <1>2 DEF Ignored, WellCall
  <2> QED
    BY <1>2, <2>1, DoneHealth DEF Ignored, TakeCookie, SessionInv, Types
<1>3. CASE Succeed(r)
  <2>1. Well(BrowserOf[r]) => ~SetsCookie(r) /\ ~ClearsCookie(r) /\ store' = store
    BY <1>1, <1>3 DEF Succeed, Arrives, WellCall, SetsCookie, ClearsCookie
  <2>2. Well(BrowserOf[r]) => cookie'[BrowserOf[r]] = cookie[BrowserOf[r]]
    BY <1>3, <2>1 DEF Succeed, TakeCookie, SessionInv, Types
  <2> QED
    BY <1>3, <2>1, <2>2, DoneHealth DEF Succeed, Arrives, TakeCookie, SetAuth, SessionInv, Types
<1>4. CASE Reject(r)
  BY <1>1, <1>4, DoneHealth DEF Reject, Arrives, GiveUp, SetAuth, SessionInv, Types
<1> QED
  BY <1>2, <1>3, <1>4


\* The new cookie is the token that was inserted.
LEMMA RefreshedHealth ==
  ASSUME SessionInv, Health, NEW r \in Requests, Refreshed(r)
  PROVE  Health'
<1> DEFINE b == BrowserOf[r]
           c == call[r]
<1>1. /\ c \in CallRecord /\ c.stage = "rotated" /\ b \in Browsers
      /\ UNCHANGED <<server, faults, history>>
      /\ cookie' = [cookie EXCEPT ![b] = r] /\ store' = [store EXCEPT ![b] = "valid"]
      /\ \A a \in Browsers : a # b => loading'[a] = loading[a]
  BY DEF Refreshed, Arrives, TakeCookie, SetsCookie, SetAuth, SessionInv, Types
<1>2. /\ \A q \in Requests : q # r => call'[q] = call[q]
      /\ call'[r].kind = "logout" => c.kind = "logout"
      /\ c.kind # "load" => /\ call'[r].stage = "sent" /\ call'[r].kind = c.kind
                            /\ call'[r].dropped = c.dropped /\ loading' = loading
  <2>1. call \in [Requests -> CallRecord]
    BY DEF SessionInv, Types
  <2>2. CASE c.kind = "load"
    <3>1. call' = [call EXCEPT ![r] = Over] /\ Over.kind = "api"
      BY <2>2 DEF Refreshed, Done, Over, Request
    <3> QED
      BY <2>1, <2>2, <3>1
  <2>3. CASE c.kind # "load"
    <3>1. /\ call' = [call EXCEPT ![r].stage = "sent", ![r].bearer = "valid", ![r].presented = None]
          /\ loading' = loading
      BY <2>3 DEF Refreshed
    <3> QED
      BY <2>1, <3>1 DEF CallRecord
  <2> QED
    BY <2>2, <2>3
<1>3. \A q \in Requests : call'[q].kind = "logout" => User(q) \in loggedOut'
  BY <1>1, <1>2 DEF Health, history
<1>4. ASSUME Well(b)
      PROVE  WellPage(b)' /\ \A q \in Requests : BrowserOf[q] = b => WellCall(q)'
  <2>1. WellPage(b) /\ WellCall(r)
    BY <1>1, <1>4 DEF Health
  <2>2. c.kind # "load" /\ r \in rows /\ r # None
    BY <1>1, <2>1 DEF WellCall, Tokens
  <2>3. cookie'[b] = r /\ store'[b] = "valid"
    BY <1>1 DEF SessionInv, Types
  <2>4. WellPage(b)'
    BY <1>1, <1>2, <2>1, <2>2, <2>3 DEF WellPage, server
  <2>5. WellCall(r)'
    BY <1>1, <1>2, <2>1, <2>2 DEF WellCall, RefreshStages, RotateStages
  <2>6. ASSUME NEW q \in Requests, BrowserOf[q] = b, q # r
        PROVE  WellCall(q)'
    <3>1. WellCall(q)
      BY <1>4, <2>6 DEF Health
    <3>2. call[q].stage \notin RefreshStages
      BY <1>1, <1>4, <2>6, RefreshesAlone DEF RefreshStages, RotateStages
    <3> QED
      BY <1>2, <2>6, <3>1, <3>2 DEF WellCall, RefreshStages
  <2> QED
    BY <2>4, <2>5, <2>6
<1> HIDE DEF b
<1>5. \A q \in Requests : BrowserOf[q] # b => call'[q] = call[q]
  BY <1>2 DEF b
<1>6. \A a \in Browsers : a # b => /\ store'[a] = store[a] /\ loading'[a] = loading[a]
                                   /\ cookie'[a] = cookie[a]
  BY <1>1 DEF SessionInv, Types
<1> QED
  BY <1>1, <1>3, <1>4, <1>5, <1>6, LocalKeeps DEF server, history

\* What a refresh that fails does to the requests and to the other browsers.
LEMMA NotRefreshedLocal ==
  ASSUME SessionInv, NEW r \in Requests, NotRefreshed(r)
  PROVE  /\ \A q \in Requests : BrowserOf[q] # BrowserOf[r] => call'[q] = call[q]
         /\ \A q \in Requests : call'[q].kind = "logout" => call[q].kind = "logout"
         /\ \A a \in Browsers : a # BrowserOf[r] =>
              store'[a] = store[a] /\ loading'[a] = loading[a]
<1>1. call \in [Requests -> CallRecord] /\ Over.kind = "api"
  BY DEF SessionInv, Types, Over, Request
<1>2. CASE call[r].kind = "load"
  BY <1>1, <1>2 DEF NotRefreshed, Done, SessionInv, Types
<1>3. CASE call[r].kind # "load"
  <2>1. Unload(BrowserOf[r], {r})
    BY <1>3 DEF NotRefreshed
  <2>2. \A a \in Browsers : a # BrowserOf[r] => store'[a] = store[a] /\ loading'[a] = loading[a]
    BY <2>1 DEF Unload, SessionInv, Types
  <2>3. \A q \in Requests : BrowserOf[q] # BrowserOf[r] => call'[q] = call[q]
    BY <2>1 DEF Unload
  <2>4. \A q \in Requests : call'[q] \in {Over, call[q], [call[q] EXCEPT !.dropped = TRUE]}
    BY <2>1 DEF Unload
  <2>5. \A q \in Requests : [call[q] EXCEPT !.dropped = TRUE].kind = call[q].kind
    BY <1>1 DEF CallRecord
  <2> QED
    BY <1>1, <2>2, <2>3, <2>4, <2>5
<1> QED
  BY <1>2, <1>3

\* No refresh of a well browser fails.
LEMMA RefreshFailsHealth ==
  ASSUME SessionInv, Health, NEW r \in Requests, RefreshFails(r)
  PROVE  Health'
<1> DEFINE b == BrowserOf[r]
<1>1. /\ \A q \in Requests : BrowserOf[q] # b => call'[q] = call[q]
      /\ \A q \in Requests : call'[q].kind = "logout" => call[q].kind = "logout"
      /\ \A a \in Browsers : a # b => store'[a] = store[a] /\ loading'[a] = loading[a]
  BY NotRefreshedLocal DEF RefreshFails
<1>2. ~Well(b) /\ b \in Browsers
  BY DEF RefreshFails, Arrives, Health, WellCall
<1>3. \A a \in Browsers : a # b => cookie'[a] = cookie[a]
  BY DEF RefreshFails, TakeCookie, SessionInv, Types
<1>4. \A q \in Requests : call'[q].kind = "logout" => User(q) \in loggedOut'
  BY <1>1 DEF Health, RefreshFails, history
<1> HIDE DEF b
<1> QED
  BY <1>1, <1>2, <1>3, <1>4, LocalKeeps DEF RefreshFails, server, history

LEMMA BrowserHealth ==
  ASSUME SessionInv, Health, NEW b \in Browsers, LoadAsGuest(b) \/ AccessExpires(b)
  PROVE  Health'
<1>1. /\ UNCHANGED <<server, cookie, call, faults, history>>
      /\ \A a \in Browsers : a # b => store'[a] = store[a] /\ loading'[a] = loading[a]
  BY DEF LoadAsGuest, AccessExpires, SessionInv, Types
<1>2. \A q \in Requests : call'[q].kind = "logout" => User(q) \in loggedOut'
  BY <1>1 DEF Health, history
<1>3. ASSUME Well(b)
      PROVE  WellPage(b)' /\ \A q \in Requests : BrowserOf[q] = b => WellCall(q)'
  <2>1. WellPage(b)
    BY <1>3 DEF Health
  <2>2. AccessExpires(b) /\ store'[b] = "expired"
    BY <2>1 DEF LoadAsGuest, AccessExpires, WellPage, SessionInv, Types
  <2> QED
    BY <1>1, <1>3, <2>1, <2>2 DEF AccessExpires, Health, WellPage, WellCall, server
<1> QED
  BY <1>1, <1>2, <1>3, LocalKeeps DEF server, history

\* After a fault no browser is well any more.
LEMMA FaultHealth ==
  ASSUME SessionInv, Health, faults' = faults + 1, loggedOut' = loggedOut,
         \A q \in Requests : call'[q].kind = "logout" => call[q].kind = "logout"
  PROVE  Health'
<1>1. faults' # 0
  BY DEF SessionInv, Types
<1>2. (\A b \in Browsers : ~Well(b))' /\ (\A r \in Requests : ~Well(BrowserOf[r]))'
  BY <1>1 DEF Well
<1>3. (\A r \in Requests : call[r].kind = "logout" => User(r) \in loggedOut)'
  BY DEF Health, User
<1> QED
  BY <1>1, <1>2, <1>3 DEF Health


LEMMA FaultsHealth ==
  ASSUME SessionInv, Health,
         \/ \E r \in Requests : QueryFails(r) \/ AnswerLost(r)
         \/ \E b \in Browsers : Reload(b)
         \/ \E t \in Tokens : RefreshExpires(t)
  PROVE  Health'
<1>1. call \in [Requests -> CallRecord] /\ Over.kind = "api"
  BY DEF SessionInv, Types, Over, Request
<1>2. ASSUME NEW r \in Requests, QueryFails(r)
      PROVE  Health'
  <2>1. call' = [call EXCEPT ![r] = Moved(call[r], "failed")]
    BY <1>2, ToMoved DEF QueryFails, Stages
  <2>2. Moved(call[r], "failed").kind = call[r].kind
    BY <1>1, MovedCall DEF Stages
  <2> QED
    BY <1>1, <1>2, <2>1, <2>2, FaultHealth DEF QueryFails, history
<1>3. ASSUME NEW r \in Requests, AnswerLost(r)
      PROVE  Health'
  <2>1. \A q \in Requests : call'[q].kind = "logout" => call[q].kind = "logout"
    <3>1. NotRefreshed(r) \/ GiveUp(r)
      BY <1>3 DEF AnswerLost
    <3>2. CASE GiveUp(r)
      BY <1>1, <3>2 DEF GiveUp, Done
    <3> QED
      BY <3>1, <3>2, NotRefreshedLocal
  <2> QED
    BY <1>3, <2>1, FaultHealth DEF AnswerLost, history
<1>4. ASSUME NEW b \in Browsers, Reload(b)
      PROVE  Health'
  <2>1. \A q \in Requests : call'[q] \in {Over, call[q], [call[q] EXCEPT !.dropped = TRUE]}
    BY <1>4 DEF Reload, Unload
  <2>2. \A q \in Requests : [call[q] EXCEPT !.dropped = TRUE].kind = call[q].kind
    BY <1>1 DEF CallRecord
  <2>3. \A q \in Requests : call'[q].kind = "logout" => call[q].kind = "logout"
    BY <1>1, <2>1, <2>2
  <2> QED
    BY <1>4, <2>3, FaultHealth DEF Reload, history
<1>5. ASSUME NEW t \in Tokens, RefreshExpires(t)
      PROVE  Health'
  BY <1>5, FaultHealth DEF RefreshExpires, history
<1> QED
  BY <1>2, <1>3, <1>4, <1>5

LEMMA StepHealth == SessionInv /\ Health /\ [Next]_vars => Health'
<1> SUFFICES ASSUME SessionInv, Health, [Next]_vars PROVE Health'
  OBVIOUS
<1>1. ASSUME NEW r \in Requests, Page(r)
      PROVE  Health'
  BY <1>1, PageHealth, LoadPageHealth DEF Page
<1>2. ASSUME NEW r \in Requests, Server(r)
      PROVE  Health'
  BY <1>2, RefuseHealth, ServeHealth, SelectHealth, DeleteHealth, InsertHealth DEF Server
<1>3. ASSUME NEW r \in Requests, Answer(r)
      PROVE  Health'
  BY <1>3, AnswerHealth, RefreshAfter401Health, RefreshedHealth, RefreshFailsHealth DEF Answer
<1>4. CASE UNCHANGED vars
  BY <1>4 DEF vars, server, client, history, Health, Well, WellPage, WellCall, User
<1> QED
  BY <1>1, <1>2, <1>3, <1>4, FaultsHealth, BrowserHealth DEF Next

\* The response interceptor and rotateRefreshToken: while nobody logs out, nothing fails
\* and no two requests of a browser refresh with one cookie at once, no interleaving of
\* requests and answers shows its user the login page.
THEOREM SessionsSurvive == Spec => []SessionSurvives
<1>1. SessionInv /\ Health => SessionSurvives
  BY DEF SessionInv, Types, Health, Well, WellPage, AtLogin, SessionSurvives
<1>2. Spec => [](SessionInv /\ Health)
  BY InitInv, InitHealth, StepInv, StepHealth, PTL DEF Spec
<1> QED
  BY <1>1, <1>2, PTL


=============================================================================

------------------------------ MODULE Sessions ------------------------------
(***************************************************************************)
(* Sessions: refresh tokens in the database (server/src/auth), the cookie  *)
(* and the store of each browser, and the dashboard's API client that      *)
(* refreshes silently when a request is refused (ui/src/api/client.js).    *)
(*                                                                         *)
(* A rotation is three statements, and the requests of a page refresh each *)
(* on its own: SELECTs, DELETEs and INSERTs of several requests interleave *)
(* and their answers, with the cookies they set or clear, arrive in any    *)
(* order.                                                                  *)
(*                                                                         *)
(* A request is given at most one new session, so tokens are named after   *)
(* the request that made them, those of the start after their browser.  Of *)
(* an access token only its age counts: a request bears a valid or an      *)
(* expired one, as it was when it was sent.                                *)
(***************************************************************************)
EXTENDS Integers, FiniteSets

CONSTANTS
  Users,      \* accounts
  Browsers,   \* each with one page of the dashboard open
  UserOf,     \* the account each browser uses
  Requests,   \* calls a page may make
  BrowserOf,  \* the browser of each request
  PageCalls,  \* what pages call: "api", "password" (a change of it), "logout"
  None,       \* no cookie, no token
  MaxFaults   \* bound: failing queries, lost answers, reloads by hand

Tokens == Browsers \cup Requests

ASSUME SessionsAssumption ==
  /\ Browsers \cap Requests = {}
  /\ None \notin Tokens \cup {"valid", "expired"}
  /\ UserOf \in [Browsers -> Users]
  /\ BrowserOf \in [Requests -> Browsers]
  /\ PageCalls \subseteq {"api", "password", "logout"}
  /\ MaxFaults \in Nat

VARIABLES
  rows,       \* refresh_tokens: the tokens in the table
  expired,    \* refresh tokens past their expires_at
  cookie,     \* of each browser: the refresh_token cookie
  store,      \* of each browser: the access token of the auth store, valid or expired
  loading,    \* of each browser: App's refresh() on page load: due, running, over
  call,       \* of each request: what it is and how far it has come
  faults,     \* faults so far
  origin,     \* history, of each token: the token its session began with
  parent,     \* history, of each token: the one it was rotated from
  shared,     \* history: tokens that two refreshes were using at once
  loggedOut,  \* history: users who chose to log out, on whatever browser
  ended,      \* history: sessions that a logout ended
  outlived    \* history: rotations that were half done when a logout came

server == <<rows, expired>>
client == <<cookie, store, loading>>
history == <<origin, parent, shared, loggedOut, ended, outlived>>
vars == <<server, client, call, faults, history>>

-----------------------------------------------------------------------------
User(r) == UserOf[BrowserOf[r]]

\* The owner of a token.
Owner(t) == IF t \in Browsers THEN UserOf[t] ELSE User(t)

\* The browser a token was given to.
Home(t) == IF t \in Browsers THEN t ELSE BrowserOf[t]

\* AuthGuard and GuestGuard, once App has checked.
AtApp(b) == loading[b] = "over" /\ store[b] # None
AtLogin(b) == loading[b] = "over" /\ store[b] = None

\* A request: its stage, what it calls, the access token it bears and the cookie its
\* refresh presents, whether its _retry is set and whether its page is gone.
Request(stage, kind) ==
  [stage |-> stage, kind |-> kind, bearer |-> None, presented |-> None,
   retried |-> FALSE, dropped |-> FALSE]

Idle == Request("idle", "api")
Over == Request("over", "api")

\* Rotations between SELECT and INSERT, and refreshes without their answer.
Rotating == {r \in Requests : call[r].stage \in {"selected", "deleted"}}
Refreshing ==
  {r \in Requests : call[r].stage \in {"refreshing", "rotated", "failed"}} \cup Rotating

\* The next stage; the bearer has been looked at, a retry will have a new one.
To(r, stage) == call' = [call EXCEPT ![r].stage = stage, ![r].bearer = None]
Done(r) == call' = [call EXCEPT ![r] = Over]

-----------------------------------------------------------------------------
\* Every browser has logged in before.
Init ==
  /\ rows = Browsers
  /\ expired = {}
  /\ cookie = [b \in Browsers |-> b]
  /\ store = [b \in Browsers |-> "valid"]
  /\ loading = [b \in Browsers |-> "over"]
  /\ call = [r \in Requests |-> Idle]
  /\ faults = 0
  /\ origin = [t \in Tokens |-> t]
  /\ parent = [t \in Tokens |-> None]
  /\ shared = {}
  /\ loggedOut = {}
  /\ ended = {}
  /\ outlived = {}

-----------------------------------------------------------------------------
(* The page.                                                               *)

\* The request interceptor attaches the access token of the store.
Call(r, kind) ==
  /\ call[r] = Idle
  /\ call' = [call EXCEPT ![r] = [Request("sent", kind) EXCEPT
                                    !.bearer = store[BrowserOf[r]]]]
  /\ loggedOut' = IF kind = "logout" THEN loggedOut \cup {User(r)} ELSE loggedOut
  /\ UNCHANGED <<server, client, faults, origin, parent, shared, ended, outlived>>

\* A page of the dashboard calls the API, or its header logs out.
Send(r) == AtApp(BrowserOf[r]) /\ \E kind \in PageCalls : Call(r, kind)

\* The login form, which uses the same client.
SignIn(r) == AtLogin(BrowserOf[r]) /\ Call(r, "login")

\* POST /auth/refresh with whatever cookie the browser has.
Refresh(r, request) ==
  LET t == cookie[BrowserOf[r]]
  IN  /\ call' = [call EXCEPT ![r] = [request EXCEPT !.stage = "refreshing",
                                                     !.presented = t]]
      /\ shared' = IF t # None /\ \E q \in Refreshing : call[q].presented = t
                   THEN shared \cup {t} ELSE shared

\* App's refresh() when the page has been loaded.
LoadPage(r) ==
  /\ loading[BrowserOf[r]] = "due"
  /\ cookie[BrowserOf[r]] # None
  /\ call[r] = Idle
  /\ loading' = [loading EXCEPT ![BrowserOf[r]] = "running"]
  /\ Refresh(r, Request("refreshing", "load"))
  /\ UNCHANGED <<server, cookie, store, faults, origin, parent, loggedOut,
                 ended, outlived>>

\* Without a cookie that refresh() is refused at once.
LoadAsGuest(b) ==
  /\ loading[b] = "due"
  /\ cookie[b] = None
  /\ loading' = [loading EXCEPT ![b] = "over"]
  /\ UNCHANGED <<server, cookie, store, call, faults, history>>

\* The page goes: its store is lost and nobody waits for its requests, of which
\* those in finished are through.
Unload(b, finished) ==
  /\ store' = [store EXCEPT ![b] = None]
  /\ loading' = [loading EXCEPT ![b] = "due"]
  /\ call' = [r \in Requests |->
                IF r \in finished THEN Over
                ELSE IF BrowserOf[r] = b /\ call[r] \notin {Idle, Over}
                THEN [call[r] EXCEPT !.dropped = TRUE] ELSE call[r]]

\* The user reloads the page.
Reload(b) ==
  /\ loading[b] = "over"
  /\ faults < MaxFaults
  /\ faults' = faults + 1
  /\ Unload(b, {})
  /\ UNCHANGED <<server, cookie, history>>

-----------------------------------------------------------------------------
(* The server.                                                             *)

\* requireAuth: the bearer is an access token that has not expired.  A login needs
\* none, but when it is retried its password was wrong and still is.
Authorized(r) ==
  IF call[r].kind = "login" THEN ~call[r].retried
  ELSE call[r].bearer = "valid"

\* 401: by requireAuth, or because the password that a login or a password change
\* asks for is wrong.
Refuse(r) ==
  /\ call[r].stage = "sent"
  /\ Authorized(r) => call[r].kind \in {"password", "login"}
  /\ To(r, "refused")
  /\ UNCHANGED <<server, client, faults, history>>

\* The tokens of a user in the table.
LiveOf(u) == {t \in rows : Owner(t) = u}

\* Mutant: logout revokes the tokens of its own browser only.
RevokedHere(r) == {t \in LiveOf(User(r)) : Home(t) = BrowserOf[r]}

\* DELETE FROM refresh_tokens WHERE user_id = ?
Revoked(r) == LiveOf(User(r))

\* A logout ends all sessions of the user, those whose only token a rotation has
\* just taken out of the table included.
HalfDone(u) == {q \in Rotating : User(q) = u}
EndedBy(r) ==
  {origin[t] : t \in LiveOf(User(r)) \cup {call[q].presented : q \in HalfDone(User(r))}}

\* The handler, with its statement; calls of the API, a password change among
\* them, leave the tokens alone.
Serve(r) ==
  /\ call[r].stage = "sent"
  /\ Authorized(r)
  /\ To(r, "answered")
  /\ rows' = CASE call[r].kind = "logout" -> rows \ Revoked(r)
               [] call[r].kind = "login" -> rows \cup {r}
               [] OTHER -> rows
  /\ IF call[r].kind = "logout"
     THEN ended' = ended \cup EndedBy(r) /\ outlived' = outlived \cup HalfDone(User(r))
     ELSE UNCHANGED <<ended, outlived>>
  /\ UNCHANGED <<expired, client, faults, origin, parent, shared, loggedOut>>

\* Mutant: nobody looks whether a row was found.
SelectUnchecked(r) ==
  /\ call[r].stage = "refreshing"
  /\ To(r, "selected")
  /\ UNCHANGED <<server, client, faults, history>>

\* The SELECT of rotateRefreshToken; without a cookie there is none.
Select(r) ==
  /\ call[r].stage = "refreshing"
  /\ To(r, IF call[r].presented \in rows \ expired THEN "selected" ELSE "failed")
  /\ UNCHANGED <<server, client, faults, history>>

\* Mutant: a rotation deletes all tokens of the user.
UsedByUser(r) == LiveOf(User(r))

\* Mutant: a rotation leaves the used token in the table.
UsedStays(r) == {}

\* The row that a rotation deletes.
Used(r) == {call[r].presented}

\* DELETE FROM refresh_tokens WHERE token_hash = ?
Delete(r) ==
  /\ call[r].stage = "selected"
  /\ To(r, "deleted")
  /\ rows' = rows \ Used(r)
  /\ UNCHANGED <<expired, client, faults, history>>

\* INSERT INTO refresh_tokens: the new token is of the session of the one presented, but
\* that session is over if a logout came since the SELECT; it then counts as a new one.
Stored(r) ==
  /\ rows' = rows \cup {r}
  /\ origin' = [origin EXCEPT ![r] = IF r \in outlived THEN r ELSE origin[call[r].presented]]
  /\ parent' = [parent EXCEPT ![r] = call[r].presented]

\* signAccessToken and createRefreshToken.
Insert(r) ==
  /\ call[r].stage = "deleted"
  /\ To(r, "rotated")
  /\ Stored(r)
  /\ UNCHANGED <<expired, client, faults, shared, loggedOut, ended, outlived>>

\* A statement of a rotation fails, the DELETE or the INSERT perhaps after it was
\* executed: then the acknowledgement is lost, and nobody is told the new token.
QueryFails(r) ==
  /\ call[r].stage \in {"refreshing", "selected", "deleted"}
  /\ call[r].presented # None
  /\ faults < MaxFaults
  /\ faults' = faults + 1
  /\ To(r, "failed")
  /\ \/ UNCHANGED <<rows, origin, parent>>
     \/ call[r].stage = "selected" /\ rows' = rows \ Used(r) /\ UNCHANGED <<origin, parent>>
     \/ call[r].stage = "deleted" /\ Stored(r)
  /\ UNCHANGED <<expired, client, shared, loggedOut, ended, outlived>>

-----------------------------------------------------------------------------
(* The answers, in the browser.                                            *)

\* The answer carries a new cookie, or clears the cookie.
SetsCookie(r) ==
  \/ call[r].stage = "rotated"
  \/ call[r].stage = "answered" /\ call[r].kind = "login"
ClearsCookie(r) ==
  \/ call[r].stage = "failed" /\ call[r].presented # None
  \/ call[r].stage = "answered" /\ call[r].kind = "logout"

TakeCookie(r) ==
  cookie' = [cookie EXCEPT ![BrowserOf[r]] =
               IF SetsCookie(r) THEN r ELSE IF ClearsCookie(r) THEN None ELSE @]

SetAuth(r, t) == store' = [store EXCEPT ![BrowserOf[r]] = t]

\* An answer for the page, at one of these stages, has arrived.
Arrives(r, stages) == call[r].stage \in stages /\ ~call[r].dropped

\* The page is gone; the browser may still have taken the cookie.
Ignored(r) ==
  /\ call[r].stage \in {"answered", "refused", "rotated", "failed"}
  /\ call[r].dropped
  /\ Done(r)
  /\ TakeCookie(r) \/ UNCHANGED cookie
  /\ UNCHANGED <<server, store, loading, faults, history>>

\* A call succeeds; a login and a logout change cookie and store.
Succeed(r) ==
  /\ Arrives(r, {"answered"})
  /\ Done(r)
  /\ TakeCookie(r)
  /\ CASE call[r].kind = "login" -> SetAuth(r, "valid")
       [] call[r].kind = "logout" -> SetAuth(r, None)
       [] OTHER -> UNCHANGED store
  /\ UNCHANGED <<server, loading, faults, history>>

\* Mutant: _retry is not set.
RefreshAfterAny401(r) ==
  /\ Arrives(r, {"refused"})
  /\ Refresh(r, call[r])
  /\ UNCHANGED <<server, client, faults, origin, parent, loggedOut, ended, outlived>>

\* A call is refused for the first time: the response interceptor refreshes.
RefreshAfter401(r) ==
  /\ Arrives(r, {"refused"}) /\ ~call[r].retried
  /\ Refresh(r, [call[r] EXCEPT !.retried = TRUE])
  /\ UNCHANGED <<server, client, faults, origin, parent, loggedOut, ended, outlived>>

\* What the caller does with an error: handleLogout clears the store all the same.
GiveUp(r) ==
  /\ Done(r)
  /\ IF call[r].kind = "logout" THEN SetAuth(r, None) ELSE UNCHANGED store

\* The retry is refused as well.
Reject(r) ==
  /\ Arrives(r, {"refused"}) /\ call[r].retried
  /\ GiveUp(r)
  /\ UNCHANGED <<server, cookie, loading, faults, history>>

\* The refresh succeeds: cookie and store are set and the call is sent again.
Refreshed(r) ==
  /\ Arrives(r, {"rotated"})
  /\ TakeCookie(r) /\ SetAuth(r, "valid")
  /\ IF call[r].kind = "load"
     THEN Done(r) /\ loading' = [loading EXCEPT ![BrowserOf[r]] = "over"]
     ELSE /\ call' = [call EXCEPT ![r].stage = "sent", ![r].bearer = "valid",
                                  ![r].presented = None]
          /\ UNCHANGED loading
  /\ UNCHANGED <<server, faults, history>>

\* clearAuth and window.location, or on page load only the end of the check.
NotRefreshed(r) ==
  IF call[r].kind = "load"
  THEN /\ Done(r)
       /\ loading' = [loading EXCEPT ![BrowserOf[r]] = "over"]
       /\ UNCHANGED store
  ELSE Unload(BrowserOf[r], {r})

\* The refresh fails; the answer clears the cookie, if there was one.
RefreshFails(r) ==
  /\ Arrives(r, {"failed"})
  /\ TakeCookie(r)
  /\ NotRefreshed(r)
  /\ UNCHANGED <<server, faults, history>>

\* An answer is lost.
AnswerLost(r) ==
  /\ Arrives(r, {"answered", "refused", "rotated", "failed"})
  /\ faults < MaxFaults
  /\ faults' = faults + 1
  /\ IF call[r].stage \in {"rotated", "failed"}
     THEN NotRefreshed(r)
     ELSE GiveUp(r) /\ UNCHANGED loading
  /\ UNCHANGED <<server, cookie, history>>

-----------------------------------------------------------------------------
(* Time.                                                                   *)

\* Fifteen minutes pass for an access token in use.
AccessExpires(b) ==
  /\ store[b] = "valid"
  /\ store' = [store EXCEPT ![b] = "expired"]
  /\ UNCHANGED <<server, cookie, loading, call, faults, history>>

\* Seven days pass for a refresh token; the row stays (nobody prunes).
RefreshExpires(t) ==
  /\ t \in rows \ expired
  /\ faults < MaxFaults
  /\ faults' = faults + 1
  /\ expired' = expired \cup {t}
  /\ UNCHANGED <<rows, client, call, history>>

-----------------------------------------------------------------------------
Page(r) == Send(r) \/ SignIn(r) \/ LoadPage(r)

Server(r) == Refuse(r) \/ Serve(r) \/ Select(r) \/ Delete(r) \/ Insert(r)

Answer(r) ==
  \/ Ignored(r) \/ Succeed(r) \/ RefreshAfter401(r) \/ Reject(r)
  \/ Refreshed(r) \/ RefreshFails(r)

Next ==
  \/ \E r \in Requests :
       Page(r) \/ Server(r) \/ Answer(r) \/ QueryFails(r) \/ AnswerLost(r)
  \/ \E b \in Browsers : Reload(b) \/ LoadAsGuest(b) \/ AccessExpires(b)
  \/ \E t \in Tokens : RefreshExpires(t)

Spec == Init /\ [][Next]_vars

\* The server serves and its answers arrive.
Fairness == \A r \in Requests : WF_vars(Server(r) \/ Answer(r))

FairSpec == Spec /\ Fairness

-----------------------------------------------------------------------------
(* Properties.                                                             *)

Stages ==
  {"idle", "sent", "answered", "refused", "refreshing", "selected",
   "deleted", "rotated", "failed", "over"}

\* A browser's cookie was given to that browser, and so was the token that a rotation
\* under way presents.
TypeOK ==
  /\ rows \subseteq Tokens /\ expired \subseteq Tokens
  /\ \A b \in Browsers : cookie[b] # None => Home(cookie[b]) = b
  /\ store \in [Browsers -> {None, "valid", "expired"}]
  /\ loading \in [Browsers -> {"due", "running", "over"}]
  /\ \A r \in Requests : call[r].stage \in Stages
  /\ \A r \in Rotating : /\ call[r].presented \in Tokens
                          /\ Home(call[r].presented) = BrowserOf[r]
  /\ faults \in 0 .. MaxFaults

\* A user who has logged in stays so: whoever is shown the login page has logged
\* out, or a fault has happened, or two requests of that browser refreshed with
\* one cookie at once.  Refreshes one after the other, and those of other
\* browsers, never end a session (rotateRefreshToken, the response interceptor).
SessionSurvives ==
  \A b \in Browsers : AtLogin(b) =>
    \/ UserOf[b] \in loggedOut
    \/ faults > 0
    \/ \E t \in shared : Home(t) = b

\* A logout ends all sessions of the user on all browsers for good: no token that
\* descends from them is ever in the table again, not by a refresh that was sent
\* before and not after faults (revokeAllRefreshTokens).  One kind of token the code
\* does let through: that of a rotation which had passed its SELECT when the logout came.
\* It is a session of its own, that of its one browser, and the next logout ends it.
RevokedStaysDead == \A t \in rows : origin[t] \notin ended

\* README: "If a refresh token is used after rotation, it is rejected."  A token is
\* exchanged for at most one new one, unless two refreshes presented it at once.
SingleUse ==
  \A r, q \in Requests :
    parent[r] # None /\ parent[r] = parent[q] => r = q \/ parent[r] \in shared

\* Every call of the API client is answered or rejected: a request that is refused
\* again after its refresh is not refreshed once more (_retry).
EveryRequestEnds == <>[](\A r \in Requests : call[r] = Idle \/ call[r] = Over)

\* README, on silent refresh: "The user never sees the expiry."  Nobody is shown
\* the login page who has not logged out and whose session has not expired.
NeverSeesExpiry ==
  \A b \in Browsers : AtLogin(b) => UserOf[b] \in loggedOut \/ faults > 0

=============================================================================

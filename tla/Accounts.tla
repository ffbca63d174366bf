------------------------------ MODULE Accounts ------------------------------
(***************************************************************************)
(* Accounts and API keys: the tables users and api_keys with the handlers  *)
(* that write them (authController.js, accountApi.js, apiKeysApi.js), and  *)
(* the pages that call these (Register.jsx, Login.jsx, Settings.jsx), which*)
(* keep what they have fetched in one query cache per document.            *)
(*                                                                         *)
(* A handler is its statements, with the awaits between them; statements   *)
(* and answers of several calls interleave.  The tokens are in Sessions:   *)
(* here a page has an access token of some account or none, and a cookie   *)
(* that its silent refresh turns into a token or not.                      *)
(***************************************************************************)
EXTENDS Integers, FiniteSets

CONSTANTS
  Pages,      \* documents, each in a browser of its own
  Users,      \* e-mail addresses in lower case and without blanks
  Addresses,  \* what is typed
  Normal,     \* toLowerCase().trim() of what is typed
  FirstUsers, \* the accounts at the start, with their passwords
  Passwords,
  Short,      \* the passwords of less than 8 characters
  Asked,      \* the kinds of call that pages make
  MaxCalls,   \* bound on the calls of pages
  MaxFaults,  \* bound on the crashes of the server
  Nobody,
  Unloaded    \* the query cache has no data

Kinds == {"register", "login", "password", "profile", "create", "delete"}

ASSUME AccountsAssumption ==
  /\ Normal \in [Addresses -> Users]
  /\ DOMAIN FirstUsers \subseteq Users
  /\ FirstUsers \in [DOMAIN FirstUsers -> Passwords \ Short]
  /\ Asked \subseteq Kinds
  /\ MaxCalls \in Nat /\ MaxFaults \in Nat
  /\ Nobody \notin Users \cup Passwords \cup Pages

VARIABLES
  password, \* users: the password that password_hash was made of, per account
  setBy,    \* history: the call that last set it, 0 for the start
  keys,     \* api_keys: id and owner of each row
  call,     \* the calls of pages, and how far each has come
  page,     \* the state of each page
  faults

users == <<password, setBy>>
vars == <<users, keys, call, page, faults>>

Calls == 1 .. MaxCalls

\* valid, before and settled are history: the passwords the account had while the
\* call was under way, the changes of it that had been answered when it was sent,
\* and whether its answer found the list of its account on display.
Idle == [stage |-> "idle", kind |-> "none", page |-> Nobody, account |-> Nobody,
         old |-> Nobody, new |-> Nobody, key |-> 0, hash |-> Nobody, status |-> 0,
         retried |-> FALSE, valid |-> {}, before |-> {0}, settled |-> FALSE]

\* ['api-keys'] in the query cache: what it holds, for whom it was fetched, and
\* whether it has been invalidated.
NoList == [owner |-> Nobody, rows |-> Unloaded, invalid |-> FALSE]

NoFetch == [stage |-> "none", owner |-> Nobody, rows |-> {}, retried |-> FALSE]

\* A new document without a session: the login page.
Guest == [auth |-> "out", account |-> Nobody, cookie |-> Nobody, at |-> "guest",
          list |-> NoList, fetch |-> NoFetch]

UnderWay == {r \in Calls : call[r].stage \notin {"idle", "over"}}

Init ==
  /\ password = FirstUsers
  /\ setBy = [u \in DOMAIN FirstUsers |-> 0]
  /\ keys = {}
  /\ call = [r \in Calls |-> Idle]
  /\ page = [p \in Pages |-> Guest]
  /\ faults = 0

-----------------------------------------------------------------------------
(* Calls of a page.                                                        *)

\* The answered calls of u that set its password.
Changes(u) ==
  {r \in Calls : call[r].stage = "over" /\ call[r].kind = "password"
                   /\ call[r].account = u /\ call[r].status = 200}

Current(u) == IF u \in DOMAIN password THEN {password[u]} ELSE {}

IsNext(r) == call[r].stage = "idle" /\ \A q \in 1 .. r - 1 : call[q].stage # "idle"

\* A call as it is sent, and what the server knows then.
New(kind, p, u) ==
  [Idle EXCEPT !.stage = "sent", !.kind = kind, !.page = p, !.account = u,
               !.valid = Current(u), !.before = {0} \cup Changes(u)]

Send(r, c) ==
  /\ IsNext(r)
  /\ c.kind \in Asked
  /\ call' = [call EXCEPT ![r] = c]
  /\ UNCHANGED <<users, keys, page, faults>>

\* The form waits for an answer, and its button is disabled.
Loading(p, kind) == \E q \in UnderWay : call[q].page = p /\ call[q].kind = kind

\* The forms of the guest pages; a user may go from one to the other meanwhile.
AskAsGuest(r, p) ==
  /\ page[p].at = "guest"
  /\ \E a \in Addresses :
       \/ /\ ~Loading(p, "register")
          /\ \E w \in Passwords : Send(r, [New("register", p, Normal[a]) EXCEPT !.new = w])
       \/ /\ ~Loading(p, "login")
          /\ \E w \in Passwords \ Short :
               Send(r, [New("login", p, Normal[a]) EXCEPT !.old = w])

\* The mutations of the settings page, under the account of its access token.
AskAsUser(r, p) ==
  /\ page[p].at = "settings"
  /\ page[p].auth = "in"
  /\ LET u == page[p].account
     IN  \/ \E v \in Passwords \ Short, w \in Passwords :
              Send(r, [New("password", p, u) EXCEPT !.old = v, !.new = w])
         \/ Send(r, New("profile", p, u))
         \/ Send(r, New("create", p, u))
         \/ /\ page[p].list.rows # Unloaded
            /\ \E k \in page[p].list.rows : Send(r, [New("delete", p, u) EXCEPT !.key = k])

-----------------------------------------------------------------------------
(* The handlers.                                                           *)

At(r, stage) == call[r].stage = stage
Reply(r, status) == call' = [call EXCEPT ![r].stage = "answered", ![r].status = status]

\* The length of a new password is looked at before anything else.
Refuses(r) == call[r].kind \in {"register", "password"} /\ call[r].new \in Short

Refuse(r) ==
  /\ At(r, "sent") /\ Refuses(r)
  /\ Reply(r, 400)
  /\ UNCHANGED <<users, keys, page, faults>>

\* register: the INSERT, which the unique address of users refuses (409).
Register(r) ==
  LET u == call[r].account
  IN  /\ At(r, "sent") /\ call[r].kind = "register" /\ ~Refuses(r)
      /\ IF u \in DOMAIN password
         THEN Reply(r, 409) /\ UNCHANGED users
         ELSE /\ password' = [v \in DOMAIN password \cup {u} |->
                                IF v = u THEN call[r].new ELSE password[v]]
              /\ setBy' = [v \in DOMAIN setBy \cup {u} |-> IF v = u THEN r ELSE setBy[v]]
              /\ call' = [q \in Calls |->
                   CASE q = r -> [call[q] EXCEPT !.stage = "answered", !.status = 201]
                     [] q # r /\ q \in UnderWay /\ call[q].account = u ->
                          [call[q] EXCEPT !.valid = @ \cup {call[r].new}]
                     [] OTHER -> call[q]]
      /\ UNCHANGED <<keys, page, faults>>

\* login and the password change: the SELECT of the row.
Lookup(r) ==
  LET u == call[r].account
  IN  /\ At(r, "sent") /\ call[r].kind \in {"login", "password"} /\ ~Refuses(r)
      /\ call' = [call EXCEPT ![r].stage = "found",
           ![r].hash = IF u \in DOMAIN password THEN password[u] ELSE Nobody]
      /\ UNCHANGED <<users, keys, page, faults>>

\* Mutant: the promise of bcrypt.compare is not awaited, and a promise is true.
MatchesAnything(r) == call[r].hash # Nobody

\* bcrypt.compare: a row was found, and its hash is of the password given.
Matches(r) == call[r].hash # Nobody /\ call[r].old = call[r].hash

\* After the comparison: 401, or the rest of login, or the new hash of a change.
Compare(r) ==
  /\ At(r, "found")
  /\ CASE ~Matches(r) -> Reply(r, 401)
       [] Matches(r) /\ call[r].kind = "login" -> Reply(r, 200)
       [] OTHER -> call' = [call EXCEPT ![r].stage = "matched", ![r].status = 200]
  /\ UNCHANGED <<users, keys, page, faults>>

\* The UPDATE of a password change, whatever the row holds by now.
Update(r) ==
  LET u == call[r].account
  IN  /\ At(r, "matched")
      /\ password' = [password EXCEPT ![u] = call[r].new]
      /\ setBy' = [setBy EXCEPT ![u] = r]
      /\ call' = [q \in Calls |->
           CASE q = r -> [call[q] EXCEPT !.stage = "answered"]
             [] q # r /\ q \in UnderWay /\ call[q].account = u ->
                  [call[q] EXCEPT !.valid = @ \cup {call[r].new}]
             [] OTHER -> call[q]]
      /\ UNCHANGED <<keys, page, faults>>

\* PATCH /api/account: the UPDATE of the name, of which nothing is kept here, the
\* SELECT and a new access token.
Rename(r) ==
  /\ At(r, "sent") /\ call[r].kind = "profile"
  /\ Reply(r, 200)
  /\ UNCHANGED <<users, keys, page, faults>>

CreateKey(r) ==
  /\ At(r, "sent") /\ call[r].kind = "create"
  /\ keys' = keys \cup {[id |-> r, owner |-> call[r].account]}
  /\ Reply(r, 201)
  /\ UNCHANGED <<users, page, faults>>

\* DELETE ... WHERE id = ? AND user_id = ?
DeleteKey(r) ==
  LET row == [id |-> call[r].key, owner |-> call[r].account]
  IN  /\ At(r, "sent") /\ call[r].kind = "delete"
      /\ keys' = keys \ {row}
      /\ Reply(r, IF row \in keys THEN 200 ELSE 404)
      /\ UNCHANGED <<users, page, faults>>

\* GET /api/keys; a page that has no token any more is refused.
ListKeys(p) ==
  /\ page[p].fetch.stage = "sent"
  /\ page' = [page EXCEPT
       ![p].fetch.stage = IF page[p].fetch.owner = Nobody THEN "denied" ELSE "read",
       ![p].fetch.rows = {row.id : row \in {k \in keys : k.owner = page[p].fetch.owner}}]
  /\ UNCHANGED <<users, keys, call, faults>>

Handle(r) ==
  Refuse(r) \/ Register(r) \/ Lookup(r) \/ Compare(r) \/ Update(r) \/ Rename(r)
    \/ CreateKey(r) \/ DeleteKey(r)

\* A query rejects in a handler without a try block, and the process ends: no call
\* under way is answered, whatever of it has been executed.
Crash ==
  /\ faults < MaxFaults
  /\ faults' = faults + 1
  /\ call' = [r \in Calls |->
       IF r \in UnderWay THEN [call[r] EXCEPT !.stage = "answered", !.status = 0]
       ELSE call[r]]
  /\ page' = [p \in Pages |->
       IF page[p].fetch.stage = "none" THEN page[p]
       ELSE [page[p] EXCEPT !.fetch.stage = "lost"]]
  /\ UNCHANGED <<users, keys>>

-----------------------------------------------------------------------------
(* Answers at the page.                                                    *)

Fetch(g) == [NoFetch EXCEPT !.stage = "sent", !.owner = g.account]

\* Mutant: a fetch that is under way is as good as a new one.
InvalidatedJoining(g) ==
  LET marked == [g EXCEPT !.list.invalid = TRUE]
  IN  IF g.at = "settings" /\ g.fetch.stage = "none"
      THEN [marked EXCEPT !.fetch = Fetch(g)]
      ELSE marked

\* invalidateQueries: the list is invalid; if it is on display it is fetched anew, and
\* a fetch under way is dropped for that, unless there is no data yet.
Invalidated(g) ==
  LET marked == [g EXCEPT !.list.invalid = TRUE]
  IN  IF g.at = "settings" /\ (g.fetch.stage = "none" \/ g.list.rows # Unloaded)
      THEN [marked EXCEPT !.fetch = Fetch(g)]
      ELSE marked

SignedIn(g, u) == [g EXCEPT !.auth = "in", !.account = u]

\* Mutant: setAuth merges what it is given, so that undefined changes nothing.
RegisteredMerging(g) == [g EXCEPT !.auth = "hollow", !.at = "home"]

\* setAuth(undefined, undefined): /auth/register answers with no token, the store
\* says isAuthenticated all the same, and GuestGuard turns /login into /dashboard.
Registered(g) == [g EXCEPT !.auth = "hollow", !.account = Nobody, !.at = "home"]

\* What a successful answer does to the page g that awaits it.
Heeded(g, c) ==
  CASE c.kind = "register" -> Registered(g)
    [] c.kind = "login" -> [SignedIn(g, c.account) EXCEPT !.at = "home", !.cookie = c.account]
    [] c.kind = "profile" -> SignedIn(g, c.account)
    [] c.kind \in {"create", "delete"} -> Invalidated(g)
    [] OTHER -> g

\* Mutant: a refresh that fails leaves the store alone.
UnrefreshedSilently(p, over) == page' = page /\ call' = over

\* The silent refresh fails: clearAuth, and /login in a new document, in which
\* nobody waits for what the old one asked.
Unrefreshed(p, over) ==
  /\ page' = [page EXCEPT ![p] = Guest]
  /\ call' = [r \in Calls |-> [over[r] EXCEPT !.page = IF @ = p THEN Nobody ELSE @]]

\* A page without a token is refused what it fetches: its cookie gives it a session, and
\* the fetch goes out again, or the login page comes back.
Denied(p) ==
  LET g == SignedIn(page[p], page[p].cookie)
  IN  IF page[p].cookie = Nobody THEN Unrefreshed(p, call)
      ELSE /\ page' = [page EXCEPT ![p] =
                IF g.fetch.stage = "none" THEN g ELSE [g EXCEPT !.fetch = Fetch(g)]]
           /\ UNCHANGED call

\* Mutant: the UPDATE is not awaited, and the answer is there before it.
IsAnsweredEarly(r) == call[r].stage \in {"answered", "matched"}

IsAnswered(r) == call[r].stage = "answered"

\* The refused call once more, with the token that the refresh has brought: whose
\* cookie that was matters to a change of the password, not to a login.
Resent(c, u) ==
  IF c.kind = "login" THEN [c EXCEPT !.stage = "sent", !.retried = TRUE]
  ELSE [New(c.kind, c.page, u) EXCEPT !.old = c.old, !.new = c.new, !.retried = TRUE]

\* The answer of r reaches its page: a 401 is refreshed and sent once more, or it
\* ends the session; other refusals and lost answers are only shown.
Take(r) ==
  LET c == call[r]
      p == c.page
      good == c.status \in {200, 201}
      shown == p # Nobody /\ page[p].at = "settings" /\ page[p].list.rows # Unloaded
      done == [call EXCEPT ![r] =
        IF good THEN [c EXCEPT !.stage = "over", !.settled = shown]
        ELSE [Idle EXCEPT !.stage = "over"]]
  IN  /\ IsAnswered(r)
      /\ IF p = Nobody THEN call' = done /\ UNCHANGED page
         ELSE IF c.status = 401 /\ ~c.retried
         THEN IF page[p].cookie = Nobody THEN Unrefreshed(p, done)
              ELSE /\ page' = [page EXCEPT ![p] = SignedIn(@, page[p].cookie)]
                   /\ call' = [call EXCEPT ![r] = Resent(c, page[p].cookie)]
         ELSE /\ call' = done
              /\ page' = IF good THEN [page EXCEPT ![p] = Heeded(@, c)] ELSE page
      /\ UNCHANGED <<users, keys, faults>>

\* The fetch of the list succeeds, or it is refused and the page refreshes, or it
\* fails for the first or the second time.
TakeList(p) ==
  LET g == page[p]
      f == page[p].fetch
  IN  /\ CASE f.stage = "read" ->
                /\ page' = [page EXCEPT ![p].fetch = NoFetch,
                     ![p].list = [owner |-> f.owner, rows |-> f.rows, invalid |-> FALSE]]
                /\ UNCHANGED call
           [] f.stage = "denied" -> Denied(p)
           [] f.stage = "lost" ->
                /\ page' = [page EXCEPT ![p].fetch =
                     IF f.retried THEN NoFetch ELSE [Fetch(g) EXCEPT !.retried = TRUE]]
                /\ UNCHANGED call
           [] OTHER -> FALSE
      /\ UNCHANGED <<users, keys, faults>>

-----------------------------------------------------------------------------
(* The user.                                                               *)

\* The settings page is mounted: the list is fetched if there is none, if it is
\* invalid, or if its staleTime is over.
Visit(p, aged) ==
  LET g == page[p]
      stale == g.list.rows = Unloaded \/ g.list.invalid \/ aged
  IN  /\ g.auth = "in" /\ g.at = "home"
      /\ page' = [page EXCEPT ![p].at = "settings",
                    ![p].fetch = IF stale /\ @.stage = "none" THEN Fetch(g) ELSE @]
      /\ UNCHANGED <<users, keys, call, faults>>

Leave(p) ==
  /\ page[p].at = "settings"
  /\ page' = [page EXCEPT ![p].at = "home"]
  /\ UNCHANGED <<users, keys, call, faults>>

\* handleLogout: the store is cleared and the router goes to /login, in the same
\* document.  (Calls that fail on the way are in Sessions.)
Logout(p) ==
  /\ page[p].auth = "in"
  /\ page' = [page EXCEPT ![p] = [Guest EXCEPT !.list = page[p].list, !.fetch = page[p].fetch]]
  /\ UNCHANGED <<users, keys, call, faults>>

\* The dashboard that a page without a token shows asks for its data.
Expel(p) ==
  /\ page[p].auth = "hollow"
  /\ Denied(p)
  /\ UNCHANGED <<users, keys, faults>>

Next ==
  \/ \E r \in Calls, p \in Pages : AskAsGuest(r, p) \/ AskAsUser(r, p)
  \/ \E r \in Calls : Handle(r) \/ Take(r)
  \/ \E p \in Pages : ListKeys(p) \/ TakeList(p) \/ Leave(p) \/ Logout(p) \/ Expel(p)
  \/ \E p \in Pages, aged \in BOOLEAN : Visit(p, aged)
  \/ Crash

Spec == Init /\ [][Next]_vars

\* The server handles what it was sent, answers or their loss reach the page, and a
\* dashboard asks for its data.
Fairness ==
  /\ \A r \in Calls : WF_vars(Handle(r)) /\ WF_vars(Take(r))
  /\ \A p \in Pages : WF_vars(ListKeys(p)) /\ WF_vars(TakeList(p)) /\ WF_vars(Expel(p))

FairSpec == Spec /\ Fairness

-----------------------------------------------------------------------------
Accepted(kind) ==
  {r \in Calls : call[r].kind = kind /\ At(r, "over") /\ call[r].status = 200}

\* The types of the state; a page that has a token has it for an account, and
\* keys and lists belong to accounts.
TypeOK ==
  /\ password \in [DOMAIN setBy -> Passwords \ Short] /\ DOMAIN setBy \subseteq Users
  /\ \A row \in keys : row.id \in Calls /\ row.owner \in DOMAIN password
  /\ \A p \in Pages :
       /\ page[p].auth = "in" <=> page[p].account # Nobody
       /\ page[p].auth = "out" => page[p].at = "guest" /\ page[p].cookie = Nobody
       /\ page[p].list.rows # Unloaded => page[p].list.owner \in DOMAIN password
       /\ page[p].fetch.stage \in {"none", "sent", "read", "denied", "lost"}

\* authController.js 125 and accountApi.js 61 compare with a hash that was read before
\* the await, while other calls may change the row: whoever is let in, or may set a
\* password, gave one that the account had at some moment while he was waiting.
CurrentPassword ==
  \A r \in Accepted("login") \cup Accepted("password") : call[r].old \in call[r].valid

\* accountApi.js 72 overwrites whatever the row holds: still, a password change that was
\* answered with success is in force unless another change, not answered when
\* this one was sent, has set the password.
ChangesStand ==
  \A r \in Accepted("password") : setBy[call[r].account] \notin call[r].before

\* Settings.jsx 58-69 refetches the list when its mutation is answered, while another
\* fetch may be on its way with older rows: once an answer found the list of its
\* account on display, a list that is not marked invalid has the key created and
\* does not have the key deleted.
OwnWritesShown ==
  \A p \in Pages, r \in Calls :
    LET list == page[p].list
        mine == call[r].page = p /\ call[r].account = list.owner
    IN  mine /\ call[r].settled /\ ~list.invalid =>
          /\ call[r].kind = "create" => r \in list.rows \/ \A row \in keys : row.id # r
          /\ call[r].kind = "delete" => call[r].key \notin list.rows

\* Every call ends, whatever the server does; no page stays with a session that has no
\* token, which is what Register.jsx 18 leaves behind, and no list goes on loading.
PagesSettle ==
  /\ <>[](UnderWay = {})
  /\ \A p \in Pages : []<>(page[p].auth # "hollow") /\ []<>(page[p].fetch.stage = "none")

\* src/README.md 513: "All data scoped to the authenticated user".  A page shows its
\* user only keys that were listed for him.
ScopedToUser ==
  \A p \in Pages :
    page[p].at = "settings" /\ page[p].list.rows # Unloaded =>
      page[p].list.owner = page[p].account

=============================================================================

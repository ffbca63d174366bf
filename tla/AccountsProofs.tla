--------------------------- MODULE AccountsProofs ---------------------------
(***************************************************************************)
(* Proofs about Accounts, for any number of pages, calls, accounts and     *)
(* passwords.                                                              *)
(***************************************************************************)
EXTENDS Accounts, TLAPS

USE AccountsAssumption

-----------------------------------------------------------------------------
(* The records of calls and pages, when the accounts us exist.             *)

CallRecord ==
  [stage : {"idle", "sent", "found", "matched", "answered", "over"},
   kind : Kinds \cup {"none"}, page : Pages \cup {Nobody}, account : Users \cup {Nobody},
   old : Passwords \cup {Nobody}, new : Passwords \cup {Nobody}, key : Nat,
   hash : Passwords \cup {Nobody}, status : Nat, retried : BOOLEAN,
   valid : SUBSET Passwords, before : SUBSET Nat, settled : BOOLEAN]

\* A call of a signed-in page is under an account that exists, as is one that has
\* found a hash or let somebody in; a password that passed the first test is one of
\* at least 8 characters.
CallsOf(us) ==
  {c \in CallRecord :
     /\ c.kind \in {"password", "profile", "create", "delete"} => c.account \in us
     /\ c.kind = "login" /\ c.status \in {200, 201} => c.account \in us
     /\ c.kind \in {"register", "login"} => c.account \in Users
     /\ c.kind \in {"register", "password"} => c.new \in Passwords
     /\ c.stage = "found" => /\ c.kind \in {"login", "password"}
                             /\ c.hash # Nobody => c.account \in us
     /\ c.stage = "matched" => c.kind = "password"
     /\ c.stage \in {"found", "matched"} => c.new \notin Short \/ c.kind = "login"}

ListRecord ==
  [owner : Users \cup {Nobody}, rows : (SUBSET Calls) \cup {Unloaded}, invalid : BOOLEAN]

FetchRecord ==
  [stage : {"none", "sent", "read", "denied", "lost"}, owner : Users \cup {Nobody},
   rows : SUBSET Calls, retried : BOOLEAN]

PageRecord ==
  [auth : {"in", "out", "hollow"}, account : Users \cup {Nobody},
   cookie : Users \cup {Nobody}, at : {"guest", "home", "settings"},
   list : ListRecord, fetch : FetchRecord]

\* The accounts a page is signed in as, has a cookie of, or has a list of, exist.
PagesOf(us) ==
  {g \in PageRecord :
     /\ {g.account, g.cookie, g.fetch.owner} \subseteq us \cup {Nobody}
     /\ g.auth = "in" <=> g.account # Nobody
     /\ g.auth = "out" => g.at = "guest" /\ g.cookie = Nobody
     /\ g.fetch.stage = "read" => g.fetch.owner # Nobody
     /\ g.list.rows # Unloaded => g.list.owner \in us}

\* The inductive form of TypeOK.
Types ==
  /\ setBy \in [DOMAIN setBy -> Nat] /\ DOMAIN setBy \subseteq Users
  /\ password \in [DOMAIN setBy -> Passwords \ Short]
  /\ keys \subseteq [id : Calls, owner : DOMAIN password]
  /\ call \in [Calls -> CallsOf(DOMAIN password)]
  /\ page \in [Pages -> PagesOf(DOMAIN password)]

\* What CurrentPassword needs: a call that will still read the row has seen every
\* password of its account since it was sent, the hash it has read is among them, and
\* a call that was let through gave such a password.
WillRead(c) ==
  \/ c.stage \notin {"idle", "over"} /\ c.kind = "login"
  \/ c.stage = "sent" /\ c.kind = "password"

Seen(c) ==
  /\ WillRead(c) => Current(c.account) \subseteq c.valid
  /\ c.stage = "found" => c.hash \in c.valid \cup {Nobody}
  /\ c.kind \in {"login", "password"} /\ c.status = 200 => c.old \in c.valid

\* What ChangesStand needs: the changes that a call knows of are over, and a change
\* that was executed has not been overwritten by one of them.
Over == {q \in Calls : call[q].stage = "over"}

Later(c) ==
  /\ c.before \subseteq {0} \cup Over
  /\ c.kind = "password" /\ c.status = 200 /\ c.stage \in {"answered", "over"}
       => setBy[c.account] \notin c.before

AccountsInv == Types /\ \A r \in Calls : Seen(call[r]) /\ Later(call[r])

LEMMA CallsGrow ==
  ASSUME NEW us, NEW vs, us \subseteq vs
  PROVE  CallsOf(us) \subseteq CallsOf(vs)
  BY DEF CallsOf

LEMMA PagesGrow ==
  ASSUME NEW us, NEW vs, us \subseteq vs
  PROVE  PagesOf(us) \subseteq PagesOf(vs)
  BY DEF PagesOf

LEMMA IdleCall == \A us : Idle \in CallsOf(us)
  BY DEF CallsOf, CallRecord, Idle

LEMMA GuestPage == \A us : Guest \in PagesOf(us)
<1>1. NoList \in ListRecord
  BY DEF ListRecord, NoList
<1>2. NoFetch \in FetchRecord
  BY DEF FetchRecord, NoFetch
<1>3. Guest \in PageRecord
  BY <1>1, <1>2 DEF PageRecord, Guest
<1> QED
  BY <1>3 DEF PagesOf, Guest, NoList, NoFetch

LEMMA InitTypes == Init => Types
<1> SUFFICES ASSUME Init PROVE Types
  OBVIOUS
<1>1. setBy \in [DOMAIN setBy -> Nat] /\ DOMAIN setBy = DOMAIN FirstUsers
  BY DEF Init
<1>2. password \in [DOMAIN setBy -> Passwords \ Short] /\ keys = {}
  BY <1>1 DEF Init
<1>3. call \in [Calls -> CallsOf(DOMAIN password)]
  BY IdleCall DEF Init
<1>4. page \in [Pages -> PagesOf(DOMAIN password)]
  BY GuestPage DEF Init
<1> QED
  BY <1>1, <1>2, <1>3, <1>4 DEF Types

-----------------------------------------------------------------------------
(* What pages and calls are made into.                                     *)

LEMMA FetchPage ==
  ASSUME NEW us, us \subseteq Users, NEW g \in PagesOf(us), NEW f \in FetchRecord,
         f.owner \in us \cup {Nobody}, f.stage = "read" => f.owner # Nobody
  PROVE  [g EXCEPT !.fetch = f] \in PagesOf(us)
<1>1. [g EXCEPT !.fetch = f] \in PageRecord
  BY DEF PagesOf, PageRecord
<1> QED
  BY <1>1 DEF PagesOf, PageRecord

LEMMA FetchType ==
  ASSUME NEW us, NEW g \in PagesOf(us)
  PROVE  Fetch(g) \in FetchRecord /\ Fetch(g).owner \in us \cup {Nobody} /\ Fetch(g).stage = "sent"
  BY DEF PagesOf, PageRecord, FetchRecord, Fetch, NoFetch

LEMMA ListPage ==
  ASSUME NEW us, us \subseteq Users, NEW g \in PagesOf(us), NEW l \in ListRecord,
         l.rows # Unloaded => l.owner \in us
  PROVE  [g EXCEPT !.list = l] \in PagesOf(us)
<1>1. [g EXCEPT !.list = l] \in PageRecord
  BY DEF PagesOf, PageRecord
<1> QED
  BY <1>1 DEF PagesOf, PageRecord

LEMMA SignedInPage ==
  ASSUME NEW us, us \subseteq Users, NEW g \in PagesOf(us), NEW u \in us
  PROVE  SignedIn(g, u) \in PagesOf(us)
<1>1. SignedIn(g, u) \in PageRecord
  BY DEF PagesOf, PageRecord, SignedIn
<1>2. u # Nobody
  OBVIOUS
<1> QED
  BY <1>1, <1>2 DEF PagesOf, PageRecord, SignedIn

LEMMA RegisteredPage ==
  ASSUME NEW us, us \subseteq Users, NEW g \in PagesOf(us)
  PROVE  Registered(g) \in PagesOf(us)
<1>1. Registered(g) \in PageRecord
  BY DEF PagesOf, PageRecord, Registered
<1> QED
  BY <1>1 DEF PagesOf, PageRecord, Registered

LEMMA InvalidatedPage ==
  ASSUME NEW us, us \subseteq Users, NEW g \in PagesOf(us)
  PROVE  Invalidated(g) \in PagesOf(us)
<1> DEFINE marked == [g EXCEPT !.list.invalid = TRUE]
<1>1. [g.list EXCEPT !.invalid = TRUE] \in ListRecord
  BY DEF PagesOf, PageRecord, ListRecord
<1>2. marked = [g EXCEPT !.list = [g.list EXCEPT !.invalid = TRUE]]
  BY DEF PagesOf, PageRecord
<1>3. [g.list EXCEPT !.invalid = TRUE].rows # Unloaded
        => [g.list EXCEPT !.invalid = TRUE].owner \in us
  BY DEF PagesOf, PageRecord, ListRecord
<1>4. marked \in PagesOf(us)
  BY <1>1, <1>2, <1>3, ListPage
<1>5. [marked EXCEPT !.fetch = Fetch(g)] \in PagesOf(us)
  BY <1>4, FetchPage, FetchType
<1> QED
  BY <1>4, <1>5 DEF Invalidated

LEMMA HeededPage ==
  ASSUME NEW us, us \subseteq Users, NEW g \in PagesOf(us), NEW c \in CallsOf(us),
         c.status \in {200, 201}
  PROVE  Heeded(g, c) \in PagesOf(us)
<1>1. CASE c.kind = "register"
  BY <1>1, RegisteredPage DEF Heeded
<1>2. CASE c.kind = "login"
  <2>1. c.account \in us
    BY <1>2 DEF CallsOf
  <2>2. SignedIn(g, c.account) \in PagesOf(us) /\ SignedIn(g, c.account).auth = "in"
    BY <2>1, SignedInPage DEF SignedIn, PagesOf, PageRecord
  <2> DEFINE h == [SignedIn(g, c.account) EXCEPT !.at = "home", !.cookie = c.account]
  <2>3. h \in PageRecord
    BY <2>1, <2>2 DEF PagesOf, PageRecord
  <2>4. /\ h.cookie = c.account /\ h.auth = "in"
        /\ h.account = SignedIn(g, c.account).account
        /\ h.list = SignedIn(g, c.account).list /\ h.fetch = SignedIn(g, c.account).fetch
    BY <2>2 DEF PagesOf, PageRecord
  <2>5. h \in PagesOf(us)
    <3> HIDE DEF h
    <3> QED
      BY <2>1, <2>2, <2>3, <2>4 DEF PagesOf
  <2> QED
    BY <1>2, <2>5 DEF Heeded
<1>3. CASE c.kind = "profile"
  <2>1. c.account \in us
    BY <1>3 DEF CallsOf
  <2> QED
    BY <1>3, <2>1, SignedInPage DEF Heeded
<1>4. CASE c.kind \in {"create", "delete"}
  BY <1>4, InvalidatedPage DEF Heeded
<1>5. CASE c.kind \notin {"register", "login", "profile", "create", "delete"}
  BY <1>5 DEF Heeded
<1> QED
  BY <1>1, <1>2, <1>3, <1>4, <1>5

\* A call as it is sent.
Fresh(c) ==
  /\ c \in CallsOf(DOMAIN password)
  /\ c.stage = "sent" /\ c.status = 0
  /\ c.valid = Current(c.account) /\ c.before = {0} \cup Changes(c.account)

LEMMA NewCall ==
  ASSUME Types, NEW kind, NEW p, NEW u,
         kind \in Kinds \cup {"none"}, p \in Pages, u \in Users
  PROVE  LET c == New(kind, p, u)
         IN  /\ c \in CallRecord
             /\ c.kind = kind /\ c.stage = "sent" /\ c.account = u /\ c.status = 0
             /\ c.valid = Current(u) /\ c.before = {0} \cup Changes(u)
<1>1. Current(u) \subseteq Passwords
  BY DEF Current, Types
<1>2. {0} \cup Changes(u) \subseteq Nat
  BY DEF Changes, Calls
<1>3. Idle \in CallRecord /\ Idle.status = 0
  BY IdleCall DEF CallsOf, Idle
<1> QED
  BY <1>1, <1>2, <1>3 DEF New, CallRecord

LEMMA SentCall ==
  ASSUME Types, NEW kind \in Kinds \cup {"none"}, NEW u \in Users, NEW c \in CallRecord,
         kind \notin {"register", "login"} => u \in DOMAIN password,
         kind \in {"register", "password"} => c.new \in Passwords,
         c.kind = kind, c.stage = "sent", c.account = u, c.status = 0,
         c.valid = Current(u), c.before = {0} \cup Changes(u)
  PROVE  Fresh(c)
  BY DEF Fresh, CallsOf, Kinds

\* The page that waits for a call is of no account here.
LEMMA PageOfCall ==
  ASSUME NEW us, NEW c \in CallsOf(us), NEW x \in Pages \cup {Nobody}
  PROVE  LET d == [c EXCEPT !.page = x]
         IN  /\ d \in CallsOf(us) /\ d.stage = c.stage
             /\ Seen(c) => Seen(d)
             /\ Later(c) => Later(d)
<1> DEFINE d == [c EXCEPT !.page = x]
<1>1. /\ d \in CallRecord
      /\ d.stage = c.stage /\ d.kind = c.kind /\ d.account = c.account /\ d.old = c.old
      /\ d.new = c.new /\ d.hash = c.hash /\ d.status = c.status /\ d.valid = c.valid
      /\ d.before = c.before
  BY DEF CallsOf, CallRecord
<1>2. c \in CallsOf(us)
  OBVIOUS
<1> HIDE DEF d
<1>3. d \in CallsOf(us)
  BY <1>1, <1>2 DEF CallsOf
<1>4. (Seen(c) => Seen(d)) /\ (Later(c) => Later(d))
  BY <1>1 DEF Seen, WillRead, Later
<1> QED
  BY <1>1, <1>3, <1>4 DEF d

Moved(c, stage, status) == [c EXCEPT !.stage = stage, !.status = status]

LEMMA MovedCall ==
  ASSUME NEW c, NEW stage, NEW status,
         c \in CallRecord, stage \in {"matched", "answered"}, status \in Nat
  PROVE  LET d == Moved(c, stage, status)
         IN  /\ d \in CallRecord
             /\ d.stage = stage /\ d.kind = c.kind /\ d.account = c.account /\ d.old = c.old
             /\ d.new = c.new /\ d.status = status /\ d.valid = c.valid /\ d.before = c.before
  BY DEF CallRecord, Moved

LEMMA AnsweredCall ==
  ASSUME NEW us, NEW c \in CallsOf(us), NEW status \in Nat,
         c.kind = "login" /\ status \in {200, 201} => c.account \in us
  PROVE  Moved(c, "answered", status) \in CallsOf(us)
<1> DEFINE d == Moved(c, "answered", status)
<1>1. c \in CallsOf(us) /\ c \in CallRecord
  BY DEF CallsOf
<1>2. /\ d \in CallRecord
      /\ d.kind = c.kind /\ d.stage = "answered" /\ d.account = c.account
      /\ d.new = c.new /\ d.status = status
  BY <1>1, MovedCall
<1> HIDE DEF d
<1>3. d \in CallsOf(us)
  BY <1>1, <1>2 DEF CallsOf
<1> QED
  BY <1>3 DEF d

LEMMA Replied ==
  ASSUME NEW us, call \in [Calls -> CallsOf(us)], NEW r \in Calls, NEW status \in Nat,
         Reply(r, status), call[r].kind = "login" /\ status \in {200, 201} => call[r].account \in us
  PROVE  /\ call' = [call EXCEPT ![r] = Moved(call[r], "answered", status)]
         /\ call' \in [Calls -> CallsOf(us)]
<1>1. call' = [call EXCEPT ![r] = Moved(call[r], "answered", status)]
  BY DEF Reply, CallsOf, CallRecord, Moved
<1>2. Moved(call[r], "answered", status) \in CallsOf(us)
  BY AnsweredCall
<1> QED
  BY <1>1, <1>2

-----------------------------------------------------------------------------
(* Steps of one call that leave the table of users alone.                  *)

LEMMA CallKeeps ==
  ASSUME AccountsInv, UNCHANGED users, NEW r \in Calls, NEW c,
         c \in CallsOf(DOMAIN password), Seen(c), Later(c),
         call[r].stage = "over" => c.stage = "over",
         call' = [call EXCEPT ![r] = c]
  PROVE  /\ call' \in [Calls -> CallsOf(DOMAIN password)]
         /\ \A q \in Calls : Seen(call[q])' /\ Later(call[q])'
<1>1. call \in [Calls -> CallsOf(DOMAIN password)]
  BY DEF AccountsInv, Types
<1>2. \A q \in Calls : call'[q] = IF q = r THEN c ELSE call[q]
  BY <1>1
<1>3. Over \subseteq Over'
  BY <1>2 DEF Over
<1>4. \A q \in Calls : Seen(call'[q]) /\ Later(call'[q])
  BY <1>2 DEF AccountsInv
<1>5. \A q \in Calls : Seen(call[q])' /\ Later(call[q])'
  BY <1>3, <1>4 DEF Seen, WillRead, Later, Current, users
<1> QED
  BY <1>1, <1>5

LEMMA FreshCall ==
  ASSUME AccountsInv, NEW c, Fresh(c)
  PROVE  Seen(c) /\ Later(c)
<1>1. Changes(c.account) \subseteq Over
  BY DEF Changes, Over
<1> QED
  BY <1>1 DEF Fresh, Seen, WillRead, Later

LEMMA SendKeeps ==
  ASSUME AccountsInv, NEW r \in Calls, NEW c, Fresh(c), Send(r, c)
  PROVE  AccountsInv'
<1>1. c \in CallsOf(DOMAIN password) /\ Seen(c) /\ Later(c)
  BY FreshCall DEF Fresh
<1>2. call[r].stage # "over" /\ call' = [call EXCEPT ![r] = c] /\ UNCHANGED <<users, keys, page>>
  BY DEF Send, IsNext
<1>3. /\ call' \in [Calls -> CallsOf(DOMAIN password)]
      /\ \A q \in Calls : Seen(call[q])' /\ Later(call[q])'
  BY <1>1, <1>2, CallKeeps
<1> QED
  BY <1>2, <1>3 DEF AccountsInv, Types, users

LEMMA AskAsGuestKeeps ==
  ASSUME AccountsInv, NEW r \in Calls, NEW p \in Pages, AskAsGuest(r, p)
  PROVE  AccountsInv'
<1> USE DEF Kinds
<1>1. PICK a \in Addresses :
        \/ \E w \in Passwords : Send(r, [New("register", p, Normal[a]) EXCEPT !.new = w])
        \/ \E w \in Passwords : Send(r, [New("login", p, Normal[a]) EXCEPT !.old = w])
  BY DEF AskAsGuest
<1>2. Normal[a] \in Users /\ Types
  BY DEF AccountsInv
<1>3. ASSUME NEW w \in Passwords, Send(r, [New("register", p, Normal[a]) EXCEPT !.new = w])
      PROVE  AccountsInv'
  <2> DEFINE n == New("register", p, Normal[a])
  <2> DEFINE c == [n EXCEPT !.new = w]
  <2>1. /\ n \in CallRecord
        /\ n.kind = "register" /\ n.stage = "sent" /\ n.account = Normal[a] /\ n.status = 0
        /\ n.valid = Current(Normal[a]) /\ n.before = {0} \cup Changes(Normal[a])
    BY <1>2, NewCall
  <2> HIDE DEF n
  <2>2. /\ c \in CallRecord /\ c.new \in Passwords
        /\ c.kind = "register" /\ c.stage = "sent" /\ c.account = Normal[a] /\ c.status = 0
        /\ c.valid = Current(Normal[a]) /\ c.before = {0} \cup Changes(Normal[a])
    BY <2>1 DEF CallRecord
  <2> HIDE DEF c
  <2>3. Fresh(c)
    BY <1>2, <2>2, SentCall
  <2> QED
    BY <1>3, <2>3, SendKeeps DEF c, n
<1>4. ASSUME NEW w \in Passwords, Send(r, [New("login", p, Normal[a]) EXCEPT !.old = w])
      PROVE  AccountsInv'
  <2> DEFINE n == New("login", p, Normal[a])
  <2> DEFINE c == [n EXCEPT !.old = w]
  <2>1. /\ n \in CallRecord
        /\ n.kind = "login" /\ n.stage = "sent" /\ n.account = Normal[a] /\ n.status = 0
        /\ n.valid = Current(Normal[a]) /\ n.before = {0} \cup Changes(Normal[a])
    BY <1>2, NewCall
  <2> HIDE DEF n
  <2>2. /\ c \in CallRecord
        /\ c.kind = "login" /\ c.stage = "sent" /\ c.account = Normal[a] /\ c.status = 0
        /\ c.valid = Current(Normal[a]) /\ c.before = {0} \cup Changes(Normal[a])
    BY <2>1 DEF CallRecord
  <2> HIDE DEF c
  <2>3. Fresh(c)
    BY <1>2, <2>2, SentCall
  <2> QED
    BY <1>4, <2>3, SendKeeps DEF c, n
<1> QED
  BY <1>1, <1>3, <1>4

LEMMA AskAsUserKeeps ==
  ASSUME AccountsInv, NEW r \in Calls, NEW p \in Pages, AskAsUser(r, p)
  PROVE  AccountsInv'
<1> USE DEF Kinds
<1> DEFINE u == page[p].account
<1>1. u \in DOMAIN password /\ u \in Users /\ Types
  BY DEF AskAsUser, AccountsInv, Types, PagesOf, PageRecord
<1>2. page[p].list.rows # Unloaded => page[p].list.rows \subseteq Nat
  BY DEF AccountsInv, Types, PagesOf, PageRecord, ListRecord, Calls
<1> HIDE DEF u
<1>3. ASSUME NEW v \in Passwords, NEW w \in Passwords,
             Send(r, [New("password", p, u) EXCEPT !.old = v, !.new = w])
      PROVE  AccountsInv'
  <2> DEFINE n == New("password", p, u)
  <2> DEFINE c == [n EXCEPT !.old = v, !.new = w]
  <2>1. /\ n \in CallRecord
        /\ n.kind = "password" /\ n.stage = "sent" /\ n.account = u /\ n.status = 0
        /\ n.valid = Current(u) /\ n.before = {0} \cup Changes(u)
    BY <1>1, NewCall
  <2> HIDE DEF n
  <2>2. /\ c \in CallRecord /\ c.new \in Passwords
        /\ c.kind = "password" /\ c.stage = "sent" /\ c.account = u /\ c.status = 0
        /\ c.valid = Current(u) /\ c.before = {0} \cup Changes(u)
    BY <2>1 DEF CallRecord
  <2> HIDE DEF c
  <2>3. Fresh(c)
    BY <1>1, <2>2, SentCall
  <2> QED
    BY <1>3, <2>3, SendKeeps DEF c, n
<1>4. ASSUME NEW kind \in {"profile", "create"}, Send(r, New(kind, p, u))
      PROVE  AccountsInv'
  <2>1. Fresh(New(kind, p, u))
    BY <1>1, NewCall, SentCall
  <2> QED
    BY <1>4, <2>1, SendKeeps
<1>5. ASSUME NEW k \in Nat, Send(r, [New("delete", p, u) EXCEPT !.key = k])
      PROVE  AccountsInv'
  <2> DEFINE n == New("delete", p, u)
  <2> DEFINE c == [n EXCEPT !.key = k]
  <2>1. /\ n \in CallRecord
        /\ n.kind = "delete" /\ n.stage = "sent" /\ n.account = u /\ n.status = 0
        /\ n.valid = Current(u) /\ n.before = {0} \cup Changes(u)
    BY <1>1, NewCall
  <2> HIDE DEF n
  <2>2. /\ c \in CallRecord
        /\ c.kind = "delete" /\ c.stage = "sent" /\ c.account = u /\ c.status = 0
        /\ c.valid = Current(u) /\ c.before = {0} \cup Changes(u)
    BY <2>1 DEF CallRecord
  <2> HIDE DEF c
  <2>3. Fresh(c)
    BY <1>1, <2>2, SentCall
  <2> QED
    BY <1>5, <2>3, SendKeeps DEF c, n
<1> QED
  BY <1>2, <1>3, <1>4, <1>5 DEF AskAsUser, u

-----------------------------------------------------------------------------
(* The handlers.                                                           *)

\* A call comes to its next statement or its answer, with the accounts as they were.
LEMMA StepKeeps ==
  ASSUME AccountsInv, UNCHANGED <<users, page>>, NEW r \in Calls, NEW c,
         keys' \subseteq [id : Calls, owner : DOMAIN password],
         c \in CallsOf(DOMAIN password), Seen(c), Later(c), call[r].stage # "over",
         call' = [call EXCEPT ![r] = c]
  PROVE  AccountsInv'
<1>1. /\ call' \in [Calls -> CallsOf(DOMAIN password)]
      /\ \A q \in Calls : Seen(call[q])' /\ Later(call[q])'
  BY CallKeeps
<1> QED
  BY <1>1 DEF AccountsInv, Types, users

LEMMA ReplyKeeps ==
  ASSUME AccountsInv, UNCHANGED <<users, page>>, NEW r \in Calls, NEW status \in Nat,
         call[r].stage \notin {"idle", "over"}, Reply(r, status),
         keys' \subseteq [id : Calls, owner : DOMAIN password],
         status = 200 => call[r].kind # "password",
         call[r].kind = "login" /\ status = 200 =>
           call[r].account \in DOMAIN password /\ call[r].old \in call[r].valid,
         status = 201 => call[r].kind # "login"
  PROVE  AccountsInv'
<1> DEFINE c == Moved(call[r], "answered", status)
<1>1. call[r] \in CallsOf(DOMAIN password) /\ Seen(call[r]) /\ Later(call[r])
  BY DEF AccountsInv, Types
<1>2. /\ c.stage = "answered" /\ c.kind = call[r].kind /\ c.account = call[r].account
      /\ c.old = call[r].old /\ c.status = status
      /\ c.valid = call[r].valid /\ c.before = call[r].before
  BY <1>1, MovedCall DEF CallsOf
<1>3. c \in CallsOf(DOMAIN password) /\ call' = [call EXCEPT ![r] = c]
  <2>1. call[r].kind = "login" /\ status \in {200, 201} => call[r].account \in DOMAIN password
    OBVIOUS
  <2>2. c \in CallsOf(DOMAIN password)
    BY <1>1, <2>1, AnsweredCall
  <2>3. call' = [call EXCEPT ![r] = c]
    BY <2>1, Replied DEF AccountsInv, Types
  <2> QED
    BY <2>2, <2>3
<1> HIDE DEF c
<1>4. Seen(c)
  BY <1>1, <1>2 DEF Seen, WillRead
<1>5. Later(c)
  BY <1>1, <1>2 DEF Later
<1> QED
  BY <1>3, <1>4, <1>5, StepKeeps

LEMMA RefuseKeeps ==
  ASSUME AccountsInv, NEW r \in Calls, Refuse(r)
  PROVE  AccountsInv'
  BY ReplyKeeps DEF Refuse, At, AccountsInv, Types

LEMMA RenameKeeps ==
  ASSUME AccountsInv, NEW r \in Calls, Rename(r)
  PROVE  AccountsInv'
  BY ReplyKeeps DEF Rename, At, AccountsInv, Types

LEMMA CreateKeyKeeps ==
  ASSUME AccountsInv, NEW r \in Calls, CreateKey(r)
  PROVE  AccountsInv'
<1>1. call[r].account \in DOMAIN password
  BY DEF CreateKey, AccountsInv, Types, CallsOf
<1>2. keys' \subseteq [id : Calls, owner : DOMAIN password]
  BY <1>1 DEF CreateKey, AccountsInv, Types
<1> QED
  BY <1>2, ReplyKeeps DEF CreateKey, At

LEMMA DeleteKeyKeeps ==
  ASSUME AccountsInv, NEW r \in Calls, DeleteKey(r)
  PROVE  AccountsInv'
<1>1. keys' \subseteq [id : Calls, owner : DOMAIN password]
  BY DEF DeleteKey, AccountsInv, Types
<1>2. PICK status \in {200, 404} : Reply(r, status)
  BY DEF DeleteKey
<1> QED
  BY <1>1, <1>2, ReplyKeeps DEF DeleteKey, At

\* The hash that is found is one the account has now.
LEMMA LookupKeeps ==
  ASSUME AccountsInv, NEW r \in Calls, Lookup(r)
  PROVE  AccountsInv'
<1> DEFINE u == call[r].account
<1> DEFINE h == IF u \in DOMAIN password THEN password[u] ELSE Nobody
<1> DEFINE c == [call[r] EXCEPT !.stage = "found", !.hash = h]
<1>1. call[r] \in CallsOf(DOMAIN password) /\ Seen(call[r]) /\ Later(call[r])
  BY DEF AccountsInv, Types
<1>2. /\ call[r].stage = "sent" /\ call[r].kind \in {"login", "password"}
      /\ call[r].new \notin Short \/ call[r].kind = "login"
      /\ call' = [call EXCEPT ![r].stage = "found", ![r].hash = h]
      /\ UNCHANGED <<users, keys, page>>
  BY DEF Lookup, At, Refuses
<1>3. h \in Passwords \cup {Nobody} /\ (h # Nobody => u \in DOMAIN password)
  BY DEF AccountsInv, Types
<1>4. h \in Current(u) \cup {Nobody}
  BY DEF Current
<1> HIDE DEF h
<1>5. call' = [call EXCEPT ![r] = c]
  BY <1>1, <1>2 DEF AccountsInv, Types, CallsOf, CallRecord
<1>6. c \in CallRecord
  BY <1>1, <1>3 DEF CallsOf, CallRecord
<1>7. /\ c.stage = "found" /\ c.hash = h /\ c.kind = call[r].kind /\ c.account = u
      /\ c.old = call[r].old /\ c.new = call[r].new /\ c.status = call[r].status
      /\ c.valid = call[r].valid /\ c.before = call[r].before
  BY <1>1 DEF CallsOf, CallRecord
<1> HIDE DEF c
<1>8. c \in CallsOf(DOMAIN password)
  BY <1>1, <1>2, <1>3, <1>6, <1>7 DEF CallsOf
<1>9. Current(u) \subseteq call[r].valid
  BY <1>1, <1>2 DEF Seen, WillRead
<1>10. Seen(c)
  BY <1>1, <1>2, <1>4, <1>7, <1>9 DEF Seen, WillRead
<1>11. Later(c)
  BY <1>1, <1>2, <1>7 DEF Later
<1>12. keys' \subseteq [id : Calls, owner : DOMAIN password]
  BY <1>2 DEF AccountsInv, Types
<1> QED
  BY <1>2, <1>5, <1>8, <1>10, <1>11, <1>12, StepKeeps

\* Who gave the hash that was found gave a password the account had while he waited.
LEMMA CompareKeeps ==
  ASSUME AccountsInv, NEW r \in Calls, Compare(r)
  PROVE  AccountsInv'
<1> DEFINE c == Moved(call[r], "matched", 200)
<1>1. call[r] \in CallsOf(DOMAIN password) /\ Seen(call[r]) /\ Later(call[r])
  BY DEF AccountsInv, Types
<1>2. /\ call[r].stage = "found" /\ call[r].kind \in {"login", "password"}
      /\ UNCHANGED <<users, keys, page>>
  BY <1>1 DEF Compare, At, CallsOf
<1>3. Matches(r) => call[r].old \in call[r].valid /\ call[r].account \in DOMAIN password
  BY <1>1, <1>2 DEF Matches, Seen, CallsOf
<1>4. keys' \subseteq [id : Calls, owner : DOMAIN password]
  BY <1>2 DEF AccountsInv, Types
<1>5. CASE ~Matches(r)
  BY <1>2, <1>4, <1>5, ReplyKeeps DEF Compare
<1>6. CASE Matches(r) /\ call[r].kind = "login"
  BY <1>2, <1>3, <1>4, <1>6, ReplyKeeps DEF Compare
<1>7. CASE Matches(r) /\ call[r].kind # "login"
  <2>1. call' = [call EXCEPT ![r] = c]
    <3>1. call' = [call EXCEPT ![r].stage = "matched", ![r].status = 200]
      BY <1>7 DEF Compare
    <3> QED
      BY <1>1, <3>1 DEF AccountsInv, Types, CallsOf, CallRecord, Moved
  <2>2. call[r] \in CallRecord
    BY <1>1 DEF CallsOf
  <2>3. /\ c \in CallRecord
        /\ c.stage = "matched" /\ c.status = 200 /\ c.kind = call[r].kind
        /\ c.account = call[r].account /\ c.old = call[r].old /\ c.new = call[r].new
        /\ c.valid = call[r].valid /\ c.before = call[r].before
    BY <2>2, MovedCall
  <2> HIDE DEF c
  <2>4. c \in CallsOf(DOMAIN password)
    BY <1>1, <1>2, <1>7, <2>3 DEF CallsOf
  <2>5. Seen(c) /\ Later(c)
    BY <1>1, <1>2, <1>3, <1>7, <2>3 DEF Seen, WillRead, Later
  <2> QED
    BY <1>2, <1>4, <2>1, <2>4, <2>5, StepKeeps
<1> QED
  BY <1>5, <1>6, <1>7

-----------------------------------------------------------------------------
(* Statements that set a password, of an account that exists or of a new one. *)

\* What becomes of the other calls of the account.
Hears(c, u, w) ==
  IF c.stage \notin {"idle", "over"} /\ c.account = u THEN [c EXCEPT !.valid = @ \cup {w}] ELSE c

LEMMA HearsCall ==
  ASSUME NEW us, NEW c, NEW u, NEW w, c \in CallsOf(us), w \in Passwords
  PROVE  LET d == Hears(c, u, w)
         IN  /\ d \in CallsOf(us)
             /\ d.stage = c.stage /\ d.kind = c.kind /\ d.account = c.account /\ d.old = c.old
             /\ d.hash = c.hash /\ d.status = c.status /\ d.before = c.before
             /\ c.valid \subseteq d.valid
             /\ c.stage \notin {"idle", "over"} /\ c.account = u => w \in d.valid
<1> DEFINE d == Hears(c, u, w)
<1>1. c \in CallsOf(us) /\ c \in CallRecord
  BY DEF CallsOf
<1>2. d \in CallRecord
  BY <1>1 DEF CallRecord, Hears
<1>3. /\ d.stage = c.stage /\ d.kind = c.kind /\ d.account = c.account /\ d.old = c.old
      /\ d.new = c.new /\ d.hash = c.hash /\ d.status = c.status /\ d.before = c.before
      /\ c.valid \subseteq d.valid
      /\ c.stage \notin {"idle", "over"} /\ c.account = u => w \in d.valid
  BY <1>1 DEF CallRecord, Hears
<1> HIDE DEF d
<1>4. d \in CallsOf(us)
  BY <1>1, <1>2, <1>3 DEF CallsOf
<1> QED
  BY <1>3, <1>4 DEF d

LEMMA ChangeKeeps ==
  ASSUME AccountsInv, NEW r \in Calls, NEW u \in Users, NEW w \in Passwords \ Short, NEW c,
         call[r].stage \notin {"idle", "over"}, UNCHANGED <<keys, page>>,
         password' = [v \in DOMAIN password \cup {u} |-> IF v = u THEN w ELSE password[v]],
         setBy' = [v \in DOMAIN setBy \cup {u} |-> IF v = u THEN r ELSE setBy[v]],
         c \in CallsOf(DOMAIN password \cup {u}), c.stage = "answered",
         c.kind \in {"register", "password"}, c.account = u, c.before = call[r].before,
         c.kind = "password" /\ c.status = 200 => c.old \in c.valid,
         call' = [q \in Calls |-> IF q = r THEN c ELSE Hears(call[q], u, w)]
  PROVE  AccountsInv'
<1> DEFINE us == DOMAIN password \cup {u}
<1>1. /\ Types /\ DOMAIN password = DOMAIN setBy /\ DOMAIN password \subseteq Users
      /\ DOMAIN password' = us /\ us \subseteq Users
  BY DEF AccountsInv, Types
<1>2. /\ setBy' \in [DOMAIN setBy' -> Nat] /\ DOMAIN setBy' = us
      /\ password' \in [DOMAIN setBy' -> Passwords \ Short]
  BY <1>1 DEF Types, Calls
<1>3. keys' \subseteq [id : Calls, owner : us]
  BY <1>1 DEF Types
<1>4. page' \in [Pages -> PagesOf(us)]
  <2>1. PagesOf(DOMAIN password) \subseteq PagesOf(us)
    BY PagesGrow
  <2> QED
    BY <1>1, <2>1 DEF Types
<1>5. \A q \in Calls : call[q] \in CallsOf(us)
  <2>1. CallsOf(DOMAIN password) \subseteq CallsOf(us)
    BY CallsGrow
  <2> QED
    BY <1>1, <2>1 DEF Types
<1>6. call' \in [Calls -> CallsOf(us)]
  BY <1>5, HearsCall
<1>7. Types'
  BY <1>1, <1>2, <1>3, <1>4, <1>6 DEF Types
<1>8. Over' = Over
  <2>1. \A q \in Calls : q # r => call'[q].stage = call[q].stage
    BY <1>5, HearsCall
  <2> QED
    BY <2>1 DEF Over
<1>9. ASSUME NEW q \in Calls, q # r
      PROVE  Seen(call[q])' /\ Later(call[q])'
  <2> DEFINE d == call'[q]
  <2> DEFINE now(v) == IF v \in DOMAIN password' THEN {password'[v]} ELSE {}
  <2>1. d = Hears(call[q], u, w) /\ call[q] \in CallsOf(us)
    BY <1>5, <1>9
  <2>2. /\ d.stage = call[q].stage /\ d.kind = call[q].kind /\ d.account = call[q].account
        /\ d.old = call[q].old /\ d.hash = call[q].hash /\ d.status = call[q].status
        /\ d.before = call[q].before /\ call[q].valid \subseteq d.valid
        /\ call[q].stage \notin {"idle", "over"} /\ call[q].account = u => w \in d.valid
    BY <2>1, HearsCall
  <2>3. Seen(call[q]) /\ Later(call[q])
    BY DEF AccountsInv
  <2>4. now(d.account) = IF d.account = u THEN {w} ELSE Current(d.account)
    BY <1>1 DEF Current
  <2>5. r \notin call[q].before
    BY <2>3 DEF Later, Over, Calls
  <2>6. d.kind = "password" => d.account \in us
    BY <2>1, <2>2 DEF CallsOf
  <2> HIDE DEF d
  <2>7. /\ WillRead(d) => now(d.account) \subseteq d.valid
        /\ d.stage = "found" => d.hash \in d.valid \cup {Nobody}
        /\ d.kind \in {"login", "password"} /\ d.status = 200 => d.old \in d.valid
    BY <2>2, <2>3, <2>4 DEF Seen, WillRead
  <2>8. /\ d.before \subseteq {0} \cup Over'
        /\ d.kind = "password" /\ d.status = 200 /\ d.stage \in {"answered", "over"}
             => setBy'[d.account] \notin d.before
    BY <1>1, <1>8, <2>2, <2>3, <2>5, <2>6 DEF Later
  <2> QED
    BY <2>7, <2>8 DEF d, Seen, Later, WillRead, Current
<1>10. Seen(call[r])' /\ Later(call[r])'
  <2>1. call'[r] = c /\ Later(call[r])
    BY DEF AccountsInv
  <2>2. r \notin c.before /\ c.before \subseteq {0} \cup Over'
    <3>1. c.before = call[r].before /\ call[r].before \subseteq {0} \cup Over
      BY <2>1 DEF Later
    <3>2. r # 0 /\ r \notin Over
      BY DEF Over, Calls
    <3> QED
      BY <1>8, <3>1, <3>2
  <2>3. setBy'[u] = r
    BY <1>1
  <2>4. Seen(call[r])'
    BY <2>1 DEF Seen, WillRead
  <2>5. Later(call[r])'
    BY <2>1, <2>2, <2>3 DEF Later
  <2> QED
    BY <2>4, <2>5
<1> QED
  BY <1>7, <1>9, <1>10 DEF AccountsInv

LEMMA RegisterKeeps ==
  ASSUME AccountsInv, NEW r \in Calls, Register(r)
  PROVE  AccountsInv'
<1> DEFINE u == call[r].account
<1> DEFINE w == call[r].new
<1> DEFINE c == Moved(call[r], "answered", 201)
<1>1. /\ call[r] \in CallsOf(DOMAIN password) /\ call[r] \in CallRecord
      /\ call[r].stage = "sent" /\ call[r].kind = "register"
      /\ u \in Users /\ w \in Passwords \ Short
      /\ UNCHANGED <<keys, page>>
  BY DEF AccountsInv, Types, Register, Refuses, At, CallsOf
<1>2. CASE u \in DOMAIN password
  <2>1. Reply(r, 409) /\ UNCHANGED <<users, keys, page>>
    BY <1>2 DEF Register
  <2>2. keys' \subseteq [id : Calls, owner : DOMAIN password]
    BY <2>1 DEF AccountsInv, Types
  <2> QED
    BY <1>1, <2>1, <2>2, ReplyKeeps
<1>3. CASE u \notin DOMAIN password
  <2>1. /\ password' = [v \in DOMAIN password \cup {u} |-> IF v = u THEN w ELSE password[v]]
        /\ setBy' = [v \in DOMAIN setBy \cup {u} |-> IF v = u THEN r ELSE setBy[v]]
    BY <1>3 DEF Register
  <2>2. call' = [q \in Calls |-> IF q = r THEN c ELSE Hears(call[q], u, w)]
    BY <1>3 DEF Register, UnderWay, Hears, Moved
  <2>3. /\ c \in CallRecord /\ c.stage = "answered" /\ c.kind = "register"
        /\ c.account = u /\ c.new = w /\ c.before = call[r].before
    BY <1>1, MovedCall
  <2>4. c \in CallsOf(DOMAIN password \cup {u})
    BY <1>1, <2>3 DEF CallsOf
  <2>5. /\ c.kind \in {"register", "password"}
        /\ call[r].stage \notin {"idle", "over"}
        /\ c.kind = "password" /\ c.status = 200 => c.old \in c.valid
    BY <1>1, <2>3
  <2> HIDE DEF c, w, u
  <2> QED
    BY <1>1, <2>1, <2>2, <2>3, <2>4, <2>5, ChangeKeeps
<1> QED
  BY <1>2, <1>3

LEMMA UpdateKeeps ==
  ASSUME AccountsInv, NEW r \in Calls, Update(r)
  PROVE  AccountsInv'
<1> DEFINE u == call[r].account
<1> DEFINE w == call[r].new
<1> DEFINE c == Moved(call[r], "answered", call[r].status)
<1>1. /\ call[r] \in CallsOf(DOMAIN password) /\ call[r] \in CallRecord
      /\ call[r].stage = "matched" /\ call[r].kind = "password" /\ call[r].status \in Nat
      /\ u \in DOMAIN password /\ u \in Users /\ w \in Passwords \ Short
      /\ UNCHANGED <<keys, page>>
  BY DEF AccountsInv, Types, Update, At, CallsOf, CallRecord
<1>2. /\ password' = [v \in DOMAIN password \cup {u} |-> IF v = u THEN w ELSE password[v]]
      /\ setBy' = [v \in DOMAIN setBy \cup {u} |-> IF v = u THEN r ELSE setBy[v]]
  <2>1. password' = [password EXCEPT ![u] = w] /\ setBy' = [setBy EXCEPT ![u] = r]
    BY DEF Update
  <2>2. DOMAIN password \cup {u} = DOMAIN password /\ DOMAIN setBy \cup {u} = DOMAIN setBy
    BY <1>1 DEF AccountsInv, Types
  <2> QED
    BY <2>1, <2>2 DEF AccountsInv, Types
<1>3. call' = [q \in Calls |-> IF q = r THEN c ELSE Hears(call[q], u, w)]
  <2>1. c = [call[r] EXCEPT !.stage = "answered"]
    BY <1>1 DEF Moved, CallRecord
  <2> HIDE DEF c
  <2> QED
    BY <2>1 DEF Update, UnderWay, Hears
<1>4. /\ c \in CallRecord /\ c.stage = "answered" /\ c.kind = "password" /\ c.account = u
      /\ c.new = w /\ c.before = call[r].before /\ c.old = call[r].old
      /\ c.valid = call[r].valid /\ c.status = call[r].status
  BY <1>1, MovedCall
<1>5. c \in CallsOf(DOMAIN password \cup {u})
  BY <1>1, <1>4 DEF CallsOf
<1>6. c.kind = "password" /\ c.status = 200 => c.old \in c.valid
  BY <1>1, <1>4 DEF AccountsInv, Seen
<1>7. c.kind \in {"register", "password"} /\ call[r].stage \notin {"idle", "over"}
  BY <1>1, <1>4
<1> HIDE DEF c, w, u
<1> QED
  BY <1>1, <1>2, <1>3, <1>4, <1>5, <1>6, <1>7, ChangeKeeps

LEMMA HandleKeeps ==
  ASSUME AccountsInv, NEW r \in Calls, Handle(r)
  PROVE  AccountsInv'
  BY RefuseKeeps, RegisterKeeps, LookupKeeps, CompareKeeps, UpdateKeeps, RenameKeeps,
     CreateKeyKeeps, DeleteKeyKeeps DEF Handle

-----------------------------------------------------------------------------
(* Steps that leave the tables alone.                                      *)

LEMMA CallsKeep ==
  ASSUME AccountsInv, UNCHANGED <<users, keys>>,
         page' \in [Pages -> PagesOf(DOMAIN password)],
         call' \in [Calls -> CallsOf(DOMAIN password)],
         \A q \in Calls : /\ call[q].stage = "over" => call'[q].stage = "over"
                          /\ Seen(call'[q]) /\ Later(call'[q])
  PROVE  AccountsInv'
<1>1. Types'
  BY DEF AccountsInv, Types, users
<1>2. Over \subseteq Over'
  BY DEF Over
<1>3. \A q \in Calls : Seen(call[q])' /\ Later(call[q])'
  BY <1>2 DEF Seen, WillRead, Later, Current, users
<1> QED
  BY <1>1, <1>3 DEF AccountsInv

LEMMA PageKeeps ==
  ASSUME AccountsInv, UNCHANGED <<users, keys, call>>, NEW p \in Pages, NEW g,
         g \in PagesOf(DOMAIN password), page' = [page EXCEPT ![p] = g]
  PROVE  AccountsInv'
<1>1. /\ page' \in [Pages -> PagesOf(DOMAIN password)]
      /\ call' \in [Calls -> CallsOf(DOMAIN password)]
  BY DEF AccountsInv, Types
<1>2. \A q \in Calls : /\ call[q].stage = "over" => call'[q].stage = "over"
                       /\ Seen(call'[q]) /\ Later(call'[q])
  BY DEF AccountsInv
<1> QED
  BY <1>1, <1>2, CallsKeep

LEMMA ListKeysKeeps ==
  ASSUME AccountsInv, NEW p \in Pages, ListKeys(p)
  PROVE  AccountsInv'
<1> DEFINE g == page[p]
<1> DEFINE stage == IF g.fetch.owner = Nobody THEN "denied" ELSE "read"
<1> DEFINE rows == {row.id : row \in {k \in keys : k.owner = g.fetch.owner}}
<1> DEFINE f == [g.fetch EXCEPT !.stage = stage, !.rows = rows]
<1>1. /\ page \in [Pages -> PagesOf(DOMAIN password)] /\ g \in PagesOf(DOMAIN password)
      /\ g \in PageRecord /\ DOMAIN password \subseteq Users /\ g.fetch \in FetchRecord
  BY DEF AccountsInv, Types, PagesOf, PageRecord
<1>2. rows \subseteq Calls
  BY DEF AccountsInv, Types
<1>3. page' = [page EXCEPT ![p] = [g EXCEPT !.fetch = f]]
  BY <1>1 DEF ListKeys, PageRecord, FetchRecord
<1> HIDE DEF rows
<1>4. /\ f \in FetchRecord /\ f.owner = g.fetch.owner
      /\ f.stage = "read" => f.owner # Nobody
  BY <1>1, <1>2 DEF FetchRecord
<1>5. f.owner \in DOMAIN password \cup {Nobody}
  BY <1>1, <1>4 DEF PagesOf
<1> HIDE DEF f, stage
<1>6. [g EXCEPT !.fetch = f] \in PagesOf(DOMAIN password)
  BY <1>1, <1>4, <1>5, FetchPage
<1> QED
  BY <1>3, <1>6, PageKeeps DEF ListKeys, users

LEMMA CrashKeeps ==
  ASSUME AccountsInv, Crash
  PROVE  AccountsInv'
<1>1. page' \in [Pages -> PagesOf(DOMAIN password)]
  <2> SUFFICES ASSUME NEW p \in Pages
               PROVE  page'[p] \in PagesOf(DOMAIN password)
    BY DEF Crash
  <2> DEFINE f == [page[p].fetch EXCEPT !.stage = "lost"]
  <2>1. page[p] \in PagesOf(DOMAIN password) /\ DOMAIN password \subseteq Users
    BY DEF AccountsInv, Types
  <2>2. f \in FetchRecord /\ f.owner \in DOMAIN password \cup {Nobody} /\ f.stage = "lost"
    BY <2>1 DEF PagesOf, PageRecord, FetchRecord
  <2>3. [page[p] EXCEPT !.fetch = f] \in PagesOf(DOMAIN password)
    BY <2>1, <2>2, FetchPage
  <2>4. [page[p] EXCEPT !.fetch.stage = "lost"] = [page[p] EXCEPT !.fetch = f]
    BY <2>1 DEF PagesOf, PageRecord
  <2> QED
    BY <2>1, <2>3, <2>4 DEF Crash
<1>2. ASSUME NEW q \in Calls
      PROVE  /\ call'[q] \in CallsOf(DOMAIN password)
             /\ call[q].stage = "over" => call'[q].stage = "over"
             /\ Seen(call'[q]) /\ Later(call'[q])
  <2> DEFINE c == Moved(call[q], "answered", 0)
  <2>1. call[q] \in CallsOf(DOMAIN password) /\ Seen(call[q]) /\ Later(call[q])
    BY DEF AccountsInv, Types
  <2>2. call[q] \in CallRecord
    BY <2>1 DEF CallsOf
  <2>3. c \in CallsOf(DOMAIN password)
    BY <2>1, AnsweredCall
  <2>4. /\ c.stage = "answered" /\ c.kind = call[q].kind /\ c.account = call[q].account
        /\ c.status = 0 /\ c.valid = call[q].valid /\ c.before = call[q].before
    BY <2>2, MovedCall
  <2>5. call'[q] = IF call[q].stage \notin {"idle", "over"} THEN c ELSE call[q]
    BY DEF Crash, UnderWay, Moved
  <2> HIDE DEF c
  <2>6. CASE call[q].stage \notin {"idle", "over"}
    <3>1. Seen(c) /\ Later(c)
      BY <2>1, <2>4, <2>6 DEF Seen, WillRead, Later
    <3> QED
      BY <2>3, <2>5, <2>6, <3>1
  <2> QED
    BY <2>1, <2>5, <2>6
<1>3. call' \in [Calls -> CallsOf(DOMAIN password)]
  BY <1>2 DEF Crash
<1> QED
  BY <1>1, <1>2, <1>3, CallsKeep DEF Crash

LEMMA UnrefreshedKeeps ==
  ASSUME AccountsInv, UNCHANGED <<users, keys>>, NEW p \in Pages, NEW over,
         over \in [Calls -> CallsOf(DOMAIN password)],
         \A q \in Calls : /\ call[q].stage = "over" => over[q].stage = "over"
                          /\ Seen(over[q]) /\ Later(over[q]),
         Unrefreshed(p, over)
  PROVE  AccountsInv'
<1>1. page' \in [Pages -> PagesOf(DOMAIN password)]
  BY GuestPage DEF Unrefreshed, AccountsInv, Types
<1>2. ASSUME NEW q \in Calls
      PROVE  /\ call'[q] \in CallsOf(DOMAIN password)
             /\ call[q].stage = "over" => call'[q].stage = "over"
             /\ Seen(call'[q]) /\ Later(call'[q])
  <2> DEFINE x == IF over[q].page = p THEN Nobody ELSE over[q].page
  <2>1. over[q] \in CallsOf(DOMAIN password) /\ Seen(over[q]) /\ Later(over[q])
    OBVIOUS
  <2>2. x \in Pages \cup {Nobody}
    BY <2>1 DEF CallsOf, CallRecord
  <2>3. call'[q] = [over[q] EXCEPT !.page = x]
    BY <2>1 DEF Unrefreshed, CallsOf, CallRecord
  <2> HIDE DEF x
  <2> QED
    BY <2>1, <2>2, <2>3, PageOfCall
<1>3. call' \in [Calls -> CallsOf(DOMAIN password)]
  BY <1>2 DEF Unrefreshed
<1> QED
  BY <1>1, <1>2, <1>3, CallsKeep

LEMMA DeniedKeeps ==
  ASSUME AccountsInv, UNCHANGED <<users, keys>>, NEW p \in Pages, Denied(p)
  PROVE  AccountsInv'
<1> DEFINE g == SignedIn(page[p], page[p].cookie)
<1>1. /\ page[p] \in PagesOf(DOMAIN password) /\ DOMAIN password \subseteq Users
      /\ call \in [Calls -> CallsOf(DOMAIN password)]
      /\ \A q \in Calls : Seen(call[q]) /\ Later(call[q])
  BY DEF AccountsInv, Types
<1>2. CASE page[p].cookie = Nobody
  <2>1. Unrefreshed(p, call)
    BY <1>2 DEF Denied
  <2> QED
    BY <1>1, <2>1, UnrefreshedKeeps
<1>3. CASE page[p].cookie # Nobody
  <2>1. page[p].cookie \in DOMAIN password
    BY <1>1, <1>3 DEF PagesOf
  <2>2. g \in PagesOf(DOMAIN password)
    BY <1>1, <2>1, SignedInPage
  <2>3. /\ page' = [page EXCEPT ![p] =
             IF g.fetch.stage = "none" THEN g ELSE [g EXCEPT !.fetch = Fetch(g)]]
        /\ UNCHANGED call
    BY <1>3 DEF Denied
  <2> HIDE DEF g
  <2>4. [g EXCEPT !.fetch = Fetch(g)] \in PagesOf(DOMAIN password)
    BY <1>1, <2>2, FetchType, FetchPage
  <2> QED
    BY <2>2, <2>3, <2>4, PageKeeps
<1> QED
  BY <1>2, <1>3

LEMMA TakeListKeeps ==
  ASSUME AccountsInv, NEW p \in Pages, TakeList(p)
  PROVE  AccountsInv'
<1> DEFINE us == DOMAIN password
<1> DEFINE g == page[p]
<1>1. /\ g \in PagesOf(us) /\ us \subseteq Users /\ g \in PageRecord
      /\ g.fetch \in FetchRecord /\ page \in [Pages -> PagesOf(us)]
      /\ UNCHANGED <<users, keys>>
  BY DEF AccountsInv, Types, PagesOf, PageRecord, TakeList
<1>2. NoFetch \in FetchRecord /\ NoFetch.owner = Nobody /\ NoFetch.stage = "none"
  BY DEF NoFetch, FetchRecord
<1>3. CASE g.fetch.stage = "read"
  <2> DEFINE l == [owner |-> g.fetch.owner, rows |-> g.fetch.rows, invalid |-> FALSE]
  <2> DEFINE h == [g EXCEPT !.fetch = NoFetch]
  <2>1. h \in PagesOf(us)
    BY <1>1, <1>2, FetchPage
  <2>2. l \in ListRecord /\ l.owner \in us
    BY <1>1, <1>3 DEF PagesOf, ListRecord, FetchRecord
  <2>3. [h EXCEPT !.list = l] \in PagesOf(us)
    <3> HIDE DEF h, l
    <3> QED
      BY <1>1, <2>1, <2>2, ListPage
  <2>4. page' = [page EXCEPT ![p] = [h EXCEPT !.list = l]] /\ UNCHANGED call
    BY <1>1, <1>3 DEF TakeList
  <2> QED
    BY <1>1, <2>3, <2>4, PageKeeps
<1>4. CASE g.fetch.stage = "denied"
  BY <1>1, <1>4, DeniedKeeps DEF TakeList
<1>5. CASE g.fetch.stage = "lost"
  <2> DEFINE f == IF g.fetch.retried THEN NoFetch ELSE [Fetch(g) EXCEPT !.retried = TRUE]
  <2>1. Fetch(g) \in FetchRecord /\ Fetch(g).owner \in us \cup {Nobody} /\ Fetch(g).stage = "sent"
    BY <1>1, FetchType
  <2>2. f \in FetchRecord /\ f.owner \in us \cup {Nobody} /\ f.stage # "read"
    BY <1>2, <2>1 DEF FetchRecord
  <2>3. page' = [page EXCEPT ![p] = [g EXCEPT !.fetch = f]] /\ UNCHANGED call
    BY <1>1, <1>5 DEF TakeList
  <2> HIDE DEF f
  <2>4. [g EXCEPT !.fetch = f] \in PagesOf(us)
    BY <1>1, <2>2, FetchPage
  <2> QED
    BY <1>1, <2>3, <2>4, PageKeeps
<1>6. g.fetch.stage \in {"read", "denied", "lost"}
  BY DEF TakeList
<1> QED
  BY <1>3, <1>4, <1>5, <1>6

LEMMA VisitKeeps ==
  ASSUME AccountsInv, NEW p \in Pages, NEW aged \in BOOLEAN, Visit(p, aged)
  PROVE  AccountsInv'
<1> DEFINE us == DOMAIN password
<1> DEFINE g == page[p]
<1> DEFINE stale == g.list.rows = Unloaded \/ g.list.invalid \/ aged
<1> DEFINE f == IF stale /\ g.fetch.stage = "none" THEN Fetch(g) ELSE g.fetch
<1> DEFINE h == [g EXCEPT !.at = "settings"]
<1>1. /\ g \in PagesOf(us) /\ us \subseteq Users /\ g \in PageRecord /\ g.auth = "in"
      /\ g.fetch \in FetchRecord /\ page \in [Pages -> PagesOf(us)]
      /\ UNCHANGED <<users, keys, call>>
  BY DEF AccountsInv, Types, PagesOf, PageRecord, Visit
<1>2. h \in PageRecord
  BY <1>1 DEF PageRecord
<1>3. h \in PagesOf(us)
  BY <1>1, <1>2 DEF PagesOf, PageRecord
<1>4. /\ f \in FetchRecord /\ f.owner \in us \cup {Nobody}
      /\ f.stage = "read" => f.owner # Nobody
  <2>1. Fetch(g) \in FetchRecord /\ Fetch(g).owner \in us \cup {Nobody} /\ Fetch(g).stage = "sent"
    BY <1>1, FetchType
  <2> QED
    BY <1>1, <2>1 DEF PagesOf
<1>5. page' = [page EXCEPT ![p] = [h EXCEPT !.fetch = f]]
  BY <1>1 DEF Visit, PageRecord
<1> HIDE DEF f, h
<1>6. [h EXCEPT !.fetch = f] \in PagesOf(us)
  BY <1>1, <1>3, <1>4, FetchPage
<1> QED
  BY <1>1, <1>5, <1>6, PageKeeps

LEMMA LeaveKeeps ==
  ASSUME AccountsInv, NEW p \in Pages, Leave(p)
  PROVE  AccountsInv'
<1> DEFINE us == DOMAIN password
<1> DEFINE h == [page[p] EXCEPT !.at = "home"]
<1>1. /\ page[p] \in PagesOf(us) /\ page[p] \in PageRecord /\ page[p].at = "settings"
      /\ page' = [page EXCEPT ![p] = h] /\ UNCHANGED <<users, keys, call>>
  BY DEF AccountsInv, Types, PagesOf, PageRecord, Leave
<1>2. h \in PageRecord
  BY <1>1 DEF PageRecord
<1>3. h \in PagesOf(us)
  BY <1>1, <1>2 DEF PagesOf, PageRecord
<1> QED
  BY <1>1, <1>3, PageKeeps

LEMMA LogoutKeeps ==
  ASSUME AccountsInv, NEW p \in Pages, Logout(p)
  PROVE  AccountsInv'
<1> DEFINE us == DOMAIN password
<1> DEFINE g == [Guest EXCEPT !.list = page[p].list]
<1> DEFINE h == [g EXCEPT !.fetch = page[p].fetch]
<1>1. /\ page[p] \in PagesOf(us) /\ us \subseteq Users
      /\ page[p].list \in ListRecord /\ page[p].fetch \in FetchRecord
      /\ UNCHANGED <<users, keys, call>>
  BY DEF AccountsInv, Types, PagesOf, PageRecord, Logout
<1>2. page' = [page EXCEPT ![p] = h]
  BY DEF Logout
<1>3. g \in PagesOf(us)
  BY <1>1, GuestPage, ListPage DEF PagesOf
<1> HIDE DEF g
<1>4. h \in PagesOf(us)
  BY <1>1, <1>3, FetchPage DEF PagesOf
<1> QED
  BY <1>1, <1>2, <1>4, PageKeeps

LEMMA ExpelKeeps ==
  ASSUME AccountsInv, NEW p \in Pages, Expel(p)
  PROVE  AccountsInv'
  BY DeniedKeeps DEF Expel

\* What is left of a call that is over.
Done(c, shown) ==
  IF c.status \in {200, 201} THEN [c EXCEPT !.stage = "over", !.settled = shown]
  ELSE [Idle EXCEPT !.stage = "over"]

LEMMA DoneCall ==
  ASSUME NEW us, NEW c, NEW shown, c \in CallsOf(us), shown \in BOOLEAN,
         c.stage = "answered", Seen(c), Later(c)
  PROVE  LET d == Done(c, shown)
         IN  d \in CallsOf(us) /\ d.stage = "over" /\ Seen(d) /\ Later(d)
<1> DEFINE d == Done(c, shown)
<1>1. c \in CallsOf(us) /\ c \in CallRecord
  BY DEF CallsOf
<1>2. CASE c.status \in {200, 201}
  <2>1. /\ d \in CallRecord
        /\ d.stage = "over" /\ d.kind = c.kind /\ d.account = c.account /\ d.old = c.old
        /\ d.new = c.new /\ d.status = c.status /\ d.valid = c.valid /\ d.before = c.before
    <3> DEFINE e == [c EXCEPT !.stage = "over", !.settled = shown]
    <3>1. d = e
      BY <1>2 DEF Done
    <3>2. /\ e \in CallRecord
          /\ e.stage = "over" /\ e.kind = c.kind /\ e.account = c.account /\ e.old = c.old
          /\ e.new = c.new /\ e.status = c.status /\ e.valid = c.valid /\ e.before = c.before
      BY <1>1 DEF CallRecord
    <3> HIDE DEF d, e
    <3> QED
      BY <3>1, <3>2
  <2> HIDE DEF d
  <2>2. d \in CallsOf(us)
    BY <1>1, <2>1 DEF CallsOf
  <2>3. Seen(d) /\ Later(d)
    BY <1>1, <2>1 DEF Seen, WillRead, Later
  <2> QED
    BY <2>1, <2>2, <2>3 DEF d
<1>3. CASE c.status \notin {200, 201}
  <2>1. d = [Idle EXCEPT !.stage = "over"]
    BY <1>3 DEF Done
  <2>2. Idle \in CallRecord /\ Idle.kind = "none" /\ Idle.before = {0}
    BY IdleCall DEF CallsOf, Idle
  <2>3. d \in CallRecord /\ d.stage = "over" /\ d.kind = "none" /\ d.before = {0}
    BY <2>1, <2>2 DEF CallRecord
  <2> HIDE DEF d
  <2>4. d \in CallsOf(us) /\ Seen(d) /\ Later(d)
    BY <2>3 DEF CallsOf, Seen, WillRead, Later
  <2> QED
    BY <2>3, <2>4 DEF d
<1> QED
  BY <1>2, <1>3

Given(n, old, new) == [n EXCEPT !.old = old, !.new = new, !.retried = TRUE]

LEMMA GivenCall ==
  ASSUME NEW n, NEW old, NEW new, n \in CallRecord,
         old \in Passwords \cup {Nobody}, new \in Passwords \cup {Nobody}
  PROVE  LET d == Given(n, old, new)
         IN  /\ d \in CallRecord /\ d.new = new
             /\ d.kind = n.kind /\ d.stage = n.stage /\ d.account = n.account
             /\ d.status = n.status /\ d.valid = n.valid /\ d.before = n.before
  BY DEF CallRecord, Given

\* A refused call once more: a login goes on as it was, another call begins anew.
LEMMA ResentCall ==
  ASSUME AccountsInv, NEW r \in Calls, NEW u \in DOMAIN password, call[r].stage = "answered",
         call[r].status = 401, call[r].page \in Pages
  PROVE  LET d == Resent(call[r], u)
         IN  d \in CallsOf(DOMAIN password) /\ Seen(d) /\ Later(d)
<1> DEFINE c == call[r]
<1>1. /\ c \in CallsOf(DOMAIN password) /\ c \in CallRecord /\ Seen(c) /\ Later(c)
      /\ Types /\ u \in Users
  BY DEF AccountsInv, Types, CallsOf
<1>2. CASE c.kind = "login"
  <2> DEFINE d == [c EXCEPT !.stage = "sent", !.retried = TRUE]
  <2>1. /\ d \in CallRecord
        /\ d.stage = "sent" /\ d.kind = "login" /\ d.account = c.account
        /\ d.status = 401 /\ d.valid = c.valid /\ d.before = c.before
    BY <1>1, <1>2 DEF CallRecord
  <2>2. d = Resent(c, u)
    BY <1>2 DEF Resent
  <2> HIDE DEF d
  <2>3. d \in CallsOf(DOMAIN password)
    BY <1>1, <1>2, <2>1 DEF CallsOf
  <2>4. Seen(d) /\ Later(d)
    BY <1>1, <1>2, <2>1 DEF Seen, WillRead, Later
  <2> QED
    BY <2>2, <2>3, <2>4
<1>3. CASE c.kind # "login"
  <2> DEFINE n == New(c.kind, c.page, u)
  <2> DEFINE d == Given(n, c.old, c.new)
  <2>1. /\ c.kind \in Kinds \cup {"none"} /\ c.page \in Pages
        /\ c.old \in Passwords \cup {Nobody} /\ c.new \in Passwords \cup {Nobody}
        /\ c.kind \in {"register", "password"} => c.new \in Passwords
    BY <1>1 DEF CallsOf, CallRecord
  <2>2. d = Resent(c, u)
    BY <1>3 DEF Resent, Given
  <2> HIDE DEF c
  <2>3. /\ n \in CallRecord
        /\ n.kind = c.kind /\ n.stage = "sent" /\ n.account = u /\ n.status = 0
        /\ n.valid = Current(u) /\ n.before = {0} \cup Changes(u)
    BY <1>1, <2>1, NewCall
  <2> HIDE DEF n
  <2>4. /\ d \in CallRecord /\ d.new = c.new
        /\ d.kind = n.kind /\ d.stage = n.stage /\ d.account = n.account
        /\ d.status = n.status /\ d.valid = n.valid /\ d.before = n.before
    BY <2>1, <2>3, GivenCall
  <2> HIDE DEF d
  <2>5. Fresh(d)
    <3>1. /\ c.kind \notin {"register", "login"} => u \in DOMAIN password
          /\ d.kind = c.kind /\ d.stage = "sent" /\ d.account = u /\ d.status = 0
          /\ d.valid = Current(u) /\ d.before = {0} \cup Changes(u)
      BY <2>3, <2>4
    <3> QED
      BY <1>1, <2>1, <2>4, <3>1, SentCall
  <2> QED
    BY <2>2, <2>5, FreshCall DEF Fresh, c
<1> QED
  BY <1>2, <1>3

LEMMA TakeKeeps ==
  ASSUME AccountsInv, NEW r \in Calls, Take(r)
  PROVE  AccountsInv'
<1> DEFINE us == DOMAIN password
<1> DEFINE c == call[r]
<1> DEFINE p == c.page
<1> DEFINE good == c.status \in {200, 201}
<1> DEFINE shown == p # Nobody /\ page[p].at = "settings" /\ page[p].list.rows # Unloaded
<1> DEFINE done == [call EXCEPT ![r] = Done(c, shown)]
<1>1. /\ call \in [Calls -> CallsOf(us)] /\ page \in [Pages -> PagesOf(us)]
      /\ us \subseteq Users /\ \A q \in Calls : Seen(call[q]) /\ Later(call[q])
      /\ c.stage = "answered" /\ UNCHANGED <<users, keys>>
  BY DEF AccountsInv, Types, Take, IsAnswered
<1>2. p \in Pages \cup {Nobody}
  BY <1>1 DEF CallsOf, CallRecord
<1>3. Done(c, shown) \in CallsOf(us) /\ Done(c, shown).stage = "over"
        /\ Seen(Done(c, shown)) /\ Later(Done(c, shown))
  <2>1. c \in CallsOf(us) /\ Seen(c) /\ Later(c) /\ shown \in BOOLEAN
    BY <1>1
  <2> HIDE DEF shown, c
  <2> QED
    BY <1>1, <2>1, DoneCall
<1>4. /\ done \in [Calls -> CallsOf(us)]
      /\ \A q \in Calls : /\ call[q].stage = "over" => done[q].stage = "over"
                          /\ Seen(done[q]) /\ Later(done[q])
  <2> HIDE DEF shown
  <2> QED
    BY <1>1, <1>3
<1>5. \/ call' = done /\ UNCHANGED page
      \/ p \in Pages /\ Unrefreshed(p, done)
      \/ /\ p \in Pages /\ c.status = 401 /\ page[p].cookie # Nobody
         /\ page' = [page EXCEPT ![p] = SignedIn(page[p], page[p].cookie)]
         /\ call' = [call EXCEPT ![r] = Resent(c, page[p].cookie)]
      \/ /\ p \in Pages /\ good
         /\ page' = [page EXCEPT ![p] = Heeded(page[p], c)]
         /\ call' = done
  BY <1>1, <1>2 DEF Take, Done
<1>6. CASE call' = done /\ UNCHANGED page
  BY <1>1, <1>4, <1>6, CallsKeep
<1>7. CASE p \in Pages /\ Unrefreshed(p, done)
  <2> HIDE DEF done
  <2> QED
    BY <1>1, <1>4, <1>7, UnrefreshedKeeps
<1>8. CASE /\ p \in Pages /\ c.status = 401 /\ page[p].cookie # Nobody
           /\ page' = [page EXCEPT ![p] = SignedIn(page[p], page[p].cookie)]
           /\ call' = [call EXCEPT ![r] = Resent(c, page[p].cookie)]
  <2> DEFINE u == page[p].cookie
  <2>1. u \in us /\ page[p] \in PagesOf(us)
    BY <1>1, <1>8 DEF PagesOf
  <2>2. SignedIn(page[p], u) \in PagesOf(us)
    BY <1>1, <2>1, SignedInPage
  <2>3. Resent(c, u) \in CallsOf(us) /\ Seen(Resent(c, u)) /\ Later(Resent(c, u))
    BY <1>1, <1>8, <2>1, ResentCall
  <2>4. page' \in [Pages -> PagesOf(us)]
    BY <1>1, <1>8, <2>2
  <2>5. /\ call' \in [Calls -> CallsOf(us)]
        /\ \A q \in Calls : /\ call[q].stage = "over" => call'[q].stage = "over"
                            /\ Seen(call'[q]) /\ Later(call'[q])
    BY <1>1, <1>8, <2>3
  <2> QED
    BY <1>1, <2>4, <2>5, CallsKeep
<1>9. CASE /\ p \in Pages /\ good
           /\ page' = [page EXCEPT ![p] = Heeded(page[p], c)]
           /\ call' = done
  <2>1. Heeded(page[p], c) \in PagesOf(us)
    BY <1>1, <1>9, HeededPage
  <2>2. page' \in [Pages -> PagesOf(us)]
    BY <1>1, <1>9, <2>1
  <2> HIDE DEF done
  <2> QED
    BY <1>1, <1>4, <1>9, <2>2, CallsKeep
<1> QED
  BY <1>5, <1>6, <1>7, <1>8, <1>9

-----------------------------------------------------------------------------
LEMMA InitInv == Init => AccountsInv
<1> SUFFICES ASSUME Init PROVE AccountsInv
  OBVIOUS
<1>1. \A r \in Calls : Seen(call[r]) /\ Later(call[r])
  BY DEF Init, Idle, Seen, WillRead, Later
<1> QED
  BY <1>1, InitTypes DEF AccountsInv

LEMMA StepInv == AccountsInv /\ [Next]_vars => AccountsInv'
<1> SUFFICES ASSUME AccountsInv, [Next]_vars PROVE AccountsInv'
  OBVIOUS
<1>1. CASE UNCHANGED vars
  BY <1>1 DEF vars, users, AccountsInv, Types, Seen, WillRead, Later, Over, Current
<1>2. ASSUME NEW r \in Calls, NEW p \in Pages, AskAsGuest(r, p) \/ AskAsUser(r, p)
      PROVE  AccountsInv'
  BY <1>2, AskAsGuestKeeps, AskAsUserKeeps
<1>3. ASSUME NEW r \in Calls, Handle(r) \/ Take(r)
      PROVE  AccountsInv'
  BY <1>3, HandleKeeps, TakeKeeps
<1>4. ASSUME NEW p \in Pages,
             ListKeys(p) \/ TakeList(p) \/ Leave(p) \/ Logout(p) \/ Expel(p)
      PROVE  AccountsInv'
  BY <1>4, ListKeysKeeps, TakeListKeeps, LeaveKeeps, LogoutKeeps, ExpelKeeps
<1>5. ASSUME NEW p \in Pages, NEW aged \in BOOLEAN, Visit(p, aged)
      PROVE  AccountsInv'
  BY <1>5, VisitKeeps
<1>6. CASE Crash
  BY <1>6, CrashKeeps
<1> QED
  BY <1>1, <1>2, <1>3, <1>4, <1>5, <1>6 DEF Next

\* In every state that the handlers and pages reach, AccountsInv holds.
THEOREM Invariant == Spec => []AccountsInv
  BY InitInv, StepInv, PTL DEF Spec

\* Every account has a password that passed the length test, keys belong to accounts
\* that exist, and a page has an account exactly while its store is signed in,
\* whatever answer or 401 came in between (authStore.js, axios.js).
THEOREM TypeCorrect == Spec => []TypeOK
<1>1. AccountsInv => TypeOK
  <2> SUFFICES ASSUME AccountsInv PROVE TypeOK
    OBVIOUS
  <2>1. \A p \in Pages :
          /\ page[p].auth = "in" <=> page[p].account # Nobody
          /\ page[p].auth = "out" => page[p].at = "guest" /\ page[p].cookie = Nobody
          /\ page[p].list.rows # Unloaded => page[p].list.owner \in DOMAIN password
          /\ page[p].fetch.stage \in {"none", "sent", "read", "denied", "lost"}
    BY DEF AccountsInv, Types, PagesOf, PageRecord, FetchRecord
  <2> QED
    BY <2>1 DEF AccountsInv, Types, TypeOK
<1> QED
  BY <1>1, Invariant, PTL

\* Whoever login or the change of a password let through gave a password which the
\* account had while the call was under way (authController.js 125, accountApi.js 61).
THEOREM PasswordIsCurrent == Spec => []CurrentPassword
<1>1. AccountsInv => CurrentPassword
  BY DEF AccountsInv, Seen, CurrentPassword, Accepted
<1> QED
  BY <1>1, Invariant, PTL

\* A change of the password that was answered with success stays in force unless a
\* change that was not answered when it was sent overwrites it (accountApi.js 72).
THEOREM ChangesAreKept == Spec => []ChangesStand
<1>1. AccountsInv => ChangesStand
  BY DEF AccountsInv, Later, ChangesStand, Accepted, At
<1> QED
  BY <1>1, Invariant, PTL

-----------------------------------------------------------------------------
(* What OwnWritesShown needs.                                              *)

Good(c) == c.status \in {200, 201}

\* A call that does not create a key any more: it has, or it is over.
Spent(c) ==
  \/ c.stage = "over"
  \/ c.stage = "answered" /\ c.kind = "create" /\ c.status \in {0, 201}

\* A key was created by the call it is named after, for its account.
KeysMade ==
  \A row \in keys :
    LET c == call[row.id]
    IN  Spent(c) /\ (c.kind = "create" => c.account = row.owner)

\* A call that has deleted a key: the key is gone and is not created again.
Deletes(c) == c.stage \in {"answered", "over"} /\ c.kind = "delete" /\ Good(c)

KeysGone ==
  \A r \in Calls : Deletes(call[r]) =>
    /\ call[r].key \in Calls /\ Spent(call[call[r].key])
    /\ \A row \in keys : row.id = call[r].key => row.owner # call[r].account

SettledOver == \A r \in Calls : call[r].settled => call[r].stage = "over" /\ Good(call[r])

\* The rows that were listed for u tell page p of its own writes.
Tells(p, rows, u) ==
  \A r \in Calls : call[r].settled /\ call[r].page = p /\ call[r].account = u =>
    /\ call[r].kind = "create" => r \in rows \/ \A row \in keys : row.id # r
    /\ call[r].kind = "delete" => call[r].key \notin rows

\* So does a list that is not marked invalid, and what has been read to replace it.
PageTells(p) ==
  /\ ~page[p].list.invalid => Tells(p, page[p].list.rows, page[p].list.owner)
  /\ page[p].fetch.stage = "read" => Tells(p, page[p].fetch.rows, page[p].fetch.owner)

WritesInv == KeysMade /\ KeysGone /\ SettledOver /\ \A p \in Pages : PageTells(p)

\* What most steps do to a call: they create and delete no key, and settle nothing
\* that page p has to be told of.
Tame(c, d) ==
  /\ Spent(c) => Spent(d)
  /\ Spent(c) /\ d.kind = "create" => c.kind = "create" /\ d.account = c.account
  /\ Deletes(d) => Deletes(c) /\ d.key = c.key /\ d.account = c.account
  /\ d.settled => d.stage = "over" /\ Good(d)

Kept(c, d, p) ==
  d.settled /\ d.page = p /\ d.kind \in {"create", "delete"} =>
    c.settled /\ c.page = p /\ c.kind = d.kind /\ c.account = d.account /\ c.key = d.key

LEMMA InitWrites == Init => WritesInv
<1> SUFFICES ASSUME Init PROVE WritesInv
  OBVIOUS
<1>1. keys = {} /\ \A r \in Calls : call[r].stage = "idle" /\ ~call[r].settled
  BY DEF Init, Idle
<1> QED
  BY <1>1 DEF WritesInv, KeysMade, KeysGone, Deletes, SettledOver, PageTells, Tells

LEMMA WritesKeep ==
  ASSUME Types, WritesInv, keys' \subseteq keys,
         \A q \in Calls : Tame(call[q], call'[q]),
         \A p \in Pages : PageTells(p)'
  PROVE  WritesInv'
<1>1. /\ KeysMade /\ KeysGone /\ SettledOver
      /\ \A row \in keys : row.id \in Calls
  BY DEF WritesInv, Types
<1>2. KeysMade'
  BY <1>1 DEF KeysMade, Tame
<1>3. KeysGone'
  <2> SUFFICES ASSUME NEW r \in Calls, Deletes(call'[r])
               PROVE  /\ call'[r].key \in Calls /\ Spent(call'[call'[r].key])
                      /\ \A row \in keys' : row.id = call'[r].key => row.owner # call'[r].account
    BY DEF KeysGone
  <2>1. Deletes(call[r]) /\ call'[r].key = call[r].key /\ call'[r].account = call[r].account
    BY DEF Tame
  <2> QED
    BY <2>1, <1>1 DEF KeysGone, Tame
<1>4. SettledOver'
  BY DEF SettledOver, Tame
<1> QED
  BY <1>2, <1>3, <1>4 DEF WritesInv

LEMMA TellsKeep ==
  ASSUME keys' \subseteq keys, NEW p, NEW rows, NEW u, Tells(p, rows, u),
         \A q \in Calls : Kept(call[q], call'[q], p)
  PROVE  Tells(p, rows, u)'
  BY DEF Tells, Kept

\* A page that keeps what it has, puts up what it has read, or forgets it.
LEMMA PageKept ==
  ASSUME keys' \subseteq keys, NEW p \in Pages, PageTells(p),
         \A q \in Calls : Kept(call[q], call'[q], p),
         ~page'[p].list.invalid =>
            \/ ~page[p].list.invalid /\ page'[p].list = page[p].list
            \/ /\ page[p].fetch.stage = "read"
               /\ page'[p].list.rows = page[p].fetch.rows
               /\ page'[p].list.owner = page[p].fetch.owner,
         page'[p].fetch.stage = "read" => page'[p].fetch = page[p].fetch
  PROVE  PageTells(p)'
<1>1. ASSUME ~page'[p].list.invalid
      PROVE  Tells(p, page[p].list.rows, page[p].list.owner)'
  <2> PICK rows, u : rows = page'[p].list.rows /\ u = page'[p].list.owner
    OBVIOUS
  <2>1. Tells(p, rows, u)
    BY <1>1 DEF PageTells
  <2>2. Tells(p, rows, u)'
    BY <2>1, TellsKeep
  <2> QED
    BY <2>2 DEF Tells
<1>2. ASSUME page'[p].fetch.stage = "read"
      PROVE  Tells(p, page[p].fetch.rows, page[p].fetch.owner)'
  <2> PICK rows, u : rows = page'[p].fetch.rows /\ u = page'[p].fetch.owner
    OBVIOUS
  <2>1. Tells(p, rows, u)
    BY <1>2 DEF PageTells
  <2>2. Tells(p, rows, u)'
    BY <2>1, TellsKeep
  <2> QED
    BY <2>2 DEF Tells
<1> QED
  BY <1>1, <1>2 DEF PageTells

LEMMA NobodyTold ==
  ASSUME NEW p, \A q \in Calls : call'[q].page # p
  PROVE  PageTells(p)'
  BY DEF PageTells, Tells

LEMMA TameSame ==
  ASSUME SettledOver, NEW r \in Calls, NEW d,
         d.stage = call[r].stage, d.kind = call[r].kind, d.page = call[r].page,
         d.account = call[r].account, d.key = call[r].key, d.status = call[r].status,
         d.settled = call[r].settled
  PROVE  Tame(call[r], d) /\ \A p : Kept(call[r], d, p)
  BY DEF SettledOver, Tame, Kept, Spent, Deletes, Good

\* A call that is sent, or goes on, is settled later.
LEMMA TameOnward ==
  ASSUME NEW c, NEW d, c.stage \notin {"answered", "over"}, ~d.settled,
         d.kind # "delete" \/ d.stage \notin {"answered", "over"}
  PROVE  Tame(c, d) /\ \A p : Kept(c, d, p)
  BY DEF Tame, Kept, Spent, Deletes

\* A step of calls that the pages do not see.
LEMMA CallsWrites ==
  ASSUME Types, WritesInv, keys' \subseteq keys, page' = page,
         \A q \in Calls : Tame(call[q], call'[q]) /\ \A p \in Pages : Kept(call[q], call'[q], p)
  PROVE  WritesInv'
<1>1. ASSUME NEW p \in Pages PROVE PageTells(p)'
  BY PageKept DEF WritesInv
<1> QED
  BY <1>1, WritesKeep

\* A step of one page that calls do not see.
LEMMA PageWrites ==
  ASSUME Types, WritesInv, UNCHANGED <<keys, call>>, NEW p \in Pages, NEW g,
         page' = [page EXCEPT ![p] = g],
         ~g.list.invalid =>
            \/ ~page[p].list.invalid /\ g.list = page[p].list
            \/ /\ page[p].fetch.stage = "read"
               /\ g.list.rows = page[p].fetch.rows
               /\ g.list.owner = page[p].fetch.owner,
         g.fetch.stage = "read" => g.fetch = page[p].fetch
  PROVE  WritesInv'
<1>1. \A q \in Calls : Tame(call[q], call'[q]) /\ \A x : Kept(call[q], call'[q], x)
  BY TameSame DEF WritesInv
<1>2. page'[p] = g /\ \A x \in Pages \ {p} : page'[x] = page[x]
  BY DEF Types
<1>3. PageTells(p)'
  BY <1>1, <1>2, PageKept DEF WritesInv
<1>4. ASSUME NEW x \in Pages \ {p} PROVE PageTells(x)'
  BY <1>1, <1>2, PageKept DEF WritesInv
<1> QED
  BY <1>1, <1>3, <1>4, WritesKeep

LEMMA CallWrites ==
  ASSUME Types, WritesInv, keys' \subseteq keys, page' = page, NEW r \in Calls, NEW d,
         call' = [call EXCEPT ![r] = d],
         Tame(call[r], d), \A p : Kept(call[r], d, p)
  PROVE  WritesInv'
<1>1. call'[r] = d /\ \A q \in Calls \ {r} : call'[q] = call[q]
  BY DEF Types
<1>2. \A q \in Calls : Tame(call[q], call'[q]) /\ \A p : Kept(call[q], call'[q], p)
  BY <1>1, TameSame DEF WritesInv
<1> QED
  BY <1>2, CallsWrites

\* A call that is neither answered nor over goes on.
LEMMA OnwardWrites ==
  ASSUME Types, WritesInv, UNCHANGED <<keys, page>>, NEW r \in Calls, NEW d,
         call' = [call EXCEPT ![r] = d],
         call[r].stage \notin {"answered", "over"}, ~d.settled,
         d.kind # "delete" \/ d.stage \notin {"answered", "over"}
  PROVE  WritesInv'
  BY CallWrites, TameOnward

LEMMA AskWrites ==
  ASSUME Types, WritesInv, NEW r \in Calls, NEW p \in Pages, AskAsGuest(r, p) \/ AskAsUser(r, p)
  PROVE  WritesInv'
<1>1. ASSUME NEW kind, NEW u, NEW v, NEW w, NEW k
      PROVE  LET n == New(kind, p, u)
             IN  /\ n.stage = "sent" /\ ~n.settled
                 /\ [n EXCEPT !.new = w].stage = "sent" /\ ~[n EXCEPT !.new = w].settled
                 /\ [n EXCEPT !.old = w].stage = "sent" /\ ~[n EXCEPT !.old = w].settled
                 /\ [n EXCEPT !.key = k].stage = "sent" /\ ~[n EXCEPT !.key = k].settled
                 /\ [n EXCEPT !.old = v, !.new = w].stage = "sent"
                 /\ ~[n EXCEPT !.old = v, !.new = w].settled
  BY DEF New, Idle
<1>2. PICK c : Send(r, c) /\ c.stage = "sent" /\ ~c.settled
  BY <1>1 DEF AskAsGuest, AskAsUser
<1> QED
  BY <1>2, OnwardWrites DEF Send, IsNext

LEMMA MovedRecord ==
  ASSUME NEW c \in CallRecord, NEW stage, NEW status
  PROVE  LET d == Moved(c, stage, status)
         IN  /\ d.stage = stage /\ d.status = status /\ d.kind = c.kind /\ d.page = c.page
             /\ d.account = c.account /\ d.key = c.key /\ d.settled = c.settled
  BY DEF CallRecord, Moved

LEMMA ReplyIs ==
  ASSUME Types, NEW r \in Calls, NEW status, Reply(r, status)
  PROVE  /\ call[r] \in CallRecord
         /\ call' = [call EXCEPT ![r] = Moved(call[r], "answered", status)]
  BY DEF Types, CallsOf, CallRecord, Reply, Moved

LEMMA ReplyWrites ==
  ASSUME Types, WritesInv, UNCHANGED <<keys, page>>, NEW r \in Calls, NEW status,
         Reply(r, status), call[r].stage \notin {"answered", "over"}, call[r].kind # "delete"
  PROVE  WritesInv'
<1> PICK d : d = Moved(call[r], "answered", status)
  OBVIOUS
<1>1. /\ call' = [call EXCEPT ![r] = d] /\ d.kind = call[r].kind /\ d.settled = call[r].settled
  BY ReplyIs, MovedRecord
<1>2. ~call[r].settled
  BY DEF WritesInv, SettledOver
<1> QED
  BY <1>1, <1>2, OnwardWrites

LEMMA RefuseWrites ==
  ASSUME Types, WritesInv, NEW r \in Calls, Refuse(r)
  PROVE  WritesInv'
  BY ReplyWrites DEF Refuse, Refuses, At

LEMMA RenameWrites ==
  ASSUME Types, WritesInv, NEW r \in Calls, Rename(r)
  PROVE  WritesInv'
  BY ReplyWrites DEF Rename, At

LEMMA LookupWrites ==
  ASSUME Types, WritesInv, NEW r \in Calls, Lookup(r)
  PROVE  WritesInv'
<1> DEFINE h == IF call[r].account \in DOMAIN password THEN password[call[r].account]
                ELSE Nobody
           d == [call[r] EXCEPT !.stage = "found", !.hash = h]
<1>1. call[r] \in CallRecord /\ ~call[r].settled
  BY DEF Types, CallsOf, WritesInv, SettledOver, Lookup, At
<1>2. call' = [call EXCEPT ![r] = d]
  BY DEF Types, Lookup
<1>3. d.stage = "found" /\ d.settled = call[r].settled
  BY <1>1 DEF CallRecord
<1> HIDE DEF d
<1> QED
  BY <1>1, <1>2, <1>3, OnwardWrites DEF Lookup, At

LEMMA CompareWrites ==
  ASSUME Types, WritesInv, NEW r \in Calls, Compare(r)
  PROVE  WritesInv'
<1>1. /\ call[r] \in CallRecord /\ call[r].stage = "found" /\ ~call[r].settled
      /\ call[r].kind \in {"login", "password"} /\ UNCHANGED <<keys, page>>
  BY DEF Types, CallsOf, WritesInv, SettledOver, Compare, At
<1>2. CASE Reply(r, 401) \/ Reply(r, 200)
  BY <1>1, <1>2, ReplyWrites
<1>3. CASE call' = [call EXCEPT ![r].stage = "matched", ![r].status = 200]
  <2> PICK d : d = Moved(call[r], "matched", 200)
    OBVIOUS
  <2>1. call' = [call EXCEPT ![r] = d]
    BY <1>3 DEF Types, Moved
  <2>2. d.stage = "matched" /\ d.settled = call[r].settled
    BY <1>1, MovedRecord
  <2> QED
    BY <1>1, <2>1, <2>2, OnwardWrites
<1> QED
  BY <1>2, <1>3 DEF Compare

\* A statement that sets a password is heard by other calls, and alters nothing else
\* of them.
LEMMA HeardWrites ==
  ASSUME Types, WritesInv, UNCHANGED <<keys, page>>, NEW r \in Calls, NEW d, NEW u, NEW w,
         call[r].stage \notin {"answered", "over"}, ~d.settled, d.kind # "delete",
         call' = [q \in Calls |-> IF q = r THEN d ELSE Hears(call[q], u, w)]
  PROVE  WritesInv'
<1>1. ASSUME NEW q \in Calls, q # r
      PROVE  /\ call'[q].stage = call[q].stage /\ call'[q].kind = call[q].kind
             /\ call'[q].page = call[q].page /\ call'[q].account = call[q].account
             /\ call'[q].key = call[q].key /\ call'[q].status = call[q].status
             /\ call'[q].settled = call[q].settled
  BY <1>1 DEF Types, CallsOf, CallRecord, Hears
<1>2. ASSUME NEW q \in Calls
      PROVE  Tame(call[q], call'[q]) /\ \A p \in Pages : Kept(call[q], call'[q], p)
  <2>1. CASE q = r
    BY <2>1, TameOnward
  <2>2. CASE q # r
    <3> PICK e : e = call'[q]
      OBVIOUS
    <3>1. Tame(call[q], e) /\ \A p : Kept(call[q], e, p)
      BY <1>1, <2>2, TameSame DEF WritesInv
    <3> QED
      BY <3>1
  <2> QED
    BY <2>1, <2>2
<1> QED
  BY <1>2, CallsWrites

LEMMA RegisterWrites ==
  ASSUME Types, WritesInv, NEW r \in Calls, Register(r)
  PROVE  WritesInv'
<1> PICK u, w, d : /\ u = call[r].account /\ w = call[r].new
                   /\ d = Moved(call[r], "answered", 201)
  OBVIOUS
<1>1. /\ call[r] \in CallRecord /\ call[r].stage = "sent" /\ call[r].kind = "register"
      /\ ~call[r].settled /\ UNCHANGED <<keys, page>>
  BY DEF Types, CallsOf, WritesInv, SettledOver, Register, At
<1>2. CASE u \in DOMAIN password
  <2>1. Reply(r, 409)
    BY <1>2 DEF Register
  <2> QED
    BY <1>1, <2>1, ReplyWrites
<1>3. CASE u \notin DOMAIN password
  <2>1. call' = [q \in Calls |-> IF q = r THEN d ELSE Hears(call[q], u, w)]
    BY <1>3 DEF Register, UnderWay, Hears, Moved
  <2>2. d.kind = "register" /\ ~d.settled
    BY <1>1, MovedRecord
  <2> QED
    BY <1>1, <2>1, <2>2, HeardWrites
<1> QED
  BY <1>2, <1>3

LEMMA UpdateWrites ==
  ASSUME Types, WritesInv, NEW r \in Calls, Update(r)
  PROVE  WritesInv'
<1> PICK u, w, d : /\ u = call[r].account /\ w = call[r].new
                   /\ d = Moved(call[r], "answered", call[r].status)
  OBVIOUS
<1>1. /\ call[r] \in CallRecord /\ call[r].stage = "matched" /\ call[r].kind = "password"
      /\ ~call[r].settled /\ UNCHANGED <<keys, page>>
  BY DEF Types, CallsOf, WritesInv, SettledOver, Update, At
<1>2. d = [call[r] EXCEPT !.stage = "answered"]
  BY <1>1 DEF Moved, CallRecord
<1>3. call' = [q \in Calls |-> IF q = r THEN d ELSE Hears(call[q], u, w)]
  BY <1>2 DEF Update, UnderWay, Hears
<1>4. d.kind = "password" /\ ~d.settled
  BY <1>1, MovedRecord
<1> QED
  BY <1>1, <1>3, <1>4, HeardWrites

\* A key is added for the call that creates it: nothing that was settled, and no
\* key that was deleted, is named so.
LEMMA CreateKeyWrites ==
  ASSUME Types, WritesInv, NEW r \in Calls, CreateKey(r)
  PROVE  WritesInv'
<1> PICK d : d = Moved(call[r], "answered", 201)
  OBVIOUS
<1>1. /\ call[r] \in CallRecord /\ call[r].stage = "sent" /\ call[r].kind = "create"
      /\ ~call[r].settled /\ ~Spent(call[r]) /\ page' = page
      /\ keys' = keys \cup {[id |-> r, owner |-> call[r].account]}
  BY DEF Types, CallsOf, WritesInv, SettledOver, CreateKey, At, Spent
<1>2. call' = [call EXCEPT ![r] = d]
  BY ReplyIs DEF CreateKey
<1>3. /\ d.stage = "answered" /\ d.status = 201 /\ d.kind = "create"
      /\ d.account = call[r].account /\ ~d.settled
  BY <1>1, MovedRecord
<1>4. call'[r] = d /\ \A q \in Calls \ {r} : call'[q] = call[q]
  BY <1>2 DEF Types
<1>5. \A row \in keys : row.id \in Calls
  BY DEF Types
<1>6. KeysMade'
  <2> SUFFICES ASSUME NEW row \in keys'
               PROVE  /\ Spent(call'[row.id])
                      /\ call'[row.id].kind = "create" => call'[row.id].account = row.owner
    BY DEF KeysMade
  <2>1. CASE row \in keys
    <3>1. /\ Spent(call[row.id]) /\ row.id \in Calls
          /\ call[row.id].kind = "create" => call[row.id].account = row.owner
      BY <1>5, <2>1 DEF WritesInv, KeysMade
    <3>2. row.id # r
      BY <1>1, <3>1
    <3> QED
      BY <1>4, <3>1, <3>2
  <2>2. CASE row = [id |-> r, owner |-> call[r].account]
    BY <1>3, <1>4, <2>2 DEF Spent
  <2> QED
    BY <1>1, <2>1, <2>2
<1>7. KeysGone'
  <2> SUFFICES ASSUME NEW q \in Calls, Deletes(call'[q])
               PROVE  /\ call'[q].key \in Calls /\ Spent(call'[call'[q].key])
                      /\ \A row \in keys' : row.id = call'[q].key => row.owner # call'[q].account
    BY DEF KeysGone
  <2>1. q # r /\ call'[q] = call[q]
    BY <1>3, <1>4 DEF Deletes
  <2>2. /\ call[q].key \in Calls /\ Spent(call[call[q].key])
        /\ \A row \in keys : row.id = call[q].key => row.owner # call[q].account
    BY <2>1 DEF WritesInv, KeysGone
  <2>3. call[q].key # r
    BY <1>1, <2>2
  <2> QED
    BY <1>1, <1>4, <2>1, <2>2, <2>3
<1>8. SettledOver'
  BY <1>3, <1>4 DEF WritesInv, SettledOver
<1>9. ASSUME NEW p, NEW rows, NEW u, Tells(p, rows, u)
      PROVE  Tells(p, rows, u)'
  BY <1>1, <1>3, <1>4, <1>9 DEF Tells
<1>10. ASSUME NEW p \in Pages PROVE PageTells(p)'
  BY <1>1, <1>9 DEF WritesInv, PageTells
<1> QED
  BY <1>6, <1>7, <1>8, <1>10 DEF WritesInv

\* A key that is deleted was created long ago.
LEMMA DeleteKeyWrites ==
  ASSUME Types, WritesInv, NEW r \in Calls, DeleteKey(r)
  PROVE  WritesInv'
<1> PICK row : row = [id |-> call[r].key, owner |-> call[r].account]
  OBVIOUS
<1>1. /\ call[r] \in CallRecord /\ call[r].stage = "sent" /\ call[r].kind = "delete"
      /\ ~call[r].settled /\ ~Spent(call[r]) /\ page' = page /\ keys' = keys \ {row}
      /\ Reply(r, IF row \in keys THEN 200 ELSE 404)
  BY DEF Types, CallsOf, WritesInv, SettledOver, DeleteKey, At, Spent
<1> PICK status : status = IF row \in keys THEN 200 ELSE 404
  OBVIOUS
<1> PICK d : d = Moved(call[r], "answered", status)
  OBVIOUS
<1>2. call' = [call EXCEPT ![r] = d]
  BY <1>1, ReplyIs
<1>3. /\ d.stage = "answered" /\ d.status = status /\ d.kind = "delete" /\ d.key = call[r].key
      /\ d.account = call[r].account /\ ~d.settled
  BY <1>1, MovedRecord
<1>4. call'[r] = d /\ \A q \in Calls \ {r} : call'[q] = call[q]
  BY <1>2 DEF Types
<1>5. CASE row \notin keys
  <2>1. ~Good(d)
    BY <1>3, <1>5 DEF Good
  <2>2. Tame(call[r], d) /\ \A p : Kept(call[r], d, p)
    BY <1>1, <1>3, <2>1 DEF Tame, Kept, Deletes
  <2> QED
    BY <1>1, <1>2, <2>2, CallWrites
<1>6. CASE row \in keys
  <2>1. /\ \A k \in keys : /\ k.id \in Calls /\ k.id # r /\ Spent(call[k.id])
                           /\ call[k.id].kind = "create" => call[k.id].account = k.owner
                           /\ k = [id |-> k.id, owner |-> k.owner]
        /\ row.id = call[r].key /\ row.owner = call[r].account
    BY <1>1 DEF Types, WritesInv, KeysMade
  <2>2. KeysMade'
    BY <1>1, <1>4, <2>1 DEF KeysMade
  <2>3. KeysGone'
    <3> SUFFICES ASSUME NEW q \in Calls, Deletes(call'[q])
                 PROVE  /\ call'[q].key \in Calls /\ Spent(call'[call'[q].key])
                        /\ \A k \in keys' : k.id = call'[q].key => k.owner # call'[q].account
      BY DEF KeysGone
    <3>1. CASE q = r
      <4>1. /\ call'[q].key = row.id /\ call'[q].account = row.owner
            /\ row.id \in Calls /\ row.id # r /\ Spent(call[row.id])
        BY <1>3, <1>4, <1>6, <2>1, <3>1
      <4>2. \A k \in keys' : k.id = row.id => k.owner # row.owner
        BY <1>1, <1>6, <2>1
      <4> QED
        BY <1>4, <4>1, <4>2
    <3>2. CASE q # r
      <4>1. /\ call'[q] = call[q] /\ call[q].key \in Calls /\ Spent(call[call[q].key])
            /\ \A k \in keys : k.id = call[q].key => k.owner # call[q].account
        BY <1>4, <3>2 DEF WritesInv, KeysGone
      <4>2. call[q].key # r
        BY <1>1, <4>1
      <4> QED
        BY <1>1, <1>4, <4>1, <4>2
    <3> QED
      BY <3>1, <3>2
  <2>4. SettledOver'
    BY <1>3, <1>4 DEF WritesInv, SettledOver
  <2>5. ASSUME NEW p, NEW rows, NEW u, Tells(p, rows, u)
        PROVE  Tells(p, rows, u)'
    BY <1>1, <1>3, <1>4, <2>5 DEF Tells
  <2>6. ASSUME NEW p \in Pages PROVE PageTells(p)'
    BY <1>1, <2>5 DEF WritesInv, PageTells
  <2> QED
    BY <2>2, <2>3, <2>4, <2>6 DEF WritesInv
<1> QED
  BY <1>5, <1>6

\* What is read is what the table has: a key of the account which a call of it has
\* created is there, and one that it has deleted is not.
LEMMA ListKeysWrites ==
  ASSUME Types, WritesInv, NEW p \in Pages, ListKeys(p)
  PROVE  WritesInv'
<1> PICK u, rows, stage :
      /\ u = page[p].fetch.owner
      /\ rows = {row.id : row \in {k \in keys : k.owner = u}}
      /\ stage = IF u = Nobody THEN "denied" ELSE "read"
  OBVIOUS
<1>1. page[p] \in PageRecord /\ page[p].fetch \in FetchRecord
  BY DEF Types, PagesOf, PageRecord
<1>2. /\ UNCHANGED <<keys, call>> /\ page'[p].list = page[p].list
      /\ page'[p].fetch.owner = u /\ page'[p].fetch.rows = rows
      /\ \A x \in Pages \ {p} : page'[x] = page[x]
  BY <1>1 DEF ListKeys, Types, PageRecord, FetchRecord
<1>3. \A q \in Calls : Tame(call[q], call'[q]) /\ \A x : Kept(call[q], call'[q], x)
  BY <1>2, TameSame DEF WritesInv
<1>4. Tells(p, rows, u)
  <2> SUFFICES ASSUME NEW r \in Calls, call[r].settled, call[r].account = u
               PROVE  /\ call[r].kind = "create" => r \in rows \/ \A row \in keys : row.id # r
                      /\ call[r].kind = "delete" => call[r].key \notin rows
    BY DEF Tells
  <2>1. call[r].kind = "create" => r \in rows \/ \A row \in keys : row.id # r
    BY DEF WritesInv, KeysMade
  <2>2. call[r].kind = "delete" => call[r].key \notin rows
    BY DEF WritesInv, SettledOver, KeysGone, Deletes
  <2> QED
    BY <2>1, <2>2
<1>5. Tells(p, rows, u)'
  BY <1>2, <1>3, <1>4, TellsKeep
<1>6. ~page[p].list.invalid => Tells(p, page[p].list.rows, page[p].list.owner)'
  <2> PICK l, o : l = page[p].list.rows /\ o = page[p].list.owner
    OBVIOUS
  <2>1. ~page[p].list.invalid => Tells(p, l, o)
    BY DEF WritesInv, PageTells
  <2>2. ~page[p].list.invalid => Tells(p, l, o)'
    BY <1>2, <1>3, <2>1, TellsKeep
  <2> QED
    BY <1>2, <2>2
<1>7. PageTells(p)'
  BY <1>2, <1>5, <1>6 DEF PageTells
<1>8. ASSUME NEW x \in Pages \ {p} PROVE PageTells(x)'
  BY <1>2, <1>3, PageKept DEF WritesInv
<1> QED
  BY <1>2, <1>3, <1>7, <1>8, WritesKeep

LEMMA CrashWrites ==
  ASSUME Types, WritesInv, Crash
  PROVE  WritesInv'
<1>1. ASSUME NEW q \in Calls
      PROVE  Tame(call[q], call'[q]) /\ \A x : Kept(call[q], call'[q], x)
  <2> PICK d : d = Moved(call[q], "answered", 0)
    OBVIOUS
  <2>1. call[q] \in CallRecord
    BY DEF Types, CallsOf
  <2>2. /\ d.stage = "answered" /\ d.status = 0 /\ d.kind = call[q].kind
        /\ d.account = call[q].account /\ d.settled = call[q].settled
    BY <2>1, MovedRecord
  <2>3. CASE q \in UnderWay
    <3>1. call'[q] = d
      BY <2>3 DEF Crash, Moved
    <3>2. ~call[q].settled /\ call[q].stage # "over"
      BY <2>3 DEF WritesInv, SettledOver, UnderWay
    <3>3. Tame(call[q], d) /\ \A x : Kept(call[q], d, x)
      BY <2>2, <3>2 DEF Tame, Kept, Spent, Deletes, Good
    <3> QED
      BY <3>1, <3>3
  <2>4. CASE q \notin UnderWay
    <3>1. call'[q] = call[q]
      BY <2>4 DEF Crash
    <3> QED
      BY <3>1, TameSame DEF WritesInv
  <2> QED
    BY <2>3, <2>4
<1>2. ASSUME NEW p \in Pages PROVE PageTells(p)'
  <2>1. page[p] \in PageRecord /\ page[p].fetch \in FetchRecord
    BY DEF Types, PagesOf, PageRecord
  <2>2. /\ page'[p].list = page[p].list
        /\ page'[p].fetch.stage = "read" => page'[p].fetch = page[p].fetch
    BY <2>1 DEF Crash, PageRecord, FetchRecord
  <2> QED
    BY <1>1, <2>2, PageKept DEF Crash, WritesInv
<1> QED
  BY <1>1, <1>2, WritesKeep DEF Crash

\* The page whose session ends begins anew, and no call is told of there; other
\* pages see nothing of it.
LEMMA UnrefreshedWrites ==
  ASSUME Types, WritesInv, keys' = keys, NEW p \in Pages, NEW over,
         \A q \in Calls : /\ over[q] \in CallRecord /\ Tame(call[q], over[q])
                          /\ \A x : Kept(call[q], over[q], x),
         Unrefreshed(p, over)
  PROVE  WritesInv'
<1>1. ASSUME NEW q \in Calls
      PROVE  /\ call'[q].page = IF over[q].page = p THEN Nobody ELSE over[q].page
             /\ call'[q].stage = over[q].stage /\ call'[q].kind = over[q].kind
             /\ call'[q].account = over[q].account /\ call'[q].key = over[q].key
             /\ call'[q].status = over[q].status /\ call'[q].settled = over[q].settled
  BY DEF Unrefreshed, CallRecord
<1>2. \A q \in Calls : Tame(call[q], call'[q])
  BY <1>1 DEF Tame, Spent, Deletes, Good
<1>3. \A q \in Calls : \A x \in Pages : Kept(call[q], call'[q], x)
  BY <1>1 DEF Kept
<1>4. \A q \in Calls : call'[q].page # p
  BY <1>1
<1>5. PageTells(p)'
  BY <1>4, NobodyTold
<1>6. ASSUME NEW x \in Pages \ {p} PROVE PageTells(x)'
  <2>1. page'[x] = page[x]
    BY DEF Unrefreshed, Types
  <2> QED
    BY <1>3, <2>1, PageKept DEF WritesInv
<1> QED
  BY <1>2, <1>5, <1>6, WritesKeep

LEMMA SignedInKeeps ==
  ASSUME NEW us, NEW g \in PagesOf(us), NEW u
  PROVE  SignedIn(g, u).list = g.list /\ SignedIn(g, u).fetch = g.fetch
  BY DEF PagesOf, PageRecord, SignedIn

LEMMA DeniedWrites ==
  ASSUME Types, WritesInv, keys' = keys, NEW p \in Pages, Denied(p)
  PROVE  WritesInv'
<1> PICK g : g = SignedIn(page[p], page[p].cookie)
  OBVIOUS
<1>1. CASE page[p].cookie = Nobody
  <2>1. Unrefreshed(p, call)
    BY <1>1 DEF Denied
  <2>2. ASSUME NEW q \in Calls
        PROVE  /\ call[q] \in CallRecord /\ Tame(call[q], call[q])
               /\ \A x : Kept(call[q], call[q], x)
    BY TameSame DEF Types, CallsOf, WritesInv
  <2> QED
    BY <2>1, <2>2, UnrefreshedWrites
<1>2. CASE page[p].cookie # Nobody
  <2> DEFINE h == IF g.fetch.stage = "none" THEN g ELSE [g EXCEPT !.fetch = Fetch(g)]
  <2>1. page' = [page EXCEPT ![p] = h] /\ UNCHANGED <<keys, call>>
    BY <1>2 DEF Denied
  <2>2. g.list = page[p].list /\ g.fetch = page[p].fetch
    BY SignedInKeeps DEF Types
  <2>3. [g EXCEPT !.fetch = Fetch(g)].list = g.list
    BY DEF SignedIn, Types, PagesOf, PageRecord
  <2>4. [g EXCEPT !.fetch = Fetch(g)].fetch.stage = "sent"
    BY DEF SignedIn, Types, PagesOf, PageRecord, Fetch, NoFetch
  <2>5. h.list = page[p].list /\ (h = g \/ h.fetch.stage # "read")
    BY <2>2, <2>3, <2>4
  <2> HIDE DEF h
  <2>6. /\ h.list = page[p].list
        /\ h.fetch.stage = "read" => h.fetch = page[p].fetch
    BY <2>2, <2>5
  <2> QED
    BY <2>1, <2>6, PageWrites
<1> QED
  BY <1>1, <1>2

\* The list that has been read is put up; a fetch that was lost begins anew or not.
LEMMA TakeListWrites ==
  ASSUME Types, WritesInv, NEW p \in Pages, TakeList(p)
  PROVE  WritesInv'
<1>1. page[p] \in PageRecord /\ page[p].fetch \in FetchRecord /\ keys' = keys
  BY DEF Types, PagesOf, PageRecord, TakeList
<1>2. CASE page[p].fetch.stage = "read"
  <2> DEFINE l == [owner |-> page[p].fetch.owner, rows |-> page[p].fetch.rows,
                   invalid |-> FALSE]
             h == [page[p] EXCEPT !.fetch = NoFetch, !.list = l]
  <2>1. page' = [page EXCEPT ![p] = h] /\ UNCHANGED <<keys, call>>
    BY <1>1, <1>2 DEF TakeList
  <2>2. /\ h.list.rows = page[p].fetch.rows /\ h.list.owner = page[p].fetch.owner
        /\ h.fetch.stage = "none"
    BY <1>1 DEF PageRecord, NoFetch
  <2> HIDE DEF h
  <2> QED
    BY <1>2, <2>1, <2>2, PageWrites
<1>3. CASE page[p].fetch.stage = "denied"
  BY <1>1, <1>3, DeniedWrites DEF TakeList
<1>4. CASE page[p].fetch.stage = "lost"
  <2> DEFINE f == IF page[p].fetch.retried THEN NoFetch
                  ELSE [Fetch(page[p]) EXCEPT !.retried = TRUE]
             h == [page[p] EXCEPT !.fetch = f]
  <2>1. page' = [page EXCEPT ![p] = h] /\ UNCHANGED <<keys, call>>
    BY <1>1, <1>4 DEF TakeList
  <2>2. f.stage # "read"
    BY DEF Fetch, NoFetch
  <2> HIDE DEF f
  <2>3. h.list = page[p].list /\ h.fetch = f
    BY <1>1 DEF PageRecord
  <2> HIDE DEF h
  <2> QED
    BY <2>1, <2>2, <2>3, PageWrites
<1> QED
  BY <1>2, <1>3, <1>4 DEF TakeList

LEMMA VisitWrites ==
  ASSUME Types, WritesInv, NEW p \in Pages, NEW aged \in BOOLEAN, Visit(p, aged)
  PROVE  WritesInv'
<1> DEFINE stale == page[p].list.rows = Unloaded \/ page[p].list.invalid \/ aged
           f == IF stale /\ page[p].fetch.stage = "none" THEN Fetch(page[p]) ELSE page[p].fetch
           h == [page[p] EXCEPT !.at = "settings", !.fetch = f]
<1>1. page[p] \in PageRecord
  BY DEF Types, PagesOf
<1>2. page' = [page EXCEPT ![p] = h] /\ UNCHANGED <<keys, call>>
  BY <1>1 DEF Visit, PageRecord
<1>3. f.stage = "read" => f = page[p].fetch
  BY DEF Fetch, NoFetch
<1> HIDE DEF f
<1>4. h.list = page[p].list /\ h.fetch = f
  BY <1>1 DEF PageRecord
<1> HIDE DEF h
<1> QED
  BY <1>2, <1>3, <1>4, PageWrites

LEMMA LeaveWrites ==
  ASSUME Types, WritesInv, NEW p \in Pages, Leave(p)
  PROVE  WritesInv'
<1> PICK h : h = [page[p] EXCEPT !.at = "home"]
  OBVIOUS
<1>1. page' = [page EXCEPT ![p] = h] /\ UNCHANGED <<keys, call>>
  BY DEF Leave
<1>2. h.list = page[p].list /\ h.fetch = page[p].fetch
  BY DEF Types, PagesOf, PageRecord
<1> QED
  BY <1>1, <1>2, PageWrites

LEMMA LogoutWrites ==
  ASSUME Types, WritesInv, NEW p \in Pages, Logout(p)
  PROVE  WritesInv'
<1> PICK h : h = [Guest EXCEPT !.list = page[p].list, !.fetch = page[p].fetch]
  OBVIOUS
<1>1. page' = [page EXCEPT ![p] = h] /\ UNCHANGED <<keys, call>>
  BY DEF Logout
<1>2. h.list = page[p].list /\ h.fetch = page[p].fetch
  BY DEF Guest
<1> QED
  BY <1>1, <1>2, PageWrites

LEMMA ExpelWrites ==
  ASSUME Types, WritesInv, NEW p \in Pages, Expel(p)
  PROVE  WritesInv'
  BY DeniedWrites DEF Expel

\* A call that is over stands for what it did, if it was accepted, and is settled if
\* the page it is of shows its list.
LEMMA DoneTame ==
  ASSUME NEW c \in CallRecord, c.stage = "answered", NEW shown \in BOOLEAN
  PROVE  LET d == Done(c, shown)
         IN  /\ d \in CallRecord /\ Tame(c, d)
             /\ d.settled => shown /\ d.page = c.page /\ d.kind = c.kind
<1> PICK d : d = Done(c, shown)
  OBVIOUS
<1>1. CASE c.status \in {200, 201}
  <2>1. /\ d \in CallRecord /\ d.stage = "over" /\ d.kind = c.kind /\ d.page = c.page
        /\ d.account = c.account /\ d.key = c.key /\ d.status = c.status /\ d.settled = shown
    <3> PICK e : e = [c EXCEPT !.stage = "over", !.settled = shown]
      OBVIOUS
    <3>1. d = e
      BY <1>1 DEF Done
    <3>2. /\ e \in CallRecord /\ e.stage = "over" /\ e.kind = c.kind /\ e.page = c.page
          /\ e.account = c.account /\ e.key = c.key /\ e.status = c.status /\ e.settled = shown
      BY DEF CallRecord
    <3> QED
      BY <3>1, <3>2
  <2>2. Tame(c, d)
    BY <1>1, <2>1 DEF Tame, Spent, Deletes, Good
  <2> QED
    BY <2>1, <2>2
<1>2. CASE c.status \notin {200, 201}
  <2>1. Idle \in CallRecord
    BY IdleCall DEF CallsOf
  <2>2. d \in CallRecord /\ d.stage = "over" /\ d.kind = "none" /\ ~d.settled /\ d.status = 0
    <3> PICK e : e = [Idle EXCEPT !.stage = "over"]
      OBVIOUS
    <3>1. d = e
      BY <1>2 DEF Done
    <3>2. Idle.kind = "none" /\ ~Idle.settled /\ Idle.status = 0
      BY DEF Idle
    <3>3. e \in CallRecord /\ e.stage = "over" /\ e.kind = "none" /\ ~e.settled /\ e.status = 0
      BY <2>1, <3>2 DEF CallRecord
    <3> QED
      BY <3>1, <3>3
  <2>3. Tame(c, d)
    BY <2>2 DEF Tame, Spent, Deletes, Good
  <2> QED
    BY <2>2, <2>3
<1> QED
  BY <1>1, <1>2

\* An accepted call that the page heeds invalidates its list if it wrote keys, and a
\* list that is on display is fetched anew.
LEMMA HeededList ==
  ASSUME NEW us, NEW g \in PagesOf(us), NEW c
  PROVE  LET h == Heeded(g, c)
         IN  IF c.kind \in {"create", "delete"}
             THEN /\ h.list.invalid
                  /\ \/ h.fetch.stage = "sent"
                     \/ h.fetch = g.fetch /\ ~(g.at = "settings" /\ g.list.rows # Unloaded)
             ELSE h.list = g.list /\ h.fetch = g.fetch
<1>1. g \in PageRecord /\ g.list \in ListRecord
  BY DEF PagesOf, PageRecord
<1>2. CASE c.kind \in {"create", "delete"}
  <2> PICK m : m = [g EXCEPT !.list.invalid = TRUE]
    OBVIOUS
  <2>1. DOMAIN m = DOMAIN g /\ m.list.invalid /\ m.fetch = g.fetch
    BY <1>1 DEF PageRecord, ListRecord
  <2>2. DOMAIN g = {"auth", "account", "cookie", "at", "list", "fetch"}
    BY <1>1 DEF PageRecord
  <2> PICK n : n = [m EXCEPT !.fetch = Fetch(g)]
    OBVIOUS
  <2>3. n.list.invalid /\ n.fetch.stage = "sent"
    BY <2>1, <2>2 DEF Fetch, NoFetch
  <2>4. Heeded(g, c) = Invalidated(g)
    BY <1>2 DEF Heeded
  <2>5. Heeded(g, c) = IF g.at = "settings" /\ (g.fetch.stage = "none" \/ g.list.rows # Unloaded)
                       THEN n ELSE m
    BY <2>4 DEF Invalidated
  <2> QED
    BY <1>2, <2>1, <2>3, <2>5
<1>3. CASE c.kind \notin {"create", "delete"}
  BY <1>1, <1>3 DEF Heeded, Registered, SignedIn, PageRecord
<1> QED
  BY <1>2, <1>3

LEMMA ResentTame ==
  ASSUME NEW c \in CallRecord, NEW u, c.stage = "answered", c.status = 401, ~c.settled
  PROVE  LET d == Resent(c, u)
         IN  Tame(c, d) /\ \A x : Kept(c, d, x)
<1> PICK d : d = Resent(c, u)
  OBVIOUS
<1>1. d.stage = "sent" /\ ~d.settled
  BY DEF Resent, CallRecord, New, Idle
<1>2. Tame(c, d) /\ \A x : Kept(c, d, x)
  BY <1>1 DEF Tame, Kept, Spent, Deletes
<1> QED
  BY <1>2

LEMMA TakeWrites ==
  ASSUME Types, WritesInv, NEW r \in Calls, Take(r)
  PROVE  WritesInv'
<1> PICK c, p : c = call[r] /\ p = c.page
  OBVIOUS
<1> PICK shown : shown = (p # Nobody /\ page[p].at = "settings" /\ page[p].list.rows # Unloaded)
  OBVIOUS
<1> PICK d : d = Done(c, shown)
  OBVIOUS
<1> PICK done : done = [call EXCEPT ![r] = d]
  OBVIOUS
<1>1. /\ c \in CallRecord /\ c.stage = "answered" /\ keys' = keys /\ ~c.settled
      /\ p \in Pages \cup {Nobody} /\ shown \in BOOLEAN
  BY DEF Types, CallsOf, CallRecord, WritesInv, SettledOver, Take, IsAnswered
<1>2. /\ d \in CallRecord /\ Tame(c, d)
      /\ d.settled => shown /\ d.page = p /\ d.kind = c.kind
  BY <1>1, DoneTame
<1>3. done[r] = d /\ \A q \in Calls \ {r} : done[q] = call[q]
  BY DEF Types
<1>4. \A q \in Calls : done[q] \in CallRecord /\ Tame(call[q], done[q])
  BY <1>2, <1>3, TameSame DEF Types, CallsOf, WritesInv
<1>5. \A q \in Calls \ {r} : \A x : Kept(call[q], done[q], x)
  BY <1>3, TameSame DEF WritesInv
<1>6. ~Good(c) => ~d.settled
  BY DEF Done, Good, Idle
<1>7. \/ call' = done /\ page' = page /\ (p = Nobody \/ ~Good(c))
      \/ p \in Pages /\ ~Good(c) /\ Unrefreshed(p, done)
      \/ /\ p \in Pages /\ c.status = 401
         /\ page' = [page EXCEPT ![p] = SignedIn(page[p], page[p].cookie)]
         /\ call' = [call EXCEPT ![r] = Resent(c, page[p].cookie)]
      \/ /\ p \in Pages /\ Good(c)
         /\ page' = [page EXCEPT ![p] = Heeded(page[p], c)]
         /\ call' = done
  BY <1>1 DEF Take, Done, Good
<1>8. CASE call' = done /\ page' = page /\ (p = Nobody \/ ~Good(c))
  <2>1. ~d.settled
    BY <1>2, <1>6, <1>8
  <2>2. \A x : Kept(c, d, x)
    BY <2>1 DEF Kept
  <2> QED
    BY <1>1, <1>2, <1>8, <2>2, CallWrites
<1>9. CASE p \in Pages /\ ~Good(c) /\ Unrefreshed(p, done)
  <2>1. \A x : Kept(c, d, x)
    BY <1>6, <1>9 DEF Kept
  <2>2. \A q \in Calls : \A x : Kept(call[q], done[q], x)
    BY <1>3, <1>5, <2>1
  <2> QED
    BY <1>1, <1>4, <1>9, <2>2, UnrefreshedWrites
<1>10. CASE /\ p \in Pages /\ c.status = 401
            /\ page' = [page EXCEPT ![p] = SignedIn(page[p], page[p].cookie)]
            /\ call' = [call EXCEPT ![r] = Resent(c, page[p].cookie)]
  <2> PICK u, e, g : /\ u = page[p].cookie /\ e = Resent(c, u) /\ g = SignedIn(page[p], u)
    OBVIOUS
  <2>1. Tame(c, e) /\ \A x : Kept(c, e, x)
    BY <1>1, <1>10, ResentTame
  <2>2. call'[r] = e /\ \A q \in Calls \ {r} : call'[q] = call[q]
    BY <1>10 DEF Types
  <2>3. \A q \in Calls : Tame(call[q], call'[q]) /\ \A x : Kept(call[q], call'[q], x)
    BY <2>1, <2>2, TameSame DEF WritesInv
  <2>4. g.list = page[p].list /\ g.fetch = page[p].fetch
    BY <1>10, SignedInKeeps DEF Types
  <2>5. page'[p] = g /\ \A x \in Pages \ {p} : page'[x] = page[x]
    BY <1>10 DEF Types
  <2>6. ASSUME NEW x \in Pages PROVE PageTells(x)'
    <3>1. page'[x].list = page[x].list /\ page'[x].fetch = page[x].fetch
      BY <2>4, <2>5
    <3> QED
      BY <1>1, <2>3, <3>1, PageKept DEF WritesInv
  <2> QED
    BY <1>1, <2>3, <2>6, WritesKeep
<1>11. CASE /\ p \in Pages /\ Good(c)
            /\ page' = [page EXCEPT ![p] = Heeded(page[p], c)]
            /\ call' = done
  <2> PICK h : h = Heeded(page[p], c)
    OBVIOUS
  <2>1. page'[p] = h /\ \A x \in Pages \ {p} : page'[x] = page[x]
    BY <1>11 DEF Types
  <2>2. IF c.kind \in {"create", "delete"}
        THEN /\ h.list.invalid
             /\ h.fetch.stage = "sent" \/ (h.fetch = page[p].fetch /\ ~shown)
        ELSE h.list = page[p].list /\ h.fetch = page[p].fetch
    <3>1. page[p] \in PagesOf(DOMAIN password)
      BY <1>11 DEF Types
    <3> QED
      BY <3>1, HeededList
  <2>3. ASSUME NEW x, x # p \/ c.kind \notin {"create", "delete"} \/ ~shown
        PROVE  \A q \in Calls : Kept(call[q], call'[q], x)
    <3>1. Kept(c, d, x)
      BY <1>2, <2>3 DEF Kept
    <3> QED
      BY <1>3, <1>5, <1>11, <3>1
  <2>4. PageTells(p)'
    <3>1. CASE h.list.invalid /\ h.fetch.stage = "sent"
      BY <2>1, <3>1 DEF PageTells
    <3>2. CASE ~(h.list.invalid /\ h.fetch.stage = "sent")
      <4>1. /\ c.kind \notin {"create", "delete"} \/ ~shown
            /\ h.fetch = page[p].fetch
            /\ ~h.list.invalid => h.list = page[p].list
        BY <2>2, <3>2
      <4>2. \A q \in Calls : Kept(call[q], call'[q], p)
        BY <2>3, <4>1
      <4> QED
        BY <1>1, <1>11, <2>1, <4>1, <4>2, PageKept DEF WritesInv
    <3> QED
      BY <3>1, <3>2
  <2>5. ASSUME NEW x \in Pages \ {p} PROVE PageTells(x)'
    BY <1>1, <2>1, <2>3, PageKept DEF WritesInv
  <2> QED
    BY <1>1, <1>4, <1>11, <2>4, <2>5, WritesKeep
<1> QED
  BY <1>7, <1>8, <1>9, <1>10, <1>11

LEMMA SameWrites ==
  ASSUME WritesInv, UNCHANGED vars
  PROVE  WritesInv'
  BY DEF vars, users, WritesInv, KeysMade, KeysGone, SettledOver, PageTells, Tells, Spent,
         Deletes, Good

LEMMA StepWrites == AccountsInv /\ WritesInv /\ [Next]_vars => WritesInv'
<1> SUFFICES ASSUME Types, WritesInv, [Next]_vars PROVE WritesInv'
  BY DEF AccountsInv
<1>1. CASE UNCHANGED vars
  BY <1>1, SameWrites
<1>2. ASSUME NEW r \in Calls, NEW p \in Pages, AskAsGuest(r, p) \/ AskAsUser(r, p)
      PROVE  WritesInv'
  BY <1>2, AskWrites
<1>3. ASSUME NEW r \in Calls, Handle(r)
      PROVE  WritesInv'
  BY <1>3, RefuseWrites, RegisterWrites, LookupWrites, CompareWrites, UpdateWrites,
     RenameWrites, CreateKeyWrites, DeleteKeyWrites DEF Handle
<1>4. ASSUME NEW r \in Calls, Take(r)
      PROVE  WritesInv'
  BY <1>4, TakeWrites
<1>5. ASSUME NEW p \in Pages,
             ListKeys(p) \/ TakeList(p) \/ Leave(p) \/ Logout(p) \/ Expel(p)
      PROVE  WritesInv'
  BY <1>5, ListKeysWrites, TakeListWrites, LeaveWrites, LogoutWrites, ExpelWrites
<1>6. ASSUME NEW p \in Pages, NEW aged \in BOOLEAN, Visit(p, aged)
      PROVE  WritesInv'
  BY <1>6, VisitWrites
<1>7. CASE Crash
  BY <1>7, CrashWrites
<1> QED
  BY <1>1, <1>2, <1>3, <1>4, <1>5, <1>6, <1>7 DEF Next

\* A list that is not marked invalid has the keys its page has created and has none
\* that it has deleted, once the answer found the list on display: the fetch that
\* Settings.jsx 58-69 then starts drops one under way that may hold older rows.
THEOREM OwnWritesAreShown == Spec => []OwnWritesShown
<1>1. Spec => [](AccountsInv /\ WritesInv)
  BY InitInv, StepInv, InitWrites, StepWrites, PTL DEF Spec
<1>2. WritesInv => OwnWritesShown
  BY DEF WritesInv, PageTells, Tells, OwnWritesShown
<1> QED
  BY <1>1, <1>2, PTL

=============================================================================

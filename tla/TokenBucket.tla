---------------------------- MODULE TokenBucket ----------------------------
(***************************************************************************)
(* ratelimiter/tokenBucket.js: the store of token buckets, one per         *)
(* "<ip>:<route prefix>" key, refilled lazily from the wall clock when a   *)
(* request consumes, and pruned when idle.  Every operation is synchronous *)
(* JavaScript, so each is one atomic action.                               *)
(*                                                                         *)
(* Time is the value of Date.now() in ticks, Second ticks to a second      *)
(* (1000 in the code).  Tokens are kept as sub-tokens, Second of them to a *)
(* token: (elapsedSeconds * refillRate) tokens is then exactly             *)
(* elapsed * refillRate sub-tokens, and only the rounding of the floating  *)
(* point is abstracted.                                                    *)
(***************************************************************************)
EXTENDS Integers, Sequences

CONSTANTS
  Keys,       \* the "<ip>:<prefix>" pairs that send requests
  Shapes,     \* the [capacity, refillRate] pairs the route is configured with
  Second,     \* clock ticks per second
  IdleTtl,    \* BUCKET_IDLE_TTL_MS, in ticks
  TickSizes,  \* by how much Date.now() may move; negative when it is stepped back
  MaxNow,     \* bound on the clock
  MaxGrants   \* bound on the granted requests of a key

ASSUME SecondAssumption == Second \in Nat \ {0}
ASSUME ShapesAssumption == Shapes \subseteq [capacity : Nat, refillRate : Nat]
ASSUME TimeAssumption == IdleTtl \in Nat /\ TickSizes \subseteq Int /\ MaxNow \in Nat

VARIABLES
  now,        \* Date.now()
  config,     \* the limit the route registry holds, passed to every consumeToken
  buckets,    \* BucketStore.buckets: a partial function on Keys
  replies,    \* per key, the result of its last consume()
  grants,     \* history: per key, the requests granted so far
  first,      \* history: per key, index in grants where its bucket was created
  seen        \* history: per key, the latest clock its bucket has read

history == <<grants, first, seen>>
vars == <<now, config, buckets, replies, history>>

Lesser(a, b) == IF a <= b THEN a ELSE b
Greater(a, b) == IF a <= b THEN b ELSE a
CeilDiv(a, b) == (a + b - 1) \div b

\* resetAfterMs of a bucket that never refills: Infinity in the code.
Never == -1

NoReply == [allowed |-> FALSE, remaining |-> 0, resetAfter |-> Never, at |-> Never]

Init ==
  /\ now = 0
  /\ config \in Shapes
  /\ buckets = [k \in {} |-> NoReply]
  /\ replies = [k \in Keys |-> NoReply]
  /\ grants = [k \in Keys |-> <<>>]
  /\ first = [k \in Keys |-> 1]
  /\ seen = [k \in Keys |-> 0]

-----------------------------------------------------------------------------
\* new TokenBucket(capacity, refillRate): starts full.
NewBucket(s) ==
  [capacity |-> s.capacity, refillRate |-> s.refillRate,
   tokens |-> s.capacity * Second, lastRefillTime |-> now, lastUsedAt |-> now]

\* Mutant: one bucket for all clients.
SharedBucketFor(k) ==
  IF buckets = [j \in {} |-> 0] THEN NewBucket(config)
  ELSE buckets[CHOOSE j \in DOMAIN buckets : TRUE]

\* getBucket: an existing bucket is returned as it is, whatever the limits
\* the caller passes.
BucketFor(k) == IF k \in DOMAIN buckets THEN buckets[k] ELSE NewBucket(config)

Refilled(b) == (now - b.lastRefillTime) * b.refillRate

\* Mutant: the ceiling is forgotten.
UncappedRefill(b) ==
  IF Refilled(b) > 0
  THEN [b EXCEPT !.tokens = @ + Refilled(b), !.lastRefillTime = now]
  ELSE b

\* Mutant: the time of the last refill moves although nothing was refilled.
RestampedRefill(b) ==
  IF Refilled(b) > 0
  THEN [b EXCEPT !.tokens = Lesser(b.capacity * Second, b.tokens + Refilled(b)),
                 !.lastRefillTime = now]
  ELSE [b EXCEPT !.lastRefillTime = now]

\* The lazy refill at the head of consume().
Refill(b) ==
  IF Refilled(b) > 0
  THEN [b EXCEPT !.tokens = Lesser(b.capacity * Second, b.tokens + Refilled(b)),
                 !.lastRefillTime = now]
  ELSE b

HasToken(b) == b.tokens >= Second

\* Mutant: the time of use is noted below the return of a granted request.
ConsumedUnused(b) ==
  IF HasToken(Refill(b))
  THEN [Refill(b) EXCEPT !.tokens = @ - Second]
  ELSE [Refill(b) EXCEPT !.lastUsedAt = now]

\* What consume() leaves in the bucket ...
Consumed(b) ==
  [Refill(b) EXCEPT !.tokens = IF HasToken(Refill(b)) THEN @ - Second ELSE @,
                    !.lastUsedAt = now]

\* Mutant: the wait is rounded down.
EarlyResetAfter(b) ==
  IF b.refillRate = 0 THEN Never ELSE (Second - b.tokens) \div b.refillRate

ResetAfter(b) ==
  IF b.refillRate = 0 THEN Never ELSE CeilDiv(Second - b.tokens, b.refillRate)

\* ... and what it returns (at is when).
Result(b) ==
  IF HasToken(Refill(b))
  THEN [allowed |-> TRUE, remaining |-> (Refill(b).tokens - Second) \div Second,
        resetAfter |-> 0, at |-> now]
  ELSE [allowed |-> FALSE, remaining |-> 0,
        resetAfter |-> ResetAfter(Refill(b)), at |-> now]

IsStale(b) == now - b.lastUsedAt > IdleTtl

Stale == {k \in DOMAIN buckets : IsStale(buckets[k])}

-----------------------------------------------------------------------------
\* A request of key k reaches consumeToken.
Consume(k) ==
  /\ Len(grants[k]) < MaxGrants
  /\ LET b == BucketFor(k)
         fresh == k \notin DOMAIN buckets
     IN  /\ buckets' = [j \in DOMAIN buckets \cup {k} |->
                          IF j = k THEN Consumed(b) ELSE buckets[j]]
         /\ replies' = [replies EXCEPT ![k] = Result(b)]
         /\ seen' = [seen EXCEPT ![k] = IF fresh THEN now ELSE Greater(@, now)]
         /\ grants' = IF Result(b).allowed
                      THEN [grants EXCEPT ![k] = Append(@, [at |-> now, seen |-> seen'[k]])]
                      ELSE grants
         /\ first' = IF fresh THEN [first EXCEPT ![k] = Len(grants[k]) + 1] ELSE first
  /\ UNCHANGED <<now, config>>

\* _prune, run by a timer whose phase is arbitrary: every stale bucket goes.
Prune ==
  /\ Stale # {}
  /\ buckets' = [k \in DOMAIN buckets \ Stale |-> buckets[k]]
  /\ UNCHANGED <<now, config, replies, history>>

\* A PATCH of the route's limits reaches the registry (loadRoutes).
Reconfigure(s) ==
  /\ s # config
  /\ config' = s
  /\ UNCHANGED <<now, buckets, replies, grants, first, seen>>

\* The clock moves; it is a wall clock, so it may be set back.
Tick(d) ==
  /\ now + d \in 0 .. MaxNow
  /\ now' = now + d
  /\ UNCHANGED <<config, buckets, replies, history>>

Next ==
  \/ \E k \in Keys : Consume(k)
  \/ Prune
  \/ \E s \in Shapes : Reconfigure(s)
  \/ \E d \in TickSizes : Tick(d)

Spec == Init /\ [][Next]_vars

-----------------------------------------------------------------------------
Bucket ==
  [capacity : Nat, refillRate : Nat, tokens : Nat, lastRefillTime : Nat, lastUsedAt : Nat]

Reply ==
  [allowed : BOOLEAN, remaining : Nat, resetAfter : Nat \cup {Never}, at : Nat \cup {Never}]

\* The types of the store, the replies and the history; no bucket holds more
\* than its ceiling.
TypeOK ==
  /\ now \in Nat
  /\ config \in Shapes
  /\ DOMAIN buckets \subseteq Keys
  /\ \A k \in DOMAIN buckets :
       buckets[k] \in Bucket /\ buckets[k].tokens <= buckets[k].capacity * Second
  /\ replies \in [Keys -> Reply]
  /\ grants \in [Keys -> Seq([at : Nat, seen : Nat])]
  /\ first \in [Keys -> Nat \ {0}]
  /\ seen \in [Keys -> Nat]

\* Between grants i and j of a key, at most the burst plus what the rate adds
\* over the time the bucket has seen pass.
Within(k, i, j, s) ==
  Second * (j - i + 1) <=
    Second * s.capacity + s.refillRate * (grants[k][j].seen - grants[k][i].at)

\* consume(): in one life of a bucket no window of time, however chosen, holds
\* more grants than the burst plus the refill of that window; a clock that is
\* set back never lets a bucket earn the same stretch of time twice.
WindowRate ==
  \A k \in DOMAIN buckets : \A i, j \in first[k] .. Len(grants[k]) :
    i <= j => Within(k, i, j, buckets[k])

\* consume(): a refused client that comes back is let through from
\* resetAfterMs on, and not before, unless the clock had been set back behind
\* the bucket's last refill when it was refused.
RetryHonoured ==
  \A k \in DOMAIN buckets :
    LET b == buckets[k]
        r == replies[k]
        refused == ~r.allowed /\ r.at >= b.lastRefillTime
        refills == b.capacity >= 1 /\ b.refillRate >= 1
    IN  refused /\ refills => (HasToken(Refill(b)) <=> now >= r.at + r.resetAfter)

\* _prune(): a stale bucket whose refill takes no longer than the idle time is
\* already full, so that forgetting it hands out no extra burst, unless its
\* last request came on a clock set back behind its last refill.
PruneHarmless ==
  \A k \in Stale :
    LET b == buckets[k]
        filled == b.refillRate * IdleTtl >= Second * b.capacity
    IN  filled /\ b.lastRefillTime <= replies[k].at
          => Refill(b).tokens = Second * b.capacity

\* The lazy bucket grants exactly the requests that a bucket filled at every
\* tick would grant.
Eager == INSTANCE EagerBucket WITH
  now <- now,
  shape <- [k \in DOMAIN buckets |->
              [capacity |-> buckets[k].capacity, refillRate |-> buckets[k].refillRate]],
  level <- [k \in DOMAIN buckets |-> Refill(buckets[k]).tokens],
  granted <- [k \in Keys |-> replies[k].allowed]

ImplementsEager == Eager!Spec

=============================================================================

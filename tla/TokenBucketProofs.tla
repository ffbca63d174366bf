------------------------- MODULE TokenBucketProofs -------------------------
(***************************************************************************)
(* Proofs about TokenBucket, for every set of keys, every set of limits    *)
(* and every clock, also one that is set back.                             *)
(***************************************************************************)
EXTENDS TokenBucket, TLAPS

USE SecondAssumption, ShapesAssumption, TimeAssumption

-----------------------------------------------------------------------------
(* Arithmetic the provers are given step by step.                          *)

LEMMA ProductMonotone ==
  ASSUME NEW r \in Nat, NEW x \in Int, NEW y \in Int, x <= y
  PROVE  r * x <= r * y
  OBVIOUS

LEMMA ProductSplit ==
  ASSUME NEW r \in Nat, NEW x \in Int, NEW y \in Int, NEW z \in Int
  PROVE  r * (z - x) = r * (y - x) + r * (z - y)
  OBVIOUS

LEMMA CeilDivNat ==
  ASSUME NEW a \in Nat, NEW b \in Nat \ {0}
  PROVE  CeilDiv(a, b) \in Nat
  BY SMT DEF CeilDiv

-----------------------------------------------------------------------------
(* The bucket on its own.                                                  *)

Sound(b) == b \in Bucket /\ b.tokens <= b.capacity * Second

\* The refill keeps a bucket within its ceiling, never moves its last refill
\* back, adds no more than the rate allows and leaves no time unaccounted.
LEMMA RefillSound ==
  ASSUME now \in Nat, NEW b, Sound(b)
  PROVE  /\ Sound(Refill(b))
         /\ Refill(b).capacity = b.capacity
         /\ Refill(b).refillRate = b.refillRate
         /\ Refill(b).lastUsedAt = b.lastUsedAt
         /\ Refill(b).lastRefillTime \in {b.lastRefillTime, now}
         /\ Refill(b).tokens <=
              b.tokens + b.refillRate * (Refill(b).lastRefillTime - b.lastRefillTime)
         /\ b.refillRate * (Refill(b).lastRefillTime - now) >= 0
<1> DEFINE r == b.refillRate
           full == b.capacity * Second
           gain == (now - b.lastRefillTime) * r
<1>1. /\ r \in Nat /\ b.capacity \in Nat /\ b.tokens \in Nat
      /\ b.lastRefillTime \in Nat /\ b.lastUsedAt \in Nat
      /\ full \in Nat /\ gain \in Int /\ b.tokens <= full
  BY DEF Sound, Bucket
<1>2. gain = r * (now - b.lastRefillTime)
  BY <1>1
<1>3. CASE gain > 0
  <2>1. Refill(b) = [b EXCEPT !.tokens = Lesser(full, b.tokens + gain),
                              !.lastRefillTime = now]
    BY <1>3 DEF Refill, Refilled
  <2>2. /\ Refill(b) \in Bucket
        /\ Refill(b).capacity = b.capacity
        /\ Refill(b).refillRate = b.refillRate
        /\ Refill(b).lastUsedAt = b.lastUsedAt
        /\ Refill(b).lastRefillTime = now
        /\ Refill(b).tokens = Lesser(full, b.tokens + gain)
    <3>1. Lesser(full, b.tokens + gain) \in Nat
      BY <1>1, <1>3 DEF Lesser
    <3> QED
      BY <2>1, <3>1, <1>1 DEF Bucket, Sound
  <2>3. Lesser(full, b.tokens + gain) <= full /\ Lesser(full, b.tokens + gain) <= b.tokens + gain
    BY <1>1 DEF Lesser
  <2>4. r * (now - now) >= 0
    BY <1>1
  <2> QED
    BY <2>2, <2>3, <2>4, <1>2 DEF Sound
<1>4. CASE ~(gain > 0)
  <2>1. Refill(b) = b
    BY <1>4 DEF Refill, Refilled
  <2>2. r * (b.lastRefillTime - b.lastRefillTime) = 0
    BY <1>1
  <2>3. r * (b.lastRefillTime - now) = 0 - r * (now - b.lastRefillTime)
    BY <1>1
  <2>4. r * (b.lastRefillTime - now) >= 0
    BY <2>3, <1>1, <1>2, <1>4
  <2> QED
    BY <2>1, <2>2, <2>4, <1>1
<1> QED
  BY <1>3, <1>4, <1>1

\* consume() leaves the bucket sound and takes a token exactly when it grants.
LEMMA ConsumedSound ==
  ASSUME now \in Nat, NEW b, Sound(b)
  PROVE  /\ Sound(Consumed(b))
         /\ Consumed(b).capacity = b.capacity
         /\ Consumed(b).refillRate = b.refillRate
         /\ Consumed(b).lastRefillTime = Refill(b).lastRefillTime
         /\ Consumed(b).lastUsedAt = now
         /\ HasToken(Refill(b)) => Consumed(b).tokens = Refill(b).tokens - Second
         /\ ~HasToken(Refill(b)) => Consumed(b).tokens = Refill(b).tokens
<1> DEFINE c == Refill(b)
           t == IF HasToken(c) THEN c.tokens - Second ELSE c.tokens
<1>1. /\ c \in Bucket /\ c.tokens <= c.capacity * Second
      /\ c.capacity = b.capacity /\ c.refillRate = b.refillRate
  BY RefillSound DEF Sound
<1> HIDE DEF c
<1>2. t \in Nat /\ t <= c.capacity * Second
  BY <1>1 DEF HasToken, Bucket
<1>3. Consumed(b) = [c EXCEPT !.tokens = t, !.lastUsedAt = now]
  BY DEF Consumed, c
<1> HIDE DEF t
<1>4. /\ Consumed(b) \in Bucket
      /\ Consumed(b).capacity = c.capacity
      /\ Consumed(b).refillRate = c.refillRate
      /\ Consumed(b).lastRefillTime = c.lastRefillTime
      /\ Consumed(b).lastUsedAt = now
      /\ Consumed(b).tokens = t
  BY <1>1, <1>2, <1>3 DEF Bucket
<1> QED
  BY <1>1, <1>2, <1>4 DEF Sound, c, t

LEMMA NewBucketSound ==
  ASSUME now \in Nat, config \in Shapes
  PROVE  Sound(NewBucket(config)) /\ NewBucket(config).lastRefillTime = now
<1>1. config.capacity \in Nat /\ config.refillRate \in Nat
  OBVIOUS
<1>2. config.capacity * Second \in Nat
  BY <1>1
<1> QED
  BY <1>1, <1>2 DEF NewBucket, Sound, Bucket

LEMMA ResultReply ==
  ASSUME now \in Nat, NEW b, Sound(b)
  PROVE  Result(b) \in Reply /\ (Result(b).allowed <=> HasToken(Refill(b)))
<1> DEFINE c == Refill(b)
<1>1. c.tokens \in Nat /\ c.refillRate \in Nat
  BY RefillSound DEF Sound, Bucket
<1> HIDE DEF c
<1>2. HasToken(c) => (c.tokens - Second) \div Second \in Nat
  BY <1>1, SMT DEF HasToken
<1>3. ~HasToken(c) => ResetAfter(c) \in Nat \cup {Never}
  <2>1. CASE c.refillRate = 0
    BY <2>1 DEF ResetAfter
  <2>2. CASE c.refillRate # 0
    <3>1. ~HasToken(c) => Second - c.tokens \in Nat
      BY <1>1 DEF HasToken
    <3> QED
      BY <1>1, <2>2, <3>1, CeilDivNat DEF ResetAfter
  <2> QED
    BY <2>1, <2>2
<1>4. CASE HasToken(c)
  BY <1>2, <1>4 DEF Result, Reply, c
<1>5. CASE ~HasToken(c)
  BY <1>3, <1>5 DEF Result, Reply, c
<1> QED
  BY <1>4, <1>5 DEF c

-----------------------------------------------------------------------------
(* Type correctness.                                                       *)

LEMMA InitType == Init => TypeOK
<1> SUFFICES ASSUME Init PROVE TypeOK
  OBVIOUS
<1>1. NoReply \in Reply
  BY DEF NoReply, Reply, Never
<1>2. buckets = [k \in {} |-> NoReply] /\ DOMAIN buckets = {}
  BY DEF Init
<1> QED
  BY <1>1, <1>2 DEF Init, TypeOK

LEMMA BucketForSound ==
  ASSUME TypeOK, NEW k
  PROVE  Sound(BucketFor(k))
<1>1. CASE k \in DOMAIN buckets
  BY <1>1 DEF BucketFor, TypeOK, Sound
<1>2. CASE k \notin DOMAIN buckets
  BY <1>2, NewBucketSound DEF BucketFor, TypeOK
<1> QED
  BY <1>1, <1>2

LEMMA ConsumeType ==
  ASSUME TypeOK, NEW k \in Keys, Consume(k)
  PROVE  TypeOK'
<1> DEFINE b == BucketFor(k)
           fresh == k \notin DOMAIN buckets
<1>1. /\ now' = now /\ config' = config
      /\ buckets' = [j \in DOMAIN buckets \cup {k} |->
                       IF j = k THEN Consumed(b) ELSE buckets[j]]
      /\ replies' = [replies EXCEPT ![k] = Result(b)]
      /\ seen' = [seen EXCEPT ![k] = IF fresh THEN now ELSE Greater(@, now)]
      /\ grants' = IF Result(b).allowed
                   THEN [grants EXCEPT ![k] = Append(@, [at |-> now, seen |-> seen'[k]])]
                   ELSE grants
      /\ first' = IF fresh THEN [first EXCEPT ![k] = Len(grants[k]) + 1] ELSE first
  BY DEF Consume
<1>2. Sound(b) /\ Sound(Consumed(b)) /\ Result(b) \in Reply
  BY BucketForSound, ConsumedSound, ResultReply DEF TypeOK
<1> HIDE DEF b
<1>3. DOMAIN buckets' \subseteq Keys
  BY <1>1 DEF TypeOK
<1>4. ASSUME NEW j \in DOMAIN buckets'
      PROVE  buckets'[j] \in Bucket /\ buckets'[j].tokens <= buckets'[j].capacity * Second
  BY <1>1, <1>2, <1>4 DEF TypeOK, Sound
<1>5. replies' \in [Keys -> Reply]
  BY <1>1, <1>2 DEF TypeOK
<1>6. seen' \in [Keys -> Nat]
  BY <1>1 DEF TypeOK, Greater
<1>7. grants' \in [Keys -> Seq([at : Nat, seen : Nat])]
  <2>1. [at |-> now, seen |-> seen'[k]] \in [at : Nat, seen : Nat]
    BY <1>6 DEF TypeOK
  <2>2. grants[k] \in Seq([at : Nat, seen : Nat])
    BY DEF TypeOK
  <2>3. Append(grants[k], [at |-> now, seen |-> seen'[k]]) \in Seq([at : Nat, seen : Nat])
    BY <2>1, <2>2
  <2> QED
    BY <1>1, <2>3 DEF TypeOK
<1>8. first' \in [Keys -> Nat \ {0}]
  <2>1. Len(grants[k]) \in Nat
    BY DEF TypeOK
  <2> QED
    BY <1>1, <2>1 DEF TypeOK
<1> QED
  BY <1>1, <1>3, <1>4, <1>5, <1>6, <1>7, <1>8 DEF TypeOK

\* TypeOK is inductive.
LEMMA NextType == TypeOK /\ [Next]_vars => TypeOK'
<1> SUFFICES ASSUME TypeOK, [Next]_vars PROVE TypeOK'
  OBVIOUS
<1>1. ASSUME NEW k \in Keys, Consume(k) PROVE TypeOK'
  BY <1>1, ConsumeType
<1>2. CASE Prune
  BY <1>2 DEF Prune, Stale, TypeOK, history
<1>3. ASSUME NEW s \in Shapes, Reconfigure(s) PROVE TypeOK'
  <2>1. \A k \in Keys : Len(grants[k]) + 1 \in Nat \ {0}
    BY DEF TypeOK
  <2> QED
    BY <1>3, <2>1 DEF Reconfigure, TypeOK
<1>4. ASSUME NEW d \in TickSizes, Tick(d) PROVE TypeOK'
  <2>1. now' \in Nat
    BY <1>4 DEF Tick
  <2> QED
    BY <1>4, <2>1 DEF Tick, TypeOK, history
<1>5. CASE UNCHANGED vars
  BY <1>5 DEF vars, history, TypeOK
<1> QED
  BY <1>1, <1>2, <1>3, <1>4, <1>5 DEF Next

\* Every reachable state is well typed, and no bucket ever holds more tokens
\* than its capacity.
THEOREM TypeCorrect == Spec => []TypeOK
  BY InitType, NextType, PTL DEF Spec

-----------------------------------------------------------------------------
(* A stale bucket that had the time to fill is full, because the idle time *)
(* counts from its last reply.                                             *)

UseAnswered == \A k \in DOMAIN buckets : buckets[k].lastUsedAt = replies[k].at

UseInv == TypeOK /\ UseAnswered

LEMMA InitUse == Init => UseInv
<1> SUFFICES ASSUME Init PROVE UseInv
  OBVIOUS
<1>1. DOMAIN buckets = {}
  BY DEF Init
<1> QED
  BY <1>1, InitType DEF UseInv, UseAnswered

\* Only Consume uses a bucket, and it is also what answers.
LEMMA NextUse == UseInv /\ [Next]_vars => UseInv'
<1> SUFFICES ASSUME UseInv, [Next]_vars PROVE UseAnswered'
  BY NextType DEF UseInv
<1>0. TypeOK /\ UseAnswered
  BY DEF UseInv
<1>1. ASSUME NEW k \in Keys, Consume(k) PROVE UseAnswered'
  <2>1. PICK b : b = BucketFor(k)
    OBVIOUS
  <2>2. Consumed(b).lastUsedAt = now
    BY <2>1, <1>0, BucketForSound, ConsumedSound DEF TypeOK
  <2>3. Result(b).at = now
    BY DEF Result
  <2>4. /\ buckets' = [j \in DOMAIN buckets \cup {k} |->
                         IF j = k THEN Consumed(b) ELSE buckets[j]]
        /\ replies' = [replies EXCEPT ![k] = Result(b)]
    BY <1>1, <2>1 DEF Consume
  <2>5. replies'[k] = Result(b) /\ \A j \in Keys \ {k} : replies'[j] = replies[j]
    BY <2>4, <1>0 DEF TypeOK
  <2>6. DOMAIN buckets \subseteq Keys
    BY <1>0 DEF TypeOK
  <2> QED
    BY <2>2, <2>3, <2>4, <2>5, <2>6, <1>0 DEF UseAnswered
<1>2. CASE Prune
  BY <1>2, <1>0 DEF Prune, UseAnswered
<1>3. ASSUME NEW s \in Shapes, Reconfigure(s) PROVE UseAnswered'
  BY <1>3, <1>0 DEF Reconfigure, UseAnswered
<1>4. ASSUME NEW d \in TickSizes, Tick(d) PROVE UseAnswered'
  BY <1>4, <1>0 DEF Tick, UseAnswered
<1>5. CASE UNCHANGED vars
  BY <1>5, <1>0 DEF vars, UseAnswered
<1> QED
  BY <1>1, <1>2, <1>3, <1>4, <1>5 DEF Next

LEMMA StaleFull == UseInv => PruneHarmless
<1> SUFFICES ASSUME UseInv,
                    NEW k \in Stale,
                    buckets[k].refillRate * IdleTtl >= Second * buckets[k].capacity,
                    buckets[k].lastRefillTime <= replies[k].at
             PROVE  Refill(buckets[k]).tokens = Second * buckets[k].capacity
  BY DEF PruneHarmless
<1> DEFINE b == buckets[k]
           r == b.refillRate
           full == b.capacity * Second
<1>1. /\ r \in Nat /\ b.capacity \in Nat /\ b.tokens \in Nat /\ now \in Nat
      /\ b.lastRefillTime \in Nat /\ b.lastUsedAt \in Nat /\ full \in Nat
      /\ b \in Bucket /\ b.tokens <= full /\ b.lastUsedAt = replies[k].at
  BY DEF Stale, UseInv, UseAnswered, TypeOK, Bucket
<1>2. IdleTtl <= now - b.lastRefillTime
  BY <1>1 DEF Stale, IsStale
<1>3. r * IdleTtl <= r * (now - b.lastRefillTime)
  BY <1>1, <1>2, ProductMonotone
<1>4. /\ Refilled(b) = r * (now - b.lastRefillTime)
      /\ full = Second * b.capacity
      /\ Refilled(b) \in Int
  BY <1>1 DEF Refilled
<1>5. Refilled(b) >= full
  BY <1>3, <1>4, <1>1
<1>6. CASE Refilled(b) > 0
  <2>1. Refill(b).tokens = Lesser(full, b.tokens + Refilled(b))
    BY <1>1, <1>6 DEF Refill, Bucket
  <2> QED
    BY <2>1, <1>1, <1>4, <1>5 DEF Lesser
<1>7. CASE ~(Refilled(b) > 0)
  <2>1. full = 0 /\ b.tokens = 0 /\ Refill(b) = b
    BY <1>1, <1>4, <1>5, <1>7 DEF Refill
  <2> QED
    BY <2>1, <1>4
<1> QED
  BY <1>6, <1>7

\* Whatever the limits and the clock, forgetting a bucket that could refill
\* while it was idle hands out nothing.
THEOREM PruneIsHarmless == Spec => []PruneHarmless
  BY InitUse, NextUse, StaleFull, PTL DEF Spec

-----------------------------------------------------------------------------
(* The window rate.  WindowRate speaks of windows that end with a grant;   *)
(* what carries it from one grant to the next is the credit of the bucket: *)
(* the grants since any grant i and the tokens still there are together no *)
(* more than the burst and the refill between that grant and the last      *)
(* refill.                                                                 *)

Credit(k, i) ==
  Second * (Len(grants[k]) - i + 1) + buckets[k].tokens <=
    Second * buckets[k].capacity
      + buckets[k].refillRate * (buckets[k].lastRefillTime - grants[k][i].at)

CreditKept ==
  \A k \in DOMAIN buckets :
    /\ buckets[k].lastRefillTime <= seen[k]
    /\ first[k] <= Len(grants[k]) + 1
    /\ \A i \in first[k] .. Len(grants[k]) : Credit(k, i)

RateInv == TypeOK /\ CreditKept /\ WindowRate

LEMMA InitRate == Init => RateInv
<1> SUFFICES ASSUME Init PROVE RateInv
  OBVIOUS
<1>1. DOMAIN buckets = {}
  BY DEF Init
<1> QED
  BY <1>1, InitType DEF RateInv, CreditKept, WindowRate

\* What a Consume does to the key that consumes, given its bucket b and that
\* bucket's refill c, and to the other keys.
Taken(k, b, c) ==
  /\ buckets'[k].capacity = b.capacity
  /\ buckets'[k].refillRate = b.refillRate
  /\ buckets'[k].lastRefillTime = c.lastRefillTime
  /\ HasToken(c) => /\ buckets'[k].tokens = c.tokens - Second
                    /\ grants'[k] = Append(grants[k], [at |-> now, seen |-> seen'[k]])
  /\ ~HasToken(c) => /\ buckets'[k].tokens = c.tokens
                     /\ grants'[k] = grants[k]
  /\ k \in DOMAIN buckets =>
       b = buckets[k] /\ first'[k] = first[k] /\ seen'[k] = Greater(seen[k], now)
  /\ k \notin DOMAIN buckets =>
       /\ first'[k] = Len(grants[k]) + 1
       /\ seen'[k] = now
       /\ b.lastRefillTime = now
  /\ \A j \in DOMAIN buckets \ {k} :
       /\ buckets'[j] = buckets[j] /\ grants'[j] = grants[j]
       /\ first'[j] = first[j] /\ seen'[j] = seen[j]
  /\ DOMAIN buckets' = DOMAIN buckets \cup {k}

LEMMA ConsumeEffect ==
  ASSUME TypeOK, NEW k \in Keys, Consume(k),
         NEW b, b = BucketFor(k), NEW c, c = Refill(b)
  PROVE  Taken(k, b, c)
<1>1. /\ buckets' = [j \in DOMAIN buckets \cup {k} |->
                       IF j = k THEN Consumed(b) ELSE buckets[j]]
      /\ seen' = [seen EXCEPT ![k] = IF k \notin DOMAIN buckets THEN now ELSE Greater(@, now)]
      /\ grants' = IF Result(b).allowed
                   THEN [grants EXCEPT ![k] = Append(@, [at |-> now, seen |-> seen'[k]])]
                   ELSE grants
      /\ first' = IF k \notin DOMAIN buckets
                  THEN [first EXCEPT ![k] = Len(grants[k]) + 1] ELSE first
  BY DEF Consume
<1>2. /\ Sound(b) /\ now \in Nat /\ config \in Shapes
      /\ grants \in [Keys -> Seq([at : Nat, seen : Nat])]
      /\ first \in [Keys -> Nat \ {0}] /\ seen \in [Keys -> Nat]
      /\ DOMAIN buckets \subseteq Keys
  BY BucketForSound DEF TypeOK
<1>3. Result(b).allowed <=> HasToken(c)
  BY <1>2, ResultReply
<1>4. k \in DOMAIN buckets => b = buckets[k]
  BY DEF BucketFor
<1>5. k \notin DOMAIN buckets => b.lastRefillTime = now
  BY <1>2, NewBucketSound DEF BucketFor
<1>6. /\ Consumed(b).capacity = b.capacity
      /\ Consumed(b).refillRate = b.refillRate
      /\ Consumed(b).lastRefillTime = c.lastRefillTime
      /\ HasToken(c) => Consumed(b).tokens = c.tokens - Second
      /\ ~HasToken(c) => Consumed(b).tokens = c.tokens
  BY <1>2, ConsumedSound
<1>7. buckets'[k] = Consumed(b)
  BY <1>1
<1>8. /\ HasToken(c) => grants'[k] = Append(grants[k], [at |-> now, seen |-> seen'[k]])
      /\ ~HasToken(c) => grants'[k] = grants[k]
  BY <1>1, <1>2, <1>3
<1>9. /\ k \in DOMAIN buckets => first'[k] = first[k] /\ seen'[k] = Greater(seen[k], now)
      /\ k \notin DOMAIN buckets => first'[k] = Len(grants[k]) + 1 /\ seen'[k] = now
  BY <1>1, <1>2
<1>10. \A j \in DOMAIN buckets \ {k} :
         /\ buckets'[j] = buckets[j] /\ grants'[j] = grants[j]
         /\ first'[j] = first[j] /\ seen'[j] = seen[j]
  BY <1>1, <1>2
<1> QED
  BY <1>1, <1>4, <1>5, <1>6, <1>7, <1>8, <1>9, <1>10 DEF Taken

\* What a grant adds to the history of its key, and what it leaves in place.
LEMMA AppendGrant ==
  ASSUME NEW S, NEW g \in Seq(S), NEW e \in S
  PROVE  /\ Append(g, e) \in Seq(S)
         /\ Len(Append(g, e)) = Len(g) + 1
         /\ Append(g, e)[Len(g) + 1] = e
         /\ \A i \in 1 .. Len(g) : Append(g, e)[i] = g[i]
  OBVIOUS

\* A refill earns no more than the time it accounts for ...
LEMMA RefillCredit ==
  ASSUME NEW r \in Nat, NEW burst \in Nat, NEW x \in Nat, NEW y \in Nat,
         NEW l \in Nat, NEW m \in Nat, NEW at \in Nat, NEW d \in Int,
         y <= x + r * (m - l),
         Second * d + x <= burst + r * (l - at)
  PROVE  Second * d + y <= burst + r * (m - at)
<1> DEFINE p == r * (m - at)
           q == r * (l - at)
           u == r * (m - l)
           v == Second * d
<1>1. p = q + u
  BY ProductSplit
<1>2. p \in Int /\ q \in Int /\ u \in Int /\ v \in Int
  OBVIOUS
<1>3. y <= x + u /\ v + x <= burst + q
  OBVIOUS
<1> HIDE DEF p, q, u, v
<1>4. v + y <= burst + p
  BY <1>1, <1>2, <1>3
<1> QED
  BY <1>4 DEF v, p

\* ... and a grant moves a token from the bucket to the count of grants.
LEMMA GrantCredit ==
  ASSUME NEW d \in Int, NEW y \in Int, NEW bound \in Int, Second * d + y <= bound
  PROVE  Second * (d + 1) + (y - Second) <= bound
<1>1. Second * (d + 1) = Second * d + Second
  OBVIOUS
<1>2. Second * d \in Int /\ Second \in Int
  OBVIOUS
<1> QED
  BY <1>1, <1>2

Record == [at : Nat, seen : Nat]

\* The history g of one key, from index f on, is paid for by a bucket that
\* holds left sub-tokens and was last refilled at l.
Paid(g, f, left, l, burst, r) ==
  \A i \in f .. Len(g) : Second * (Len(g) - i + 1) + left <= burst + r * (l - g[i].at)

Windows(g, f, burst, r) ==
  \A i, j \in f .. Len(g) :
    i <= j => Second * (j - i + 1) <= burst + r * (g[j].seen - g[i].at)

\* A refused request: the refill earns what it accounts for.
LEMMA RefusePaid ==
  ASSUME NEW g \in Seq(Record), NEW f \in Nat \ {0}, NEW burst \in Nat, NEW r \in Nat,
         NEW x \in Nat, NEW l \in Nat, NEW y \in Nat, NEW m \in Nat,
         y <= x + r * (m - l), Paid(g, f, x, l, burst, r)
  PROVE  Paid(g, f, y, m, burst, r)
<1> SUFFICES ASSUME NEW i \in f .. Len(g)
             PROVE  Second * (Len(g) - i + 1) + y <= burst + r * (m - g[i].at)
  BY DEF Paid
<1>1. g[i].at \in Nat /\ Len(g) - i + 1 \in Int
  <2>1. Len(g) \in Nat /\ i \in 1 .. Len(g)
    OBVIOUS
  <2>2. g[i] \in Record
    BY <2>1
  <2>3. g[i].at \in Nat
    BY <2>2 DEF Record
  <2>4. Len(g) - i + 1 \in Int
    BY <2>1
  <2> QED
    BY <2>3, <2>4
<1>2. Second * (Len(g) - i + 1) + x <= burst + r * (l - g[i].at)
  BY DEF Paid
<1> QED
  BY <1>1, <1>2, RefillCredit

\* A granted request, after the refill: the token leaves the bucket, and the
\* new grant itself is paid for by the burst.
LEMMA GrantPaid ==
  ASSUME NEW g \in Seq(Record), NEW f \in Nat \ {0}, NEW burst \in Nat, NEW r \in Nat,
         NEW y \in Nat, NEW m \in Nat, NEW t \in Nat, NEW u \in Nat,
         y <= burst, r * (m - t) >= 0, Paid(g, f, y, m, burst, r)
  PROVE  Paid(Append(g, [at |-> t, seen |-> u]), f, y - Second, m, burst, r)
<1> DEFINE e == [at |-> t, seen |-> u]
           h == Append(g, e)
           n == Len(g)
<1>1. e \in Record /\ e.at = t
  BY DEF Record
<1>2. /\ Len(h) = n + 1 /\ h[n + 1] = e /\ n \in Nat
      /\ \A i \in 1 .. n : h[i] = g[i]
  BY <1>1, AppendGrant
<1> HIDE DEF e, h, n
<1> SUFFICES ASSUME NEW i \in f .. (n + 1)
             PROVE  Second * ((n + 1) - i + 1) + (y - Second) <= burst + r * (m - h[i].at)
  BY <1>2 DEF Paid, h, e
<1>3. CASE i = n + 1
  <2>1. Second * ((n + 1) - i + 1) = Second
    BY <1>2, <1>3
  <2>2. h[i].at = t
    BY <1>1, <1>2, <1>3
  <2>3. r * (m - t) \in Int /\ r * (m - t) >= 0
    OBVIOUS
  <2>4. Second + (y - Second) <= burst + r * (m - t)
    BY <2>3
  <2> QED
    BY <2>1, <2>2, <2>4
<1>4. CASE i # n + 1
  <2>1. i \in f .. n /\ i \in 1 .. n /\ n - i + 1 \in Int
    BY <1>2, <1>4
  <2>2. h[i].at = g[i].at /\ g[i].at \in Nat
    <3>1. h[i] = g[i]
      BY <1>2, <2>1
    <3>2. g[i] \in Record
      BY <2>1 DEF n
    <3> QED
      BY <3>1, <3>2 DEF Record
  <2>3. Second * (n - i + 1) + y <= burst + r * (m - g[i].at)
    BY <2>1 DEF Paid, n
  <2>4. burst + r * (m - g[i].at) \in Int
    BY <2>2
  <2>5. Second * ((n - i + 1) + 1) + (y - Second) <= burst + r * (m - g[i].at)
    BY <2>1, <2>3, <2>4, GrantCredit
  <2>6. (n - i + 1) + 1 = (n + 1) - i + 1
    BY <1>2, <2>1
  <2> QED
    BY <2>5, <2>6, <2>2
<1> QED
  BY <1>3, <1>4

\* A window that ends with the new grant is paid for by the credit of its
\* first grant; an earlier window is as it was.
LEMMA GrantWindows ==
  ASSUME NEW g \in Seq(Record), NEW f \in Nat \ {0}, NEW burst \in Nat, NEW r \in Nat,
         NEW left \in Nat, NEW m \in Nat, NEW t \in Nat, NEW u \in Nat, m <= u,
         Windows(g, f, burst, r),
         Paid(Append(g, [at |-> t, seen |-> u]), f, left, m, burst, r)
  PROVE  Windows(Append(g, [at |-> t, seen |-> u]), f, burst, r)
<1> DEFINE e == [at |-> t, seen |-> u]
           h == Append(g, e)
           n == Len(g)
<1>1. e \in Record /\ e.seen = u
  BY DEF Record
<1>2. /\ Len(h) = n + 1 /\ h[n + 1] = e /\ n \in Nat
      /\ \A i \in 1 .. n : h[i] = g[i]
      /\ h \in Seq(Record)
  BY <1>1, AppendGrant
<1>3. \A i \in f .. (n + 1) :
        Second * ((n + 1) - i + 1) + left <= burst + r * (m - h[i].at)
  BY <1>2 DEF Paid
<1> HIDE DEF e, h, n
<1> SUFFICES ASSUME NEW i \in f .. (n + 1), NEW j \in f .. (n + 1), i <= j
             PROVE  Second * (j - i + 1) <= burst + r * (h[j].seen - h[i].at)
  BY <1>2 DEF Windows, h, e
<1>4. CASE j = n + 1
  <2> DEFINE at == h[i].at
             owed == Second * ((n + 1) - i + 1)
             p == r * (m - at)
             q == r * (u - at)
  <2>1. at \in Nat /\ h[j].seen = u
    <3>1. i \in 1 .. Len(h) /\ h[j] = e
      BY <1>2, <1>4
    <3>2. h[i] \in Record
      BY <3>1, <1>2
    <3> QED
      BY <3>1, <3>2, <1>1 DEF Record
  <2>2. owed + left <= burst + p
    BY <1>3
  <2> HIDE DEF at
  <2>3. p \in Int /\ q \in Int /\ owed \in Int
    <3>1. m - at \in Int /\ u - at \in Int /\ (n + 1) - i + 1 \in Int
      BY <2>1, <1>2
    <3> QED
      BY <3>1
  <2>4. p <= q
    <3>1. m - at \in Int /\ u - at \in Int /\ m - at <= u - at
      BY <2>1
    <3> QED
      BY <3>1, ProductMonotone
  <2> HIDE DEF owed, p, q
  <2>5. owed <= burst + q
    BY <2>2, <2>3, <2>4
  <2> QED
    BY <2>5, <2>1, <1>4 DEF owed, q, at
<1>5. CASE j # n + 1
  <2>1. i \in f .. n /\ j \in f .. n /\ i \in 1 .. n /\ j \in 1 .. n
    BY <1>2, <1>5
  <2>2. Second * (j - i + 1) <= burst + r * (g[j].seen - g[i].at)
    BY <2>1 DEF Windows, n
  <2>3. h[i] = g[i] /\ h[j] = g[j]
    BY <2>1, <1>2
  <2> QED
    BY <2>2, <2>3
<1> QED
  BY <1>4, <1>5

\* The two parts of RateInv that speak of a bucket, in terms of the above.
KeyRate(k) ==
  /\ buckets[k].lastRefillTime <= seen[k]
  /\ first[k] <= Len(grants[k]) + 1
  /\ Paid(grants[k], first[k], buckets[k].tokens, buckets[k].lastRefillTime,
          Second * buckets[k].capacity, buckets[k].refillRate)
  /\ Windows(grants[k], first[k], Second * buckets[k].capacity, buckets[k].refillRate)

LEMMA RateOfKeys == CreditKept /\ WindowRate <=> \A k \in DOMAIN buckets : KeyRate(k)
  BY DEF CreditKept, Credit, WindowRate, Within, KeyRate, Paid, Windows

LEMMA RateOfKeysNext ==
  (\A k \in DOMAIN buckets : KeyRate(k))' => CreditKept' /\ WindowRate'
  BY RateOfKeys, PTL

\* The key that consumes ...
LEMMA ConsumeKeyRate ==
  ASSUME TypeOK, TypeOK', NEW k \in Keys, Consume(k), k \in DOMAIN buckets => KeyRate(k)
  PROVE  KeyRate(k)'
<1> PICK b : b = BucketFor(k)
  OBVIOUS
<1> PICK c : c = Refill(b)
  OBVIOUS
<1>1. /\ Sound(b) /\ Sound(c) /\ now \in Nat
      /\ c.capacity = b.capacity
      /\ c.lastRefillTime \in {b.lastRefillTime, now}
  <2>1. Sound(b) /\ now \in Nat
    BY BucketForSound DEF TypeOK
  <2> QED
    BY <2>1, RefillSound
<1>2. /\ c.tokens <= b.tokens + b.refillRate * (c.lastRefillTime - b.lastRefillTime)
      /\ b.refillRate * (c.lastRefillTime - now) >= 0
  BY <1>1, RefillSound
<1>3. Taken(k, b, c)
  BY ConsumeEffect
<1>4. /\ grants[k] \in Seq(Record) /\ grants'[k] \in Seq(Record)
      /\ first'[k] \in Nat \ {0} /\ seen[k] \in Nat /\ seen'[k] \in Nat
  BY DEF TypeOK, Record
<1> PICK g : g = grants[k]
  OBVIOUS
<1> PICK f : f = first'[k]
  OBVIOUS
<1> PICK u : u = seen'[k]
  OBVIOUS
<1> PICK r : r = b.refillRate
  OBVIOUS
<1> PICK burst : burst = Second * b.capacity
  OBVIOUS
<1>5. /\ r \in Nat /\ burst \in Nat /\ b.tokens \in Nat /\ b.lastRefillTime \in Nat
      /\ c.tokens \in Nat /\ c.lastRefillTime \in Nat /\ c.tokens <= burst
  <2>1. /\ b.refillRate \in Nat /\ b.capacity \in Nat /\ b.tokens \in Nat
        /\ b.lastRefillTime \in Nat
    BY <1>1 DEF Sound, Bucket
  <2>2. c.tokens \in Nat /\ c.lastRefillTime \in Nat /\ c.tokens <= b.capacity * Second
    BY <1>1 DEF Sound, Bucket
  <2> QED
    BY <2>1, <2>2
<1>6. c.lastRefillTime <= u /\ f <= Len(g) + 1
  <2>1. CASE k \in DOMAIN buckets
    <3>1. /\ b.lastRefillTime <= seen[k] /\ f <= Len(g) + 1
          /\ u = Greater(seen[k], now)
      BY <2>1, <1>3 DEF KeyRate, Taken
    <3> QED
      <4>1. c.lastRefillTime <= seen[k] \/ c.lastRefillTime = now
        BY <3>1, <1>1
      <4>2. c.lastRefillTime \in Nat /\ seen[k] \in Nat /\ now \in Nat
        BY <1>1, <1>4, <1>5
      <4> QED
        BY <3>1, <4>1, <4>2 DEF Greater
  <2>2. CASE k \notin DOMAIN buckets
    <3>1. f = Len(g) + 1 /\ u = now /\ c.lastRefillTime = now
      BY <2>2, <1>1, <1>3 DEF Taken
    <3>2. Len(g) \in Nat
      BY <1>4
    <3> QED
      BY <3>1, <3>2, <1>1
  <2> QED
    BY <2>1, <2>2
<1>7. Paid(g, f, b.tokens, b.lastRefillTime, burst, r) /\ Windows(g, f, burst, r)
  <2>1. CASE k \in DOMAIN buckets
    BY <2>1, <1>3 DEF KeyRate, Taken
  <2>2. CASE k \notin DOMAIN buckets
    <3>1. f = Len(g) + 1 /\ Len(g) \in Nat
      BY <2>2, <1>3, <1>4 DEF Taken
    <3>2. \A i \in f .. Len(g) : FALSE
      BY <3>1
    <3> QED
      BY <3>2 DEF Paid, Windows
  <2> QED
    BY <2>1, <2>2
<1>8. Paid(g, f, c.tokens, c.lastRefillTime, burst, r)
  <2>1. c.tokens <= b.tokens + r * (c.lastRefillTime - b.lastRefillTime)
    BY <1>2
  <2>2. g \in Seq(Record) /\ f \in Nat \ {0}
    BY <1>4
  <2> QED
    BY <2>1, <2>2, <1>5, <1>7, RefusePaid
<1>9. CASE HasToken(c)
  <2>1. /\ grants'[k] = Append(g, [at |-> now, seen |-> u])
        /\ buckets'[k].tokens = c.tokens - Second
    BY <1>3, <1>9 DEF Taken
  <2>2. c.tokens - Second \in Nat
    BY <1>5, <1>9 DEF HasToken
  <2>3. Paid(grants'[k], f, c.tokens - Second, c.lastRefillTime, burst, r)
    <3>1. r * (c.lastRefillTime - now) >= 0
      BY <1>2
    <3>2. g \in Seq(Record) /\ f \in Nat \ {0} /\ u \in Nat /\ now \in Nat
      BY <1>1, <1>4
    <3>3. Paid(Append(g, [at |-> now, seen |-> u]), f, c.tokens - Second,
               c.lastRefillTime, burst, r)
      BY <3>1, <3>2, <1>5, <1>8, GrantPaid
    <3> QED
      BY <3>3, <2>1
  <2>4. Windows(grants'[k], f, burst, r)
    <3>1. g \in Seq(Record) /\ f \in Nat \ {0} /\ u \in Nat /\ now \in Nat
      BY <1>1, <1>4
    <3>2. Paid(Append(g, [at |-> now, seen |-> u]), f, c.tokens - Second,
               c.lastRefillTime, burst, r)
      BY <2>1, <2>3
    <3>3. Windows(Append(g, [at |-> now, seen |-> u]), f, burst, r)
      BY <3>1, <3>2, <2>2, <1>5, <1>6, <1>7, GrantWindows
    <3> QED
      BY <3>3, <2>1
  <2>5. Len(grants'[k]) = Len(g) + 1 /\ Len(g) \in Nat
    BY <2>1, <1>4
  <2>6. f <= Len(grants'[k]) + 1
    BY <2>5, <1>4, <1>6
  <2> QED
    BY <2>1, <2>3, <2>4, <2>6, <1>3, <1>6 DEF KeyRate, Taken
<1>10. CASE ~HasToken(c)
  BY <1>10, <1>3, <1>6, <1>7, <1>8 DEF KeyRate, Taken
<1> QED
  BY <1>9, <1>10

\* ... and the others.
LEMMA ConsumeRate ==
  ASSUME RateInv, NEW k \in Keys, Consume(k)
  PROVE  RateInv'
<1>1. TypeOK /\ TypeOK'
  BY ConsumeType DEF RateInv
<1>2. \A j \in DOMAIN buckets : KeyRate(j)
  BY RateOfKeys DEF RateInv
<1>3. KeyRate(k)'
  BY <1>1, <1>2, ConsumeKeyRate
<1>4. /\ \A j \in DOMAIN buckets \ {k} :
           /\ buckets'[j] = buckets[j] /\ grants'[j] = grants[j]
           /\ first'[j] = first[j] /\ seen'[j] = seen[j]
      /\ DOMAIN buckets' = DOMAIN buckets \cup {k}
  BY <1>1, ConsumeEffect DEF Taken
<1>5. ASSUME NEW j \in DOMAIN buckets', j # k
      PROVE  KeyRate(j)'
  BY <1>2, <1>4, <1>5 DEF KeyRate
<1>6. \A j \in DOMAIN buckets' : KeyRate(j)'
  BY <1>3, <1>5
<1>7. (\A j \in DOMAIN buckets : KeyRate(j))'
  BY <1>6
<1>8. CreditKept' /\ WindowRate'
  BY <1>7, RateOfKeysNext
<1> QED
  BY <1>1, <1>8 DEF RateInv

\* RateInv is inductive: only Consume touches what it speaks of, and Prune
\* only leaves fewer buckets to speak of.
LEMMA NextRate == RateInv /\ [Next]_vars => RateInv'
<1> SUFFICES ASSUME RateInv, [Next]_vars PROVE RateInv'
  OBVIOUS
<1>0. TypeOK'
  BY NextType DEF RateInv
<1>1. ASSUME NEW k \in Keys, Consume(k) PROVE RateInv'
  BY <1>1, ConsumeRate
<1>2. CASE Prune
  <2>1. /\ grants' = grants /\ first' = first /\ seen' = seen
        /\ DOMAIN buckets' \subseteq DOMAIN buckets
        /\ \A k \in DOMAIN buckets' : buckets'[k] = buckets[k]
    BY <1>2 DEF Prune, history
  <2> QED
    BY <2>1, <1>0 DEF RateInv, CreditKept, Credit, WindowRate, Within
<1>3. ASSUME NEW s \in Shapes, Reconfigure(s) PROVE RateInv'
  BY <1>0, <1>3 DEF Reconfigure, RateInv, CreditKept, Credit, WindowRate, Within
<1>4. ASSUME NEW d \in TickSizes, Tick(d) PROVE RateInv'
  BY <1>0, <1>4 DEF Tick, history, RateInv, CreditKept, Credit, WindowRate, Within
<1>5. CASE UNCHANGED vars
  BY <1>0, <1>5 DEF vars, history, RateInv, CreditKept, Credit, WindowRate, Within
<1> QED
  BY <1>1, <1>2, <1>3, <1>4, <1>5 DEF Next

\* No window of a bucket's life, whatever the limits, the requests and the
\* clock, holds more grants than the burst and the refill of that window.
THEOREM WindowRateHolds == Spec => []WindowRate
<1>1. RateInv => WindowRate
  BY DEF RateInv
<1> QED
  BY <1>1, InitRate, NextRate, PTL DEF Spec

-----------------------------------------------------------------------------
(* The wait a refused client is told.                                      *)

LEMMA Quotient ==
  ASSUME NEW m \in Nat, NEW b \in Nat \ {0}, NEW q, q = m \div b
  PROVE  q \in Nat /\ b * q <= m /\ m < b * q + b
  BY SMT

\* The rounded-up quotient is the first number that is enough.
LEMMA CeilDivLeast ==
  ASSUME NEW a \in Nat, NEW b \in Nat \ {0}, NEW x \in Int
  PROVE  x * b >= a <=> x >= CeilDiv(a, b)
<1> PICK q : q = (a + b - 1) \div b
  OBVIOUS
<1>1. a + b - 1 \in Nat
  OBVIOUS
<1>2. q \in Nat /\ b * q <= a + b - 1 /\ a + b - 1 < b * q + b
  BY <1>1, Quotient
<1>3. CASE x >= q
  <2>1. b * q <= b * x
    BY <1>2, <1>3, ProductMonotone
  <2>2. b * x = x * b
    OBVIOUS
  <2> QED
    BY <1>2, <1>3, <2>1, <2>2 DEF CeilDiv
<1>4. CASE x < q
  <2>1. b * x <= b * (q - 1)
    BY <1>2, <1>4, ProductMonotone
  <2>2. b * x = x * b /\ b * (q - 1) = b * q - b
    BY <1>2
  <2> QED
    BY <1>2, <1>4, <2>1, <2>2 DEF CeilDiv
<1> QED
  BY <1>2, <1>3, <1>4

\* What a refusal leaves: less than a token, and the wait that the bucket, which was
\* refilled when it refused, would be told again.
Refused(b, r) ==
  ~r.allowed =>
    /\ b.tokens < Second
    /\ r.resetAfter = ResetAfter(b)
    /\ b.refillRate >= 1 /\ r.at >= b.lastRefillTime => r.at = b.lastRefillTime

RetryInv == TypeOK /\ \A k \in DOMAIN buckets : Refused(buckets[k], replies[k])

LEMMA ConsumedRefuses ==
  ASSUME now \in Nat, NEW b, Sound(b)
  PROVE  Refused(Consumed(b), Result(b))
<1> PICK c : c = Refill(b)
  OBVIOUS
<1>1. /\ Sound(c) /\ c.capacity = b.capacity /\ c.refillRate = b.refillRate
      /\ c.lastRefillTime \in {b.lastRefillTime, now}
      /\ b.refillRate * (c.lastRefillTime - now) >= 0
      /\ b.refillRate \in Nat /\ c.lastRefillTime \in Nat /\ c.tokens \in Nat
  BY RefillSound DEF Sound, Bucket
<1>2. /\ Consumed(b).refillRate = b.refillRate
      /\ Consumed(b).lastRefillTime = c.lastRefillTime
      /\ ~HasToken(c) => Consumed(b).tokens = c.tokens
  BY ConsumedSound
<1>3. SUFFICES ASSUME ~HasToken(c)
               PROVE  Refused(Consumed(b), Result(b))
  BY DEF Refused, Result
<1>4. Result(b).at = now /\ Result(b).resetAfter = ResetAfter(c)
  BY <1>3 DEF Result
<1>5. ResetAfter(Consumed(b)) = ResetAfter(c)
  BY <1>1, <1>2, <1>3 DEF ResetAfter
<1>6. ASSUME b.refillRate >= 1, now >= c.lastRefillTime
      PROVE  now = c.lastRefillTime
  <2> PICK r, x : r = b.refillRate /\ x = c.lastRefillTime - now
    OBVIOUS
  <2>1. r \in Nat /\ r >= 1 /\ x \in Int /\ x <= 0 /\ r * x >= 0
    BY <1>1, <1>6
  <2>2. x < 0 => r * x < 0
    BY <2>1
  <2>3. x = 0
    BY <2>1, <2>2
  <2> QED
    BY <1>1, <2>3
<1> QED
  BY <1>1, <1>2, <1>3, <1>4, <1>5, <1>6 DEF Refused, HasToken

LEMMA InitRetry == Init => RetryInv
<1> SUFFICES ASSUME Init PROVE RetryInv
  OBVIOUS
<1>1. DOMAIN buckets = {}
  BY DEF Init
<1> QED
  BY <1>1, InitType DEF RetryInv

LEMMA NextRetry == RetryInv /\ [Next]_vars => RetryInv'
<1> SUFFICES ASSUME TypeOK, \A k \in DOMAIN buckets : Refused(buckets[k], replies[k]),
                    [Next]_vars
             PROVE  (\A k \in DOMAIN buckets : Refused(buckets[k], replies[k]))'
  BY NextType DEF RetryInv
<1>1. ASSUME NEW k \in Keys, Consume(k), NEW j \in DOMAIN buckets'
      PROVE  Refused(buckets'[j], replies'[j])
  <2> PICK b : b = BucketFor(k)
    OBVIOUS
  <2>1. Refused(Consumed(b), Result(b))
    BY BucketForSound, ConsumedRefuses DEF TypeOK
  <2>2. /\ buckets' = [i \in DOMAIN buckets \cup {k} |->
                         IF i = k THEN Consumed(b) ELSE buckets[i]]
        /\ replies' = [replies EXCEPT ![k] = Result(b)]
    BY <1>1 DEF Consume
  <2>3. DOMAIN buckets \subseteq Keys /\ DOMAIN replies = Keys
    BY DEF TypeOK
  <2>4. CASE j = k
    BY <2>1, <2>2, <2>3, <2>4
  <2>5. CASE j # k
    BY <1>1, <2>2, <2>3, <2>5
  <2> QED
    BY <2>4, <2>5
<1>2. ASSUME NEW k \in Keys, Consume(k)
      PROVE  (\A j \in DOMAIN buckets : Refused(buckets[j], replies[j]))'
  BY <1>1, <1>2 DEF Refused, ResetAfter
<1>3. CASE Prune
  BY <1>3 DEF Prune, Refused, ResetAfter
<1>4. ASSUME NEW s \in Shapes, Reconfigure(s)
      PROVE  (\A j \in DOMAIN buckets : Refused(buckets[j], replies[j]))'
  BY <1>4 DEF Reconfigure, Refused, ResetAfter
<1>5. ASSUME NEW d \in TickSizes, Tick(d)
      PROVE  (\A j \in DOMAIN buckets : Refused(buckets[j], replies[j]))'
  BY <1>5 DEF Tick, Refused, ResetAfter
<1>6. CASE UNCHANGED vars
  BY <1>6 DEF vars, Refused, ResetAfter
<1> QED
  BY <1>2, <1>3, <1>4, <1>5, <1>6 DEF Next

\* The refill gives a bucket its token when the time that passed has earned what it
\* lacks.
LEMMA TokenIsEarned ==
  ASSUME now \in Nat, NEW b, Sound(b), b.capacity >= 1, b.refillRate >= 1, b.tokens < Second
  PROVE  HasToken(Refill(b)) <=> now >= b.lastRefillTime + ResetAfter(b)
<1> PICK r, x, lack : r = b.refillRate /\ x = now - b.lastRefillTime /\ lack = Second - b.tokens
  OBVIOUS
<1>1. /\ r \in Nat \ {0} /\ x \in Int /\ lack \in Nat \ {0} /\ b.tokens \in Nat
      /\ b.lastRefillTime \in Nat /\ b.capacity \in Nat \ {0} /\ b \in Bucket
  BY DEF Sound, Bucket
<1>2. /\ ResetAfter(b) = CeilDiv(lack, r) /\ CeilDiv(lack, r) \in Nat
      /\ Refilled(b) = x * r /\ x * r \in Int
  <2>1. ResetAfter(b) = CeilDiv(lack, r)
    BY <1>1 DEF ResetAfter
  <2>2. CeilDiv(lack, r) \in Nat
    BY <1>1, CeilDivNat
  <2>3. Refilled(b) = x * r /\ x * r \in Int
    BY <1>1 DEF Refilled
  <2> QED
    BY <2>1, <2>2, <2>3
<1>3. x * r >= lack <=> x >= CeilDiv(lack, r)
  BY <1>1, CeilDivLeast
<1>4. HasToken(Refill(b)) <=> x * r >= lack
  <2>1. CASE x * r > 0
    <3> PICK full : full = b.capacity * Second
      OBVIOUS
    <3>1. full \in Nat /\ full >= Second
      <4>1. Second * 1 <= Second * b.capacity
        BY <1>1, ProductMonotone
      <4> QED
        BY <1>1, <4>1
    <3>2. Refill(b).tokens = Lesser(full, b.tokens + x * r)
      BY <1>1, <1>2, <2>1 DEF Refill, Bucket
    <3> QED
      BY <1>1, <1>2, <3>1, <3>2 DEF HasToken, Lesser
  <2>2. CASE ~(x * r > 0)
    BY <1>1, <1>2, <2>2 DEF Refill, HasToken
  <2> QED
    BY <2>1, <2>2
<1> QED
  BY <1>1, <1>2, <1>3, <1>4

\* A refused client is let through from resetAfterMs on and not before, whatever the
\* limits and however the clock moves meanwhile (tokenBucket.js, consume()).
THEOREM RetriesAreHonoured == Spec => []RetryHonoured
<1>1. RetryInv => RetryHonoured
  <2> SUFFICES ASSUME RetryInv, NEW k \in DOMAIN buckets, ~replies[k].allowed,
                      replies[k].at >= buckets[k].lastRefillTime,
                      buckets[k].capacity >= 1, buckets[k].refillRate >= 1
               PROVE  HasToken(Refill(buckets[k]))
                        <=> now >= replies[k].at + replies[k].resetAfter
    BY DEF RetryHonoured
  <2>1. /\ buckets[k].tokens < Second /\ replies[k].resetAfter = ResetAfter(buckets[k])
        /\ replies[k].at = buckets[k].lastRefillTime
    BY DEF RetryInv, Refused
  <2>2. now \in Nat /\ Sound(buckets[k])
    BY DEF RetryInv, TypeOK, Sound
  <2> QED
    BY <2>1, <2>2, TokenIsEarned
<1> QED
  BY <1>1, InitRetry, NextRetry, PTL DEF Spec

-----------------------------------------------------------------------------
(* While the clock only advances, the lazy bucket is the one that is filled *)
(* at every tick: no bucket has a refill that lies in the future, and its   *)
(* limits are among those the route was configured with.                    *)

ShapeOf(b) == [capacity |-> b.capacity, refillRate |-> b.refillRate]

Level(b) == Refill(b).tokens

EagerInv ==
  /\ TypeOK
  /\ \A k \in DOMAIN buckets :
       buckets[k].lastRefillTime <= now /\ ShapeOf(buckets[k]) \in Shapes

\* The level of such a bucket, and what a further wait makes of it.
LEMMA LevelIs ==
  ASSUME now \in Nat, NEW b, Sound(b), b.lastRefillTime <= now
  PROVE  /\ Level(b) = Lesser(b.capacity * Second,
                              b.tokens + (now - b.lastRefillTime) * b.refillRate)
         /\ Level(b) \in Nat /\ Level(b) <= b.capacity * Second
         /\ Refill(b).lastRefillTime <= now
<1> PICK x, full : /\ x = (now - b.lastRefillTime) * b.refillRate
                   /\ full = b.capacity * Second
  OBVIOUS
<1>1. /\ x \in Nat /\ full \in Nat /\ b.tokens \in Nat /\ b.tokens <= full
      /\ b \in Bucket /\ b.lastRefillTime \in Nat
  <2>1. /\ b.capacity \in Nat /\ b.refillRate \in Nat /\ b.lastRefillTime \in Nat
        /\ b.tokens \in Nat /\ b.tokens <= b.capacity * Second /\ b \in Bucket
    BY DEF Sound, Bucket
  <2>2. now - b.lastRefillTime \in Nat
    BY <2>1
  <2> QED
    BY <2>1, <2>2
<1>2. CASE x > 0
  <2>1. Refill(b) = [b EXCEPT !.tokens = Lesser(full, b.tokens + x), !.lastRefillTime = now]
    BY <1>2 DEF Refill, Refilled
  <2>2. Refill(b).tokens = Lesser(full, b.tokens + x) /\ Refill(b).lastRefillTime = now
    BY <1>1, <2>1 DEF Bucket
  <2> QED
    BY <1>1, <2>2 DEF Level, Lesser
<1>3. CASE ~(x > 0)
  <2>1. Refill(b) = b /\ x = 0
    BY <1>1, <1>3 DEF Refill, Refilled
  <2> QED
    BY <1>1, <2>1 DEF Level, Lesser
<1> QED
  BY <1>2, <1>3

\* consume() leaves nothing to be refilled at the same moment.
LEMMA ConsumedLevel ==
  ASSUME now \in Nat, NEW b, Sound(b), b.lastRefillTime <= now
  PROVE  /\ Level(Consumed(b)) =
              IF HasToken(Refill(b)) THEN Level(b) - Second ELSE Level(b)
         /\ Consumed(b).lastRefillTime <= now
<1> PICK c, e : c = Refill(b) /\ e = Consumed(b)
  OBVIOUS
<1>1. /\ Sound(e) /\ e.refillRate = b.refillRate /\ e.lastRefillTime = c.lastRefillTime
      /\ e.tokens = IF HasToken(c) THEN c.tokens - Second ELSE c.tokens
  BY ConsumedSound
<1>2. /\ c.lastRefillTime <= now /\ b.refillRate * (c.lastRefillTime - now) >= 0
      /\ c.lastRefillTime \in Nat /\ b.refillRate \in Nat
  BY LevelIs, RefillSound DEF Sound, Bucket
<1>3. Refilled(e) <= 0
  <2> PICK r, x : r = b.refillRate /\ x = now - c.lastRefillTime
    OBVIOUS
  <2>1. r \in Nat /\ x \in Int /\ c.lastRefillTime - now = 0 - x
    BY <1>2
  <2>2. r * (0 - x) >= 0
    BY <1>2, <2>1
  <2>3. x * r <= 0
    BY <2>1, <2>2
  <2> QED
    BY <1>1, <2>3 DEF Refilled
<1>4. Refill(e) = e
  <2>1. Refilled(e) \in Int
    BY <1>1, <1>2 DEF Refilled
  <2> QED
    BY <1>3, <2>1 DEF Refill
<1> QED
  BY <1>1, <1>2, <1>4 DEF Level

LEMMA ShapeIn ==
  ASSUME EagerInv, NEW k
  PROVE  /\ Sound(BucketFor(k)) /\ BucketFor(k).lastRefillTime <= now
         /\ ShapeOf(BucketFor(k)) \in Shapes
<1>1. Sound(BucketFor(k)) /\ now \in Nat /\ config \in Shapes
  BY BucketForSound DEF EagerInv, TypeOK
<1>2. CASE k \in DOMAIN buckets
  BY <1>1, <1>2 DEF EagerInv, BucketFor
<1>3. CASE k \notin DOMAIN buckets
  <2>1. BucketFor(k) = NewBucket(config)
    BY <1>3 DEF BucketFor
  <2>2. ShapeOf(NewBucket(config)) = config
    BY <1>1 DEF ShapeOf, NewBucket
  <2> QED
    BY <1>1, <2>1, <2>2, NewBucketSound
<1> QED
  BY <1>2, <1>3

LEMMA InitEager == Init => EagerInv
<1> SUFFICES ASSUME Init PROVE EagerInv
  OBVIOUS
<1>1. DOMAIN buckets = {}
  BY DEF Init
<1> QED
  BY <1>1, InitType DEF EagerInv

LEMMA NextEager ==
  ASSUME TickSizes \subseteq Nat, EagerInv, [Next]_vars
  PROVE  EagerInv'
<1>1. TypeOK /\ TypeOK' /\ now \in Nat
  BY NextType DEF EagerInv, TypeOK
<1>2. ASSUME NEW k \in Keys, Consume(k) PROVE EagerInv'
  <2> PICK b : b = BucketFor(k)
    OBVIOUS
  <2>1. /\ Sound(b) /\ b.lastRefillTime <= now /\ ShapeOf(b) \in Shapes
    BY ShapeIn
  <2>2. /\ Consumed(b).lastRefillTime <= now /\ ShapeOf(Consumed(b)) = ShapeOf(b)
    BY <1>1, <2>1, ConsumedLevel, ConsumedSound DEF ShapeOf
  <2>3. /\ buckets' = [j \in DOMAIN buckets \cup {k} |->
                         IF j = k THEN Consumed(b) ELSE buckets[j]]
        /\ now' = now
    BY <1>2 DEF Consume
  <2>4. ASSUME NEW j \in DOMAIN buckets'
        PROVE  buckets'[j].lastRefillTime <= now' /\ ShapeOf(buckets'[j]) \in Shapes
    <3>1. CASE j = k
      BY <2>1, <2>2, <2>3, <3>1
    <3>2. CASE j # k
      BY <2>3, <2>4, <3>2 DEF EagerInv
    <3> QED
      BY <3>1, <3>2
  <2> QED
    BY <1>1, <2>4 DEF EagerInv, ShapeOf
<1>3. CASE Prune
  BY <1>1, <1>3 DEF Prune, EagerInv, ShapeOf
<1>4. ASSUME NEW s \in Shapes, Reconfigure(s) PROVE EagerInv'
  BY <1>1, <1>4 DEF Reconfigure, EagerInv, ShapeOf
<1>5. ASSUME NEW d \in TickSizes, Tick(d) PROVE EagerInv'
  <2>1. \A k \in DOMAIN buckets : buckets[k].lastRefillTime \in Nat
    BY <1>1 DEF TypeOK, Bucket
  <2>2. d \in Nat /\ now' = now + d /\ buckets' = buckets
    BY <1>5 DEF Tick
  <2>3. \A k \in DOMAIN buckets : buckets[k].lastRefillTime <= now'
    BY <1>1, <2>1, <2>2 DEF EagerInv
  <2> QED
    BY <1>1, <2>2, <2>3 DEF EagerInv, ShapeOf
<1>6. CASE UNCHANGED vars
  BY <1>1, <1>6 DEF vars, EagerInv, ShapeOf
<1> QED
  BY <1>2, <1>3, <1>4, <1>5, <1>6 DEF Next

\* The eager state that TokenBucket stands for: what Eager is given.
shapes == [k \in DOMAIN buckets |->
             [capacity |-> buckets[k].capacity, refillRate |-> buckets[k].refillRate]]
levels == [k \in DOMAIN buckets |-> Refill(buckets[k]).tokens]
allowances == [k \in Keys |-> replies[k].allowed]

LevelAt(b, t) ==
  Lesser(b.capacity * Second, b.tokens + (t - b.lastRefillTime) * b.refillRate)

LEMMA LevelsAre == EagerInv => levels = [k \in DOMAIN buckets |-> LevelAt(buckets[k], now)]
<1> SUFFICES ASSUME EagerInv, NEW k \in DOMAIN buckets
             PROVE  Refill(buckets[k]).tokens = LevelAt(buckets[k], now)
  BY DEF levels
<1>1. now \in Nat /\ Sound(buckets[k]) /\ buckets[k].lastRefillTime <= now
  BY DEF EagerInv, TypeOK, Sound
<1> QED
  BY <1>1, LevelIs DEF Level, LevelAt

LEMMA LevelsNext == EagerInv' => levels' = [k \in DOMAIN buckets' |-> LevelAt(buckets'[k], now')]
<1>1. EagerInv' => (levels = [k \in DOMAIN buckets |-> LevelAt(buckets[k], now)])'
  BY LevelsAre, PTL
<1> QED
  BY <1>1

LEMMA InitImplements == Init => Eager!Init
<1> SUFFICES ASSUME Init PROVE Eager!Init
  OBVIOUS
<1>1. DOMAIN buckets = {} /\ now = 0 /\ \A k \in Keys : replies[k].allowed = FALSE
  BY DEF Init, NoReply
<1> QED
  BY <1>1 DEF Eager!Init

\* A request takes its token from the level that is there at that moment.
LEMMA ConsumeImplements ==
  ASSUME EagerInv, EagerInv', NEW k \in Keys, Consume(k)
  PROVE  \E s \in Shapes : Eager!Take(k, s)
<1> PICK b, e, s : b = BucketFor(k) /\ e = Consumed(b) /\ s = ShapeOf(b)
  OBVIOUS
<1>1. /\ Sound(b) /\ b.lastRefillTime <= now /\ s \in Shapes /\ now \in Nat
      /\ TypeOK /\ DOMAIN buckets \subseteq Keys
  BY ShapeIn DEF EagerInv, TypeOK
<1>2. /\ buckets' = [j \in DOMAIN buckets \cup {k} |-> IF j = k THEN e ELSE buckets[j]]
      /\ replies' = [replies EXCEPT ![k] = Result(b)] /\ now' = now
  BY DEF Consume
<1>3. /\ Level(e) = IF HasToken(Refill(b)) THEN Level(b) - Second ELSE Level(b)
      /\ Sound(e) /\ e.lastRefillTime <= now
      /\ e.capacity = b.capacity /\ e.refillRate = b.refillRate
  BY <1>1, ConsumedLevel, ConsumedSound
<1>4. /\ Level(e) = LevelAt(e, now) /\ Level(b) = LevelAt(b, now)
      /\ Level(b) \in Nat /\ Level(b) <= b.capacity * Second
  BY <1>1, <1>3, LevelIs DEF LevelAt
<1>5. Result(b).allowed = (Level(b) >= Second)
  BY <1>1, ResultReply DEF Reply, Level, HasToken
<1>6. k \in DOMAIN buckets => s = shapes[k]
  BY DEF BucketFor, ShapeOf, shapes
<1>7. shapes' = [j \in DOMAIN shapes \cup {k} |-> IF j = k THEN s ELSE shapes[j]]
  BY <1>2, <1>3 DEF shapes, ShapeOf
<1>8. allowances' = [allowances EXCEPT ![k] = Level(b) >= Second]
  BY <1>1, <1>2, <1>5 DEF allowances, TypeOK
<1>9. levels' = [j \in DOMAIN levels \cup {k} |->
                   IF j # k THEN levels[j]
                   ELSE Level(b) - (IF Level(b) >= Second THEN Second ELSE 0)]
  <2>1. /\ levels = [j \in DOMAIN buckets |-> LevelAt(buckets[j], now)]
        /\ levels' = [j \in DOMAIN buckets' |-> LevelAt(buckets'[j], now')]
    BY LevelsAre, LevelsNext
  <2>2. LevelAt(e, now) = Level(b) - (IF Level(b) >= Second THEN Second ELSE 0)
    BY <1>3, <1>4 DEF HasToken, Level
  <2> QED
    BY <1>2, <2>1, <2>2
<1>10. Level(b) = IF k \in DOMAIN levels THEN levels[k] ELSE s.capacity * Second
  <2>1. CASE k \in DOMAIN buckets
    BY <2>1 DEF BucketFor, Level, levels
  <2>2. CASE k \notin DOMAIN buckets
    <3>1. b = NewBucket(config) /\ b.lastRefillTime = now
      BY <1>1, <2>2, NewBucketSound DEF BucketFor, TypeOK
    <3>2. b.tokens = b.capacity * Second /\ s.capacity = b.capacity
      BY <3>1 DEF NewBucket, ShapeOf
    <3>3. /\ (now - b.lastRefillTime) * b.refillRate = 0 /\ b.tokens \in Nat
      BY <1>1, <3>1 DEF Sound, Bucket
    <3>4. LevelAt(b, now) = b.tokens
      BY <3>2, <3>3 DEF LevelAt, Lesser
    <3> QED
      BY <1>4, <2>2, <3>2, <3>4 DEF levels
  <2> QED
    BY <2>1, <2>2
<1>11. allowances'[k] = (Level(b) >= Second)
  BY <1>8 DEF allowances
<1>12. DOMAIN shapes = DOMAIN buckets /\ DOMAIN levels = DOMAIN buckets
  BY DEF shapes, levels
<1>13. Eager!Take(k, s)
  BY <1>2, <1>6, <1>7, <1>8, <1>9, <1>10, <1>11, <1>12
     DEF Eager!Take, Eager!LevelOf, Eager!Full, shapes, levels, allowances
<1> QED
  BY <1>1, <1>13

\* What time adds to a bucket it adds to its level.
LEMMA TickImplements ==
  ASSUME TickSizes \subseteq Nat, EagerInv, EagerInv', NEW d \in TickSizes, Tick(d)
  PROVE  Eager!Elapse(d)
<1>1. d \in Nat /\ now' = now + d /\ buckets' = buckets /\ replies' = replies /\ now \in Nat
  BY DEF Tick, EagerInv, TypeOK
<1>2. shapes' = shapes /\ allowances' = allowances
  BY <1>1 DEF shapes, allowances
<1>3. /\ levels = [j \in DOMAIN buckets |-> LevelAt(buckets[j], now)]
      /\ levels' = [j \in DOMAIN buckets' |-> LevelAt(buckets'[j], now')]
  BY LevelsAre, LevelsNext
<1>4. ASSUME NEW k \in DOMAIN buckets
      PROVE  LevelAt(buckets[k], now + d) =
               Lesser(buckets[k].capacity * Second,
                      LevelAt(buckets[k], now) + d * buckets[k].refillRate)
  <2> PICK t, r, l, full :
        /\ t = buckets[k].tokens /\ r = buckets[k].refillRate
        /\ l = buckets[k].lastRefillTime /\ full = buckets[k].capacity * Second
    OBVIOUS
  <2>1. t \in Nat /\ r \in Nat /\ l \in Nat /\ full \in Nat /\ l <= now /\ t <= full
    <3>1. /\ buckets[k] \in Bucket /\ buckets[k].lastRefillTime <= now
          /\ buckets[k].tokens <= buckets[k].capacity * Second
      BY DEF EagerInv, TypeOK
    <3>2. buckets[k].capacity \in Nat /\ t \in Nat /\ r \in Nat /\ l \in Nat
      BY <3>1 DEF Bucket
    <3> QED
      BY <3>1, <3>2
  <2>2. ((now + d) - l) * r = (now - l) * r + d * r
    BY <1>1, <2>1
  <2>3. (now - l) * r \in Int /\ d * r \in Nat
    BY <1>1, <2>1
  <2> PICK x, y : x = (now - l) * r /\ y = d * r
    OBVIOUS
  <2>4. Lesser(full, t + (x + y)) = Lesser(full, Lesser(full, t + x) + y)
    BY <2>1, <2>3 DEF Lesser
  <2> QED
    BY <2>2, <2>4 DEF LevelAt
<1>5. levels' = [k \in DOMAIN levels |->
                   Lesser(shapes[k].capacity * Second, levels[k] + d * shapes[k].refillRate)]
  BY <1>1, <1>3, <1>4 DEF shapes
<1> QED
  BY <1>1, <1>2, <1>5
     DEF Eager!Elapse, Eager!Full, Eager!Lesser, Lesser, shapes, levels, allowances

LEMMA PruneImplements ==
  ASSUME EagerInv, EagerInv', Prune
  PROVE  \E D \in SUBSET Keys : Eager!Forget(D)
<1>1. /\ Stale \subseteq DOMAIN buckets /\ DOMAIN buckets \subseteq Keys
      /\ buckets' = [k \in DOMAIN buckets \ Stale |-> buckets[k]]
      /\ now' = now /\ replies' = replies
  BY DEF Prune, Stale, EagerInv, TypeOK, history
<1> PICK D : D = Stale
  OBVIOUS
<1>2. shapes' = [k \in DOMAIN shapes \ D |-> shapes[k]] /\ allowances' = allowances
  BY <1>1 DEF shapes, allowances
<1>3. levels' = [k \in DOMAIN levels \ D |-> levels[k]]
  <2>1. /\ levels = [j \in DOMAIN buckets |-> LevelAt(buckets[j], now)]
        /\ levels' = [j \in DOMAIN buckets' |-> LevelAt(buckets'[j], now')]
    BY LevelsAre, LevelsNext
  <2> QED
    BY <1>1, <2>1
<1>4. Eager!Forget(D)
  BY <1>1, <1>2, <1>3 DEF Eager!Forget, shapes, levels, allowances
<1> QED
  BY <1>1, <1>4

LEMMA SameImplements ==
  ASSUME EagerInv, EagerInv', UNCHANGED <<now, buckets, replies>>
  PROVE  UNCHANGED Eager!vars
<1>1. shapes' = shapes /\ allowances' = allowances
  BY DEF shapes, allowances
<1>2. levels' = levels
  <2>1. /\ levels = [j \in DOMAIN buckets |-> LevelAt(buckets[j], now)]
        /\ levels' = [j \in DOMAIN buckets' |-> LevelAt(buckets'[j], now')]
    BY LevelsAre, LevelsNext
  <2> QED
    BY <2>1
<1> QED
  BY <1>1, <1>2 DEF Eager!vars, shapes, levels, allowances

LEMMA NextImplements ==
  ASSUME TickSizes \subseteq Nat, EagerInv, [Next]_vars
  PROVE  [Eager!Next]_(Eager!vars)
<1>1. EagerInv'
  BY NextEager
<1>2. ASSUME NEW k \in Keys, Consume(k) PROVE Eager!Next
  BY <1>1, <1>2, ConsumeImplements DEF Eager!Next
<1>3. CASE Prune
  BY <1>1, <1>3, PruneImplements DEF Eager!Next
<1>4. ASSUME NEW s \in Shapes, Reconfigure(s) PROVE UNCHANGED Eager!vars
  BY <1>1, <1>4, SameImplements DEF Reconfigure
<1>5. ASSUME NEW d \in TickSizes, Tick(d) PROVE Eager!Next
  BY <1>1, <1>5, TickImplements DEF Eager!Next
<1>6. CASE UNCHANGED vars
  BY <1>1, <1>6, SameImplements DEF vars
<1> QED
  BY <1>2, <1>3, <1>4, <1>5, <1>6 DEF Next

\* Where the clock is not set back, the bucket that is refilled when a request comes
\* grants what a bucket filled at every tick would grant, as the header of
\* tokenBucket.js says.
THEOREM LazyIsEager ==
  ASSUME TickSizes \subseteq Nat
  PROVE  Spec => ImplementsEager
<1>1. EagerInv /\ [Next]_vars => EagerInv'
  BY NextEager
<1>2. EagerInv /\ [Next]_vars => [Eager!Next]_(Eager!vars)
  BY NextImplements
<1> QED
  BY <1>1, <1>2, InitEager, InitImplements, PTL DEF Spec, ImplementsEager, Eager!Spec

=============================================================================

---------------------------- MODULE EagerBucket ----------------------------
(***************************************************************************)
(* What a token bucket promises, with no mention of how the refill is      *)
(* computed: a level per client that rises with every passing clock tick,  *)
(* never above the burst ceiling, and that each granted request lowers by  *)
(* one token.  This is the bucket "with a refill timer" that the header of *)
(* tokenBucket.js says the lazy computation stands for.                    *)
(*                                                                         *)
(* Levels are counted in sub-tokens: one token is Second sub-tokens, so    *)
(* that a rate of r tokens per second adds exactly r sub-tokens per tick.  *)
(***************************************************************************)
EXTENDS Integers

CONSTANTS
  Keys,       \* the "<ip>:<prefix>" pairs that are rate limited
  Shapes,     \* the [capacity, refillRate] pairs a bucket may be built with
  Second,     \* clock ticks per second
  TickSizes   \* by how many ticks the clock may advance at once

VARIABLES
  now,        \* the wall clock, in ticks
  shape,      \* per live bucket: its capacity and refill rate
  level,      \* per live bucket: the sub-tokens in it
  granted     \* per key: whether its last request was let through

vars == <<now, shape, level, granted>>

Full(s) == s.capacity * Second

Lesser(a, b) == IF a <= b THEN a ELSE b

Init ==
  /\ now = 0
  /\ shape = [k \in {} |-> 0]
  /\ level = [k \in {} |-> 0]
  /\ granted = [k \in Keys |-> FALSE]

\* Time passes: every bucket fills, up to its own ceiling.
Elapse(d) ==
  /\ now' = now + d
  /\ level' = [k \in DOMAIN level |->
                 Lesser(Full(shape[k]), level[k] + d * shape[k].refillRate)]
  /\ UNCHANGED <<shape, granted>>

\* A client without a bucket is given a full one.
LevelOf(k, s) == IF k \in DOMAIN level THEN level[k] ELSE Full(s)

\* A request is granted exactly when a whole token is there, and takes it.
Take(k, s) ==
  /\ k \in DOMAIN shape => s = shape[k]
  /\ shape' = [j \in DOMAIN shape \cup {k} |-> IF j = k THEN s ELSE shape[j]]
  /\ granted' = [granted EXCEPT ![k] = LevelOf(k, s) >= Second]
  /\ level' = [j \in DOMAIN level \cup {k} |->
                 IF j # k THEN level[j]
                 ELSE LevelOf(k, s) - (IF granted'[k] THEN Second ELSE 0)]
  /\ UNCHANGED now

\* Buckets may be forgotten.
Forget(D) ==
  /\ D \subseteq DOMAIN level
  /\ shape' = [k \in DOMAIN shape \ D |-> shape[k]]
  /\ level' = [k \in DOMAIN level \ D |-> level[k]]
  /\ UNCHANGED <<now, granted>>

Next ==
  \/ \E d \in TickSizes : Elapse(d)
  \/ \E k \in Keys, s \in Shapes : Take(k, s)
  \/ \E D \in SUBSET Keys : Forget(D)

Spec == Init /\ [][Next]_vars

=============================================================================

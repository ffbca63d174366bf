--------------------------- MODULE MCTokenBucket ---------------------------
(***************************************************************************)
(* Small instances of TokenBucket for TLC.                                 *)
(***************************************************************************)
EXTENDS TokenBucket

CONSTANTS c1, c2

Shape(c, r) == [capacity |-> c, refillRate |-> r]

MCKeys == {c1, c2}
OneKey == {c1}

\* A burst of two at one token per second, a tighter limit, one that refills
\* faster than a token per tick, and one that never refills.
Varied == {Shape(2, 1), Shape(1, 1), Shape(2, 3), Shape(1, 0)}
\* Two tokens that take two seconds to come back.
Plain == {Shape(2, 1)}

\* A clock that only advances, and one that is sometimes set back.
Forward == {1}
SteppedBack == {1, -2}

=============================================================================

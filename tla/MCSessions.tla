----------------------------- MODULE MCSessions -----------------------------
(***************************************************************************)
(* Small instances of Sessions for TLC: one account on two browsers.       *)
(***************************************************************************)
EXTENDS Sessions, TLC

CONSTANTS ann, b1, b2, r1, r2, r3

OneUser == {ann}
TwoBrowsers == {b1, b2}
OneBrowser == {b1}
SameUser == [b \in Browsers |-> ann]

\* A password change may do whatever another call of the API may do.
EitherWay == {"password", "logout"}
OnlyApi == {"api"}

\* Two calls of the first browser and one of the second.
ThreeRequests == {r1, r2, r3}
SplitBrowserOf == r1 :> b1 @@ r2 :> b1 @@ r3 :> b2

\* Two calls of one browser.
TwoRequests == {r1, r2}
AllOfB1 == [r \in Requests |-> b1]

=============================================================================

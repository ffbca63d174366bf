----------------------------- MODULE MCGateway -----------------------------
(***************************************************************************)
(* Small instances of Gateway for TLC: one managed path.                   *)
(***************************************************************************)
EXTENDS Gateway, TLC

CONSTANTS ann, bob, p, u1, u2

Client == "c"
Send(method, query, body) ==
  [client |-> Client, method |-> method, host |-> "h", path |-> p, query |-> query, body |-> body]

Row(id, owner, upstream, limited, cached) ==
  [id |-> id, owner |-> owner, prefix |-> "/p", upstream |-> upstream,
   limited |-> limited, cached |-> cached, ttl |-> 1]

\* A limited and cached route of ann, and the route of bob, with neither and to
\* another upstream, that takes its place.
AnnsRow == Row(1, ann, u1, TRUE, TRUE)
BobsRow == Row(2, bob, u2, FALSE, FALSE)

TwoRows == {AnnsRow, BobsRow}
OnePath == {p}
StartsWithAnn == [x \in {p} |-> AnnsRow]

\* The parameters a and b, and their values.
AB == << <<"a">>, <<"b">> >>
String(text) == [is |-> "string", parts |-> <<text>>]
Array(texts) == [is |-> "array", parts |-> texts]
Object(name) == [is |-> "object", parts |-> << <<name>> >>]
Query(a, b) == (<<"a">> :> a) @@ (<<"b">> :> b)

\* ?a=1,2&b=3, which is plain, ?a=1%2C2%26b%3D3 and ?a=1&a=2&b=3, and no query at all;
\* the body of two of the GETs is JSON, that of the write is streamed.
PlainQuery == Query(String(<<"1", ",", "2">>), String(<<"3">>))
Escaped == (<<"a">> :> String(<<"1", ",", "2", "&", "b", "=", "3">>))
Repeated == Query(Array(<< <<"1">>, <<"2">> >>), String(<<"3">>))
NoQuery == [n \in {} |-> Null]

ReadPlain == Send("GET", PlainQuery, "none")
ReadEscaped == Send("GET", Escaped, "json")
ReadRepeated == Send("GET", Repeated, "none")
ReadAll == Send("GET", NoQuery, "json")
Write == Send("POST", NoQuery, "streamed")

MixedCalls ==
  <<{ReadPlain, Write}, {ReadEscaped, ReadAll}, {ReadRepeated, Write}>>

\* What buildCacheKey does with them: three different queries print the same, and so do
\* any two objects under one name, but not the two plain queries.
ASSUME PrintsAlike ==
  /\ QueryText(PlainQuery) = <<"&", "a", "=", "1", ",", "2", "&", "b", "=", "3">>
  /\ QueryText(Escaped) = QueryText(PlainQuery) /\ QueryText(Repeated) = QueryText(PlainQuery)
  /\ QueryText(<<"a">> :> Object("x")) = QueryText(<<"a">> :> Object("y"))
  /\ Plain(PlainQuery) /\ Plain(NoQuery) /\ ~Plain(Escaped) /\ ~Plain(Repeated)
  /\ QueryText(NoQuery) = <<>>

=============================================================================

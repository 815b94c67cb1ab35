---- MODULE MCGateway ----
EXTENDS Gateway

CONSTANTS r1, r2, r3, k1, p1, p2

L(kind, cred, prefer, prev) == [kind |-> kind, cred |-> cred, prefer |-> prefer, prev |-> prev]
Both == <<p1, p2>>
Swapped == <<p2, p1>>

\* Mixes of endpoints and credentials: one client three times; embeddings that
\* prefer different providers next to a chat; a chained Responses call next
\* to a stream; a request without a header.
Mixes ==
    {[r \in Req |-> CASE r = r1 -> L("chat", k1, <<>>, None)
                      [] r = r2 -> L("stream", k1, <<>>, None)
                      [] OTHER -> L("oneshot", k1, Both, None)],
     [r \in Req |-> CASE r = r1 -> L("oneshot", Jwt, Both, None)
                      [] r = r2 -> L("oneshot", k1, Swapped, None)
                      [] OTHER -> L("chat", Jwt, <<>>, None)],
     [r \in Req |-> CASE r = r1 -> L("responses", k1, <<>>, None)
                      [] r = r2 -> L("responses", k1, <<>>, r1)
                      [] OTHER -> L("stream", Nobody, <<>>, None)]}

OneCall == {[r \in Req |-> L("oneshot", k1, Both, None)]}
====

--------------------------- MODULE MCEgressBroker ---------------------------
(* Small instances of EgressBroker for TLC. *)
EXTENDS EgressBroker, TLC

CONSTANTS k1, k2, t1, t2

Api == <<"api", "example", "com">>
Apex == <<"example", "com">>

\* The second route also covers Api, but the first one decides.
SomeRoutes ==
  << [hosts |-> {<<"*", "example", "com">>}, methods |-> {"GET", "PUT"}],
     [hosts |-> {Api, <<"git", "org">>}, methods |-> {"POST"}] >>

Req(token, method, host, len, eager) ==
  [token |-> token, method |-> method, host |-> host, len |-> len,
   chunked |-> FALSE, eager |-> eager]

\* Two tunnels, plain requests with and without a body, and requests that are
\* to be refused for their host, their method, their size or their encoding.
Tunnels == {Req(t1, "CONNECT", Api, 0, FALSE)}
EagerTunnels == {Req(t1, "CONNECT", Api, 0, TRUE)}
Plain == {Req(t1, "PUT", Api, 2, FALSE), Req(t2, "GET", Api, 0, FALSE)}
Refused ==
  { Req(t1, "GET", Apex, 0, FALSE), Req(t1, "POST", Api, 0, FALSE),
    Req(t1, "DELETE", <<"git", "org">>, 0, FALSE), Req(t1, "PUT", Api, 3, FALSE),
    [Req(t1, "PUT", Api, 1, FALSE) EXCEPT !.chunked = TRUE] }

\* An eager client only leaves bytes behind; its tunnel runs like any other.
MixedRequests == EagerTunnels \cup Plain \cup Refused

ConnSymmetry == Permutations(Conns)
=============================================================================

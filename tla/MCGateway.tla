----------------------------- MODULE MCGateway -----------------------------
(* Two connections of one IPv4 host, and one over IPv6.                   *)
EXTENDS Gateway

MCPeer == {<<"10.0.0.1", ":", "5001">>, <<"10.0.0.1", ":", "5002">>,
           <<"[2001", ":", "db8]", ":", "5001">>}
MCRole == [c \in Client |-> IF c = "admin-client" THEN "admin" ELSE "user"]

=============================================================================

------------------------------ MODULE Gateway ------------------------------
(***************************************************************************)
(* The path of a request through the API gateway, composed with the        *)
(* in-process limiter (TokenBucket): Logger and Recovery around the        *)
(* handler, authed (limit, verify, overwrite the identity headers), the    *)
(* reverse proxy, and RequireRole in front of the service's handler.  A    *)
(* request is its own goroutine, so requests interleave at every step.     *)
(*                                                                         *)
(* The clock ticks Second times a second: a token's expiry is cut to whole *)
(* seconds, the clock it is compared with is not.  A remote address is the *)
(* sequence of its parts, each ":" a part of its own.                      *)
(***************************************************************************)
EXTENDS Integers, Sequences, FiniteSets

CONSTANTS
    Request, Peer,              \* Peer: the remote addresses requests come from
    Client, Role,               \* Config.Clients and the role of each
    Second,                     \* clock ticks in a second
    Expiry,                     \* Authenticator.expiry, in ticks
    Unit, Rate, Burst,          \* the limiter's, as in TokenBucket
    MaxTime, MaxTokens,         \* bounds: the clock, the tokens issued
    Claimed,                    \* bound: the identity headers clients send
    NoRequest,
    NoToken                     \* no bearer token, or one Issue did not sign

ASSUME GatewayAssumption ==
    /\ Second \in Nat \ {0}
    /\ Expiry \in Nat /\ Expiry % Second = 0
    /\ Role \in [Client -> {"user", "admin"}]

VARIABLES
    now, seen, tokens, last, mark, granted, lastGrant,   \* the limiter's
    issued,     \* the tokens Issue has signed
    pc,         \* where each request's goroutine is
    req,        \* what the client sent
    role,       \* the identity header X-Auth-Role of the request
    verifiedAt, \* when Verify accepted the token
    resp,       \* the service's answer to the proxied request
    sent,       \* the status line written to the client, 0 before
    status,     \* statusWriter.status
    served      \* requests a service's handler has executed

(* clientIP: the text before the first colon, or all of it.                *)
ClientIP(addr) ==
    LET colons == {i \in DOMAIN addr : addr[i] = ":"}
        First(i) == \A j \in colons : i <= j
    IN  IF colons = {} THEN addr
        ELSE SubSeq(addr, 1, (CHOOSE i \in colons : First(i)) - 1)

(* The host of an address as net.SplitHostPort defines it, and the         *)
(* addresses whose host holds no colon.                                    *)
Host(addr) == SubSeq(addr, 1, Len(addr) - 2)
IsIPv4(addr) == \A i \in DOMAIN Host(addr) : Host(addr)[i] # ":"

(* net/http gives a handler a host and a port.  A host with colons comes   *)
(* in brackets, so that its part before the first colon is no IPv4 host.   *)
ASSUME PeerAssumption ==
    /\ \A addr \in Peer :
        /\ addr \in Seq(STRING) /\ Len(addr) > 1
        /\ addr[Len(addr) - 1] = ":" /\ addr[Len(addr)] # ":"
    /\ \A addr, other \in Peer :
        IsIPv4(addr) /\ ~IsIPv4(other) => ClientIP(other) # Host(addr)

ASSUME LimiterAssumption ==
    /\ IsFiniteSet(Request)
    /\ Unit \in Nat \ {0}
    /\ Rate \in Nat
    /\ Burst \in Nat /\ Burst >= Unit
    /\ MaxTime \in Nat

Limiter == INSTANCE TokenBucket WITH
    Key <- {ClientIP(addr) : addr \in Peer},
    MaxGrants <- Cardinality(Request)

limiter == <<seen, tokens, last, mark, granted, lastGrant>>
request == <<pc, req, role, verifiedAt, resp, sent, status, served>>
vars == <<now, limiter, issued, request>>

Roles == {"none", "user", "admin"}
Token == [client : Client, role : Roles, born : Nat, exp : Nat]
Credential == Token \cup {NoToken}
Route == {"open", "admin"}
Sent == [peer : Peer, cred : Credential, role : Roles, route : Route]

ASSUME NoneAssumption ==
    NoRequest \notin Sent /\ NoToken \notin Token /\ Claimed \subseteq Roles

Place == {"idle", "limit", "verify", "proxy", "relay", "body", "log", "done"}

TypeOK ==
    /\ now \in Nat
    /\ issued \subseteq Token
    /\ pc \in [Request -> Place]
    /\ req \in [Request -> Sent \cup {NoRequest}]
    /\ role \in [Request -> Roles]
    /\ verifiedAt \in [Request -> Nat]
    /\ resp \in [Request -> Nat]
    /\ sent \in [Request -> Nat]
    /\ status \in [Request -> Nat]
    /\ served \subseteq Request

Init ==
    /\ Limiter!Init
    /\ issued = {}
    /\ pc = [r \in Request |-> "idle"]
    /\ req = [r \in Request |-> NoRequest]
    /\ role = [r \in Request |-> "none"]
    /\ verifiedAt = [r \in Request |-> 0]
    /\ resp = [r \in Request |-> 0]
    /\ sent = [r \in Request |-> 0]
    /\ status = [r \in Request |-> 200]
    /\ served = {}

-----------------------------------------------------------------------------
(* Tokens                                                                  *)

(* Mutant: a token lives a second less than it is said to.                 *)
ExpiresAt_Early == now + Expiry - (now % Second) - Second

(* jwt.NewNumericDate(now.Add(expiry)): whole seconds.                     *)
ExpiresAt == (now + Expiry) - ((now + Expiry) % Second)

(* issueToken for a client that gave its secret; a malformed body (400) or *)
(* wrong credentials (401) changes nothing.                                *)
IssueToken(c) ==
    /\ Cardinality(issued) < MaxTokens
    /\ issued' = issued \cup
         {[client |-> c, role |-> Role[c], born |-> now, exp |-> ExpiresAt]}
    /\ UNCHANGED <<now, limiter, request>>

(* Verify: signed here, and not yet expired.                               *)
Valid(cred) == cred \in issued /\ now < cred.exp

-----------------------------------------------------------------------------
(* The request                                                             *)

Goto(r, place) == pc' = [pc EXCEPT ![r] = place]

(* Mutant: the status written is not remembered for the log.               *)
WriteHeader_Unseen(r, code) ==
    /\ sent' = [sent EXCEPT ![r] = code]
    /\ status' = status

(* statusWriter.WriteHeader: the last status is remembered, the first one  *)
(* is the one the connection carries (net/http drops the others).          *)
WriteHeader(r, code) ==
    /\ sent' = [sent EXCEPT ![r] = IF @ = 0 THEN code ELSE @]
    /\ status' = [status EXCEPT ![r] = code]

(* The handler answers the request itself.                                 *)
Answer(r, code) ==
    /\ WriteHeader(r, code)
    /\ Goto(r, "log")

(* A request arrives, with whatever identity header the client put in it.  *)
Arrive(r, peer, cred, claimed, route) ==
    /\ pc[r] = "idle"
    /\ req' = [req EXCEPT ![r] =
         [peer |-> peer, cred |-> cred, role |-> claimed, route |-> route]]
    /\ role' = [role EXCEPT ![r] = claimed]
    /\ Goto(r, "limit")
    /\ UNCHANGED <<now, limiter, issued, verifiedAt, resp, sent, status, served>>

(* Mutant: the limiter's answer is not acted on.                           *)
Limit_Ignored(r) ==
    /\ pc[r] = "limit"
    /\ LET key == ClientIP(req[r].peer)
       IN  Limiter!AllowFirst(key) \/ Limiter!AllowNext(key) \/ Limiter!Deny(key)
    /\ Goto(r, "verify")
    /\ UNCHANGED <<issued, req, role, verifiedAt, resp, sent, status, served>>

(* Mutant: all requests draw from one bucket.                              *)
Limit_OneBucket(r) ==
    /\ pc[r] = "limit"
    /\ LET key == ClientIP(CHOOSE peer \in Peer : TRUE)
       IN  \/ /\ Limiter!AllowFirst(key) \/ Limiter!AllowNext(key)
              /\ Goto(r, "verify")
              /\ UNCHANGED <<sent, status>>
           \/ /\ Limiter!Deny(key)
              /\ Answer(r, 429)
    /\ UNCHANGED <<issued, req, role, verifiedAt, resp, served>>

(* authed, up to the limiter's answer.                                     *)
Limit(r) ==
    /\ pc[r] = "limit"
    /\ LET key == ClientIP(req[r].peer)
       IN  \/ /\ Limiter!AllowFirst(key) \/ Limiter!AllowNext(key)
              /\ Goto(r, "verify")
              /\ UNCHANGED <<sent, status>>
           \/ /\ Limiter!Deny(key)
              /\ Answer(r, 429)
    /\ UNCHANGED <<issued, req, role, verifiedAt, resp, served>>

(* Mutant: a client's own identity header is left in place.                *)
Verify_KeepsHeader(r) ==
    /\ pc[r] = "verify"
    /\ verifiedAt' = [verifiedAt EXCEPT ![r] = now]
    /\ \/ /\ Valid(req[r].cred)
          /\ Goto(r, "proxy")
          /\ UNCHANGED <<sent, status>>
       \/ /\ ~Valid(req[r].cred)
          /\ Answer(r, 401)
    /\ UNCHANGED <<now, limiter, issued, req, role, resp, served>>

(* authed, from the bearer token to the overwritten identity headers.  On  *)
(* a refusal verifiedAt keeps the time of the refusal.                     *)
Verify(r) ==
    /\ pc[r] = "verify"
    /\ verifiedAt' = [verifiedAt EXCEPT ![r] = now]
    /\ \/ /\ Valid(req[r].cred)
          /\ role' = [role EXCEPT ![r] = req[r].cred.role]
          /\ Goto(r, "proxy")
          /\ UNCHANGED <<sent, status>>
       \/ /\ ~Valid(req[r].cred)
          /\ Answer(r, 401)
          /\ UNCHANGED role
    /\ UNCHANGED <<now, limiter, issued, req, resp, served>>

(* The proxied request reaches the service's mux: RequireRole comes before *)
(* the handler on admin routes.                                            *)
RequireRole(r) ==
    /\ pc[r] = "proxy"
    /\ \/ /\ req[r].route = "admin" /\ role[r] # "admin"
          /\ resp' = [resp EXCEPT ![r] = 403]
          /\ UNCHANGED served
       \/ /\ req[r].route = "open" \/ role[r] = "admin"
          /\ resp' = [resp EXCEPT ![r] = 200]
          /\ served' = served \cup {r}
    /\ Goto(r, "relay")
    /\ UNCHANGED <<now, limiter, issued, req, role, verifiedAt, sent, status>>

(* The proxy copies the service's header, then its body.                   *)
RelayHeader(r) ==
    /\ pc[r] = "relay"
    /\ WriteHeader(r, resp[r])
    /\ Goto(r, "body")
    /\ UNCHANGED <<now, limiter, issued, req, role, verifiedAt, resp, served>>

RelayBody(r) ==
    /\ pc[r] = "body"
    /\ Goto(r, "log")
    /\ UNCHANGED <<now, limiter, issued, req, role, verifiedAt, resp, sent,
                   status, served>>

(* The service cannot be reached, or dies before its header arrives: the   *)
(* proxy answers 502, whether or not the handler has run.                  *)
BadGateway(r) ==
    /\ pc[r] \in {"proxy", "relay"}
    /\ Answer(r, 502)
    /\ UNCHANGED <<now, limiter, issued, req, role, verifiedAt, resp, served>>

(* Mutant: no middleware recovers.                                         *)
Recovery_Missing(r) ==
    /\ pc[r] = "body"
    /\ Goto(r, "aborted")
    /\ UNCHANGED <<now, limiter, issued, req, role, verifiedAt, resp, sent,
                   status, served>>

(* The service dies while its body is copied: the proxy panics, Recovery   *)
(* writes a second status and the request ends like any other.             *)
Recovery(r) ==
    /\ pc[r] = "body"
    /\ Answer(r, 500)
    /\ UNCHANGED <<now, limiter, issued, req, role, verifiedAt, resp, served>>

(* Logger's line, after the handler has returned.                          *)
Logger(r) ==
    /\ pc[r] = "log"
    /\ Goto(r, "done")
    /\ UNCHANGED <<now, limiter, issued, req, role, verifiedAt, resp, sent,
                   status, served>>

Step(r) ==
    \/ Limit(r) \/ Verify(r) \/ RequireRole(r) \/ RelayHeader(r)
    \/ RelayBody(r) \/ BadGateway(r) \/ Recovery(r) \/ Logger(r)

Tick ==
    /\ Limiter!Tick
    /\ UNCHANGED <<issued, request>>

Next ==
    \/ Tick
    \/ \E c \in Client : IssueToken(c)
    \/ \E r \in Request :
        \/ Step(r)
        \/ \E peer \in Peer, cred \in issued \cup {NoToken},
              claimed \in Claimed, route \in Route :
                Arrive(r, peer, cred, claimed, route)

Spec == Init /\ [][Next]_vars

(* A goroutine that can run is run.  Where it waits for the service, to    *)
(* which proxyTransport sets no deadline but that of the dial, nothing     *)
(* makes it go on.                                                         *)
FairSpec == Spec /\ \A r \in Request : WF_vars(Limit(r) \/ Verify(r) \/ Logger(r))

-----------------------------------------------------------------------------

(* A service executes a request only for a token Issue signed, verified    *)
(* within the lifetime Issue announced (ExpiresIn), and an admin route     *)
(* only if the token's client is an admin, whatever identity header the    *)
(* client sent (authed, RequireRole).                                      *)
ServedIsAuthorised ==
    \A r \in served :
        LET token == req[r].cred
        IN  /\ token \in issued
            /\ token.born <= verifiedAt[r] /\ verifiedAt[r] < token.born + Expiry
            /\ req[r].route = "admin" => Role[token.client] = "admin"

(* A signed token is refused no earlier than a second before the lifetime  *)
(* Issue announced is over: that is what NewNumericDate's truncation can   *)
(* cost.                                                                   *)
TokenLivesOut ==
    \A r \in Request :
        sent[r] = 401 /\ req[r].cred \in issued =>
            verifiedAt[r] > req[r].cred.born + Expiry - Second

FromHost(host) ==
    {r \in Request : req[r] # NoRequest /\ Host(req[r].peer) = host}

(* The limiter has let the request through.                                *)
Through(r) == pc[r] # "limit" /\ sent[r] # 429

(* Over any number of connections, one IPv4 host gets no more requests     *)
(* past the gateway than the burst and the rate since the start allow      *)
(* (authed, clientIP, Allow).                                              *)
HostIsLimited ==
    \A peer \in {p \in Peer : IsIPv4(p)} :
        Cardinality({r \in FromHost(Host(peer)) : Through(r)}) * Unit
            <= Burst + now * Rate

(* An IPv4 host is denied only on account of its own requests: no other    *)
(* host empties its bucket (clientIP as the limiter's key).                *)
DenialIsOwn ==
    \A r \in Request :
        sent[r] = 429 /\ IsIPv4(req[r].peer) =>
            \E q \in FromHost(Host(req[r].peer)) : Through(q)

(* The access log has the status written to the client, except for an      *)
(* answer whose body broke off: there the log says 500 and the status      *)
(* written was the service's (statusWriter, Recovery).                     *)
LogTellsAnswer ==
    \A r \in Request :
        pc[r] = "done" =>
            \/ status[r] = sent[r]
            \/ status[r] = 500 /\ sent[r] = resp[r]

(* What makes the safety properties that concern one request inductive: a  *)
(* token's expiry lies within its announced lifetime, a request past       *)
(* Verify carries the role of its token, and the status is written once    *)
(* before the body is copied.                                              *)
TokenInv(t) ==
    /\ t.role = Role[t.client]
    /\ t.born <= now
    /\ t.exp <= t.born + Expiry /\ t.exp > t.born + Expiry - Second

Cleared(r) ==
    /\ req[r].cred \in issued
    /\ role[r] = req[r].cred.role
    /\ req[r].cred.born <= verifiedAt[r] /\ verifiedAt[r] < req[r].cred.exp

RequestInv(r) ==
    /\ pc[r] # "idle" => req[r] \in Sent /\ req[r].cred \in issued \cup {NoToken}
    /\ pc[r] \in {"idle", "limit", "verify", "proxy", "relay"} => sent[r] = 0
    /\ pc[r] \in {"idle", "limit", "verify", "proxy"} => r \notin served
    /\ pc[r] = "proxy" \/ r \in served => Cleared(r)
    /\ r \in served /\ req[r].route = "admin" => role[r] = "admin"
    /\ sent[r] = 401 /\ req[r].cred \in issued => verifiedAt[r] >= req[r].cred.exp
    /\ resp[r] \in {0, 200, 403}
    /\ pc[r] = "body" => status[r] = resp[r] /\ sent[r] = resp[r] /\ resp[r] # 0
    /\ pc[r] = "relay" => resp[r] # 0
    /\ pc[r] \in {"log", "done"} => \/ status[r] = sent[r]
                                    \/ status[r] = 500 /\ sent[r] = resp[r]

GInv ==
    /\ TypeOK
    /\ \A t \in issued : TokenInv(t)
    /\ \A r \in Request : RequestInv(r)

(* What makes the two about hosts inductive: the limiter is in a state of  *)
(* its own specification that nobody has observed, it has granted exactly  *)
(* the requests that got through, and it has a bucket for whoever it       *)
(* denied, from which somebody was granted.                                *)
Passed(key) ==
    {r \in Request : /\ req[r] # NoRequest
                     /\ ClientIP(req[r].peer) = key
                     /\ Through(r)}

LimitInv ==
    /\ Limiter!BucketInv
    /\ mark = 0
    /\ \A addr \in Peer :
        LET key == ClientIP(addr)
        IN  /\ granted[key] = Cardinality(Passed(key))
            /\ key \in seen => granted[key] > 0
    /\ \A r \in Request :
        /\ pc[r] = "idle" => req[r] = NoRequest
        /\ sent[r] = 429 => ClientIP(req[r].peer) \in seen

(* A request that arrived ends answered and logged, or waits for its own   *)
(* service for good: no request waits for another one, and no refusal, bad *)
(* gateway or broken body (Recovery) leaves one behind unlogged.           *)
RequestsAnswered ==
    \A r \in Request :
        \/ <>[](pc[r] = "idle" \/ (pc[r] = "done" /\ sent[r] # 0))
        \/ <>[](pc[r] \in {"proxy", "relay", "body"})

=============================================================================

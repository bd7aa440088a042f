--------------------------- MODULE GatewayProofs ---------------------------
(***************************************************************************)
(* The gateway's safety for any requests, addresses, clients, token        *)
(* lifetime, limiter and clock resolution.                                 *)
(***************************************************************************)
EXTENDS Gateway, FiniteSetTheorems, TLAPS

(* The limiter only reads the clock.                                       *)
LEMMA LimiterKeepsTime ==
    ASSUME NEW k,
           Limiter!AllowFirst(k) \/ Limiter!AllowNext(k) \/ Limiter!Deny(k)
    PROVE  now' = now
  BY DEF Limiter!AllowFirst, Limiter!AllowNext, Limiter!Deny, Limiter!Grant

(* Cutting the expiry to whole seconds costs less than a second.           *)
LEMMA TruncationBound ==
    ASSUME GInv
    PROVE  /\ ExpiresAt \in Nat
           /\ ExpiresAt <= now + Expiry
           /\ ExpiresAt > now + Expiry - Second
  <1> DEFINE t == now + Expiry
  <1>1. t \in Nat /\ Second \in Nat /\ Second > 0
    BY GatewayAssumption DEF GInv, TypeOK
  <1>2. t % Second \in Nat /\ t % Second < Second
    BY <1>1
  <1>3. t % Second <= t
    BY <1>1
  <1> QED BY <1>1, <1>2, <1>3, GatewayAssumption DEF ExpiresAt, GInv, TypeOK

(* A request that is not touched keeps its invariant while tokens are      *)
(* issued: none of them is the one it sent.                                *)
LEMMA OthersKeepInv ==
    ASSUME GInv, NEW q \in Request, issued \subseteq issued', issued' \subseteq Token,
           pc'[q] = pc[q], req'[q] = req[q], role'[q] = role[q],
           verifiedAt'[q] = verifiedAt[q], resp'[q] = resp[q],
           sent'[q] = sent[q], status'[q] = status[q],
           q \in served' <=> q \in served
    PROVE  RequestInv(q)'
  <1>1. RequestInv(q)
    BY Zenon DEF GInv
  <1>2. pc[q] \in Place
    BY DEF GInv, TypeOK
  <1>3. CASE pc[q] = "idle"
    BY <1>1, <1>3 DEF RequestInv, Cleared
  <1>4. CASE pc[q] # "idle"
    <2>1. req[q].cred \in issued' => req[q].cred \in issued
      BY <1>1, <1>4, NoneAssumption DEF RequestInv
    <2> QED BY <1>1, <1>4, <2>1 DEF RequestInv, Cleared
  <1> QED BY <1>3, <1>4

(* A step of one request.                                                  *)
LEMMA StepKeepsInv ==
    ASSUME GInv, NEW r \in Request, now' = now, issued' = issued,
           TypeOK', RequestInv(r)',
           \A q \in Request \ {r} :
               /\ pc'[q] = pc[q] /\ req'[q] = req[q] /\ role'[q] = role[q]
               /\ verifiedAt'[q] = verifiedAt[q] /\ resp'[q] = resp[q]
               /\ sent'[q] = sent[q] /\ status'[q] = status[q]
               /\ q \in served' <=> q \in served
    PROVE  GInv'
  <1>1. \A t \in issued' : TokenInv(t)'
    BY Zenon DEF GInv, TokenInv
  <1>2. issued' \subseteq Token
    BY Zenon DEF GInv, TypeOK
  <1>3. ASSUME NEW q \in Request PROVE RequestInv(q)'
    <2>1. CASE q = r
      BY <2>1, Zenon
    <2>2. CASE q # r
      BY <1>2, <2>2, OthersKeepInv, Zenon
    <2> QED BY <2>1, <2>2
  <1> QED BY <1>1, <1>3, Zenon DEF GInv

LEMMA WriteHeaderType ==
    ASSUME TypeOK, NEW r \in Request, NEW code \in Nat, WriteHeader(r, code)
    PROVE  /\ sent' \in [Request -> Nat] /\ status' \in [Request -> Nat]
           /\ sent'[r] = (IF sent[r] = 0 THEN code ELSE sent[r])
           /\ status'[r] = code
           /\ \A q \in Request \ {r} : sent'[q] = sent[q] /\ status'[q] = status[q]
  BY Zenon DEF TypeOK, WriteHeader

LEMMA GotoType ==
    ASSUME TypeOK, NEW r \in Request, NEW place \in Place, Goto(r, place)
    PROVE  /\ pc' \in [Request -> Place]
           /\ pc'[r] = place
           /\ \A q \in Request \ {r} : pc'[q] = pc[q]
  BY DEF TypeOK, Goto

(* The common shape of the steps that write a status and go on: nothing    *)
(* else about the request changes.                                         *)
LEMMA AnswerKeepsInv ==
    ASSUME GInv, NEW r \in Request, NEW code \in Nat, NEW place \in Place,
           WriteHeader(r, code), Goto(r, place), RequestInv(r)',
           UNCHANGED <<now, issued, req, role, verifiedAt, resp, served>>
    PROVE  GInv'
  <1>1. TypeOK
    BY Zenon DEF GInv
  <1>2. TypeOK'
    BY <1>1, WriteHeaderType, GotoType, ZenonT(60) DEF TypeOK
  <1> QED BY <1>1, <1>2, WriteHeaderType, GotoType, StepKeepsInv

(* A request past the token check keeps its invariant while its answer     *)
(* goes out: what it was cleared for does not change any more.             *)
LEMMA AnsweringKeepsRequest ==
    ASSUME NEW r \in Request, RequestInv(r), pc[r] # "idle",
           UNCHANGED <<issued, req, role, verifiedAt, resp, served>>,
           pc'[r] \in {"body", "log", "done"},
           sent'[r] = sent[r] \/ sent'[r] # 401,
           pc'[r] = "body" => status'[r] = resp[r] /\ sent'[r] = resp[r] /\ resp[r] # 0,
           pc'[r] # "body" => \/ status'[r] = sent'[r]
                              \/ status'[r] = 500 /\ sent'[r] = resp[r]
    PROVE  RequestInv(r)'
  <1>1. Cleared(r)' <=> Cleared(r)
    BY Zenon DEF Cleared
  <1>2. pc'[r] \notin {"idle", "limit", "verify", "proxy", "relay"}
    BY Zenon
  <1>3. /\ req[r] \in Sent /\ req[r].cred \in issued \cup {NoToken}
        /\ r \in served => Cleared(r)
        /\ r \in served /\ req[r].route = "admin" => role[r] = "admin"
        /\ sent[r] = 401 /\ req[r].cred \in issued => verifiedAt[r] >= req[r].cred.exp
        /\ resp[r] \in {0, 200, 403}
    BY DEF RequestInv
  <1> QED BY <1>1, <1>2, <1>3 DEF RequestInv

LEMMA GatewayStep ==
    ASSUME GInv, [Next]_vars
    PROVE  GInv'
  <1> USE DEF request, limiter
  <1>0. TypeOK /\ \A q \in Request : RequestInv(q)
    BY Zenon DEF GInv
  <1>1. CASE UNCHANGED vars
    <2>1. TypeOK' BY <1>0, <1>1, Zenon DEF TypeOK, vars
    <2>2. \A t \in issued' : TokenInv(t)' BY <1>1, Zenon DEF GInv, TokenInv, vars
    <2>3. \A q \in Request : RequestInv(q)'
      BY <1>0, <1>1 DEF RequestInv, Cleared, vars
    <2> QED BY <2>1, <2>2, <2>3 DEF GInv
  <1>2. CASE Tick
    <2>0. now' = now + 1 /\ now' \in Nat /\ UNCHANGED <<issued, request>>
      BY <1>0, <1>2 DEF Tick, Limiter!Tick, TypeOK
    <2>1. TypeOK' BY <1>0, <2>0, Zenon DEF TypeOK
    <2>2. \A t \in issued' : TokenInv(t)'
      BY <1>0, <2>0 DEF GInv, TokenInv, TypeOK, Token
    <2>3. \A q \in Request : RequestInv(q)'
      BY <1>0, <2>0 DEF RequestInv, Cleared
    <2> QED BY <2>1, <2>2, <2>3, Zenon DEF GInv
  <1>3. ASSUME NEW c \in Client, IssueToken(c) PROVE GInv'
    <2> DEFINE t == [client |-> c, role |-> Role[c], born |-> now, exp |-> ExpiresAt]
    <2>0. issued' = issued \cup {t} /\ UNCHANGED <<now, request>>
      BY <1>3, Zenon DEF IssueToken
    <2>1. ExpiresAt \in Nat /\ ExpiresAt <= now + Expiry /\ ExpiresAt > now + Expiry - Second
      BY TruncationBound, Zenon
    <2>2. t \in Token
      BY <1>0, <2>1, GatewayAssumption, Zenon DEF TypeOK, Token, Roles
    <2>3. TypeOK' BY <1>0, <2>0, <2>2 DEF TypeOK
    <2>4. ASSUME NEW u \in issued' PROVE TokenInv(u)'
      <3>1. CASE u \in issued BY <2>0, <3>1, Zenon DEF GInv, TokenInv
      <3>2. CASE u = t BY <1>0, <2>0, <2>1, <3>2 DEF TokenInv, TypeOK
      <3> QED BY <2>0, <3>1, <3>2, Zenon
    <2>5. ASSUME NEW q \in Request PROVE RequestInv(q)'
      BY <2>0, <2>3, OthersKeepInv, Zenon DEF TypeOK
    <2> QED BY <2>3, <2>4, <2>5, Zenon DEF GInv
  <1>4. ASSUME NEW r \in Request, NEW peer \in Peer, NEW cred \in issued \cup {NoToken},
               NEW claimed \in Claimed, NEW route \in Route,
               Arrive(r, peer, cred, claimed, route)
        PROVE  GInv'
    <2> DEFINE new == [peer |-> peer, cred |-> cred, role |-> claimed, route |-> route]
    <2>1. new \in Sent
      BY <1>0, NoneAssumption, Zenon DEF Sent, Credential, TypeOK
    <2>2. TypeOK'
      BY <1>0, <1>4, <2>1, NoneAssumption, ZenonT(60) DEF TypeOK, Arrive, Goto, Place
    <2>3. RequestInv(r)'
      <3>1. pc'[r] = "limit" /\ req'[r] = new /\ pc[r] = "idle"
        BY <1>0, <1>4, ZenonT(60) DEF TypeOK, Arrive, Goto
      <3>2. sent'[r] = 0 /\ r \notin served' /\ resp'[r] \in {0, 200, 403} /\ issued' = issued
        BY <1>0, <1>4, <3>1 DEF RequestInv, Arrive
      <3> QED BY <2>1, <3>1, <3>2 DEF RequestInv
    <2> QED BY <1>0, <1>4, <2>2, <2>3, StepKeepsInv, Zenon DEF Arrive, Goto, TypeOK
  <1>5. ASSUME NEW r \in Request, Limit(r) PROVE GInv'
    <2>0. now' = now /\ pc[r] = "limit" /\ UNCHANGED <<issued, req, role, verifiedAt, resp, served>>
      BY <1>5, LimiterKeepsTime, Zenon DEF Limit
    <2>1. CASE Goto(r, "verify") /\ UNCHANGED <<sent, status>>
      <3>1. "verify" \in Place BY Zenon DEF Place
      <3>2. TypeOK' BY <1>0, <2>0, <2>1, <3>1, GotoType, ZenonT(60) DEF TypeOK
      <3>3. RequestInv(r)'
        <4>1. pc'[r] = "verify"
          BY <1>0, <2>1, <3>1, GotoType, Zenon
        <4>2. Cleared(r)' <=> Cleared(r)
          BY <2>0, Zenon DEF Cleared
        <4>3. RequestInv(r) /\ UNCHANGED <<sent, status>>
          BY <1>0, <2>1, Zenon
        <4> QED BY <2>0, <4>1, <4>2, <4>3 DEF RequestInv
      <3> QED BY <1>0, <2>0, <2>1, <3>1, <3>2, <3>3, GotoType, StepKeepsInv, Zenon
    <2>2. CASE Answer(r, 429)
      <3>1. "log" \in Place BY Zenon DEF Place
      <3>2. pc'[r] = "log" /\ sent'[r] = 429 /\ status'[r] = 429
        BY <1>0, <2>0, <2>2, <3>1, GotoType, WriteHeaderType DEF Answer, RequestInv
      <3>3. RequestInv(r)'
        BY <1>0, <2>0, <3>2, AnsweringKeepsRequest
      <3> QED BY <2>0, <2>2, <3>1, <3>3, AnswerKeepsInv DEF Answer
    <2> QED BY <1>5, <2>1, <2>2, Zenon DEF Limit
  <1>6. ASSUME NEW r \in Request, Verify(r) PROVE GInv'
    <2>0. /\ pc[r] = "verify" /\ UNCHANGED <<now, issued, req, resp, served>>
          /\ verifiedAt' \in [Request -> Nat] /\ verifiedAt'[r] = now
          /\ \A q \in Request \ {r} : verifiedAt'[q] = verifiedAt[q]
      BY <1>0, <1>6, Zenon DEF Verify, TypeOK
    <2>a. sent[r] = 0 /\ r \notin served /\ req[r] \in Sent /\ req[r].cred \in issued \cup {NoToken}
      <3>1. RequestInv(r) /\ pc[r] = "verify" BY <1>0, <2>0, Zenon
      <3> QED BY <3>1 DEF RequestInv
    <2>b. "proxy" \in Place /\ "log" \in Place BY Zenon DEF Place
    <2>1. CASE /\ Valid(req[r].cred) /\ Goto(r, "proxy") /\ UNCHANGED <<sent, status>>
               /\ role' = [role EXCEPT ![r] = req[r].cred.role]
      <3>1. req[r].cred \in issued /\ now < req[r].cred.exp BY <2>1, Zenon DEF Valid
      <3>2. req[r].cred.role \in Roles /\ req[r].cred.born <= now
        BY <1>0, <3>1 DEF GInv, TokenInv, TypeOK, Token
      <3>3. role' \in [Request -> Roles] /\ role'[r] = req[r].cred.role
            /\ \A q \in Request \ {r} : role'[q] = role[q]
        BY <1>0, <2>1, <3>2 DEF TypeOK
      <3>4. TypeOK' BY <1>0, <2>0, <2>1, <2>b, <3>3, GotoType, ZenonT(60) DEF TypeOK
      <3>5. pc'[r] = "proxy" BY <1>0, <2>1, <2>b, GotoType
      <3>6. Cleared(r)' BY <2>0, <3>1, <3>2, <3>3 DEF Cleared
      <3>7. RequestInv(r)'
        <4>1. resp'[r] \in {0, 200, 403} /\ sent'[r] = 0 /\ r \notin served'
              /\ req'[r] \in Sent /\ req'[r].cred \in issued' \cup {NoToken}
          BY <1>0, <2>0, <2>a, <2>1 DEF RequestInv
        <4> QED BY <3>5, <3>6, <4>1 DEF RequestInv
      <3> QED BY <1>0, <2>0, <2>1, <2>b, <3>3, <3>4, <3>7, GotoType, StepKeepsInv
    <2>2. CASE ~Valid(req[r].cred) /\ Answer(r, 401) /\ UNCHANGED role
      <3>1. TypeOK' BY <1>0, <2>0, <2>2, <2>b, GotoType, WriteHeaderType DEF TypeOK, Answer
      <3>2. pc'[r] = "log" /\ sent'[r] = 401 /\ status'[r] = 401
        BY <1>0, <2>2, <2>a, <2>b, GotoType, WriteHeaderType DEF Answer
      <3>3. req[r].cred \in issued => now >= req[r].cred.exp
        BY <1>0, <2>2 DEF Valid, TypeOK, Token
      <3>4. RequestInv(r)'
        BY <1>0, <2>0, <2>a, <3>2, <3>3 DEF RequestInv
      <3> QED BY <1>0, <2>0, <2>2, <2>b, <3>1, <3>4, GotoType, WriteHeaderType, StepKeepsInv DEF Answer
    <2> QED BY <1>6, <2>1, <2>2, Zenon DEF Verify
  <1>7. ASSUME NEW r \in Request, RequireRole(r) PROVE GInv'
    <2>0. /\ pc[r] = "proxy" /\ Goto(r, "relay")
          /\ UNCHANGED <<now, issued, req, role, verifiedAt, sent, status>>
      BY <1>7, Zenon DEF RequireRole
    <2>1. "relay" \in Place BY ZenonT(60) DEF Place
    <2>2. pc'[r] = "relay" /\ sent'[r] = 0 /\ Cleared(r)' /\ req[r] \in Sent
      BY <1>0, <2>0, <2>1, GotoType DEF RequestInv, Cleared
    <2>3. /\ resp' \in [Request -> Nat] /\ resp'[r] \in {200, 403}
          /\ \A q \in Request \ {r} : resp'[q] = resp[q]
      BY <1>0, <1>7 DEF RequireRole, TypeOK
    <2>4. /\ served' \subseteq served \cup {r} /\ served \subseteq served'
          /\ r \in served' => req[r].route = "open" \/ role[r] = "admin"
      BY <1>0, <1>7, <2>0 DEF RequireRole, RequestInv
    <2>5. TypeOK' BY <1>0, <2>0, <2>1, <2>3, <2>4, GotoType DEF TypeOK
    <2>6. RequestInv(r)'
      <3>1. req'[r].cred \in issued' \cup {NoToken}
        BY <1>0, <2>0 DEF RequestInv
      <3>2. req'[r] = req[r] /\ role'[r] = role[r]
        BY <2>0, Zenon
      <3> QED BY <2>2, <2>3, <2>4, <3>1, <3>2 DEF RequestInv
    <2> QED BY <1>0, <2>0, <2>1, <2>3, <2>4, <2>5, <2>6, GotoType, StepKeepsInv
  <1>8. ASSUME NEW r \in Request, RelayHeader(r) PROVE GInv'
    <2>0. /\ pc[r] = "relay" /\ WriteHeader(r, resp[r]) /\ Goto(r, "body")
          /\ UNCHANGED <<now, issued, req, role, verifiedAt, resp, served>>
      BY <1>8, Zenon DEF RelayHeader
    <2>1. "body" \in Place /\ resp[r] \in Nat BY <1>0, Zenon DEF Place, TypeOK
    <2>2. RequestInv(r) /\ pc[r] = "relay" BY <1>0, <2>0, Zenon
    <2>3. sent[r] = 0 BY <2>2, Zenon DEF RequestInv
    <2>4. pc'[r] = "body" /\ sent'[r] = resp[r] /\ status'[r] = resp[r]
      BY <1>0, <2>0, <2>1, <2>3, GotoType, WriteHeaderType
    <2>5. resp[r] \in {0, 200, 403} BY <2>2, Zenon DEF RequestInv
    <2>6. resp[r] # 0 BY <2>2, Zenon DEF RequestInv
    <2>7. RequestInv(r)'
      BY <2>0, <2>2, <2>4, <2>5, <2>6, AnsweringKeepsRequest
    <2> QED BY <2>0, <2>1, <2>7, AnswerKeepsInv, Zenon
  <1>9. ASSUME NEW r \in Request, RelayBody(r) \/ Logger(r) PROVE GInv'
    <2>0. UNCHANGED <<now, issued, req, role, verifiedAt, resp, sent, status, served>>
      BY <1>9, Zenon DEF RelayBody, Logger
    <2>1. PICK place \in {"log", "done"} :
              Goto(r, place) /\ pc[r] = (IF place = "log" THEN "body" ELSE "log")
      BY <1>9, Zenon DEF RelayBody, Logger
    <2>2. place \in Place BY Zenon DEF Place
    <2>3. pc'[r] = place BY <1>0, <2>1, <2>2, GotoType, Zenon
    <2>4. TypeOK' BY <1>0, <2>0, <2>1, <2>2, GotoType DEF TypeOK
    <2>5. RequestInv(r)'
      <3>1. \/ pc[r] = "body" /\ pc'[r] = "log"
            \/ pc[r] = "log" /\ pc'[r] = "done"
        BY <2>1, <2>3, Zenon
      <3>2. \/ status[r] = sent[r]
            \/ status[r] = 500 /\ sent[r] = resp[r]
        <4>1. RequestInv(r) BY <1>0, Zenon
        <4> QED BY <3>1, <4>1 DEF RequestInv
      <3>3. /\ pc[r] # "idle" /\ pc'[r] \in {"body", "log", "done"} /\ pc'[r] # "body"
            /\ sent'[r] = sent[r] /\ RequestInv(r)
            /\ \/ status'[r] = sent'[r]
               \/ status'[r] = 500 /\ sent'[r] = resp[r]
        BY <1>0, <2>0, <3>1, <3>2, Zenon
      <3> QED BY <2>0, <3>3, AnsweringKeepsRequest, Zenon
    <2> QED BY <1>0, <2>0, <2>1, <2>2, <2>4, <2>5, GotoType, StepKeepsInv, Zenon
  <1>10. ASSUME NEW r \in Request, BadGateway(r) PROVE GInv'
    <2>0. /\ pc[r] \in {"proxy", "relay"} /\ Answer(r, 502)
          /\ UNCHANGED <<now, issued, req, role, verifiedAt, resp, served>>
      BY <1>10, Zenon DEF BadGateway
    <2>1. "log" \in Place BY DEF Place
    <2>2. pc'[r] = "log" /\ sent'[r] = 502 /\ status'[r] = 502
      BY <1>0, <2>0, <2>1, GotoType, WriteHeaderType DEF RequestInv, Answer
    <2>3. RequestInv(r)'
      BY <1>0, <2>0, <2>2, AnsweringKeepsRequest
    <2> QED BY <2>0, <2>1, <2>3, AnswerKeepsInv DEF Answer
  <1>11. ASSUME NEW r \in Request, Recovery(r) PROVE GInv'
    <2>0. /\ pc[r] = "body" /\ Answer(r, 500)
          /\ UNCHANGED <<now, issued, req, role, verifiedAt, resp, served>>
      BY <1>11, Zenon DEF Recovery
    <2>1. "log" \in Place BY DEF Place
    <2>2. sent[r] = resp[r] /\ resp[r] # 0
      <3>1. RequestInv(r) /\ pc[r] = "body" BY <1>0, <2>0, Zenon
      <3> QED BY <3>1 DEF RequestInv
    <2>3. pc'[r] = "log" /\ sent'[r] = resp[r] /\ status'[r] = 500
      BY <1>0, <2>0, <2>1, <2>2, GotoType, WriteHeaderType DEF Answer
    <2>4. RequestInv(r)'
      BY <1>0, <2>0, <2>2, <2>3, AnsweringKeepsRequest
    <2> QED BY <2>0, <2>1, <2>4, AnswerKeepsInv DEF Answer
  <1> QED BY <1>1, <1>2, <1>3, <1>4, <1>5, <1>6, <1>7, <1>8, <1>9, <1>10, <1>11, ZenonT(60)
          DEF Next, Step

LEMMA GatewayInit == Init => GInv
  <1> SUFFICES ASSUME Init PROVE GInv
    BY Zenon
  <1>1. TypeOK
    BY DEF Init, Limiter!Init, TypeOK, Place, Roles
  <1>2. \A t \in issued : TokenInv(t)
    BY Zenon DEF Init
  <1>3. \A r \in Request : RequestInv(r)
    BY DEF Init, RequestInv
  <1> QED BY <1>1, <1>2, <1>3, Zenon DEF GInv

(* GInv holds in every state of the gateway (authed, the proxy, Logger,    *)
(* Recovery): the invariant the theorems below are read off from.          *)
THEOREM GatewayInvariant == Spec => []GInv
  BY GatewayInit, GatewayStep, PTL DEF Spec

(* A service executes a request only for a token signed by Issue, verified *)
(* within its announced lifetime, with the role the route requires.        *)
THEOREM OnlyAuthorisedServed == Spec => []ServedIsAuthorised
  <1>1. GInv => ServedIsAuthorised
    <2> SUFFICES ASSUME GInv, NEW r \in served
                 PROVE  /\ req[r].cred \in issued
                        /\ req[r].cred.born <= verifiedAt[r]
                        /\ verifiedAt[r] < req[r].cred.born + Expiry
                        /\ req[r].route = "admin" => Role[req[r].cred.client] = "admin"
      BY Zenon DEF ServedIsAuthorised
    <2>1. r \in Request /\ RequestInv(r)
      BY Zenon DEF GInv, TypeOK
    <2>2. Cleared(r) /\ TokenInv(req[r].cred)
      <3>1. Cleared(r) /\ req[r].cred \in issued
        BY <2>1, ZenonT(60) DEF RequestInv, Cleared
      <3> QED BY <3>1, Zenon DEF GInv
    <2>3. verifiedAt[r] \in Nat /\ req[r].cred.born \in Nat /\ req[r].cred.exp \in Nat
      BY <2>1, <2>2, Zenon DEF GInv, TypeOK, Cleared, Token
    <2> QED BY <2>1, <2>2, <2>3, GatewayAssumption DEF RequestInv, Cleared, TokenInv
  <1> QED BY <1>1, GatewayInvariant, PTL

(* No signed token is refused earlier than a second before the lifetime    *)
(* Issue announced for it ends, whatever the clock's resolution.           *)
THEOREM TokensLiveOut == Spec => []TokenLivesOut
  <1>1. GInv => TokenLivesOut
    <2> SUFFICES ASSUME GInv, NEW r \in Request, sent[r] = 401, req[r].cred \in issued
                 PROVE  verifiedAt[r] > req[r].cred.born + Expiry - Second
      BY DEF TokenLivesOut
    <2>1. verifiedAt[r] >= req[r].cred.exp /\ TokenInv(req[r].cred)
      BY DEF GInv, RequestInv
    <2>2. verifiedAt[r] \in Nat /\ req[r].cred.born \in Nat /\ req[r].cred.exp \in Nat
      BY DEF GInv, TypeOK, Token
    <2> QED BY <2>1, <2>2, GatewayAssumption DEF TokenInv
  <1> QED BY <1>1, GatewayInvariant, PTL

(* The status logged is the one written to the client, or 500 for a body   *)
(* that broke off after the status of the service was relayed.             *)
THEOREM LogIsTrue == Spec => []LogTellsAnswer
  <1>1. GInv => LogTellsAnswer
    BY DEF GInv, RequestInv, LogTellsAnswer
  <1> QED BY <1>1, GatewayInvariant, PTL

-----------------------------------------------------------------------------
(***************************************************************************)
(* The gateway and its limiter together.                                   *)
(***************************************************************************)

Bucket == INSTANCE TokenBucketProofs WITH
    Key <- {ClientIP(addr) : addr \in Peer},
    MaxGrants <- Cardinality(Request)

(* The limiter's proofs hold for the gateway's limiter.                    *)
LEMMA BucketApplies == Bucket!BucketAssumption
  <1>1. Cardinality(Request) \in Nat
    BY LimiterAssumption, FS_CardinalityType, Zenon
  <1> QED BY <1>1, LimiterAssumption, Zenon DEF Bucket!BucketAssumption

LEMMA BucketIsLimiter ==
    /\ Bucket!BucketInv = Limiter!BucketInv
    /\ Bucket!RateBounded = Limiter!RateBounded
    /\ Bucket!Init = Limiter!Init
    /\ Bucket!vars = Limiter!vars
  BY Zenon DEF Bucket!BucketInv, Limiter!BucketInv, Bucket!TypeOK, Limiter!TypeOK,
         Bucket!RateBounded, Limiter!RateBounded, Bucket!Init, Limiter!Init,
         Bucket!vars, Limiter!vars

LEMMA SameNext == Bucket!Next = Limiter!Next
  BY Zenon DEF Bucket!Next, Limiter!Next, Bucket!AllowFirst, Limiter!AllowFirst,
         Bucket!AllowNext, Limiter!AllowNext, Bucket!Deny, Limiter!Deny,
         Bucket!Grant, Limiter!Grant, Bucket!Refilled, Limiter!Refilled,
         Bucket!Tick, Limiter!Tick, Bucket!Observe, Limiter!Observe

(* What a step of the limiter keeps.                                       *)
LEMMA LimiterKeepsInv ==
    ASSUME Limiter!BucketInv, [Limiter!Next]_(Limiter!vars)
    PROVE  Limiter!BucketInv'
  <1>1. Bucket!BucketInv /\ [Bucket!Next]_(Bucket!vars)
    <2>1. CASE Limiter!Next
      BY <2>1, BucketIsLimiter, SameNext
    <2>2. CASE UNCHANGED Limiter!vars
      BY <2>2, BucketIsLimiter DEF Bucket!vars, Limiter!vars
    <2> QED BY <2>1, <2>2, Zenon
  <1>2. Bucket!BucketInv'
    BY <1>1, Bucket!BucketInvNext, BucketApplies, Zenon
  <1> QED
    BY <1>2, Zenon DEF Bucket!BucketInv, Limiter!BucketInv, Bucket!TypeOK, Limiter!TypeOK

(* An IPv4 host is the key of its requests: its only colon is the one      *)
(* before the port.                                                        *)
LEMMA HostIsKey ==
    ASSUME NEW addr \in Peer, IsIPv4(addr)
    PROVE  ClientIP(addr) = Host(addr)
  <1> DEFINE colons == {i \in DOMAIN addr : addr[i] = ":"}
             n == Len(addr) - 1
  <1>1. /\ addr \in Seq(STRING) /\ Len(addr) \in Nat /\ Len(addr) > 1
        /\ addr[n] = ":" /\ addr[Len(addr)] # ":" /\ DOMAIN addr = 1..Len(addr)
    BY PeerAssumption
  <1>2. \A i \in 1..(n - 1) : addr[i] # ":"
    <2> SUFFICES ASSUME NEW i \in 1..(n - 1) PROVE addr[i] # ":"
      BY Zenon
    <2>1. i \in DOMAIN Host(addr) /\ Host(addr)[i] = addr[i]
      BY <1>1 DEF Host
    <2> QED BY <2>1, Zenon DEF IsIPv4
  <1>3. colons = {n}
    BY <1>1, <1>2
  <1>4. (CHOOSE i \in colons : \A j \in colons : i <= j) = n
    BY <1>1, <1>3
  <1> QED BY <1>1, <1>3, <1>4 DEF ClientIP, Host

(* The requests FromHost counts are those of the host's bucket.            *)
LEMMA PassedOfHost ==
    ASSUME GInv, LimitInv, NEW peer \in Peer, IsIPv4(peer)
    PROVE  /\ {r \in FromHost(Host(peer)) : Through(r)} = Passed(ClientIP(peer))
           /\ ClientIP(peer) = Host(peer)
  <1>1. ClientIP(peer) = Host(peer)
    BY HostIsKey, Zenon
  <1>2. ASSUME NEW r \in Request, req[r] # NoRequest
        PROVE  Host(req[r].peer) = Host(peer) <=> ClientIP(req[r].peer) = Host(peer)
    <2>1. req[r].peer \in Peer
      <3>1. pc[r] # "idle" /\ RequestInv(r)
        BY <1>2, Zenon DEF LimitInv, GInv
      <3> QED BY <3>1, Zenon DEF RequestInv, Sent
    <2>2. CASE IsIPv4(req[r].peer)
      BY <2>1, <2>2, HostIsKey
    <2>3. CASE ~IsIPv4(req[r].peer)
      <3>1. Host(req[r].peer) # Host(peer)
        BY <2>3, Zenon DEF IsIPv4
      <3>2. ClientIP(req[r].peer) # Host(peer)
        BY <2>1, <2>3, PeerAssumption
      <3> QED BY <3>1, <3>2, Zenon
    <2> QED BY <2>2, <2>3, Zenon
  <1> QED BY <1>1, <1>2, Zenon DEF FromHost, Passed

(* A step that lets nobody through and denies nobody.                      *)
LEMMA QuietStep ==
    ASSUME LimitInv, Limiter!BucketInv',
           UNCHANGED <<mark, granted, seen>>,
           \A r \in Request :
               /\ pc'[r] = "idle" => req'[r] = NoRequest
               /\ sent'[r] = 429 => sent[r] = 429
               /\ \/ req'[r] = req[r] /\ (Through(r)' <=> Through(r))
                  \/ req[r] = NoRequest /\ pc'[r] = "limit" /\ sent'[r] # 429
    PROVE  LimitInv'
  <1>1. ASSUME NEW addr \in Peer
        PROVE  Passed(ClientIP(addr))' = Passed(ClientIP(addr))
    BY DEF Passed, Through
  <1>2. \A r \in Request : sent'[r] = 429 => ClientIP(req'[r].peer) \in seen'
    BY DEF LimitInv
  <1> QED BY <1>1, <1>2 DEF LimitInv

(* A step of one request the limiter has let through.                      *)
LEMMA PassedStep ==
    ASSUME LimitInv, TypeOK, NEW r \in Request, UNCHANGED <<now, limiter, req>>,
           pc[r] \notin {"idle", "limit"}, pc'[r] \notin {"idle", "limit"},
           sent'[r] = 429 <=> sent[r] = 429,
           \A q \in Request \ {r} : pc'[q] = pc[q] /\ sent'[q] = sent[q]
    PROVE  LimitInv'
  <1>1. Limiter!BucketInv'
    BY LimiterKeepsInv DEF LimitInv, limiter, Limiter!vars
  <1>2. \A q \in Request : Through(q)' <=> Through(q)
    BY DEF Through
  <1>3. \A q \in Request : pc'[q] = "idle" => req'[q] = NoRequest
    BY DEF LimitInv
  <1>4. \A q \in Request : sent'[q] = 429 => sent[q] = 429
    OBVIOUS
  <1> QED BY <1>1, <1>2, <1>3, <1>4, QuietStep DEF limiter

(* The limiter's own part of a request's turn at the limiter.              *)
LEMMA LimiterTurn ==
    ASSUME GInv, LimitInv, NEW r \in Request, Limit(r)
    PROVE  /\ req[r].peer \in Peer
           /\ Limiter!Next
           /\ Limiter!BucketInv'
  <1>1. req[r].peer \in Peer
    <2>1. pc[r] # "idle" /\ RequestInv(r)
      BY Zenon DEF Limit, GInv
    <2> QED BY <2>1, Zenon DEF RequestInv, Sent
  <1>2. Limiter!Next
    BY <1>1, Zenon DEF Limit, Limiter!Next
  <1>3. Limiter!BucketInv'
    BY <1>2, LimiterKeepsInv DEF LimitInv
  <1> QED BY <1>1, <1>2, <1>3, Zenon

(* The limiter grants a request: it is one more of those let through.      *)
LEMMA GrantStep ==
    ASSUME GInv, LimitInv, NEW r \in Request, Limit(r),
           Limiter!AllowFirst(ClientIP(req[r].peer))
             \/ Limiter!AllowNext(ClientIP(req[r].peer)),
           Goto(r, "verify"), UNCHANGED sent
    PROVE  LimitInv'
  <1> DEFINE key == ClientIP(req[r].peer)
  <1>0. TypeOK /\ RequestInv(r)
    BY Zenon DEF GInv
  <1>1. pc[r] = "limit" /\ UNCHANGED <<req, sent>>
    BY ZenonT(30) DEF Limit
  <1>2. "verify" \in Place
    BY Zenon DEF Place
  <1>3. pc'[r] = "verify" /\ \A q \in Request \ {r} : pc'[q] = pc[q]
    BY <1>0, <1>2, GotoType, Zenon
  <1>4. sent[r] = 0 /\ req[r] # NoRequest
    BY <1>0, <1>1, NoneAssumption DEF RequestInv
  <1>5. req[r].peer \in Peer /\ Limiter!BucketInv'
    BY LimiterTurn, Zenon
  <1>6. /\ granted' = [granted EXCEPT ![key] = @ + 1]
        /\ mark' = mark /\ seen' = seen \cup {key}
    BY Zenon DEF Limiter!AllowFirst, Limiter!AllowNext, Limiter!Grant
  <1>7. granted \in [{ClientIP(addr) : addr \in Peer} -> Nat]
    BY Zenon DEF LimitInv, Limiter!BucketInv, Limiter!TypeOK
  <1>8. ASSUME NEW addr \in Peer
        PROVE  /\ granted'[ClientIP(addr)] = Cardinality(Passed(ClientIP(addr))')
               /\ ClientIP(addr) \in seen' => granted'[ClientIP(addr)] > 0
    <2>1. granted[ClientIP(addr)] = Cardinality(Passed(ClientIP(addr)))
      BY Zenon DEF LimitInv
    <2>2. granted[ClientIP(addr)] \in Nat
      BY <1>7
    <2>3. CASE ClientIP(addr) = key
      <3>1. Passed(ClientIP(addr))' = Passed(ClientIP(addr)) \cup {r}
        BY <1>1, <1>3, <1>4, <2>3 DEF Passed, Through
      <3>2. r \notin Passed(ClientIP(addr))
        BY <1>1, Zenon DEF Passed, Through
      <3>3. IsFiniteSet(Passed(ClientIP(addr)))
        BY LimiterAssumption, FS_Subset, Zenon DEF Passed
      <3>4. Cardinality(Passed(ClientIP(addr))') = Cardinality(Passed(ClientIP(addr))) + 1
        BY <3>1, <3>2, <3>3, FS_AddElement, ZenonT(60)
      <3>5. granted'[ClientIP(addr)] = granted[ClientIP(addr)] + 1
        BY <1>6, <1>7, <2>3, Zenon
      <3> QED BY <2>1, <2>2, <3>4, <3>5
    <2>4. CASE ClientIP(addr) # key
      <3>1. Passed(ClientIP(addr))' = Passed(ClientIP(addr))
        BY <1>1, <1>3, <1>4, <2>4 DEF Passed, Through
      <3>2. granted'[ClientIP(addr)] = granted[ClientIP(addr)]
        BY <1>6, <1>7, <2>4, Zenon
      <3>3. ClientIP(addr) \in seen' => ClientIP(addr) \in seen
        BY <1>6, <2>4, Zenon
      <3> QED BY <2>1, <3>1, <3>2, <3>3 DEF LimitInv
    <2> QED BY <2>3, <2>4, Zenon
  <1>9. ASSUME NEW q \in Request
        PROVE  /\ pc'[q] = "idle" => req'[q] = NoRequest
               /\ sent'[q] = 429 => ClientIP(req'[q].peer) \in seen'
    <2>1. /\ pc[q] = "idle" => req[q] = NoRequest
          /\ sent[q] = 429 => ClientIP(req[q].peer) \in seen
      BY ZenonT(60) DEF LimitInv
    <2>2. CASE q = r
      BY <1>1, <1>3, <1>6, <2>1, <2>2
    <2>3. CASE q # r
      BY <1>1, <1>3, <1>6, <2>1, <2>3
    <2> QED BY <2>2, <2>3, Zenon
  <1> QED BY <1>5, <1>6, <1>8, <1>9, ZenonT(60) DEF LimitInv

(* The limiter denies a request: the key has a bucket already.             *)
LEMMA DenyStep ==
    ASSUME GInv, LimitInv, NEW r \in Request, Limit(r),
           Limiter!Deny(ClientIP(req[r].peer)), Answer(r, 429)
    PROVE  LimitInv'
  <1>0. TypeOK /\ RequestInv(r)
    BY Zenon DEF GInv
  <1>1. pc[r] = "limit" /\ UNCHANGED req
    BY ZenonT(30) DEF Limit
  <1>2. "log" \in Place
    BY  DEF Place
  <1>3. sent[r] = 0
    BY <1>0, <1>1 DEF RequestInv
  <1>4. /\ pc'[r] = "log" /\ sent'[r] = 429
        /\ \A q \in Request \ {r} : pc'[q] = pc[q] /\ sent'[q] = sent[q]
    <2>1. WriteHeader(r, 429) /\ Goto(r, "log")
      BY Zenon DEF Answer
    <2>2. pc'[r] = "log" /\ \A q \in Request \ {r} : pc'[q] = pc[q]
      BY <1>0, <1>2, <2>1, GotoType, Zenon
    <2>3. sent'[r] = 429 /\ \A q \in Request \ {r} : sent'[q] = sent[q]
      <3>1. sent' = [sent EXCEPT ![r] = IF @ = 0 THEN 429 ELSE @]
        BY <2>1, Zenon DEF WriteHeader
      <3>2. sent \in [Request -> Nat]
        BY <1>0, Zenon DEF TypeOK
      <3> QED BY <1>3, <3>1, <3>2
    <2> QED BY <2>2, <2>3
  <1>5. Limiter!BucketInv'
    BY LimiterTurn, Zenon
  <1>6. UNCHANGED <<mark, granted, seen>> /\ ClientIP(req[r].peer) \in seen
    BY Zenon DEF Limiter!Deny
  <1>7. ASSUME NEW addr \in Peer
        PROVE  Passed(ClientIP(addr))' = Passed(ClientIP(addr))
    BY <1>1, <1>4 DEF Passed, Through
  <1>8. ASSUME NEW q \in Request
        PROVE  /\ pc'[q] = "idle" => req'[q] = NoRequest
               /\ sent'[q] = 429 => ClientIP(req'[q].peer) \in seen'
    <2>1. CASE q = r
      BY <1>1, <1>4, <1>6, <2>1, Zenon
    <2>2. CASE q # r
      <3>1. pc'[q] = pc[q] /\ sent'[q] = sent[q] /\ req'[q] = req[q] /\ seen' = seen
        BY <1>1, <1>4, <1>6, <2>2
      <3>2. /\ pc[q] = "idle" => req[q] = NoRequest
            /\ sent[q] = 429 => ClientIP(req[q].peer) \in seen
        BY Zenon DEF LimitInv
      <3> QED BY <3>1, <3>2
    <2> QED BY <2>1, <2>2
  <1> QED BY <1>5, <1>6, <1>7, <1>8, ZenonT(60) DEF LimitInv

LEMMA LimitStep ==
    ASSUME GInv, LimitInv, [Next]_vars
    PROVE  LimitInv'
  <1>0. TypeOK /\ \A q \in Request : RequestInv(q)
    BY Zenon DEF GInv
  <1>b. Limiter!BucketInv /\ \A q \in Request : pc[q] = "idle" => req[q] = NoRequest
    BY Zenon DEF LimitInv
  <1>1. CASE UNCHANGED vars
    <2>1. Limiter!BucketInv'
      BY <1>1, <1>b, LimiterKeepsInv, Zenon DEF vars, limiter, Limiter!vars
    <2>2. UNCHANGED <<pc, req, sent, mark, granted, seen>>
      BY <1>1, Zenon DEF vars, limiter, request
    <2> QED BY <1>b, <2>1, <2>2, QuietStep DEF Through
  <1>2. CASE Tick
    <2>1. Limiter!BucketInv'
      BY <1>2, <1>b, LimiterKeepsInv, Zenon DEF Tick, Limiter!Next
    <2>2. UNCHANGED <<pc, req, sent, mark, granted, seen>>
      BY <1>2, Zenon DEF Tick, Limiter!Tick, request
    <2> QED BY <1>b, <2>1, <2>2, QuietStep DEF Through
  <1>3. ASSUME NEW c \in Client, IssueToken(c) PROVE LimitInv'
    <2>1. Limiter!BucketInv'
      BY <1>3, <1>b, LimiterKeepsInv, Zenon DEF IssueToken, limiter, Limiter!vars
    <2>2. UNCHANGED <<pc, req, sent, mark, granted, seen>>
      BY <1>3, Zenon DEF IssueToken, limiter, request
    <2> QED BY <1>b, <2>1, <2>2, QuietStep DEF Through
  <1>4. ASSUME NEW r \in Request, NEW peer \in Peer, NEW cred \in issued \cup {NoToken},
               NEW claimed \in Claimed, NEW route \in Route,
               Arrive(r, peer, cred, claimed, route)
        PROVE  LimitInv'
    <2>1. Limiter!BucketInv'
      BY <1>4, <1>b, LimiterKeepsInv, Zenon DEF Arrive, limiter, Limiter!vars
    <2>2. /\ UNCHANGED <<sent, mark, granted, seen>>
          /\ pc[r] = "idle" /\ pc'[r] = "limit"
          /\ \A q \in Request \ {r} : pc'[q] = pc[q] /\ req'[q] = req[q]
      BY <1>0, <1>4 DEF Arrive, limiter, Goto, TypeOK
    <2>3. req[r] = NoRequest /\ sent[r] = 0
      BY <1>0, <1>b, <2>2, ZenonT(60) DEF RequestInv
    <2>4. ASSUME NEW q \in Request
          PROVE  /\ pc'[q] = "idle" => req'[q] = NoRequest
                 /\ sent'[q] = 429 => sent[q] = 429
                 /\ \/ req'[q] = req[q] /\ (Through(q)' <=> Through(q))
                    \/ req[q] = NoRequest /\ pc'[q] = "limit" /\ sent'[q] # 429
      <3>1. CASE q = r
        BY <2>2, <2>3, <3>1
      <3>2. CASE q # r
        <4>1. pc'[q] = pc[q] /\ req'[q] = req[q] /\ sent'[q] = sent[q] /\ granted' = granted
          BY <2>2, <3>2, Zenon
        <4>2. Through(q)' <=> Through(q)
          BY <4>1 DEF Through
        <4>3. pc'[q] = "idle" => req'[q] = NoRequest
          BY <1>b, <4>1, Zenon
        <4> QED BY <4>1, <4>2, <4>3
      <3> QED BY <3>1, <3>2, Zenon
    <2> QED BY <2>1, <2>2, <2>4, QuietStep, Zenon
  <1>5. ASSUME NEW r \in Request, Limit(r) PROVE LimitInv'
    BY <1>5, GrantStep, DenyStep, Zenon DEF Limit
  <1>6. ASSUME NEW r \in Request,
               Verify(r) \/ RequireRole(r) \/ RelayHeader(r) \/ RelayBody(r)
                 \/ BadGateway(r) \/ Recovery(r) \/ Logger(r)
        PROVE  LimitInv'
    <2>1. /\ UNCHANGED <<now, limiter, req>>
          /\ pc[r] \notin {"idle", "limit"}
          /\ \E place \in Place \ {"idle", "limit"} : Goto(r, place)
      BY <1>6, ZenonT(60) DEF Verify, RequireRole, RelayHeader, RelayBody, BadGateway,
                  Recovery, Logger, Answer, Place
    <2>2. /\ pc'[r] \notin {"idle", "limit"}
          /\ \A q \in Request \ {r} : pc'[q] = pc[q]
      BY <1>0, <2>1, GotoType, Zenon
    <2>3. \/ UNCHANGED sent
          \/ \E code \in {401, 500, 502, resp[r]} : WriteHeader(r, code)
      <3>1. CASE Verify(r) \/ BadGateway(r) \/ Recovery(r)
        <4>1. \/ UNCHANGED <<sent, status>>
              \/ WriteHeader(r, 401) \/ WriteHeader(r, 502) \/ WriteHeader(r, 500)
          BY <3>1, Zenon DEF Verify, BadGateway, Recovery, Answer
        <4> QED BY <4>1
      <3>2. CASE RelayHeader(r)
        BY <3>2, ZenonT(60) DEF RelayHeader
      <3>3. CASE RequireRole(r) \/ RelayBody(r) \/ Logger(r)
        BY <3>3 DEF RequireRole, RelayBody, Logger
      <3> QED BY <1>6, <3>1, <3>2, <3>3
    <2>4. resp[r] \in Nat /\ resp[r] # 429
      BY <1>0 DEF RequestInv
    <2>5. /\ sent'[r] = 429 <=> sent[r] = 429
          /\ \A q \in Request \ {r} : sent'[q] = sent[q]
      BY <1>0, <2>3, <2>4, WriteHeaderType
    <2> QED BY <1>0, <2>1, <2>2, <2>5, PassedStep
  <1> QED BY <1>1, <1>2, <1>3, <1>4, <1>5, <1>6, Zenon DEF Next, Step

LEMMA LimitInit == Init => LimitInv
  <1> SUFFICES ASSUME Init PROVE LimitInv
    BY Zenon
  <1>1. Limiter!BucketInv
    <2>1. Bucket!Init
      BY BucketIsLimiter, Zenon DEF Init
    <2>2. Bucket!BucketInv
      BY <2>1, Bucket!BucketInvInit, BucketApplies
    <2> QED BY <2>2, BucketIsLimiter, Zenon
  <1>2. ASSUME NEW addr \in Peer
        PROVE  /\ granted[ClientIP(addr)] = Cardinality(Passed(ClientIP(addr)))
               /\ ClientIP(addr) \notin seen
    <2>1. Passed(ClientIP(addr)) = {}
      BY Zenon DEF Init, Passed
    <2>2. granted[ClientIP(addr)] = 0 /\ ClientIP(addr) \notin seen
      BY Zenon DEF Init, Limiter!Init
    <2> QED BY <2>1, <2>2, FS_EmptySet, Zenon
  <1>3. /\ mark = 0
        /\ \A r \in Request : req[r] = NoRequest /\ sent[r] = 0
    BY Zenon DEF Init, Limiter!Init
  <1> QED BY <1>1, <1>2, <1>3 DEF LimitInv

(* The limiter's count is that of the requests the gateway let through,    *)
(* for any addresses, rate, burst and number of requests.                  *)
THEOREM LimitInvariant == Spec => []LimitInv
  BY GatewayInvariant, LimitInit, LimitStep, PTL DEF Spec

(* However many connections an IPv4 host opens, authed lets no more of its *)
(* requests through than the burst and the rate allow.                     *)
THEOREM HostsAreLimited == Spec => []HostIsLimited
  <1>1. GInv /\ LimitInv => HostIsLimited
    <2> SUFFICES ASSUME GInv, LimitInv, NEW peer \in Peer, IsIPv4(peer)
                 PROVE  Cardinality({r \in FromHost(Host(peer)) : Through(r)}) * Unit
                            <= Burst + now * Rate
      BY Zenon DEF HostIsLimited
    <2>1. Limiter!RateBounded
      <3>1. Bucket!BucketInv
        BY BucketIsLimiter DEF LimitInv
      <3>2. Bucket!RateBounded
        BY <3>1, Bucket!InvBoundsRate, BucketApplies, Zenon
      <3> QED BY <3>2, BucketIsLimiter
    <2>2. granted[ClientIP(peer)] * Unit <= Burst + (now - 0) * Rate
      BY <2>1 DEF Limiter!RateBounded, LimitInv
    <2>3. now - 0 = now
      BY  DEF GInv, TypeOK
    <2>4. granted[ClientIP(peer)] = Cardinality({r \in FromHost(Host(peer)) : Through(r)})
      BY PassedOfHost, ZenonT(60) DEF LimitInv
    <2> QED BY <2>2, <2>3, <2>4, Zenon
  <1> QED BY <1>1, GatewayInvariant, LimitInvariant, PTL

(* Whoever is denied has had a request of its own let through: hosts do    *)
(* not share buckets, whatever their addresses.                            *)
THEOREM DenialsAreOwn == Spec => []DenialIsOwn
  <1>1. GInv /\ LimitInv => DenialIsOwn
    <2> SUFFICES ASSUME GInv, LimitInv, NEW r \in Request, sent[r] = 429, IsIPv4(req[r].peer)
                 PROVE  \E q \in FromHost(Host(req[r].peer)) : Through(q)
      BY DEF DenialIsOwn
    <2> DEFINE peer == req[r].peer
    <2>1. peer \in Peer
      <3>1. RequestInv(r)
        BY Zenon DEF GInv
      <3>2. pc[r] # "idle"
        BY <3>1 DEF RequestInv
      <3> QED BY <3>1, <3>2, Zenon DEF RequestInv, Sent
    <2>2. Cardinality(Passed(ClientIP(peer))) > 0
      BY <2>1 DEF LimitInv
    <2>3. Passed(ClientIP(peer)) # {}
      BY <2>2, FS_EmptySet
    <2> QED BY <2>1, <2>3, PassedOfHost
  <1> QED BY <1>1, GatewayInvariant, LimitInvariant, PTL

=============================================================================

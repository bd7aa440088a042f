------------------------- MODULE UserServiceProofs --------------------------
(***************************************************************************)
(* Proofs about UserService for any number of replicas, requests, e-mails, *)
(* connections and faults: UInv is inductive, the safety properties follow *)
(* from it, and every step of the service is a step of Registry.           *)
(***************************************************************************)
EXTENDS UserService, TLAPS

LEMMA OpTypes ==
    ASSUME NEW o \in Op
    PROVE  /\ o # NoOp
           /\ o.kind = "register" => o.arg \in Email
           /\ o.kind \in {"register", "get", "list"}
  BY NoOpAssumption DEF Op

LEMMA InstancesAreReplicas == Instances \subseteq Replica
  BY UserAssumption DEF Instances

(* The requests that a step leaves alone keep their invariants, as long as *)
(* no row disappears.                                                      *)
LEMMA OthersKeepInv ==
    ASSUME UInv, NEW r \in Request,
           \A q \in Request \ {r} :
               /\ pc'[q] = pc[q] /\ op'[q] = op[q] /\ at'[q] = at[q] /\ answer'[q] = answer[q]
               /\ known'[q] = known[q] /\ announced'[q] = announced[q],
           users \subseteq users', durable' = durable,
           faults' = faults \/ (faults' = faults + 1 /\ faults \in Nat)
    PROVE  \A q \in Request \ {r} : RequestInv(q)' /\ DurableInv(q)'
<1> SUFFICES ASSUME NEW q \in Request \ {r} PROVE RequestInv(q)' /\ DurableInv(q)'
  OBVIOUS
<1>1. RequestInv(q) /\ DurableInv(q)
  BY DEF UInv
<1>2. RequestInv(q)'
  BY <1>1 DEF RequestInv, Instances, UserOf, InFlight
<1>3. SeesCreated(q) => SeesCreated(q)'
  BY DEF SeesCreated
<1>4. DurableInv(q)'
  BY <1>1, <1>3 DEF DurableInv, UserOf
<1> QED
  BY <1>2, <1>4

LEMMA UInvInit == Init => UInv
<1> SUFFICES ASSUME Init PROVE UInv
  OBVIOUS
<1>1. TypeOK
  BY UserAssumption DEF Init, TypeOK, NoAnswer, Answer, Places, InFlight
<1>2. RowInv
  BY DEF Init, RowInv
<1>3. ASSUME NEW r \in Request PROVE RequestInv(r) /\ DurableInv(r)
  BY DEF Init, RequestInv, DurableInv, SeesCreated, NoAnswer, InFlight
<1> QED
  BY <1>1, <1>2, <1>3 DEF UInv

(* A request that leaves its handler with an answer.                       *)
LEMMA ReplyKeepsInv ==
    ASSUME UInv, NEW r \in Request, pc[r] # "new", UNCHANGED op,
           NEW status \in {200, 201, 400, 404, 409, 500}, NEW body \in SUBSET User,
           Reply(r, status, body)
    PROVE  /\ pc' \in [Request -> Places]
           /\ answer' \in [Request -> Answer]
           /\ RequestInv(r)'
<1>1. pc' = [pc EXCEPT ![r] = "done"] /\ pc \in [Request -> Places]
  BY DEF Reply, Goto, UInv, TypeOK
<1>2. [status |-> status, users |-> body] \in Answer
  BY DEF Answer
<1>3. answer' \in [Request -> Answer]
  BY <1>2 DEF Reply, UInv, TypeOK
<1>4. op'[r] # NoOp
  BY DEF UInv, RequestInv
<1>5. RequestInv(r)'
  <2>1. pc'[r] = "done" /\ "done" \notin InFlight
    BY <1>1 DEF InFlight
  <2> QED BY <1>4, <2>1 DEF RequestInv
<1>6. pc' \in [Request -> Places]
  <2>1. "done" \in Places
    BY DEF Places
  <2> QED BY <1>1, <2>1
<1> QED
  BY <1>3, <1>5, <1>6, ZenonT(60)

LEMMA GotoKeepsType ==
    ASSUME UInv, NEW r \in Request, NEW next \in Places, Goto(r, next)
    PROVE  pc' \in [Request -> Places]
  BY DEF UInv, TypeOK, Goto

(* The row of a registration whose e-mail is free fits in the table.       *)
LEMMA InsertKeepsRows ==
    ASSUME UInv, NEW r \in Request, pc[r] = "query", op[r].kind = "register", ~Taken(r),
           users' = users \cup {UserOf(r)}, UNCHANGED op,
           NEW next \in {"publish", "done"}, Goto(r, next)
    PROVE  users' \subseteq User /\ RowInv'
<1>1. op[r] \in Op
  BY DEF UInv, TypeOK, RequestInv
<1>2. UserOf(r) \in User
  BY <1>1, OpTypes DEF UserOf, User
<1>3. pc' = [pc EXCEPT ![r] = next] /\ pc \in [Request -> Places]
  BY DEF Goto, UInv, TypeOK
<1>4. \A u \in users : u.email # UserOf(r).email
  BY Zenon DEF Taken, UserOf
<1>5. UserOf(r).id = r /\ UserOf(r)' = UserOf(r)
  BY Zenon DEF UserOf
<1>6. \A u \in users : u.id \in Request /\ u.id # r /\ UserOf(u.id)' = UserOf(u.id)
  BY Zenon DEF UInv, TypeOK, RowInv, User, UserOf
<1>7. \A u, v \in users' : u.email = v.email => u = v
  BY <1>4 DEF UInv, RowInv
<1>8. \A u \in users' : pc'[u.id] \notin {"new", "wait", "query"} /\ u = UserOf(u.id)'
  BY <1>3, <1>5, <1>6, Zenon DEF UInv, RowInv
<1> QED
  BY <1>2, <1>7, <1>8 DEF RowInv, UInv, TypeOK

(* A step that adds no row and takes r out of its statement.               *)
LEMMA SameRows ==
    ASSUME UInv, NEW r \in Request, UNCHANGED <<users, op>>,
           NEW next \in Places, Goto(r, next),
           pc[r] \in {"new", "wait", "query"} \/ next \notin {"new", "wait", "query"}
    PROVE  RowInv'
<1>1. pc' = [pc EXCEPT ![r] = next] /\ pc \in [Request -> Places]
  BY DEF Goto, UInv, TypeOK
<1>2. \A u \in users : u.id \in Request /\ UserOf(u.id)' = UserOf(u.id)
  BY Zenon DEF UInv, TypeOK, User, UserOf
<1> QED
  BY <1>1, <1>2, Zenon DEF UInv, RowInv

LEMMA ArriveKeepsUInv ==
    ASSUME UInv, NEW r \in Request, NEW p \in Instances, NEW o \in Op, Arrive(r, p, o)
    PROVE  UInv'
<1>1. Created \in SUBSET User
  BY DEF UInv, TypeOK, Created, Answer
<1>2. PICK next \in {"done", "wait", "query"} : Goto(r, next) /\ (next # "done" => UNCHANGED answer)
  BY Zenon DEF Arrive, Reply
<1>3. pc' \in [Request -> Places] /\ pc' = [pc EXCEPT ![r] = next]
  BY <1>2, GotoKeepsType, ZenonT(30) DEF Places, InFlight, Goto
<1>4. answer' \in [Request -> Answer]
  <2>1. [status |-> 400, users |-> {}] \in Answer
    BY DEF Answer
  <2>2. answer \in [Request -> Answer]
    BY DEF UInv, TypeOK
  <2>3. \/ answer' = [answer EXCEPT ![r] = [status |-> 400, users |-> {}]]
        \/ answer' = answer
    BY Zenon DEF Arrive, Reply
  <2> HIDE DEF Answer
  <2> QED
    BY <2>1, <2>2, <2>3
<1>5. TypeOK'
  BY <1>1, <1>3, <1>4, InstancesAreReplicas, ZenonT(30) DEF UInv, TypeOK, Arrive
<1>6. RowInv'
  <2>1. \A u \in users : u.id \in Request /\ u.id # r
    BY Zenon DEF UInv, TypeOK, RowInv, User, Arrive
  <2> QED
    BY <1>3, <2>1, Zenon DEF UInv, TypeOK, RowInv, Arrive, UserOf
<1>7. \A q \in Request \ {r} : RequestInv(q)' /\ DurableInv(q)'
  BY OthersKeepInv DEF UInv, TypeOK, Arrive, Reply, Goto
<1>8. RequestInv(r)'
  <2>1. op'[r] = o /\ o # NoOp /\ at'[r] = p /\ pc'[r] = next /\ Instances' = Instances
    BY <1>3, OpTypes, Zenon DEF UInv, TypeOK, Arrive, Instances
  <2>2. announced'[r] = 0 /\ (next # "done" => answer'[r] = NoAnswer)
    BY <1>2, Zenon DEF UInv, RequestInv, Arrive
  <2> QED
    BY <2>1, <2>2, Zenon DEF RequestInv, InFlight
<1>9. DurableInv(r)'
  <2>1. durable => Created \subseteq users
    BY DEF UInv, DurableInv, Created
  <2>2. answer'[r].status \in {0, 400}
    BY DEF UInv, TypeOK, RequestInv, Arrive, Reply, NoAnswer
  <2>3. announced'[r] = 0 /\ known'[r] = Created /\ UNCHANGED <<durable, users>>
    BY Zenon DEF UInv, TypeOK, RequestInv, Arrive
  <2> QED
    BY <2>1, <2>2, <2>3 DEF DurableInv, SeesCreated
<1> QED
  BY <1>5, <1>6, <1>7, <1>8, <1>9 DEF UInv
LEMMA AcquireKeepsUInv ==
    ASSUME UInv, NEW r \in Request, Acquire(r)
    PROVE  UInv'
<1>1. "query" \in Places /\ Goto(r, "query")
  BY Zenon DEF Acquire, Places, InFlight
<1>2. at[r] \in Replica
  BY InstancesAreReplicas, Zenon DEF UInv, RequestInv, Acquire, InFlight
<1>3. TypeOK'
  BY <1>1, <1>2, GotoKeepsType, ZenonT(60) DEF UInv, TypeOK, Acquire
<1>4. RowInv'
  BY <1>1, SameRows, Zenon DEF Acquire
<1>5. \A q \in Request \ {r} : RequestInv(q)' /\ DurableInv(q)'
  BY OthersKeepInv, Zenon DEF UInv, TypeOK, Acquire, Goto
<1>6. RequestInv(r)'
  BY <1>1, Zenon DEF UInv, TypeOK, RequestInv, Acquire, Goto, Instances, InFlight
<1>7. DurableInv(r)'
  BY DEF UInv, DurableInv, SeesCreated, UserOf, Acquire
<1> QED
  BY <1>3, <1>4, <1>5, <1>6, <1>7, Zenon DEF UInv

LEMMA CreateKeepsUInv ==
    ASSUME UInv, NEW r \in Request, Create(r)
    PROVE  UInv'
<1>1. /\ pc[r] = "query" /\ op[r].kind = "register"
      /\ conns' \in [Replica -> SUBSET Request]
      /\ UNCHANGED <<durable, op, at, known, announced, faults>>
      /\ users \subseteq users'
  BY Zenon DEF UInv, TypeOK, Create, Query, Release
<1>2. \A q \in Request \ {r} : RequestInv(q)' /\ DurableInv(q)'
  BY <1>1, OthersKeepInv DEF UInv, TypeOK, Create, Reply, Goto
<1>3. answer[r] = NoAnswer /\ announced[r] = 0 /\ at[r] \in Instances /\ op[r] # NoOp
  BY <1>1, Zenon DEF UInv, RequestInv, InFlight
<1>4. CASE Taken(r)
  <2>1. Reply(r, 409, {}) /\ UNCHANGED users
    BY <1>4, Zenon DEF Create
  <2>2. pc' \in [Request -> Places] /\ answer' \in [Request -> Answer] /\ RequestInv(r)'
    <3>1. {} \in SUBSET User
      OBVIOUS
    <3> QED
      BY <1>1, <2>1, <3>1, ReplyKeepsInv
  <2>3. TypeOK'
    BY <1>1, <2>1, <2>2, Zenon DEF UInv, TypeOK
  <2>4. RowInv'
    BY <1>1, <2>1, SameRows, Zenon DEF Reply, Places
  <2>5. DurableInv(r)'
    BY <1>1, <1>3, <2>1 DEF UInv, TypeOK, DurableInv, SeesCreated, Reply
  <2> QED
    BY <1>2, <2>2, <2>3, <2>4, <2>5 DEF UInv
<1>5. CASE ~Taken(r)
  <2>1. users' = users \cup {UserOf(r)} /\ Goto(r, "publish") /\ UNCHANGED answer
    BY <1>5, Zenon DEF Create
  <2>2. users' \subseteq User /\ RowInv'
    BY <1>1, <1>5, <2>1, InsertKeepsRows, Zenon
  <2>3. TypeOK'
    BY <1>1, <2>1, <2>2, GotoKeepsType, Zenon DEF UInv, TypeOK, Places, InFlight
  <2>4. RequestInv(r)'
    <3>1. pc'[r] = "publish"
      BY <2>1 DEF UInv, TypeOK, Goto
    <3> QED
      BY <1>1, <1>3, <2>1, <3>1, Zenon DEF RequestInv, UserOf, InFlight, Instances
  <2>5. DurableInv(r)'
    <3>1. SeesCreated(r)'
      BY <1>1, <1>3, <2>1 DEF SeesCreated, NoAnswer
    <3>2. DurableInv(r)
      BY DEF UInv
    <3> QED
      BY <1>1, <1>3, <2>1, <3>1, <3>2 DEF DurableInv, NoAnswer
  <2> QED
    BY <1>2, <2>2, <2>3, <2>4, <2>5, Zenon DEF UInv
<1> QED
  BY <1>4, <1>5

(* A read: its answer is the state of the table, or part of it.            *)
LEMMA ReadKeepsUInv ==
    ASSUME UInv, NEW r \in Request, Get(r) \/ List(r)
    PROVE  UInv'
<1>1. /\ pc[r] = "query" /\ op[r].kind \in {"get", "list"}
      /\ conns' \in [Replica -> SUBSET Request]
      /\ UNCHANGED <<durable, users, op, at, known, announced, faults>>
  BY DEF UInv, TypeOK, Get, List, Query, Release
<1>2. PICK status \in {200, 404}, body \in SUBSET User :
        /\ Reply(r, status, body)
        /\ op[r].kind = "list" => status = 200 /\ body = users
        /\ status = 404 => \A u \in users : u.id # op[r].arg
  BY DEF UInv, TypeOK, Get, List, Query
<1>3. pc' \in [Request -> Places] /\ answer' \in [Request -> Answer] /\ RequestInv(r)'
  BY <1>1, <1>2, ReplyKeepsInv
<1>4. TypeOK'
  BY <1>1, <1>3, ZenonT(60) DEF UInv, TypeOK
<1>5. RowInv'
  BY <1>1, <1>2, SameRows DEF Reply, Places
<1>6. \A q \in Request \ {r} : RequestInv(q)' /\ DurableInv(q)'
  BY <1>1, <1>2, OthersKeepInv DEF UInv, TypeOK, Reply, Goto
<1>7. DurableInv(r)'
  <2>1. answer'[r].status = status /\ answer'[r].users = body
    BY <1>2 DEF UInv, TypeOK, Reply
  <2>2. DurableInv(r)
    BY DEF UInv
  <2> QED
    BY <1>1, <1>2, <2>1, <2>2 DEF DurableInv, SeesCreated, UserOf
<1> QED
  BY <1>3, <1>4, <1>5, <1>6, <1>7, ZenonT(60) DEF UInv

LEMMA PublishKeepsUInv ==
    ASSUME UInv, NEW r \in Request, NEW d \in BOOLEAN, Publish(r, d), Fault \/ UNCHANGED faults
    PROVE  UInv'
<1>1. /\ pc[r] = "publish" /\ Goto(r, "reply")
      /\ UNCHANGED <<durable, users, op, at, answer, known, conns>>
  BY Zenon DEF Publish
<1>2. faults' \in 0..MaxFaults /\ (faults' = faults \/ faults' = faults + 1)
  BY UserAssumption DEF UInv, TypeOK, Fault
<1>3. announced[r] = 0 /\ UserOf(r) \in users
  BY <1>1, Zenon DEF UInv, RequestInv
<1>4. announced' \in [Request -> 0..1]
  BY <1>3 DEF UInv, TypeOK, Publish
<1>5. TypeOK'
  BY <1>1, <1>2, <1>4, GotoKeepsType, Zenon DEF UInv, TypeOK, Places, InFlight
<1>6. RowInv'
  BY <1>1, SameRows, Zenon DEF Places, InFlight
<1>7. \A q \in Request \ {r} : RequestInv(q)' /\ DurableInv(q)'
  BY <1>1, <1>2, OthersKeepInv DEF UInv, TypeOK, Publish, Goto
<1>8. RequestInv(r)'
  <2>1. pc'[r] = "reply"
    BY <1>1, Zenon DEF UInv, TypeOK, Goto
  <2> QED
    BY <1>1, <2>1, Zenon DEF UInv, RequestInv, UserOf, InFlight, Instances
<1>9. DurableInv(r)'
  BY <1>1, <1>2, <1>3 DEF UInv, TypeOK, DurableInv, SeesCreated, UserOf
<1> QED
  BY <1>5, <1>6, <1>7, <1>8, <1>9 DEF UInv

LEMMA RespondKeepsUInv ==
    ASSUME UInv, NEW r \in Request, Respond(r)
    PROVE  UInv'
<1>1. /\ pc[r] = "reply" /\ Reply(r, 201, {UserOf(r)})
      /\ UNCHANGED <<durable, users, op, at, known, conns, announced, faults>>
  BY Zenon DEF Respond
<1>2. UserOf(r) \in users /\ op[r].kind = "register"
  BY <1>1, Zenon DEF UInv, RequestInv
<1>3. pc' \in [Request -> Places] /\ answer' \in [Request -> Answer] /\ RequestInv(r)'
  <2>1. {UserOf(r)} \in SUBSET User
    BY <1>2 DEF UInv, TypeOK
  <2> QED
    BY <1>1, <2>1, ReplyKeepsInv
<1>4. TypeOK'
  BY <1>1, <1>3, Zenon DEF UInv, TypeOK
<1>5. RowInv'
  BY <1>1, SameRows, Zenon DEF Reply, Places
<1>6. \A q \in Request \ {r} : RequestInv(q)' /\ DurableInv(q)'
  BY <1>1, OthersKeepInv, Zenon DEF UInv, TypeOK, Reply, Goto
<1>7. DurableInv(r)'
  <2>1. answer'[r].status = 201 /\ answer'[r].users = {UserOf(r)}
    BY <1>1, Zenon DEF UInv, TypeOK, Reply
  <2>2. DurableInv(r)
    BY DEF UInv
  <2> QED
    BY <1>1, <1>2, <2>1, <2>2 DEF DurableInv, SeesCreated, UserOf
<1> QED
  BY <1>3, <1>4, <1>5, <1>6, <1>7, Zenon DEF UInv

LEMMA StatementFailsKeepsUInv ==
    ASSUME UInv, NEW r \in Request, StatementFails(r)
    PROVE  UInv'
<1>1. /\ pc[r] \in {"wait", "query"} /\ Reply(r, ErrorStatus(r), {})
      /\ UNCHANGED <<durable, users, op, at, known, announced>>
      /\ conns' \in [Replica -> SUBSET Request]
      /\ faults \in Nat /\ faults' = faults + 1 /\ faults' \in 0..MaxFaults
  BY UserAssumption DEF UInv, TypeOK, StatementFails, Release, Fault
<1>2. op[r] \in Op
  BY <1>1, Zenon DEF UInv, TypeOK, RequestInv
<1>3. ErrorStatus(r) \in {400, 404, 500}
  BY <1>2, OpTypes DEF ErrorStatus
<1>4. pc' \in [Request -> Places] /\ answer' \in [Request -> Answer] /\ RequestInv(r)'
  <2>1. {} \in SUBSET User
    OBVIOUS
  <2> QED
    BY <1>1, <1>3, <2>1, ReplyKeepsInv
<1>5. TypeOK'
  BY <1>1, <1>4, Zenon DEF UInv, TypeOK
<1>6. RowInv'
  BY <1>1, SameRows, Zenon DEF Reply, Places
<1>7. \A q \in Request \ {r} : RequestInv(q)' /\ DurableInv(q)'
  BY <1>1, OthersKeepInv, Zenon DEF UInv, TypeOK, Reply, Goto
<1>8. DurableInv(r)'
  <2>1. answer'[r].status = ErrorStatus(r)
    BY <1>1, Zenon DEF UInv, TypeOK, Reply
  <2>2. DurableInv(r)
    BY DEF UInv
  <2> QED
    BY <1>1, <1>3, <2>1, <2>2 DEF DurableInv, SeesCreated, UserOf
<1> QED
  BY <1>4, <1>5, <1>6, <1>7, <1>8 DEF UInv

LEMMA CommitUnansweredKeepsUInv ==
    ASSUME UInv, NEW r \in Request, CommitUnanswered(r)
    PROVE  UInv'
<1>1. /\ pc[r] = "query" /\ op[r].kind = "register" /\ ~Taken(r)
      /\ users' = users \cup {UserOf(r)} /\ Reply(r, 400, {})
      /\ UNCHANGED <<durable, op, at, known, announced>>
      /\ conns' \in [Replica -> SUBSET Request]
      /\ faults \in Nat /\ faults' = faults + 1 /\ faults' \in 0..MaxFaults
  BY UserAssumption DEF UInv, TypeOK, CommitUnanswered, Query, Release, Fault
<1>2. pc' \in [Request -> Places] /\ answer' \in [Request -> Answer] /\ RequestInv(r)'
  <2>1. {} \in SUBSET User
    OBVIOUS
  <2>2. pc[r] # "new" /\ UNCHANGED op /\ Reply(r, 400, {})
    BY <1>1, Zenon
  <2>3. 400 \in {200, 201, 400, 404, 409, 500}
    OBVIOUS
  <2> QED
    BY <2>1, <2>2, <2>3, ReplyKeepsInv
<1>3. users' \subseteq User /\ RowInv'
  BY <1>1, InsertKeepsRows, Zenon DEF Reply
<1>4. TypeOK'
  BY <1>1, <1>2, <1>3, ZenonT(60) DEF UInv, TypeOK
<1>5. \A q \in Request \ {r} : RequestInv(q)' /\ DurableInv(q)'
  BY <1>1, OthersKeepInv DEF UInv, TypeOK, Reply, Goto
<1>6. DurableInv(r)'
  <2>1. answer'[r].status = 400
    BY <1>1 DEF UInv, TypeOK, Reply
  <2>2. DurableInv(r)
    BY DEF UInv
  <2> QED
    BY <1>1, <2>1, <2>2 DEF DurableInv, SeesCreated, UserOf
<1> QED
  BY <1>2, <1>3, <1>4, <1>5, <1>6 DEF UInv

(* Without Postgres the only instance dies, so no request is left that     *)
(* relies on a row of its MemStore.                                        *)
LEMMA CrashKeepsUInv ==
    ASSUME UInv, NEW p \in Instances, Crash(p)
    PROVE  UInv'
<1>1. /\ UNCHANGED <<durable, op, at, answer, known, announced>>
      /\ users' = IF durable THEN users ELSE {}
      /\ faults \in Nat /\ faults' = faults + 1 /\ faults' \in 0..MaxFaults
  BY UserAssumption DEF UInv, TypeOK, Crash, Fault
<1>2. \A r \in Request :
        pc'[r] = IF at[r] = p /\ pc[r] \in InFlight THEN "dropped" ELSE pc[r]
  BY Zenon DEF Crash
<1>3. TypeOK'
  <2>1. pc' \in [Request -> Places]
    BY <1>2, Zenon DEF UInv, TypeOK, Crash, Places
  <2>2. conns' \in [Replica -> SUBSET Request]
    BY ZenonT(30) DEF UInv, TypeOK, Crash
  <2> QED
    BY <1>1, <2>1, <2>2, Zenon DEF UInv, TypeOK
<1>4. RowInv'
  <2>1. \A u \in users : u.id \in Request /\ UserOf(u.id)' = UserOf(u.id)
    BY <1>1, Zenon DEF UInv, TypeOK, User, UserOf
  <2> QED
    BY <1>1, <1>2, <2>1, Zenon DEF UInv, RowInv, InFlight
<1>5. ASSUME NEW r \in Request PROVE RequestInv(r)'
  <2>1. Instances' = Instances /\ UserOf(r)' = UserOf(r)
    BY <1>1, Zenon DEF Instances, UserOf
  <2>2. RequestInv(r)
    BY DEF UInv
  <2>3. CASE pc'[r] = "dropped"
    BY <1>1, <1>2, <2>2, <2>3, Zenon DEF RequestInv, InFlight
  <2>4. CASE pc'[r] = pc[r] /\ pc[r] \notin InFlight
    BY <1>1, <2>1, <2>2, <2>4, Zenon DEF RequestInv, InFlight
  <2>5. CASE pc'[r] = pc[r] /\ pc[r] \in InFlight /\ at[r] # p
    <3>1. durable
      BY <2>2, <2>5, ZenonT(60) DEF RequestInv, Instances
    <3> QED
      BY <1>1, <2>1, <2>2, <2>5, <3>1, Zenon DEF RequestInv, InFlight
  <2> QED
    BY <1>2, <2>3, <2>4, <2>5, Zenon
<1>6. ASSUME NEW r \in Request PROVE DurableInv(r)'
  BY <1>1 DEF UInv, DurableInv, SeesCreated, UserOf
<1> QED
  BY <1>3, <1>4, <1>5, <1>6 DEF UInv

LEMMA UInvNext == UInv /\ [Next]_vars => UInv'
<1> SUFFICES ASSUME UInv, [Next]_vars PROVE UInv'
  OBVIOUS
<1>1. ASSUME NEW r \in Request, NEW p \in Instances, NEW o \in Op, Arrive(r, p, o) PROVE UInv'
  BY <1>1, ArriveKeepsUInv
<1>2. ASSUME NEW r \in Request, Step(r) PROVE UInv'
  BY <1>2, AcquireKeepsUInv, CreateKeepsUInv, ReadKeepsUInv, PublishKeepsUInv,
     RespondKeepsUInv, ZenonT(30) DEF Step, Deliver
<1>3. ASSUME NEW r \in Request, RequestFaults(r) PROVE UInv'
  BY <1>3, PublishKeepsUInv, StatementFailsKeepsUInv, CommitUnansweredKeepsUInv, ZenonT(30)
  DEF RequestFaults, LoseEvent
<1>4. ASSUME NEW p \in Instances, Crash(p) PROVE UInv'
  BY <1>4, CrashKeepsUInv, ZenonT(60)
<1>5. CASE UNCHANGED vars
  BY <1>5 DEF vars, UInv, TypeOK, RowInv, RequestInv, DurableInv, SeesCreated, UserOf, Instances
<1> QED
  BY <1>1, <1>2, <1>3, <1>4, <1>5, Zenon DEF Next

(* The service keeps its invariant: types, unique e-mails, and what the    *)
(* place of each request in its handler says about the table.              *)
THEOREM UserInvariant == Spec => []UInv
  BY UInvInit, UInvNext, PTL DEF Spec

(* With Postgres, user.created is delivered at most once for an e-mail,    *)
(* for any number of replicas racing to register it (Register publishes    *)
(* only after its own insert).                                             *)
THEOREM OneAnnouncement == Spec => []AnnouncedOncePerEmail
<1>1. UInv => AnnouncedOncePerEmail
  <2> SUFFICES ASSUME UInv, durable, NEW q \in Request, NEW r \in Request,
                      announced[q] = 1, announced[r] = 1, op[q].arg = op[r].arg
               PROVE  q = r
    BY Zenon DEF AnnouncedOncePerEmail
  <2>1. UserOf(q) \in users /\ UserOf(r) \in users
    BY Zenon DEF UInv, DurableInv
  <2>2. UserOf(q) = UserOf(r)
    BY <2>1, Zenon DEF UInv, RowInv, UserOf
  <2> QED
    BY <2>2, Zenon DEF UserOf
<1> QED
  BY <1>1, UserInvariant, PTL

(* With Postgres, a read on any replica that arrives after a 201 finds the *)
(* user that was created (Get and List read the shared table).             *)
THEOREM CreatedIsVisible == Spec => []ReadsSeeCreated
<1>1. UInv => ReadsSeeCreated
  BY Zenon DEF UInv, DurableInv, ReadsSeeCreated
<1> QED
  BY <1>1, UserInvariant, PTL

-----------------------------------------------------------------------------
(***************************************************************************)
(* Refinement: every step is a step of the directory, or changes nothing   *)
(* that the directory has.                                                 *)
(***************************************************************************)

(* An answer put into a function of answers is the one read from it.       *)
LEMMA ReplyAnswers ==
    ASSUME UInv, NEW r \in Request, pc[r] # "done", NEW status, NEW body, Reply(r, status, body)
    PROVE  /\ answer'[r] = [status |-> status, users |-> body]
           /\ Directory!Answers(r, answer'[r])
<1>1. answer[r] = NoAnswer /\ answer \in [Request -> Answer]
  BY Zenon DEF UInv, TypeOK, RequestInv
<1>2. answer' = [answer EXCEPT ![r] = [status |-> status, users |-> body]]
  BY Zenon DEF Reply
<1>3. answer'[r] = [status |-> status, users |-> body]
  BY <1>1, <1>2, Zenon
<1> QED
  BY <1>1, <1>2, <1>3, Zenon DEF Directory!Answers

LEMMA ArriveRefines ==
    ASSUME UInv, NEW r \in Request, NEW p \in Instances, NEW o \in Op, Arrive(r, p, o)
    PROVE  Directory!Next
<1>1. op[r] = NoOp /\ op' = [op EXCEPT ![r] = o] /\ UNCHANGED <<durable, users, announced>>
  BY Zenon DEF Arrive, UInv, RequestInv
<1>2. CASE UNCHANGED answer
  <2>1. Directory!Ask(r)
    BY <1>1, <1>2, ZenonT(30) DEF Directory!Ask
  <2> QED
    BY <2>1 DEF Directory!Next
<1>3. CASE Reply(r, 400, {})
  <2>1. Directory!Answers(r, answer'[r]) /\ answer'[r] = [status |-> 400, users |-> {}]
    <3>1. pc[r] # "done"
      BY Zenon DEF Arrive
    <3> QED
      BY <1>3, <3>1, ReplyAnswers
  <2>2. answer'[r].status = 400 /\ answer'[r].users = {}
    BY <2>1
  <2>3. \E x \in Op : op' = [op EXCEPT ![r] = x]
    BY <1>1, ZenonT(30)
  <2>4. Directory!Fail(r)
    BY <1>1, <2>1, <2>2, <2>3, ZenonT(60) DEF Directory!Fail
  <2> QED
    BY <2>4, Zenon DEF Directory!Next
<1> QED
  BY <1>2, <1>3, Zenon DEF Arrive

LEMMA CreateRefines ==
    ASSUME UInv, NEW r \in Request, Create(r)
    PROVE  Directory!Next
<1>1. /\ pc[r] = "query" /\ op[r].kind = "register"
      /\ UNCHANGED <<durable, op, announced>>
  BY Zenon DEF Create, Query
<1>2. op[r] # NoOp /\ answer[r] = NoAnswer
  BY <1>1, Zenon DEF UInv, RequestInv
<1>3. Taken(r) <=> Directory!Taken(op[r].arg)
  BY DEF Taken, Directory!Taken
<1>4. CASE Taken(r)
  <2>1. Reply(r, 409, {}) /\ UNCHANGED users
    BY <1>4 DEF Create
  <2>2. Directory!Answers(r, answer'[r]) /\ answer'[r] = [status |-> 409, users |-> {}]
    BY <1>1, <2>1, ReplyAnswers
  <2>3. Directory!Reply(r)
    BY <1>1, <1>2, <1>3, <1>4, <2>1, <2>2 DEF Directory!Reply, Directory!True
  <2> QED
    BY <2>3 DEF Directory!Next
<1>5. CASE ~Taken(r)
  <2>1. users' = users \cup {UserOf(r)} /\ UNCHANGED answer
    BY <1>5, Zenon DEF Create
  <2>2. Directory!Register(r)
    BY <1>1, <1>2, <1>3, <1>5, <2>1, Zenon DEF Directory!Register, Directory!UserOf, UserOf
  <2> QED
    BY <2>2, Zenon DEF Directory!Next
<1> QED
  BY <1>4, <1>5

LEMMA ReadRefines ==
    ASSUME UInv, NEW r \in Request, Get(r) \/ List(r)
    PROVE  Directory!Next
<1>1. pc[r] = "query" /\ UNCHANGED <<durable, users, op, announced>>
  BY Zenon DEF Get, List, Query
<1>2. op[r] # NoOp
  BY <1>1, Zenon DEF UInv, RequestInv
<1>3. CASE List(r)
  <2>1. /\ op[r].kind = "list" /\ Directory!Answers(r, answer'[r])
        /\ answer'[r] = [status |-> 200, users |-> users]
    BY <1>1, <1>3, ReplyAnswers DEF List, Query
  <2>2. Directory!Reply(r)
    BY <1>1, <1>2, <2>1 DEF Directory!Reply, Directory!True
  <2> QED
    BY <2>2, Zenon DEF Directory!Next
<1>4. CASE Get(r)
  <2> DEFINE found == {u \in users : u.id = op[r].arg}
  <2>1. /\ op[r].kind = "get" /\ Directory!Answers(r, answer'[r])
        /\ answer'[r] = [status |-> IF found = {} THEN 404 ELSE 200, users |-> found]
    <3>1. /\ op[r].kind = "get" /\ pc[r] # "done"
          /\ Reply(r, IF found = {} THEN 404 ELSE 200, found)
      BY <1>1, <1>4, Zenon DEF Get, Query
    <3> HIDE DEF found
    <3> QED
      BY <3>1, ReplyAnswers
  <2>2. CASE found = {}
    <3>1. answer'[r].status = 404 /\ answer'[r].users = {}
      BY <2>1, <2>2
    <3>2. Directory!Fail(r)
      BY <1>1, <1>2, <2>1, <3>1 DEF Directory!Fail
    <3> QED
      BY <3>2 DEF Directory!Next
  <2>3. CASE found # {}
    <3>1. PICK u \in users : u.id = op[r].arg
      BY <2>3, Zenon
    <3>2. found = {u}
      <4>1. \A v \in found : v = u
        BY <3>1, Zenon DEF UInv, RowInv
      <4> QED
        BY <3>1, <4>1, Zenon
    <3>3. answer'[r].status = 200 /\ answer'[r].users = {u}
      BY <2>1, <2>3, <3>2
    <3>4. Directory!Reply(r)
      BY <1>1, <1>2, <2>1, <3>1, <3>3, ZenonT(60) DEF Directory!Reply, Directory!True
    <3> QED
      BY <3>4, Zenon DEF Directory!Next
  <2> QED
    BY <2>2, <2>3, Zenon
<1> QED
  BY <1>3, <1>4, Zenon

LEMMA PublishRefines ==
    ASSUME UInv, NEW r \in Request, NEW d \in BOOLEAN, Publish(r, d)
    PROVE  Directory!Next \/ UNCHANGED Directory!vars
<1>1. pc[r] = "publish" /\ UNCHANGED <<durable, users, op, answer>>
  BY Zenon DEF Publish
<1>2. op[r] # NoOp /\ UserOf(r) \in users /\ announced[r] = 0
  BY <1>1, Zenon DEF UInv, RequestInv
<1>3. CASE d
  <2>1. announced' = [announced EXCEPT ![r] = 1]
    BY <1>2, <1>3 DEF Publish, UInv, TypeOK
  <2>2. Directory!Announce(r)
    BY <1>1, <1>2, <2>1, Zenon DEF Directory!Announce, Directory!UserOf, UserOf
  <2> QED
    BY <2>2, Zenon DEF Directory!Next
<1>4. CASE ~d
  BY <1>1, <1>4, Zenon DEF Publish, Directory!vars
<1> QED
  BY <1>3, <1>4, Zenon

LEMMA RespondRefines ==
    ASSUME UInv, NEW r \in Request, Respond(r)
    PROVE  Directory!Next
<1>1. pc[r] = "reply" /\ UNCHANGED <<durable, users, op, announced>>
  BY Zenon DEF Respond
<1>2. op[r] # NoOp /\ UserOf(r) \in users
  BY <1>1, Zenon DEF UInv, RequestInv
<1>3. Directory!Answers(r, answer'[r]) /\ answer'[r] = [status |-> 201, users |-> {UserOf(r)}]
  BY <1>1, ReplyAnswers DEF Respond
<1>4. Directory!Reply(r)
  BY <1>1, <1>2, <1>3 DEF Directory!Reply, Directory!True, Directory!UserOf, UserOf
<1> QED
  BY <1>4 DEF Directory!Next

LEMMA FailureRefines ==
    ASSUME UInv, NEW r \in Request, StatementFails(r) \/ CommitUnanswered(r)
    PROVE  Directory!Next
<1>1. pc[r] \in {"wait", "query"} /\ UNCHANGED <<durable, op, announced>>
  BY Zenon DEF StatementFails, CommitUnanswered, Query
<1>2. op[r] # NoOp /\ op[r] \in Op
  BY <1>1, Zenon DEF UInv, TypeOK, RequestInv
<1>3. ErrorStatus(r) \in {400, 404, 500}
  BY <1>2, OpTypes DEF ErrorStatus
<1>4. PICK status \in {400, 404, 500} : Reply(r, status, {})
  BY <1>3 DEF StatementFails, CommitUnanswered
<1>5. Directory!Answers(r, answer'[r]) /\ answer'[r] = [status |-> status, users |-> {}]
  BY <1>1, <1>4, ReplyAnswers
<1>a. answer'[r].status \in {400, 404, 500} /\ answer'[r].users = {}
  BY <1>5
<1>6. CASE StatementFails(r)
  <2>0. UNCHANGED <<op, users>> /\ UNCHANGED <<durable, announced>>
    BY <1>6, ZenonT(60) DEF StatementFails
  <2>1. Directory!Fail(r)
    BY <1>2, <1>5, <1>a, <2>0, ZenonT(60) DEF Directory!Fail
  <2> QED
    BY <2>1 DEF Directory!Next
<1>7. CASE CommitUnanswered(r)
  <2>1. ~Directory!Taken(op[r].arg) /\ users' = users \cup {Directory!UserOf(r)}
    BY <1>7 DEF CommitUnanswered, Taken, Directory!Taken, Directory!UserOf, UserOf
  <2>2. UNCHANGED op /\ UNCHANGED <<durable, announced>>
    BY <1>1
  <2>3. Directory!Fail(r)
    BY <1>2, <1>5, <1>a, <2>1, <2>2, ZenonT(60) DEF Directory!Fail
  <2> QED
    BY <2>3 DEF Directory!Next
<1> QED
  BY <1>6, <1>7

(* Any number of replicas over one table, with their pools, lost events,   *)
(* failed statements, unheard commits and crashes, implement one atomic    *)
(* directory; so does a single process over a MemStore (all of Routes).    *)
THEOREM ServiceImplementsRegistry == Spec => ImplementsRegistry
<1>1. Init => Directory!Init
  BY Zenon DEF Init, Directory!Init
<1>2. ASSUME UInv, [Next]_vars
      PROVE  [Directory!Next]_(Directory!vars)
  <2>1. ASSUME NEW r \in Request, NEW p \in Instances, NEW o \in Op, Arrive(r, p, o)
        PROVE  Directory!Next
    BY <1>2, <2>1, ArriveRefines, Zenon
  <2>2. ASSUME NEW r \in Request, Step(r) PROVE Directory!Next \/ UNCHANGED Directory!vars
    <3>1. CASE Acquire(r)
      BY <3>1, Zenon DEF Acquire, Directory!vars
    <3> QED
      BY <1>2, <2>2, <3>1, CreateRefines, ReadRefines, PublishRefines, RespondRefines, ZenonT(30)
      DEF Step, Deliver
  <2>3. ASSUME NEW r \in Request, RequestFaults(r)
        PROVE  Directory!Next \/ UNCHANGED Directory!vars
    BY <1>2, <2>3, PublishRefines, FailureRefines, ZenonT(60) DEF RequestFaults, LoseEvent
  <2>4. ASSUME NEW p \in Instances, Crash(p)
        PROVE  Directory!Next \/ UNCHANGED Directory!vars
    <3>1. CASE durable
      BY <2>4, <3>1, Zenon DEF Crash, Directory!vars
    <3>2. CASE ~durable
      BY <2>4, <3>2, Zenon DEF Crash, Directory!Next, Directory!Forget
    <3> QED
      BY <3>1, <3>2
  <2>5. CASE UNCHANGED vars
    BY <2>5 DEF vars, Directory!vars
  <2> QED
    BY <1>2, <2>1, <2>2, <2>3, <2>4, <2>5, Zenon DEF Next
<1> QED
  BY <1>1, <1>2, UserInvariant, PTL DEF Spec, ImplementsRegistry, Directory!Spec

=============================================================================

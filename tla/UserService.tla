----------------------------- MODULE UserService ----------------------------
(***************************************************************************)
(* The user service: replicas that each serve requests concurrently over   *)
(* one Postgres table, or a single process over a MemStore (selectStore).  *)
(* A request is a goroutine: it waits for a connection of its replica's    *)
(* pool, runs one statement, and a registration then publishes             *)
(* user.created and answers.  Between those steps other requests run, the  *)
(* statement can fail or commit unheard, and the replica can die.          *)
(*                                                                         *)
(* The id of a user is a fresh UUID; it is written as the request that     *)
(* made it.  known[r] is what had been answered 201 when r arrived.        *)
(***************************************************************************)
EXTENDS Integers, FiniteSets

CONSTANTS
    Replica,
    Request,
    Email,       \* e-mail strings of requests
    Valid,       \* the ones mail.ParseAddress accepts
    Lookup,      \* bound: the ids that are looked up
    MaxConns,    \* DB_MAX_CONNS, per replica
    MaxFaults,   \* bound: failed statements, lost events and crashes
    NoOp, NoReplica

ASSUME UserAssumption ==
    /\ Replica # {}
    /\ Valid \subseteq Email
    /\ Lookup \subseteq Request
    /\ MaxConns \in Nat \ {0}
    /\ MaxFaults \in Nat
    /\ NoReplica \notin Replica

User == [id : Request, email : Email]

Op ==
    [kind : {"register"}, arg : Email] \cup [kind : {"get"}, arg : Lookup]
    \cup [kind : {"list"}, arg : {"all"}]

ASSUME NoOpAssumption == NoOp \notin Op

Answer == [status : {0, 200, 201, 400, 404, 409, 500}, users : SUBSET User]

NoAnswer == [status |-> 0, users |-> {}]

(* Where the handler of a request is.                                      *)
InFlight == {"wait", "query", "publish", "reply"}

Places == {"new", "done", "dropped"} \cup InFlight

VARIABLES
    durable,     \* POSTGRES_DSN is set
    users,       \* the rows of table users, or MemStore.users
    pc, op, at, answer, known,
    conns,       \* conns[p]: the requests that hold a connection of p's pool
    announced,   \* announced[r]: deliveries of user.created for the user of r
    faults

vars == <<durable, users, pc, op, at, answer, known, conns, announced, faults>>

TypeOK ==
    /\ durable \in BOOLEAN
    /\ users \subseteq User
    /\ pc \in [Request -> Places]
    /\ op \in [Request -> Op \cup {NoOp}]
    /\ at \in [Request -> Replica \cup {NoReplica}]
    /\ answer \in [Request -> Answer]
    /\ known \in [Request -> SUBSET User]
    /\ conns \in [Replica -> SUBSET Request]
    /\ announced \in [Request -> 0..1]
    /\ faults \in 0..MaxFaults

Init ==
    /\ durable \in BOOLEAN
    /\ users = {}
    /\ pc = [r \in Request |-> "new"]
    /\ op = [r \in Request |-> NoOp]
    /\ at = [r \in Request |-> NoReplica]
    /\ answer = [r \in Request |-> NoAnswer]
    /\ known = [r \in Request |-> {}]
    /\ conns = [p \in Replica |-> {}]
    /\ announced = [r \in Request |-> 0]
    /\ faults = 0

-----------------------------------------------------------------------------

(* "single-instance only" without Postgres.                                *)
Instances == IF durable THEN Replica ELSE {CHOOSE p \in Replica : TRUE}

UserOf(r) == [id |-> r, email |-> op[r].arg]

Goto(r, next) == pc' = [pc EXCEPT ![r] = next]

Reply(r, status, body) ==
    /\ Goto(r, "done")
    /\ answer' = [answer EXCEPT ![r] = [status |-> status, users |-> body]]

Created == UNION {answer[r].users : r \in {r \in Request : answer[r].status = 201}}

(* A body that does not decode is refused like an address that does not    *)
(* parse.                                                                  *)
Malformed(o) == o.kind = "register" /\ o.arg \notin Valid

Arrive(r, p, o) ==
    /\ pc[r] = "new"
    /\ op' = [op EXCEPT ![r] = o]
    /\ at' = [at EXCEPT ![r] = p]
    /\ known' = [known EXCEPT ![r] = Created]
    /\ \/ Malformed(o) /\ Reply(r, 400, {})
       \/ ~Malformed(o) /\ Goto(r, IF durable THEN "wait" ELSE "query") /\ UNCHANGED answer
    /\ UNCHANGED <<durable, users, conns, announced, faults>>

(* The pool hands out at most MaxConns connections; the others wait.       *)
Acquire(r) ==
    /\ pc[r] = "wait"
    /\ Cardinality(conns[at[r]]) < MaxConns
    /\ conns' = [conns EXCEPT ![at[r]] = @ \cup {r}]
    /\ Goto(r, "query")
    /\ UNCHANGED <<durable, users, op, at, answer, known, announced, faults>>

Release(r) == conns' = [p \in Replica |-> conns[p] \ {r}]

Query(r, kind) ==
    /\ pc[r] = "query"
    /\ op[r].kind = kind
    /\ Release(r)
    /\ UNCHANGED <<durable, op, at, known, announced>>

(* Mutant: the e-mail is looked up before the insert and not constrained.  *)
Taken_Unconstrained(r) == \E u \in users : u.id = r

(* UNIQUE (email), or the scan of MemStore.Create under its lock.          *)
Taken(r) == \E u \in users : u.email = op[r].arg

(* Mutant: the conflict is answered after the event went out.              *)
Create_AnnouncesLoser(r) ==
    /\ Query(r, "register")
    /\ users' = IF Taken(r) THEN users ELSE users \cup {UserOf(r)}
    /\ Goto(r, "publish")
    /\ UNCHANGED <<answer, faults>>

Create(r) ==
    /\ Query(r, "register")
    /\ \/ Taken(r) /\ Reply(r, 409, {}) /\ UNCHANGED users
       \/ ~Taken(r) /\ users' = users \cup {UserOf(r)} /\ Goto(r, "publish") /\ UNCHANGED answer
    /\ UNCHANGED faults

Get(r) ==
    LET found == {u \in users : u.id = op[r].arg} IN
    /\ Query(r, "get")
    /\ Reply(r, IF found = {} THEN 404 ELSE 200, found)
    /\ UNCHANGED <<users, faults>>

(* Mutant: a replica lists the users it registered itself.                 *)
List_OwnUsers(r) ==
    /\ Query(r, "list")
    /\ Reply(r, 200, {u \in users : at[u.id] = at[r]})
    /\ UNCHANGED <<users, faults>>

List(r) ==
    /\ Query(r, "list")
    /\ Reply(r, 200, users)
    /\ UNCHANGED <<users, faults>>

Publish(r, delivered) ==
    /\ pc[r] = "publish"
    /\ announced' = IF delivered THEN [announced EXCEPT ![r] = @ + 1] ELSE announced
    /\ Goto(r, "reply")
    /\ UNCHANGED <<durable, users, op, at, answer, known, conns>>

Deliver(r) == Publish(r, TRUE) /\ UNCHANGED faults

Respond(r) ==
    /\ pc[r] = "reply"
    /\ Reply(r, 201, {UserOf(r)})
    /\ UNCHANGED <<durable, users, op, at, known, conns, announced, faults>>

-----------------------------------------------------------------------------

Fault == faults < MaxFaults /\ faults' = faults + 1

(* The event is lost with the bus's buffer; the error is discarded.        *)
LoseEvent(r) == Publish(r, FALSE) /\ Fault

ErrorStatus(r) ==
    CASE op[r].kind = "register" -> 400
      [] op[r].kind = "get" -> 404
      [] op[r].kind = "list" -> 500

(* Mutant: the rows of a failed query are not closed.                      *)
StatementFails_Leaks(r) ==
    /\ durable
    /\ pc[r] \in {"wait", "query"}
    /\ Reply(r, ErrorStatus(r), {})
    /\ Fault
    /\ UNCHANGED <<durable, users, op, at, known, conns, announced>>

(* The statement fails, or the request's context ends while it waits.      *)
StatementFails(r) ==
    /\ durable
    /\ pc[r] \in {"wait", "query"}
    /\ Reply(r, ErrorStatus(r), {})
    /\ Release(r)
    /\ Fault
    /\ UNCHANGED <<durable, users, op, at, known, announced>>

(* The insert commits and the connection breaks before the answer.         *)
CommitUnanswered(r) ==
    /\ durable
    /\ Query(r, "register")
    /\ ~Taken(r)
    /\ users' = users \cup {UserOf(r)}
    /\ Reply(r, 400, {})
    /\ Fault

(* A replica dies with its requests, its pool and its MemStore; another    *)
(* process takes its place.                                                *)
Crash(p) ==
    /\ pc' = [r \in Request |-> IF at[r] = p /\ pc[r] \in InFlight THEN "dropped" ELSE pc[r]]
    /\ conns' = [conns EXCEPT ![p] = {}]
    /\ users' = IF durable THEN users ELSE {}
    /\ Fault
    /\ UNCHANGED <<durable, op, at, answer, known, announced>>

-----------------------------------------------------------------------------

Step(r) == Acquire(r) \/ Create(r) \/ Get(r) \/ List(r) \/ Deliver(r) \/ Respond(r)

RequestFaults(r) == LoseEvent(r) \/ StatementFails(r) \/ CommitUnanswered(r)

Next ==
    \/ \E r \in Request :
        \/ \E p \in Instances, o \in Op : Arrive(r, p, o)
        \/ Step(r)
        \/ RequestFaults(r)
    \/ \E p \in Instances : Crash(p)

Spec == Init /\ [][Next]_vars

(* Go runs every goroutine and the pool serves its waiters in turn; nothing*)
(* obliges a request to arrive or a fault to happen.                       *)
FairSpec == Spec /\ \A r \in Request : WF_vars(Step(r))

-----------------------------------------------------------------------------
(***************************************************************************)
(* Properties.                                                             *)
(***************************************************************************)

(* However the replicas interleave, fail and restart, the service behaves  *)
(* like one atomic directory (Register, Store.Create, Get and List).       *)
Directory == INSTANCE Registry

ImplementsRegistry == Directory!Spec

(* One person, one welcome: with Postgres, user.created is delivered at    *)
(* most once for an e-mail, although registrations of it race and are      *)
(* retried after errors (Publish follows a successful Create).             *)
AnnouncedOncePerEmail ==
    durable =>
        \A q, r \in Request :
            announced[q] = 1 /\ announced[r] = 1 /\ op[q].arg = op[r].arg => q = r

(* With Postgres, whoever asks any replica after a 201 finds that user in  *)
(* the list, and by id unless a statement failed ("instances are stateless *)
(* and horizontally scalable").                                            *)
SeesCreated(r) ==
    /\ answer[r].status = 200 /\ op[r].kind = "list" => known[r] \subseteq answer[r].users
    /\ answer[r].status = 404 /\ (\E u \in known[r] : u.id = op[r].arg) => faults > 0

ReadsSeeCreated == durable => \A r \in Request : SeesCreated(r)

(* Every request that arrived is answered, unless its replica died, even   *)
(* when there are more requests than connections; and a user whose request *)
(* met no fault is announced (the pool of NewPostgresStore, Register).     *)
RequestsEnd ==
    \A r \in Request :
        /\ pc[r] = "wait" ~> pc[r] \in {"done", "dropped"}
        /\ pc[r] = "publish" ~> announced[r] = 1 \/ faults > 0

(* The inductive invariant behind the safety properties: what a request's  *)
(* place in its handler says about the table, its answer and its event.    *)
RowInv ==
    /\ \A u, v \in users : u.email = v.email => u = v
    /\ \A u \in users : pc[u.id] \notin {"new", "wait", "query"} /\ u = UserOf(u.id)

RequestInv(r) ==
    /\ pc[r] = "new" <=> op[r] = NoOp
    /\ pc[r] # "done" => answer[r] = NoAnswer
    /\ pc[r] \in InFlight => at[r] \in Instances
    /\ pc[r] \in {"publish", "reply"} => op[r].kind = "register" /\ UserOf(r) \in users
    /\ pc[r] \in {"new", "wait", "query", "publish"} => announced[r] = 0

DurableInv(r) ==
    durable =>
        /\ announced[r] = 1 => UserOf(r) \in users
        /\ answer[r].status = 201 => answer[r].users \subseteq users
        /\ known[r] \subseteq users
        /\ SeesCreated(r)

UInv == TypeOK /\ RowInv /\ \A r \in Request : RequestInv(r) /\ DurableInv(r)

=============================================================================

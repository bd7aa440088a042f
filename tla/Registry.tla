------------------------------ MODULE Registry ------------------------------
(***************************************************************************)
(* What the user service promises, as if it were one atomic directory: an  *)
(* e-mail belongs to at most one user, a user is announced at most once    *)
(* and only while it exists, and every answer is true of the directory at  *)
(* the moment it is given.  A request may also fail, and then its user may *)
(* exist all the same.  UserService implements this with any number of     *)
(* replicas.                                                               *)
(***************************************************************************)
EXTENDS Integers

CONSTANTS Request, Op, NoOp, NoAnswer

VARIABLES durable, users, op, answer, announced

vars == <<durable, users, op, answer, announced>>

Taken(email) == \E u \in users : u.email = email

UserOf(r) == [id |-> r, email |-> op[r].arg]

Init ==
    /\ durable \in BOOLEAN
    /\ users = {}
    /\ op = [r \in Request |-> NoOp]
    /\ answer = [r \in Request |-> NoAnswer]
    /\ announced = [r \in Request |-> 0]

Ask(r) ==
    /\ op[r] = NoOp
    /\ \E o \in Op : op' = [op EXCEPT ![r] = o]
    /\ UNCHANGED <<durable, users, answer, announced>>

Register(r) ==
    /\ op[r] # NoOp /\ op[r].kind = "register"
    /\ answer[r] = NoAnswer
    /\ ~Taken(op[r].arg)
    /\ users' = users \cup {UserOf(r)}
    /\ UNCHANGED <<durable, op, answer, announced>>

Announce(r) ==
    /\ op[r] # NoOp /\ UserOf(r) \in users
    /\ announced[r] = 0
    /\ announced' = [announced EXCEPT ![r] = 1]
    /\ UNCHANGED <<durable, users, op, answer>>

Answers(r, a) == answer[r] = NoAnswer /\ answer' = [answer EXCEPT ![r] = a]

(* The answers that the directory justifies: created, refused, read.       *)
True(r, a) ==
    \/ a.status = 201 /\ a.users = {UserOf(r)} /\ UserOf(r) \in users
    \/ a.status = 409 /\ op[r].kind = "register" /\ Taken(op[r].arg)
    \/ a.status = 200 /\ op[r].kind = "list" /\ a.users = users
    \/ a.status = 200 /\ op[r].kind = "get" /\ \E u \in users : u.id = op[r].arg /\ a.users = {u}

Reply(r) ==
    /\ op[r] # NoOp
    /\ Answers(r, answer'[r])
    /\ True(r, answer'[r])
    /\ UNCHANGED <<durable, users, op, announced>>

(* An error promises nothing: also a 404, which a failed lookup gets too.  *)
(* A malformed request is refused as it arrives; a registration may have   *)
(* taken effect.                                                           *)
Fail(r) ==
    /\ Answers(r, answer'[r])
    /\ answer'[r].status \in {400, 404, 500}
    /\ answer'[r].users = {}
    /\ \/ op[r] # NoOp /\ UNCHANGED <<op, users>>
       \/ op[r] = NoOp /\ (\E o \in Op : op' = [op EXCEPT ![r] = o]) /\ UNCHANGED users
       \/ op[r] # NoOp /\ ~Taken(op[r].arg) /\ users' = users \cup {UserOf(r)} /\ UNCHANGED op
    /\ UNCHANGED <<durable, announced>>

(* A store kept in the process is gone with it.                            *)
Forget ==
    /\ ~durable
    /\ users' = {}
    /\ UNCHANGED <<durable, op, answer, announced>>

Next ==
    \/ \E r \in Request : Ask(r) \/ Register(r) \/ Announce(r) \/ Reply(r) \/ Fail(r)
    \/ Forget

Spec == Init /\ [][Next]_vars

=============================================================================

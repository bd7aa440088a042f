---------------------------- MODULE RedisLimiter ----------------------------
(***************************************************************************)
(* gateway.RedisRateLimiter for one client address, whose requests reach   *)
(* any replica of the gateway.  Each request is a goroutine that reads the *)
(* clock, sends INCR and, when it got 1, sends EXPIRE; time passes and     *)
(* other requests run between those steps.  Redis executes one command at  *)
(* a time and drops a key when its time to live is over.                   *)
(*                                                                         *)
(* An attempt at a command may stay without an answer, although Redis has  *)
(* executed it or is going to.  go-redis then sends the command again, up  *)
(* to MaxRetries times, before Allow sees an error.                        *)
(*                                                                         *)
(* counter[w] and deadline[w] are the Redis key "rl:<client>:<w>".  tries  *)
(* counts the attempts that r's present command has had in vain.  at[r] is *)
(* the time an INCR was last executed while r waited for it.  lateIncr[w]  *)
(* and lateExpire[w] count the commands on the way to Redis that nobody    *)
(* waits for, and faults[w] the attempts that had no answer.               *)
(***************************************************************************)
EXTENDS Integers, FiniteSets

CONSTANTS
    Request,     \* requests of one client
    Limit,       \* r.limit
    Window,      \* r.window in seconds
    MaxRetries,  \* redis.Options.MaxRetries, 3 by default
    MaxTime,     \* bound: when the clock stops
    MaxFaults,   \* bound: unanswered attempts of one window
    Never        \* no time

ASSUME LimiterAssumption ==
    /\ IsFiniteSet(Request)
    /\ Limit \in Nat \ {0}
    /\ Window \in Nat \ {0}
    /\ MaxRetries \in Nat
    /\ MaxTime \in Nat
    /\ MaxFaults \in Nat
    /\ Never \notin Nat

WindowIdx(t) == t \div Window

Windows == 0..WindowIdx(MaxTime)

VARIABLES now, pc, idx, at, tries, counter, deadline, lateIncr, lateExpire, faults

vars == <<now, pc, idx, at, tries, counter, deadline, lateIncr, lateExpire, faults>>

Decided == {"allowed", "denied", "failopen", "dead"}

TypeOK ==
    /\ now \in 0..MaxTime
    /\ pc \in [Request -> {"new", "incr", "expire"} \cup Decided]
    /\ idx \in [Request -> Windows]
    /\ at \in [Request -> 0..MaxTime \cup {Never}]
    /\ tries \in [Request -> 0..MaxRetries]
    /\ counter \in [Windows -> Nat]
    /\ deadline \in [Windows -> 0..(MaxTime + Window) \cup {Never}]
    /\ lateIncr \in [Windows -> Nat]
    /\ lateExpire \in [Windows -> Nat]
    /\ faults \in [Windows -> 0..MaxFaults]

Init ==
    /\ now = 0
    /\ pc = [r \in Request |-> "new"]
    /\ idx = [r \in Request |-> 0]
    /\ at = [r \in Request |-> Never]
    /\ tries = [r \in Request |-> 0]
    /\ counter = [w \in Windows |-> 0]
    /\ deadline = [w \in Windows |-> Never]
    /\ lateIncr = [w \in Windows |-> 0]
    /\ lateExpire = [w \in Windows |-> 0]
    /\ faults = [w \in Windows |-> 0]

Goto(r, next) == pc' = [pc EXCEPT ![r] = next] /\ tries' = [tries EXCEPT ![r] = 0]

(* Mutant: the request that reaches the limit is denied.                   *)
Answer_BelowLimit(count) == IF count < Limit THEN "allowed" ELSE "denied"

Answer(count) == IF count <= Limit THEN "allowed" ELSE "denied"

(* INCR creates a missing key at 1, without a time to live.                *)
IncrKey(w) == counter' = [counter EXCEPT ![w] = @ + 1]

(* Mutant: the key lives one second less than the window.                  *)
ExpireKey_Short(w) ==
    deadline' = IF counter[w] = 0 THEN deadline
                ELSE [deadline EXCEPT ![w] = now + Window - 1]

(* EXPIRE has no effect on a key that does not exist.                      *)
ExpireKey(w) ==
    deadline' = IF counter[w] = 0 THEN deadline
                ELSE [deadline EXCEPT ![w] = now + Window]

(* The request computes the key from the clock of its replica.             *)
ReadClock(r) ==
    /\ pc[r] = "new"
    /\ idx' = [idx EXCEPT ![r] = WindowIdx(now)]
    /\ Goto(r, "incr")
    /\ UNCHANGED <<now, at, counter, deadline, lateIncr, lateExpire, faults>>

Counts(r) == IncrKey(idx[r]) /\ at' = [at EXCEPT ![r] = now]

(* Mutant: INCR without EXPIRE.                                            *)
Incr_NoExpire(r) ==
    /\ pc[r] = "incr"
    /\ Counts(r)
    /\ Goto(r, Answer(counter'[idx[r]]))
    /\ UNCHANGED <<now, idx, deadline, lateIncr, lateExpire, faults>>

Incr(r) ==
    /\ pc[r] = "incr"
    /\ Counts(r)
    /\ Goto(r, IF counter'[idx[r]] = 1 THEN "expire" ELSE Answer(counter'[idx[r]]))
    /\ UNCHANGED <<now, idx, deadline, lateIncr, lateExpire, faults>>

Expire(r) ==
    /\ pc[r] = "expire"
    /\ ExpireKey(idx[r])
    /\ Goto(r, Answer(1))
    /\ UNCHANGED <<now, idx, at, counter, lateIncr, lateExpire, faults>>

Fault(r) ==
    /\ faults[idx[r]] < MaxFaults
    /\ faults' = [faults EXCEPT ![idx[r]] = @ + 1]
    /\ UNCHANGED <<now, idx>>

(* r waits in vain for the answer to INCR, which Redis executed, will      *)
(* execute or never gets.                                                  *)
IncrUnanswered(r) ==
    /\ pc[r] = "incr"
    /\ Fault(r)
    /\ \/ Counts(r) /\ UNCHANGED lateIncr
       \/ lateIncr' = [lateIncr EXCEPT ![idx[r]] = @ + 1] /\ UNCHANGED <<counter, at>>
       \/ UNCHANGED <<counter, at, lateIncr>>
    /\ UNCHANGED <<deadline, lateExpire>>

ExpireUnanswered(r) ==
    /\ pc[r] = "expire"
    /\ Fault(r)
    /\ \/ ExpireKey(idx[r]) /\ UNCHANGED lateExpire
       \/ lateExpire' = [lateExpire EXCEPT ![idx[r]] = @ + 1] /\ UNCHANGED deadline
       \/ UNCHANGED <<deadline, lateExpire>>
    /\ UNCHANGED <<at, counter, lateIncr>>

(* go-redis sends the command again, having closed the connection.         *)
Retry(r) ==
    /\ IncrUnanswered(r) \/ ExpireUnanswered(r)
    /\ tries[r] < MaxRetries
    /\ tries' = [tries EXCEPT ![r] = @ + 1]
    /\ UNCHANGED pc

(* The last attempt failed, or the client went away and the context ended. *)
(* The request is let through.                                             *)
IncrFails(r) == IncrUnanswered(r) /\ Goto(r, "failopen")

(* The error of EXPIRE is discarded.                                       *)
ExpireFails(r) == ExpireUnanswered(r) /\ Goto(r, Answer(1))

(* The replica dies before it answers.                                     *)
Die(r) == (IncrUnanswered(r) \/ ExpireUnanswered(r)) /\ Goto(r, "dead")

(* Redis executes a command nobody waits for any more.                     *)
LateIncr(w) ==
    /\ lateIncr[w] > 0
    /\ lateIncr' = [lateIncr EXCEPT ![w] = @ - 1]
    /\ IncrKey(w)
    /\ UNCHANGED <<now, pc, idx, at, tries, deadline, lateExpire, faults>>

LateExpire(w) ==
    /\ lateExpire[w] > 0
    /\ lateExpire' = [lateExpire EXCEPT ![w] = @ - 1]
    /\ ExpireKey(w)
    /\ UNCHANGED <<now, pc, idx, at, tries, counter, lateIncr, faults>>

(* A second passes; Redis drops the keys whose time is over.               *)
Tick ==
    LET expired == {w \in Windows : deadline[w] # Never /\ deadline[w] <= now + 1} IN
    /\ now < MaxTime
    /\ now' = now + 1
    /\ counter' = [w \in Windows |-> IF w \in expired THEN 0 ELSE counter[w]]
    /\ deadline' = [w \in Windows |-> IF w \in expired THEN Never ELSE deadline[w]]
    /\ UNCHANGED <<pc, idx, at, tries, lateIncr, lateExpire, faults>>

Next ==
    \/ \E r \in Request :
        \/ ReadClock(r) \/ Incr(r) \/ Expire(r)
        \/ Retry(r) \/ IncrFails(r) \/ ExpireFails(r) \/ Die(r)
    \/ \E w \in Windows : LateIncr(w) \/ LateExpire(w)
    \/ Tick

Spec == Init /\ [][Next]_vars

-----------------------------------------------------------------------------

(* The requests of the window that are through with INCR, and were counted *)
(* once or several times.                                                  *)
Counted(w) == {r \in Request : idx[r] = w /\ at[r] # Never /\ pc[r] # "incr"}

(* Those that INCR let in by its answer.                                   *)
Allowed(w) == {r \in Counted(w) : pc[r] \in {"expire", "allowed"}}

(* Those of them whose INCR was executed before the window was over.       *)
Inside(w) == {r \in Allowed(w) : WindowIdx(at[r]) = w}

(* All replicas together let in at most Limit requests by the answer of an *)
(* INCR executed in the window they computed: the key cannot expire before *)
(* the window ends, whichever request, retry or late command set its time  *)
(* to live.  The requests that an error of INCR lets through, which        *)
(* Allow does not limit, are not among them.                               *)
SharedLimit == \A w \in Windows : Cardinality(Inside(w)) <= Limit

(* "NewRedisRateLimiter allows `limit` requests per `window` per key",     *)
(* including the requests whose INCR arrives after the window is over.     *)
LimitPerWindow == \A w \in Windows : Cardinality(Allowed(w)) <= Limit

(* A request is denied only when more than Limit requests of its window    *)
(* were counted, itself among them, each unanswered attempt of the window  *)
(* standing for one: sending INCR again after an attempt without an answer *)
(* costs the client at most one request of its limit.                      *)
DenialJustified ==
    \A r \in Request : pc[r] = "denied" =>
        Cardinality(Counted(idx[r])) + faults[idx[r]] > Limit

(* Every key has a time to live, or a request about to set one, unless a   *)
(* command of that very window had no answer.                              *)
NoKeyLeaks ==
    \A w \in Windows : counter[w] > 0 /\ deadline[w] = Never =>
        \/ \E r \in Request : pc[r] = "expire" /\ idx[r] = w
        \/ faults[w] > 0

(* What the properties above rest on: a counter exceeds the requests       *)
(* counted by no more than the unanswered attempts, until the end of its   *)
(* window it is at least the number of requests let in, and no key expires *)
(* before that, because EXPIRE, however late, comes after the window began.*)
RequestInv(r) ==
    /\ pc[r] = "new" => at[r] = Never
    /\ pc[r] \in {"expire", "allowed", "denied"} => at[r] # Never
    /\ idx[r] * Window <= now

KeyInv(w) ==
    /\ counter[w] + lateIncr[w] <= Cardinality(Counted(w)) + faults[w]
    /\ now < (w + 1) * Window => Cardinality(Inside(w)) <= counter[w]
    /\ lateIncr[w] <= faults[w]
    /\ lateIncr[w] + lateExpire[w] > 0 => w * Window <= now
    /\ deadline[w] # Never => deadline[w] >= (w + 1) * Window

RInv ==
    /\ TypeOK
    /\ \A r \in Request : RequestInv(r)
    /\ \A w \in Windows : KeyInv(w)

=============================================================================

---------------------------- MODULE TokenBucket ----------------------------
(***************************************************************************)
(* gateway.RateLimiter, the in-process token-bucket limiter.  Allow runs   *)
(* under the mutex from the clock reading to the answer, so one call is    *)
(* one step.  Tokens are counted in exact fractions, Unit to the token:    *)
(* rate is Rate / Unit tokens per tick and burst is Burst / Unit tokens.   *)
(*                                                                         *)
(* mark and granted observe the limiter: mark is the start of an arbitrary *)
(* interval and granted[k] the number of requests of k allowed since then. *)
(* lastGrant[k] is the time of the last request of k that was allowed.     *)
(***************************************************************************)
EXTENDS Integers

CONSTANTS
    Key,        \* client addresses
    Unit,       \* fractions of a token that make one token
    Rate,       \* rl.rate, fractions per tick
    Burst,      \* rl.burst, in fractions
    MaxTime,    \* bound: when the clock stops
    MaxGrants   \* bound: requests of a key allowed in the observed interval

ASSUME BucketAssumption ==
    /\ Unit \in Nat \ {0}
    /\ Rate \in Nat
    /\ Burst \in Nat /\ Burst >= Unit
    /\ MaxTime \in Nat
    /\ MaxGrants \in Nat

VARIABLES now, seen, tokens, last, mark, granted, lastGrant

vars == <<now, seen, tokens, last, mark, granted, lastGrant>>

TypeOK ==
    /\ now \in Nat
    /\ seen \subseteq Key                  \* the keys of rl.buckets
    /\ tokens \in [Key -> 0..Burst]        \* b.tokens
    /\ last \in [Key -> Nat]               \* b.last
    /\ mark \in Nat
    /\ granted \in [Key -> Nat]
    /\ lastGrant \in [Key -> Nat]

Init ==
    /\ now = 0
    /\ seen = {}
    /\ tokens = [k \in Key |-> 0]
    /\ last = [k \in Key |-> 0]
    /\ mark = 0
    /\ granted = [k \in Key |-> 0]
    /\ lastGrant = [k \in Key |-> 0]

(* Mutant: the refill is not capped at the burst.                          *)
Refilled_Uncapped(k) == tokens[k] + (now - last[k]) * Rate

(* b.tokens after the refill at the head of Allow.                         *)
Refilled(k) ==
    LET refill == tokens[k] + (now - last[k]) * Rate
    IN  IF refill < Burst THEN refill ELSE Burst

Grant(k) ==
    /\ granted[k] < MaxGrants
    /\ granted' = [granted EXCEPT ![k] = @ + 1]
    /\ lastGrant' = [lastGrant EXCEPT ![k] = now]
    /\ last' = [last EXCEPT ![k] = now]
    /\ UNCHANGED <<now, mark>>

(* Mutant: the first request is not charged.                               *)
AllowFirst_Free(k) ==
    /\ k \notin seen
    /\ seen' = seen \cup {k}
    /\ tokens' = [tokens EXCEPT ![k] = Burst]
    /\ Grant(k)

(* The first request of a key creates its bucket and is allowed.           *)
AllowFirst(k) ==
    /\ k \notin seen
    /\ seen' = seen \cup {k}
    /\ tokens' = [tokens EXCEPT ![k] = Burst - Unit]
    /\ Grant(k)

AllowNext(k) ==
    /\ k \in seen
    /\ Refilled(k) >= Unit
    /\ tokens' = [tokens EXCEPT ![k] = Refilled(k) - Unit]
    /\ Grant(k)
    /\ UNCHANGED seen

(* Mutant: a denied request starts the refill over.                        *)
Deny_DropsRefill(k) ==
    /\ k \in seen
    /\ Refilled(k) < Unit
    /\ last' = [last EXCEPT ![k] = now]
    /\ UNCHANGED <<now, seen, tokens, mark, granted, lastGrant>>

(* A denied request keeps the refill it computed and costs nothing.        *)
Deny(k) ==
    /\ k \in seen
    /\ Refilled(k) < Unit
    /\ tokens' = [tokens EXCEPT ![k] = Refilled(k)]
    /\ last' = [last EXCEPT ![k] = now]
    /\ UNCHANGED <<now, seen, mark, granted, lastGrant>>

Tick ==
    /\ now < MaxTime
    /\ now' = now + 1
    /\ UNCHANGED <<seen, tokens, last, mark, granted, lastGrant>>

(* The observer starts a new interval.                                     *)
Observe ==
    /\ mark' = now
    /\ granted' = [k \in Key |-> 0]
    /\ UNCHANGED <<now, seen, tokens, last, lastGrant>>

Next ==
    \/ \E k \in Key : AllowFirst(k) \/ AllowNext(k) \/ Deny(k)
    \/ Tick
    \/ Observe

Spec == Init /\ [][Next]_vars

-----------------------------------------------------------------------------

(* In every interval, however long and wherever it starts, a key is        *)
(* allowed at most burst + rate * length requests: idle time saves up no   *)
(* more than the burst (the min in Allow).                                 *)
RateBounded == \A k \in Key : granted[k] * Unit <= Burst + (now - mark) * Rate

(* A request is denied only if one of the same key was allowed less than   *)
(* one token's refill ago: a client that keeps retrying while denied does  *)
(* not push back its own next token.                                       *)
DenialJustified ==
    \A k \in seen : Refilled(k) < Unit => (now - lastGrant[k]) * Rate < Unit

(* What makes the two inductive: a granted request was paid from the       *)
(* bucket since mark, and the bucket holds all the refill since the last   *)
(* grant.                                                                  *)
BucketInv ==
    /\ TypeOK
    /\ mark <= now
    /\ \A k \in Key :
        /\ k \notin seen => granted[k] = 0
        /\ k \in seen =>
            /\ lastGrant[k] <= last[k]
            /\ last[k] <= now
            /\ \/ tokens[k] = Burst
               \/ tokens[k] >= (last[k] - lastGrant[k]) * Rate
            /\ IF last[k] < mark
               THEN granted[k] = 0
               ELSE granted[k] * Unit + tokens[k] <= Burst + (last[k] - mark) * Rate

=============================================================================

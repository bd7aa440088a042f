------------------------- MODULE RedisLimiterProofs -------------------------
(***************************************************************************)
(* One shared limit, justified denials and no leaked keys, for any number  *)
(* of requests, any limit and window, and any number of retries, late      *)
(* commands and dead replicas.                                             *)
(***************************************************************************)
EXTENDS RedisLimiter, FiniteSetTheorems, TLAPS

(* The window of a time begins at or before it and ends after it.          *)
LEMMA WindowIdxFacts ==
    ASSUME NEW t \in Nat
    PROVE  /\ WindowIdx(t) \in Nat
           /\ WindowIdx(t) * Window <= t
           /\ t < (WindowIdx(t) + 1) * Window
  <1>1. Window \in Nat /\ Window > 0
    BY LimiterAssumption
  <1>2. /\ t \div Window \in Int
        /\ Window * (t \div Window) <= t
        /\ t < Window * (t \div Window) + Window
    BY <1>1
  <1> DEFINE q == t \div Window
  <1> HIDE DEF q
  <1>3. q \in Int /\ Window * q <= t /\ t < Window * q + Window
    BY <1>2 DEF q
  <1>4. q * Window = Window * q /\ (q + 1) * Window = Window * q + Window
    BY <1>1, <1>3
  <1>5. q >= 0
    <2> SUFFICES ASSUME q <= -1 PROVE FALSE
      BY <1>3
    <2>1. Window * q <= Window * (-1)
      BY <1>1, <1>3
    <2> QED BY <1>1, <1>3, <2>1
  <1> QED BY <1>1, <1>3, <1>4, <1>5 DEF q, WindowIdx

(* A window that begins at or before a time is at most the time's window.  *)
LEMMA WindowIdxIsLatest ==
    ASSUME NEW t \in Nat, NEW w \in Nat, w * Window <= t
    PROVE  w <= WindowIdx(t)
  <1> DEFINE q == WindowIdx(t)
  <1>1. q \in Nat /\ t < (q + 1) * Window
    BY WindowIdxFacts
  <1>2. Window \in Nat /\ Window > 0
    BY LimiterAssumption
  <1> HIDE DEF q
  <1> SUFFICES ASSUME w >= q + 1 PROVE FALSE
    BY <1>1 DEF q
  <1>3. w * Window >= (q + 1) * Window
    BY <1>1, <1>2
  <1>4. w * Window \in Nat /\ (q + 1) * Window \in Nat
    BY <1>1, <1>2
  <1> QED BY <1>1, <1>3, <1>4

LEMMA WindowsAreNat ==
    /\ Windows \subseteq Nat
    /\ \A t \in 0..MaxTime : WindowIdx(t) \in Windows
    /\ 0 \in Windows
  <1>1. MaxTime \in Nat
    BY LimiterAssumption
  <1>2. WindowIdx(MaxTime) \in Nat
    BY <1>1, WindowIdxFacts
  <1>3. ASSUME NEW t \in 0..MaxTime PROVE WindowIdx(t) \in Windows
    <2>1. t \in Nat /\ WindowIdx(t) \in Nat /\ WindowIdx(t) * Window <= t
      BY <1>1, WindowIdxFacts
    <2>2. WindowIdx(t) * Window \in Nat
      BY <2>1, LimiterAssumption
    <2>3. WindowIdx(t) * Window <= MaxTime
      BY <1>1, <2>1, <2>2
    <2>4. WindowIdx(t) <= WindowIdx(MaxTime)
      BY <1>1, <2>1, <2>3, WindowIdxIsLatest
    <2> QED BY <1>2, <2>1, <2>4 DEF Windows
  <1> QED BY <1>2, <1>3 DEF Windows

(* The requests of a window are finitely many.                             *)
LEMMA CountedIsFinite ==
    ASSUME NEW w
    PROVE  /\ IsFiniteSet(Counted(w)) /\ Cardinality(Counted(w)) \in Nat
           /\ IsFiniteSet(Inside(w)) /\ Cardinality(Inside(w)) \in Nat
  <1>1. Counted(w) \subseteq Request /\ Inside(w) \subseteq Request /\ IsFiniteSet(Request)
    BY LimiterAssumption DEF Counted, Inside, Allowed
  <1> QED BY <1>1, FS_Subset, FS_CardinalityType

LEMMA CountedIsFiniteNext ==
    ASSUME NEW w
    PROVE  /\ IsFiniteSet(Counted(w)') /\ Cardinality(Counted(w)') \in Nat
           /\ IsFiniteSet(Inside(w)') /\ Cardinality(Inside(w)') \in Nat
  <1>1. Counted(w)' \subseteq Request /\ Inside(w)' \subseteq Request /\ IsFiniteSet(Request)
    BY LimiterAssumption DEF Counted, Inside, Allowed
  <1> QED BY <1>1, FS_Subset, FS_CardinalityType

LEMMA AnswerType == \A n : Answer(n) \in {"allowed", "denied"}
  BY DEF Answer

LEMMA AnswerFirst == Answer(1) = "allowed"
  BY LimiterAssumption DEF Answer

LEMMA LimiterInit == Init => RInv
  <1> SUFFICES ASSUME Init PROVE RInv
    OBVIOUS
  <1>1. /\ MaxTime \in Nat /\ Window \in Nat /\ Window > 0
        /\ MaxFaults \in Nat /\ MaxRetries \in Nat
    BY LimiterAssumption
  <1>2. TypeOK
    BY <1>1, WindowsAreNat DEF Init, TypeOK
  <1>3. \A r \in Request : RequestInv(r)
    BY <1>1 DEF Init, RequestInv
  <1>4. ASSUME NEW w \in Windows PROVE KeyInv(w)
    <2>1. Counted(w) = {} /\ Inside(w) = {}
      BY DEF Init, Counted, Inside, Allowed
    <2>2. Cardinality(Counted(w)) = 0 /\ Cardinality(Inside(w)) = 0
      BY <2>1, FS_EmptySet
    <2> QED BY <2>2 DEF Init, KeyInv
  <1> QED BY <1>2, <1>3, <1>4 DEF RInv

(* What every step but an answered INCR does to the requests of a window.  *)
Settled(w) == Counted(w) \subseteq Counted(w)' /\ Inside(w)' \subseteq Inside(w)

(* What it does to their key: it adds to the counter and the late commands *)
(* no more than to the faults, neither to the late commands alone, and     *)
(* resets no counter before its window is over.                            *)
Accounted(w) ==
    /\ counter'[w] + lateIncr'[w] + faults[w] <= counter[w] + lateIncr[w] + faults'[w]
    /\ lateIncr'[w] + faults[w] <= lateIncr[w] + faults'[w]
    /\ now' < (w + 1) * Window => counter[w] <= counter'[w]

(* Commands and deadlines belong to windows that have begun.               *)
Begun(w) ==
    /\ lateIncr[w] + lateExpire[w] > 0 => w * Window <= now
    /\ deadline[w] # Never => deadline[w] >= (w + 1) * Window

LEMMA KeyStep ==
    ASSUME RInv, TypeOK', now <= now', NEW w \in Windows, Settled(w), Accounted(w), Begun(w)'
    PROVE  KeyInv(w)'
  <1>1. /\ Cardinality(Counted(w)) <= Cardinality(Counted(w)')
        /\ Cardinality(Inside(w)') <= Cardinality(Inside(w))
    BY CountedIsFinite, CountedIsFiniteNext, FS_Subset, Zenon DEF Settled
  <1>2. /\ Cardinality(Counted(w)) \in Nat /\ Cardinality(Counted(w)') \in Nat
        /\ Cardinality(Inside(w)) \in Nat /\ Cardinality(Inside(w)') \in Nat
    BY CountedIsFinite, CountedIsFiniteNext, Zenon
  <1>3. /\ counter[w] \in Nat /\ counter'[w] \in Nat /\ lateIncr[w] \in Nat /\ lateIncr'[w] \in Nat
        /\ faults[w] \in Nat /\ faults'[w] \in Nat /\ now \in Nat /\ now' \in Nat
        /\ (w + 1) * Window \in Nat
    BY LimiterAssumption, WindowsAreNat DEF RInv, TypeOK
  <1>4. KeyInv(w)
    BY Zenon DEF RInv
  <1>5. counter'[w] + lateIncr'[w] <= Cardinality(Counted(w)') + faults'[w]
    BY <1>1, <1>2, <1>3, <1>4 DEF KeyInv, Accounted
  <1>6. now' < (w + 1) * Window => Cardinality(Inside(w)') <= counter'[w]
    BY <1>1, <1>2, <1>3, <1>4 DEF KeyInv, Accounted
  <1>7. lateIncr'[w] <= faults'[w]
    BY <1>3, <1>4 DEF KeyInv, Accounted
  <1> QED BY <1>5, <1>6, <1>7, Zenon DEF KeyInv, Begun

(* Where a request goes next is a place of the model.                      *)
LEMMA GotoType ==
    ASSUME TypeOK, NEW r \in Request, NEW next, Goto(r, next),
           next \in {"incr", "expire"} \cup Decided
    PROVE  /\ pc' \in [Request -> {"new", "incr", "expire"} \cup Decided]
           /\ tries' \in [Request -> 0..MaxRetries]
           /\ pc'[r] = next
           /\ \A q \in Request \ {r} : pc'[q] = pc[q]
  BY LimiterAssumption DEF TypeOK, Goto

(* EXPIRE, executed at any time after the window began, lets the key live  *)
(* to the end of the window.                                               *)
LEMMA ExpireFacts ==
    ASSUME RInv, NEW v \in Windows, v * Window <= now, ExpireKey(v)
    PROVE  /\ deadline' \in [Windows -> 0..(MaxTime + Window) \cup {Never}]
           /\ \A w \in Windows : deadline'[w] # Never => deadline'[w] >= (w + 1) * Window
  <1>1. /\ MaxTime \in Nat /\ Window \in Nat /\ now \in 0..MaxTime /\ v \in Nat
    BY LimiterAssumption, WindowsAreNat DEF RInv, TypeOK
  <1>2. now + Window >= (v + 1) * Window /\ now + Window \in 0..(MaxTime + Window)
    <2>1. (v + 1) * Window = v * Window + Window /\ v * Window \in Nat
      BY <1>1
    <2> QED BY <1>1, <2>1
  <1>3. /\ deadline \in [Windows -> 0..(MaxTime + Window) \cup {Never}]
        /\ \A w \in Windows : deadline[w] # Never => deadline[w] >= (w + 1) * Window
    BY Zenon DEF RInv, TypeOK, KeyInv
  <1>4. deadline' = deadline \/ deadline' = [deadline EXCEPT ![v] = now + Window]
    BY Zenon DEF ExpireKey
  <1> QED BY <1>2, <1>3, <1>4

(* An attempt without an answer, whatever became of the command.           *)
LEMMA UnansweredFacts ==
    ASSUME RInv, NEW r \in Request, IncrUnanswered(r) \/ ExpireUnanswered(r)
    PROVE  /\ UNCHANGED <<now, idx>>
           /\ at' \in [Request -> 0..MaxTime \cup {Never}]
           /\ \A q \in Request : at'[q] = at[q] \/ (q = r /\ pc[r] = "incr" /\ at'[q] # Never)
           /\ counter' \in [Windows -> Nat]
           /\ deadline' \in [Windows -> 0..(MaxTime + Window) \cup {Never}]
           /\ lateIncr' \in [Windows -> Nat] /\ lateExpire' \in [Windows -> Nat]
           /\ faults' \in [Windows -> 0..MaxFaults]
           /\ faults'[idx[r]] > 0 /\ faults'[idx[r]] = faults[idx[r]] + 1
           /\ \A w \in Windows : Accounted(w) /\ Begun(w)'
           /\ \A w \in Windows : w # idx[r] => counter'[w] = counter[w] /\ deadline'[w] = deadline[w]
                                                /\ faults'[w] = faults[w]
           /\ pc[r] \in {"incr", "expire"}
  <1> DEFINE v == idx[r]
  <1>0. /\ TypeOK /\ v \in Windows /\ v * Window <= now /\ now # Never /\ now \in 0..MaxTime
        /\ \A w \in Windows : Begun(w)
    BY LimiterAssumption DEF RInv, TypeOK, RequestInv, KeyInv, Begun
  <1>1. UNCHANGED <<now, idx>> /\ Fault(r) /\ pc[r] \in {"incr", "expire"}
    BY Zenon DEF IncrUnanswered, ExpireUnanswered, Fault
  <1>2. /\ faults' \in [Windows -> 0..MaxFaults] /\ faults'[v] = faults[v] + 1 /\ faults[v] \in Nat
        /\ \A w \in Windows \ {v} : faults'[w] = faults[w]
    BY <1>0, <1>1, LimiterAssumption DEF Fault, TypeOK
  <1>3. CASE IncrUnanswered(r)
    <2>1. /\ UNCHANGED <<deadline, lateExpire>> /\ pc[r] = "incr"
          /\ \/ Counts(r) /\ UNCHANGED lateIncr
             \/ lateIncr' = [lateIncr EXCEPT ![v] = @ + 1] /\ UNCHANGED <<counter, at>>
             \/ UNCHANGED <<counter, at, lateIncr>>
      BY <1>3, Zenon DEF IncrUnanswered
    <2>2. /\ at' \in [Request -> 0..MaxTime \cup {Never}]
          /\ \A q \in Request : at'[q] = at[q] \/ (q = r /\ at'[q] # Never)
      BY <1>0, <2>1 DEF Counts, TypeOK
    <2>3. /\ counter' \in [Windows -> Nat] /\ lateIncr' \in [Windows -> Nat]
          /\ counter[v] <= counter'[v]
          /\ counter'[v] + lateIncr'[v] <= counter[v] + lateIncr[v] + 1
          /\ lateIncr'[v] <= lateIncr[v] + 1
          /\ \A w \in Windows \ {v} : counter'[w] = counter[w] /\ lateIncr'[w] = lateIncr[w]
      BY <1>0, <2>1 DEF Counts, IncrKey, TypeOK
    <2>4. counter \in [Windows -> Nat] /\ lateIncr \in [Windows -> Nat] /\ faults \in [Windows -> 0..MaxFaults]
      BY <1>0, Zenon DEF TypeOK
    <2>5. \A w \in Windows : Accounted(w)
      BY <1>2, <2>3, <2>4, LimiterAssumption DEF Accounted
    <2>6. \A w \in Windows : Begun(w)'
      <3> SUFFICES ASSUME NEW w \in Windows PROVE Begun(w)'
        BY Zenon
      <3>1. CASE w = v
        BY <1>0, <1>1, <2>1, <3>1 DEF Begun
      <3>2. CASE w # v
        BY <1>0, <1>1, <2>1, <2>3, <3>2 DEF Begun
      <3> QED BY <3>1, <3>2, Zenon
    <2>7. /\ deadline' \in [Windows -> 0..(MaxTime + Window) \cup {Never}]
          /\ lateExpire' \in [Windows -> Nat]
      BY <1>0, <2>1, Zenon DEF TypeOK
    <2>8. faults'[v] > 0
      BY <1>2
    <2> QED BY <1>1, <1>2, <2>1, <2>2, <2>3, <2>5, <2>6, <2>7, <2>8, Zenon
  <1>4. CASE ExpireUnanswered(r)
    <2>1. /\ UNCHANGED <<at, counter, lateIncr>>
          /\ \/ ExpireKey(v) /\ UNCHANGED lateExpire
             \/ lateExpire' = [lateExpire EXCEPT ![v] = @ + 1] /\ UNCHANGED deadline
             \/ UNCHANGED <<deadline, lateExpire>>
      BY <1>4, Zenon DEF ExpireUnanswered
    <2>2. /\ deadline' \in [Windows -> 0..(MaxTime + Window) \cup {Never}]
          /\ \A w \in Windows : deadline'[w] # Never => deadline'[w] >= (w + 1) * Window
      <3>1. CASE ExpireKey(v)
        BY <1>0, <3>1, ExpireFacts, Zenon
      <3>2. CASE UNCHANGED deadline
        BY <1>0, <3>2, Zenon DEF TypeOK, Begun
      <3> QED BY <2>1, <3>1, <3>2, Zenon
    <2>3. /\ lateExpire' \in [Windows -> Nat]
          /\ \A w \in Windows \ {v} : lateExpire'[w] = lateExpire[w] /\ deadline'[w] = deadline[w]
      BY <1>0, <2>1 DEF TypeOK, ExpireKey
    <2>4. \A w \in Windows : Accounted(w)
      <3>1. counter \in [Windows -> Nat] /\ lateIncr \in [Windows -> Nat] /\ faults \in [Windows -> 0..MaxFaults]
        BY <1>0, Zenon DEF TypeOK
      <3> QED BY <1>2, <2>1, <3>1, LimiterAssumption DEF Accounted
    <2>5. \A w \in Windows : Begun(w)'
      <3> SUFFICES ASSUME NEW w \in Windows PROVE Begun(w)'
        BY Zenon
      <3>1. CASE w = v
        BY <1>0, <1>1, <2>2, <3>1 DEF Begun
      <3>2. CASE w # v
        BY <1>0, <1>1, <2>1, <2>2, <2>3, <3>2 DEF Begun
      <3> QED BY <3>1, <3>2, Zenon
    <2>6. at' \in [Request -> 0..MaxTime \cup {Never}] /\ counter' \in [Windows -> Nat]
          /\ lateIncr' \in [Windows -> Nat]
      BY <1>0, <2>1, Zenon DEF TypeOK
    <2>7. faults'[v] > 0
      BY <1>2
    <2> QED BY <1>1, <1>2, <2>1, <2>2, <2>3, <2>4, <2>5, <2>6, <2>7, Zenon
  <1> QED BY <1>3, <1>4, Zenon

(* After it the request tries again, gives up or is gone.                  *)
LEMMA UnansweredStep ==
    ASSUME RInv, NEW r \in Request, IncrUnanswered(r) \/ ExpireUnanswered(r),
           pc' \in [Request -> {"new", "incr", "expire"} \cup Decided],
           tries' \in [Request -> 0..MaxRetries],
           \A q \in Request \ {r} : pc'[q] = pc[q],
           \/ pc'[r] = pc[r] \/ pc'[r] \in {"failopen", "dead"}
           \/ pc[r] = "expire" /\ pc'[r] = "allowed"
    PROVE  RInv' /\ \A w \in Windows : Settled(w)
  <1>1. /\ TypeOK /\ UNCHANGED <<now, idx>> /\ pc[r] \in {"incr", "expire"}
        /\ \A q \in Request : at'[q] = at[q] \/ (q = r /\ pc[r] = "incr" /\ at'[q] # Never)
        /\ \A w \in Windows : Accounted(w) /\ Begun(w)'
    BY UnansweredFacts, Zenon DEF RInv
  <1>2. TypeOK'
    BY <1>1, UnansweredFacts, Zenon DEF TypeOK
  <1>3. ASSUME NEW q \in Request PROVE RequestInv(q)'
    <2>1. RequestInv(q)
      BY Zenon DEF RInv
    <2>2. CASE q # r
      BY <1>1, <2>1, <2>2, Zenon DEF RequestInv
    <2>3. CASE q = r
      BY <1>1, <2>1, <2>3 DEF RequestInv
    <2> QED BY <2>2, <2>3, Zenon
  <1>4. ASSUME NEW w \in Windows PROVE Settled(w)
    <2>1. ASSUME NEW q \in Counted(w) PROVE q \in Counted(w)'
      <3>1. CASE q # r
        BY <1>1, <2>1, <3>1, Zenon DEF Counted
      <3>2. CASE q = r
        BY <1>1, <2>1, <3>2 DEF Counted
      <3> QED BY <3>1, <3>2, Zenon
    <2>2. ASSUME NEW q \in Inside(w)' PROVE q \in Inside(w)
      <3>1. CASE q # r
        BY <1>1, <2>2, <3>1, Zenon DEF Counted, Inside, Allowed
      <3>2. CASE q = r
        BY <1>1, <2>2, <3>2 DEF Counted, Inside, Allowed
      <3> QED BY <3>1, <3>2, Zenon
    <2> QED BY <2>1, <2>2, Zenon DEF Settled
  <1>5. now <= now'
    BY <1>1 DEF TypeOK
  <1>6. \A w \in Windows : KeyInv(w)'
    BY <1>1, <1>2, <1>4, <1>5, KeyStep, Zenon
  <1> QED BY <1>2, <1>3, <1>4, <1>6, Zenon DEF RInv

(* An answered INCR counts its request, and lets it in when it is one of   *)
(* the first Limit.                                                        *)
LEMMA IncrStep ==
    ASSUME RInv, NEW r \in Request, Incr(r), NEW v \in Windows, v = idx[r]
    PROVE  /\ RInv'
           /\ \A w \in Windows : Counted(w) \subseteq Counted(w)'
           /\ \A w \in Windows :
                \/ Inside(w)' \subseteq Inside(w)
                \/ Cardinality(Inside(w)') <= counter'[w] /\ counter'[w] <= Limit
           /\ pc'[r] = "denied" => counter'[v] > Limit
  <1> DEFINE next == IF counter'[v] = 1 THEN "expire" ELSE Answer(counter'[v])
  <1>0. /\ TypeOK /\ v \in Nat /\ now \in Nat /\ now # Never /\ now \in 0..MaxTime
        /\ Limit \in Nat /\ Limit >= 1 /\ Window \in Nat /\ pc[r] = "incr"
    <2>1. now \in 0..MaxTime /\ TypeOK /\ pc[r] = "incr" /\ v \in Nat
      BY WindowsAreNat, Zenon DEF RInv, TypeOK, Incr
    <2> QED BY <2>1, LimiterAssumption
  <1>1. /\ counter' = [counter EXCEPT ![v] = @ + 1] /\ at' = [at EXCEPT ![r] = now]
        /\ UNCHANGED <<now, idx, deadline, lateIncr, lateExpire, faults>> /\ Goto(r, next)
    BY Zenon DEF Incr, Counts, IncrKey
  <1>2. next \in {"expire", "allowed", "denied"}
    BY AnswerType, Zenon
  <1>3. /\ pc' \in [Request -> {"new", "incr", "expire"} \cup Decided]
        /\ tries' \in [Request -> 0..MaxRetries]
        /\ pc'[r] = next
        /\ \A q \in Request \ {r} : pc'[q] = pc[q]
    <2>1. next \in {"incr", "expire"} \cup Decided
      BY <1>2 DEF Decided
    <2> HIDE DEF next
    <2> QED BY <1>0, <1>1, <2>1, GotoType, Zenon
  <1>4. /\ counter' \in [Windows -> Nat] /\ counter'[v] = counter[v] + 1
        /\ \A w \in Windows \ {v} : counter'[w] = counter[w]
        /\ at' \in [Request -> 0..MaxTime \cup {Never}] /\ at'[r] = now
        /\ \A q \in Request \ {r} : at'[q] = at[q]
    BY <1>0, <1>1 DEF TypeOK
  <1>5. TypeOK'
    BY <1>0, <1>1, <1>3, <1>4, Zenon DEF TypeOK
  <1>6. next = "denied" => counter'[v] > Limit
    BY <1>0, <1>4 DEF Answer
  <1>7. next \in {"expire", "allowed"} => counter'[v] <= Limit
    BY <1>0, <1>4 DEF Answer
  <1> HIDE DEF next
  <1>8. ASSUME NEW q \in Request PROVE RequestInv(q)'
    <2>1. RequestInv(q)
      BY Zenon DEF RInv
    <2>2. CASE q # r
      BY <1>1, <1>3, <1>4, <2>1, <2>2, Zenon DEF RequestInv
    <2>3. CASE q = r
      BY <1>0, <1>1, <1>2, <1>3, <1>4, <2>1, <2>3 DEF RequestInv
    <2> QED BY <2>2, <2>3, Zenon
  <1>9. r \notin Counted(v) /\ Counted(v)' = Counted(v) \cup {r}
    BY <1>0, <1>1, <1>2, <1>3, <1>4 DEF Counted
  <1>10. r \notin Inside(v) /\ Inside(v)' \subseteq Inside(v) \cup {r}
    BY <1>0, <1>1, <1>3, <1>4 DEF Counted, Inside, Allowed
  <1>11. ASSUME NEW w \in Windows, w # v
         PROVE  Counted(w)' = Counted(w) /\ Inside(w)' = Inside(w)
    BY <1>1, <1>3, <1>4, <1>11 DEF Counted, Inside, Allowed
  <1>12. r \in Inside(v)' => WindowIdx(now) = v /\ next \in {"expire", "allowed"}
    BY <1>3, <1>4 DEF Counted, Inside, Allowed
  <1>13. Cardinality(Counted(v)') = Cardinality(Counted(v)) + 1
    BY <1>9, CountedIsFinite, FS_AddElement, Zenon
  <1>14. Cardinality(Inside(v)') <= Cardinality(Inside(v)) + 1
    <2>1. IsFiniteSet(Inside(v) \cup {r})
      BY CountedIsFinite, FS_AddElement, Zenon
    <2>2. Cardinality(Inside(v) \cup {r}) = Cardinality(Inside(v)) + 1
      BY <1>10, CountedIsFinite, FS_AddElement, Zenon
    <2>3. Cardinality(Inside(v)') <= Cardinality(Inside(v) \cup {r})
      BY <1>10, <2>1, FS_Subset, Zenon
    <2> QED BY <2>2, <2>3, Zenon
  <1>15. /\ Cardinality(Counted(v)) \in Nat /\ Cardinality(Counted(v)') \in Nat
         /\ Cardinality(Inside(v)) \in Nat /\ Cardinality(Inside(v)') \in Nat
         /\ counter[v] \in Nat /\ lateIncr[v] \in Nat /\ faults[v] \in Nat
    <2>1. counter[v] \in Nat /\ lateIncr[v] \in Nat /\ faults[v] \in Nat
      BY <1>0, LimiterAssumption DEF TypeOK
    <2> QED BY <2>1, CountedIsFinite, CountedIsFiniteNext, Zenon
  <1>16. KeyInv(v)
    BY <1>0, Zenon DEF RInv
  <1>17. now < (v + 1) * Window => Cardinality(Inside(v)') <= counter'[v]
    BY <1>4, <1>14, <1>15, <1>16 DEF KeyInv
  <1>18. counter'[v] + lateIncr[v] <= Cardinality(Counted(v)') + faults[v]
    BY <1>4, <1>13, <1>15, <1>16 DEF KeyInv
  <1>19. KeyInv(v)'
    BY <1>1, <1>16, <1>17, <1>18, Zenon DEF KeyInv
  <1>20. ASSUME NEW w \in Windows, w # v PROVE KeyInv(w)'
    <2>1. KeyInv(w) /\ counter'[w] = counter[w]
      BY <1>4, <1>20, Zenon DEF RInv
    <2> QED BY <1>1, <1>11, <1>20, <2>1, Zenon DEF KeyInv
  <1>21. RInv'
    BY <1>5, <1>8, <1>19, <1>20, Zenon DEF RInv
  <1>22. ASSUME NEW w \in Windows PROVE Counted(w) \subseteq Counted(w)'
    BY <1>9, <1>11, Zenon
  <1>23. ASSUME NEW w \in Windows
         PROVE  \/ Inside(w)' \subseteq Inside(w)
                \/ Cardinality(Inside(w)') <= counter'[w] /\ counter'[w] <= Limit
    <2>1. CASE w # v
      BY <1>11, <2>1, Zenon
    <2>2. CASE w = v /\ r \notin Inside(v)'
      BY <1>10, <2>2, Zenon
    <2>3. CASE w = v /\ r \in Inside(v)'
      <3>1. now < (v + 1) * Window
        BY <1>0, <1>12, <2>3, WindowIdxFacts, Zenon
      <3> QED BY <1>7, <1>12, <1>17, <2>3, <3>1, Zenon
    <2> QED BY <2>1, <2>2, <2>3, Zenon
  <1> QED BY <1>3, <1>6, <1>21, <1>22, <1>23, Zenon

(* The requests are where they were.                                       *)
LEMMA Unmoved ==
    ASSUME UNCHANGED <<pc, idx, at>>, NEW w
    PROVE  Settled(w)
  BY DEF Settled, Counted, Inside, Allowed

(* A request that reads the clock has not been counted.                    *)
LEMMA ReadClockStep ==
    ASSUME RInv, NEW r \in Request, ReadClock(r)
    PROVE  RInv' /\ \A w \in Windows : Settled(w)
  <1>1. /\ TypeOK /\ WindowIdx(now) \in Windows /\ WindowIdx(now) * Window <= now /\ now \in Nat
    <2>1. now \in 0..MaxTime /\ TypeOK
      BY Zenon DEF RInv, TypeOK
    <2>2. now \in Nat
      BY <2>1, LimiterAssumption
    <2> QED BY <2>1, <2>2, WindowsAreNat, WindowIdxFacts, Zenon
  <1>2. /\ pc' \in [Request -> {"new", "incr", "expire"} \cup Decided]
        /\ tries' \in [Request -> 0..MaxRetries]
        /\ pc'[r] = "incr"
        /\ \A q \in Request \ {r} : pc'[q] = pc[q]
    BY <1>1, GotoType, Zenon DEF ReadClock
  <1>3. /\ UNCHANGED <<now, at, counter, deadline, lateIncr, lateExpire, faults>>
        /\ pc[r] = "new" /\ at[r] = Never
    BY Zenon DEF ReadClock, RInv, RequestInv
  <1>4. /\ idx' \in [Request -> Windows] /\ idx'[r] = WindowIdx(now)
        /\ \A q \in Request \ {r} : idx'[q] = idx[q]
    BY <1>1, Zenon DEF ReadClock, TypeOK
  <1>5. TypeOK'
    BY <1>1, <1>2, <1>3, <1>4, Zenon DEF TypeOK
  <1>6. ASSUME NEW q \in Request PROVE RequestInv(q)'
    <2>1. RequestInv(q)
      BY Zenon DEF RInv
    <2>2. CASE q # r
      BY <1>2, <1>3, <1>4, <2>1, <2>2, Zenon DEF RequestInv
    <2>3. CASE q = r
      BY <1>1, <1>2, <1>3, <1>4, <2>3 DEF RequestInv
    <2> QED BY <2>2, <2>3, Zenon
  <1>7. ASSUME NEW w \in Windows PROVE Settled(w)
    BY <1>2, <1>3, <1>4 DEF Settled, Counted, Inside, Allowed
  <1>8. ASSUME NEW w \in Windows PROVE KeyInv(w)'
    <2>1. Accounted(w)
      BY <1>1, <1>3 DEF Accounted, TypeOK
    <2>2. Begun(w)'
      BY <1>3, Zenon DEF RInv, KeyInv, Begun
    <2>3. now <= now'
      BY <1>1, <1>3
    <2> QED BY <1>5, <1>7, <2>1, <2>2, <2>3, KeyStep, Zenon
  <1> QED BY <1>5, <1>6, <1>7, <1>8, Zenon DEF RInv

LEMMA ExpireStep ==
    ASSUME RInv, NEW r \in Request, Expire(r)
    PROVE  RInv' /\ \A w \in Windows : Settled(w)
  <1>1. /\ TypeOK /\ idx[r] \in Windows /\ idx[r] * Window <= now /\ RequestInv(r)
        /\ pc[r] = "expire" /\ UNCHANGED <<now, idx, at, counter, lateIncr, lateExpire, faults>>
    BY Zenon DEF RInv, TypeOK, RequestInv, Expire
  <1>2. /\ deadline' \in [Windows -> 0..(MaxTime + Window) \cup {Never}]
        /\ \A w \in Windows : deadline'[w] # Never => deadline'[w] >= (w + 1) * Window
    BY <1>1, ExpireFacts, Zenon DEF Expire
  <1>3. /\ pc' \in [Request -> {"new", "incr", "expire"} \cup Decided]
        /\ tries' \in [Request -> 0..MaxRetries]
        /\ pc'[r] = "allowed"
        /\ \A q \in Request \ {r} : pc'[q] = pc[q]
    <2>1. Goto(r, "allowed") /\ "allowed" \in {"incr", "expire"} \cup Decided
      BY AnswerFirst, Zenon DEF Expire, Decided
    <2> QED BY <1>1, <2>1, GotoType, Zenon
  <1>4. TypeOK'
    BY <1>1, <1>2, <1>3, Zenon DEF TypeOK
  <1>5. ASSUME NEW q \in Request PROVE RequestInv(q)'
    <2>1. RequestInv(q)
      BY Zenon DEF RInv
    <2> QED BY <1>1, <1>3, <2>1 DEF RequestInv
  <1>6. ASSUME NEW w \in Windows PROVE Settled(w)
    BY <1>1, <1>3 DEF Settled, Counted, Inside, Allowed
  <1>7. ASSUME NEW w \in Windows PROVE KeyInv(w)'
    <2>1. Accounted(w)
      BY <1>1 DEF Accounted, TypeOK
    <2>2. Begun(w)'
      BY <1>1, <1>2, Zenon DEF RInv, KeyInv, Begun
    <2>3. now <= now'
      BY <1>1 DEF TypeOK
    <2> QED BY <1>4, <1>6, <2>1, <2>2, <2>3, KeyStep, Zenon
  <1> QED BY <1>4, <1>5, <1>6, <1>7, Zenon DEF RInv

(* Redis alone: a late command, or the expiry of keys as time passes.      *)
LEMMA LateStep ==
    ASSUME RInv, NEW v \in Windows, LateIncr(v) \/ LateExpire(v)
    PROVE  RInv' /\ \A w \in Windows : Settled(w)
  <1>1. /\ TypeOK /\ UNCHANGED <<now, pc, idx, at, tries, faults>>
        /\ \A w \in Windows : Begun(w)
    BY Zenon DEF RInv, LateIncr, LateExpire, KeyInv, Begun
  <1>2. \A q \in Request : RequestInv(q)'
    BY <1>1, Zenon DEF RInv, RequestInv
  <1>3. \A w \in Windows : Settled(w)
    BY <1>1, Unmoved, Zenon
  <1>4. now <= now'
    BY <1>1 DEF TypeOK
  <1>5. CASE LateIncr(v)
    <2>1. /\ UNCHANGED <<deadline, lateExpire>> /\ lateIncr[v] > 0
          /\ lateIncr' = [lateIncr EXCEPT ![v] = @ - 1] /\ counter' = [counter EXCEPT ![v] = @ + 1]
      BY <1>5, Zenon DEF LateIncr, IncrKey
    <2>2. /\ lateIncr' \in [Windows -> Nat] /\ counter' \in [Windows -> Nat]
          /\ lateIncr'[v] = lateIncr[v] - 1 /\ counter'[v] = counter[v] + 1
          /\ \A w \in Windows \ {v} : lateIncr'[w] = lateIncr[w] /\ counter'[w] = counter[w]
      BY <1>1, <2>1 DEF TypeOK
    <2>3. TypeOK'
      BY <1>1, <2>1, <2>2, Zenon DEF TypeOK
    <2>4. ASSUME NEW w \in Windows PROVE Accounted(w) /\ Begun(w)'
      <3>1. /\ lateIncr[w] \in Nat /\ counter[w] \in Nat /\ lateExpire[w] \in Nat
            /\ faults[w] \in 0..MaxFaults /\ MaxFaults \in Nat
        BY <1>1, LimiterAssumption, Zenon DEF TypeOK
      <3>2. CASE w = v
        BY <1>1, <2>1, <2>2, <3>1, <3>2 DEF Accounted, Begun
      <3>3. CASE w # v
        BY <1>1, <2>1, <2>2, <3>1, <3>3 DEF Accounted, Begun
      <3> QED BY <3>2, <3>3, Zenon
    <2>5. \A w \in Windows : KeyInv(w)'
      BY <1>3, <1>4, <2>3, <2>4, KeyStep, Zenon
    <2> QED BY <1>2, <1>3, <2>3, <2>5, Zenon DEF RInv
  <1>6. CASE LateExpire(v)
    <2>1. /\ UNCHANGED <<counter, lateIncr>> /\ lateExpire[v] > 0
          /\ lateExpire' = [lateExpire EXCEPT ![v] = @ - 1] /\ ExpireKey(v)
      BY <1>6, Zenon DEF LateExpire
    <2>2. /\ lateExpire' \in [Windows -> Nat] /\ lateExpire'[v] = lateExpire[v] - 1
          /\ \A w \in Windows \ {v} : lateExpire'[w] = lateExpire[w]
      BY <1>1, <2>1 DEF TypeOK
    <2>3. v * Window <= now
      <3>1. lateIncr[v] \in Nat /\ lateExpire[v] \in Nat
        BY <1>1, Zenon DEF TypeOK
      <3> QED BY <1>1, <2>1, <3>1 DEF Begun
    <2>4. /\ deadline' \in [Windows -> 0..(MaxTime + Window) \cup {Never}]
          /\ \A w \in Windows : deadline'[w] # Never => deadline'[w] >= (w + 1) * Window
      BY <2>1, <2>3, ExpireFacts, Zenon
    <2>5. TypeOK'
      BY <1>1, <2>1, <2>2, <2>4, Zenon DEF TypeOK
    <2>6. ASSUME NEW w \in Windows PROVE Accounted(w) /\ Begun(w)'
      <3>1. /\ lateIncr[w] \in Nat /\ counter[w] \in Nat /\ lateExpire[w] \in Nat
            /\ faults[w] \in 0..MaxFaults /\ MaxFaults \in Nat
        BY <1>1, LimiterAssumption, Zenon DEF TypeOK
      <3>2. Accounted(w)
        BY <1>1, <2>1, <3>1 DEF Accounted
      <3>3. lateIncr'[w] + lateExpire'[w] > 0 => w * Window <= now'
        <4>1. CASE w = v
          BY <1>1, <2>3, <4>1
        <4>2. CASE w # v
          BY <1>1, <2>1, <2>2, <4>2, Zenon DEF Begun
        <4> QED BY <4>1, <4>2, Zenon
      <3> QED BY <2>4, <3>2, <3>3, Zenon DEF Begun
    <2>7. \A w \in Windows : KeyInv(w)'
      BY <1>3, <1>4, <2>5, <2>6, KeyStep, Zenon
    <2> QED BY <1>2, <1>3, <2>5, <2>7, Zenon DEF RInv
  <1> QED BY <1>5, <1>6, Zenon

LEMMA TickStep ==
    ASSUME RInv, Tick
    PROVE  RInv' /\ \A w \in Windows : Settled(w)
  <1>1. /\ TypeOK /\ UNCHANGED <<pc, idx, at, tries, lateIncr, lateExpire, faults>>
        /\ now < MaxTime /\ now' = now + 1 /\ now \in 0..MaxTime
    BY Zenon DEF RInv, TypeOK, Tick
  <1>2. /\ now \in Nat /\ now' \in 0..MaxTime /\ now <= now' /\ Window \in Nat
        /\ \A n \in Nat : n <= now => n <= now'
    BY <1>1, LimiterAssumption
  <1>3. /\ counter' \in [Windows -> Nat]
        /\ deadline' \in [Windows -> 0..(MaxTime + Window) \cup {Never}]
        /\ \A w \in Windows :
             \/ counter'[w] = counter[w] /\ deadline'[w] = deadline[w]
             \/ /\ deadline[w] # Never /\ deadline[w] <= now'
                /\ counter'[w] = 0 /\ deadline'[w] = Never
    BY <1>1 DEF Tick, TypeOK
  <1>4. TypeOK'
    BY <1>1, <1>2, <1>3, Zenon DEF TypeOK
  <1>5. \A w \in Windows : w * Window \in Nat /\ (w + 1) * Window \in Nat
    BY <1>2, WindowsAreNat
  <1>6. ASSUME NEW q \in Request PROVE RequestInv(q)'
    <2>1. RequestInv(q) /\ idx[q] \in Windows
      BY <1>1, Zenon DEF RInv, TypeOK
    <2> QED BY <1>1, <1>2, <1>5, <2>1, Zenon DEF RequestInv
  <1>7. \A w \in Windows : Settled(w)
    BY <1>1, Unmoved, Zenon
  <1>8. ASSUME NEW w \in Windows PROVE Accounted(w) /\ Begun(w)'
    <2>1. /\ lateIncr[w] \in Nat /\ counter[w] \in Nat /\ faults[w] \in 0..MaxFaults
          /\ MaxFaults \in Nat /\ MaxTime \in Nat
          /\ deadline[w] \in 0..(MaxTime + Window) \cup {Never}
          /\ (w + 1) * Window \in Nat /\ w * Window \in Nat
      BY <1>1, <1>5, LimiterAssumption, Zenon DEF TypeOK
    <2>2. /\ deadline[w] # Never => deadline[w] >= (w + 1) * Window
          /\ lateIncr[w] + lateExpire[w] > 0 => w * Window <= now
      BY Zenon DEF RInv, KeyInv
    <2>3. CASE counter'[w] = counter[w] /\ deadline'[w] = deadline[w]
      <3>1. Accounted(w)
        BY <1>1, <2>1, <2>3 DEF Accounted
      <3>2. Begun(w)'
        BY <1>1, <1>2, <2>1, <2>2, <2>3, Zenon DEF Begun
      <3> QED BY <3>1, <3>2, Zenon
    <2>4. CASE /\ deadline[w] # Never /\ deadline[w] <= now'
               /\ counter'[w] = 0 /\ deadline'[w] = Never
      <3>1. ~(now' < (w + 1) * Window)
        BY <1>1, <1>2, <2>1, <2>2, <2>4
      <3>2. counter'[w] + lateIncr'[w] + faults[w] <= counter[w] + lateIncr[w] + faults'[w]
        BY <1>1, <2>1, <2>4
      <3>3. lateIncr'[w] + faults[w] <= lateIncr[w] + faults'[w]
        BY <1>1, <2>1
      <3>4. Begun(w)'
        BY <1>1, <1>2, <2>1, <2>2, <2>4, Zenon DEF Begun
      <3> QED BY <3>1, <3>2, <3>3, <3>4, Zenon DEF Accounted
    <2> QED BY <1>3, <2>3, <2>4, Zenon
  <1>9. \A w \in Windows : KeyInv(w)'
    BY <1>2, <1>4, <1>7, <1>8, KeyStep, Zenon
  <1> QED BY <1>4, <1>6, <1>7, <1>9, Zenon DEF RInv

(* A request whose command had no answer is sent again, let through or     *)
(* lost with its replica, and never denied.                                *)
LEMMA FaultStep ==
    ASSUME RInv, NEW r \in Request, Retry(r) \/ IncrFails(r) \/ ExpireFails(r) \/ Die(r)
    PROVE  /\ RInv' /\ \A w \in Windows : Settled(w)
           /\ IncrUnanswered(r) \/ ExpireUnanswered(r)
           /\ \A q \in Request \ {r} : pc'[q] = pc[q]
           /\ pc'[r] # "denied"
  <1>1. IncrUnanswered(r) \/ ExpireUnanswered(r)
    BY Zenon DEF Retry, IncrFails, ExpireFails, Die
  <1>2. TypeOK /\ pc[r] \in {"incr", "expire"}
    BY <1>1, Zenon DEF RInv, IncrUnanswered, ExpireUnanswered
  <1>3. CASE Retry(r)
    <2>1. UNCHANGED pc /\ tries' \in [Request -> 0..MaxRetries]
      BY <1>2, <1>3, LimiterAssumption DEF Retry, TypeOK
    <2>2. pc' \in [Request -> {"new", "incr", "expire"} \cup Decided]
      BY <1>2, <2>1, Zenon DEF TypeOK
    <2>3. pc'[r] # "denied"
      BY <1>2, <2>1
    <2> QED BY <1>1, <2>1, <2>2, <2>3, UnansweredStep, Zenon
  <1>4. ASSUME NEW next \in {"failopen", "dead", "allowed"}, Goto(r, next),
               next = "allowed" => pc[r] = "expire"
        PROVE  /\ RInv' /\ \A w \in Windows : Settled(w)
               /\ \A q \in Request \ {r} : pc'[q] = pc[q]
               /\ pc'[r] # "denied"
    <2>1. next \in {"incr", "expire"} \cup Decided /\ next # "denied"
      BY DEF Decided
    <2>2. /\ pc' \in [Request -> {"new", "incr", "expire"} \cup Decided]
          /\ tries' \in [Request -> 0..MaxRetries]
          /\ pc'[r] = next
          /\ \A q \in Request \ {r} : pc'[q] = pc[q]
      BY <1>2, <1>4, <2>1, GotoType, Zenon
    <2>3. \/ pc'[r] \in {"failopen", "dead"}
          \/ pc[r] = "expire" /\ pc'[r] = "allowed"
      BY <1>4, <2>2, Zenon
    <2> QED BY <1>1, <2>1, <2>2, <2>3, UnansweredStep, Zenon
  <1>5. CASE IncrFails(r) \/ Die(r)
    <2>1. Goto(r, "failopen") \/ Goto(r, "dead")
      BY <1>5, Zenon DEF IncrFails, Die
    <2>2. "failopen" # "allowed" /\ "dead" # "allowed"
      OBVIOUS
    <2> QED BY <1>1, <1>4, <2>1, <2>2, Zenon
  <1>6. CASE ExpireFails(r)
    <2>1. Goto(r, "allowed") /\ pc[r] = "expire"
      BY <1>6, AnswerFirst, Zenon DEF ExpireFails, ExpireUnanswered
    <2> QED BY <1>1, <1>4, <2>1, Zenon
  <1> QED BY <1>1, <1>3, <1>5, <1>6, Zenon

(* Every step of the limiter preserves its invariant.                      *)
LEMMA LimiterStep == RInv /\ [Next]_vars => RInv'
  <1> SUFFICES ASSUME RInv, [Next]_vars PROVE RInv'
    OBVIOUS
  <1>1. ASSUME NEW r \in Request, Incr(r) PROVE RInv'
    <2>1. idx[r] \in Windows
      BY Zenon DEF RInv, TypeOK
    <2> QED BY <1>1, <2>1, IncrStep, Zenon
  <1>2. CASE UNCHANGED vars
    BY <1>2, Zenon DEF vars, RInv, TypeOK, RequestInv, KeyInv, Counted, Inside, Allowed
  <1> QED BY <1>1, <1>2, ReadClockStep, ExpireStep, FaultStep, LateStep, TickStep, Zenon DEF Next

(* The counters stay above the requests let in until their window is over, *)
(* and above the requests counted by no more than the unanswered attempts. *)
THEOREM LimiterInvariant == Spec => []RInv
  BY LimiterInit, LimiterStep, PTL DEF Spec

(* All replicas together let in at most Limit requests by the answer of an *)
(* INCR executed in the window they computed (Allow), through any retries  *)
(* and late commands; the requests an error lets through are not counted.  *)
THEOREM LimitIsShared == Spec => []SharedLimit
  <1>0. Limit \in Nat
    BY LimiterAssumption
  <1>1. Init => SharedLimit
    <2> SUFFICES ASSUME Init, NEW w \in Windows PROVE Cardinality(Inside(w)) <= Limit
      BY Zenon DEF SharedLimit
    <2>1. Inside(w) = {}
      BY DEF Init, Inside, Allowed, Counted
    <2> QED BY <1>0, <2>1, FS_EmptySet
  <1>2. RInv /\ [Next]_vars /\ SharedLimit => SharedLimit'
    <2> SUFFICES ASSUME RInv, [Next]_vars, SharedLimit, NEW w \in Windows
                 PROVE  Cardinality(Inside(w)') <= Limit
      BY Zenon DEF SharedLimit
    <2>1. ASSUME Inside(w)' \subseteq Inside(w) PROVE Cardinality(Inside(w)') <= Limit
      <3>1. /\ Cardinality(Inside(w)') <= Cardinality(Inside(w)) /\ Cardinality(Inside(w)) <= Limit
        BY <2>1, CountedIsFinite, FS_Subset, Zenon DEF SharedLimit
      <3>2. Cardinality(Inside(w)) \in Nat /\ Cardinality(Inside(w)') \in Nat
        BY CountedIsFinite, CountedIsFiniteNext, Zenon
      <3> QED BY <1>0, <3>1, <3>2
    <2>2. ASSUME NEW r \in Request, Incr(r) PROVE Cardinality(Inside(w)') <= Limit
      <3>1. idx[r] \in Windows
        BY Zenon DEF RInv, TypeOK
      <3>2. \/ Inside(w)' \subseteq Inside(w)
            \/ Cardinality(Inside(w)') <= counter'[w] /\ counter'[w] <= Limit
        BY <2>2, <3>1, IncrStep, Zenon
      <3>3. CASE Cardinality(Inside(w)') <= counter'[w] /\ counter'[w] <= Limit
        <4>1. counter'[w] \in Nat /\ Cardinality(Inside(w)') \in Nat
          BY LimiterStep, CountedIsFiniteNext, Zenon DEF RInv, TypeOK
        <4> QED BY <1>0, <3>3, <4>1
      <3> QED BY <2>1, <3>2, <3>3, Zenon
    <2>3. CASE UNCHANGED vars
      BY <2>1, <2>3, Unmoved, Zenon DEF vars, Settled
    <2> QED BY <2>1, <2>2, <2>3, ReadClockStep, ExpireStep, FaultStep, LateStep, TickStep, Zenon
            DEF Next, Settled
  <1> QED BY <1>1, <1>2, LimiterInvariant, PTL DEF Spec

(* What was counted stays counted, faults included.                        *)
LEMMA CountedGrows ==
    ASSUME RInv, [Next]_vars, NEW w \in Windows
    PROVE  Cardinality(Counted(w)) + faults[w] <= Cardinality(Counted(w)') + faults'[w]
  <1>1. Counted(w) \subseteq Counted(w)'
    <2>1. ASSUME NEW r \in Request, Incr(r) PROVE Counted(w) \subseteq Counted(w)'
      <3>1. idx[r] \in Windows
        BY Zenon DEF RInv, TypeOK
      <3> QED BY <2>1, <3>1, IncrStep, Zenon
    <2>2. CASE UNCHANGED vars
      BY <2>2, Unmoved, Zenon DEF vars, Settled
    <2> QED BY <2>1, <2>2, ReadClockStep, ExpireStep, FaultStep, LateStep, TickStep, Zenon
            DEF Next, Settled
  <1>2. faults[w] \in Nat /\ faults'[w] \in Nat
    <2>1. faults[w] \in 0..MaxFaults /\ faults'[w] \in 0..MaxFaults
      BY LimiterStep, Zenon DEF RInv, TypeOK
    <2> QED BY <2>1, LimiterAssumption
  <1>3. faults[w] <= faults'[w]
    <2>1. CASE UNCHANGED faults
      BY <1>2, <2>1
    <2>2. ASSUME NEW r \in Request, Retry(r) \/ IncrFails(r) \/ ExpireFails(r) \/ Die(r)
          PROVE  faults[w] <= faults'[w]
      <3>1. IncrUnanswered(r) \/ ExpireUnanswered(r)
        BY <2>2, FaultStep, Zenon
      <3>2. faults'[w] = faults[w] \/ faults'[w] = faults[w] + 1
        BY <3>1, UnansweredFacts, Zenon
      <3> QED BY <1>2, <3>2
    <2> QED BY <2>1, <2>2, Zenon DEF Next, vars, ReadClock, Incr, Expire, LateIncr, LateExpire, Tick
  <1>4. /\ Cardinality(Counted(w)) <= Cardinality(Counted(w)')
        /\ Cardinality(Counted(w)) \in Nat /\ Cardinality(Counted(w)') \in Nat
    BY <1>1, CountedIsFinite, CountedIsFiniteNext, FS_Subset, Zenon
  <1> QED BY <1>2, <1>3, <1>4

(* A request is denied only when more than Limit requests of its window    *)
(* were counted, its own among them, each unanswered attempt of the window *)
(* standing for one (Allow's count <= limit and the retries of INCR).      *)
THEOREM DenialIsJustified == Spec => []DenialJustified
  <1>1. Init => DenialJustified
    BY DEF Init, DenialJustified
  <1>2. ASSUME RInv, RInv', [Next]_vars, DenialJustified PROVE DenialJustified'
    <2> SUFFICES ASSUME NEW q \in Request, pc'[q] = "denied",
                        NEW v \in Windows, v = idx'[q]
                 PROVE  Cardinality(Counted(v)') + faults'[v] > Limit
      <3>1. \A q \in Request : idx'[q] \in Windows
        BY <1>2, Zenon DEF RInv, TypeOK
      <3> QED BY <3>1, Zenon DEF DenialJustified, Counted
    <2>0. /\ Limit \in Nat /\ TypeOK
          /\ Cardinality(Counted(v)) \in Nat /\ Cardinality(Counted(v)') \in Nat
          /\ faults[v] \in Nat /\ faults'[v] \in Nat
      <3>1. faults[v] \in 0..MaxFaults /\ faults'[v] \in 0..MaxFaults /\ TypeOK
        BY <1>2, Zenon DEF RInv, TypeOK
      <3>2. Limit \in Nat /\ faults[v] \in Nat /\ faults'[v] \in Nat
        BY <3>1, LimiterAssumption
      <3> QED BY <3>1, <3>2, CountedIsFinite, CountedIsFiniteNext, Zenon
    <2>1. CASE pc[q] = "denied"
      <3>1. idx'[q] = idx[q]
        <4>1. ASSUME NEW r \in Request, ReadClock(r) PROVE idx'[q] = idx[q]
          BY <2>0, <2>1, <4>1 DEF ReadClock, TypeOK
        <4>2. CASE UNCHANGED idx
          BY <4>2, Zenon
        <4> QED BY <1>2, <4>1, <4>2, Zenon
                DEF Next, vars, Incr, Expire, Retry, IncrFails, ExpireFails, Die, IncrUnanswered,
                    ExpireUnanswered, Fault, LateIncr, LateExpire, Tick
      <3>2. Cardinality(Counted(v)) + faults[v] > Limit
        BY <1>2, <2>1, <3>1, Zenon DEF DenialJustified
      <3>3. Cardinality(Counted(v)) + faults[v] <= Cardinality(Counted(v)') + faults'[v]
        BY <1>2, CountedGrows, Zenon
      <3> QED BY <2>0, <3>2, <3>3
    <2>2. CASE pc[q] # "denied"
      <3>1. PICK r \in Request : Incr(r)
        <4>1. CASE UNCHANGED pc
          BY <2>2, <4>1, Zenon
        <4>2. ASSUME NEW r \in Request, ReadClock(r) \/ Expire(r) PROVE FALSE
          <5>1. Goto(r, "incr") \/ Goto(r, "allowed")
            BY <4>2, AnswerFirst, Zenon DEF ReadClock, Expire
          <5> QED BY <2>0, <2>2, <5>1 DEF Goto, TypeOK
        <4>3. ASSUME NEW r \in Request, Retry(r) \/ IncrFails(r) \/ ExpireFails(r) \/ Die(r)
              PROVE  FALSE
          BY <1>2, <2>2, <4>3, FaultStep, Zenon
        <4> QED BY <1>2, <4>1, <4>2, <4>3, Zenon DEF Next, vars, LateIncr, LateExpire, Tick
      <3>2. q = r /\ idx[r] = v
        BY <2>0, <2>2, <3>1 DEF Incr, Goto, TypeOK
      <3>3. counter'[v] > Limit
        BY <1>2, <3>1, <3>2, IncrStep, Zenon
      <3>4. counter'[v] \in Nat /\ lateIncr'[v] \in Nat
        BY <1>2, Zenon DEF RInv, TypeOK
      <3>5. counter'[v] + lateIncr'[v] <= Cardinality(Counted(v)') + faults'[v]
        BY <1>2, Zenon DEF RInv, KeyInv
      <3> QED BY <2>0, <3>3, <3>4, <3>5
    <2> QED BY <2>1, <2>2, Zenon
  <1> QED BY <1>1, <1>2, LimiterInvariant, PTL DEF Spec

(* A key without a time to live has a request about to set one, unless a   *)
(* command of that very window had no answer (Allow's INCR and EXPIRE).    *)
THEOREM KeysDoNotLeak == Spec => []NoKeyLeaks
  <1>1. Init => NoKeyLeaks
    BY DEF Init, NoKeyLeaks
  <1>2. ASSUME RInv, [Next]_vars, NoKeyLeaks PROVE NoKeyLeaks'
    <2> SUFFICES ASSUME NEW w \in Windows, counter'[w] > 0, deadline'[w] = Never, ~(faults'[w] > 0)
                 PROVE  \E q \in Request : pc'[q] = "expire" /\ idx'[q] = w
      BY Zenon DEF NoKeyLeaks
    <2>0. /\ TypeOK /\ counter[w] \in Nat /\ counter'[w] \in Nat /\ lateIncr[w] \in Nat
          /\ faults[w] \in 0..MaxFaults /\ faults'[w] \in 0..MaxFaults /\ MaxFaults \in Nat
      BY <1>2, LimiterStep, LimiterAssumption, Zenon DEF RInv, TypeOK
    <2>1. ASSUME counter[w] > 0, deadline[w] = Never, UNCHANGED faults
          PROVE  \E q \in Request : pc[q] = "expire" /\ idx[q] = w
      BY <1>2, <2>1, Zenon DEF NoKeyLeaks
    <2>2. ASSUME NEW r \in Request, ReadClock(r)
          PROVE  \E q \in Request : pc'[q] = "expire" /\ idx'[q] = w
      <3>1. PICK q \in Request : pc[q] = "expire" /\ idx[q] = w
        BY <2>1, <2>2, Zenon DEF ReadClock
      <3>2. pc'[q] = pc[q] /\ idx'[q] = idx[q]
        BY <2>0, <2>2, <3>1 DEF ReadClock, Goto, TypeOK
      <3> QED BY <3>1, <3>2, Zenon
    <2>3. ASSUME NEW r \in Request, Incr(r)
          PROVE  \E q \in Request : pc'[q] = "expire" /\ idx'[q] = w
      <3>1. CASE counter[w] > 0
        <4>1. PICK q \in Request : pc[q] = "expire" /\ idx[q] = w
          BY <2>1, <2>3, <3>1, Zenon DEF Incr
        <4>2. pc'[q] = pc[q] /\ idx'[q] = idx[q]
          BY <2>0, <2>3, <4>1 DEF Incr, Goto, TypeOK
        <4> QED BY <4>1, <4>2, Zenon
      <3>2. CASE ~(counter[w] > 0)
        <4>1. w = idx[r] /\ counter'[w] = 1
          BY <2>0, <2>3, <3>2 DEF Incr, Counts, IncrKey, TypeOK
        <4>2. pc'[r] = "expire" /\ idx'[r] = w
          BY <2>0, <2>3, <4>1 DEF Incr, Goto, TypeOK
        <4> QED BY <4>2, Zenon
      <3> QED BY <3>1, <3>2, Zenon
    <2>4. ASSUME NEW r \in Request, Expire(r)
          PROVE  \E q \in Request : pc'[q] = "expire" /\ idx'[q] = w
      <3>1. now + Window # Never /\ idx[r] \in Windows
        BY <2>0, LimiterAssumption DEF TypeOK
      <3>2. counter[w] > 0 /\ w # idx[r] /\ deadline[w] = Never
        BY <2>0, <2>4, <3>1 DEF Expire, ExpireKey, TypeOK
      <3>3. PICK q \in Request : pc[q] = "expire" /\ idx[q] = w
        BY <2>1, <2>4, <3>2, Zenon DEF Expire
      <3>4. pc'[q] = pc[q] /\ idx'[q] = idx[q]
        BY <2>0, <2>4, <3>2, <3>3 DEF Expire, Goto, TypeOK
      <3> QED BY <3>3, <3>4, Zenon
    <2>5. ASSUME NEW r \in Request, Retry(r) \/ IncrFails(r) \/ ExpireFails(r) \/ Die(r)
          PROVE  \E q \in Request : pc'[q] = "expire" /\ idx'[q] = w
      <3>1. IncrUnanswered(r) \/ ExpireUnanswered(r)
        BY <1>2, <2>5, FaultStep, Zenon
      <3>2. w # idx[r]
        BY <1>2, <3>1, UnansweredFacts, Zenon
      <3>3. /\ counter'[w] = counter[w] /\ deadline'[w] = deadline[w] /\ faults'[w] = faults[w]
            /\ UNCHANGED idx
        BY <1>2, <3>1, <3>2, UnansweredFacts, Zenon
      <3>4. PICK q \in Request : pc[q] = "expire" /\ idx[q] = w
        BY <1>2, <3>3, Zenon DEF NoKeyLeaks
      <3>5. pc'[q] = pc[q] /\ idx'[q] = idx[q]
        BY <1>2, <2>5, <3>2, <3>3, <3>4, FaultStep, Zenon
      <3> QED BY <3>4, <3>5, Zenon
    <2>6. ASSUME NEW v \in Windows, LateIncr(v) \/ LateExpire(v)
          PROVE  \E q \in Request : pc'[q] = "expire" /\ idx'[q] = w
      <3>1. UNCHANGED <<pc, idx, faults>>
        BY <2>6, Zenon DEF LateIncr, LateExpire
      <3>2. CASE LateIncr(v)
        <4>1. w # v
          <5>1. lateIncr[w] <= faults[w]
            BY <1>2, Zenon DEF RInv, KeyInv
          <5> QED BY <2>0, <3>1, <3>2, <5>1 DEF LateIncr
        <4>2. counter'[w] = counter[w] /\ deadline'[w] = deadline[w]
          BY <2>0, <3>2, <4>1 DEF LateIncr, IncrKey, TypeOK
        <4> QED BY <2>1, <3>1, <4>2, Zenon
      <3>3. CASE LateExpire(v)
        <4>1. now + Window # Never
          BY <2>0, LimiterAssumption DEF TypeOK
        <4>2. counter'[w] = counter[w] /\ deadline[w] = Never
          BY <2>0, <3>3, <4>1 DEF LateExpire, ExpireKey, TypeOK
        <4> QED BY <2>1, <3>1, <4>2, Zenon
      <3> QED BY <2>6, <3>2, <3>3, Zenon
    <2>7. CASE Tick
      <3>1. UNCHANGED <<pc, idx, faults>>
        BY <2>7, Zenon DEF Tick
      <3>2. counter[w] > 0 /\ deadline[w] = Never
        BY <2>0, <2>7 DEF Tick, TypeOK
      <3> QED BY <2>1, <2>7, <3>1, <3>2, Zenon
    <2>8. CASE UNCHANGED vars
      BY <2>1, <2>8, Zenon DEF vars
    <2> QED BY <1>2, <2>2, <2>3, <2>4, <2>5, <2>6, <2>7, <2>8, Zenon DEF Next
  <1> QED BY <1>1, <1>2, LimiterInvariant, PTL DEF Spec

=============================================================================

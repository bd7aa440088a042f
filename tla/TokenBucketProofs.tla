------------------------- MODULE TokenBucketProofs -------------------------
(***************************************************************************)
(* The bounds of the token bucket for every rate, burst, set of keys and   *)
(* length of interval.                                                     *)
(***************************************************************************)
EXTENDS TokenBucket, TLAPS

(* Refill over two adjoining intervals adds up, and is never negative.     *)
LEMMA RefillAdds ==
    ASSUME NEW a \in Int, NEW b \in Int, NEW c \in Int
    PROVE  (c - a) * Rate = (b - a) * Rate + (c - b) * Rate
  BY BucketAssumption

LEMMA RefillNat ==
    ASSUME NEW a \in Int, NEW b \in Int, a <= b
    PROVE  (b - a) * Rate \in Nat
  BY BucketAssumption

(* What Allow's refill leaves in the bucket of a known key.                *)
LEMMA RefilledBounds ==
    ASSUME BucketInv, NEW k \in seen
    PROVE  /\ Refilled(k) \in 0..Burst
           /\ Refilled(k) <= tokens[k] + (now - last[k]) * Rate
           /\ \/ Refilled(k) = Burst
              \/ Refilled(k) >= (now - lastGrant[k]) * Rate
<1> USE BucketAssumption
<1>1. /\ k \in Key /\ now \in Nat /\ last[k] \in Nat /\ lastGrant[k] \in Nat
      /\ tokens[k] \in 0..Burst
      /\ lastGrant[k] <= last[k] /\ last[k] <= now
      /\ tokens[k] = Burst \/ tokens[k] >= (last[k] - lastGrant[k]) * Rate
  BY DEF BucketInv, TypeOK
<1> DEFINE R == (now - last[k]) * Rate
           G == (last[k] - lastGrant[k]) * Rate
           N == (now - lastGrant[k]) * Rate
<1>2. R \in Nat /\ G \in Nat /\ N \in Nat
  BY <1>1, RefillNat
<1>3. N = G + R
  BY <1>1, RefillAdds
<1>4. Refilled(k) = IF tokens[k] + R < Burst THEN tokens[k] + R ELSE Burst
  BY DEF Refilled
<1> HIDE DEF R, G, N
<1>5. /\ Refilled(k) \in 0..Burst
      /\ Refilled(k) <= tokens[k] + R
      /\ Refilled(k) = Burst \/ Refilled(k) >= N
  BY <1>1, <1>2, <1>3, <1>4 DEF G
<1> QED
  BY <1>5 DEF R, N

LEMMA BucketInvInit == Init => BucketInv
  BY BucketAssumption DEF Init, BucketInv, TypeOK

(* Allowing a request keeps the accounts of the observed interval.         *)
LEMMA GrantKeepsInv ==
    ASSUME BucketInv, NEW k \in Key, Grant(k),
           seen' = seen \cup {k},
           NEW t \in Unit..Burst,
           tokens' = [tokens EXCEPT ![k] = t - Unit],
           k \in seen => t <= tokens[k] + (now - last[k]) * Rate
    PROVE  BucketInv'
<1> USE BucketAssumption
<1>0. TypeOK
  BY DEF BucketInv
<1>1. TypeOK'
  BY <1>0 DEF TypeOK, Grant
<1>2. mark' <= now'
  BY DEF BucketInv, Grant
<1>3. ASSUME NEW j \in Key, j # k
      PROVE  /\ last'[j] = last[j] /\ lastGrant'[j] = lastGrant[j]
             /\ tokens'[j] = tokens[j] /\ granted'[j] = granted[j]
             /\ j \in seen' <=> j \in seen
             /\ mark' = mark /\ now' = now
  BY <1>0, <1>3 DEF Grant, TypeOK
<1>4. /\ last'[k] = now /\ lastGrant'[k] = now /\ tokens'[k] = t - Unit
      /\ granted'[k] = granted[k] + 1 /\ mark' = mark /\ now' = now
      /\ granted[k] \in Nat /\ now \in Nat /\ mark \in Nat /\ mark <= now
  BY <1>0 DEF Grant, TypeOK, BucketInv
<1>5. tokens'[k] >= (last'[k] - lastGrant'[k]) * Rate
  BY <1>4
<1>6. granted'[k] * Unit + tokens'[k] <= Burst + (last'[k] - mark') * Rate
  <2>1. granted'[k] * Unit + tokens'[k] = granted[k] * Unit + t
    BY <1>4
  <2>2. (now - mark) * Rate \in Nat
    BY <1>4, RefillNat
  <2>3. CASE granted[k] = 0
    BY <1>4, <2>1, <2>2, <2>3
  <2>4. CASE granted[k] # 0
    <3>1. /\ k \in seen /\ last[k] \in Nat /\ tokens[k] \in Nat
          /\ last[k] <= now /\ mark <= last[k]
          /\ granted[k] * Unit + tokens[k] <= Burst + (last[k] - mark) * Rate
      BY <2>4, <1>0 DEF BucketInv, TypeOK
    <3> DEFINE A == (now - last[k]) * Rate
               B == (last[k] - mark) * Rate
               C == (now - mark) * Rate
               g == granted[k] * Unit
    <3>2. A \in Nat /\ B \in Nat /\ C \in Nat /\ C = B + A /\ g \in Nat
      BY <3>1, <1>4, RefillNat, RefillAdds
    <3>3. g + tokens[k] <= Burst + B /\ t <= tokens[k] + A
      BY <3>1
    <3>4. /\ granted'[k] * Unit + tokens'[k] = g + t
          /\ (last'[k] - mark') * Rate = C
      BY <2>1, <1>4
    <3> HIDE DEF A, B, C, g
    <3> QED
      BY <3>1, <3>2, <3>3, <3>4
  <2> QED
    BY <2>3, <2>4
<1>7. \A j \in Key : j # k =>
        /\ j \notin seen' => granted'[j] = 0
        /\ j \in seen' =>
            /\ lastGrant'[j] <= last'[j]
            /\ last'[j] <= now'
            /\ tokens'[j] = Burst \/ tokens'[j] >= (last'[j] - lastGrant'[j]) * Rate
            /\ IF last'[j] < mark'
               THEN granted'[j] = 0
               ELSE granted'[j] * Unit + tokens'[j] <= Burst + (last'[j] - mark') * Rate
  BY <1>3 DEF BucketInv
<1> QED
  BY <1>1, <1>2, <1>4, <1>5, <1>6, <1>7 DEF BucketInv

LEMMA BucketInvNext == BucketInv /\ [Next]_vars => BucketInv'
<1> SUFFICES ASSUME BucketInv, [Next]_vars PROVE BucketInv'
  OBVIOUS
<1> USE BucketAssumption
<1>0. TypeOK /\ mark <= now
  BY DEF BucketInv
<1>1. ASSUME NEW k \in Key, AllowFirst(k) PROVE BucketInv'
  <2>1. Burst \in Unit..Burst
    OBVIOUS
  <2> QED
    BY <1>1, <2>1, GrantKeepsInv, Zenon DEF AllowFirst
<1>2. ASSUME NEW k \in Key, AllowNext(k) PROVE BucketInv'
  <2>1. k \in seen /\ Refilled(k) >= Unit
    BY <1>2 DEF AllowNext
  <2>2. /\ Refilled(k) \in Unit..Burst
        /\ Refilled(k) <= tokens[k] + (now - last[k]) * Rate
    BY <2>1, RefilledBounds
  <2>3. /\ seen' = seen \cup {k} /\ Grant(k)
        /\ tokens' = [tokens EXCEPT ![k] = Refilled(k) - Unit]
    BY <1>2 DEF AllowNext
  <2> QED
    BY <2>2, <2>3, GrantKeepsInv, Zenon
<1>3. ASSUME NEW k \in Key, Deny(k) PROVE BucketInv'
  <2>0. k \in seen
    BY <1>3 DEF Deny
  <2>1. /\ Refilled(k) \in 0..Burst
        /\ Refilled(k) <= tokens[k] + (now - last[k]) * Rate
        /\ Refilled(k) = Burst \/ Refilled(k) >= (now - lastGrant[k]) * Rate
    BY <2>0, RefilledBounds
  <2>2. TypeOK' /\ mark' <= now'
    BY <1>0, <1>3, <2>1 DEF Deny, TypeOK
  <2>3. /\ last'[k] = now /\ tokens'[k] = Refilled(k)
        /\ UNCHANGED <<now, seen, mark, granted, lastGrant>>
        /\ \A j \in Key : j # k => last'[j] = last[j] /\ tokens'[j] = tokens[j]
    BY <1>0, <1>3 DEF Deny, TypeOK
  <2>4. /\ lastGrant[k] <= last[k] /\ last[k] <= now /\ now \in Nat /\ mark \in Nat
        /\ last[k] \in Nat /\ lastGrant[k] \in Nat /\ granted[k] \in Nat
        /\ tokens[k] \in Nat
    BY <1>0, <2>0 DEF BucketInv, TypeOK
  <2>5. granted[k] * Unit + Refilled(k) <= Burst + (now - mark) * Rate
    <3>1. (now - mark) * Rate \in Nat
      BY <1>0, <2>4, RefillNat
    <3>2. CASE granted[k] = 0
      BY <3>1, <3>2, <2>1
    <3>3. CASE granted[k] # 0
      <4>1. /\ mark <= last[k]
            /\ granted[k] * Unit + tokens[k] <= Burst + (last[k] - mark) * Rate
        BY <3>3, <2>0, <2>4 DEF BucketInv
      <4> DEFINE A == (now - last[k]) * Rate
                 B == (last[k] - mark) * Rate
                 C == (now - mark) * Rate
                 g == granted[k] * Unit
      <4>2. A \in Nat /\ B \in Nat /\ C \in Nat /\ C = B + A /\ g \in Nat
        BY <4>1, <2>4, <1>0, RefillNat, RefillAdds
      <4>3. g + tokens[k] <= Burst + B /\ Refilled(k) <= tokens[k] + A /\ Refilled(k) \in Nat
        BY <4>1, <2>1
      <4>4. g + Refilled(k) <= Burst + C
        <5> HIDE DEF A, B, C, g
        <5> QED
          BY <4>2, <4>3, <2>4
      <4> QED
        BY <4>4
    <3> QED
      BY <3>2, <3>3
  <2>6. \A j \in Key : j # k =>
          /\ j \notin seen' => granted'[j] = 0
          /\ j \in seen' =>
              /\ lastGrant'[j] <= last'[j]
              /\ last'[j] <= now'
              /\ tokens'[j] = Burst \/ tokens'[j] >= (last'[j] - lastGrant'[j]) * Rate
              /\ IF last'[j] < mark'
                 THEN granted'[j] = 0
                 ELSE granted'[j] * Unit + tokens'[j] <= Burst + (last'[j] - mark') * Rate
    BY <2>3 DEF BucketInv
  <2>7. lastGrant'[k] <= last'[k] /\ last'[k] <= now' /\ ~(last'[k] < mark')
    BY <1>0, <2>3, <2>4
  <2> QED
    BY <2>0, <2>1, <2>2, <2>3, <2>5, <2>6, <2>7 DEF BucketInv
<1>4. CASE Tick
  BY <1>0, <1>4 DEF Tick, BucketInv, TypeOK
<1>5. CASE Observe
  <2>1. TypeOK' /\ mark' <= now' /\ \A k \in Key : granted'[k] = 0
    BY <1>0, <1>5 DEF Observe, TypeOK
  <2>2. \A k \in Key : tokens[k] <= Burst /\ tokens[k] \in Nat /\ last[k] \in Nat
    BY <1>0 DEF TypeOK
  <2>3. \A k \in seen : ~(last'[k] < mark') =>
          granted'[k] * Unit + tokens'[k] <= Burst + (last'[k] - mark') * Rate
    <3> SUFFICES ASSUME NEW k \in seen, now <= last[k]
                 PROVE  0 * Unit + tokens[k] <= Burst + (last[k] - now) * Rate
      BY <1>0, <1>5, <2>1, <2>2 DEF Observe, TypeOK
    <3>0. k \in Key /\ last[k] <= now /\ last[k] \in Nat /\ now \in Nat
      BY <1>0 DEF BucketInv, TypeOK
    <3>1. last[k] - now = 0
      BY <3>0
    <3> QED
      BY <3>1, <1>0, <2>2 DEF TypeOK
  <2> QED
    BY <1>5, <2>1, <2>3 DEF Observe, BucketInv
<1>6. CASE UNCHANGED vars
  BY <1>0, <1>6 DEF vars, BucketInv, TypeOK
<1> QED
  BY <1>1, <1>2, <1>3, <1>4, <1>5, <1>6 DEF Next

(* BucketInv holds in every state of Allow: what was granted since mark    *)
(* was paid from the bucket, and the bucket holds the refill since then.   *)
THEOREM BucketInvariant == Spec => []BucketInv
  BY BucketInvInit, BucketInvNext, PTL DEF Spec

(* The accounts of the observed interval bound what was granted in it.     *)
LEMMA InvBoundsRate == BucketInv => RateBounded
<1> SUFFICES ASSUME BucketInv, NEW k \in Key
             PROVE  granted[k] * Unit <= Burst + (now - mark) * Rate
  BY Zenon DEF RateBounded
<1> USE BucketAssumption
<1>1. /\ now \in Nat /\ mark \in Nat /\ mark <= now /\ granted[k] \in Nat
      /\ last[k] \in Nat /\ tokens[k] \in Nat
  BY DEF BucketInv, TypeOK
<1>2. (now - mark) * Rate \in Nat
  BY <1>1, RefillNat
<1>3. CASE granted[k] = 0
  BY <1>2, <1>3
<1>4. CASE granted[k] # 0
  <2>1. /\ mark <= last[k] /\ last[k] <= now
        /\ granted[k] * Unit + tokens[k] <= Burst + (last[k] - mark) * Rate
    BY <1>1, <1>4 DEF BucketInv
  <2> DEFINE A == (now - last[k]) * Rate
             B == (last[k] - mark) * Rate
             C == (now - mark) * Rate
             g == granted[k] * Unit
  <2>2. A \in Nat /\ B \in Nat /\ C = B + A /\ g \in Nat /\ g + tokens[k] <= Burst + B
    BY <1>1, <2>1, RefillNat, RefillAdds
  <2>3. g <= Burst + C
    <3> HIDE DEF A, B, C, g
    <3> QED
      BY <1>1, <2>2
  <2> QED
    BY <2>3
<1> QED
  BY <1>3, <1>4

(* No interval of any length lets through more than burst + rate * length  *)
(* requests of one key.                                                    *)
THEOREM RateIsBounded == Spec => []RateBounded
  BY InvBoundsRate, BucketInvariant, PTL

(* A client is denied only within one token's refill of a request that was *)
(* allowed, however often it retries in between.                           *)
THEOREM DenialIsJustified == Spec => []DenialJustified
<1>1. BucketInv => DenialJustified
  <2> SUFFICES ASSUME BucketInv, NEW k \in seen, Refilled(k) < Unit
               PROVE  (now - lastGrant[k]) * Rate < Unit
    BY DEF DenialJustified
  <2>1. /\ Refilled(k) \in 0..Burst
        /\ Refilled(k) = Burst \/ Refilled(k) >= (now - lastGrant[k]) * Rate
    BY RefilledBounds
  <2>2. (now - lastGrant[k]) * Rate \in Nat
    BY RefillNat DEF BucketInv, TypeOK
  <2> DEFINE N == (now - lastGrant[k]) * Rate
  <2>3. N < Unit
    <3> HIDE DEF N
    <3>1. N \in Nat /\ (Refilled(k) = Burst \/ Refilled(k) >= N)
      BY <2>1, <2>2 DEF N
    <3> QED
      BY <2>1, <3>1, BucketAssumption
  <2> QED
    BY <2>3
<1> QED
  BY <1>1, BucketInvariant, PTL

=============================================================================

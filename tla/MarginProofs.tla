---------------------------- MODULE MarginProofs ----------------------------
(***************************************************************************)
(* The health factor shown agrees with the status, and a report adds up    *)
(* what the account and the feeds had, for any assets, prices, debts and   *)
(* number of digits, whatever moves during the evaluation.                 *)
(***************************************************************************)
EXTENDS Margin, TLAPS, NaturalsInduction, WellFoundedInduction

(* Rounding half up does not cross an integer.                             *)
LEMMA RoundingStays ==
    ASSUME NEW x \in Nat, NEW d \in Nat \ {0}, NEW t \in Nat,
           NEW q, q = (2 * x + d) \div (2 * d)
    PROVE  /\ q \in Int
           /\ x < d * t => q <= t
           /\ x >= d * t => q >= t
  <1> DEFINE n == 2 * x + d
  <1> DEFINE m == 2 * d
  <1>1. n \in Nat /\ m \in Nat /\ m > 0
    OBVIOUS
  <1>2. n \div m \in Int /\ m * (n \div m) <= n /\ n < m * (n \div m) + m
    <2> HIDE DEF n, m
    <2> QED BY <1>1
  <1>3. q \in Int /\ m * q <= n /\ n < m * q + m
    BY <1>2
  <1>4. ASSUME x < d * t, q >= t + 1 PROVE FALSE
    <2>1. m * q >= m * (t + 1)
      BY <1>1, <1>3, <1>4
    <2>2. m * (t + 1) = 2 * (d * t) + 2 * d
      OBVIOUS
    <2>3. d * t \in Nat
      OBVIOUS
    <2> QED BY <1>3, <1>4, <2>1, <2>2, <2>3
  <1>5. ASSUME x >= d * t, q <= t - 1 PROVE FALSE
    <2>1. m * q <= m * (t - 1)
      BY <1>1, <1>3, <1>5
    <2>2. m * (t - 1) = 2 * (d * t) - 2 * d
      OBVIOUS
    <2>3. d * t \in Nat
      OBVIOUS
    <2> QED BY <1>3, <1>5, <2>1, <2>2, <2>3
  <1> QED BY <1>3, <1>4, <1>5

(* Amounts are natural numbers, and a debt is not lost in the scaling.     *)
LEMMA AmountTypes ==
    ASSUME NEW a \in Asset, NEW b \in Nat, NEW p \in Nat
    PROVE  Value(a, b, p) \in Nat /\ Weighted(a, b, p) \in Nat
  <1>1. Tokens(Decimals[a]) \in Nat /\ Factor[a] \in Nat
    BY MarginAssumption DEF Tokens
  <1>2. b * p \in Nat
    OBVIOUS
  <1>3. b * p * Tokens(Decimals[a]) \in Nat
    BY <1>1, <1>2
  <1> QED BY <1>1, <1>3 DEF Value, Weighted

LEMMA OwedType ==
    ASSUME NEW d \in Nat \ {0}
    PROVE  Owed(d) \in Nat \ {0}
  <1>1. Tokens(0) \in Nat \ {0}
    BY MarginAssumption DEF Tokens
  <1>2. d * 100 \in Nat \ {0}
    OBVIOUS
  <1> QED BY <1>1, <1>2 DEF Owed

LEMMA MarginStep ==
    ASSUME MInv, [Next]_vars
    PROVE  MInv'
  <1> USE DEF MInv
  <1>0. N \in Nat
    BY MarginAssumption
  <1>1. CASE UNCHANGED vars
    BY <1>1 DEF vars, chain
  <1>2. ASSUME NEW a \in Asset, NEW b \in Balances, Transfer(a, b) PROVE MInv'
    BY <1>2 DEF Transfer
  <1>3. ASSUME NEW a \in Asset, NEW p \in Prices, NewRound(a, p) PROVE MInv'
    BY <1>3 DEF NewRound
  <1>4. ASSUME NEW d \in Debts, Evaluate(d) PROVE MInv'
    <2>1. report' \in Report /\ report'.code = 0
      BY <1>4 DEF Evaluate, NoReport, Report
    <2> QED BY <1>0, <1>4, <2>1, MarginAssumption DEF Evaluate, chain
  <1>5. CASE BalanceOf
    <2>1. i \in Asset
      BY <1>0, <1>5 DEF BalanceOf, Asset
    <2>2. bal' \in Nat
      BY <1>5, <2>1, MarginAssumption DEF BalanceOf
    <2>3. i' \in 1..(N + 1) /\ pc' \in {"balance", "price"} /\ (pc' = "price" => i' <= N)
      BY <1>0, <1>5 DEF BalanceOf
    <2> QED BY <1>5, <2>2, <2>3 DEF BalanceOf, chain
  <1>6. CASE Price
    <2>1. i \in Asset
      BY <1>0, <1>6 DEF Price, Asset
    <2>2. price[i] \in Nat
      <3>1. price[i] \in Int
        BY <2>1, MarginAssumption, ZenonT(30)
      <3>2. price[i] > 0
        BY <1>6 DEF Price
      <3> QED BY <3>1, <3>2
    <2>3. gross' \in Nat /\ weighted' \in Nat
      <3>1. Value(i, bal, price[i]) \in Nat /\ Weighted(i, bal, price[i]) \in Nat
        BY <2>1, <2>2, AmountTypes, ZenonT(30)
      <3> QED BY <1>6, <3>1 DEF Price
    <2>4. i' \in 1..(N + 1)
      BY <1>0, <1>6 DEF Price
    <2>5. pc = "price" /\ pc' = "balance" /\ UNCHANGED <<balance, price, bal, debt, report>>
      BY <1>6 DEF Price, chain
    <2>6. report.code = 0 /\ report' = report
      BY <2>5
    <2> QED BY <2>3, <2>4, <2>5, <2>6
  <1>7. CASE BadPrice \/ CallFails
    <2>1. report' = [hf |-> -1, status |-> "none", code |-> 502] /\ pc' = "answered"
          /\ UNCHANGED <<balance, price, i, bal, debt, gross, weighted>>
      BY <1>7 DEF BadPrice, CallFails, Answer, chain
    <2>2. report' \in Report /\ report'.code = 502
      BY <2>1 DEF Report
    <2> QED BY <2>1, <2>2
  <1>8. CASE Finish
    <2>0. pc' = "answered" /\ UNCHANGED <<balance, price, i, bal, debt, gross, weighted>>
      BY <1>8 DEF Finish, Answer, chain
    <2>1. CASE debt <= 0
      <3>1. report' = [hf |-> -1, status |-> "healthy", code |-> 200]
        BY <1>8, <2>1 DEF Finish, Answer
      <3>2. report' \in Report
        BY <3>1 DEF Report
      <3> QED BY <2>0, <2>1, <3>2
    <2>2. CASE debt > 0
      <3> DEFINE w == weighted
      <3> DEFINE d == Owed(debt)
      <3>1. d \in Nat \ {0}
        BY <2>2, OwedType
      <3>2. report' = [hf |-> Shown(w, d), status |-> Status(w, d), code |-> 200]
        BY <1>8, <2>2 DEF Finish, Answer
      <3>3. Shown(w, d) \in Int
        <4>1. w * Scale \in Nat
          BY MarginAssumption
        <4> HIDE DEF d
        <4> QED BY <3>1, <4>1, RoundingStays DEF Shown
      <3>4. Status(w, d) \in {"healthy", "margin_call", "liquidatable"}
        BY DEF Status
      <3>5. report' \in Report /\ report'.hf = Shown(w, d) /\ report'.status = Status(w, d)
        BY <3>2, <3>3, <3>4 DEF Report
      <3> QED BY <2>0, <3>5 DEF Owed
    <2> QED BY <2>1, <2>2
  <1>9. CASE Done
    BY <1>9 DEF Done, chain
  <1> QED BY <1>1, <1>2, <1>3, <1>4, <1>5, <1>6, <1>7, <1>8, <1>9 DEF Next, Step

LEMMA MarginInit == Init => MInv
  <1> SUFFICES ASSUME Init PROVE MInv
    OBVIOUS
  <1>1. NoReport \in Report /\ NoReport.code = 0
    BY DEF NoReport, Report
  <1> QED BY <1>1, MarginAssumption DEF Init, MInv

(* In a state with MInv the shown health factor is on the status's side of *)
(* both thresholds (Engine.status, FloatString).                           *)
LEMMA ShownAgrees ==
    ASSUME MInv
    PROVE  ShownAgreesWithStatus
  <1> SUFFICES ASSUME report.code = 200, debt > 0
               PROVE  /\ report.status = "liquidatable" => report.hf <= Scale
                      /\ report.status = "margin_call" =>
                           Scale <= report.hf /\ 100 * report.hf <= 115 * Scale
                      /\ report.status = "healthy" => 115 * Scale <= 100 * report.hf
    BY DEF ShownAgreesWithStatus
  <1> DEFINE w == weighted
  <1> DEFINE d == Owed(debt)
  <1> DEFINE q == report.hf
  <1>1. w \in Nat /\ d \in Nat \ {0} /\ q = Shown(w, d) /\ report.status = Status(w, d)
    BY OwedType DEF MInv
  <1>2. PICK k \in Nat : Scale = 20 * k
    BY MarginAssumption
  <1> DEFINE t == 23 * k
  <1>3. t \in Nat /\ 100 * t = 115 * Scale /\ Scale \in Nat
    BY <1>2
  <1> HIDE DEF w, d, q, t
  <1>4. w * Scale \in Nat
    BY <1>1, <1>3
  <1>a. ASSUME NEW u \in Nat
        PROVE  /\ q \in Int
               /\ w * Scale < d * u => q <= u
               /\ w * Scale >= d * u => q >= u
    <2> DEFINE x == w * Scale
    <2>1. q = (2 * x + d) \div (2 * d)
      BY <1>1, Zenon DEF Shown
    <2>2. x \in Nat /\ d \in Nat \ {0}
      BY <1>1, <1>4
    <2> HIDE DEF x
    <2>3. /\ q \in Int
          /\ x < d * u => q <= u
          /\ x >= d * u => q >= u
      BY <2>1, <2>2, RoundingStays, Zenon
    <2> QED BY <2>3, Zenon DEF x
  <1>5. /\ q \in Int
        /\ w * Scale < d * Scale => q <= Scale
        /\ w * Scale >= d * Scale => q >= Scale
    BY <1>3, <1>a, Zenon
  <1>6. /\ w * Scale < d * t => q <= t
        /\ w * Scale >= d * t => q >= t
    BY <1>3, <1>a, Zenon
  <1>7. ASSUME NEW x \in Nat, NEW y \in Nat
        PROVE  /\ x < y => x * Scale < y * Scale
               /\ x >= y => x * Scale >= y * Scale
    BY <1>3, MarginAssumption
  <1>8. 100 * (w * Scale) = (100 * w) * Scale /\ 100 * (d * t) = (115 * d) * Scale
    <2>1. 100 * (d * t) = d * (100 * t)
      BY <1>1, <1>3
    <2>2. d * (115 * Scale) = (115 * d) * Scale
      BY <1>1, <1>3
    <2> QED BY <1>1, <1>3, <2>1, <2>2
  <1>9. /\ 100 * w \in Nat /\ 115 * d \in Nat
        /\ w * Scale \in Nat /\ d * t \in Nat
    BY <1>1, <1>3, <1>4
  <1>10. /\ 100 * w < 115 * d => w * Scale < d * t
         /\ 100 * w >= 115 * d => w * Scale >= d * t
    <2>1. /\ 100 * w < 115 * d => (100 * w) * Scale < (115 * d) * Scale
          /\ 100 * w >= 115 * d => (100 * w) * Scale >= (115 * d) * Scale
      BY <1>7, <1>9
    <2> QED BY <1>8, <1>9, <2>1
  <1>11. /\ w < d => q <= Scale
         /\ w >= d => q >= Scale
         /\ 100 * w < 115 * d => q <= t
         /\ 100 * w >= 115 * d => q >= t
    BY <1>1, <1>5, <1>6, <1>7, <1>10
  <1>12. /\ Status(w, d) = "liquidatable" => w < d
         /\ Status(w, d) = "margin_call" => w >= d /\ 100 * w < 115 * d
         /\ Status(w, d) = "healthy" => 100 * w >= 115 * d
    BY <1>1, <1>9 DEF Status
  <1> QED BY <1>1, <1>3, <1>5, <1>11, <1>12 DEF q

-----------------------------------------------------------------------------
(* The sums of an evaluation.                                              *)

(* A non-empty set of naturals has a least element.                        *)
LEMMA LeastNat ==
    ASSUME NEW S \in SUBSET Nat, S # {}
    PROVE  \E m \in S : \A k \in S : m <= k
  <1>1. PICK m \in S : \A k \in S : ~(<<k, m>> \in OpToRel(<, Nat))
    BY NatLessThanWellFounded, WFMin, Zenon
  <1>2. \A k \in S : m <= k
    <2> SUFFICES ASSUME NEW k \in S, k < m PROVE FALSE
      OBVIOUS
    <2>1. <<k, m>> \in Nat \X Nat /\ <<k, m>>[1] < <<k, m>>[2]
      OBVIOUS
    <2>2. <<k, m>> \in OpToRel(<, Nat)
      BY <2>1, Zenon DEF OpToRel
    <2> QED BY <1>1, <2>2, Zenon
  <1> QED BY <1>2

(* The partial sums up to any number of assets exist.                      *)
Adds(g, f, n) == g[0] = 0 /\ \A k \in 1..n : g[k] = g[k - 1] + f[k]

IsSum(g, f, n) == g \in [0..n -> Int] /\ Adds(g, f, n)

LEMMA SumExists ==
    ASSUME NEW f \in [Asset -> Int], NEW n \in 0..N
    PROVE  \E g : IsSum(g, f, n)
  <1>0. N \in Nat
    BY MarginAssumption
  <1> DEFINE Bad == {k \in 0..N : ~\E g : IsSum(g, f, k)}
  <1> SUFFICES ASSUME Bad # {} PROVE FALSE
    OBVIOUS
  <1>1. Bad \in SUBSET Nat
    BY <1>0
  <1>2. PICK m \in Bad : \A k \in Bad : m <= k
    <2> HIDE DEF Bad
    <2> QED BY <1>1, LeastNat
  <1>3. m \in 0..N /\ ~\E g : IsSum(g, f, m)
    BY <1>2
  <1>4. m # 0
    <2> DEFINE z == [k \in {0} |-> 0]
    <2>1. z \in [0..0 -> Int] /\ z[0] = 0 /\ 1..0 = {}
      OBVIOUS
    <2> HIDE DEF z
    <2>2. IsSum(z, f, 0)
      BY <2>1 DEF IsSum, Adds
    <2> QED BY <1>3, <2>2
  <1>5. m - 1 \in 0..N /\ m - 1 < m /\ m \in Asset
    BY <1>0, <1>3, <1>4 DEF Asset
  <1>6. m - 1 \notin Bad
    BY <1>2, <1>3, <1>5
  <1>7. PICK g : IsSum(g, f, m - 1)
    BY <1>5, <1>6
  <1> DEFINE h == [k \in 0..m |-> IF k = m THEN g[m - 1] + f[m] ELSE g[k]]
  <1>8. g \in [0..(m - 1) -> Int] /\ g[0] = 0 /\ \A k \in 1..(m - 1) : g[k] = g[k - 1] + f[k]
    BY <1>7 DEF IsSum, Adds
  <1>9. h \in [0..m -> Int] /\ h[0] = 0
    BY <1>3, <1>4, <1>5, <1>8
  <1>10. \A k \in 1..m : h[k] = h[k - 1] + f[k]
    <2> SUFFICES ASSUME NEW k \in 1..m PROVE h[k] = h[k - 1] + f[k]
      BY ZenonT(30)
    <2>1. CASE k = m
      BY <1>3, <1>5, <2>1
    <2>2. CASE k # m
      <3>1. k \in 1..(m - 1) /\ k - 1 \in 0..m /\ k - 1 # m /\ k \in 0..m
        BY <1>3, <2>2
      <3> QED BY <1>8, <2>2, <3>1
    <2> QED BY <2>1, <2>2
  <1> HIDE DEF h
  <1>11. IsSum(h, f, m)
    BY <1>9, <1>10 DEF IsSum, Adds
  <1> QED BY <1>3, <1>11

(* The partial sums depend on the summands so far only.                    *)
LEMMA SameSum ==
    ASSUME NEW n \in Nat, NEW x, NEW y, NEW f, NEW h, Adds(x, f, n), Adds(y, h, n),
           \A k \in 1..n : f[k] = h[k]
    PROVE  \A k \in 0..n : x[k] = y[k]
  <1> DEFINE Bad == {k \in 0..n : x[k] # y[k]}
  <1> SUFFICES ASSUME Bad # {} PROVE FALSE
    OBVIOUS
  <1>1. Bad \in SUBSET Nat
    OBVIOUS
  <1>2. PICK m \in Bad : \A k \in Bad : m <= k
    <2> HIDE DEF Bad
    <2> QED BY <1>1, LeastNat
  <1>3. m \in 1..n /\ m - 1 \in 0..n /\ m - 1 < m
    BY <1>2 DEF Adds
  <1>4. x[m - 1] = y[m - 1]
    BY <1>2, <1>3
  <1> QED BY <1>2, <1>3, <1>4 DEF Adds

(* What Sum computes.                                                      *)
LEMMA SumIsSum ==
    ASSUME NEW f \in [Asset -> Int]
    PROVE  IsSum(Sum(f), f, N)
  <1>0. N \in Nat /\ N \in 0..N
    BY MarginAssumption
  <1> DEFINE Eq(g) == g = [n \in 0..N |-> IF n = 0 THEN 0 ELSE g[n - 1] + f[n]]
  <1>1. PICK g : IsSum(g, f, N)
    BY <1>0, SumExists
  <1>2. g \in [0..N -> Int] /\ g[0] = 0 /\ \A k \in 1..N : g[k] = g[k - 1] + f[k]
    BY <1>1 DEF IsSum, Adds
  <1>3. \A n \in 0..N : g[n] = IF n = 0 THEN 0 ELSE g[n - 1] + f[n]
    BY <1>0, <1>2
  <1>4. Eq(g)
    BY <1>2, <1>3
  <1>5. Sum(f) = CHOOSE x : Eq(x)
    BY DEF Sum
  <1>6. Eq(Sum(f))
    BY <1>4, <1>5, ZenonT(30)
  <1> DEFINE x == Sum(f)
  <1> HIDE DEF x
  <1>7. /\ DOMAIN x = 0..N /\ x = [n \in DOMAIN x |-> x[n]] /\ x[0] = 0
        /\ \A k \in 1..N : x[k] = x[k - 1] + f[k]
    <2>1. x = [n \in 0..N |-> IF n = 0 THEN 0 ELSE x[n - 1] + f[n]]
      BY <1>6, ZenonT(30) DEF x
    <2>2. DOMAIN x = 0..N /\ x = [n \in DOMAIN x |-> x[n]]
      BY <2>1, Zenon
    <2>3. \A n \in 0..N : x[n] = IF n = 0 THEN 0 ELSE x[n - 1] + f[n]
      BY <2>1, Zenon
    <2>4. 0 \in 0..N /\ \A k \in 1..N : k \in 0..N /\ k # 0
      BY <1>0
    <2> QED BY <2>2, <2>3, <2>4, ZenonT(30)
  <1>8. \A k \in 0..N : x[k] = g[k]
    <2>1. Adds(x, f, N) /\ Adds(g, f, N)
      BY <1>2, <1>7 DEF Adds
    <2> QED BY <1>0, <2>1, SameSum
  <1>9. x \in [0..N -> Int]
    BY <1>2, <1>7, <1>8
  <1> QED BY <1>7, <1>9 DEF x, IsSum, Adds

(* One more asset is one more summand.                                     *)
LEMMA SumStep ==
    ASSUME NEW f \in [Asset -> Int], NEW h \in [Asset -> Int], NEW n \in Asset,
           \A k \in 1..(n - 1) : f[k] = h[k]
    PROVE  Sum(h)[n] = Sum(f)[n - 1] + h[n]
  <1>0. N \in Nat /\ n \in 1..N /\ n - 1 \in Nat /\ n - 1 \in 0..(n - 1)
    BY MarginAssumption DEF Asset
  <1>1. Adds(Sum(f), f, N) /\ Adds(Sum(h), h, N)
    BY SumIsSum DEF IsSum
  <1>2. Adds(Sum(f), f, n - 1) /\ Adds(Sum(h), h, n - 1)
    <2>1. \A k \in 1..(n - 1) : k \in 1..N
      BY <1>0
    <2> QED BY <1>1, <2>1 DEF Adds
  <1>3. Sum(f)[n - 1] = Sum(h)[n - 1]
    BY <1>0, <1>2, SameSum
  <1> QED BY <1>0, <1>1, <1>3 DEF Adds

LEMMA SumZero ==
    ASSUME NEW f \in [Asset -> Int]
    PROVE  Sum(f)[0] = 0
  BY SumIsSum DEF IsSum, Adds

LEMMA MixTypes ==
    ASSUME NEW B \in [Asset -> SUBSET Balances], NEW P \in [Asset -> SUBSET Prices],
           NEW b \in Mix(B), NEW p \in Mix(P)
    PROVE  /\ b \in [Asset -> Nat] /\ p \in [Asset -> Int]
           /\ Values(b, p) \in [Asset -> Int] /\ Weights(b, p) \in [Asset -> Int]
  <1>1. b \in [Asset -> Nat]
    BY MarginAssumption, ZenonT(30) DEF Mix
  <1>2. p \in [Asset -> Int]
    BY MarginAssumption, ZenonT(30) DEF Mix
  <1>3. ASSUME NEW a \in Asset
        PROVE  Value(a, b[a], p[a]) \in Int /\ Weighted(a, b[a], p[a]) \in Int
    <2>1. Tokens(Decimals[a]) \in Int /\ Factor[a] \in Int
      BY MarginAssumption DEF Tokens
    <2>2. b[a] * p[a] \in Int
      BY <1>1, <1>2
    <2>3. b[a] * p[a] * Tokens(Decimals[a]) \in Int
      BY <2>1, <2>2
    <2> QED BY <2>1, <2>3 DEF Value, Weighted
  <1> QED BY <1>1, <1>2, <1>3 DEF Values, Weights

(* One balance and one price more: the sums grow by their value.           *)
Extended(B, P, b, p, n, c, q) ==
    \E b2 \in Mix(B), p2 \in Mix(P) :
        /\ b2[n] = c /\ p2[n] = q
        /\ \A a \in 1..(n - 1) : b2[a] = b[a] /\ p2[a] = p[a]
        /\ Sum(Values(b2, p2))[n] = Sum(Values(b, p))[n - 1] + Value(n, c, q)
        /\ Sum(Weights(b2, p2))[n] = Sum(Weights(b, p))[n - 1] + Weighted(n, c, q)

(* A mix with the values just read of asset n.                             *)
LEMMA MixStep ==
    ASSUME NEW B \in [Asset -> SUBSET Balances], NEW P \in [Asset -> SUBSET Prices],
           NEW b \in Mix(B), NEW p \in Mix(P), NEW n \in Asset,
           NEW c \in B[n], NEW q \in P[n]
    PROVE  Extended(B, P, b, p, n, c, q)
  <1> DEFINE b2 == [b EXCEPT ![n] = c]
             p2 == [p EXCEPT ![n] = q]
  <1>1. b2 \in Mix(B) /\ p2 \in Mix(P) /\ b2[n] = c /\ p2[n] = q
    BY ZenonT(30) DEF Mix
  <1>2. \A a \in 1..(n - 1) : a \in Asset /\ b2[a] = b[a] /\ p2[a] = p[a]
    <2>1. \A a \in 1..(n - 1) : a \in Asset /\ a # n
      BY MarginAssumption DEF Asset
    <2> QED BY <2>1, SMTT(60) DEF Mix
  <1> HIDE DEF b2, p2
  <1>3. /\ Values(b, p) \in [Asset -> Int] /\ Weights(b, p) \in [Asset -> Int]
        /\ Values(b2, p2) \in [Asset -> Int] /\ Weights(b2, p2) \in [Asset -> Int]
    BY <1>1, MixTypes
  <1>4. \A a \in 1..(n - 1) : /\ Values(b, p)[a] = Values(b2, p2)[a]
                              /\ Weights(b, p)[a] = Weights(b2, p2)[a]
    BY <1>2 DEF Values, Weights
  <1>5. Values(b2, p2)[n] = Value(n, c, q) /\ Weights(b2, p2)[n] = Weighted(n, c, q)
    BY <1>1 DEF Values, Weights
  <1>6. /\ Sum(Values(b2, p2))[n] = Sum(Values(b, p))[n - 1] + Value(n, c, q)
        /\ Sum(Weights(b2, p2))[n] = Sum(Weights(b, p))[n - 1] + Weighted(n, c, q)
    BY <1>3, <1>4, <1>5, SumStep
  <1> QED BY <1>1, <1>2, <1>6 DEF Extended

(* A mix stays one as the chain moves on.                                  *)
LEMMA MixGrows ==
    ASSUME NEW B, NEW C, \A a \in Asset : B[a] \subseteq C[a]
    PROVE  Mix(B) \subseteq Mix(C)
  <1> SUFFICES ASSUME NEW f \in Mix(B) PROVE f \in Mix(C)
    OBVIOUS
  <1>1. f = [a \in Asset |-> f[a]] /\ \A a \in Asset : f[a] \in C[a]
    BY DEF Mix
  <1>2. f \in [Asset -> UNION {C[a] : a \in Asset}]
    BY <1>1
  <1> QED BY <1>1, <1>2 DEF Mix

(* The chain moves under an evaluation.                                    *)
LEMMA MoveKeepsMix ==
    ASSUME MInv, MixInv,
           heldBalance' \in [Asset -> SUBSET Balances], heldPrice' \in [Asset -> SUBSET Prices],
           \A a \in Asset : heldBalance[a] \subseteq heldBalance'[a],
           \A a \in Asset : heldPrice[a] \subseteq heldPrice'[a],
           pc # "idle" => balance' \in Mix(heldBalance') /\ price' \in Mix(heldPrice'),
           UNCHANGED <<pc, i, bal, gross, weighted, report, failed>>
    PROVE  MixInv'
  <1>1. pc = "price" => i \in Asset
    BY MarginAssumption DEF MInv, Asset
  <1>2. Mix(heldBalance) \subseteq Mix(heldBalance') /\ Mix(heldPrice) \subseteq Mix(heldPrice')
    BY MixGrows
  <1>3. \A b, p, n : AddsUp(b, p, n)' <=> AddsUp(b, p, n)
    BY DEF AddsUp
  <1>4. pc' \in {"balance", "price"} =>
          \E b \in Mix(heldBalance'), p \in Mix(heldPrice') : AddsUp(b, p, i - 1)'
    BY <1>2, <1>3 DEF MixInv
  <1>5. ReportIsAMix'
    <2> SUFFICES ASSUME pc' = "answered"
                 PROVE  \E b \in Mix(heldBalance'), p \in Mix(heldPrice') :
                          /\ report'.code = 200 => AddsUp(b, p, N)'
                          /\ report'.code = 502 =>
                               failed' \/ \E a \in Asset : b[a] > 0 /\ p[a] <= 0
      BY DEF ReportIsAMix
    <2>1. PICK b \in Mix(heldBalance), p \in Mix(heldPrice) :
            /\ report.code = 200 => AddsUp(b, p, N)
            /\ report.code = 502 => failed \/ \E a \in Asset : b[a] > 0 /\ p[a] <= 0
      BY DEF MixInv, ReportIsAMix
    <2> QED BY <1>2, <1>3, <2>1
  <1>6. pc' = "price" => bal' > 0 /\ bal' \in heldBalance'[i']
    BY <1>1 DEF MixInv
  <1> QED BY <1>4, <1>5, <1>6 DEF MixInv

LEMMA HeldNow ==
    ASSUME NEW f, NEW B, f = [a \in Asset |-> f[a]], \A a \in Asset : f[a] \in B[a]
    PROVE  f \in Mix(B)
  BY DEF Mix

LEMMA MixNext ==
    ASSUME MInv, MixInv, [Next]_vars
    PROVE  MixInv'
  <1>0. /\ N \in Nat /\ balance \in [Asset -> Balances] /\ price \in [Asset -> Prices]
        /\ heldBalance \in [Asset -> SUBSET Balances]
        /\ heldPrice \in [Asset -> SUBSET Prices]
    BY MarginAssumption DEF MInv, MixInv
  <1>1. CASE UNCHANGED vars
    BY <1>0, <1>1, MoveKeepsMix DEF vars, chain, MixInv
  <1>2. ASSUME NEW a \in Asset, NEW c \in Balances, Transfer(a, c) PROVE MixInv'
    <2>1. /\ balance' = [balance EXCEPT ![a] = c]
          /\ heldBalance' = [heldBalance EXCEPT ![a] = @ \cup {c}]
          /\ UNCHANGED <<price, pc, i, bal, gross, weighted, report, heldPrice, failed>>
      BY <1>2 DEF Transfer
    <2>2. /\ heldBalance' \in [Asset -> SUBSET Balances]
          /\ \A x \in Asset : heldBalance[x] \subseteq heldBalance'[x]
          /\ c \in heldBalance'[a]
      BY <1>0, <2>1
    <2>3. ASSUME pc # "idle" PROVE balance' \in Mix(heldBalance') /\ price' \in Mix(heldPrice')
      <3>1. balance \in Mix(heldBalance) /\ price \in Mix(heldPrice)
        BY <2>3 DEF MixInv
      <3>2. \A x \in Asset : balance'[x] \in heldBalance'[x]
        BY <1>0, <2>1, <2>2, <3>1 DEF Mix
      <3>3. balance' = [x \in Asset |-> balance'[x]]
        BY <1>0, <2>1, ZenonT(30)
      <3> QED BY <2>1, <3>1, <3>2, <3>3, HeldNow, ZenonT(30)
    <2> QED BY <1>0, <2>1, <2>2, <2>3, MoveKeepsMix
  <1>3. ASSUME NEW a \in Asset, NEW q \in Prices, NewRound(a, q) PROVE MixInv'
    <2>1. /\ price' = [price EXCEPT ![a] = q]
          /\ heldPrice' = [heldPrice EXCEPT ![a] = @ \cup {q}]
          /\ UNCHANGED <<balance, pc, i, bal, gross, weighted, report, heldBalance, failed>>
      BY <1>3 DEF NewRound
    <2>2. /\ heldPrice' \in [Asset -> SUBSET Prices]
          /\ \A x \in Asset : heldPrice[x] \subseteq heldPrice'[x]
          /\ q \in heldPrice'[a]
      BY <1>0, <2>1
    <2>3. ASSUME pc # "idle" PROVE balance' \in Mix(heldBalance') /\ price' \in Mix(heldPrice')
      <3>1. balance \in Mix(heldBalance) /\ price \in Mix(heldPrice)
        BY <2>3 DEF MixInv
      <3>2. \A x \in Asset : price'[x] \in heldPrice'[x]
        BY <1>0, <2>1, <2>2, <3>1 DEF Mix
      <3>3. price' = [x \in Asset |-> price'[x]]
        BY <1>0, <2>1, ZenonT(30)
      <3> QED BY <2>1, <3>1, <3>2, <3>3, HeldNow, ZenonT(30)
    <2> QED BY <1>0, <2>1, <2>2, <2>3, MoveKeepsMix
  <1>4. ASSUME NEW d \in Debts, Evaluate(d) PROVE MixInv'
    <2>1. /\ pc' = "balance" /\ i' = 1 /\ gross' = 0 /\ weighted' = 0
          /\ heldBalance' = [a \in Asset |-> {balance[a]}]
          /\ heldPrice' = [a \in Asset |-> {price[a]}]
          /\ UNCHANGED <<balance, price>>
      BY <1>4 DEF Evaluate, chain
    <2>2. /\ heldBalance' \in [Asset -> SUBSET Balances] /\ heldPrice' \in [Asset -> SUBSET Prices]
      BY <1>0, <2>1
    <2>3. balance \in Mix(heldBalance') /\ price \in Mix(heldPrice')
      BY <1>0, <2>1, HeldNow
    <2>4. Values(balance, price) \in [Asset -> Int] /\ Weights(balance, price) \in [Asset -> Int]
      BY <2>2, <2>3, MixTypes
    <2>5. Sum(Values(balance, price))[0] = 0 /\ Sum(Weights(balance, price))[0] = 0
      BY <2>4, SumZero
    <2>6. PICK b \in Mix(heldBalance'), p \in Mix(heldPrice') :
            Sum(Values(b, p))[0] = 0 /\ Sum(Weights(b, p))[0] = 0
      BY <2>3, <2>5
    <2>7. i' - 1 = 0 /\ 1..0 = {}
      BY <2>1
    <2>8. AddsUp(b, p, i - 1)'
      BY <2>1, <2>6, <2>7 DEF AddsUp
    <2> QED BY <2>1, <2>2, <2>3, <2>8, ZenonT(60) DEF MixInv, ReportIsAMix
  <1>5. CASE BalanceOf
    <2>0. i \in Asset /\ i \in 1..N /\ pc = "balance"
      BY <1>0, <1>5 DEF BalanceOf, MInv, Asset
    <2>1. /\ bal' = balance[i]
          /\ UNCHANGED <<balance, price, gross, weighted, report, heldBalance, heldPrice, failed>>
      BY <1>5 DEF BalanceOf, chain
    <2>2. balance \in Mix(heldBalance) /\ price \in Mix(heldPrice)
      BY <2>0 DEF MixInv
    <2>3. balance[i] \in heldBalance[i] /\ balance[i] \in Nat
      BY <1>0, <2>0, <2>2, MarginAssumption, ZenonT(30) DEF Mix
    <2>4. PICK b \in Mix(heldBalance), p \in Mix(heldPrice) : AddsUp(b, p, i - 1)
      BY <2>0 DEF MixInv
    <2>5. CASE balance[i] # 0
      <3>1. pc' = "price" /\ i' = i
        BY <1>5, <2>5 DEF BalanceOf
      <3>2. AddsUp(b, p, i - 1)'
        BY <2>1, <2>4, <3>1 DEF AddsUp
      <3> QED BY <1>0, <2>1, <2>2, <2>3, <2>5, <3>1, <3>2 DEF MixInv, ReportIsAMix
    <2>6. CASE balance[i] = 0
      <3>1. pc' = "balance" /\ i' = i + 1 /\ i' - 1 = i
        BY <1>5, <2>0, <2>6 DEF BalanceOf
      <3>2. p[i] \in heldPrice[i] /\ p[i] \in Int
        BY <1>0, <2>0, MixTypes, ZenonT(60) DEF Mix
      <3>3. 0 \in heldBalance[i]
        BY <2>3, <2>6
      <3>4. PICK b2 \in Mix(heldBalance), p2 \in Mix(heldPrice) :
              /\ b2[i] = 0 /\ p2[i] = p[i]
              /\ \A a \in 1..(i - 1) : b2[a] = b[a] /\ p2[a] = p[a]
              /\ Sum(Values(b2, p2))[i] = Sum(Values(b, p))[i - 1] + Value(i, 0, p[i])
              /\ Sum(Weights(b2, p2))[i] = Sum(Weights(b, p))[i - 1] + Weighted(i, 0, p[i])
        <4>1. Extended(heldBalance, heldPrice, b, p, i, 0, p[i])
          BY <1>0, <2>0, <3>2, <3>3, MixStep
        <4> QED BY <4>1 DEF Extended
      <3>5. Value(i, 0, p[i]) = 0 /\ Weighted(i, 0, p[i]) = 0
        <4>1. Tokens(Decimals[i]) \in Int /\ Factor[i] \in Int
          BY <2>0, MarginAssumption DEF Tokens
        <4>2. 0 * p[i] = 0
          BY <3>2
        <4>3. 0 * Tokens(Decimals[i]) = 0 /\ 0 * Factor[i] = 0 /\ 0 * 100 = 0
          BY <4>1
        <4> QED BY <4>2, <4>3 DEF Value, Weighted
      <3>6. AddsUp(b2, p2, i - 1)'
        <4>1. gross \in Int /\ weighted \in Int
          BY DEF MInv
        <4>2. gross = Sum(Values(b2, p2))[i] /\ weighted = Sum(Weights(b2, p2))[i]
          BY <2>4, <3>4, <3>5, <4>1 DEF AddsUp
        <4>3. \A a \in 1..i : b2[a] > 0 => p2[a] > 0
          <5>1. \A a \in 1..i : a = i \/ a \in 1..(i - 1)
            BY <2>0
          <5> QED BY <2>4, <3>4, <5>1 DEF AddsUp
        <4> QED BY <2>1, <3>1, <4>2, <4>3 DEF AddsUp
      <3> QED BY <1>0, <2>1, <2>2, <3>1, <3>6 DEF MixInv, ReportIsAMix
    <2> QED BY <2>5, <2>6
  <1>6. CASE Price \/ BadPrice
    <2>a. pc = "price"
      BY <1>6 DEF Price, BadPrice
    <2>0. /\ i \in Asset /\ i \in 1..N /\ bal \in heldBalance[i] /\ bal > 0
          /\ balance \in Mix(heldBalance) /\ price \in Mix(heldPrice)
      BY <1>0, <2>a DEF MInv, MixInv, Asset
    <2>1. price[i] \in heldPrice[i] /\ price[i] \in Int /\ bal \in Nat
      BY <1>0, <2>0, MarginAssumption DEF Mix, MInv
    <2>2. PICK b \in Mix(heldBalance), p \in Mix(heldPrice) : AddsUp(b, p, i - 1)
      BY <2>a DEF MixInv
    <2>3. PICK b2 \in Mix(heldBalance), p2 \in Mix(heldPrice) :
            /\ b2[i] = bal /\ p2[i] = price[i]
            /\ \A a \in 1..(i - 1) : b2[a] = b[a] /\ p2[a] = p[a]
            /\ Sum(Values(b2, p2))[i] = Sum(Values(b, p))[i - 1] + Value(i, bal, price[i])
            /\ Sum(Weights(b2, p2))[i] = Sum(Weights(b, p))[i - 1] + Weighted(i, bal, price[i])
      <3>1. i \in Asset /\ bal \in heldBalance[i] /\ price[i] \in heldPrice[i]
        BY <2>0, <2>1
      <3>2. /\ heldBalance \in [Asset -> SUBSET Balances]
            /\ heldPrice \in [Asset -> SUBSET Prices]
        BY <1>0
      <3>3. Extended(heldBalance, heldPrice, b, p, i, bal, price[i])
        BY <2>2, <3>1, <3>2, MixStep
      <3> QED BY <3>3 DEF Extended
    <2>4. CASE Price
      <3>1. /\ gross' = gross + Value(i, bal, price[i])
            /\ weighted' = weighted + Weighted(i, bal, price[i])
            /\ i' = i + 1 /\ i' - 1 = i /\ pc' = "balance" /\ price[i] > 0
            /\ UNCHANGED <<balance, price, heldBalance, heldPrice>>
        BY <2>0, <2>4 DEF Price, chain
      <3>2. gross' = Sum(Values(b2, p2))[i] /\ weighted' = Sum(Weights(b2, p2))[i]
        BY <2>2, <2>3, <3>1 DEF AddsUp
      <3>3. \A a \in 1..i : b2[a] > 0 => p2[a] > 0
        <4>1. \A a \in 1..i : a = i \/ a \in 1..(i - 1)
          BY <2>0
        <4> QED BY <2>2, <2>3, <3>1, <4>1 DEF AddsUp
      <3>4. AddsUp(b2, p2, i - 1)'
        BY <3>1, <3>2, <3>3 DEF AddsUp
      <3> QED BY <1>0, <2>0, <3>1, <3>4 DEF MixInv, ReportIsAMix
    <2>5. CASE BadPrice
      <3>1. /\ pc' = "answered" /\ report'.code = 502 /\ price[i] <= 0
            /\ UNCHANGED <<balance, price, heldBalance, heldPrice>>
        BY <2>5 DEF BadPrice, Answer, chain
      <3>2. \E a \in Asset : b2[a] > 0 /\ p2[a] <= 0
        BY <2>0, <2>3, <3>1
      <3> QED BY <1>0, <2>0, <3>1, <3>2 DEF MixInv, ReportIsAMix
    <2> QED BY <1>6, <2>4, <2>5
  <1>7. CASE CallFails
    <2>1. /\ pc' = "answered" /\ report'.code = 502 /\ failed' /\ pc # "idle"
          /\ UNCHANGED <<balance, price, heldBalance, heldPrice>>
      BY <1>7 DEF CallFails, Answer, chain
    <2>2. balance \in Mix(heldBalance) /\ price \in Mix(heldPrice)
      BY <2>1 DEF MixInv
    <2> QED BY <1>0, <2>1, <2>2 DEF MixInv, ReportIsAMix
  <1>8. CASE Finish
    <2>1. /\ pc = "balance" /\ pc' = "answered" /\ report'.code = 200
          /\ UNCHANGED <<balance, price, gross, weighted, heldBalance, heldPrice>>
      BY <1>8 DEF Finish, Answer, chain
    <2>2. i - 1 = N
      BY <1>0, <1>8 DEF Finish, MInv
    <2>3. PICK b \in Mix(heldBalance), p \in Mix(heldPrice) : AddsUp(b, p, N)
      BY <2>1, <2>2 DEF MixInv
    <2>4. AddsUp(b, p, N)'
      BY <2>1, <2>3 DEF AddsUp
    <2>5. balance \in Mix(heldBalance) /\ price \in Mix(heldPrice)
      BY <2>1 DEF MixInv
    <2> QED BY <1>0, <2>1, <2>4, <2>5 DEF MixInv, ReportIsAMix
  <1>9. CASE Done
    BY <1>0, <1>9 DEF Done, chain, MixInv, ReportIsAMix
  <1> QED BY <1>1, <1>2, <1>3, <1>4, <1>5, <1>6, <1>7, <1>8, <1>9 DEF Next, Step

LEMMA MixInit == Init => MixInv
  BY DEF Init, MixInv, ReportIsAMix

(* EvaluationInv holds throughout Evaluate, for any number of assets and   *)
(* however often balances and prices move.                                 *)
THEOREM EvaluationInvariant == Spec => []EvaluationInv
  <1>1. Init => EvaluationInv
    BY MarginInit, MixInit DEF EvaluationInv
  <1>2. EvaluationInv /\ [Next]_vars => EvaluationInv'
    BY MarginStep, MixNext DEF EvaluationInv
  <1> QED BY <1>1, <1>2, PTL DEF Spec

(* Every report adds up balances and prices the account and the feeds had  *)
(* while it was computed, each asset's own and once, and an error without  *)
(* a failed call means a held asset without a positive price.              *)
THEOREM ReportsAreMixes == Spec => []ReportIsAMix
  <1>1. EvaluationInv => ReportIsAMix
    BY DEF EvaluationInv, MixInv
  <1> QED BY <1>1, EvaluationInvariant, PTL

(* The shown health factor never lies on the other side of a threshold     *)
(* than the status: at worst it shows the threshold itself.                *)
THEOREM ShownAlwaysAgrees == Spec => []ShownAgreesWithStatus
  <1>1. EvaluationInv => ShownAgreesWithStatus
    BY ShownAgrees DEF EvaluationInv
  <1> QED BY <1>1, EvaluationInvariant, PTL

=============================================================================

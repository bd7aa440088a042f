------------------------------- MODULE Margin -------------------------------
(***************************************************************************)
(* margin.Engine.Evaluate behind marginHandler.  An evaluation reads one   *)
(* balance and one price after the other, each from the latest block, so   *)
(* the account's balances and the feeds can move between any two reads.    *)
(*                                                                         *)
(* big.Rat is exact, and so is the model: a USD amount is an integer over  *)
(* the common denominator 100 * Tokens(0), with factors in percent.  Feed  *)
(* decimals are the same for every feed and cancel.                        *)
(***************************************************************************)
EXTENDS Integers

CONSTANTS
    N,              \* number of configured assets; asset i is Config.Assets[i-1]
    Decimals,       \* token decimals of each asset
    Factor,         \* collateral factor of each asset, in percent
    MaxDecimals,
    Scale,          \* 10^4: the digits the health factor is shown with
    Balances, Prices, Debts,    \* bounds: the amounts that occur
    MaxMoves        \* bound: moves of a balance or price during the run

Asset == 1..N

ASSUME MarginAssumption ==
    /\ N \in Nat
    /\ Decimals \in [Asset -> 0..MaxDecimals] /\ MaxDecimals \in Nat
    /\ Factor \in [Asset -> 0..100]
    /\ Scale \in Nat \ {0} /\ Scale % 20 = 0
    /\ \A d \in 0..MaxDecimals : 10^(MaxDecimals - d) \in Nat \ {0}
    /\ Balances \subseteq Nat /\ Prices \subseteq Int /\ Debts \subseteq Int

VARIABLES
    balance,    \* on chain: what the account holds of each asset
    price,      \* on chain: the answer of each feed
    moves,
    pc, i, bal, \* the evaluation: place, asset, balance just read
    debt, gross, weighted,
    report,     \* shown health factor and status, or the error
    heldBalance, heldPrice, \* values of each since the evaluation began
    failed      \* whether a call of this evaluation failed

chain == <<balance, price, moves>>
vars == <<chain, pc, i, bal, debt, gross, weighted, report, heldBalance,
          heldPrice, failed>>

(* pow10(decimals), as the factor that brings all tokens to one scale.     *)
Tokens(d) == 10^(MaxDecimals - d)

(* value and w of Evaluate.                                                *)
Value(a, b, p) == b * p * Tokens(Decimals[a]) * 100
Weighted(a, b, p) == b * p * Tokens(Decimals[a]) * Factor[a]

(* A debt in the same denominator.                                         *)
Owed(d) == d * 100 * Tokens(0)

(* hf.FloatString(4): rounded half up, hf being nonnegative.               *)
Shown(w, d) == (2 * (w * Scale) + d) \div (2 * d)

(* Engine.status with LiquidationHF = 1 and MarginCallHF = 115/100.        *)
Status(w, d) ==
    IF w < d THEN "liquidatable"
    ELSE IF 100 * w < 115 * d THEN "margin_call"
    ELSE "healthy"

NoReport == [hf |-> -1, status |-> "none", code |-> 0]
Report == [hf : Int, status : {"none", "healthy", "margin_call", "liquidatable"},
           code : {0, 200, 502}]

Init ==
    /\ balance \in [Asset -> Balances]
    /\ price \in [Asset -> Prices]
    /\ moves = 0
    /\ pc = "idle"
    /\ i = 1 /\ bal = 0
    /\ debt = 0 /\ gross = 0 /\ weighted = 0
    /\ report = NoReport
    /\ heldBalance = [a \in Asset |-> {}]
    /\ heldPrice = [a \in Asset |-> {}]
    /\ failed = FALSE

-----------------------------------------------------------------------------
(* The chain                                                               *)

Transfer(a, b) ==
    /\ moves < MaxMoves
    /\ moves' = moves + 1
    /\ balance' = [balance EXCEPT ![a] = b]
    /\ heldBalance' = [heldBalance EXCEPT ![a] = @ \cup {b}]
    /\ UNCHANGED <<price, pc, i, bal, debt, gross, weighted, report, heldPrice, failed>>

NewRound(a, p) ==
    /\ moves < MaxMoves
    /\ moves' = moves + 1
    /\ price' = [price EXCEPT ![a] = p]
    /\ heldPrice' = [heldPrice EXCEPT ![a] = @ \cup {p}]
    /\ UNCHANGED <<balance, pc, i, bal, debt, gross, weighted, report, heldBalance, failed>>

-----------------------------------------------------------------------------
(* marginHandler and Evaluate                                              *)

(* A request with a valid address and debt (the others are answered 400).  *)
Evaluate(d) ==
    /\ pc = "idle"
    /\ pc' = "balance"
    /\ i' = 1 /\ bal' = 0
    /\ debt' = d /\ gross' = 0 /\ weighted' = 0
    /\ report' = NoReport
    /\ heldBalance' = [a \in Asset |-> {balance[a]}]
    /\ heldPrice' = [a \in Asset |-> {price[a]}]
    /\ failed' = FALSE
    /\ UNCHANGED chain

(* Mutant: the next asset is read with the last asset's balance.           *)
BalanceOf_Stale ==
    /\ pc = "balance" /\ i <= N
    /\ bal' = IF bal = 0 THEN balance[i] ELSE bal
    /\ IF bal' = 0 THEN i' = i + 1 /\ UNCHANGED pc ELSE pc' = "price" /\ UNCHANGED i
    /\ UNCHANGED <<chain, debt, gross, weighted, report, heldBalance, heldPrice, failed>>

(* BalanceOf; an asset that is not held is skipped and never priced.       *)
BalanceOf ==
    /\ pc = "balance" /\ i <= N
    /\ bal' = balance[i]
    /\ IF balance[i] = 0 THEN i' = i + 1 /\ UNCHANGED pc ELSE pc' = "price" /\ UNCHANGED i
    /\ UNCHANGED <<chain, debt, gross, weighted, report, heldBalance, heldPrice, failed>>

(* Price of a feed that answers with a positive price, and the sums.       *)
Price ==
    /\ pc = "price" /\ price[i] > 0
    /\ gross' = gross + Value(i, bal, price[i])
    /\ weighted' = weighted + Weighted(i, bal, price[i])
    /\ i' = i + 1
    /\ pc' = "balance"
    /\ UNCHANGED <<chain, bal, debt, report, heldBalance, heldPrice, failed>>

Answer(hf, status, code) ==
    /\ report' = [hf |-> hf, status |-> status, code |-> code]
    /\ pc' = "answered"
    /\ UNCHANGED <<chain, i, bal, debt, gross, weighted, heldBalance, heldPrice>>

(* A non-positive price, or a call that fails, ends the evaluation.        *)
BadPrice ==
    /\ pc = "price" /\ price[i] <= 0
    /\ Answer(-1, "none", 502)
    /\ UNCHANGED failed

CallFails ==
    /\ pc \in {"balance", "price"} /\ i <= N
    /\ failed' = TRUE
    /\ Answer(-1, "none", 502)

(* Mutant: the health factor shown is computed without the haircuts.       *)
Finish_Gross ==
    /\ pc = "balance" /\ i > N
    /\ IF debt <= 0
       THEN Answer(-1, "healthy", 200)
       ELSE Answer(Shown(gross, Owed(debt)), Status(weighted, Owed(debt)), 200)
    /\ UNCHANGED failed

(* The end of Evaluate: hf -1 stands for "n/a".                            *)
Finish ==
    /\ pc = "balance" /\ i > N
    /\ IF debt <= 0
       THEN Answer(-1, "healthy", 200)
       ELSE Answer(Shown(weighted, Owed(debt)), Status(weighted, Owed(debt)), 200)
    /\ UNCHANGED failed

Done ==
    /\ pc = "answered"
    /\ pc' = "idle"
    /\ UNCHANGED <<chain, i, bal, debt, gross, weighted, report, heldBalance,
                   heldPrice, failed>>

Step == BalanceOf \/ Price \/ BadPrice \/ CallFails \/ Finish

Next ==
    \/ \E a \in Asset : \/ \E b \in Balances : Transfer(a, b)
                        \/ \E p \in Prices : NewRound(a, p)
    \/ \E d \in Debts : Evaluate(d)
    \/ Step \/ Done

Spec == Init /\ [][Next]_vars

-----------------------------------------------------------------------------

(* What the invariants below rest on: the amounts are what they should be, *)
(* and a report with a health factor was computed from the sums.           *)
MInv ==
    /\ balance \in [Asset -> Balances] /\ price \in [Asset -> Prices]
    /\ pc \in {"idle", "balance", "price", "answered"}
    /\ i \in 1..(N + 1) /\ (pc = "price" => i <= N)
    /\ bal \in Nat /\ debt \in Int /\ gross \in Nat /\ weighted \in Nat
    /\ report \in Report
    /\ pc \in {"balance", "price"} => report.code = 0
    /\ report.code = 200 /\ debt > 0 =>
        /\ report.hf = Shown(weighted, Owed(debt))
        /\ report.status = Status(weighted, Owed(debt))

(* What the account or the feeds had of each asset at some moment.         *)
Mix(held) ==
    {f \in [Asset -> UNION {held[a] : a \in Asset}] : \A a \in Asset : f[a] \in held[a]}

(* The sums of a function's values over the first assets.                  *)
Sum(f) == LET sum[n \in 0..N] == IF n = 0 THEN 0 ELSE sum[n - 1] + f[n] IN sum

Values(b, p) == [a \in Asset |-> Value(a, b[a], p[a])]
Weights(b, p) == [a \in Asset |-> Weighted(a, b[a], p[a])]

(* The first n assets, valued with balances b and prices p.                *)
AddsUp(b, p, n) ==
    /\ gross = Sum(Values(b, p))[n]
    /\ weighted = Sum(Weights(b, p))[n]
    /\ \A a \in 1..n : b[a] > 0 => p[a] > 0

(* A report adds up a mix of balances and prices that the account and the  *)
(* feeds really had while it was computed: if nothing moved, the exact     *)
(* valuation, and otherwise never an amount read for another asset or      *)
(* twice.  Without a failed call, an error means a held asset whose feed   *)
(* had no positive price (Evaluate, Price).                                *)
ReportIsAMix ==
    pc = "answered" =>
        \E b \in Mix(heldBalance), p \in Mix(heldPrice) :
            /\ report.code = 200 => AddsUp(b, p, N)
            /\ report.code = 502 =>
                failed \/ \E a \in Asset : b[a] > 0 /\ p[a] <= 0

(* What makes it inductive: the sums so far add up such a mix, and the     *)
(* balance just read is one the account had.                               *)
MixInv ==
    /\ heldBalance \in [Asset -> SUBSET Balances]
    /\ heldPrice \in [Asset -> SUBSET Prices]
    /\ pc # "idle" => balance \in Mix(heldBalance) /\ price \in Mix(heldPrice)
    /\ pc = "price" => bal > 0 /\ bal \in heldBalance[i]
    /\ pc \in {"balance", "price"} =>
        \E b \in Mix(heldBalance), p \in Mix(heldPrice) : AddsUp(b, p, i - 1)
    /\ pc = "answered" => report.code \in {200, 502}
    /\ ReportIsAMix

(* Both at every step of Evaluate: exact sums, and sums of the right       *)
(* values.                                                                 *)
EvaluationInv == MInv /\ MixInv

(* The rounded health factor never lies on the other side of a threshold   *)
(* than the status, which uses the exact one: at worst it shows the        *)
(* threshold itself (FloatString, status).                                 *)
ShownAgreesWithStatus ==
    report.code = 200 /\ debt > 0 =>
        /\ report.status = "liquidatable" => report.hf <= Scale
        /\ report.status = "margin_call" =>
            Scale <= report.hf /\ 100 * report.hf <= 115 * Scale
        /\ report.status = "healthy" => 115 * Scale <= 100 * report.hf

=============================================================================

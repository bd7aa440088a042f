SPECIFICATION Spec
CONSTANTS
    N = 2
    Decimals <- MCDecimals
    Factor <- MCFactor
    MaxDecimals = 1
    Scale = 20
    Balances = {0, 1, 5}
    Prices = {0, 1, 2}
    Debts <- MCDebts
    MaxMoves = 2
INVARIANTS EvaluationInv ReportIsAMix ShownAgreesWithStatus

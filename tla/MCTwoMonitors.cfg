SPECIFICATION Spec
CONSTANTS
    Hash <- MCHash
    NoHash = NoHash
    Genesis = "g"
    Parent <- MCParent
    Log = {x}
    LogsOf <- MCLogsOf
    Transfer = {x}
    FinalityDepth = 2
    Confirmations = 2
    StartBlocks = {0}
    MaxHeight = 2
    MaxReorgs = 1
    MaxFaults = 0
CHECK_DEADLOCK FALSE
INVARIANTS LinkedDuringUpdate

SPECIFICATION Spec
CONSTANTS
    Hash <- MCHash
    NoHash = NoHash
    Genesis = "g"
    Parent <- MCParent
    Log <- MCLog
    LogsOf <- MCLogsOf
    Transfer <- MCTransfer
    FinalityDepth = 2
    Confirmations = 1
    StartBlocks = {0}
    MaxHeight = 4
    MaxReorgs = 2
    MaxFaults = 0
PROPERTIES
    ConfirmedKept

SPECIFICATION FairSpec
CONSTANTS
    Hash <- MCFork
    NoHash = NoHash
    Genesis = "g"
    Parent <- MCForkParent
    Log <- MCLog
    LogsOf <- MCForkLogsOf
    Transfer <- MCTransfer
    FinalityDepth = 2
    Confirmations = 2
    StartBlocks <- MCUnset
    MaxHeight = 3
    MaxReorgs = 2
    MaxFaults = 1
PROPERTIES
    Converges
INVARIANTS
    IndexLinked

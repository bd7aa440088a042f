SPECIFICATION Spec
CONSTANTS
    Hash <- MCHash
    NoHash = NoHash
    Genesis = "g"
    Parent <- MCParent
    Log <- MCLog
    LogsOf <- MCLogsOf
    Transfer <- MCTransfer
    FinalityDepth = 2
    Confirmations = 2
    StartBlocks = {0}
    MaxHeight = 4
    MaxReorgs = 2
    MaxFaults = 1
INVARIANTS
    IInv
    IndexLinked
    ConfirmedCanonical
    ConfirmedAnnouncements
    SubscriberMirrorsIndex
PROPERTIES
    ConfirmedKept
    ImplementsIndex

SPECIFICATION FairSpec
CONSTANTS
    Account = {a1}
    ChainEvent = {x1, x2}
    MaxPending = 1
    MaxRestarts = 1
CHECK_DEADLOCK FALSE
INVARIANTS WInv NoticeInv ListIsCurrent NoticesAreFaithful AnsweredIsAnnounced
PROPERTIES NoticesArrive ShutdownEnds

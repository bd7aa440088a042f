SPECIFICATION FairSpec
CONSTANTS
    Request = {r1, r2}
    Peer <- MCPeer
    Client = {"admin-client", "user-client"}
    Role <- MCRole
    Second = 2
    Expiry = 2
    Unit = 2
    Rate = 1
    Burst = 2
    MaxTime = 2
    MaxTokens = 1
    NoRequest = NoRequest
    NoToken = NoToken
    Claimed = {"admin"}
CHECK_DEADLOCK FALSE
INVARIANTS GInv LimitInv ServedIsAuthorised TokenLivesOut HostIsLimited DenialIsOwn LogTellsAnswer
PROPERTY RequestsAnswered

CONSTANTS
    Conn <- MCConn
    CredOf <- MCCredOf
    EgressOf <- MCEgressOf
    Registries <- MCRegistries
    MaxOverlap = 1
    MaxPerEgress = 2
    MaxHandshakes = 2
    MaxNow = 2
    MaxActive = 3
    MaxOps = 2
SPECIFICATION FairSpec
INVARIANTS OpenSessionsAuthorized NoRollback
PROPERTY RevokedSessionsClose
CHECK_DEADLOCK FALSE

\* The context may end at any point, or never.
CONSTANTS
    MaxAttempts = 2
    Given <- MCGiven
    Peers <- MCPeers
SPECIFICATION FairSpec
INVARIANTS
    TypeOK
    FirstResultWins
    FailureReported
    ReadyMeansVerified
PROPERTIES
    SignalEndsDial
    ContextEndsDial

\* A call whose deadline may strike at any point, or never.
CONSTANTS
    MaxRequests = 3
    MaxResponses = 2
    Window = 2
    HasDeadline = TRUE
SPECIFICATION FairSpec
INVARIANTS
    TypeOK
    RequestsIntact
    NoSelfDeadlock
    ResponsesComplete
PROPERTIES
    QuietAfterReturn
    EventProtocol
    EndLeadsToReturn

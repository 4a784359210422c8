\* The three kinds of single-goroutine calls, with a deadline that may expire.
CONSTANTS
    MaxRequests = 3
    MaxResponses = 2
    Window = 1
    HasDeadline = TRUE
SPECIFICATION FairSpec
INVARIANTS
    TypeOK
    RequestsIntact
    ResponsesComplete
PROPERTIES
    EventProtocol
    EndLeadsToReturn

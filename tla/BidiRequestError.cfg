\* A request that cannot be parsed: what does the handler get to see?
CONSTANTS
    MaxRequests = 1
    MaxResponses = 1
    Window = 1
    HasDeadline = FALSE
SPECIFICATION Spec
INVARIANTS
    OwnCancelNotReported

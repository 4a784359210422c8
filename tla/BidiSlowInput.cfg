\* The deadline expires while the supplier waits for standard input.
CONSTANTS
    MaxRequests = 1
    MaxResponses = 1
    Window = 1
    HasDeadline = TRUE
SPECIFICATION SlowInputSpec
PROPERTIES
    DeadlineEndsCall

\* Every command line, every failure, every outcome of the call.
CONSTANTS
    Statuses <- MCStatuses
    MaxResponses = 1
SPECIFICATION Spec
INVARIANTS
    TypeOK
    StatusDecidesExit
    CleanShutdown
    OutputsWritten

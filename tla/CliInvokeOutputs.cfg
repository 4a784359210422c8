\* -protoset-out and -proto-out-dir when an RPC is invoked.
CONSTANTS
    Statuses <- MCStatuses
    MaxResponses = 1
SPECIFICATION Spec
INVARIANT
    OutputsWrittenByInvoke

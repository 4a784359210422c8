--------------------------- MODULE InvocationEvents ---------------------------
(***************************************************************************)
(* What InvokeRPC promises to its InvocationEventHandler, whatever the     *)
(* kind of method: the callbacks come in the order the interface lists     *)
(* them, the final status is reported at most once and last, and a call    *)
(* that reports a status does not also return an error.                    *)
(***************************************************************************)
EXTENDS Naturals

CONSTANT Statuses      \* the gRPC statuses a call can end with

VARIABLES
    callback,          \* the last callback that was invoked
    numResponses,      \* responses handed to OnReceiveResponse
    status,            \* DefaultEventHandler.Status, or "unset"
    result             \* what InvokeRPC returned, or "running"

vars == <<callback, numResponses, status, result>>

Callbacks == {"none", "OnResolveMethod", "OnSendHeaders", "OnReceiveHeaders",
              "OnReceiveResponse", "OnReceiveTrailers"}

TypeOK ==
    /\ callback \in Callbacks
    /\ numResponses \in Nat
    /\ status \in Statuses \cup {"unset"}
    /\ result \in {"running", "nil", "error"}

Init ==
    /\ callback = "none"
    /\ numResponses = 0
    /\ status = "unset"
    /\ result = "running"

\* A callback that carries no message, invoked after one of "earlier".
Invoke(earlier, cb) ==
    /\ result = "running"
    /\ callback \in earlier
    /\ callback' = cb
    /\ UNCHANGED <<numResponses, status, result>>

ResolveMethod  == Invoke({"none"}, "OnResolveMethod")
SendHeaders    == Invoke({"OnResolveMethod"}, "OnSendHeaders")
ReceiveHeaders == Invoke({"OnSendHeaders"}, "OnReceiveHeaders")

\* Calls that have been sent and whose final status is still awaited.
InFlight == {"OnSendHeaders", "OnReceiveHeaders", "OnReceiveResponse"}

\* The response headers are skipped when Header() reports an error.
ReceiveResponse ==
    /\ result = "running"
    /\ callback \in InFlight
    /\ callback' = "OnReceiveResponse"
    /\ numResponses' = numResponses + 1
    /\ UNCHANGED <<status, result>>

ReceiveTrailers ==
    /\ result = "running"
    /\ callback \in InFlight
    /\ callback' = "OnReceiveTrailers"
    /\ status' \in Statuses
    /\ UNCHANGED <<numResponses, result>>

\* Nil comes after the final status, or (an RPC whose stream could not be
\* created) with no callback at all after OnSendHeaders.
ReturnNil ==
    /\ result = "running"
    /\ callback \in {"OnReceiveTrailers", "OnSendHeaders"}
    /\ result' = "nil"
    /\ UNCHANGED <<callback, numResponses, status>>

ReturnError ==
    /\ result = "running"
    /\ callback # "OnReceiveTrailers"
    /\ result' = "error"
    /\ UNCHANGED <<callback, numResponses, status>>

Next ==
    \/ ResolveMethod
    \/ SendHeaders
    \/ ReceiveHeaders
    \/ ReceiveResponse
    \/ ReceiveTrailers
    \/ ReturnNil
    \/ ReturnError

Spec == Init /\ [][Next]_vars
===============================================================================

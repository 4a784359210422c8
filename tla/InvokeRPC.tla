------------------------------ MODULE InvokeRPC ------------------------------
(***************************************************************************)
(* The part of InvokeRPC (invoke.go) that is common to the four kinds of   *)
(* methods: resolving the method and its extensions, the request message   *)
(* and its supplier, the callbacks and the return.  InvokeBidi and         *)
(* InvokeCalls add what each kind of method does with the stream.          *)
(***************************************************************************)
EXTENDS GrpcStream

VARIABLES
    pc,             \* where the goroutine that called InvokeRPC is
    err,            \* its variable err
    str,            \* is its stream variable non-nil?
    req,            \* the messages merged into the request object req
    supplied,       \* messages the request supplier has yielded
    callback,       \* the last callback of the event handler
    numResponses,   \* calls of OnReceiveResponse
    status,         \* DefaultEventHandler.Status, "unset" before trailers
    result          \* "running", or whether InvokeRPC returned nil or an error

eventVars == <<callback, numResponses, status>>
supplyVars == <<req, supplied>>
callVars == <<pc, err, str, req, supplied, callback, numResponses, status, result>>

EventTypeOK ==
    /\ err \in Errors
    /\ str \in BOOLEAN
    /\ req \in SUBSET Nat
    /\ supplied \in Nat
    /\ callback \in {"none", "OnResolveMethod", "OnSendHeaders",
                     "OnReceiveHeaders", "OnReceiveResponse",
                     "OnReceiveTrailers"}
    /\ numResponses \in Nat
    /\ status \in Statuses \cup {"unset"}
    /\ result \in {"running", "nil", "error"}

CallInit ==
    /\ StreamInit
    /\ pc = "resolve"
    /\ err = "nil"
    /\ str = FALSE
    /\ req = {}
    /\ supplied = 0
    /\ callback = "none"
    /\ numResponses = 0
    /\ status = "unset"
    /\ result = "running"
-------------------------------------------------------------------------------
(* Callbacks, the request supplier and the return. *)

Notify(cb) == callback' = cb /\ UNCHANGED <<numResponses, status>>

OnReceiveResponse ==
    /\ callback' = "OnReceiveResponse"
    /\ numResponses' = numResponses + 1
    /\ UNCHANGED status

OnReceiveTrailers(s) ==
    /\ callback' = "OnReceiveTrailers"
    /\ status' = s
    /\ UNCHANGED numResponses

\* requestData(req) returns nil: message number supplied+1 is put in req.
SupplyMessage ==
    /\ supplied < MaxRequests
    /\ supplied' = supplied + 1
    /\ req' = req \cup {supplied + 1}

\* req.Reset() after a message was sent.  Mutant: the reset is forgotten.
KeepRequest == UNCHANGED req
ResetRequest == req' = {}

\* requestData(req) fails to read or to parse: req may be partly filled.
SupplyBad ==
    /\ req' \in {req, req \cup {supplied + 1}}
    /\ UNCHANGED supplied

\* The receive loops turn RecvMsg's io.EOF into nil.  Mutant: any error.
NoErrorAtEnd(e) == "nil"
ErrorAtEnd(e) == IF e = "EOF" THEN "nil" ELSE e

\* The deferred cancel runs when InvokeRPC returns.
Return(r) ==
    /\ pc' = "returned"
    /\ result' = r
    /\ Cancel
-------------------------------------------------------------------------------
(* From the start of InvokeRPC to OnSendHeaders. *)

\* The name does not parse, the service or the method is not found.
ResolveFails ==
    /\ pc = "resolve"
    /\ pc' = "returned"
    /\ result' = "error"
    /\ UNCHANGED <<streamVars, supplyVars, eventVars, err, str>>

ResolveMethod ==
    /\ pc = "resolve"
    /\ Notify("OnResolveMethod")
    /\ pc' = "extensions"
    /\ UNCHANGED <<streamVars, supplyVars, err, str, result>>

\* The reflection service fails while the extensions are fetched.
ExtensionsFail ==
    /\ pc = "extensions"
    /\ pc' = "returned"
    /\ result' = "error"
    /\ UNCHANGED <<streamVars, supplyVars, eventVars, err, str>>

\* The extensions are known: report the request headers, go on at "next".
SendHeaders(next) ==
    /\ pc = "extensions"
    /\ Notify("OnSendHeaders")
    /\ pc' = next
    /\ UNCHANGED <<streamVars, supplyVars, err, str, result>>
===============================================================================

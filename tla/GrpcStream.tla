------------------------------ MODULE GrpcStream ------------------------------
(***************************************************************************)
(* The gRPC client stream that invoke.go drives through grpcdynamic: the   *)
(* context of the call, the requests on the wire, the responses that have  *)
(* arrived, and how the stream ended.  The library and the server are not  *)
(* part of this repository; they are modelled from how invoke.go uses      *)
(* them, with a server that may do anything a gRPC server may do.          *)
(***************************************************************************)
EXTENDS Naturals, Sequences

CONSTANTS
    MaxRequests,    \* bound on the messages the request supplier yields
    MaxResponses,   \* bound on the responses the server sends
    Window,         \* requests in flight before SendMsg blocks (flow control)
    HasDeadline     \* is the context one with a timeout (-max-time)?

ASSUME StreamAssumption ==
    /\ MaxRequests \in Nat
    /\ MaxResponses \in Nat
    /\ Window \in Nat \ {0}
    /\ HasDeadline \in BOOLEAN

VARIABLES
    ctx,            \* "live", or why the context of the call is done
    wire,           \* every request SendMsg has accepted, in order
    read,           \* how many of them the server has read
    halfClosed,     \* CloseSend has been called
    headers,        \* the response headers have arrived
    produced,       \* responses the server has sent
    inbox,          \* responses that arrived and were not yet received
    end             \* "none", "open", or the status the stream ended with

serverVars == <<read, headers, produced>>      \* changed by the server alone
dataVars == <<wire, halfClosed, inbox, end, serverVars>>
streamVars == <<ctx, dataVars>>

\* The statuses a stream can end with.  "Failed" stands for any error the
\* server sends, "Internal" for any the client library raises on a message.
EndStatuses == {"OK", "Failed", "Canceled", "DeadlineExceeded", "Internal"}

\* What status.FromError finds in an error; "nil" is the OK status.
Statuses == EndStatuses \cup {"Unavailable"}
StatusErrors == Statuses \ {"OK"}
OtherErrors == {"EOF", "RequestData"}
Errors == {"nil"} \cup StatusErrors \cup OtherErrors
IsStatus(e) == e \in {"nil"} \cup StatusErrors

\* Mutant: the error itself is taken for a status.
CodeOfIsError(e) == e
CodeOf(e) == IF e = "nil" THEN "OK" ELSE e

Ended == end \in EndStatuses

StreamTypeOK ==
    /\ ctx \in {"live", "Canceled", "DeadlineExceeded"}
    /\ wire \in Seq(SUBSET Nat)
    /\ read \in Nat
    /\ halfClosed \in BOOLEAN
    /\ headers \in BOOLEAN
    /\ produced \in Nat
    /\ inbox \in Nat
    /\ end \in {"none", "open"} \cup EndStatuses

StreamInit ==
    /\ ctx = "live"
    /\ wire = <<>>
    /\ read = 0
    /\ halfClosed = FALSE
    /\ headers = FALSE
    /\ produced = 0
    /\ inbox = 0
    /\ end = "none"
-------------------------------------------------------------------------------
(* The server, as its effects reach the client, and the passage of time. *)

ServerSendHeaders ==
    /\ end = "open" /\ ~headers
    /\ headers' = TRUE
    /\ UNCHANGED <<ctx, wire, read, halfClosed, produced, inbox, end>>

ServerReadRequest ==
    /\ end = "open" /\ read < Len(wire)
    /\ read' = read + 1
    /\ UNCHANGED <<ctx, wire, halfClosed, headers, produced, inbox, end>>

ServerSendResponse ==
    /\ end = "open" /\ produced < MaxResponses
    /\ headers' = TRUE
    /\ produced' = produced + 1
    /\ inbox' = inbox + 1
    /\ UNCHANGED <<ctx, wire, read, halfClosed, end>>

\* A server may end the call at any time, without having read the requests.
ServerFinish ==
    /\ end = "open"
    /\ end' \in {"OK", "Failed"}
    /\ UNCHANGED <<ctx, wire, serverVars, halfClosed, inbox>>

DeadlineExpires ==
    /\ HasDeadline /\ ctx = "live"
    /\ ctx' = "DeadlineExceeded"
    /\ UNCHANGED dataVars

\* The library notices that the context is done and tears the stream down.
ContextEndsStream ==
    /\ end = "open" /\ ctx # "live"
    /\ end' = ctx
    /\ UNCHANGED <<ctx, wire, serverVars, halfClosed, inbox>>

Environment ==
    \/ ServerSendHeaders
    \/ ServerReadRequest
    \/ ServerSendResponse
    \/ ServerFinish
    \/ DeadlineExpires
    \/ ContextEndsStream
-------------------------------------------------------------------------------
(* Operations of the client.  Each states its effect on the stream. *)

\* context.CancelFunc: the first cause wins.
Cancel == ctx' = IF ctx = "live" THEN "Canceled" ELSE ctx

OpenStream == end = "none" /\ end' = "open"

\* The error of a stream that could not be created.
CreateErrors == IF ctx = "live" THEN {"Unavailable", "Internal"} ELSE {ctx}

CanSend == end = "open" /\ Len(wire) - read < Window

\* SendMsg fails in the client (the message cannot be encoded): the library
\* finishes the stream with that error.
SendFails == end = "open" /\ end' = "Internal"

\* Header() has its answer once headers arrived or the stream ended.
HeaderReady == headers \/ Ended

TakeResponse ==
    /\ inbox > 0
    /\ inbox' = inbox - 1
    /\ UNCHANGED end

\* RecvMsg returns error r.  The server's final status comes after all its
\* responses; a status made in the client does not wait for them.  A response
\* that cannot be decoded or is too large finishes the stream.
RecvFails(r) ==
    \/ /\ r = "EOF" /\ end = "OK" /\ inbox = 0
       /\ UNCHANGED <<inbox, end>>
    \/ /\ r = end /\ end = "Failed" /\ inbox = 0
       /\ UNCHANGED <<inbox, end>>
    \/ /\ r = end /\ end \in {"Canceled", "DeadlineExceeded", "Internal"}
       /\ UNCHANGED <<inbox, end>>
    \/ /\ r = "Internal" /\ inbox > 0
       /\ inbox' = inbox - 1
       /\ end' = IF end = "open" THEN "Internal" ELSE end

\* The single response of a call that expects one, then its status.
CollectOne(r) ==
    IF r = "nil"
    THEN end = "OK" /\ inbox = 1 /\ inbox' = 0 /\ UNCHANGED end
    ELSE \/ RecvFails(r)
         \/ /\ r = end /\ end = "Failed" /\ inbox = 1
            /\ inbox' = 0 /\ UNCHANGED end
         \/ /\ r = "Internal" /\ inbox > 1
            /\ inbox' = inbox - 2
            /\ end' = IF end = "open" THEN "Internal" ELSE end
===============================================================================

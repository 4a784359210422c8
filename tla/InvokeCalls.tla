------------------------------ MODULE InvokeCalls ------------------------------
(***************************************************************************)
(* InvokeRPC of the methods that one goroutine can serve: invokeUnary,     *)
(* invokeClientStream and invokeServerStream (invoke.go).                  *)
(***************************************************************************)
EXTENDS InvokeRPC

VARIABLE kind       \* "unary", "clientStream" or "serverStream"

vars == <<streamVars, callVars, kind>>

TypeOK ==
    /\ StreamTypeOK
    /\ EventTypeOK
    /\ kind \in {"unary", "clientStream", "serverStream"}
    /\ pc \in {"resolve", "extensions", "first", "second", "create", "request",
               "next", "send", "collect", "recv", "status", "headers",
               "response", "trailers", "return", "returned"}

Init ==
    /\ CallInit
    /\ kind \in {"unary", "clientStream", "serverStream"}

Prologue ==
    /\ \/ ResolveFails
       \/ ResolveMethod
       \/ ExtensionsFail
       \/ SendHeaders(IF kind = "clientStream" THEN "create" ELSE "first")
    /\ UNCHANGED kind

\* An error that is not a gRPC status ends the call with an error.
Bail ==
    /\ Return("error")
    /\ UNCHANGED <<dataVars, err, str, supplyVars, eventVars, kind>>
-------------------------------------------------------------------------------
(* The single request of unary and server-streaming methods. *)

\* No request data at all is an empty request.
FirstRequest ==
    /\ pc = "first"
    /\ \/ SupplyMessage /\ pc' = "second"
       \/ UNCHANGED supplyVars /\ pc' = "create"
    /\ UNCHANGED <<streamVars, err, str, eventVars, result, kind>>

NoSecondRequest ==
    /\ pc = "second"
    /\ pc' = "create"
    /\ UNCHANGED <<streamVars, err, str, supplyVars, eventVars, result, kind>>

\* More than one message is a usage error.
SecondRequest ==
    /\ pc = "second"
    /\ SupplyMessage
    /\ Return("error")
    /\ UNCHANGED <<dataVars, err, str, eventVars, kind>>

\* requestData returns an error other than io.EOF.
RequestDataFails ==
    /\ pc \in {"first", "second", "next"}
    /\ SupplyBad
    /\ Return("error")
    /\ UNCHANGED <<dataVars, err, str, eventVars, kind>>
-------------------------------------------------------------------------------
(* Creating the stream. *)

\* The stubs of unary and server-streaming methods send the request next and
\* have no stream to return before that.
CreateStream ==
    /\ pc = "create"
    /\ OpenStream
    /\ str' = (kind = "clientStream")
    /\ pc' = IF kind = "clientStream" THEN "next" ELSE "request"
    /\ UNCHANGED <<ctx, wire, serverVars, halfClosed, inbox, err, supplyVars,
                   eventVars, result, kind>>

CreateStreamFails ==
    /\ pc = "create"
    /\ err' \in CreateErrors
    /\ pc' = "status"
    /\ UNCHANGED <<streamVars, str, supplyVars, eventVars, result, kind>>

\* The stub sends the only request and closes the sending side.  A stream that
\* has ended by then swallows the request: its status is received instead.
SendSingle ==
    /\ pc = "request"
    /\ \/ /\ CanSend
          /\ wire' = Append(wire, req)
          /\ UNCHANGED end
       \/ /\ Ended
          /\ UNCHANGED <<wire, end>>
    /\ halfClosed' = TRUE
    /\ str' = (kind = "serverStream")
    /\ pc' = IF kind = "serverStream" THEN "headers" ELSE "collect"
    /\ UNCHANGED <<ctx, serverVars, inbox, err, supplyVars, eventVars, result,
                   kind>>

SendSingleFails ==
    /\ pc = "request"
    /\ SendFails
    /\ err' = "Internal"
    /\ pc' = "status"
    /\ UNCHANGED <<ctx, wire, serverVars, halfClosed, inbox, str, supplyVars,
                   eventVars, result, kind>>
-------------------------------------------------------------------------------
(* The upload loop of invokeClientStream. *)

NextRequest ==
    /\ pc = "next"
    /\ SupplyMessage
    /\ pc' = "send"
    /\ UNCHANGED <<streamVars, err, str, eventVars, result, kind>>

\* io.EOF from the supplier: CloseAndReceive.
CloseAndReceive ==
    /\ halfClosed' = TRUE
    /\ pc' = "collect"

NoMoreRequests ==
    /\ pc = "next"
    /\ CloseAndReceive
    /\ UNCHANGED <<ctx, wire, serverVars, inbox, end, err, str, supplyVars,
                   eventVars, result, kind>>

SendRequest ==
    /\ pc = "send"
    /\ CanSend
    /\ wire' = Append(wire, req)
    /\ ResetRequest
    /\ pc' = "next"
    /\ UNCHANGED <<ctx, serverVars, halfClosed, inbox, end, err, str, supplied,
                   eventVars, result, kind>>

\* Mutant: io.EOF from SendMsg is an error to try again.
RetryOnGoAway ==
    /\ pc = "send"
    /\ Ended
    /\ UNCHANGED vars

\* io.EOF from SendMsg: the server ended the stream, CloseAndReceive has why.
ServerSaysGoAway ==
    /\ pc = "send"
    /\ Ended
    /\ CloseAndReceive
    /\ UNCHANGED <<ctx, wire, serverVars, inbox, end, err, str, supplyVars,
                   eventVars, result, kind>>

SendRequestFails ==
    /\ pc = "send"
    /\ SendFails
    /\ err' = "Internal"
    /\ ResetRequest
    /\ pc' = "status"
    /\ UNCHANGED <<ctx, wire, serverVars, halfClosed, inbox, str, supplied,
                   eventVars, result, kind>>
-------------------------------------------------------------------------------
(* Responses and the outcome. *)

CollectResponse ==
    /\ pc = "collect"
    /\ \E e \in Errors : CollectOne(e) /\ err' = e
    /\ pc' = "status"
    /\ UNCHANGED <<ctx, wire, serverVars, halfClosed, str, supplyVars,
                   eventVars, result, kind>>

\* The download loop of invokeServerStream.
ReceiveResponse ==
    /\ pc = "recv"
    /\ TakeResponse
    /\ OnReceiveResponse
    /\ UNCHANGED <<ctx, wire, serverVars, halfClosed, pc, err, str, supplyVars,
                   result, kind>>

\* Mutant: the stream's end is looked at before its responses are received.
ReceiveEndEagerly ==
    /\ pc = "recv"
    /\ Ended
    /\ err' = IF end = "OK" THEN "nil" ELSE end
    /\ pc' = "status"
    /\ UNCHANGED <<streamVars, str, supplyVars, eventVars, result, kind>>

ReceiveEnd ==
    /\ pc = "recv"
    /\ \E e \in Errors \ {"nil"} :
          RecvFails(e) /\ err' = ErrorAtEnd(e)
    /\ pc' = "status"
    /\ UNCHANGED <<ctx, wire, serverVars, halfClosed, str, supplyVars,
                   eventVars, result, kind>>

NotAStatus == pc = "status" /\ ~IsStatus(err) /\ Bail

\* Only invokeServerStream has received the headers before its status.
GotStatus ==
    /\ pc = "status"
    /\ IsStatus(err)
    /\ pc' = IF kind = "serverStream" THEN "trailers" ELSE "headers"
    /\ UNCHANGED <<streamVars, err, str, supplyVars, eventVars, result, kind>>

\* A unary call reports headers even when it has none; the others report what
\* Header() gives them, unless it is an error or there is no stream.
ReportHeaders ==
    /\ pc = "headers"
    /\ IF kind = "unary"
       THEN Notify("OnReceiveHeaders")
       ELSE \/ str /\ HeaderReady /\ Notify("OnReceiveHeaders")
            \/ str /\ HeaderReady /\ ~headers /\ UNCHANGED eventVars
            \/ ~str /\ UNCHANGED eventVars
    /\ pc' = IF kind = "serverStream" THEN "recv" ELSE "response"
    /\ UNCHANGED <<streamVars, err, str, supplyVars, result, kind>>

ReportResponse ==
    /\ pc = "response"
    /\ IF err = "nil" THEN OnReceiveResponse ELSE UNCHANGED eventVars
    /\ pc' = "trailers"
    /\ UNCHANGED <<streamVars, err, str, supplyVars, result, kind>>

\* Without a stream there are no trailers, and no status, to report.
ReportTrailers ==
    /\ pc = "trailers"
    /\ IF kind = "unary" \/ str
       THEN OnReceiveTrailers(CodeOf(err))
       ELSE UNCHANGED eventVars
    /\ pc' = "return"
    /\ UNCHANGED <<streamVars, err, str, supplyVars, result, kind>>

\* Mutant: a status that was reported is returned as an error as well.
ReturnError ==
    /\ pc = "return"
    /\ Return(IF err = "nil" THEN "nil" ELSE "error")
    /\ UNCHANGED <<dataVars, err, str, supplyVars, eventVars, kind>>

ReturnNil ==
    /\ pc = "return"
    /\ Return("nil")
    /\ UNCHANGED <<dataVars, err, str, supplyVars, eventVars, kind>>
-------------------------------------------------------------------------------
Supplier ==
    \/ FirstRequest
    \/ NoSecondRequest
    \/ SecondRequest
    \/ RequestDataFails
    \/ NextRequest
    \/ NoMoreRequests

Main ==
    \/ CreateStream
    \/ CreateStreamFails
    \/ SendSingle
    \/ SendSingleFails
    \/ SendRequest
    \/ ServerSaysGoAway
    \/ SendRequestFails
    \/ CollectResponse
    \/ ReceiveResponse
    \/ ReceiveEnd
    \/ NotAStatus
    \/ GotStatus
    \/ ReportHeaders
    \/ ReportResponse
    \/ ReportTrailers
    \/ ReturnNil

Library == Environment /\ UNCHANGED <<callVars, kind>>

Terminated == pc = "returned" /\ UNCHANGED vars

Next == Prologue \/ Supplier \/ Main \/ Library \/ Terminated

Spec == Init /\ [][Next]_vars

\* The caller's goroutine runs, the supplier answers, and the library notices a
\* finished context.  Nothing is asked of the server; the deadline need not come.
FairSpec ==
    /\ Spec
    /\ WF_vars(Prologue)
    /\ WF_vars(Supplier)
    /\ WF_vars(Main)
    /\ WF_vars(ContextEndsStream /\ UNCHANGED <<callVars, kind>>)
-------------------------------------------------------------------------------
(* Properties. *)

\* A client stream sends each message once, in order and alone; the other
\* kinds send one request with the data of the one message, or an empty one.
\* More than one message for these is a usage error, found before anything
\* reaches the server.
RequestsIntact ==
    IF kind = "clientStream"
    THEN \A i \in 1 .. Len(wire) : wire[i] = {i}
    ELSE /\ wire \in {<<>>, <<1 .. supplied>>}
         /\ supplied > 1 => end = "none" /\ result = "error"

\* The handler sees OK only for a stream that ended OK and whose every response
\* it was given: exactly one, unless the server streams.  A server stream that
\* fails has delivered what the server sent before, too.  When the server ends
\* an upload early, the io.EOF of SendMsg never replaces its status.
ResponsesComplete ==
    /\ status = "OK" =>
          /\ end = "OK"
          /\ numResponses = produced
          /\ kind # "serverStream" => numResponses = 1
    /\ kind = "serverStream" /\ status = "Failed" => numResponses = produced
    /\ status \in {"OK", "Failed", "Canceled", "DeadlineExceeded"} /\ end # "none"
          => status = end
    /\ err = "EOF" => end = "OK" /\ produced = 0

\* The callbacks follow the protocol of InvocationEventHandler.
Events == INSTANCE InvocationEvents
EventProtocol == Events!Spec

\* The call returns once its stream has ended or its deadline has expired.
EndLeadsToReturn ==
    Ended \/ ctx = "DeadlineExceeded" ~> result # "running"
-------------------------------------------------------------------------------
(* Inductive invariants behind the theorems of InvokeCallsProofs. *)

\* Before a stream exists; while its outcome is awaited; when it is known.
Unopened == pc \in {"resolve", "extensions", "first", "second", "create"}
Awaiting ==
    \/ pc \in {"request", "next", "send", "collect", "recv"}
    \/ pc = "headers" /\ kind = "serverStream"
Decided ==
    \/ pc \in {"status", "response", "trailers"}
    \/ pc = "headers" /\ kind # "serverStream"

\* Which points each kind of call passes; there is no error before the outcome is
\* known, and only statuses are reported.
PathInv ==
    /\ pc \in {"first", "second", "request"} => kind # "clientStream"
    /\ pc \in {"next", "send"} => kind = "clientStream"
    /\ pc \in {"collect", "response"} => kind # "serverStream"
    /\ pc = "recv" => kind = "serverStream"
    /\ Unopened \/ Awaiting => err = "nil"
    /\ pc \in {"headers", "response", "trailers"} => IsStatus(err)

\* req holds the one message that is to be sent next, and nothing else.
RequestInv ==
    /\ Unopened => end = "none"
    /\ Unopened \/ pc = "request" => wire = <<>>
    /\ pc \in {"resolve", "extensions", "first"} => supplied = 0 /\ req = {}
    /\ pc = "second" => supplied = 1 /\ req = {1}
    /\ pc \in {"create", "request"} => supplied \in {0, 1} /\ req = 1 .. supplied
    /\ pc = "create" /\ kind = "clientStream" => supplied = 0
    /\ pc = "next" => req = {} /\ supplied = Len(wire)
    /\ pc = "send" => req = {supplied} /\ supplied = Len(wire) + 1
    /\ kind # "clientStream" /\ supplied > 1 => pc = "returned"
    /\ RequestsIntact

\* Responses are counted until the outcome is known; from then on err says how
\* the stream ended and what was received before.
ResponseInv ==
    /\ Unopened => end = "none"
    /\ Unopened \/ Awaiting =>
          /\ numResponses + inbox = produced
          /\ kind # "serverStream" => numResponses = 0
    /\ Decided =>
          /\ err = "nil" => end = "OK"
          /\ err = "Failed" => end = "Failed"
          /\ err \in {"Canceled", "DeadlineExceeded"} => end \in {"none", err}
          /\ kind = "serverStream" /\ err \in {"nil", "Failed"} =>
                numResponses = produced
          /\ kind # "serverStream" /\ err = "nil" =>
                produced = 1 /\ numResponses = IF pc = "trailers" THEN 1 ELSE 0
    /\ status # "unset" => pc \in {"return", "returned"}
    /\ ResponsesComplete

\* Which callback may be the last one at each point; without a stream there is
\* nothing to report, and an error to say why.
CallbackInv ==
    /\ result = "running" <=> pc # "returned"
    /\ pc = "resolve" => callback = "none"
    /\ pc = "extensions" => callback = "OnResolveMethod"
    /\ pc \in {"first", "second", "create", "request", "next", "send", "collect",
               "headers"} => callback = "OnSendHeaders"
    /\ pc \in {"status", "recv", "trailers"} => callback \in Events!InFlight
    /\ pc = "status" /\ kind # "serverStream" => callback = "OnSendHeaders"
    /\ pc = "response" => callback \in {"OnSendHeaders", "OnReceiveHeaders"}
    /\ pc = "return" => callback \in {"OnSendHeaders", "OnReceiveTrailers"}
    /\ pc \in {"next", "send", "recv"} => str
    /\ pc = "collect" /\ kind = "clientStream" => str
    /\ pc = "headers" /\ kind = "serverStream" => str
    /\ Decided /\ kind # "unary" /\ ~str =>
          callback = "OnSendHeaders" /\ err # "nil"
===============================================================================

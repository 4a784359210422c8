--------------------------- MODULE InvokeCallsProofs ---------------------------
(***************************************************************************)
(* Theorems about InvokeCalls, for every number of requests and responses, *)
(* every flow-control window, and with or without a deadline.              *)
(***************************************************************************)
EXTENDS InvokeCalls, InvokeRPCProofs

\* The variables that a step leaves alone, taken apart.
USE DEF vars, streamVars, dataVars, serverVars, callVars, supplyVars, eventVars

\* Every step of the specification keeps every variable in its type.
LEMMA TypeStep == TypeOK /\ PathInv /\ [Next]_vars => TypeOK'
<1> SUFFICES ASSUME TypeOK, PathInv, [Next]_vars PROVE TypeOK'
  OBVIOUS
<1> USE DEF TypeOK, StreamTypeOK, EventTypeOK, EndStatuses, Statuses,
            StatusErrors, OtherErrors, Errors
<1>1. CASE Prologue
  <2>1. CASE ResolveFails \/ ExtensionsFail
    BY <1>1, <2>1 DEF Prologue, ResolveFails, ExtensionsFail
  <2>2. CASE ResolveMethod
    BY <1>1, <2>2 DEF Prologue, ResolveMethod, Notify
  <2>3. CASE SendHeaders(IF kind = "clientStream" THEN "create" ELSE "first")
    BY <1>1, <2>3 DEF Prologue, SendHeaders, Notify
  <2> QED
    BY <1>1, <2>1, <2>2, <2>3 DEF Prologue
<1>2. CASE FirstRequest
  <2>1. req' \in SUBSET Nat /\ supplied' \in Nat
    BY <1>2, SupplyType DEF FirstRequest
  <2> QED
    BY <1>2, <2>1 DEF FirstRequest
<1>3. CASE NoSecondRequest
  BY <1>3 DEF NoSecondRequest
<1>4. CASE SecondRequest
  <2>1. req' \in SUBSET Nat /\ supplied' \in Nat
    BY <1>4, SupplyType DEF SecondRequest
  <2> QED
    BY <1>4, <2>1 DEF SecondRequest, Return, Cancel
<1>5. CASE RequestDataFails
  <2>1. req' \in SUBSET Nat /\ supplied' \in Nat
    BY <1>5, SupplyType DEF RequestDataFails
  <2> QED
    BY <1>5, <2>1 DEF RequestDataFails, Return, Cancel
<1>6. CASE NextRequest
  <2>1. req' \in SUBSET Nat /\ supplied' \in Nat
    BY <1>6, SupplyType DEF NextRequest
  <2> QED
    BY <1>6, <2>1 DEF NextRequest
<1>7. CASE NoMoreRequests
  BY <1>7 DEF NoMoreRequests, CloseAndReceive
<1>8. CASE CreateStream \/ CreateStreamFails
  BY <1>8 DEF CreateStream, CreateStreamFails, OpenStream, CreateErrors
<1>9. CASE SendSingle
  <2>1. wire' \in Seq(SUBSET Nat)
    BY <1>9, SendType DEF SendSingle
  <2> QED
    BY <1>9, <2>1 DEF SendSingle
<1>10. CASE SendSingleFails
  BY <1>10 DEF SendSingleFails, SendFails
<1>11. CASE SendRequest
  <2>1. wire' \in Seq(SUBSET Nat)
    BY <1>11, SendType DEF SendRequest
  <2> QED
    BY <1>11, <2>1 DEF SendRequest, ResetRequest
<1>12. CASE ServerSaysGoAway
  BY <1>12 DEF ServerSaysGoAway, CloseAndReceive
<1>13. CASE SendRequestFails
  BY <1>13 DEF SendRequestFails, SendFails, ResetRequest
<1>14. CASE CollectResponse
  <2> PICK e \in Errors : CollectOne(e) /\ err' = e
    BY <1>14 DEF CollectResponse
  <2>1. inbox' \in Nat /\ end' \in {"none", "open"} \cup EndStatuses
    BY DEF CollectOne, RecvFails
  <2> QED
    BY <1>14, <2>1 DEF CollectResponse
<1>15. CASE ReceiveResponse
  BY <1>15 DEF ReceiveResponse, TakeResponse, OnReceiveResponse
<1>16. CASE ReceiveEnd
  <2> PICK e \in Errors \ {"nil"} : RecvFails(e) /\ err' = ErrorAtEnd(e)
    BY <1>16 DEF ReceiveEnd
  <2>1. inbox' \in Nat /\ end' \in {"none", "open"} \cup EndStatuses
    BY DEF RecvFails
  <2> QED
    BY <1>16, <2>1 DEF ReceiveEnd, ErrorAtEnd
<1>17. CASE NotAStatus
  BY <1>17 DEF NotAStatus, Bail, Return, Cancel
<1>18. CASE GotStatus
  BY <1>18 DEF GotStatus
<1>19. CASE ReportHeaders
  BY <1>19 DEF ReportHeaders, Notify
<1>20. CASE ReportResponse
  BY <1>20 DEF ReportResponse, OnReceiveResponse
<1>21. CASE ReportTrailers
  <2>1. CodeOf(err) \in Statuses
    BY <1>21 DEF ReportTrailers, PathInv, IsStatus, CodeOf
  <2> QED
    BY <1>21, <2>1 DEF ReportTrailers, OnReceiveTrailers
<1>22. CASE ReturnNil
  BY <1>22 DEF ReturnNil, Return, Cancel
<1>23. CASE Library
  BY <1>23, EnvironmentType DEF Library
<1>24. CASE Terminated \/ UNCHANGED vars
  BY <1>24 DEF Terminated
<1> QED
  BY <1>1, <1>2, <1>3, <1>4, <1>5, <1>6, <1>7, <1>8, <1>9, <1>10, <1>11, <1>12,
     <1>13, <1>14, <1>15, <1>16, <1>17, <1>18, <1>19, <1>20, <1>21, <1>22,
     <1>23, <1>24
     DEF Next, Supplier, Main

\* err is set only by the steps to "status"; an error that is none leaves there.
LEMMA PathStep == TypeOK /\ PathInv /\ [Next]_vars => PathInv'
<1> SUFFICES ASSUME TypeOK, PathInv, [Next]_vars PROVE PathInv'
  OBVIOUS
<1>0. kind \in {"unary", "clientStream", "serverStream"}
  BY DEF TypeOK
<1> USE DEF PathInv, Unopened, Awaiting
<1>1. CASE Prologue
  BY <1>0, <1>1 DEF Prologue, ResolveFails, ResolveMethod, ExtensionsFail, SendHeaders
<1>2. CASE Supplier
  BY <1>0, <1>2 DEF Supplier, FirstRequest, NoSecondRequest, SecondRequest,
              RequestDataFails, NextRequest, NoMoreRequests, CloseAndReceive,
              Return
<1>3. CASE CreateStream \/ CreateStreamFails \/ SendSingle \/ SendSingleFails
  BY <1>0, <1>3 DEF CreateStream, CreateStreamFails, SendSingle, SendSingleFails,
              IsStatus
<1>4. CASE SendRequest \/ ServerSaysGoAway \/ SendRequestFails
  BY <1>0, <1>4 DEF SendRequest, ServerSaysGoAway, SendRequestFails, CloseAndReceive
<1>5. CASE CollectResponse \/ ReceiveResponse \/ ReceiveEnd
  BY <1>0, <1>5 DEF CollectResponse, ReceiveResponse, ReceiveEnd
<1>6. CASE NotAStatus \/ ReturnNil
  BY <1>0, <1>6 DEF NotAStatus, Bail, ReturnNil, Return
<1>7. CASE GotStatus \/ ReportHeaders \/ ReportResponse \/ ReportTrailers
  BY <1>0, <1>7, Zenon DEF GotStatus, ReportHeaders, ReportResponse, ReportTrailers
<1>8. CASE Library \/ Terminated \/ UNCHANGED vars
  BY <1>0, <1>8 DEF Library, Terminated
<1> QED
  BY <1>1, <1>2, <1>3, <1>4, <1>5, <1>6, <1>7, <1>8 DEF Next, Main

LEMMA TypeInvariant == Spec => [](TypeOK /\ PathInv)
<1>1. Init => TypeOK /\ PathInv
  BY InitType DEF Init, CallInit, TypeOK, PathInv
<1> QED
  BY <1>1, TypeStep, PathStep, PTL DEF Spec

\* Type correctness of the state of a call that one goroutine serves.
THEOREM TypeCorrect == Spec => []TypeOK
  BY TypeInvariant, PTL
-------------------------------------------------------------------------------
(* Requests: one each, in order, with its own data. *)

LEMMA RequestStep ==
  TypeOK /\ PathInv /\ RequestInv /\ [Next]_vars => RequestInv'
<1> SUFFICES ASSUME TypeOK, PathInv, RequestInv, [Next]_vars PROVE RequestInv'
  OBVIOUS
<1> USE DEF PathInv, RequestInv, RequestsIntact, Unopened
<1>0. Len(wire) \in Nat /\ supplied \in Nat /\ wire \in Seq(SUBSET Nat)
      /\ kind \in {"unary", "clientStream", "serverStream"}
  BY DEF TypeOK, StreamTypeOK, EventTypeOK
<1>1. CASE Prologue
  <2>1. {} = 1 .. 0
    OBVIOUS
  <2>2. CASE ResolveFails \/ ResolveMethod \/ ExtensionsFail
    BY <1>1, <2>2 DEF Prologue, ResolveFails, ResolveMethod, ExtensionsFail
  <2>3. CASE SendHeaders(IF kind = "clientStream" THEN "create" ELSE "first")
    BY <1>1, <2>1, <2>3 DEF Prologue, SendHeaders
  <2> QED
    BY <1>1, <2>2, <2>3 DEF Prologue
<1>2. CASE FirstRequest
  <2>1. supplied = 0 /\ req = {} /\ wire = <<>>
    BY <1>2 DEF FirstRequest
  <2>2. CASE SupplyMessage /\ pc' = "second"
    <3>1. supplied' = 1 /\ req' = {1}
      BY <2>1, <2>2 DEF SupplyMessage
    <3> QED
      BY <1>2, <2>1, <3>1 DEF FirstRequest
  <2>3. CASE UNCHANGED supplyVars /\ pc' = "create"
    <3>1. req = 1 .. supplied
      BY <2>1
    <3> QED
      BY <1>2, <2>1, <2>3, <3>1 DEF FirstRequest
  <2> QED
    BY <1>2, <2>2, <2>3 DEF FirstRequest
<1>3. CASE NoSecondRequest
  BY <1>3 DEF NoSecondRequest
<1>4. CASE SecondRequest
  BY <1>4 DEF SecondRequest, SupplyMessage, Return
<1>5. CASE RequestDataFails
  BY <1>5 DEF RequestDataFails, SupplyBad, Return
<1>6. CASE NextRequest \/ NoMoreRequests
  BY <1>0, <1>6 DEF NextRequest, SupplyMessage, NoMoreRequests, CloseAndReceive
<1>7. CASE CreateStream \/ CreateStreamFails
  BY <1>7 DEF CreateStream, CreateStreamFails
<1>8. CASE SendSingle
  BY <1>0, <1>8 DEF SendSingle
<1>9. CASE SendRequest
  <2>1. /\ req = {Len(wire) + 1} /\ supplied = Len(wire) + 1
        /\ wire' = Append(wire, req) /\ kind = "clientStream" /\ UNCHANGED kind
    BY <1>9 DEF SendRequest
  <2>2. Len(wire') = Len(wire) + 1
    BY <2>1, SendType DEF TypeOK
  <2>3. ASSUME NEW i \in 1 .. Len(wire') PROVE wire'[i] = {i}
    BY <1>0, <2>1, <2>2, <2>3, SendType DEF TypeOK
  <2> QED
    BY <1>9, <2>1, <2>2, <2>3 DEF SendRequest, ResetRequest
<1>10. CASE SendSingleFails \/ ServerSaysGoAway \/ SendRequestFails
  BY <1>10 DEF SendSingleFails, ServerSaysGoAway, SendRequestFails,
               CloseAndReceive
<1>11. CASE CollectResponse \/ ReceiveResponse \/ ReceiveEnd
  BY <1>11 DEF CollectResponse, ReceiveResponse, ReceiveEnd
<1>12. CASE NotAStatus \/ ReturnNil
  BY <1>12 DEF NotAStatus, Bail, ReturnNil, Return
<1>13. CASE GotStatus \/ ReportHeaders \/ ReportResponse \/ ReportTrailers
  BY <1>13 DEF GotStatus, ReportHeaders, ReportResponse, ReportTrailers
<1>14. CASE Library
  BY <1>14 DEF Library, Environment, ServerSendHeaders, ServerReadRequest,
               ServerSendResponse, ServerFinish, DeadlineExpires,
               ContextEndsStream
<1>15. CASE Terminated \/ UNCHANGED vars
  BY <1>15 DEF Terminated
<1> QED
  BY <1>1, <1>2, <1>3, <1>4, <1>5, <1>6, <1>7, <1>8, <1>9, <1>10, <1>11, <1>12,
     <1>13, <1>14, <1>15
     DEF Next, Supplier, Main

\* A client stream carries the supplier's messages, each by itself and in order;
\* the other calls one request, and none when there is a second message.
THEOREM RequestsStayIntact == Spec => []RequestsIntact
<1>1. Init => RequestInv
  BY DEF Init, CallInit, StreamInit, RequestInv, RequestsIntact, Unopened
<1>2. RequestInv => RequestsIntact
  BY DEF RequestInv
<1> QED
  BY <1>1, <1>2, TypeInvariant, RequestStep, PTL DEF Spec
-------------------------------------------------------------------------------
(* Responses and statuses. *)

LEMMA ResponseStep ==
  TypeOK /\ PathInv /\ ResponseInv /\ [Next]_vars => ResponseInv'
<1> SUFFICES ASSUME TypeOK, PathInv, ResponseInv, [Next]_vars
             PROVE  ResponseInv'
  OBVIOUS
<1> USE DEF PathInv, ResponseInv, ResponsesComplete, Unopened, Awaiting, Decided
<1>0. /\ inbox \in Nat /\ produced \in Nat /\ numResponses \in Nat
      /\ end \in {"none", "open"} \cup EndStatuses
      /\ kind \in {"unary", "clientStream", "serverStream"}
      /\ ctx \in {"live", "Canceled", "DeadlineExceeded"}
  BY DEF TypeOK, StreamTypeOK, EventTypeOK
<1>1. CASE Prologue
  BY <1>1 DEF Prologue, ResolveFails, ResolveMethod, ExtensionsFail, SendHeaders,
              Notify
<1>2. CASE Supplier
  BY <1>2 DEF Supplier, FirstRequest, NoSecondRequest, SecondRequest,
              RequestDataFails, NextRequest, NoMoreRequests, CloseAndReceive,
              Return
<1>3. CASE CreateStream
  BY <1>3 DEF CreateStream, OpenStream
<1>4. CASE CreateStreamFails
  BY <1>0, <1>4 DEF CreateStreamFails, CreateErrors
<1>5. CASE SendSingle \/ SendRequest \/ ServerSaysGoAway
  BY <1>5 DEF SendSingle, SendRequest, ServerSaysGoAway, CloseAndReceive
<1>6. CASE SendSingleFails \/ SendRequestFails
  BY <1>6 DEF SendSingleFails, SendRequestFails, SendFails
<1>7. CASE CollectResponse
  <2> PICK e \in Errors : CollectOne(e) /\ err' = e
    BY <1>7 DEF CollectResponse
  <2>1. inbox = produced /\ numResponses = 0 /\ UNCHANGED <<produced, numResponses>>
        /\ status = "unset" /\ status' = "unset" /\ kind # "serverStream"
    BY <1>0, <1>7 DEF CollectResponse
  <2>2. /\ e = "nil" => end' = "OK" /\ produced = 1
        /\ e \in {"Failed", "Canceled", "DeadlineExceeded"} => end' = e
        /\ e = "EOF" => end' = "OK" /\ produced = 0
    BY <1>0, <2>1 DEF CollectOne, RecvFails
  <2> QED
    BY <1>7, <2>1, <2>2 DEF CollectResponse
<1>8. CASE ReceiveResponse
  BY <1>0, <1>8 DEF ReceiveResponse, TakeResponse, OnReceiveResponse
<1>9. CASE ReceiveEnd
  <2> PICK e \in Errors \ {"nil"} : RecvFails(e) /\ err' = ErrorAtEnd(e)
    BY <1>9 DEF ReceiveEnd
  <2>1. numResponses + inbox = produced /\ UNCHANGED <<produced, numResponses>>
        /\ status = "unset" /\ status' = "unset" /\ kind = "serverStream"
    BY <1>0, <1>9 DEF ReceiveEnd
  <2>2. /\ err' = "nil" => end' = "OK" /\ numResponses = produced
        /\ err' = "Failed" => end' = "Failed" /\ numResponses = produced
        /\ err' \in {"Canceled", "DeadlineExceeded"} => end' = err'
        /\ err' # "EOF"
    BY <1>0, <2>1 DEF RecvFails, ErrorAtEnd
  <2> QED
    BY <1>9, <2>1, <2>2 DEF ReceiveEnd
<1>10. CASE NotAStatus
  BY <1>10 DEF NotAStatus, Bail, Return
<1>11. CASE GotStatus
  BY <1>11 DEF GotStatus
<1>12. CASE ReportHeaders
  BY <1>12 DEF ReportHeaders, Notify
<1>13. CASE ReportResponse
  BY <1>0, <1>13 DEF ReportResponse, OnReceiveResponse
<1>14. CASE ReportTrailers
  <2>1. /\ CodeOf(err) = "OK" => err = "nil"
        /\ CodeOf(err) \in {"Failed", "Canceled", "DeadlineExceeded"} => err = CodeOf(err)
    BY <1>14 DEF ReportTrailers, PathInv, IsStatus, CodeOf, StatusErrors
  <2> QED
    BY <1>0, <1>14, <2>1 DEF ReportTrailers, OnReceiveTrailers
<1>15. CASE ReturnNil
  BY <1>15 DEF ReturnNil, Return
<1>16. CASE Library
  BY <1>0, <1>16 DEF Library, Environment, ServerSendHeaders, ServerReadRequest,
               ServerSendResponse, ServerFinish, DeadlineExpires,
               ContextEndsStream
<1>17. CASE Terminated \/ UNCHANGED vars
  BY <1>17 DEF Terminated
<1> QED
  BY <1>1, <1>2, <1>3, <1>4, <1>5, <1>6, <1>7, <1>8, <1>9, <1>10, <1>11, <1>12,
     <1>13, <1>14, <1>15, <1>16, <1>17
     DEF Next, Main

\* OK is reported only when the stream ended OK and the handler was given every
\* response, one of them unless the server streams; and the status reported is
\* that of the stream, also when the server ends an upload early.
THEOREM StatusMeansComplete == Spec => []ResponsesComplete
<1>1. Init => ResponseInv
  BY DEF Init, CallInit, StreamInit, ResponseInv, ResponsesComplete, Unopened,
         Awaiting, Decided
<1>2. ResponseInv => ResponsesComplete
  BY DEF ResponseInv
<1> QED
  BY <1>1, <1>2, TypeInvariant, ResponseStep, PTL DEF Spec
-------------------------------------------------------------------------------
(* The callbacks follow InvocationEvents. *)

LEMMA CallbackStep ==
  TypeOK /\ PathInv /\ CallbackInv /\ [Next]_vars
    => CallbackInv' /\ [Events!Next]_Events!vars
<1> SUFFICES ASSUME TypeOK, PathInv, CallbackInv, [Next]_vars
             PROVE  CallbackInv' /\ [Events!Next]_Events!vars
  OBVIOUS
<1> USE DEF PathInv, CallbackInv, Decided, Events!InFlight, Events!vars
<1>0. kind \in {"unary", "clientStream", "serverStream"}
  BY DEF TypeOK
<1>1. CASE Prologue
  <2>1. CASE ResolveFails \/ ExtensionsFail
    BY <1>1, <2>1 DEF Prologue, ResolveFails, ExtensionsFail, Events!Next,
                      Events!ReturnError
  <2>2. CASE ResolveMethod
    BY <1>1, <2>2 DEF Prologue, ResolveMethod, Notify, Events!Next,
                      Events!ResolveMethod, Events!Invoke
  <2>3. CASE SendHeaders(IF kind = "clientStream" THEN "create" ELSE "first")
    BY <1>1, <2>3 DEF Prologue, SendHeaders, Notify, Events!Next,
                      Events!SendHeaders, Events!Invoke
  <2> QED
    BY <1>1, <2>1, <2>2, <2>3 DEF Prologue
<1>2. CASE FirstRequest \/ NoSecondRequest \/ NextRequest \/ NoMoreRequests
  BY <1>2 DEF FirstRequest, NoSecondRequest, NextRequest, NoMoreRequests,
              CloseAndReceive
<1>3. CASE SecondRequest \/ RequestDataFails
  BY <1>3 DEF SecondRequest, RequestDataFails, Return, Events!Next,
              Events!ReturnError
<1>4. CASE CreateStream \/ CreateStreamFails
  BY <1>4 DEF CreateStream, CreateStreamFails, CreateErrors, TypeOK, StreamTypeOK
<1>5. CASE SendSingle \/ SendSingleFails
  BY <1>0, <1>5 DEF SendSingle, SendSingleFails
<1>6. CASE SendRequest \/ ServerSaysGoAway \/ SendRequestFails
  BY <1>6 DEF SendRequest, ServerSaysGoAway, SendRequestFails, CloseAndReceive
<1>7. CASE CollectResponse \/ ReceiveEnd
  BY <1>0, <1>7 DEF CollectResponse, ReceiveEnd
<1>8. CASE ReceiveResponse
  BY <1>8 DEF ReceiveResponse, OnReceiveResponse, Events!Next,
              Events!ReceiveResponse
<1>9. CASE NotAStatus
  BY <1>9 DEF NotAStatus, Bail, Return, Events!Next, Events!ReturnError
<1>10. CASE GotStatus
  BY <1>0, <1>10 DEF GotStatus
<1>11. CASE ReportHeaders
  BY <1>0, <1>11 DEF ReportHeaders, Notify, Events!Next, Events!ReceiveHeaders,
               Events!Invoke
<1>12. CASE ReportResponse
  BY <1>12 DEF ReportResponse, OnReceiveResponse, Events!Next,
               Events!ReceiveResponse
<1>13. CASE ReportTrailers
  <2>1. CodeOf(err) \in Statuses
    BY <1>13 DEF ReportTrailers, PathInv, IsStatus, CodeOf, StatusErrors,
                 Statuses, EndStatuses
  <2> QED
    BY <1>13, <2>1 DEF ReportTrailers, OnReceiveTrailers, Events!Next,
                       Events!ReceiveTrailers
<1>14. CASE ReturnNil
  BY <1>14 DEF ReturnNil, Return, Events!Next, Events!ReturnNil
<1>15. CASE Library
  BY <1>15 DEF Library
<1>16. CASE Terminated \/ UNCHANGED vars
  BY <1>16 DEF Terminated
<1> QED
  BY <1>1, <1>2, <1>3, <1>4, <1>5, <1>6, <1>7, <1>8, <1>9, <1>10, <1>11, <1>12,
     <1>13, <1>14, <1>15, <1>16
     DEF Next, Supplier, Main

\* The single-goroutine calls invoke the event handler the way InvocationEvents
\* says, so that grpcurl's main can rely on it.
THEOREM CallsFollowProtocol == Spec => EventProtocol
<1>1. Init => Events!Init /\ CallbackInv
  BY DEF Init, CallInit, Events!Init, CallbackInv, Decided
<1> QED
  BY <1>1, TypeInvariant, CallbackStep, PTL
     DEF Spec, EventProtocol, Events!Spec
===============================================================================

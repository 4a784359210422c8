--------------------------- MODULE InvokeBidiProofs ---------------------------
(***************************************************************************)
(* Theorems about InvokeBidi, for every number of requests and responses,  *)
(* every flow-control window, and with or without a deadline.              *)
(***************************************************************************)
EXTENDS InvokeBidi, InvokeRPCProofs

\* Every step of the specification keeps every variable in its type.
LEMMA TypeStep == TypeOK /\ [Next]_vars => TypeOK'
<1> SUFFICES ASSUME TypeOK, [Next]_vars PROVE TypeOK'
  OBVIOUS
<1> USE DEF TypeOK, StreamTypeOK, EventTypeOK, EndStatuses, Statuses,
            StatusErrors, OtherErrors, Errors, vars, streamVars, dataVars,
            serverVars, callVars, supplyVars, eventVars, senderVars
<1>1. CASE Prologue
  <2>1. CASE ResolveFails
    BY <1>1, <2>1 DEF Prologue, ResolveFails
  <2>2. CASE ResolveMethod
    BY <1>1, <2>2 DEF Prologue, ResolveMethod, Notify
  <2>3. CASE ExtensionsFail
    BY <1>1, <2>3 DEF Prologue, ExtensionsFail
  <2>4. CASE SendHeaders("create")
    BY <1>1, <2>4 DEF Prologue, SendHeaders, Notify
  <2> QED
    BY <1>1, <2>1, <2>2, <2>3, <2>4 DEF Prologue
<1>2. CASE CreateStream
  BY <1>2 DEF CreateStream, OpenStream
<1>3. CASE CreateStreamFails
  BY <1>3 DEF CreateStreamFails, CreateErrors
<1>4. CASE AwaitHeaders
  BY <1>4 DEF AwaitHeaders, HeaderReady, Notify
<1>5. CASE ReceiveResponse
  BY <1>5 DEF ReceiveResponse, TakeResponse, OnReceiveResponse
<1>6. CASE ReceiveEnd
  BY <1>6 DEF ReceiveEnd, RecvFails, ErrorAtEnd
<1>7. CASE Report
  BY <1>7 DEF Report, FinalError, OnReceiveTrailers, CodeOf, IsStatus
<1>8. CASE WaitSender
  BY <1>8 DEF WaitSender, Return, Outcome, Cancel
<1>9. CASE SenderNext
  <2>1. req' \in SUBSET Nat /\ supplied' \in Nat
    BY <1>9, SupplyType DEF SenderNext
  <2>2. halfClosed' \in BOOLEAN
    BY <1>9 DEF SenderNext
  <2>3. spc' \in {"send", "done", "cancel"} /\ senderErr' \in Errors
    BY <1>9 DEF SenderNext
  <2> QED
    BY <1>9, <2>1, <2>2, <2>3 DEF SenderNext
<1>10. CASE SenderCancel
  BY <1>10 DEF SenderCancel, Cancel
<1>11. CASE SenderSend
  <2>1. wire' \in Seq(SUBSET Nat)
    BY <1>11, SendType DEF SenderSend
  <2>2. end' \in {"none", "open"} \cup EndStatuses
    BY <1>11 DEF SenderSend, SendFails
  <2>3. spc' \in {"next", "store"} /\ senderErr' \in Errors
    BY <1>11 DEF SenderSend
  <2> QED
    BY <1>11, <2>1, <2>2, <2>3 DEF SenderSend, ResetRequest
<1>12. CASE SenderStore
  BY <1>12 DEF SenderStore
<1>13. CASE Library
  BY <1>13, EnvironmentType DEF Library
<1>14. CASE Terminated \/ UNCHANGED vars
  BY <1>14 DEF Terminated
<1> QED
  BY <1>1, <1>2, <1>3, <1>4, <1>5, <1>6, <1>7, <1>8, <1>9, <1>10, <1>11,
     <1>12, <1>13, <1>14 DEF Next, Main

\* Type correctness of the state that invokeBidi keeps.
THEOREM TypeCorrect == Spec => []TypeOK
<1>1. Init => TypeOK
  <2>1. ASSUME Init PROVE TypeOK
    BY <2>1, InitType DEF Init, CallInit, TypeOK, Errors
  <2> QED
    BY <2>1
<1> QED
  BY <1>1, TypeStep, PTL DEF Spec
-------------------------------------------------------------------------------
(* Requests: sent once, in order, each with its own data. *)

\* No step other than those of the sender touches what SendInv speaks of,
\* except the creation of the stream, which wakes the sender.
LEMMA SendStep == TypeOK /\ SendInv /\ [Next]_vars => SendInv'
<1> SUFFICES ASSUME TypeOK, SendInv, [Next]_vars PROVE SendInv'
  OBVIOUS
<1> USE DEF SendInv, RequestsIntact, Creating, SenderFinished,
            vars, streamVars, dataVars, serverVars, callVars, supplyVars,
            eventVars, senderVars
<1>1. CASE Prologue
  BY <1>1 DEF Prologue, ResolveFails, ResolveMethod, ExtensionsFail,
              SendHeaders, Notify
<1>2. CASE CreateStream
  BY <1>2 DEF CreateStream, OpenStream
<1>3. CASE CreateStreamFails \/ AwaitHeaders \/ ReceiveEnd \/ Report
  BY <1>3 DEF CreateStreamFails, AwaitHeaders, ReceiveEnd, Report
<1>4. CASE ReceiveResponse \/ WaitSender
  BY <1>4 DEF ReceiveResponse, WaitSender, Return
<1>5. CASE SenderNext
  BY <1>5 DEF SenderNext, SupplyMessage, SupplyBad, TypeOK, EventTypeOK
<1>6. CASE SenderCancel \/ SenderStore
  BY <1>6 DEF SenderCancel, SenderStore
<1>7. CASE SenderSend
  <2>1. CASE wire' = Append(wire, req) /\ spc' = "next"
    <3>1. Len(wire) \in Nat
      BY DEF TypeOK, StreamTypeOK
    <3>2. req = {Len(wire) + 1} /\ supplied = Len(wire) + 1
      BY <1>7 DEF SenderSend
    <3>3. Len(wire') = Len(wire) + 1
      BY <2>1, SendType DEF TypeOK
    <3>4. ASSUME NEW i \in 1 .. Len(wire') PROVE wire'[i] = {i}
      BY <2>1, <3>1, <3>2, <3>3, <3>4, SendType DEF TypeOK
    <3>5. RequestsIntact'
      BY <3>4
    <3> QED
      BY <1>7, <2>1, <3>2, <3>3, <3>5 DEF SenderSend, ResetRequest
  <2>2. CASE UNCHANGED wire /\ spc' = "store"
    BY <1>7, <2>2 DEF SenderSend
  <2> QED
    BY <1>7, <2>1, <2>2 DEF SenderSend
<1>8. CASE Library
  BY <1>8 DEF Library, Environment, ServerSendHeaders, ServerReadRequest,
              ServerSendResponse, ServerFinish, DeadlineExpires,
              ContextEndsStream
<1>9. CASE Terminated \/ UNCHANGED vars
  BY <1>9 DEF Terminated
<1> QED
  BY <1>1, <1>2, <1>3, <1>4, <1>5, <1>6, <1>7, <1>8, <1>9 DEF Next, Main

LEMMA SendInvariant == Spec => [](TypeOK /\ SendInv)
<1>1. Init => SendInv
  <2>1. ASSUME Init PROVE SendInv
    BY <2>1 DEF Init, CallInit, StreamInit, SendInv, RequestsIntact
  <2> QED
    BY <2>1
<1> QED
  BY <1>1, TypeCorrect, SendStep, PTL DEF Spec

\* What reaches the stream are the supplier's messages, each one by itself.
THEOREM RequestsStayIntact == Spec => []RequestsIntact
<1>1. SendInv => RequestsIntact
  BY DEF SendInv
<1> QED
  BY <1>1, SendInvariant, PTL

-------------------------------------------------------------------------------
(* The receiver leaves a stream only when it has ended. *)

LEMMA StreamStep == TypeOK /\ StreamInv /\ [Next]_vars => StreamInv'
<1> SUFFICES ASSUME TypeOK, StreamInv, [Next]_vars PROVE StreamInv'
  OBVIOUS
<1> USE DEF StreamInv, Creating, Receiving, Ended,
            vars, streamVars, dataVars, serverVars, callVars, supplyVars,
            eventVars, senderVars
<1>1. CASE Prologue
  BY <1>1 DEF Prologue, ResolveFails, ResolveMethod, ExtensionsFail,
              SendHeaders, Notify
<1>2. CASE CreateStream
  BY <1>2 DEF CreateStream, OpenStream
<1>3. CASE CreateStreamFails \/ AwaitHeaders \/ Report
  BY <1>3 DEF CreateStreamFails, AwaitHeaders, Report
<1>4. CASE ReceiveResponse \/ WaitSender
  BY <1>4 DEF ReceiveResponse, TakeResponse, WaitSender, Return
<1>5. CASE ReceiveEnd
  <2>1. PICK e \in Errors \ {"nil"} : RecvFails(e)
    BY <1>5 DEF ReceiveEnd
  <2>2. end \in {"open"} \cup EndStatuses
    BY <1>5 DEF ReceiveEnd, TypeOK, StreamTypeOK
  <2>3. end' \in EndStatuses
    BY <2>1, <2>2 DEF RecvFails, EndStatuses
  <2> QED
    BY <1>5, <2>3 DEF ReceiveEnd, EndStatuses
<1>6. CASE SenderNext \/ SenderCancel \/ SenderStore
  BY <1>6 DEF SenderNext, SenderCancel, SenderStore
<1>7. CASE SenderSend
  <2>1. UNCHANGED end \/ end' = "Internal"
    BY <1>7 DEF SenderSend, SendFails
  <2>2. str /\ UNCHANGED <<pc, str>>
    BY <1>7 DEF SenderSend
  <2> QED
    BY <2>1, <2>2 DEF EndStatuses
<1>8. CASE Library
  <2>1. UNCHANGED end \/ (end = "open" /\ end' \in EndStatuses)
    BY <1>8, EnvironmentEnds DEF Library, TypeOK
  <2>2. UNCHANGED <<pc, str, spc>>
    BY <1>8 DEF Library
  <2> QED
    BY <2>1, <2>2 DEF EndStatuses
<1>9. CASE Terminated \/ UNCHANGED vars
  BY <1>9 DEF Terminated
<1> QED
  BY <1>1, <1>2, <1>3, <1>4, <1>5, <1>6, <1>7, <1>8, <1>9 DEF Next, Main

LEMMA StreamInvariant == Spec => [](TypeOK /\ StreamInv)
<1>1. Init => StreamInv
  BY DEF Init, CallInit, StreamInit, StreamInv, Creating, Receiving
<1> QED
  BY <1>1, TypeCorrect, StreamStep, PTL DEF Spec

\* The deferred wg.Wait of invokeBidi never waits for a sender on an open
\* stream.
THEOREM NeverSelfDeadlocked == Spec => []NoSelfDeadlock
<1>1. StreamInv => NoSelfDeadlock
  BY DEF StreamInv, NoSelfDeadlock, Receiving, Creating, SenderFinished
<1> QED
  BY <1>1, StreamInvariant, PTL
-------------------------------------------------------------------------------
(* The callbacks follow InvocationEvents. *)

LEMMA CallbackStep ==
  TypeOK /\ StreamInv /\ CallbackInv /\ [Next]_vars
    => CallbackInv' /\ [Events!Next]_Events!vars
<1> SUFFICES ASSUME TypeOK, StreamInv, CallbackInv, [Next]_vars
             PROVE  CallbackInv' /\ [Events!Next]_Events!vars
  OBVIOUS
<1> USE DEF CallbackInv, Events!InFlight, Events!vars,
            vars, streamVars, dataVars, serverVars, callVars, supplyVars,
            eventVars, senderVars
<1>1. CASE Prologue
  <2>1. CASE ResolveFails \/ ExtensionsFail
    BY <1>1, <2>1 DEF Prologue, ResolveFails, ExtensionsFail, Events!Next,
                      Events!ReturnError
  <2>2. CASE ResolveMethod
    BY <1>1, <2>2 DEF Prologue, ResolveMethod, Notify, Events!Next,
                      Events!ResolveMethod, Events!Invoke
  <2>3. CASE SendHeaders("create")
    BY <1>1, <2>3 DEF Prologue, SendHeaders, Notify, Events!Next,
                      Events!SendHeaders, Events!Invoke
  <2> QED
    BY <1>1, <2>1, <2>2, <2>3 DEF Prologue
<1>2. CASE CreateStream \/ CreateStreamFails
  BY <1>2 DEF CreateStream, CreateStreamFails, StreamInv, Creating
<1>3. CASE AwaitHeaders
  BY <1>3 DEF AwaitHeaders, Notify, Events!Next, Events!ReceiveHeaders,
              Events!Invoke
<1>4. CASE ReceiveResponse
  BY <1>4 DEF ReceiveResponse, OnReceiveResponse, Events!Next,
              Events!ReceiveResponse
<1>5. CASE ReceiveEnd
  BY <1>5 DEF ReceiveEnd, StreamInv
<1>6. CASE Report
  <2>1. CASE IsStatus(FinalError) /\ str
    <3>1. CodeOf(FinalError) \in Statuses
      BY <2>1 DEF IsStatus, CodeOf, StatusErrors, Statuses, EndStatuses
    <3> QED
      BY <1>6, <2>1, <3>1 DEF Report, OnReceiveTrailers, Events!Next,
                              Events!ReceiveTrailers
  <2>2. CASE ~(IsStatus(FinalError) /\ str)
    BY <1>6, <2>2 DEF Report
  <2> QED
    BY <2>1, <2>2
<1>7. CASE WaitSender
  <2>1. CASE IsStatus(err)
    BY <1>7, <2>1 DEF WaitSender, Return, Outcome, Events!Next,
                      Events!ReturnNil
  <2>2. CASE ~IsStatus(err)
    BY <1>7, <2>2 DEF WaitSender, Return, Outcome, Events!Next,
                      Events!ReturnError
  <2> QED
    BY <2>1, <2>2
<1>8. CASE SenderNext \/ SenderCancel \/ SenderSend \/ SenderStore
  BY <1>8 DEF SenderNext, SenderCancel, SenderSend, SenderStore
<1>9. CASE Library
  BY <1>9 DEF Library
<1>10. CASE Terminated \/ UNCHANGED vars
  BY <1>10 DEF Terminated
<1> QED
  BY <1>1, <1>2, <1>3, <1>4, <1>5, <1>6, <1>7, <1>8, <1>9, <1>10 DEF Next, Main

LEMMA CallbackInvariant == Spec => [](TypeOK /\ StreamInv /\ CallbackInv)
<1>1. Init => CallbackInv
  BY DEF Init, CallInit, CallbackInv
<1> QED
  BY <1>1, StreamInvariant, CallbackStep, PTL DEF Spec

\* Whatever the server, the deadline and the supplier do, invokeBidi calls the
\* event handler the way InvocationEvents says.
THEOREM BidiFollowsProtocol == Spec => EventProtocol
<1>1. Init => Events!Init
  BY DEF Init, CallInit, Events!Init
<1> QED
  BY <1>1, CallbackInvariant, CallbackStep, PTL
     DEF Spec, EventProtocol, Events!Spec

\* Once InvokeRPC has returned, the request supplier is not called and the
\* stream is not used.
THEOREM ReturnIsQuiet == Spec => QuietAfterReturn
<1> DEFINE Quiet == UNCHANGED <<supplied, req, wire, halfClosed>>
<1>1. ASSUME SendInv, CallbackInv, [Next]_vars, result # "running" PROVE Quiet
  <2>1. pc = "returned" /\ spc \in {"idle", "done"}
    BY <1>1 DEF SendInv, CallbackInv, SenderFinished
  <2>2. CASE Library
    BY <2>2 DEF Library, Environment, ServerSendHeaders, ServerReadRequest,
                ServerSendResponse, ServerFinish, DeadlineExpires,
                ContextEndsStream, callVars, dataVars
  <2>3. CASE Terminated \/ UNCHANGED vars
    BY <2>3 DEF Terminated, vars, streamVars, dataVars, serverVars, callVars
  <2>4. ~(Prologue \/ Main \/ SenderNext \/ SenderCancel \/ SenderSend
            \/ SenderStore)
    BY <2>1 DEF Prologue, ResolveFails, ResolveMethod, ExtensionsFail,
                SendHeaders, Main, CreateStream, CreateStreamFails,
                AwaitHeaders, ReceiveResponse, ReceiveEnd, Report, WaitSender,
                SenderNext, SenderCancel, SenderSend, SenderStore
  <2> QED
    BY <1>1, <2>2, <2>3, <2>4 DEF Next
<1> QED
  BY <1>1, SendInvariant, CallbackInvariant, PTL DEF Spec, QuietAfterReturn
-------------------------------------------------------------------------------
(* Statuses and responses. *)

LEMMA ResponseStep ==
  TypeOK /\ StreamInv /\ ResponseInv /\ [Next]_vars => ResponseInv'
<1> SUFFICES ASSUME TypeOK, StreamInv, ResponseInv, [Next]_vars
             PROVE  ResponseInv'
  OBVIOUS
<1> USE DEF ResponseInv, ResponsesComplete, Creating, Receiving,
            vars, streamVars, dataVars, serverVars, callVars, supplyVars,
            eventVars, senderVars
<1>1. CASE Prologue
  BY <1>1 DEF Prologue, ResolveFails, ResolveMethod, ExtensionsFail,
              SendHeaders, Notify
<1>2. CASE CreateStream
  BY <1>2 DEF CreateStream, OpenStream
<1>3. CASE CreateStreamFails
  BY <1>3 DEF CreateStreamFails, CreateErrors, TypeOK, StreamTypeOK
<1>4. CASE AwaitHeaders
  BY <1>4 DEF AwaitHeaders, Notify
<1>5. CASE ReceiveResponse
  BY <1>5 DEF ReceiveResponse, TakeResponse, OnReceiveResponse, TypeOK,
              StreamTypeOK, EventTypeOK
<1>6. CASE ReceiveEnd
  <2> PICK e \in Errors \ {"nil"} : RecvFails(e) /\ err' = ErrorAtEnd(e)
    BY <1>6 DEF ReceiveEnd
  <2>1. err' = "nil" => end' = "OK" /\ inbox = 0
    BY DEF RecvFails, ErrorAtEnd
  <2>2. err' = "Failed" => end' = "Failed" /\ inbox = 0
    BY DEF RecvFails, ErrorAtEnd
  <2> QED
    BY <1>6, <2>1, <2>2 DEF ReceiveEnd, TypeOK, StreamTypeOK, EventTypeOK
<1>7. CASE Report
  <2>1. FinalError \in {"nil", "Failed"} => FinalError = err
    BY DEF FinalError
  <2>2. IsStatus(FinalError) /\ CodeOf(FinalError) \in {"OK", "Failed"}
          => \/ FinalError = "nil" /\ CodeOf(FinalError) = "OK"
             \/ FinalError = "Failed" /\ CodeOf(FinalError) = "Failed"
    BY DEF IsStatus, CodeOf, StatusErrors
  <2> QED
    BY <1>7, <2>1, <2>2 DEF Report, OnReceiveTrailers
<1>8. CASE WaitSender
  BY <1>8 DEF WaitSender, Return
<1>9. CASE SenderNext \/ SenderCancel \/ SenderStore
  BY <1>9 DEF SenderNext, SenderCancel, SenderStore
<1>10. CASE SenderSend
  BY <1>10 DEF SenderSend, SendFails, StreamInv, Ended, EndStatuses, TypeOK
<1>11. CASE Library
  BY <1>11 DEF Library, Environment, ServerSendHeaders, ServerReadRequest,
               ServerSendResponse, ServerFinish, DeadlineExpires,
               ContextEndsStream, TypeOK, StreamTypeOK, EventTypeOK
<1>12. CASE Terminated \/ UNCHANGED vars
  BY <1>12 DEF Terminated
<1> QED
  BY <1>1, <1>2, <1>3, <1>4, <1>5, <1>6, <1>7, <1>8, <1>9, <1>10, <1>11, <1>12
     DEF Next, Main

\* A status of the server is reported only for a stream that ended with it,
\* after every response the server had sent.
THEOREM StatusMeansComplete == Spec => []ResponsesComplete
<1>1. Init => ResponseInv
  BY DEF Init, CallInit, StreamInit, ResponseInv, ResponsesComplete,
         Creating, Receiving
<1>2. ResponseInv => ResponsesComplete
  BY DEF ResponseInv
<1> QED
  BY <1>1, <1>2, StreamInvariant, ResponseStep, PTL DEF Spec
===============================================================================

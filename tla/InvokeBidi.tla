------------------------------ MODULE InvokeBidi ------------------------------
(***************************************************************************)
(* InvokeRPC of a bidirectional-streaming method: invokeBidi (invoke.go).  *)
(* The calling goroutine receives headers and responses; a second one, the *)
(* sender, takes request messages from the supplier and sends them.  They  *)
(* share the stream, the context, the message req (the sender's alone) and *)
(* the atomic sendErr.                                                     *)
(***************************************************************************)
EXTENDS InvokeRPC

VARIABLES
    spc,            \* where the sender goroutine is
    senderErr,      \* its variable err
    sendErr         \* the atomic.Value sendErr; "nil" while nothing is stored

senderVars == <<spc, senderErr, sendErr>>
vars == <<streamVars, callVars, senderVars>>

TypeOK ==
    /\ StreamTypeOK
    /\ EventTypeOK
    /\ pc \in {"resolve", "extensions", "create", "headers", "recv",
               "report", "wait", "returned"}
    /\ spc \in {"idle", "next", "send", "cancel", "store", "done"}
    /\ senderErr \in Errors
    /\ sendErr \in Errors

Init ==
    /\ CallInit
    /\ spc = "idle"
    /\ senderErr = "nil"
    /\ sendErr = "nil"
-------------------------------------------------------------------------------
(* The goroutine that called InvokeRPC. *)

Prologue ==
    /\ ResolveFails \/ ResolveMethod \/ ExtensionsFail \/ SendHeaders("create")
    /\ UNCHANGED senderVars

\* The stream exists: start the sender.
CreateStream ==
    /\ pc = "create"
    /\ OpenStream
    /\ str' = TRUE
    /\ spc' = "next"
    /\ pc' = "headers"
    /\ UNCHANGED <<ctx, wire, serverVars, halfClosed, inbox, err, supplyVars,
                   eventVars, result, senderErr, sendErr>>

\* No stream: no sender, nothing to receive.
CreateStreamFails ==
    /\ pc = "create"
    /\ err' \in CreateErrors
    /\ pc' = "report"
    /\ UNCHANGED <<streamVars, str, supplyVars, eventVars, result, senderVars>>

\* Header() may return an error when the stream ended without headers.
AwaitHeaders ==
    /\ pc = "headers"
    /\ HeaderReady
    /\ \/ Notify("OnReceiveHeaders")
       \/ ~headers /\ UNCHANGED eventVars
    /\ pc' = "recv"
    /\ UNCHANGED <<streamVars, err, str, supplyVars, result, senderVars>>

\* Mutant: a single response is received, as if the server did not stream.
ReceiveOneResponse ==
    /\ pc = "recv"
    /\ TakeResponse
    /\ OnReceiveResponse
    /\ pc' = "report"
    /\ UNCHANGED <<ctx, wire, serverVars, halfClosed, err, str, supplyVars,
                   result, senderVars>>

ReceiveResponse ==
    /\ pc = "recv"
    /\ TakeResponse
    /\ OnReceiveResponse
    /\ UNCHANGED <<ctx, wire, serverVars, halfClosed, pc, err, str, supplyVars,
                   result, senderVars>>

\* RecvMsg returns an error; EOF becomes nil.
ReceiveEnd ==
    /\ pc = "recv"
    /\ \E e \in Errors \ {"nil"} :
          /\ RecvFails(e)
          /\ err' = ErrorAtEnd(e)
    /\ pc' = "report"
    /\ UNCHANGED <<ctx, wire, serverVars, halfClosed, str, supplyVars,
                   eventVars, result, senderVars>>

\* The error the call ends with: the sender's, if one is stored by now.
FinalError == IF sendErr \in {"nil", "EOF"} THEN err ELSE sendErr

\* Report the status and leave; the deferred wg.Wait comes before the return.
Report ==
    /\ pc = "report"
    /\ err' = FinalError
    /\ IF IsStatus(FinalError) /\ str
       THEN OnReceiveTrailers(CodeOf(FinalError))
       ELSE UNCHANGED eventVars
    /\ pc' = "wait"
    /\ UNCHANGED <<streamVars, str, supplyVars, result, senderVars>>

\* Mutant: the return does not wait.
NoWait == TRUE
SenderFinished == spc \in {"idle", "done"}

\* Mutant: a status that was reported is returned as an error as well.
OutcomeOfError == IF err = "nil" THEN "nil" ELSE "error"
Outcome == IF IsStatus(err) THEN "nil" ELSE "error"

\* wg.Wait returns; only then do the deferred cancels run.
WaitSender ==
    /\ pc = "wait"
    /\ SenderFinished
    /\ Return(Outcome)
    /\ UNCHANGED <<dataVars, err, str, supplyVars, eventVars, senderVars>>
-------------------------------------------------------------------------------
(* The sender goroutine. *)

\* requestData yields a message, io.EOF (then CloseSend) or another error.
SenderNext ==
    /\ spc = "next"
    /\ \/ /\ SupplyMessage
          /\ spc' = "send"
          /\ UNCHANGED <<halfClosed, senderErr>>
       \/ /\ halfClosed' = TRUE
          /\ spc' = "done"
          /\ UNCHANGED <<supplyVars, senderErr>>
       \/ /\ SupplyBad
          /\ senderErr' = "RequestData"
          /\ spc' = "cancel"
          /\ UNCHANGED halfClosed
    /\ UNCHANGED <<ctx, wire, serverVars, inbox, end, pc, err, str, eventVars,
                   result, sendErr>>

\* A request error cancels the context, which wakes up the receiver ...
SenderCancel ==
    /\ spc = "cancel"
    /\ Cancel
    /\ spc' = "store"
    /\ UNCHANGED <<dataVars, callVars, senderErr, sendErr>>

\* SendMsg waits for flow control; it returns EOF when the stream has ended.
\* In each case req is reset afterwards.
SenderSend ==
    /\ spc = "send"
    /\ \/ /\ CanSend
          /\ wire' = Append(wire, req)
          /\ spc' = "next"
          /\ UNCHANGED <<end, senderErr>>
       \/ /\ Ended
          /\ senderErr' = "EOF"
          /\ spc' = "store"
          /\ UNCHANGED <<wire, end>>
       \/ /\ SendFails
          /\ senderErr' = "Internal"
          /\ spc' = "store"
          /\ UNCHANGED wire
    /\ ResetRequest
    /\ UNCHANGED <<ctx, serverVars, halfClosed, inbox, pc, err, str, supplied,
                   eventVars, result, sendErr>>

\* Mutant: the path of a failed send misses wg.Done.
SenderStoreOnly ==
    /\ spc = "store"
    /\ sendErr' = senderErr
    /\ UNCHANGED <<streamVars, callVars, senderErr, spc>>

\* ... and only afterwards is the error stored where the receiver looks.
SenderStore ==
    /\ spc = "store"
    /\ sendErr' = senderErr
    /\ spc' = "done"
    /\ UNCHANGED <<streamVars, callVars, senderErr>>
-------------------------------------------------------------------------------
Main == CreateStream \/ CreateStreamFails \/ AwaitHeaders \/ ReceiveResponse
          \/ ReceiveEnd \/ Report \/ WaitSender

Library == Environment /\ UNCHANGED <<callVars, senderVars>>

\* The call is over and both goroutines are gone.
Terminated == pc = "returned" /\ SenderFinished /\ UNCHANGED vars

Next ==
    \/ Prologue
    \/ Main
    \/ SenderNext
    \/ SenderCancel
    \/ SenderSend
    \/ SenderStore
    \/ Library
    \/ Terminated

Spec == Init /\ [][Next]_vars

\* Goroutines run, and the library notices a finished context.  Nothing is asked
\* of the server or of the request supplier, and a deadline need not expire.
StepFairness ==
    /\ WF_vars(Prologue)
    /\ WF_vars(Main)
    /\ WF_vars(SenderCancel)
    /\ WF_vars(SenderSend)
    /\ WF_vars(SenderStore)
    /\ WF_vars(ContextEndsStream /\ UNCHANGED <<callVars, senderVars>>)

SlowInputSpec == Spec /\ StepFairness

\* A request supplier that always answers (a file, a closed pipe).
FairSpec == SlowInputSpec /\ WF_vars(SenderNext)
-------------------------------------------------------------------------------
(* Properties. *)

\* Every request reaches the stream once, in the order of the supplier, with
\* that message's data only: the reuse of one request object never mixes two.
RequestsIntact == \A i \in 1 .. Len(wire) : wire[i] = {i}

\* InvokeRPC never waits for a sender on a stream that is still open: with
\* the receiver gone, flow control could keep such a sender blocked for good.
NoSelfDeadlock == pc = "wait" /\ ~SenderFinished => Ended

\* A status OK or a status of the server is reported only when the stream
\* ended that way and every response it produced went to the handler before.
ResponsesComplete ==
    status \in {"OK", "Failed"} => end = status /\ numResponses = produced

\* Once InvokeRPC has returned, nobody calls the request supplier or uses the
\* stream: grpcurl reads the parser's NumRequests right after the return.
QuietAfterReturn ==
    [][result # "running" => UNCHANGED <<supplied, req, wire, halfClosed>>]_vars

\* The callbacks follow the protocol of InvocationEventHandler.
Events == INSTANCE InvocationEvents
EventProtocol == Events!Spec

\* The call returns once the server, a failure of either direction or the
\* deadline has ended the stream, when the supplier always answers.
EndLeadsToReturn ==
    Ended \/ ctx = "DeadlineExceeded" ~> result # "running"

\* grpcurl.go says of -max-time that it bounds the whole operation; the deadline
\* does not end a call whose supplier blocks on stdin (SlowInputSpec).
DeadlineEndsCall == ctx = "DeadlineExceeded" ~> result # "running"

\* OnReceiveTrailers is for the status that was received; an error getting
\* request data is "another kind of error" and should be returned, not be
\* reported as the cancellation that invokeBidi itself caused.
OwnCancelNotReported == ~HasDeadline => status # "Canceled"
-------------------------------------------------------------------------------
(* Inductive invariants behind the theorems of InvokeBidiProofs. *)

\* Before a stream exists; while the receiver is at work.
Creating == pc \in {"resolve", "extensions", "create"}
Receiving == Creating \/ pc \in {"headers", "recv"}

\* The sender holds at most the one message that follows those on the wire.
SendInv ==
    /\ RequestsIntact
    /\ Creating => spc = "idle"
    /\ spc = "idle" => wire = <<>> /\ req = {} /\ supplied = 0
    /\ spc = "next" => req = {} /\ supplied = Len(wire)
    /\ spc = "send" => req = {supplied} /\ supplied = Len(wire) + 1
    /\ pc = "returned" => SenderFinished

\* A sender needs a stream; a receiver leaves a stream only when it has ended.
StreamInv ==
    /\ Creating => ~str /\ spc = "idle"
    /\ pc \in {"headers", "recv"} => str
    /\ IF str THEN end # "none" ELSE spc = "idle"
    /\ str /\ ~Receiving => Ended

\* Responses are counted; the receiver's error says how the stream ended.
ResponseInv ==
    /\ Creating => end = "none"
    /\ Receiving => numResponses + inbox = produced /\ err = "nil"
    /\ Receiving \/ pc = "report" => status = "unset"
    /\ pc \in {"report", "wait"} =>
          /\ err = "nil" => end = "OK" /\ numResponses = produced
          /\ err = "Failed" => end = "Failed" /\ numResponses = produced
    /\ {senderErr, sendErr} \subseteq {"nil", "EOF", "RequestData", "Internal"}
    /\ ResponsesComplete

\* Which callback may be the last one at each point of invokeBidi.
CallbackInv ==
    /\ result = "running" <=> pc # "returned"
    /\ pc = "resolve" => callback = "none"
    /\ pc = "extensions" => callback = "OnResolveMethod"
    /\ pc \in {"create", "headers"} => callback = "OnSendHeaders"
    /\ pc \in {"recv", "report"} => callback \in Events!InFlight
    /\ pc = "report" /\ ~str => callback = "OnSendHeaders"
    /\ pc = "wait" =>
          /\ ~IsStatus(err) => callback \in Events!InFlight
          /\ IsStatus(err) => callback \in {"OnSendHeaders", "OnReceiveTrailers"}
===============================================================================

------------------------------- MODULE CliProofs -------------------------------
(***************************************************************************)
(* Theorems about Cli, for every set of statuses and every number of       *)
(* responses: the exit code, the shutdown and the files of -protoset-out.  *)
(***************************************************************************)
EXTENDS Cli, TLAPS

(* The inductive invariants. *)

\* A status is there only after the trailers of a call that returns nil.
StatusInv ==
    /\ pc = "exited" <=> exitCode # "running"
    /\ pc \notin {"call", "exited"} =>
          result = "running" /\ callback = "none" /\ status = "unset"
    /\ pc = "call" =>
          /\ status # "unset" => callback = "OnReceiveTrailers"
          /\ result = "error" => callback # "OnReceiveTrailers"
    /\ StatusDecidesExit

\* Until main exits, what was dialled is open; reflection uses that connection.
DialInv ==
    /\ pc # "exited" =>
          /\ cc = IF dials = 0 THEN "none" ELSE "open"
          /\ refClient \in {"none", cc}
    /\ pc \in {"flags", "headers", "files", "reflection"} => dials = 0
    /\ CleanShutdown

\* Only invoke dials for itself and calls; the protoset comes before the protos.
OutputInv ==
    /\ pc \in {"dial", "call"} => flags.verb = "invoke"
    /\ pc = "protos" /\ flags.protosetOut => protosetFile = "written"
    /\ exitCode = "ok" => pc = "exited"
    /\ OutputsWritten

IInv == TypeOK /\ StatusInv /\ DialInv /\ OutputInv

\* The variables that a step leaves alone, taken apart.
USE CliAssumption DEF vars, connVars, exitVars, outVars, rpcVars

LEMMA InitInv == Init => IInv
<1> SUFFICES ASSUME Init PROVE IInv
  OBVIOUS
<1> USE DEF Init, Rpc!Init
<1>1. TypeOK
  BY DEF TypeOK, Rpc!TypeOK, Rpc!Callbacks, ExitCodes, Failures
<1>2. StatusInv
  BY DEF StatusInv, StatusDecidesExit
<1>3. DialInv
  BY DEF DialInv, CleanShutdown
<1>4. OutputInv
  BY DEF OutputInv, OutputsWritten
<1> QED
  BY <1>1, <1>2, <1>3, <1>4 DEF IInv

\* What InvokeRPC does to the state that main reads after it.
LEMMA CallEvents ==
  ASSUME Rpc!TypeOK, Rpc!Next,
         status # "unset" => callback = "OnReceiveTrailers"
  PROVE  /\ Rpc!TypeOK'
         /\ status' # "unset" => callback' = "OnReceiveTrailers"
         /\ result' = "error" => callback' # "OnReceiveTrailers"
<1> USE DEF Rpc!TypeOK, Rpc!Callbacks, Rpc!InFlight
<1>1. CASE Rpc!ResolveMethod \/ Rpc!SendHeaders \/ Rpc!ReceiveHeaders
  BY <1>1 DEF Rpc!ResolveMethod, Rpc!SendHeaders, Rpc!ReceiveHeaders, Rpc!Invoke
<1>2. CASE Rpc!ReceiveResponse \/ Rpc!ReceiveTrailers
  BY <1>2 DEF Rpc!ReceiveResponse, Rpc!ReceiveTrailers
<1>3. CASE Rpc!ReturnNil \/ Rpc!ReturnError
  BY <1>3 DEF Rpc!ReturnNil, Rpc!ReturnError
<1> QED
  BY <1>1, <1>2, <1>3 DEF Rpc!Next

LEMMA TypeStep == IInv /\ [Next]_vars => TypeOK'
<1> SUFFICES ASSUME IInv, [Next]_vars PROVE TypeOK'
  OBVIOUS
<1> USE DEF IInv, TypeOK, ExitCodes, Failures, Goto, Stop, Exit, Reset
<1>1. CASE CheckFlags \/ ExpandHeaders \/ LoadFiles
  BY <1>1 DEF CheckFlags, ExpandHeaders, LoadFiles, Rpc!TypeOK
<1>2. CASE DialForReflection \/ NoReflection
  BY <1>2 DEF DialForReflection, NoReflection, FirstStep, Rpc!TypeOK
<1>3. CASE ListNames \/ Describe
  BY <1>3 DEF ListNames, Describe, Rpc!TypeOK
<1>4. CASE WriteProtoset \/ NoProtoset \/ WriteProtos \/ NoProtos
  BY <1>4 DEF WriteProtoset, NoProtoset, WriteProtos, NoProtos, Rpc!TypeOK
<1>5. CASE DialForCall \/ ReuseConnection
  BY <1>5 DEF DialForCall, ReuseConnection, Rpc!TypeOK
<1>6. CASE Call
  BY <1>6, CallEvents DEF Call, StatusInv
<1>7. CASE CallReturnsNil \/ CallReturnsError
  BY <1>7 DEF CallReturnsNil, CallReturnsError, StatusExit, Rpc!TypeOK
<1>8. CASE Terminated \/ UNCHANGED vars
  BY <1>8 DEF Terminated, Rpc!TypeOK
<1> QED
  BY <1>1, <1>2, <1>3, <1>4, <1>5, <1>6, <1>7, <1>8 DEF Next

LEMMA StatusStep == IInv /\ [Next]_vars => StatusInv'
<1> SUFFICES ASSUME IInv, [Next]_vars PROVE StatusInv'
  OBVIOUS
<1> USE DEF IInv, StatusInv, StatusDecidesExit, Goto, Stop, Exit
<1>1. CASE CheckFlags \/ ExpandHeaders \/ LoadFiles
  BY <1>1 DEF CheckFlags, ExpandHeaders, LoadFiles
<1>2. CASE DialForReflection \/ NoReflection
  BY <1>2 DEF DialForReflection, NoReflection, FirstStep
<1>3. CASE ListNames \/ Describe
  BY <1>3 DEF ListNames, Describe
<1>4. CASE WriteProtoset \/ NoProtoset \/ WriteProtos \/ NoProtos
  BY <1>4 DEF WriteProtoset, NoProtoset, WriteProtos, NoProtos
<1>5. CASE DialForCall \/ ReuseConnection
  BY <1>5 DEF DialForCall, ReuseConnection
<1>6. CASE Call
  BY <1>6, CallEvents DEF Call, TypeOK
<1>7. CASE CallReturnsNil \/ CallReturnsError
  BY <1>7 DEF CallReturnsNil, CallReturnsError, StatusExit
<1>8. CASE Terminated \/ UNCHANGED vars
  BY <1>8 DEF Terminated
<1> QED
  BY <1>1, <1>2, <1>3, <1>4, <1>5, <1>6, <1>7, <1>8 DEF Next

LEMMA DialStep == IInv /\ [Next]_vars => DialInv'
<1> SUFFICES ASSUME IInv, [Next]_vars PROVE DialInv'
  OBVIOUS
<1> USE DEF IInv, TypeOK, DialInv, CleanShutdown, OutputInv, Goto, Stop, Exit,
            Reset
<1>1. CASE CheckFlags \/ ExpandHeaders \/ LoadFiles
  BY <1>1 DEF CheckFlags, ExpandHeaders, LoadFiles
<1>2. CASE DialForReflection
  BY <1>2 DEF DialForReflection, FirstStep, Reflects
<1>3. CASE NoReflection
  BY <1>3 DEF NoReflection, FirstStep
<1>4. CASE ListNames \/ Describe
  BY <1>4 DEF ListNames, Describe
<1>5. CASE WriteProtoset \/ NoProtoset \/ WriteProtos \/ NoProtos
  BY <1>5 DEF WriteProtoset, NoProtoset, WriteProtos, NoProtos
<1>6. CASE DialForCall \/ ReuseConnection
  BY <1>6 DEF DialForCall, ReuseConnection, NeedsConnection
<1>7. CASE Call \/ CallReturnsNil \/ CallReturnsError
  BY <1>7 DEF Call, CallReturnsNil, CallReturnsError
<1>8. CASE Terminated \/ UNCHANGED vars
  BY <1>8 DEF Terminated
<1> QED
  BY <1>1, <1>2, <1>3, <1>4, <1>5, <1>6, <1>7, <1>8 DEF Next

LEMMA OutputStep == IInv /\ [Next]_vars => OutputInv'
<1> SUFFICES ASSUME IInv, [Next]_vars PROVE OutputInv'
  OBVIOUS
<1> USE DEF IInv, StatusInv, OutputInv, OutputsWritten, Goto, Stop, Exit
<1>1. CASE CheckFlags \/ ExpandHeaders \/ LoadFiles
  BY <1>1 DEF CheckFlags, ExpandHeaders, LoadFiles
<1>2. CASE DialForReflection \/ NoReflection
  BY <1>2 DEF DialForReflection, NoReflection, FirstStep
<1>3. CASE ListNames \/ Describe
  BY <1>3 DEF ListNames, Describe
<1>4. CASE WriteProtoset \/ NoProtoset
  BY <1>4 DEF WriteProtoset, NoProtoset
<1>5. CASE WriteProtos \/ NoProtos
  BY <1>5 DEF WriteProtos, NoProtos
<1>6. CASE DialForCall \/ ReuseConnection
  BY <1>6 DEF DialForCall, ReuseConnection
<1>7. CASE Call \/ CallReturnsNil \/ CallReturnsError
  BY <1>7 DEF Call, CallReturnsNil, CallReturnsError
<1>8. CASE Terminated \/ UNCHANGED vars
  BY <1>8 DEF Terminated
<1> QED
  BY <1>1, <1>2, <1>3, <1>4, <1>5, <1>6, <1>7, <1>8 DEF Next

LEMMA Invariant == Spec => []IInv
<1>1. IInv /\ [Next]_vars => IInv'
  BY TypeStep, StatusStep, DialStep, OutputStep DEF IInv
<1> QED
  BY InitInv, <1>1, PTL DEF Spec
-------------------------------------------------------------------------------
\* The state of the command stays in its types.
THEOREM TypeCorrect == Spec => []TypeOK
  BY Invariant, PTL DEF IInv

\* The exit code is 64 plus that of a status exactly when there is one that is
\* not OK: the switch at the end of main and the os.Exit of -format-error.
THEOREM ExitCodeIsStatus == Spec => []StatusDecidesExit
<1>1. IInv => StatusDecidesExit
  BY DEF IInv, StatusInv
<1> QED
  BY <1>1, Invariant, PTL

\* No way out of main leaves a connection or a reflection client open, and there
\* is at most one connection.
THEOREM EverythingIsClosed == Spec => []CleanShutdown
<1>1. IInv => CleanShutdown
  BY DEF IInv, DialInv
<1> QED
  BY <1>1, Invariant, PTL

\* list and describe succeed only when the files asked for have been written.
THEOREM SuccessMeansWritten == Spec => []OutputsWritten
<1>1. IInv => OutputsWritten
  BY DEF IInv, OutputInv
<1> QED
  BY <1>1, Invariant, PTL
===============================================================================

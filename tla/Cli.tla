---------------------------------- MODULE Cli ----------------------------------
(***************************************************************************)
(* The grpcurl command (cmd/grpcurl/grpcurl.go): from its flags through the*)
(* descriptor source, the connection and the verb to the exit code.  The   *)
(* call of an RPC is InvocationEvents, which InvokeBidi and InvokeCalls    *)
(* implement; its callbacks arrive at DefaultEventHandler (format.go).     *)
(***************************************************************************)
EXTENDS Naturals

CONSTANTS
    Statuses,       \* the gRPC statuses a call can end with
    MaxResponses    \* bound on the responses of a call

ASSUME CliAssumption == "OK" \in Statuses /\ MaxResponses \in Nat

VARIABLES
    flags,          \* the command line, as far as control depends on it
    pc,             \* where main is
    cc,             \* the connection: "none", "open" or "closed"
    refClient,      \* the reflection client: "none", "open" or "reset"
    dials,          \* connections asked for
    protosetFile,   \* the -protoset-out file: "untouched", "empty", "written"
    protosWritten,  \* have the .proto files of -proto-out-dir been written?
    exitCode,       \* "running", or the class of the exit code
    why,            \* what failed, when exitCode is "fail"
    callback, numResponses, status, result      \* see InvocationEvents

connVars == <<cc, refClient, dials>>
exitVars == <<exitCode, why>>
outVars == <<protosetFile, protosWritten>>
rpcVars == <<callback, numResponses, status, result>>
vars == <<flags, pc, connVars, outVars, exitVars, rpcVars>>

Rpc == INSTANCE InvocationEvents

Flags == [verb : {"list", "describe", "invoke"},
          symbol : BOOLEAN,                     \* is a symbol given?
          target : BOOLEAN,                     \* is an address given?
          files : {"none", "protoset", "proto", "both"},
          useReflection : {"unset", "true", "false"},
          protosetOut : BOOLEAN,
          protoOut : BOOLEAN,
          formatError : BOOLEAN,
          expandHeaders : BOOLEAN,
          invalid : BOOLEAN]                    \* any other flag error

\* Exit codes 0, 1, 2, and 64 plus the gRPC code.
ExitCodes == {"ok", "fail", "usage", "status"}

Failures == {"none", "headers", "files", "dial", "names", "symbol", "protoset",
             "protos", "emptySymbol", "invoke"}

TypeOK ==
    /\ flags \in Flags
    /\ pc \in {"flags", "headers", "files", "reflection", "names", "describe",
               "protoset", "protos", "dial", "call", "exited"}
    /\ cc \in {"none", "open", "closed"}
    /\ refClient \in {"none", "open", "reset"}
    /\ dials \in Nat
    /\ protosetFile \in {"untouched", "empty", "written"}
    /\ protosWritten \in BOOLEAN
    /\ exitCode \in {"running"} \cup ExitCodes
    /\ why \in Failures
    /\ Rpc!TypeOK

Init ==
    /\ flags \in Flags
    /\ pc = "flags"
    /\ cc = "none"
    /\ refClient = "none"
    /\ dials = 0
    /\ protosetFile = "untouched"
    /\ protosWritten = FALSE
    /\ exitCode = "running"
    /\ why = "none"
    /\ Rpc!Init

Goto(next) == pc' = next /\ UNCHANGED exitVars

Stop(code, failure) ==
    /\ pc' = "exited"
    /\ exitCode' = code
    /\ why' = failure

\* Reflection client first, then the connection.  It is deferred, and part of
\* exit from the moment it is set up.
\* Mutant: a connection that reflection did not make is forgotten.
ResetReflection ==
    /\ refClient' = IF refClient = "open" THEN "reset" ELSE refClient
    /\ cc' = IF refClient = "open" THEN "closed" ELSE cc
    /\ UNCHANGED dials
Reset ==
    /\ refClient' = IF refClient = "open" THEN "reset" ELSE refClient
    /\ cc' = IF cc = "open" THEN "closed" ELSE cc
    /\ UNCHANGED dials

\* The end of main, fail or exit, once the verb has been reached.
Exit(code, failure) == Stop(code, failure) /\ Reset
-------------------------------------------------------------------------------
(* Flags, descriptor files, reflection.  A failure here exits at once. *)

UsageError ==
    \/ flags.invalid
    \/ flags.verb = "invoke" /\ ~(flags.symbol /\ flags.target)
    \/ flags.files = "none" /\ ~flags.target
    \/ flags.files = "both"
    \/ flags.files = "none" /\ flags.useReflection = "false"

\* Descriptor files turn reflection off, unless it is asked for.
Reflects ==
    \/ flags.useReflection = "true"
    \/ flags.useReflection = "unset" /\ flags.files = "none"

CheckFlags ==
    /\ pc = "flags"
    /\ IF UsageError THEN Stop("usage", "none") ELSE Goto("headers")
    /\ UNCHANGED <<flags, connVars, outVars, rpcVars>>

\* A header that names a variable missing from the environment ends main here.
ExpandHeaders ==
    /\ pc = "headers"
    /\ \/ Goto("files")
       \/ flags.expandHeaders /\ Stop("fail", "headers")
    /\ UNCHANGED <<flags, connVars, outVars, rpcVars>>

LoadFiles ==
    /\ pc = "files"
    /\ \/ Goto("reflection")
       \/ flags.files # "none" /\ Stop("fail", "files")
    /\ UNCHANGED <<flags, connVars, outVars, rpcVars>>

FirstStep == IF flags.verb = "invoke" THEN "dial" ELSE "names"

\* fail leaves by os.Exit here, there is nothing to reset yet.  An empty
\* address is dialled too, without success.
DialForReflection ==
    /\ pc = "reflection"
    /\ Reflects
    /\ dials' = dials + 1
    /\ \/ /\ flags.target
          /\ cc' = "open" /\ refClient' = "open" /\ Goto(FirstStep)
       \/ UNCHANGED <<cc, refClient>> /\ Stop("fail", "dial")
    /\ UNCHANGED <<flags, outVars, rpcVars>>

NoReflection ==
    /\ pc = "reflection"
    /\ ~Reflects
    /\ Goto(FirstStep)
    /\ UNCHANGED <<flags, connVars, outVars, rpcVars>>
-------------------------------------------------------------------------------
(* The list and describe verbs. *)

\* ListServices, or ListMethods of the symbol; describe has its own symbol.
ListNames ==
    /\ pc = "names"
    /\ \/ /\ Goto(IF flags.verb = "list" THEN "protoset" ELSE "describe")
          /\ UNCHANGED connVars
       \/ /\ flags.verb = "list" \/ ~flags.symbol
          /\ Exit("fail", "names")
    /\ UNCHANGED <<flags, outVars, rpcVars>>

\* FindSymbol and the text of each symbol.
Describe ==
    /\ pc = "describe"
    /\ \/ Goto("protoset") /\ UNCHANGED connVars
       \/ Exit("fail", "symbol")
    /\ UNCHANGED <<flags, outVars, rpcVars>>

\* os.Create empties the file before the descriptors are looked up.
\* Mutant: the error of writeProtoset is dropped.
WriteProtosetUnchecked ==
    /\ pc = "protoset"
    /\ flags.protosetOut
    /\ protosetFile' \in {"untouched", "empty", "written"}
    /\ Goto("protos")
    /\ UNCHANGED <<flags, connVars, protosWritten, rpcVars>>
WriteProtoset ==
    /\ pc = "protoset"
    /\ flags.protosetOut
    /\ \/ protosetFile' = "written" /\ Goto("protos") /\ UNCHANGED connVars
       \/ /\ protosetFile' \in {"untouched", "empty"}
          /\ Exit("fail", "protoset")
    /\ UNCHANGED <<flags, protosWritten, rpcVars>>

NoProtoset ==
    /\ pc = "protoset"
    /\ ~flags.protosetOut
    /\ Goto("protos")
    /\ UNCHANGED <<flags, connVars, outVars, rpcVars>>

\* list passes the names it listed; describe passes the symbol of the command
\* line, which is empty when it describes everything.
PassesSymbol == flags.verb = "list" \/ flags.symbol

WriteProtos ==
    /\ pc = "protos"
    /\ flags.protoOut
    /\ \/ PassesSymbol /\ protosWritten' = TRUE /\ Exit("ok", "none")
       \/ PassesSymbol /\ UNCHANGED protosWritten /\ Exit("fail", "protos")
       \/ ~PassesSymbol /\ UNCHANGED protosWritten /\ Exit("fail", "emptySymbol")
    /\ UNCHANGED <<flags, protosetFile, rpcVars>>

NoProtos ==
    /\ pc = "protos"
    /\ ~flags.protoOut
    /\ Exit("ok", "none")
    /\ UNCHANGED <<flags, outVars, rpcVars>>
-------------------------------------------------------------------------------
(* Invoking an RPC. *)

NeedsConnection == cc = "none"

DialForCall ==
    /\ pc = "dial"
    /\ NeedsConnection
    /\ dials' = dials + 1
    /\ \/ cc' = "open" /\ Goto("call") /\ UNCHANGED refClient
       \/ /\ Stop("fail", "dial")
          /\ refClient' = IF refClient = "open" THEN "reset" ELSE refClient
          /\ cc' = IF cc = "open" THEN "closed" ELSE cc
    /\ UNCHANGED <<flags, outVars, rpcVars>>

ReuseConnection ==
    /\ pc = "dial"
    /\ ~NeedsConnection
    /\ Goto("call")
    /\ UNCHANGED <<flags, connVars, outVars, rpcVars>>

\* InvokeRPC runs; DefaultEventHandler counts responses and keeps the status.
Call ==
    /\ pc = "call"
    /\ Rpc!Next
    /\ numResponses' <= MaxResponses
    /\ UNCHANGED <<flags, pc, connVars, outVars, exitVars>>

\* The exit code of a status; a nil status has the code OK.
\* Mutants: no offset, and no exit at all.
StatusExitRaw(s) == s
StatusExitNever(s) == "ok"
StatusExit(s) == IF s \in {"unset", "OK"} THEN "ok" ELSE "status"

CallReturnsNil ==
    /\ pc = "call"
    /\ result = "nil"
    /\ Exit(StatusExit(status), "none")
    /\ UNCHANGED <<flags, outVars, rpcVars>>

\* Only an error of the reflection service, before the method is resolved, is
\* a gRPC status; with -format-error it is treated like the status of a call.
CallReturnsError ==
    /\ pc = "call"
    /\ result = "error"
    /\ \/ /\ flags.formatError /\ callback = "none"
          /\ status' \in Statuses \ {"OK"}
          /\ Exit(StatusExit(status'), "none")
       \/ Exit("fail", "invoke") /\ UNCHANGED status
    /\ UNCHANGED <<flags, outVars, callback, numResponses, result>>
-------------------------------------------------------------------------------
Terminated == pc = "exited" /\ UNCHANGED vars

Next ==
    \/ CheckFlags
    \/ ExpandHeaders
    \/ LoadFiles
    \/ DialForReflection
    \/ NoReflection
    \/ ListNames
    \/ Describe
    \/ WriteProtoset
    \/ NoProtoset
    \/ WriteProtos
    \/ NoProtos
    \/ DialForCall
    \/ ReuseConnection
    \/ Call
    \/ CallReturnsNil
    \/ CallReturnsError
    \/ Terminated

Spec == Init /\ [][Next]_vars
-------------------------------------------------------------------------------
(* Properties. *)

\* A call that was given a status other than OK exits with 64 plus its code,
\* never with the 0, 1 or 2 of grpcurl itself, and no other call does.
StatusDecidesExit ==
    pc = "exited" => (exitCode = "status" <=> status \notin {"unset", "OK"})

\* Whatever the way out, the connection and the reflection client are shut
\* down when they exist, although os.Exit runs no deferred function.  There is
\* one connection to shut down: reflection and the call share it, and list and
\* describe with descriptor files alone stay off the network.
CleanShutdown ==
    /\ pc = "exited" => cc # "open" /\ refClient # "open"
    /\ dials <= 1
    /\ (flags.verb # "invoke" /\ flags.files # "none"
            /\ flags.useReflection # "true") => dials = 0

\* list and describe exit with 0 only after writing all that was asked for.
OutputsWritten ==
    exitCode = "ok" /\ flags.verb # "invoke" =>
        /\ flags.protosetOut => protosetFile = "written"
        /\ flags.protoOut => protosWritten

\* The help of -protoset-out and -proto-out-dir promises the files of the
\* invoked method as well.
OutputsWrittenByInvoke ==
    exitCode = "ok" /\ flags.verb = "invoke" =>
        /\ flags.protosetOut => protosetFile = "written"
        /\ flags.protoOut => protosWritten
===============================================================================

--------------------------------- MODULE Dial ---------------------------------
(***************************************************************************)
(* BlockingDial (grpcurl.go): a ClientConn that connects in the background,*)
(* credentials and a dialer that signal its errors, a goroutine that polls *)
(* its state, and a caller that takes the first of their results or gives  *)
(* up with its context.                                                    *)
(***************************************************************************)
EXTENDS Naturals, Credentials

CONSTANT MaxAttempts    \* bound on the connection attempts explored

ASSUME DialAssumption == MaxAttempts \in Nat

VARIABLES
    caller,     \* "start", "connected", "select" or "returned"
    outcome,    \* what BlockingDial returned, "none" before
    ctx,        \* "live" or "done"
    network,    \* "default" (grpc's own dialer) or "custom"
    result,     \* the channel of capacity one: "empty" or what is in it
    first,      \* the first result ever written, "none" before
    failure,    \* history: the first failure that BlockingDial is to hear of
    poller,     \* "none", "look", "signal", "watch" or "done"
    seen,       \* the connectivity state the poller saw last
    conn,       \* the connectivity state of the ClientConn
    attempt,    \* "none", "requested", "dial", "handshake" or "settings"
    attempts,   \* connection attempts so far
    given,      \* the flags of the command
    creds,      \* the transport credentials
    peer        \* the server of the connection, if there is one

callerVars == <<caller, outcome, network>>
pollerVars == <<poller, seen>>
connVars == <<conn, attempt, attempts, peer>>
credsVars == <<given, creds>>
resultVars == <<result, first>>
vars == <<callerVars, ctx, resultVars, failure, pollerVars, connVars, credsVars>>

Errors == {"connectError", "handshakeError"}
Results == {"conn"} \cup Errors
States == {"none", "idle", "connecting", "ready", "failure"}

TypeOK ==
    /\ caller \in {"start", "connected", "select", "returned"}
    /\ outcome \in {"none", "configError", "ctxError"} \cup Results
    /\ outcome # "none" <=> caller = "returned"
    /\ ctx \in {"live", "done"}
    /\ network \in {"default", "custom"}
    /\ result \in {"empty"} \cup Results
    /\ first \in {"none"} \cup Results
    /\ failure \in {"none"} \cup Errors
    /\ poller \in {"none", "look", "signal", "watch", "done"}
    /\ seen \in States
    /\ conn \in States
    /\ attempt \in {"none", "requested", "dial", "handshake", "settings"}
    /\ attempts \in 0 .. MaxAttempts
    /\ given \in Given
    /\ peer \subseteq Peers
    /\ conn = "ready" \/ attempt = "settings" <=> peer # {}

Init ==
    /\ caller = "start"
    /\ outcome = "none"
    /\ ctx = "live"
    /\ network \in {"default", "custom"}
    /\ result = "empty"
    /\ first = "none"
    /\ failure = "none"
    /\ poller = "none"
    /\ seen = "none"
    /\ conn = "none"
    /\ attempt = "none"
    /\ attempts = 0
    /\ given \in {g \in Given : Usable(g)}
    /\ creds = [type |-> "none"]
    /\ peer = {}

\* writeResult never blocks; a result that finds the channel full is lost.
\* Mutants: the latest result replaces the one that waits; the channel has no
\* buffer, so that a result is lost unless the caller is receiving already.
ReplaceResult(r) ==
    /\ result' = r
    /\ first' = IF first = "none" THEN r ELSE first
WriteUnbuffered(r) ==
    /\ result' = IF result = "empty" /\ caller = "select" THEN r ELSE result
    /\ first' = IF first = "none" THEN r ELSE first
WriteResult(r) ==
    /\ result' = IF result = "empty" THEN r ELSE result
    /\ first' = IF first = "none" THEN r ELSE first
-------------------------------------------------------------------------------
(* The goroutine that called BlockingDial. *)

Return(o) == caller' = "returned" /\ outcome' = o /\ UNCHANGED network

\* Files of the credentials, two names for the server, xDS credentials, a unix
\* address for tcp, or NewClient fails.
RejectConfig ==
    /\ caller = "start"
    /\ Return("configError")
    /\ UNCHANGED <<failure, ctx, resultVars, pollerVars, connVars, credsVars>>

\* main's dial makes the credentials; then NewClient, conn.Connect and the start
\* of the polling goroutine.
Connect ==
    /\ caller = "start"
    /\ caller' = "connected"
    /\ creds' = CredentialsFor(given)
    /\ conn' = "idle"
    /\ attempt' = "requested"
    /\ poller' = "look"
    /\ UNCHANGED <<failure, outcome, network, ctx, resultVars, seen, attempts>>
    /\ UNCHANGED <<given, peer>>

WaitForResult ==
    /\ caller = "connected"
    /\ caller' = "select"
    /\ UNCHANGED <<failure, outcome, network, ctx, resultVars, pollerVars>>
    /\ UNCHANGED <<connVars, credsVars>>

TakeResult ==
    /\ caller = "select"
    /\ result # "empty"
    /\ Return(result)
    /\ result' = "empty"
    /\ UNCHANGED <<failure, ctx, first, pollerVars, connVars, credsVars>>

\* Mutant: neither a connection nor an error is returned.
GiveUpEmptyHanded ==
    /\ caller = "select"
    /\ ctx = "done"
    /\ Return("none")
    /\ UNCHANGED <<failure, ctx, resultVars, pollerVars, connVars, credsVars>>
GiveUp ==
    /\ caller = "select"
    /\ ctx = "done"
    /\ Return("ctxError")
    /\ UNCHANGED <<failure, ctx, resultVars, pollerVars, connVars, credsVars>>

\* The connect timeout, or the caller's cancel once BlockingDial is over.
ContextEnds ==
    /\ ctx = "live"
    /\ ctx' = "done"
    /\ UNCHANGED <<failure, callerVars, resultVars>>
    /\ UNCHANGED <<pollerVars, connVars, credsVars>>
-------------------------------------------------------------------------------
(* The polling goroutine.  Nobody closes the ClientConn before BlockingDial *)
(* returns it, so that it never sees Shutdown.                              *)

PollerLooks ==
    /\ poller = "look"
    /\ seen' = conn
    /\ poller' = IF conn = "ready" THEN "signal" ELSE "watch"
    /\ UNCHANGED <<failure, callerVars, ctx, resultVars, connVars, credsVars>>

PollerSignals ==
    /\ poller = "signal"
    /\ WriteResult("conn")
    /\ poller' = "done"
    /\ UNCHANGED <<failure, callerVars, ctx, seen, connVars, credsVars>>

\* WaitForStateChange: any change of state, or the end of the context.
\* Mutant: the poller waits without the context.
PollerWakesOnChange ==
    /\ poller = "watch"
    /\ conn # seen /\ poller' = "look"
    /\ UNCHANGED <<failure, callerVars, ctx, resultVars, seen>>
    /\ UNCHANGED <<connVars, credsVars>>
PollerWakes ==
    /\ poller = "watch"
    /\ \/ conn # seen /\ poller' = "look"
       \/ ctx = "done" /\ poller' = "done"
    /\ UNCHANGED <<failure, callerVars, ctx, resultVars, seen>>
    /\ UNCHANGED <<connVars, credsVars>>
-------------------------------------------------------------------------------
(* The ClientConn. *)

\* It tries the next address at once, or waits and begins again.
NextAttempt ==
    /\ peer' = {}
    /\ \/ /\ attempts < MaxAttempts
          /\ attempt' = "dial"
          /\ attempts' = attempts + 1
          /\ UNCHANGED conn
       \/ /\ attempt' = "requested"
          /\ conn' = "failure"
          /\ UNCHANGED attempts

BeginAttempt ==
    /\ attempt = "requested"
    /\ attempts < MaxAttempts
    /\ attempt' = "dial"
    /\ attempts' = attempts + 1
    /\ conn' = "connecting"
    /\ UNCHANGED <<failure, callerVars, ctx, resultVars, pollerVars, credsVars>>
    /\ UNCHANGED peer

DialSucceeds ==
    /\ attempt = "dial"
    /\ attempt' = "handshake"
    /\ UNCHANGED <<failure, callerVars, ctx, resultVars, pollerVars, credsVars>>
    /\ UNCHANGED <<conn, attempts, peer>>

Fails(error) == failure' = IF failure = "none" THEN error ELSE failure

\* Only the custom dialer signals an error; grpc's own keeps it to itself.
DialFails ==
    /\ attempt = "dial"
    /\ IF network = "custom"
       THEN WriteResult("connectError") /\ Fails("connectError")
       ELSE UNCHANGED <<resultVars, failure>>
    /\ NextAttempt
    /\ UNCHANGED <<callerVars, ctx, pollerVars, credsVars>>

\* errSignalingCreds.ClientHandshake, for a server that is not accepted or gone.
\* Mutant: the error is not signalled.
HandshakeFailsSilently ==
    /\ attempt = "handshake" /\ creds.type # "insecure"
    /\ Fails("handshakeError")
    /\ NextAttempt
    /\ UNCHANGED <<callerVars, ctx, resultVars, pollerVars, credsVars>>
HandshakeFails ==
    /\ attempt = "handshake" /\ creds.type # "insecure"
    /\ WriteResult("handshakeError")
    /\ Fails("handshakeError")
    /\ NextAttempt
    /\ UNCHANGED <<callerVars, ctx, pollerVars, credsVars>>

HandshakeSucceeds ==
    /\ attempt = "handshake"
    /\ attempt' = "settings"
    /\ \E p \in Peers :
          /\ Accepts(creds, Authority(given), p)
          /\ peer' = {p}
    /\ UNCHANGED <<failure, callerVars, ctx, resultVars, pollerVars, credsVars>>
    /\ UNCHANGED <<conn, attempts>>

\* The server's HTTP/2 settings; without them the connection fails in silence.
SettingsArrive ==
    /\ attempt = "settings"
    /\ attempt' = "none"
    /\ conn' = "ready"
    /\ UNCHANGED <<failure, callerVars, ctx, resultVars, pollerVars, credsVars>>
    /\ UNCHANGED <<attempts, peer>>

NoSettings ==
    /\ attempt = "settings"
    /\ NextAttempt
    /\ UNCHANGED <<failure, callerVars, ctx, resultVars, pollerVars, credsVars>>

\* A lost connection goes idle; nobody asks for a new one here.
ConnectionLost ==
    /\ conn = "ready"
    /\ conn' = "idle"
    /\ peer' = {}
    /\ UNCHANGED <<failure, callerVars, ctx, resultVars, pollerVars, credsVars>>
    /\ UNCHANGED <<attempt, attempts>>
-------------------------------------------------------------------------------
Caller == RejectConfig \/ Connect \/ WaitForResult \/ TakeResult \/ GiveUp

Poller == PollerLooks \/ PollerSignals \/ PollerWakes

ClientConn ==
    \/ BeginAttempt
    \/ DialSucceeds
    \/ DialFails
    \/ HandshakeFails
    \/ HandshakeSucceeds
    \/ SettingsArrive
    \/ NoSettings
    \/ ConnectionLost

Terminated ==
    /\ caller = "returned"
    /\ poller \in {"none", "done"}
    /\ UNCHANGED vars

Next == Caller \/ Poller \/ ClientConn \/ ContextEnds \/ Terminated

Spec == Init /\ [][Next]_vars

\* The goroutines of BlockingDial run; the connect timeout need not expire.
FairSpec == Spec /\ WF_vars(Caller) /\ WF_vars(Poller)
-------------------------------------------------------------------------------
(* Properties. *)

\* BlockingDial returns the first thing that was signalled, never a later one:
\* a TLS error is not hidden by the retry that follows it.  A connection was
\* seen ready by a poller that is gone, and does not watch what the caller owns.
FirstResultWins ==
    /\ outcome \in Results => outcome = first
    /\ outcome = "conn" => poller = "done" /\ seen = "ready"

\* BlockingDial hears of what fails although the ClientConn retries behind its
\* back: after a failed TLS handshake, or an error of its own dialer, it never
\* returns the connection that a later attempt made, nor a later error; the first
\* error waits for it, also when nobody was receiving, and only the context can be
\* faster.
FailureReported ==
    /\ outcome \in Results =>
          outcome = IF failure = "none" THEN "conn" ELSE failure
    /\ caller # "returned" /\ failure # "none" => result = failure

\* BlockingDial ends with its context, whatever the connection does, and so does
\* its polling goroutine: a dial that failed leaves none behind.  (main's dial
\* cancels the context when it returns.)
ContextEndsDial ==
    ctx = "done" ~> caller = "returned" /\ poller \in {"none", "done"}

\* Without the timeout, the dial ends once a result was signalled, even before
\* the caller has begun to wait for it, and once a connection stays ready.
SignalEndsDial ==
    /\ first # "none" ~> caller = "returned"
    /\ (<>[](conn = "ready")) => <>(caller = "returned")

\* A connection gets ready only with a server that honours all flags about trust
\* that its transport uses, by this very handshake, whatever was accepted or
\* refused before.  Only the flags of Unused may be without effect, and main
\* accepts some of those in vain.
ReadyMeansVerified ==
    conn = "ready" => \E p \in Peers : peer = {p} /\ Honours(given, creds, p)
===============================================================================

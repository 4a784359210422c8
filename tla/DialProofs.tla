------------------------------ MODULE DialProofs ------------------------------
(***************************************************************************)
(* Proofs about Dial and Credentials: types, the first result and the first*)
(* failure, and the servers that a connection is ready with.               *)
(***************************************************************************)
EXTENDS Dial, TLAPS

\* The credentials that the code derives from the flags accept only servers that
\* honour each flag but those of Unused, for every command line that passes the
\* checks of main and every server.
LEMMA AcceptedHonours ==
    ASSUME NEW g \in Given, Usable(g), NEW p \in Peers,
           Accepts(CredentialsFor(g), Authority(g), p)
    PROVE  Honours(g, CredentialsFor(g), p)
<1> DEFINE c == CredentialsFor(g)
<1>1. CASE "plaintext" \in g
  BY <1>1 DEF Honours, Unused, Asks, UseTls, Usable, Exclusive, Requires
<1>2. CASE "plaintext" \notin g /\ "alts" \in g
  <2>1. c.type = "alts" /\ c.accounts = IF "alts-target-service-account" \in g
                                         THEN {"expected"} ELSE {}
    BY <1>2 DEF CredentialsFor, UseTls
  <2>2. "alts-target-service-account" \in g => p.account = "expected"
    BY <2>1 DEF Accepts
  <2> QED
    BY <1>2, <2>2 DEF Honours, Unused, Asks, Usable, UseTls, Requires
<1>3. CASE UseTls(g) /\ "spiffe-id" \in g
  <2>1. /\ c.type = "tls" /\ c.skip = TRUE /\ c.verify = TRUE
        /\ c.roots = IF "spiffe-workload-api" \in g THEN "workload"
                    ELSE IF "spiffe-bundle" \in g THEN "bundle"
                    ELSE IF "cacert" \in g THEN "cacert" ELSE "system"
        /\ "spiffe-workload-api" \notin g =>
              c.certificate = IF "cert" \in g THEN "cert" ELSE "none"
    BY <1>3 DEF CredentialsFor, UseTls, ClientTLSConfigForSPIFFE, KeyPair, Anchor,
                ClientTLSConfigWithSPIFFEBundle, ClientTLSConfigFromWorkloadAPI,
                TlsConfig
  <2>2. p.issuer = c.roots /\ p.ids = {"spiffe-id"}
    BY <2>1 DEF Accepts, VerifyPeerCertificate
  <2>3. /\ Exclusive(g, "spiffe-bundle", "cacert")
        /\ Exclusive(g, "spiffe-workload-api", "cert")
        /\ Exclusive(g, "spiffe-workload-api", "cacert")
        /\ Exclusive(g, "spiffe-workload-api", "spiffe-bundle")
        /\ Requires(g, "alts-target-service-account", "alts")
    BY DEF Usable
  <2>4. Unused(g) = {"insecure", "servername", "authority"}
    BY <1>3 DEF Unused
  <2>5. \A flag \in g \ Unused(g) : Asks(flag, c, p)
    BY <1>3, <2>1, <2>2, <2>3, <2>4 DEF Asks, UseTls, Exclusive, Requires
  <2>6. {"cacert", "spiffe-bundle", "spiffe-workload-api"} \cap (g \ Unused(g)) = {}
           => p.issuer = "system"
    BY <2>1, <2>2, <2>4
  <2> QED
    BY <1>3, <2>4, <2>5, <2>6 DEF Honours
<1>4. CASE UseTls(g) /\ "spiffe-id" \notin g
  <2>1. /\ c.type = "tls" /\ c.skip = ("insecure" \in g)
        /\ c.roots = IF "insecure" \in g THEN "system"
                    ELSE IF "cacert" \in g THEN "cacert" ELSE "system"
        /\ c.certificate = IF "cert" \in g THEN "cert" ELSE "none"
    BY <1>4 DEF CredentialsFor, UseTls, ClientTLSConfig, TlsConfig, KeyPair, Anchor
  <2>2. "insecure" \notin g => p.issuer = c.roots /\ p.name = Authority(g)
    BY <2>1 DEF Accepts
  <2>3. /\ Requires(g, "spiffe-bundle", "spiffe-id")
        /\ Requires(g, "spiffe-workload-api", "spiffe-id")
        /\ Requires(g, "alts-target-service-account", "alts")
        /\ Exclusive(g, "authority", "servername")
    BY <1>4 DEF Usable
  <2>4. Unused(g) = IF "insecure" \in g THEN {"cacert", "servername", "authority"}
                    ELSE {}
    BY <1>4 DEF Unused
  <2>5. Authority(g) = IF "servername" \in g THEN "servername"
                       ELSE IF "authority" \in g THEN "authority" ELSE "target"
    BY <1>4 DEF Authority, UseTls
  <2>6. \A flag \in g \ Unused(g) : Asks(flag, c, p)
    BY <1>4, <2>1, <2>2, <2>3, <2>4, <2>5 DEF Asks, UseTls, Exclusive, Requires
  <2> QED
    BY <1>4, <2>1, <2>2, <2>3, <2>4, <2>5, <2>6 DEF Honours, UseTls, Requires
<1> QED
  BY <1>1, <1>2, <1>3, <1>4 DEF UseTls
-------------------------------------------------------------------------------
(* The inductive invariants. *)

\* The connection and its server: nothing happens before the credentials are
\* made, and a server is there exactly after a handshake that accepted it.
ConnInv ==
    /\ Usable(given)
    /\ caller = "start" => attempt = "none" /\ conn = "none"
    /\ attempt # "none" \/ conn = "ready" => creds = CredentialsFor(given)
    /\ conn = "ready" => attempt = "none"
    /\ peer # {} => \E p \in Peers :
          peer = {p} /\ Accepts(creds, Authority(given), p)

\* The channel holds the first result until the caller takes it, and that is the
\* first failure, if there is one.  A connection is a result only of a poller that
\* has seen it ready and ended; no attempt is made any more then, so that nothing
\* fails after it.
ResultInv ==
    /\ caller # "returned" =>
          result = first \/ (result = "empty" /\ first = "none")
    /\ poller = "none" <=> caller = "start" \/ outcome = "configError"
    /\ poller = "signal" => seen = "ready"
    /\ seen = "ready" => attempt = "none" /\ caller # "start"
    /\ first \in Errors => failure = first
    /\ failure # "none" => first = failure
    /\ first = "conn" => poller = "done" /\ seen = "ready"
    /\ outcome \in Results => outcome = first

IInv == TypeOK /\ ConnInv /\ ResultInv

USE DialAssumption

LEMMA InitInv == Init => IInv
  BY DEF Init, IInv, TypeOK, ConnInv, ResultInv, States, Results, Errors

\* Every step keeps the invariant.  The caller's own steps come first, then those
\* of the poller, and those of the ClientConn, which may signal an error.
LEMMA StepInv == IInv /\ [Next]_vars => IInv'
<1> SUFFICES ASSUME IInv, [Next]_vars PROVE IInv'
  OBVIOUS
<1> USE DEF IInv, TypeOK, ConnInv, ResultInv, States, Results, Errors
<1>1. CASE RejectConfig
  BY <1>1 DEF RejectConfig, Return, resultVars, pollerVars, connVars, credsVars
<1>2. CASE Connect
  BY <1>2 DEF Connect, resultVars
<1>3. CASE WaitForResult
  BY <1>3 DEF WaitForResult, resultVars, pollerVars, connVars, credsVars
<1>4. CASE TakeResult
  BY <1>4 DEF TakeResult, Return, pollerVars, connVars, credsVars
<1>5. CASE GiveUp
  BY <1>5 DEF GiveUp, Return, resultVars, pollerVars, connVars, credsVars
<1>6. CASE ContextEnds
  BY <1>6 DEF ContextEnds, callerVars, resultVars, pollerVars, connVars, credsVars
<1>7. CASE PollerLooks
  BY <1>7 DEF PollerLooks, callerVars, resultVars, connVars, credsVars
<1>8. CASE PollerSignals
  BY <1>8 DEF PollerSignals, WriteResult, callerVars, connVars, credsVars
<1>9. CASE PollerWakes
  BY <1>9 DEF PollerWakes, callerVars, resultVars, connVars, credsVars
<1>10. CASE BeginAttempt
  BY <1>10 DEF BeginAttempt, callerVars, resultVars, pollerVars, credsVars
<1>11. CASE DialSucceeds
  BY <1>11 DEF DialSucceeds, callerVars, resultVars, pollerVars, credsVars
<1>12. CASE DialFails
  BY <1>12 DEF DialFails, Fails, NextAttempt, WriteResult, callerVars, resultVars,
               pollerVars, credsVars
<1>13. CASE HandshakeFails
  BY <1>13 DEF HandshakeFails, Fails, NextAttempt, WriteResult, callerVars,
               pollerVars, credsVars
<1>14. CASE HandshakeSucceeds
  BY <1>14 DEF HandshakeSucceeds, callerVars, resultVars, pollerVars, credsVars
<1>15. CASE SettingsArrive
  BY <1>15 DEF SettingsArrive, callerVars, resultVars, pollerVars, credsVars
<1>16. CASE NoSettings
  BY <1>16 DEF NoSettings, NextAttempt, callerVars, resultVars, pollerVars,
               credsVars
<1>17. CASE ConnectionLost
  BY <1>17 DEF ConnectionLost, callerVars, resultVars, pollerVars, credsVars
<1>18. CASE UNCHANGED vars
  BY <1>18 DEF vars, callerVars, resultVars, pollerVars, connVars, credsVars
<1> QED
  BY <1>1, <1>2, <1>3, <1>4, <1>5, <1>6, <1>7, <1>8, <1>9, <1>10, <1>11, <1>12,
     <1>13, <1>14, <1>15, <1>16, <1>17, <1>18
     DEF Next, Caller, Poller, ClientConn, Terminated

LEMMA Invariant == Spec => []IInv
<1>1. Init => IInv
  BY InitInv
<1>2. IInv /\ [Next]_vars => IInv'
  BY StepInv
<1> QED
  BY <1>1, <1>2, PTL DEF Spec
-------------------------------------------------------------------------------
\* The state of BlockingDial and of its connection stays in its types, for every
\* bound on attempts and any flags and servers.
THEOREM TypeCorrect == Spec => []TypeOK
<1>1. IInv => TypeOK
  BY DEF IInv
<1> QED
  BY <1>1, Invariant, PTL

\* BlockingDial returns the first thing that was signalled, and a connection only
\* after its poller has seen it ready and gone.
THEOREM FirstResultReturned == Spec => []FirstResultWins
<1>1. IInv => FirstResultWins
  BY DEF IInv, ResultInv, FirstResultWins, Results
<1> QED
  BY <1>1, Invariant, PTL

\* A connection is ready only with a server that honours every flag about trust
\* that its transport uses, for every command line that main allows and every
\* server; the flags of Unused are the exception, and main accepts some in vain.
THEOREM ReadyIsVerified == Spec => []ReadyMeansVerified
<1>1. IInv => ReadyMeansVerified
  <2> SUFFICES ASSUME IInv, conn = "ready"
               PROVE  \E p \in Peers : peer = {p} /\ Honours(given, creds, p)
    BY DEF ReadyMeansVerified
  <2>1. creds = CredentialsFor(given) /\ Usable(given) /\ given \in Given
    BY DEF IInv, ConnInv, TypeOK
  <2>2. PICK p \in Peers : peer = {p} /\ Accepts(creds, Authority(given), p)
    BY DEF IInv, ConnInv, TypeOK
  <2>3. Honours(given, creds, p)
    BY <2>1, <2>2, AcceptedHonours
  <2> QED
    BY <2>2, <2>3
<1> QED
  BY <1>1, Invariant, PTL

\* After a failed handshake, or an error of the custom dialer, BlockingDial returns
\* that failure or the end of its context, and never what the retries of the
\* ClientConn come to (errSignalingCreds.ClientHandshake).
THEOREM FailuresReported == Spec => []FailureReported
<1>1. IInv => FailureReported
  BY DEF IInv, ResultInv, TypeOK, FailureReported, Results, Errors
<1> QED
  BY <1>1, Invariant, PTL
===============================================================================

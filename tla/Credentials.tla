------------------------------ MODULE Credentials ------------------------------
(***************************************************************************)
(* Which servers a connection may reach: the flags about transport         *)
(* security, the transport credentials main's dial makes of them (cmd and  *)
(* grpcurl.go), and the servers that the handshake of these accepts.  Files*)
(* and certificates are abstracted to the authority that they stand for.   *)
(***************************************************************************)
CONSTANTS
    Given,      \* the command lines, each the set of the flags given
    Peers       \* servers: their authority, name, SPIFFE IDs and ALTS account

FlagNames == {"plaintext", "alts", "insecure", "cacert", "cert", "key",
              "spiffe-id", "spiffe-bundle", "spiffe-workload-api",
              "alts-target-service-account", "authority", "servername"}

ASSUME CredentialsAssumption ==
    /\ Given \subseteq SUBSET FlagNames
    /\ Peers \subseteq
          [issuer : {"system", "cacert", "bundle", "workload", "none"},
           name : {"target", "authority", "servername"},
           ids : SUBSET {"spiffe-id", "other"},
           account : {"expected", "other"}]

\* The checks of main, and its dial's: two names for a TLS server are refused, if
\* they are not the same and so no more than one.
UseTls(given) == {"plaintext", "alts"} \cap given = {}
Exclusive(given, a, b) == ~({a, b} \subseteq given)
Requires(given, a, b) == a \in given => b \in given
Usable(given) ==
    /\ Exclusive(given, "plaintext", "alts")
    /\ {"insecure", "cert", "key", "spiffe-id"} \cap given # {} => UseTls(given)
    /\ "key" \in given <=> "cert" \in given
    /\ Requires(given, "alts-target-service-account", "alts")
    /\ Requires(given, "spiffe-bundle", "spiffe-id")
    /\ Exclusive(given, "spiffe-bundle", "cacert")
    /\ Requires(given, "spiffe-workload-api", "spiffe-id")
    /\ \A f \in {"cert", "cacert", "spiffe-bundle"} :
          Exclusive(given, "spiffe-workload-api", f)
    /\ UseTls(given) => Exclusive(given, "authority", "servername")

\* tls.Config: with skip, crypto/tls checks neither chain nor name; verify is
\* the callback VerifyPeerCertificate, which it calls in any case.
TlsConfig(roots, skip, verify, certificate) ==
    [type |-> "tls", roots |-> roots, skip |-> skip, verify |-> verify,
     certificate |-> certificate]

KeyPair(given) == IF "cert" \in given THEN "cert" ELSE "none"
Anchor(given) == IF "cacert" \in given THEN "cacert" ELSE "system"

ClientTLSConfig(given) ==
    TlsConfig(IF "insecure" \in given THEN "system" ELSE Anchor(given),
              "insecure" \in given, FALSE, KeyPair(given))

ClientTLSConfigForSPIFFE(given) ==
    TlsConfig(Anchor(given), TRUE, TRUE, KeyPair(given))

ClientTLSConfigWithSPIFFEBundle(given) ==
    TlsConfig("bundle", TRUE, TRUE, KeyPair(given))

ClientTLSConfigFromWorkloadAPI == TlsConfig("workload", TRUE, TRUE, "svid")

\* The credentials of main's dial.
CredentialsFor(given) ==
    CASE "plaintext" \in given -> [type |-> "insecure"]
      [] "alts" \in given ->
            [type |-> "alts",
             accounts |-> IF "alts-target-service-account" \in given
                          THEN {"expected"} ELSE {}]
      [] UseTls(given) /\ "spiffe-id" \in given ->
            IF "spiffe-workload-api" \in given
            THEN ClientTLSConfigFromWorkloadAPI
            ELSE IF "spiffe-bundle" \in given
            THEN ClientTLSConfigWithSPIFFEBundle(given)
            ELSE ClientTLSConfigForSPIFFE(given)
      [] OTHER -> ClientTLSConfig(given)

\* The authority of the connection, which is the server name of the handshake.
Authority(given) ==
    IF "servername" \in given /\ UseTls(given) THEN "servername"
    ELSE IF "authority" \in given /\ "alts" \notin given THEN "authority"
    ELSE "target"

\* VerifyPeerCertificate: the chain, one URI, and the expected one.
\* Mutant: InsecureSkipVerify leaves the chain unverified.
VerifyIdOnly(creds, peer) == peer.ids = {"spiffe-id"}
VerifyPeerCertificate(creds, peer) ==
    /\ peer.issuer = creds.roots
    /\ peer.ids = {"spiffe-id"}

Accepts(creds, name, peer) ==
    CASE creds.type = "insecure" -> TRUE
      [] creds.type = "alts" ->
            creds.accounts = {} \/ peer.account \in creds.accounts
      [] creds.type = "tls" ->
            /\ creds.skip \/ (peer.issuer = creds.roots /\ peer.name = name)
            /\ creds.verify => VerifyPeerCertificate(creds, peer)

-------------------------------------------------------------------------------
(* What a user may rely on. *)

\* Flags that the command accepts and then does not verify the server by: there are
\* no TLS certificates in plaintext and ALTS, a SPIFFE ID is verified in place of
\* the name and in spite of -insecure, and -insecure drops the standard checks.
Unused(given) ==
    IF ~UseTls(given) THEN {"cacert", "servername", "authority"}
    ELSE IF "spiffe-id" \in given THEN {"insecure", "servername", "authority"}
    ELSE IF "insecure" \in given THEN {"cacert", "servername", "authority"}
    ELSE {}

\* What a flag asks of the server that is reached, or of what is presented to it.
\* The certificate of -cert has its -key.
Asks(flag, creds, peer) ==
    CASE flag = "cacert" -> peer.issuer = "cacert"
      [] flag = "spiffe-bundle" -> peer.issuer = "bundle"
      [] flag = "spiffe-workload-api" -> peer.issuer = "workload"
      [] flag = "spiffe-id" -> peer.ids = {"spiffe-id"}
      [] flag = "servername" -> peer.name = "servername"
      [] flag = "authority" -> peer.name = "authority"
      [] flag = "alts-target-service-account" -> peer.account = "expected"
      [] flag = "cert" -> creds.certificate = "cert"
      [] OTHER -> TRUE

\* Each flag that is used is honoured, whatever the others are, and what no flag
\* asks for is standard: the authorities of the system and the name dialled.
Honours(given, creds, peer) ==
    LET used == given \ Unused(given) IN
    /\ \A flag \in used : Asks(flag, creds, peer)
    /\ UseTls(given) /\ "insecure" \notin used =>
          /\ {"cacert", "spiffe-bundle", "spiffe-workload-api"} \cap used = {}
                => peer.issuer = "system"
          /\ {"spiffe-id", "servername", "authority"} \cap used = {}
                => peer.name = "target"
===============================================================================

-------------------------------- MODULE MCDial --------------------------------
(***************************************************************************)
(* Small instances of Dial for TLC.                                        *)
(***************************************************************************)
EXTENDS Dial, FiniteSets

\* Up to three flags; a key comes with its certificate, and two names for the
\* server add nothing to one.
MCGiven ==
    {f \cup (IF "cert" \in f THEN {"key"} ELSE {}) :
        f \in {f \in SUBSET (FlagNames \ {"key"}) :
                  /\ Cardinality(f) <= 3
                  /\ ~({"authority", "servername"} \subseteq f)}}

Peer(issuer, name, ids, account) ==
    [issuer |-> issuer, name |-> name, ids |-> ids, account |-> account]

MCPeers ==
    {Peer("system", "target", {}, "expected"),
     Peer("cacert", "target", {"spiffe-id"}, "other"),
     Peer("cacert", "servername", {"other"}, "expected"),
     Peer("system", "authority", {"spiffe-id", "other"}, "other"),
     Peer("system", "servername", {"spiffe-id"}, "other"),
     Peer("bundle", "target", {"spiffe-id"}, "other"),
     Peer("workload", "target", {"spiffe-id"}, "other"),
     Peer("none", "authority", {"spiffe-id"}, "other")}
===============================================================================

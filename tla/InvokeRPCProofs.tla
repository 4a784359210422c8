---------------------------- MODULE InvokeRPCProofs ----------------------------
(***************************************************************************)
(* Lemmas about the stream and the parts of InvokeRPC that all kinds of    *)
(* methods share: types are kept, requests only ever grow by one.          *)
(***************************************************************************)
EXTENDS InvokeRPC, SequenceTheorems, TLAPS

\* The library and the server keep the stream's variables in their types.
LEMMA EnvironmentType == StreamTypeOK /\ Environment => StreamTypeOK'
<1> SUFFICES ASSUME StreamTypeOK, Environment PROVE StreamTypeOK'
  OBVIOUS
<1> USE DEF StreamTypeOK, EndStatuses
<1>1. CASE ServerSendHeaders
  BY <1>1 DEF ServerSendHeaders
<1>2. CASE ServerReadRequest
  BY <1>2 DEF ServerReadRequest
<1>3. CASE ServerSendResponse
  BY <1>3 DEF ServerSendResponse
<1>4. CASE ServerFinish
  BY <1>4 DEF ServerFinish, serverVars
<1>5. CASE DeadlineExpires
  BY <1>5 DEF DeadlineExpires, dataVars, serverVars
<1>6. CASE ContextEndsStream
  BY <1>6 DEF ContextEndsStream, serverVars
<1> QED
  BY <1>1, <1>2, <1>3, <1>4, <1>5, <1>6 DEF Environment

\* The library and the server can only end an open stream.
LEMMA EnvironmentEnds ==
  StreamTypeOK /\ Environment
    => UNCHANGED end \/ (end = "open" /\ end' \in EndStatuses)
<1> SUFFICES ASSUME StreamTypeOK, Environment
             PROVE  UNCHANGED end \/ (end = "open" /\ end' \in EndStatuses)
  OBVIOUS
<1>1. CASE ServerSendHeaders \/ ServerReadRequest \/ ServerSendResponse
  BY <1>1 DEF ServerSendHeaders, ServerReadRequest, ServerSendResponse
<1>2. CASE ServerFinish \/ DeadlineExpires
  BY <1>2 DEF ServerFinish, DeadlineExpires, EndStatuses, dataVars
<1>3. CASE ContextEndsStream
  BY <1>3 DEF ContextEndsStream, StreamTypeOK, EndStatuses
<1> QED
  BY <1>1, <1>2, <1>3 DEF Environment

\* A stream starts in its type.
LEMMA InitType == CallInit => StreamTypeOK /\ EventTypeOK
<1> SUFFICES ASSUME CallInit PROVE StreamTypeOK /\ EventTypeOK
  OBVIOUS
<1>1. <<>> \in Seq(SUBSET Nat)
  OBVIOUS
<1>2. StreamTypeOK
  BY <1>1 DEF CallInit, StreamInit, StreamTypeOK
<1>3. EventTypeOK
  BY DEF CallInit, EventTypeOK, Errors
<1> QED
  BY <1>2, <1>3

\* A request that SendMsg accepts is appended to the requests on the wire.
LEMMA SendType ==
  ASSUME StreamTypeOK, EventTypeOK
  PROVE  /\ Append(wire, req) \in Seq(SUBSET Nat)
         /\ Len(Append(wire, req)) = Len(wire) + 1
         /\ \A i \in 1 .. Len(wire) : Append(wire, req)[i] = wire[i]
         /\ Append(wire, req)[Len(wire) + 1] = req
  BY AppendProperties DEF StreamTypeOK, EventTypeOK

\* Whatever the supplier does, req stays a set of message numbers.
LEMMA SupplyType ==
  ASSUME req \in SUBSET Nat, supplied \in Nat, SupplyMessage \/ SupplyBad
  PROVE  req' \in SUBSET Nat /\ supplied' \in Nat
<1>1. supplied + 1 \in Nat
  OBVIOUS
<1>2. req \cup {supplied + 1} \in SUBSET Nat
  BY <1>1
<1>3. CASE SupplyMessage
  BY <1>1, <1>2, <1>3 DEF SupplyMessage
<1>4. CASE SupplyBad
  BY <1>2, <1>4 DEF SupplyBad
<1> QED
  BY <1>3, <1>4
===============================================================================

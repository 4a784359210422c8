---------------------------- MODULE RequestSupplier ----------------------------
(***************************************************************************)
(* What InvokeRPC is promised by its request supplier (RequestSupplier,    *)
(* invoke.go, and RequestParser, format.go): the messages of the input,    *)
(* each once and in order, then the end for good.  An error is a message   *)
(* that cannot be understood or an input that cannot be read to its end.   *)
(* Formats shows that both parsers keep the promise.                       *)
(***************************************************************************)
EXTENDS Naturals, Sequences

VARIABLES
    input,      \* the messages, each the set of its fields
    firm,       \* fields that are understood for certain
    ends,       \* can the input be read to its end?
    requests,   \* the messages handed out
    supply      \* "more", "end" (io.EOF) or "failed"

vars == <<input, firm, ends, requests, supply>>

Left == Len(requests) < Len(input)

Init ==
    /\ requests = <<>>
    /\ supply = "more"

Yield ==
    /\ supply = "more"
    /\ Left
    /\ "bad" \notin input[Len(requests) + 1]
    /\ requests' = Append(requests, input[Len(requests) + 1])
    /\ UNCHANGED <<input, firm, ends, supply>>

Fail ==
    /\ supply = "more"
    /\ IF Left THEN ~(input[Len(requests) + 1] \subseteq firm) ELSE ~ends
    /\ supply' = "failed"
    /\ UNCHANGED <<input, firm, ends, requests>>

End ==
    /\ supply = "more"
    /\ ~Left /\ ends
    /\ supply' = "end"
    /\ UNCHANGED <<input, firm, ends, requests>>

Next == Yield \/ Fail \/ End

Spec == Init /\ [][Next]_vars
===============================================================================

-------------------------------- MODULE Formats --------------------------------
(***************************************************************************)
(* The data of a call (format.go): a request parser reads the messages of  *)
(* standard input, DefaultEventHandler prints the responses through a      *)
(* formatter, and in between work the extensions of the method's types and *)
(* the templates of describe.  Texts are sequences of tokens: a token is   *)
(* the set of the fields of a message, or of a part of one; {"bad"} cannot *)
(* be understood and RS separates records.                                 *)
(***************************************************************************)
EXTENDS AnyResolver, Template, FiniteSets

CONSTANTS
    Fields,         \* fields of messages; one that is a type is an Any of it
    Inputs,         \* for each format, the inputs
    Responses,      \* messages a server may respond with
    Registered,     \* types linked into the program
    MaxResponses    \* bound on the responses

ASSUME FormatsAssumption ==
    /\ Goroutines = {"sender", "receiver"}
    /\ Types \subseteq Fields
    /\ {"bad", "RS"} \cap Fields = {}
    /\ Inputs \in [{"json", "text"} ->
                      SUBSET Seq(SUBSET (Fields \cup {"bad", "RS"}))]
    /\ Responses \subseteq SUBSET Fields
    /\ MaxResponses \in Nat

VARIABLES
    job,        \* what is done here: "extensions", "template" or "messages"
    format,     \* the value of -format
    stdin,      \* the tokens of standard input
    readable,   \* can it be read to its end?
    limited,    \* is -max-time given? it ends the queries to the server
    read,       \* the tokens read so far
    parserErr,  \* textRequestParser.err
    count,      \* requestCount
    requests,   \* the messages parsed
    supply,     \* what the parser returned last: "more", "end" or "failed"
    busy,       \* the goroutines that parse or print a message
    current,    \* the message of each
    unresolved, \* its Any values that are still to be resolved
    responses,  \* the messages received
    raw,        \* Any values of the current one that have no known type
    formatted,  \* numFormatted
    failures,   \* messages that could not be formatted
    stdout      \* the tokens of standard output

sourceVars == <<origins, graph, job, format, stdin, readable, limited>>
parserVars == <<read, parserErr, count, requests, supply>>
messageVars == <<busy, current, unresolved>>
printerVars == <<responses, raw, formatted, failures, stdout>>
callVars == <<parserVars, messageVars, printerVars, resolverVars>>
sideVars == <<sourceVars, fetchVars, templateVars>>
notParsing == <<sideVars, messageVars, printerVars, resolverVars>>
vars == <<sourceVars, callVars, fetchVars, templateVars>>

RS == {"RS"}

\* The records of a text: one for each JSON value, or what separators separate.
SeparatorsIn(text, k) == Cardinality({j \in 1 .. k : text[j] = RS})
Records(text) ==
    IF format = "json"
    THEN text
    ELSE [i \in 1 .. SeparatorsIn(text, Len(text)) + 1 |->
            UNION {text[k] : k \in {k \in DOMAIN text :
                text[k] # RS /\ SeparatorsIn(text, k) = i - 1}}]

TypeOK ==
    /\ ResolverTypeOK
    /\ read \in 0 .. Len(stdin)
    /\ parserErr \in {"nil", "EOF", "error"}
    /\ count \in 0 .. Len(stdin) + 1
    /\ supply \in {"more", "end", "failed"}
    /\ busy \subseteq Goroutines
    /\ \A g \in Goroutines : unresolved[g] \subseteq current[g] \cap Types
    /\ raw \subseteq current["receiver"]
    /\ formatted + failures <= Len(responses)

Init ==
    /\ origins \in (SUBSET {"server", "files"}) \ {{}}
    /\ graph \in Graphs
    /\ job \in {"extensions", "template", "messages"}
    /\ IF job = "extensions"
       THEN FetchInit
       ELSE /\ roots = <<>> /\ walked = 0 /\ calls = <<>>
            /\ fetched = {} /\ asked = <<>> /\ ext = {} /\ fetch = "done"
    /\ TemplateInit
    /\ IF job = "messages"
       THEN /\ graph = [t \in Types |-> <<>>]
            /\ format \in {"json", "text"}
            /\ format = "text" => origins = {"files"}   \* it looks nothing up
            /\ stdin \in Inputs[format]
            /\ readable \in BOOLEAN
            /\ limited \in BOOLEAN
            /\ limited => "server" \in origins     \* it matters to queries only
       ELSE /\ format = "json" /\ stdin = <<>>
            /\ readable = TRUE /\ limited = FALSE
    /\ read = 0 /\ parserErr = "nil" /\ count = 0
    /\ requests = <<>> /\ supply = "more"
    /\ busy = {}
    /\ current = [g \in Goroutines |-> {}]
    /\ unresolved = [g \in Goroutines |-> {}]
    /\ responses = <<>> /\ raw = {} /\ formatted = 0 /\ failures = 0
    /\ stdout = <<>>
    /\ ResolverInit

FetchExtensions ==
    /\ job = "extensions"
    /\ FetchNext
    /\ UNCHANGED <<sourceVars, callVars, templateVars>>

MakeTemplate ==
    /\ job = "template"
    /\ BuildNext
    /\ UNCHANGED <<sourceVars, callVars, fetchVars>>
-------------------------------------------------------------------------------
(* The request parsers.  InvokeRPC calls Next until it returns an error.   *)

Calls == job = "messages" /\ "sender" \notin busy /\ supply = "more"

\* textRequestParser.Next: up to the next separator, or to the end.  The error
\* of a read is kept, and the text before the end of the input is a record.
ReadRecord(last) ==
    /\ last \in read + 1 .. Len(stdin) + 1
    /\ last <= Len(stdin) => stdin[last] = RS
    /\ \A k \in read + 1 .. last - 1 : stdin[k] # RS
    /\ read' = IF last <= Len(stdin) THEN last ELSE Len(stdin)
    /\ parserErr' = CASE last <= Len(stdin) -> "nil"
                      [] last > Len(stdin) /\ readable -> "EOF"
                      [] OTHER -> "error"

ParsedText(record) ==
    /\ count' = count + 1
    /\ IF "bad" \in record
       THEN supply' = "failed" /\ UNCHANGED requests
       ELSE requests' = Append(requests, record) /\ UNCHANGED supply

ParseRecord ==
    \E last \in 1 .. Len(stdin) + 1 :
        /\ ReadRecord(last)
        /\ IF parserErr' = "error"
           THEN supply' = "failed" /\ UNCHANGED <<count, requests>>
           ELSE ParsedText(UNION {stdin[k] : k \in read + 1 .. last - 1})

\* Mutant: the kept error is not looked at.
NextTextAgain ==
    Calls /\ format = "text" /\ ParseRecord /\ UNCHANGED notParsing
NextText ==
    /\ Calls /\ format = "text"
    /\ IF parserErr # "nil"
       THEN /\ supply' = IF parserErr = "EOF" THEN "end" ELSE "failed"
            /\ UNCHANGED <<read, parserErr, count, requests>>
       ELSE ParseRecord
    /\ UNCHANGED notParsing

\* jsonRequestParser.Next: no further value, one that is no JSON or does not fit
\* the message, or one whose Any values are now resolved.
NextJsonFails ==
    /\ Calls /\ format = "json"
    /\ \/ /\ read = Len(stdin)
          /\ supply' = IF readable THEN "end" ELSE "failed"
          /\ UNCHANGED <<read, count>>
       \/ /\ read < Len(stdin) /\ "bad" \in stdin[read + 1]
          /\ supply' = "failed"
          /\ read' = read + 1
          /\ count' \in {count, count + 1}
    /\ UNCHANGED <<parserErr, requests>>
    /\ UNCHANGED notParsing

NextJson ==
    /\ Calls /\ format = "json"
    /\ read < Len(stdin) /\ "bad" \notin stdin[read + 1]
    /\ read' = read + 1
    /\ count' = count + 1
    /\ busy' = busy \cup {"sender"}
    /\ current' = [current EXCEPT !["sender"] = stdin[read + 1]]
    /\ unresolved' =
          [unresolved EXCEPT !["sender"] = stdin[read + 1] \cap Types]
    /\ UNCHANGED <<parserErr, requests, supply>>
    /\ UNCHANGED <<sideVars, printerVars, resolverVars>>

ParsedJson ==
    /\ "sender" \in busy /\ at["sender"] = "out" /\ unresolved["sender"] = {}
    /\ requests' = Append(requests, current["sender"])
    /\ busy' = busy \ {"sender"}
    /\ UNCHANGED <<read, parserErr, count, supply, current, unresolved>>
    /\ UNCHANGED <<sideVars, printerVars, resolverVars>>
-------------------------------------------------------------------------------
(* Resolving the Any values of a message, in either direction.             *)

ResolveAny(g) ==
    /\ g \in busy /\ at[g] = "out"
    /\ \E t \in unresolved[g] : Resolve(g, t)
    /\ UNCHANGED <<sideVars, parserVars, messageVars, printerVars>>

InResolver(g) ==
    /\ ResolverStep(g)
    /\ UNCHANGED <<sideVars, parserVars, messageVars, printerVars>>

BackFromResolver(g) ==
    /\ at' = [at EXCEPT ![g] = "out"]
    /\ unresolved' = [unresolved EXCEPT ![g] = @ \ {want[g]}]
    /\ UNCHANGED <<sideVars, lock, want, resolved, known, found, current>>

AnyResolved(g) ==
    /\ at[g] = "message"
    /\ BackFromResolver(g)
    /\ UNCHANGED <<parserVars, busy, printerVars>>

\* The parser gives up.
RequestUnresolved ==
    /\ at["sender"] = "error"
    /\ BackFromResolver("sender")
    /\ supply' = "failed"
    /\ busy' = busy \ {"sender"}
    /\ UNCHANGED <<read, parserErr, count, requests, printerVars>>

\* anyResolverWithFallback: the formatter takes a type linked into the program,
\* or unknownAny, which prints the value as it is.
ResponseUnresolved ==
    /\ at["receiver"] = "error"
    /\ BackFromResolver("receiver")
    /\ raw' = raw \cup ({want["receiver"]} \ Registered)
    /\ UNCHANGED <<parserVars, busy, responses, formatted, failures, stdout>>
-------------------------------------------------------------------------------
(* DefaultEventHandler.OnReceiveResponse and the formatters.  Without -v    *)
(* nothing else goes to standard output, and text is given separators.      *)

OnReceiveResponse ==
    /\ job = "messages" /\ "receiver" \notin busy
    /\ Len(responses) < MaxResponses
    /\ \E m \in Responses :
          /\ responses' = Append(responses, m)
          /\ current' = [current EXCEPT !["receiver"] = m]
          /\ unresolved' = [unresolved EXCEPT !["receiver"] =
                                IF format = "json" THEN m \cap Types ELSE {}]
    /\ busy' = busy \cup {"receiver"}
    /\ raw' = {}
    /\ UNCHANGED <<formatted, failures, stdout>>
    /\ UNCHANGED <<sideVars, parserVars, resolverVars>>

\* Mutant: no separators.
NoSeparator == <<>>
Separator == IF format = "text" /\ formatted > 0 THEN <<RS>> ELSE <<>>

Shown(text) ==
    /\ "receiver" \in busy /\ at["receiver"] = "out"
    /\ unresolved["receiver"] = {}
    /\ stdout' = stdout \o text
    /\ busy' = busy \ {"receiver"}
    /\ UNCHANGED <<responses, raw, current, unresolved>>
    /\ UNCHANGED <<sideVars, parserVars, resolverVars>>

PrintResponse ==
    /\ Shown(Append(Separator, (current["receiver"] \ raw)
                                 \cup (IF raw = {} THEN {} ELSE {"raw"})))
    /\ formatted' = formatted + 1
    /\ UNCHANGED failures

\* "Failed to format response message" goes to the same output.
PrintFails ==
    /\ Shown(<<{"bad"}>>)
    /\ failures' = failures + 1
    /\ UNCHANGED formatted
-------------------------------------------------------------------------------
Terminated ==
    /\ fetch # "walking"
    /\ job = "template" => build = "done"
    /\ job = "messages" => supply # "more" /\ busy = {}
    /\ UNCHANGED vars

Next ==
    \/ FetchExtensions
    \/ MakeTemplate
    \/ NextText
    \/ NextJsonFails
    \/ NextJson
    \/ ParsedJson
    \/ \E g \in Goroutines : ResolveAny(g) \/ InResolver(g) \/ AnyResolved(g)
    \/ RequestUnresolved
    \/ ResponseUnresolved
    \/ OnReceiveResponse
    \/ PrintResponse
    \/ PrintFails
    \/ Terminated

Spec == Init /\ [][Next]_vars

\* Both goroutines run, and a Go mutex does not starve those who wait for it.
\* The reflection service owes no answer: its client has main's context, which
\* ends with -max-time and nothing else, not the one that InvokeRPC cancels.
Queries(g) == at[g] \in {"find", "extensions"}
QueriesEnd == "server" \in origins => limited
FairSpec ==
    /\ Spec
    /\ \A g \in Goroutines :
          /\ WF_vars(ResolveAny(g) \/ AnyResolved(g)
                        \/ (InResolver(g) /\ at[g] \in {"read", "lock"}))
          /\ WF_vars(InResolver(g) /\ Queries(g) /\ QueriesEnd)
    /\ WF_vars(NextText \/ NextJsonFails \/ NextJson \/ ParsedJson
                  \/ RequestUnresolved)
    /\ WF_vars(ResponseUnresolved \/ PrintResponse \/ PrintFails)
-------------------------------------------------------------------------------
(* Properties. *)

\* The parsers keep the promise of a RequestSupplier: the records of the input,
\* each once and in order, also a blank one after the last separator; then the
\* end, for good.  An Any value fails only if its type may be lacking.
Certain ==
    IF format = "json" THEN Fields \ {t \in Types : MayLack(t)} ELSE Fields
Input ==
    LET records == Records(stdin) IN
    IF readable \/ format = "json"
    THEN records
    ELSE SubSeq(records, 1, Len(records) - 1)
Supplier == INSTANCE RequestSupplier WITH
    input <- Input, firm <- Certain, ends <- readable,
    requests <- requests, supply <- supply
RequestsFollowInput == Supplier!Spec

\* What is printed can be piped into another grpcurl: up to the first record
\* that cannot be understood, record i is response i, except for Any values of
\* unknown types; and a response is missing only if there is such a record.
Printed == Records(stdout)
Faithful(record, message) ==
    /\ record \ {"raw"} \subseteq message
    /\ message \ record \subseteq Types \ Registered
    /\ message # record => "raw" \in record
    /\ \A t \in message \ record : MayLack(t)
OutputParsesBack ==
    format = "json" \/ responses # <<>> =>
        /\ \A i \in DOMAIN Printed :
              (\A k \in 1 .. i : "bad" \notin Printed[k]) /\ i <= formatted
                  => Faithful(Printed[i], responses[i])
        /\ IF failures = 0
           THEN "receiver" \notin busy => Len(Printed) = Len(responses)
           ELSE \E i \in DOMAIN Printed : "bad" \in Printed[i]

\* No message is stuck in the resolver, although both directions share its lock
\* and one holds it while it asks the server: unless that server stays silent
\* and there is no -max-time, each is parsed or printed.
AnyValuesAreResolved ==
    \A g \in Goroutines :
        (<>[](g \in busy)) =>
            <>[](~QueriesEnd /\ \E h \in Goroutines : Queries(h))
-------------------------------------------------------------------------------
(* Inductive invariants behind the theorems of FormatsProofs. *)

\* The types of the data; what is resolved is a type of the message at hand; a
\* parser has read what it counts; each response was printed, or has failed, or
\* is being printed.
MessageInv ==
    /\ origins \in (SUBSET {"server", "files"}) \ {{}}
    /\ graph \in [Types -> Seq(Types)]
    /\ stdin \in Seq(SUBSET (Fields \cup {"bad", "RS"}))
    /\ responses \in Seq(Responses)
    /\ DOMAIN current = Goroutines /\ DOMAIN unresolved = Goroutines
    /\ DOMAIN want = Goroutines /\ found \in Seq(Types)
    /\ \A g \in Goroutines :
          at[g] # "out" => g \in busy /\ want[g] \in unresolved[g]
    /\ count <= IF parserErr = "nil" THEN read ELSE read + 1
    /\ formatted \in Nat /\ failures \in Nat
    /\ formatted + failures =
          IF "receiver" \in busy THEN Len(responses) - 1 ELSE Len(responses)

\* The place of a parser: as long as it goes on it has handed out one message for
\* each value, or for each separator, that it has read; the sender works on the
\* last value read.  A failure in the resolver means that the type may be lacking.
SupplyInv ==
    /\ format \in {"json", "text"}
    /\ requests \in Seq(SUBSET (Fields \cup {"bad", "RS"}))
    /\ at["sender"] = "error" => MayLack(want["sender"])
    /\ "sender" \in busy =>
          /\ format = "json" /\ supply = "more"
          /\ read = Len(requests) + 1
          /\ current["sender"] = stdin[read] /\ "bad" \notin stdin[read]
    /\ format = "json" /\ supply = "more" /\ "sender" \notin busy =>
          read = Len(requests)
    /\ format = "text" /\ supply = "more" =>
          \/ /\ parserErr = "nil"
             /\ read = 0 \/ stdin[read] = RS
             /\ Len(requests) = SeparatorsIn(stdin, read)
          \/ /\ parserErr = "EOF" /\ readable
             /\ Len(requests) = SeparatorsIn(stdin, Len(stdin)) + 1

\* The message being printed is the last response, and an Any of it that is printed
\* as it is has a type that the program lacks and the source may lack.
RawInv ==
    /\ at["receiver"] = "error" => MayLack(want["receiver"])
    /\ raw \subseteq Types \ Registered
    /\ \A t \in raw : MayLack(t)
    /\ "receiver" \in busy => /\ responses # <<>>
                               /\ current["receiver"] = responses[Len(responses)]

\* The places in the output of response i, and of the first message that could not
\* be formatted if that came after g responses.
RecordAt(i) == IF format = "json" THEN i ELSE 2 * i - 1
FailureAt(g) == IF format = "json" THEN g + 1 ELSE IF g = 0 THEN 1 ELSE 2 * g

\* The text out begins with the first g of the messages, each a record.
BeginsWith(out, g, messages) ==
    \A i \in 1 .. g :
        /\ RecordAt(i) \in 1 .. Len(out)
        /\ out[RecordAt(i)] # RS /\ "bad" \notin out[RecordAt(i)]
        /\ Faithful(out[RecordAt(i)], messages[i])
        /\ format = "text" =>
              /\ SeparatorsIn(out, RecordAt(i)) = i - 1
              /\ i < g => /\ RecordAt(i) + 1 \in 1 .. Len(out)
                          /\ out[RecordAt(i) + 1] = RS

\* The output up to the first failure, or all of it.
StdoutInv ==
    /\ format \in {"json", "text"}
    /\ stdout \in Seq(SUBSET (Fields \cup {"bad", "RS", "raw"}))
    /\ \E g \in 0 .. Len(responses) :
          /\ BeginsWith(stdout, g, responses)
          /\ failures = 0 => /\ g = formatted
                             /\ Len(stdout) = IF g = 0 THEN 0 ELSE RecordAt(g)
          /\ failures > 0 => /\ FailureAt(g) \in 1 .. Len(stdout)
                             /\ stdout[FailureAt(g)] = {"bad"}

IInv ==
    /\ TypeOK
    /\ MessageInv
    /\ LockInv
    /\ FoundInv
    /\ WalkInv
    /\ RegistryInv
===============================================================================

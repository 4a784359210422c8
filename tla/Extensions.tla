------------------------------ MODULE Extensions ------------------------------
(***************************************************************************)
(* Extensions of message types: what a descriptor source answers when it   *)
(* is asked for them, and fetchAllExtensions (grpcurl.go), which asks for  *)
(* all the types that a message may hold.  Its recursion is a stack.       *)
(***************************************************************************)
EXTENDS Naturals, Sequences

CONSTANTS
    Types,          \* message types
    Extendable,     \* those with extension ranges
    Graphs,         \* the types of the message fields of each type, in order
    ServerTags,     \* tags of the extensions the server declares for a type
    FileTags        \* and of those that protosets or .proto files declare

ASSUME ExtensionsAssumption ==
    /\ Extendable \subseteq Types
    /\ Graphs \subseteq [Types -> Seq(Types)]
    /\ DOMAIN ServerTags = Types /\ DOMAIN FileTags = Types

VARIABLES
    origins,    \* where descriptors come from: "server", "files" or both
    graph,      \* the fields of the types
    roots,      \* the message types to be walked
    walked,     \* those of them whose walk has begun
    calls,      \* frames of fetchAllExtensions: a type, its next field
    fetched,    \* alreadyFetched
    asked,      \* history: the types asked for, in order
    ext,        \* the ExtensionRegistry: triples of type, tag and origin
    fetch       \* "walking", "done" or "failed"

fetchVars == <<roots, walked, calls, fetched, asked, ext, fetch>>

\* DescriptorSource.AllExtensionsForType: an extension is a tag and its origin.
\* Those of the server are preferred; when the server fails at any of its tags,
\* only the files answer, if there are any.
FromServer(t) == {<<n, "server">> : n \in ServerTags[t]}
FromFiles(t) ==
    IF "files" \in origins THEN {<<n, "files">> : n \in FileTags[t]} ELSE {}
Merged(t) ==
    FromServer(t) \cup {e \in FromFiles(t) : e[1] \notin ServerTags[t]}
Answers(t) ==
    (IF "server" \in origins THEN {Merged(t)} ELSE {}) \cup
    (IF "files" \in origins THEN {FromFiles(t)} ELSE {})
MayFail == "files" \notin origins

\* ExtensionRegistry.AddExtension: a later extension replaces one of its tag.
Register(registry, t, exts) ==
    {e \in registry : e[1] # t \/ e[2] \notin {x[1] : x \in exts}}
        \cup {<<t, x[1], x[2]>> : x \in exts}

\* InvokeRPC walks the request and the response type with one alreadyFetched,
\* EnsureExtensions the type of one message.
FetchInit ==
    /\ roots \in {<<t>> : t \in Types} \cup (Types \X Types)
    /\ walked = 0
    /\ calls = <<>>
    /\ fetched = {}
    /\ asked = <<>>
    /\ ext = {}
    /\ fetch = "walking"

Calling == calls[Len(calls)]

\* A call of fetchAllExtensions for t, made from the frames in below.
\* Mutant: alreadyFetched is not kept.
EnterUnmarked(t, below) ==
    /\ calls' = Append(below, [type |-> t, next |-> 1])
    /\ asked' = IF t \in Extendable THEN Append(asked, t) ELSE asked
    /\ UNCHANGED <<fetched, ext, fetch>>
Enter(t, below) ==
    \/ /\ t \in fetched
       /\ calls' = below
       /\ UNCHANGED <<fetched, asked, ext, fetch>>
    \/ /\ t \notin fetched
       /\ fetched' = fetched \cup {t}
       /\ calls' = Append(below, [type |-> t, next |-> 1])
       /\ \/ t \notin Extendable /\ UNCHANGED <<asked, ext, fetch>>
          \/ /\ t \in Extendable
             /\ asked' = Append(asked, t)
             /\ \/ /\ \E exts \in Answers(t) : ext' = Register(ext, t, exts)
                   /\ UNCHANGED fetch
                \/ MayFail /\ fetch' = "failed" /\ UNCHANGED ext

FetchRoot ==
    /\ fetch = "walking"
    /\ calls = <<>>
    /\ walked < Len(roots)
    /\ Enter(roots[walked + 1], calls)
    /\ walked' = walked + 1
    /\ UNCHANGED roots

FetchField ==
    /\ fetch = "walking"
    /\ calls # <<>>
    /\ Calling.next <= Len(graph[Calling.type])
    /\ Enter(graph[Calling.type][Calling.next],
             [calls EXCEPT ![Len(calls)].next = @ + 1])
    /\ UNCHANGED <<roots, walked>>

FetchReturns ==
    /\ fetch = "walking"
    /\ calls # <<>>
    /\ Calling.next > Len(graph[Calling.type])
    /\ calls' = SubSeq(calls, 1, Len(calls) - 1)
    /\ UNCHANGED <<roots, walked, fetched, asked, ext, fetch>>

FetchEnds ==
    /\ fetch = "walking"
    /\ calls = <<>>
    /\ walked = Len(roots)
    /\ fetch' = "done"
    /\ UNCHANGED <<roots, walked, calls, fetched, asked, ext>>

FetchNext == FetchRoot \/ FetchField \/ FetchReturns \/ FetchEnds
-------------------------------------------------------------------------------
(* Properties. *)

\* A registry that was given an answer for t has each tag from one origin: all
\* tags of the files, whatever the server did, and of the server all or none.
Answered(registry, t) ==
    LET Tags(origin) ==
            {e[2] : e \in {e \in registry : e[1] = t /\ e[3] = origin}}
    IN  /\ "files" \in origins =>
              FileTags[t] \subseteq Tags("server") \cup Tags("files")
        /\ Tags("server") \cap Tags("files") = {}
        /\ Tags("server") \in {{}, ServerTags[t]}

\* The types that a message of the walked types can hold.
Reachable ==
    {t \in Types : \A closed \in SUBSET Types :
        (/\ \A i \in DOMAIN roots : roots[i] \in closed
         /\ \A u \in closed : \A i \in DOMAIN graph[u] : graph[u][i] \in closed)
            => t \in closed}

\* Through cycles and diamonds of types, no type is asked for twice, and a call
\* that begins knows the extensions of all that its messages may hold.
ExtensionsFetched ==
    /\ \A i, j \in DOMAIN asked : asked[i] = asked[j] => i = j
    /\ fetch = "done" => \A t \in Reachable \cap Extendable :
          /\ Answered(ext, t)
          /\ MayFail => {e[2] : e \in {e \in ext : e[1] = t}} = ServerTags[t]
-------------------------------------------------------------------------------
(* Inductive invariant behind the theorems of FormatsProofs. *)

\* What is asked for is marked.  The fields of a marked type are marked too, those
\* of a type that is still being walked up to its next field.
WalkInv ==
    /\ fetched \subseteq Types
    /\ calls \in Seq([type : Types, next : Nat \ {0}])
    /\ asked \in Seq(Types) /\ \A i \in DOMAIN asked : asked[i] \in fetched
    /\ \A i, j \in DOMAIN asked : asked[i] = asked[j] => i = j
    /\ \A k \in DOMAIN calls : \A i \in DOMAIN graph[calls[k].type] :
          i < calls[k].next => graph[calls[k].type][i] \in fetched
    /\ \A u \in fetched :
          \/ \E k \in DOMAIN calls : calls[k].type = u
          \/ \A i \in DOMAIN graph[u] : graph[u][i] \in fetched
    /\ roots \in Seq(Types) /\ walked \in Nat
    /\ \A i \in DOMAIN roots : i <= walked => roots[i] \in fetched
    /\ fetch = "done" => calls = <<>> /\ walked = Len(roots)

\* Only marked types are in the registry, and an answer for them stays there.
RegistryInv ==
    /\ \A e \in ext : e[1] \in fetched
    /\ fetch # "failed" => \A t \in fetched \cap Extendable :
          /\ Answered(ext, t)
          /\ MayFail => {e[2] : e \in {e \in ext : e[1] = t}} = ServerTags[t]
===============================================================================

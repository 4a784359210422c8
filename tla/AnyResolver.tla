------------------------------ MODULE AnyResolver ------------------------------
(***************************************************************************)
(* anyResolver (format.go): the types of google.protobuf.Any values, looked*)
(* up in the descriptor source and cached.  With the JSON format one       *)
(* resolver serves two goroutines: the sender's parser and the receiver's  *)
(* formatter.                                                              *)
(***************************************************************************)
EXTENDS Extensions

CONSTANTS
    Goroutines,
    ServerTypes,    \* message types that the server can describe
    ServerOthers,   \* types that it has something else for, a service or an enum
    FileTypes       \* and those of the files

ASSUME ResolverAssumption == ServerTypes \cap ServerOthers = {}

VARIABLES
    lock,       \* r.mu: the goroutine that holds it for writing, or "nobody"
    at,         \* where each goroutine is in Resolve; "out" when it is not
    want,       \* the type it resolves
    resolved,   \* r.resolved, the cached types
    known,      \* r.er, the extensions of the cached types
    found       \* history: the types found in the source, in order

resolverVars == <<lock, at, want, resolved, known, found>>

ResolverTypeOK ==
    /\ lock \in Goroutines \cup {"nobody"}
    /\ at \in [Goroutines -> {"out", "read", "lock", "find", "extensions",
                              "message", "error"}]
    /\ resolved \subseteq Types

ResolverInit ==
    /\ lock = "nobody"
    /\ at = [g \in Goroutines |-> "out"]
    /\ want = [g \in Goroutines |-> "nil"]
    /\ resolved = {}
    /\ known = {}
    /\ found = <<>>

Resolve(g, t) ==
    /\ at' = [at EXCEPT ![g] = "read"]
    /\ want' = [want EXCEPT ![g] = t]
    /\ UNCHANGED <<lock, resolved, known, found>>

\* Resolve returns, and the deferred Unlock runs.
Leave(g, outcome) ==
    /\ at' = [at EXCEPT ![g] = outcome]
    /\ lock' = IF lock = g THEN "nobody" ELSE lock

\* The look at the cache, with the lock held for reading.
ReadCache(g) ==
    /\ at[g] = "read"
    /\ lock = "nobody"
    /\ at' = [at EXCEPT ![g] =
                 IF want[g] \in resolved THEN "message" ELSE "lock"]
    /\ UNCHANGED <<lock, want, resolved, known, found>>

\* The lock is taken and the cache looked at again.
\* Mutant: it is not.
LockAndFind(g) ==
    /\ at[g] = "lock"
    /\ lock = "nobody"
    /\ lock' = g
    /\ at' = [at EXCEPT ![g] = "find"]
    /\ UNCHANGED <<want, resolved, known, found>>
LockAndCheck(g) ==
    /\ at[g] = "lock"
    /\ lock = "nobody"
    /\ IF want[g] \in resolved
       THEN Leave(g, "message")
       ELSE lock' = g /\ at' = [at EXCEPT ![g] = "find"]
    /\ UNCHANGED <<want, resolved, known, found>>

\* FindSymbol: the server may fail, the files do not; they are not asked when the
\* server has answered, be it with something that is no message.
MayLack(t) ==
    \/ "files" \notin origins \/ t \notin FileTypes
    \/ "server" \in origins /\ t \in ServerOthers

\* A failure is not cached.  Mutant: it is tried again, with the lock held.
FindTypeRetrying(g) ==
    /\ at[g] = "find"
    /\ \/ /\ \/ "server" \in origins /\ want[g] \in ServerTypes
             \/ "files" \in origins /\ want[g] \in FileTypes
          /\ found' = Append(found, want[g])
          /\ at' = [at EXCEPT ![g] = "extensions"]
          /\ UNCHANGED lock
       \/ /\ MayLack(want[g])
          /\ UNCHANGED <<at, lock, found>>
    /\ UNCHANGED <<want, resolved, known>>
FindType(g) ==
    /\ at[g] = "find"
    /\ \/ /\ \/ "server" \in origins /\ want[g] \in ServerTypes
             \/ "files" \in origins /\ want[g] \in FileTypes
          /\ found' = Append(found, want[g])
          /\ at' = [at EXCEPT ![g] = "extensions"]
          /\ UNCHANGED lock
       \/ /\ MayLack(want[g])
          /\ Leave(g, "error")
          /\ UNCHANGED found
    /\ UNCHANGED <<want, resolved, known>>

\* The extensions of the type, if the source answers, and then the cache: the
\* type is cached without its extensions when nobody does.
AddExtensions(g) ==
    /\ at[g] = "extensions"
    /\ \/ \E exts \in Answers(want[g]) : known' = Register(known, want[g], exts)
       \/ MayFail /\ UNCHANGED known
    /\ resolved' = resolved \cup {want[g]}
    /\ Leave(g, "message")
    /\ UNCHANGED <<want, found>>

ResolverStep(g) ==
    ReadCache(g) \/ LockAndCheck(g) \/ FindType(g) \/ AddExtensions(g)
-------------------------------------------------------------------------------
(* Properties. *)

\* Both goroutines get the same descriptor for a type: it is found once, and
\* once it is cached its extensions are known, those of the files at any rate.
ResolvedOnce ==
    /\ \A i, j \in DOMAIN found : found[i] = found[j] => i = j
    /\ \A t \in resolved : Answered(known, t)
-------------------------------------------------------------------------------
(* Inductive invariant behind the theorems of FormatsProofs. *)

\* Between the second look at the cache and the return a goroutine has the lock,
\* and what it wants is not cached.
LockInv ==
    \A g \in Goroutines :
        /\ at[g] \in {"find", "extensions"} <=> lock = g
        /\ lock = g => want[g] \notin resolved

\* A type that was found is cached, or just about to be; extensions come with it.
FoundInv ==
    /\ \A i \in DOMAIN found :
          \/ found[i] \in resolved
          \/ \E g \in Goroutines : at[g] = "extensions" /\ found[i] = want[g]
    /\ \A e \in known : e[1] \in resolved
    /\ ResolvedOnce
===============================================================================

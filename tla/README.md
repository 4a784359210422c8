# A TLA+ model of grpcurl

These modules model grpcurl, the command-line tool and Go library that talks to
gRPC servers. They are written from the source under `src/`. TLC checks every
model on small instances and TLAPS proves the central invariants for all values
of the constants.

Contents: [the system](#1-the-system), [what can go wrong](#2-what-is-hard-about-it),
[modules and code](#3-modules-and-the-code-they-model), [runs](#4-runs),
[fairness](#5-fairness), [proofs](#6-what-is-proved),
[findings](#7-what-the-runs-found), [not modelled](#8-what-is-not-modelled),
[plan](#9-plan), [how to run](#10-running-the-checks).

## 1. The system

`cmd/grpcurl` parses flags, builds a *descriptor source* (from protosets, from
.proto files, from the server's reflection service, or a composite of those),
dials the server if it has to, and carries out one verb: list, describe or
invoke. The library (`grpcurl.go`, `desc_source.go`, `invoke.go`, `format.go`) does
the work. `internal/testing` has a test server and a demo bank with persistent
accounts and a support chat.

| Component | State it keeps | Operations | Talks to |
|---|---|---|---|
| InvokeRPC and the four kinds of calls (`invoke.go`) | the request object, the error variables of two goroutines, the atomic `sendErr`, a WaitGroup, the context | resolve, report headers, send, half-close, receive, report status, return | request supplier and event handler (callbacks); gRPC stream (library); descriptor source |
| BlockingDial (`grpcurl.go`) | the result channel of capacity one, the ClientConn | connect, poll, signal an error or a connection, give up | ClientConn callbacks (dialer, credentials); context |
| The command (`cmd/grpcurl/grpcurl.go`) | flags, connection, reflection client, descriptor source, output files, exit code | choose sources, dial, list, describe, invoke, write, reset, exit | all of the above |
| Descriptor sources (`desc_source.go`, `compositeSource`) | the maps of unresolved and resolved files, the set of expanded files, the output list | load protosets, look symbols up, write protosets and .proto files | reflection client, protoreflect |
| Parsers, formatters, Any resolver (`format.go`) | the parser's position, error and request count, the number of texts printed, the cache of `anyResolver` under its lock | next request, format a response, resolve an Any | descriptor source; called by InvokeRPC's goroutines |
| Listings (`grpcurl.go`, `desc_source.go`) | the set of files by name, the first error | list services and methods, all files, make a source of files | descriptor source |
| Extensions, templates (`grpcurl.go`) | the types fetched already, the extension registry; the path of types above a message | fetch the extensions of all nested types, make a template | descriptor source |
| Transport security (`grpcurl.go`, `cmd`) | the flags, the transport credentials | check the flags, build a TLS, SPIFFE or ALTS configuration, verify a server | dial; crypto/tls |
| Reflection client, .proto parsing | those of protoreflect | find symbol, find file, list services | server |
| Metadata, text output | none | conversions of strings | |
| Bank demo (`bankdemo/db.go, bank.go, main.go`) | accounts, balances, transactions, the last account number, the data file | open, close, deposit, withdraw, transfer, save every five seconds, restart | gRPC handlers, file system |
| Support chat (`bankdemo/chat.go`) | sessions, the queue for agents, listeners, monitors, two kinds of locks | init, accept, post, leave, hang up, monitor | gRPC handlers |
| Test server | none | echo what it is asked to | |

What makes the modelled components correct:

* **InvokeRPC**: each request message is sent once, in order and alone although one
  object is reused for all; the handler's callbacks keep their order; a status
  is reported at most once, last, and never before the responses it follows; an
  internal `io.EOF` never becomes the outcome; the call returns once its stream has
  ended, and uses neither the supplier nor the stream afterwards.
* **BlockingDial**: the first signal is the outcome; after a failed TLS handshake that
  failure is, not what grpc's retries come to; a connection that is ready is found; and a
  dial whose context ended leaves no goroutine behind.
* **The command**: the exit code tells a failed call from a failed command, every
  way out shuts down what was opened, reflection and the call share one
  connection, offline verbs stay offline, and success means the requested files
  exist.
* **Transport security**: a connection is ready only with a server that each of the
  flags about trust allows which its transport uses, whatever combination of them is given.
  Most combinations that cannot be honoured are refused; the others, beside `-plaintext`, `-alts`,
  `-spiffe-id` and `-insecure`, are known, and not all of them documented
  ([findings](#7-what-the-runs-found)).
* **Parsers and formatters**: requests are the records of the input, each once and in
  order, and then the end; what is printed can be piped into another grpcurl; a type of an
  Any is looked up once although two goroutines ask for it, and neither gets stuck but behind
  a server that does not answer.
* **Listings, extensions, templates**: walks over graphs with cycles and diamonds end, visit
  nothing twice and miss nothing; one origin's answer does not hide the other's.
* **Descriptor sources**: files are created and written after what they import
  and once, for every shape of import graph and any order of the input; nothing
  that was asked for is left out.
* **The bank demo**: a balance is what its transactions add up to, also at the
  limits of int32; transfers make no money, and lose none; a number stands for one account of
  one customer; a graceful stop saves everything, and the periodic save a state that the server
  had; a restart restores it. (Not all of these hold: see [findings](#7-what-the-runs-found).)

## 2. What is hard about it

Concurrency is in `invokeBidi` (a sender and a receiver over one stream, one context
and one atomic error), in `BlockingDial` (a poller, grpc's own goroutines, the
caller and a timeout) and in the bank demo. Failures come from the server, the
network, the request data, the deadline and the files; ordering matters for
responses against statuses, for callbacks, and for imports. `PROJECT.json` lists each
hazard at its line ("hazards"), with the property that would catch it, or the
reason why none does. The ones behind most of the properties:

* `invoke.go:330-364`: the sender cancels before it stores its error; the
  receiver that the cancellation wakes may look before the store.
* `invoke.go:312`: the return waits for a sender that may be blocked, by flow
  control or by its supplier.
* `invoke.go:336`: the request object is reused.
* `grpcurl.go:802-904`: writers that never block, a channel with one place, and a
  reader that may come late.
* `grpcurl.go:602`: standard verification is off, a callback has to replace all of it.
* `format.go:264-284`: a look at a cache under a read lock, a second one under the write
  lock, and a query to the server with that lock held; `format.go:110-114`: the end of
  the input arrives together with its last record.
* `grpcurl.go:464`: a recursion that appends to slices whose array its branches share.
* `cmd/grpcurl/grpcurl.go:976`: `os.Exit` runs no deferred function.
* `bankdemo/db.go:148-177`: a clone that takes the lock anew for each read and shares
  arrays with the slices it copied; `db.go:175`: a copy that leaves the balance out.
* `desc_source.go:106`, `291`, `350`: recursion without a mark, topological
  order, and file names taken for files.

## 3. Modules and the code they model

```
InvocationEvents          the abstract protocol of callbacks and outcome
      ^ refined by               ^ INSTANCE (the call of an RPC)
GrpcStream <- InvokeRPC <- InvokeBidi      Cli
                        <- InvokeCalls
Credentials <- Dial
LoadProtosets <- WriteProtoset <- Listings
RequestSupplier           the abstract protocol of a request supplier
      ^ refined by
Extensions <- AnyResolver <- Formats
           <- Template    <-
Bank <- BankServer
```

An arrow is EXTENDS. `MC*` modules give constants their values together with the
.cfg files; `*Proofs` modules hold the theorems. Operators whose comment says
"Mutant" are plausible bugs of the definition next to them; no specification uses
them. They show that each property can tell the code from a wrong one.

### InvocationEvents, GrpcStream, InvokeRPC, InvokeBidi, InvokeCalls

*InvocationEvents* is the abstract specification: what an `InvocationEventHandler` and
the caller of `InvokeRPC` may see, whatever the kind of method. `EventProtocol` in
InvokeBidi and InvokeCalls says that these implement it; the variables it shares
with them (`callback`, `numResponses`, `status`, `result`) have the same names, so that
the refinement mapping is the identity on them and forgets the rest.

*GrpcStream* is external: the stream behind `grpcdynamic`, as `invoke.go` uses it. The
server may send headers, read a request, respond or finish at any time. `SendMsg`
blocks while `Window` requests are unread, and returns `io.EOF` on a stream that has
ended. `RecvMsg` gives a status of the server only after all its responses, but
a status made by the client (cancellation, deadline, a message that cannot be
encoded or decoded) at once. `"Failed"` stands for every error status a server
may send.

*InvokeRPC* is the code before the four functions part (`invoke.go:87-151`) and the
helpers they share. `req` is the set of messages merged into the one request
object: `requestData(req)` adds to it and `req.Reset()` empties it, so that a
forgotten reset shows. `status` is `DefaultEventHandler.Status`.

*InvokeBidi* has the program counters of both goroutines, `pc` and `spc`. Each access to
shared state is a step of its own: the sender's cancel and its store of
`sendErr` are two steps (`SenderCancel`, `SenderStore`), the receiver's load is
in `Report`, and the deferred `wg.Wait` and the return are in `WaitSender`. The
deferred `cancel` is part of `Return`.

*InvokeCalls* has the kinds served by one goroutine; `kind` is chosen at the start. Each
call into the supplier, the stream or the handler is an action. Unary calls and
server streams ask for a second message, a client stream uploads in a loop
and goes to `CloseAndReceive` when the server has told it to go away.

### Credentials, Dial

*Credentials* holds no state: the flags about transport security and the checks `main` makes of
them (`Usable`), the transport credentials they lead to (`CredentialsFor` and the four
`ClientTLSConfig...`), the name the server has to prove (`Authority`), and the SPIFFE callback
(`VerifyPeerCertificate`, which stands for go-spiffe's as well). A server is the authority
that issued its certificate, the name and the SPIFFE IDs in it, and its ALTS
account. `Accepts` is external: crypto/tls checks chain and name unless
`InsecureSkipVerify` is set, and calls the callback in any case. `Honours` is what a user may
rely on: each flag gets what it `Asks` for, and without one the server is verified as is
standard. Exempt are the flags of `Unused`, a table of those that the command accepts and then does
not verify the server by: `-cacert`, `-servername` and `-authority` beside `-plaintext`, `-alts` or
`-insecure`, and `-servername`, `-authority` and `-insecure` beside `-spiffe-id`. That table is what
the code does; [section 7](#7-what-the-runs-found) names what the help does not say of it.

*Dial* is the caller (`Connect`, `WaitForResult`, `TakeResult`, `GiveUp`), the polling
goroutine (`PollerLooks`, `PollerSignals`, `PollerWakes`: `GetState` and
`WaitForStateChange` are separate steps, so that the state may change between
them), and the ClientConn, which is external: it dials, shakes hands with a server the
credentials accept, waits for its settings, fails, retries and loses connections at
will. `writeResult` is `WriteResult`: `result` is the
channel and `first` remembers what was written first. Only the custom dialer (a
network other than tcp or unix) signals a dial error. A failed handshake is signalled by
`errSignalingCreds`; without credentials (`-plaintext`) there is none. The history variable
`failure` is the first of the failures that BlockingDial is to hear of, whether it does or not.

### Cli

`main` from the flags to the exit code; `flags` is everything that decides where control
goes. `fail`, `exit` and the deferred `reset` are `Exit` once the verb has been reached;
before that, nothing is open that they would close. `Call` is a step of
InvocationEvents, which InvokeBidi and InvokeCalls implement, so that Cli sees every outcome
they have and no other.

### LoadProtosets, WriteProtoset

A file is its name and the names it imports. *LoadProtosets* is
`DescriptorSourceFromFileDescriptorSet`: the recursion of `resolveFileDescriptor` is `stack`, the
map of resolved files is the sequence `resolved` in the order of creation, and a
stack with `MaxDepth` frames overflows, which stands for the exhaustion of Go's.
Of two files with one name the latter counts, as in the code's map.
*WriteProtoset* adds `getFileDescriptors` (`FindOnServer`, `FindInProtosets`: `compositeSource`
asks the server first) and `addFilesToSet` (`frames`, `expanded`, `out`). A descriptor is
known by its origin and its place there, so that two different files of one name can be told
apart.

*Listings* uses a source that was loaded for `GetAllFiles`: of a file source all at once, of
any other by asking for each service and walking from its file (`Walk`, with the names
seen so far). `asked`, `located` and `missing` remember which questions failed.
`DescriptorSourceFromFileDescriptors` then takes these files in the order of their names:
`AddFile` compares files as pointers, where `addAllFilesToSet` compares names.

### RequestSupplier, Extensions, Template, AnyResolver, Formats

*RequestSupplier* is the abstract specification of what InvokeRPC may expect from `rf.Next`: the
messages of the input in order, then the end for good, or a failure where the input is
bad. `RequestsFollowInput` says that both parsers implement it.

*Extensions* has `AllExtensionsForType` of the three kinds of sources (`Answers`: the server may fail at
any of its tags) and the recursion of `fetchAllExtensions` as a stack of frames, for the
two root types of InvokeRPC and the one of `EnsureExtensions`. *Template* is the recursion of
`makeTemplate`. Its `path` is a Go slice, so that `arrays` holds the backing arrays and
`AppendSlice` writes into spare room that other slices may share. *AnyResolver* has a
program counter for each goroutine in `Resolve`: the cache under the read lock
(`ReadCache`), the second look under the write lock (`LockAndCheck`), and then, with
that lock held, `FindType` and `AddExtensions`.

*Formats* composes these. A text is a sequence of tokens, a token the set of the fields of a
message (or of a part of one); `{"bad"}` cannot be understood and `RS` is the record
separator. The sender's goroutine reads the input (`NextText`, `NextJson`), the receiver's
prints responses (`OnReceiveResponse`, `PrintResponse`, `PrintFails`), and in JSON both resolve
the Any values of their messages through the one resolver of
`RequestParserAndFormatter`. `raw` are the values the fallback prints as they are.

### Bank, BankServer

*Bank* is `accounts` of `bankdemo/db.go` with the handlers of `bank.go`. `objects` are the account
structs, closed ones included, and `byNumber` has pointers to them, so that a handler can
work on an account that was closed after it found it. `lists` and `arrays` are Go's
slices: `append` writes into spare room or copies to an array of twice the size, and closing
moves numbers within an array that others may be reading. A request is a
record with the step it is at: `FindSource`, `FindDest`, `Debit` and `Credit` each hold a lock
once. A deposit is a transfer from outside, a withdrawal one to the outside; `op` tells them
apart where the code does (a nil account). `Wrap` is int32 addition, with `MaxInt` for
2^31 - 1. `paidIn` is a history variable: the money that came from outside.

*BankServer* is the process. `clone` is read step by step (`ReadCustomers`, `ReadNumbers`,
`FindAccount`, `ReadTransactions`), once for `bgSaver` and once for `main` after a graceful stop;
`Marshal` reads the copied slices again, as `json.Marshal` does, and empties the file;
`FinishSave` and `Exit` complete it, fail, or leave a mixture. A nil account in a handler or
in clone is `Panic`, which ends the process as `Crash` does; `Restart` is `load`.

Simplified: `json.Marshal` reads all slices in one step; an array that was loaded has no
spare room, which is so in Go for one and two numbers. Left out because nothing but a reply
depends on it: `AccountNumbers`, an account's type and its own copy of its number, a
transaction's date, text and sequence number, `GetAccounts` and `GetTransactions` (on a nil
account they panic like `CloseAccount`), the customer's token.

## 4. Runs

| Run | Configuration | Shows | Distinct states |
|---|---|---|---|
| `bidi` | 3 requests, 2 responses, window 2, deadline | requests intact; a server status means all responses were delivered; `wg.Wait` is never reached on an open stream; no use of supplier or stream after the return; the callbacks implement InvocationEvents; end of stream or deadline ends the call | 21247 |
| `calls` | the three other kinds; 3 requests, 2 responses, window 1, deadline | as above, and: a second message is refused before anything is sent; OK means one response unless the server streams; the server's status survives an early end of the upload | 6992 |
| `dial` | every usable set of up to 3 flags about trust, 8 servers, up to 2 attempts, both dialers, the context may end anywhere or never | the first signal is returned; a connection is handed out after its poller has gone, and ready only with a server that honours every flag its transport uses; a failed handshake is the outcome, whatever the retries come to; a signal or a lasting connection is enough to return; the context ends caller and poller | 251022 |
| `cli` | every combination of flags, one response, statuses OK, Failed, Canceled | exit codes, clean shutdown, one connection and none offline, requested files exist on success | 23360 |
| `write_protoset` | every import graph below, two servers or an empty one, two symbols | load order, completeness, cycles, topological output without doubles, all symbols written; all files listed, with the first error, and a source made of them complete or refused; termination | 244229 |
| `formats` | 3 types in 24 graphs, 2 origins; 5 JSON inputs and every text of up to 3 tokens, readable to its end or not; 2 responses | extensions of all reachable types fetched once; templates unfold fully and end; parsers implement RequestSupplier; the output parses back; types resolved once, and nobody stuck in the resolver but behind a silent server | 600844 |
| `bank` | two customers, two accounts, one request at a time, one save by `bgSaver`, one restart, amounts of two bits | balances explained by transactions; no money made; numbers unique and with an account; the final save complete; across stops, panics and crashes | 2323331 |
| `bidi_request_error`, `bidi_slow_input`, `cli_invoke_outputs`, `write_mixed`, `bank_restart` | as stated in their .cfg | one disagreement each between the code and its documentation, see [findings](#7-what-the-runs-found) | |

**Why the bounds are enough.** Three requests with a window of one or two reach a
blocked sender with a request behind it, and a request object that is used, reset and used
again. Two responses are the least for "one too many" in a call that expects one
and for a status that could overtake one of several. Whether the deadline
expires, and when, is a choice, so that `HasDeadline = TRUE` includes
calls without. Two attempts let grpc retry once after a dial error, a handshake error or missing
settings; the channel has one place, so that two
writers already compete. Every rule about flags concerns two of them, the choice of a
configuration three (`-spiffe-id`, what it is verified against, and `-insecure` or `-cert`); a key comes
with its certificate. The eight servers differ from what each flag asks for in one
respect at least: another issuer, another name, another or a second ID, another account.
Three types have all that matters to a walk: a type that contains itself, a
cycle of two, two ways to one type, and a cycle under one of these. Three tokens make an empty
record at either end and between two separators, and a bad record before or after
a good one. The JSON inputs have an Any of a type that both origins know, one that only the
server knows, one for which the server has something that is no message, and the same one twice. Three file names with up to two imports each have
every shape that matters: chains, diamonds, repeated imports, imports of itself,
circles of two and three, missing files, and a name that occurs twice. Three frames are
what an acyclic graph over three names can need, so that `LoadedIsComplete` can say that
only circles go deeper. A third symbol would add no new case to the two that share
a file, have one each, or come from two origins.

For the bank, `MaxInt = 1` makes integers from -2 to 1, so that any two deposits
into one account overflow. Two accounts are a source and a destination; two
numbers of one customer are the least that a close can move while a clone reads
them, and the least for two customers with the same number after a restart. One request
at a time is enough for the balance, since `newTransaction` holds the account's lock
throughout: what comes in between is an opening or a close, and those are
interleaved with the request and with both saves. (Two requests at once, without saves and
with two transactions, have been checked as well.) The customers are symmetric, and all
properties of this run are invariants. `bank_restart` has one transaction less.

Counters stop at their bounds by
guards of the environment's actions (`produced < MaxResponses`, `supplied < MaxRequests`,
`attempts < MaxAttempts`, `symbols < MaxSymbols`, `Len(objects) < MaxAccounts`,
`Transactions < MaxTransactions`, `saves < MaxSaves`, `restarts < MaxRestarts`).

`TypeOK` is checked by every passing run. Deadlock is checked in all runs: each
specification ends in an explicit `Terminated` step.

## 5. Fairness

* *InvokeBidi*: weak fairness on the receiver's and the sender's own steps and on the
  library noticing a context that is done: goroutines are scheduled, and grpc
  tears a stream down when its context ends. The server, the
  deadline and the network owe nothing. `FairSpec` adds that the request
  supplier answers (a file, a closed pipe, `-d` with data); `SlowInputSpec` does not
  (standard input that nobody writes to).
* *InvokeCalls*: the same for its one goroutine, supplier included.
* *Dial*: the caller and the poller. ClientConn and context owe nothing.
* *WriteProtoset*: the program takes steps as long as it can; here a query of the server is one
  step that ends, since these runs are about the recursions in between.
* *Formats*: both goroutines take steps as long as they can, and a Go mutex does not starve
  those who wait for it. A query of the reflection service need not be answered: its client has
  `main`'s context (`cmd/grpcurl/grpcurl.go:503`, `668-673`), which ends with `-max-time` and
  nothing else, not the one that InvokeRPC cancels. So the steps after a query are fair
  only if there is no server to ask or `limited` is true (`QueriesEnd`), and
  `AnyValuesAreResolved` says that a message which is stuck is stuck behind such a query.
* *Cli* and *BankServer* have safety properties only.

With these two exceptions (the supplier of `FairSpec`, the server of *WriteProtoset*) liveness is
stated without assuming that anything outside answers: "once the stream has ended", "once the
deadline has expired", "once something was signalled", "unless the server stays silent".

## 6. What is proved

| Theorem | Says |
|---|---|
| InvokeBidiProofs!TypeCorrect | `Spec => []TypeOK` |
| InvokeBidiProofs!RequestsStayIntact | `Spec => []RequestsIntact` |
| InvokeBidiProofs!NeverSelfDeadlocked | `Spec => []NoSelfDeadlock` |
| InvokeBidiProofs!StatusMeansComplete | `Spec => []ResponsesComplete` |
| InvokeBidiProofs!ReturnIsQuiet | `Spec => QuietAfterReturn` (an action property) |
| InvokeBidiProofs!BidiFollowsProtocol | `Spec => EventProtocol`: invokeBidi implements InvocationEvents |
| InvokeCallsProofs!TypeCorrect | `Spec => []TypeOK` |
| InvokeCallsProofs!RequestsStayIntact | `Spec => []RequestsIntact` |
| InvokeCallsProofs!StatusMeansComplete | `Spec => []ResponsesComplete` |
| InvokeCallsProofs!CallsFollowProtocol | `Spec => EventProtocol`: the other three kinds of calls implement InvocationEvents |
| DialProofs!TypeCorrect | `Spec => []TypeOK` |
| DialProofs!FirstResultReturned | `Spec => []FirstResultWins` |
| DialProofs!ReadyIsVerified | `Spec => []ReadyMeansVerified`: for every set of flags, but for those in `Unused`, and every server |
| DialProofs!FailuresReported | `Spec => []FailureReported` |
| CliProofs!TypeCorrect | `Spec => []TypeOK` |
| CliProofs!ExitCodeIsStatus | `Spec => []StatusDecidesExit` |
| CliProofs!EverythingIsClosed | `Spec => []CleanShutdown` |
| CliProofs!SuccessMeansWritten | `Spec => []OutputsWritten` |
| WriteProtosetProofs!LoadedInOrder | `LoadSpec => []DependenciesFirst` |
| WriteProtosetProofs!LoadedComplete | `LoadSpec => []LoadedIsComplete`, if the stack has a frame for every name |
| WriteProtosetProofs!TypeCorrect | `Spec => []TypeOK` |
| WriteProtosetProofs!WrittenInOrder | `Spec => []TopologicalOrder`: dependencies first, and no name twice |
| WriteProtosetProofs!EverySymbolWritten | `Spec => []SymbolsWritten` |
| WriteProtosetProofs!ListingOnlyReads | `ListingSpec => Spec`: listing files changes nothing of the sources it reads, so that what is proved of them holds there too |
| WriteProtosetProofs!ListingIsComplete | `ListingSpec => []AllFilesListed`: for every import graph |
| FormatsProofs!TypeCorrect | `Spec => []TypeOK` |
| FormatsProofs!ExtensionsAreFetched | `Spec => []ExtensionsFetched`: for every graph of types |
| FormatsProofs!TypesFoundOnce | `Spec => []ResolvedOnce` |
| FormatsProofs!ParsersSupply | `Spec => RequestsFollowInput`: both parsers implement RequestSupplier |
| FormatsProofs!TemplatesUnfold | `Spec => []TemplateUnfolds`: for every graph of types |
| FormatsProofs!OutputIsInput | `Spec => []OutputParsesBack`: for every list of responses |
| BankProofs!TypeCorrect | `Spec => []TypeOK` |
| BankProofs!NoMoneyCreated | `Spec => []MoneyNotCreated` |
| BankProofs!NumbersListedOnce | `Spec => []ListedOnce` |
| BankProofs!FinalSaveComplete | `Spec => []FinalSaveIsComplete` |

They hold for all values of the constants under the assumptions of the modules, and nothing else:

* `StreamAssumption`, `DialAssumption`, `ServerAssumption`: bounds are natural numbers, the window
  of a stream is positive. `CliAssumption`: OK is one of the statuses.
* `CredentialsAssumption`: flags are flags of the program, servers have the fields of a server.
* `LoadAssumption` and `WriteAssumption`: protosets are sequences of files; what a server offers is in
  order, as the library that links its files guarantees. `ListingsAssumption`: names can be sorted, i.e. some sequence
  has each of them.
* `ExtensionsAssumption`: extendable types are types, a graph gives each type a sequence of types, and
  each type has a set of tags. `FormatsAssumption`: the two goroutines of a call; types are among the
  fields of a message; the marks for a broken token and for the separator are not.
* `ResolverAssumption`: what the server has for a name is a message or something else, not both.
* `BankAssumption`: finitely many requests at once, of amounts from 1 to `MaxInt`. The handlers refuse
  any other but one: `Withdraw` lets -2^31 pass, which `newTransaction` refuses whatever the balance is
  (`db.go:125-126`), so that such a request changes nothing and is left out.

`LoadedComplete` has a hypothesis of its own: there are finitely many names, and `MaxDepth` is at
least their number. Without it a chain of imports alone could exhaust the stack, which Go's,
of a gigabyte, does not do for any protoset that fits in memory; with it only a circle can, and that is
what the theorem says.

**InvokeBidi.** Four invariants, each with a lemma that every step keeps it, and with one
case per action:

* `SendInv` ties the sender's place to its data. `RequestsIntact` is not inductive by
  itself: it needs that `req` is empty whenever the supplier is asked, and holds
  exactly the message after those on the wire when `SendMsg` is called.
* `StreamInv`: there is a sender only if there is a stream, and the receiver leaves
  a stream only when it has ended. The second is why `wg.Wait` is safe: a sender
  blocked by flow control is released by the end of the stream.
* `ResponseInv` counts: responses delivered plus responses waiting are those
  produced as long as the receiver is at work, and its error then says how the
  stream ended. It also needs that nothing the sender stores is a status of the
  server.
* `CallbackInv` says which callback can be the last one at each point; together with
  `StreamInv` it lets each step map to a step of InvocationEvents or to a stutter.

**InvokeCalls.** Not even `TypeOK` is inductive alone: `status` becomes what `err` is, and it is a status only because nothing
else gets to `OnReceiveTrailers`. `PathInv` says which kinds of calls pass which points, and that. `RequestInv`, `ResponseInv` and `CallbackInv` are what
they are for InvokeBidi, with one goroutine; `ResponseInv` counts up to the point where the outcome is
known (`Decided`) and speaks of `err` from there.

**Cli.** `StatusInv`: there is a status only after the trailers of a call, and such a call returns nil,
so that the exit code can rely on it. `DialInv`: what was dialled is open until `main` exits, and the
reflection client uses that connection. `OutputInv`: the protoset is written before the .proto files, and only
`invoke` goes past them to a call, with what `cli_invoke_outputs` shows.

**Dialling.** `ConnInv`: a connection attempt begins only after the credentials were made from the
flags, and the server of a connection is one they accept; a ready connection has no
attempt under way, so that no failure can take its server away unnoticed. The lemma
`AcceptedHonours` is about flags alone: whatever `main` allows, a server that the
resulting credentials accept honours each flag but those of `Unused`. TLC has seen sets of up to three
flags, the lemma covers all. `ResultInv`: until the caller returns, the channel holds the first result
or nothing was signalled, which is what the capacity of one and the `select` in
`writeResult` buy. The first result is the first failure, if there is one: a connection that the poller
has seen ready has no attempt under way and gets none, so nothing can fail between
that and its signal.

**Loading.** `StackInv`: a frame is for a file that was given and not created yet; its imports
before the current one exist; and it waits for the frame above. Creating the top
file never creates one twice, although the code marks nothing as being in progress: if
another frame held the same file it would be waiting for an import that does not exist yet,
while the top frame has found all imports of that file. For completeness, `LoopInv` says that
each file which the loop has passed exists, or is the one the stack is for; and a full
stack is a circle: there are more frames than names, so that two of them hold one file
(`FullStackIsCyclic`). Conversely what was created cannot lie on a circle: of the files of a circle
one would have been created first, before the file it imports (`LoadedHasNoCircle`).

**Writing.** `FramesInv`: the frames of `addFilesToSet` lie in one origin and go strictly
down in the order in which that origin's files were created (the lemma
`CreationOrder`); `expanded` is what is written plus what is on the stack. When a
file is appended all its imports have been visited. They were created before it, the
files below it on the stack after it, so they are not on the stack and have been
written. `LinkedInv` keeps descriptors linked, which is where
`LoadedInOrder` and the assumption on servers come in. The conjunction `IInv` is inductive.
`SymbolInv` adds what becomes of symbols: each has a root of its file's name, each root that was
passed is expanded, and all that is written comes from the origins of the symbols. Where these are
one origin, a name stands for one file, which is all that `SymbolsWritten` needs and what
`write_mixed` lacks.

**Listing.** `Walk` is the recursion of `addAllFilesToSet`, a function on the places of an origin's files. What it
should compute is the smallest set that has the file and, with a member that is not skipped, what that
member imports (`ReachIs`). `WalkReaches` shows that this is a solution of the recursion, so there is one, and that it is the only one: of
the files for which another differed, the first that was created would have imports before it for which none
does. `WalkIs` is what the steps need of it. `ListInv`
then says that after each service the files have different names and a file for every import: what a walk skips
is there under its name already. `ErrorInv` counts the questions. `SourceInv` is about a source made of the files: it is closed under
imports as they are linked, has what was added and lies in the closure of the files, so that it is this closure when all were
added; and it is refused only when two files of the closure share a name.

**Extensions, templates, Any.** `WalkInv`: what is asked for is marked first; the fields of a marked
type are marked too, or a frame is still going through them. With no frame left the marked types are
closed under fields, so they contain what is reachable (`WalkedAll`). `RegistryInv` keeps
what was answered for them. For templates, `PathInv`: frames share arrays, but the prefix that is a frame's own
is never overwritten, since `append` writes only beyond it, and at a place that no frame below it
has. `TreeInv`: the tree has no message but fields of others in it, and all of these but what the frames
still have to do. `LockInv`: the goroutine between the second look at the cache and the end of
`FindType` holds the lock, and what it wants is not cached; hence `FoundInv`, that a
type which was found is cached or just about to be.

**Parsers and output.** `SupplyInv`: the JSON parser has handed out one message per value, the text parser
one per separator passed; the record between two separators is the one that `Records` has
at that place (`RecordIs`, `InputIs`), although `Records` is a fold of the whole input. `StdoutInv`: the first
responses, up to the first that could not be printed, stand in the output at the places of
their records, with separators between them; `RawInv` says that the values printed as
they are have types that a parser over the same source may not find either. `OutputReads` then reads
the output with `SupplyInv`'s own lemmas.

**Bank.** Sums over accounts are sums of a recursive function, about which the induction theorems of the
library cannot be used. What is needed of them is a fact about sets of naturals, that one without a
least element is empty (`SetInduction`), from which the existence of the recursion's solution
(`IterExists`), that the order does not matter (`IterRemove`) and that one changed term changes the sum by
the difference (`SumChange`) follow. On this rest:

* `SliceInv`: no two customers share an array, and what was a valid slice stays one (`AppendNumberIs`,
  `RemoveNumberIs`), however late a saver reads it. `ListedOnce` is proved place by place.
* `AccountInv` and `BalanceInv`: pointers are nil or point to accounts, and a balance is the sum of the
  transactions since the account was loaded.
* `FirstRunInv`: `MoneyNotCreated` is not inductive. Money that was debited and not yet credited
  is in transit, and a request past its debit has taken it; a request that was given an account
  has found it, since numbers are never given out again in the first run.
* `SaverInv`, `ModeInv`, `FinalInv`: `main` saves when no request is in progress, and then what it has read is still what
  there is.

The inductive invariants were checked by TLC on the instances of the runs before they were proved.

**Only model-checked:** liveness (`EndLeadsToReturn`, `DeadlineEndsCall`, `ContextEndsDial` and
`SignalEndsDial`, `Ends`, `AnyValuesAreResolved`), since fairness is outside of what the prover handles.

## 7. What the runs found

* **A request error can be reported as the RPC's own cancellation**
  (`bidi_request_error`). When request data cannot be parsed, the sender cancels the
  context (`invoke.go:330`) and stores its error afterwards (`340`). The receiver may load
  `sendErr` in between (`364`) and then reports status Canceled through
  `OnReceiveTrailers`, and nil, for an error that never was an RPC status.
* **A deadline does not end a bidirectional call that waits for input**
  (`bidi_slow_input`). The deferred `wg.Wait` (`invoke.go:312`) waits for the supplier, while the
  help of `-max-time` (`cmd/grpcurl/grpcurl.go:158-162`) promises a bound for the whole operation.
* **`-protoset-out` and `-proto-out-dir` do nothing when an RPC is invoked**
  (`cli_invoke_outputs`), although their help says that the method's files will be
  written (`cmd/grpcurl/grpcurl.go:172-182`).
* **Symbols of two origins can be lost when their files have one name**
  (`write_mixed`). `getFileDescriptors` keys files by name (`desc_source.go:350`), while the
  comment on `WriteProtoset` (`260-261`) promises the files of all symbols.
* **A restart of the bank loses the balances** (`bank_restart`). `clone` copies only the transactions
  of an account (`db.go:175`), so that after a restart every balance is zero, while the
  demo's README (line 7) says that the data can be restored.

Modelled as the code has it, and without a run of their own:

* A client, server or bidirectional stream that cannot be created has no trailers,
  so that no status is reported and nil is returned (`invoke.go:240`; `format.go:446-447` says
  that `Status` is nil while the RPC is in progress). `InvocationEvents!ReturnNil` therefore
  allows nil directly after `OnSendHeaders`, and `StatusDecidesExit` of Cli lets
  such a call exit with 0.
* With grpc's own dialer (tcp and unix, `grpcurl.go:816-831`) a refused connection is
  retried silently until the timeout; only handshakes and the custom dialer signal. So is a
  server that never sends its settings, as a TLS port does to `-plaintext`.
* `describe` without a symbol hands the empty symbol of the command line to
  `-proto-out-dir` (`cmd/grpcurl/grpcurl.go:842`) and fails, while `-protoset-out` gets the list.
* `-use-reflection` with descriptor files and no address dials the empty address
  (`cmd/grpcurl/grpcurl.go:670`), although the usage text (`925-926`) calls it optional there.
* `-cacert` and `-servername` are ignored in cases that their help does not name. The alts branch of
  `main`'s dial (`cmd/grpcurl/grpcurl.go:543-551`) reads neither, and with `-spiffe-id` no
  name is verified (`grpcurl.go:602`); `main` accepts both. The help of `-cacert` says "Ignored if
  -insecure is specified" (`67-68`), that of `-servername` "ignored if -plaintext or -insecure is
  used" (`190-191`).
* More flags are without effect beside others (`Unused`): `-insecure` beside
  `-spiffe-id` (whose `-cacert` is used all the same, although the help of `-cacert` says that it is
  ignored then), `-authority` beside `-alts`, `-cacert` beside `-plaintext`.
* Without `-max-time`, a reflection service that never answers a query for the type of an Any blocks both
  directions of the call for good: the one that asks, which holds the resolver's write lock
  (`format.go:273-284`), and the other when it needs a type. A status of the call does not end
  the query, whose context is `main`'s.
* A text of no records is one blank record (`format.go:110-122`): the empty output of a call without
  responses, piped into another grpcurl, is one empty request. `OutputParsesBack` is therefore about
  at least one response.
* The separator is written before the next response, not after a response (`format.go:178`), so that
  a grpcurl that reads from a pipe is always one message behind.
* `NumRequests` counts a record that cannot be parsed (`format.go:72`, `120`), while its comment (`30-31`) has
  "parsed and returned".
* The formatter falls back to types that are linked into the program, the parser does not
  (`format.go:412`): a printed response with such an Any cannot be sent as a request.
* When the query for a type's extensions fails, `anyResolver` caches the type without them
  (`format.go:293`) for the rest of the call. `ResolvedOnce` says how much that can lose.
* `floatSecondsToDuration` compares with `MaxInt64` as a float64 (`cmd/grpcurl/grpcurl.go:1038`), which is
  2^63: a product of exactly 2^63 passes and wraps around.
* After a restart of the bank two customers can have one account number: the last account number
  is not saved, so that a new account gets the number of an old one and replaces it (`db.go:33`).
  Closing it leaves the other customer with a number that has no account, and using that ends the
  server. `ListedOnce` is therefore limited to the time before a restart from the file.
* The bank's periodic save can write a list that never was. A close moves the numbers
  within an array which the clone shares (`db.go:81`) and an opening appends to it, both before
  `json.Marshal` reads it: the saved list may have a number without an account. Only what `main` saves
  at the end is complete (`FinalSaveIsComplete`).
* A transfer can lose money. When the credit would overflow it is refused, but the debit
  has been made (`bank.go:229`), while `bank.proto` (line 30) says that `Transfer` moves money.
  `MoneyNotCreated` is an inequality for this reason.
* A close between two reads of `clone` gives it a nil account (`db.go:168-171`): the server panics
  in the middle of a save.
* A transfer whose source is nil is credited without a debit (`bank.go:211`): `MoneyNotCreated` stops
  at a restart for this reason, since no account is nil before it.
* A deposit can reach an account that is being closed (`bank.go:134`); the money is in no list then.
* A save that is interrupted, or written over by another, may leave a file that `load` cannot parse
  (`main.go:139`), and the server does not start from it.

## 8. What is not modelled

* *Reflection protocol and .proto parsing*: protoreflect's work; only what it answers appears.
* *Chat* of the bank demo: a demonstration server that is not part of the program, with state of
  its own size (sessions, a queue, listeners, monitors, two kinds of locks). *Bank*: what section 3
  names as left out.
* *Transport security*: `ServerTransportCredentials` (for users of the library), the key log file, certificates
  and files beyond the authority they stand for. A configuration that cannot be built is `RejectConfig`
  of Dial.
* *Formats*: the conversion of messages (jsonpb, text format, `fullyConvertToDynamic`), what `-v` adds to the
  output, and `PrintStatus`, which writes to standard error.
* *Metadata, timing and text output*: conversions without state. A header that cannot be expanded
  ends the command in `ExpandHeaders` of Cli. The lists that `append(addlHeaders, ...)` builds twice may share an
  array (`cmd/grpcurl/grpcurl.go:668`, `878`), without harm: `MetadataFromHeaders` copies them at once.
* *Test server, generated code, build files*: no logic of their own.
* In the modelled parts: the contents of messages and headers, wording and verbosity, and
  the contents of descriptors beyond names and imports.

## 9. Plan

1. *(done)* The calls: GrpcStream, InvokeRPC, InvokeBidi, InvokeCalls against InvocationEvents; then
   Dial, Cli, LoadProtosets, WriteProtoset; proofs for InvokeBidi, LoadProtosets, WriteProtoset and Dial.
2. *(done)* The bank demo: Bank and BankServer.
3. *(done)* Extensions, Template, AnyResolver and Formats against RequestSupplier; Credentials
   in Dial; Listings on top of WriteProtoset; header expansion in Cli.
4. *(done)* Proofs for InvokeCalls, Cli, completeness of loading and writing, Formats with what it
   extends, and BankServer.
5. *(done)* Proof of `AllFilesListed`, from the solution of its recursion on.

## 10. Running the checks

```
tlc -config Bidi.cfg MCInvokeBidi          tlc -config Calls.cfg MCInvokeCalls
tlc -config Dial.cfg MCDial                tlc -config Cli.cfg MCCli
tlc -config WriteProtoset.cfg MCWriteProtoset
tlc -config Formats.cfg MCFormats          tlc -config BankServer.cfg MCBankServer
tlapm InvokeBidiProofs.tla                 tlapm InvokeCallsProofs.tla
tlapm DialProofs.tla                       tlapm CliProofs.tla
tlapm WriteProtosetProofs.tla              tlapm FormatsProofs.tla
tlapm BankProofs.tla
```

The other configurations (`BidiRequestError`, `BidiSlowInput`, `CliInvokeOutputs`,
`WriteMixed`, `BankRestart`) end in the counterexamples described above. `PROJECT.json` maps every
definition to the source lines it models.

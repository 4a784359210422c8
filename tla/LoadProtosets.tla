---------------------------- MODULE LoadProtosets ----------------------------
(***************************************************************************)
(* DescriptorSourceFromFileDescriptorSet (desc_source.go): the files of    *)
(* one or more protosets are turned into linked file descriptors.  The     *)
(* recursion of resolveFileDescriptor is a stack of frames; the map of     *)
(* resolved files is kept in the order in which they are created.          *)
(***************************************************************************)
EXTENDS Naturals, Sequences

CONSTANTS
    Names,      \* file names
    Protosets,  \* the lists of files that the given protosets may hold
    MaxDepth    \* the frames that Go's stack has room for

\* A file of a protoset: its name and the names of the files it imports.
Proto == [name : Names, deps : Seq(Names)]

ASSUME LoadAssumption == Protosets \subseteq Seq(Proto) /\ MaxDepth \in Nat

VARIABLES
    given,      \* files.File
    pos,        \* position of the loop over it
    stack,      \* frames of resolveFileDescriptor: a file, its next import
    resolved,   \* the files created so far, in that order
    loading     \* "loading", "loaded", or what ended it

loadVars == <<given, pos, stack, resolved, loading>>

NamesIn(files) == {files[i].name : i \in DOMAIN files}

\* unresolved is a map: of two files with one name it keeps the latter.
Unresolved(i) ==
    /\ i \in DOMAIN given
    /\ \A j \in DOMAIN given : given[j].name = given[i].name => j <= i

Frame == [file : Proto, next : Nat \ {0}]

LoadTypeOK ==
    /\ given \in Seq(Proto)
    /\ pos \in Nat \ {0}
    /\ stack \in Seq(Frame)
    /\ resolved \in Seq(Proto)
    /\ loading \in {"loading", "loaded", "notFound", "invalid", "overflow"}

LoadInit ==
    /\ given \in Protosets
    /\ pos = 1
    /\ stack = <<>>
    /\ resolved = <<>>
    /\ loading = "loading"

Top == stack[Len(stack)]
Pop == SubSeq(stack, 1, Len(stack) - 1)

\* A call of resolveFileDescriptor for name n, made from the frames in below.
\* Mutant: a file counts as resolved from the moment its frame exists.
ResolveMarked(n, below) ==
    IF n \in NamesIn(resolved) \cup {stack[k].file.name : k \in DOMAIN stack}
    THEN stack' = below /\ UNCHANGED loading
    ELSE \/ \E i \in DOMAIN given :
              /\ Unresolved(i) /\ given[i].name = n
              /\ stack' = Append(below, [file |-> given[i], next |-> 1])
              /\ UNCHANGED loading
         \/ n \notin NamesIn(given) /\ loading' = "notFound" /\ UNCHANGED stack
Resolve(n, below) ==
    IF n \in NamesIn(resolved)
    THEN stack' = below /\ UNCHANGED loading
    ELSE \/ \E i \in DOMAIN given :
              /\ Unresolved(i) /\ given[i].name = n
              /\ Len(stack) < MaxDepth
              /\ stack' = Append(below, [file |-> given[i], next |-> 1])
              /\ UNCHANGED loading
         \/ /\ n \in NamesIn(given) /\ Len(stack) = MaxDepth
            /\ loading' = "overflow" /\ UNCHANGED stack
         \/ n \notin NamesIn(given) /\ loading' = "notFound" /\ UNCHANGED stack

ResolveNext ==
    /\ loading = "loading"
    /\ stack = <<>>
    /\ pos <= Len(given)
    /\ Resolve(given[pos].name, stack)
    /\ pos' = pos + 1
    /\ UNCHANGED <<given, resolved>>

ResolveDependency ==
    /\ loading = "loading"
    /\ stack # <<>>
    /\ Top.next <= Len(Top.file.deps)
    /\ Resolve(Top.file.deps[Top.next], [stack EXCEPT ![Len(stack)].next = @ + 1])
    /\ UNCHANGED <<given, pos, resolved>>

Create ==
    /\ loading = "loading"
    /\ stack # <<>>
    /\ Top.next > Len(Top.file.deps)
    /\ resolved' = Append(resolved, Top.file)
    /\ stack' = Pop
    /\ UNCHANGED <<given, pos, loading>>

\* The contents of a file do not fit together with its imports.
CreateFails ==
    /\ loading = "loading"
    /\ stack # <<>>
    /\ Top.next > Len(Top.file.deps)
    /\ loading' = "invalid"
    /\ UNCHANGED <<given, pos, stack, resolved>>

\* Mutant: the loop stops before the last file.
LoadedEarly ==
    /\ loading = "loading"
    /\ stack = <<>>
    /\ pos >= Len(given)
    /\ loading' = "loaded"
    /\ UNCHANGED <<given, pos, stack, resolved>>
Loaded ==
    /\ loading = "loading"
    /\ stack = <<>>
    /\ pos > Len(given)
    /\ loading' = "loaded"
    /\ UNCHANGED <<given, pos, stack, resolved>>

LoadNext == ResolveNext \/ ResolveDependency \/ Create \/ CreateFails \/ Loaded

LoadSpec == LoadInit /\ [][LoadNext]_loadVars
-------------------------------------------------------------------------------
(* Properties. *)

\* Files in creation order: no name twice, and all imports of a file before it.
InOrder(files) ==
    /\ \A i, j \in DOMAIN files : files[i].name = files[j].name => i = j
    /\ \A i \in DOMAIN files : \A k \in DOMAIN files[i].deps :
          \E j \in 1 .. i - 1 : files[j].name = files[i].deps[k]

\* Each file is created once and after its imports, whatever the order of the
\* protosets, the files that occur more than once, and the shape of the graph.
DependenciesFirst == InOrder(resolved)

\* Some given files import each other in a circle.
Cyclic ==
    \E circle \in SUBSET Names :
        /\ circle # {}
        /\ \A n \in circle : \E i \in DOMAIN given :
              /\ Unresolved(i) /\ given[i].name = n
              /\ \E k \in DOMAIN given[i].deps : given[i].deps[k] \in circle

\* A source that was loaded offers every file that was given, and no circular
\* imports make it into a source; with a frame for every name, only such a circle
\* exhausts the stack.
LoadedIsComplete ==
    /\ loading = "loaded" => NamesIn(resolved) = NamesIn(given) /\ ~Cyclic
    /\ loading = "overflow" => Cyclic
-------------------------------------------------------------------------------
(* Inductive invariant behind the theorems of WriteProtosetProofs. *)

\* The file of a frame was given and has not been created; its imports before
\* limit have; one of them is what the frame above is for.
Unfinished(f) ==
    /\ \E i \in DOMAIN given : Unresolved(i) /\ f.file = given[i]
    /\ f.file.name \notin NamesIn(resolved)
Passed(f, limit) ==
    \A m \in DOMAIN f.file.deps :
        m < limit => f.file.deps[m] \in NamesIn(resolved)
WaitsFor(f, g) ==
    /\ f.next - 1 \in DOMAIN f.file.deps
    /\ f.file.deps[f.next - 1] = g.file.name

\* A frame waits for a file that does not exist, and the top frame of all that
\* it is done with: they cannot hold the same file when it is created.
StackInv ==
    /\ \A k \in 1 .. Len(stack) : Unfinished(stack[k])
    /\ \A k \in 1 .. Len(stack) - 1 :
          /\ WaitsFor(stack[k], stack[k + 1])
          /\ Passed(stack[k], stack[k].next - 1)
    /\ stack # <<>> => Passed(Top, Top.next)

LoadInv == LoadTypeOK /\ StackInv /\ DependenciesFirst

\* What was created is what unresolved holds, and a given file that the loop has
\* passed was created, or is the one that the whole stack is for.
LoopInv ==
    /\ \A j \in DOMAIN resolved :
          \E i \in DOMAIN given : Unresolved(i) /\ resolved[j] = given[i]
    /\ loading \in {"loading", "loaded"} =>
          \A i \in DOMAIN given : i < pos =>
              \/ given[i].name \in NamesIn(resolved)
              \/ stack # <<>> /\ stack[1].file.name = given[i].name
    /\ loading = "loaded" => stack = <<>> /\ pos > Len(given)

\* Files that wait for each other in a circle exhaust the stack, nothing else.
OverflowInv == loading = "overflow" => Cyclic

CompleteInv == LoopInv /\ OverflowInv
===============================================================================

---------------------------- MODULE WriteProtoset ----------------------------
(***************************************************************************)
(* WriteProtoset and WriteProtoFiles (desc_source.go): the files of the    *)
(* given symbols and all they import, dependencies first.  The symbols may *)
(* come from a server's files, by reflection, or from loaded protosets:    *)
(* compositeSource (cmd/grpcurl/grpcurl.go) asks the one, then the other.  *)
(***************************************************************************)
EXTENDS LoadProtosets

CONSTANTS
    Servers,        \* the lists of files that a server may offer
    MaxSymbols      \* bound on the symbols asked for

ASSUME WriteAssumption ==
    /\ \A files \in Servers : files \in Seq(Proto) /\ InOrder(files)
    /\ MaxSymbols \in Nat

VARIABLES
    server,     \* the server's files, in the order the library creates them
    phase,      \* "load", "find", "expand", "written" or "failed"
    symbols,    \* symbols looked up so far
    found,      \* the descriptors of their files
    roots,      \* filenames, with what fds says of each
    root,       \* position of the loop over them
    frames,     \* frames of addFilesToSet: a file, its next import
    expanded,   \* names seen by addFilesToSet
    out         \* allFiles

findVars == <<symbols, found, roots>>
expandVars == <<root, frames, expanded, out>>
writeVars == <<server, phase, findVars, expandVars>>
vars == <<loadVars, writeVars>>

\* A file descriptor is known by its place among the files of its origin: two
\* origins may have different files of one name.
FilesOf(origin) == IF origin = "server" THEN server ELSE resolved
Descriptor == [origin : {"server", "protosets"}, at : Nat \ {0}]
Linked(d) == d \in Descriptor /\ d.at \in DOMAIN FilesOf(d.origin)
Name(d) == FilesOf(d.origin)[d.at].name
Deps(d) == FilesOf(d.origin)[d.at].deps

TypeOK ==
    /\ LoadTypeOK
    /\ server \in Seq(Proto)
    /\ phase \in {"load", "find", "expand", "written", "failed"}
    /\ phase \in {"find", "expand", "written"} => loading = "loaded"
    /\ symbols \in 0 .. MaxSymbols
    /\ found \subseteq Descriptor
    /\ roots \in Seq(Descriptor)
    /\ root \in Nat \ {0}
    /\ frames \in Seq([file : Descriptor, next : Nat \ {0}])
    /\ expanded \subseteq Names
    /\ out \in Seq(Descriptor)

Init ==
    /\ LoadInit
    /\ server \in Servers
    /\ phase = "load"
    /\ symbols = 0
    /\ found = {}
    /\ roots = <<>>
    /\ root = 1
    /\ frames = <<>>
    /\ expanded = {}
    /\ out = <<>>

Load == phase = "load" /\ LoadNext /\ UNCHANGED writeVars

\* Mutant: the error of loading is dropped.
SourceReadyAnyway ==
    /\ phase = "load"
    /\ loading # "loading"
    /\ phase' = "find"
    /\ UNCHANGED <<loadVars, server, findVars, expandVars>>
SourceReady ==
    /\ phase = "load"
    /\ loading = "loaded"
    /\ phase' = "find"
    /\ UNCHANGED <<loadVars, server, findVars, expandVars>>

LoadFailed ==
    /\ phase = "load"
    /\ loading \notin {"loading", "loaded"}
    /\ phase' = "failed"
    /\ UNCHANGED <<loadVars, server, findVars, expandVars>>
-------------------------------------------------------------------------------
(* getFileDescriptors: one file name stands for one file. *)

\* Mutant: the test for a name that is already there is inverted.
FoundInverted(d) ==
    /\ phase = "find"
    /\ symbols < MaxSymbols
    /\ symbols' = symbols + 1
    /\ found' = found \cup {d}
    /\ roots' = IF \E i \in DOMAIN roots : Name(roots[i]) = Name(d)
                THEN Append(roots, d)
                ELSE roots
    /\ UNCHANGED <<loadVars, server, phase, expandVars>>
Found(d) ==
    /\ phase = "find"
    /\ symbols < MaxSymbols
    /\ symbols' = symbols + 1
    /\ found' = found \cup {d}
    /\ roots' = IF \E i \in DOMAIN roots : Name(roots[i]) = Name(d)
                THEN roots
                ELSE Append(roots, d)
    /\ UNCHANGED <<loadVars, server, phase, expandVars>>

FindOnServer ==
    \E i \in DOMAIN server : Found([origin |-> "server", at |-> i])

\* The server does not know the symbol, or it cannot be asked.
FindInProtosets ==
    \E i \in DOMAIN resolved : Found([origin |-> "protosets", at |-> i])

SymbolNotFound ==
    /\ phase = "find"
    /\ symbols < MaxSymbols
    /\ phase' = "failed"
    /\ UNCHANGED <<loadVars, server, findVars, expandVars>>

AllFound ==
    /\ phase = "find"
    /\ phase' = "expand"
    /\ UNCHANGED <<loadVars, server, findVars, expandVars>>
-------------------------------------------------------------------------------
(* The loops over the file names, and addFilesToSet. *)

\* A call of addFilesToSet for d, made from the frames in below.
Visit(d, below) ==
    IF Name(d) \in expanded
    THEN frames' = below /\ UNCHANGED expanded
    ELSE /\ frames' = Append(below, [file |-> d, next |-> 1])
         /\ expanded' = expanded \cup {Name(d)}

Last == frames[Len(frames)]

ExpandRoot ==
    /\ phase = "expand"
    /\ frames = <<>>
    /\ root <= Len(roots)
    /\ Visit(roots[root], frames)
    /\ root' = root + 1
    /\ UNCHANGED <<loadVars, server, phase, findVars, out>>

\* Mutant: the loop over the imports does not advance.
ExpandSameDependency ==
    /\ phase = "expand"
    /\ frames # <<>>
    /\ Last.next <= Len(Deps(Last.file))
    /\ \E i \in DOMAIN FilesOf(Last.file.origin) :
          /\ FilesOf(Last.file.origin)[i].name = Deps(Last.file)[Last.next]
          /\ Visit([origin |-> Last.file.origin, at |-> i], frames)
    /\ UNCHANGED <<loadVars, server, phase, findVars, root, out>>
ExpandDependency ==
    /\ phase = "expand"
    /\ frames # <<>>
    /\ Last.next <= Len(Deps(Last.file))
    /\ \E i \in DOMAIN FilesOf(Last.file.origin) :
          /\ FilesOf(Last.file.origin)[i].name = Deps(Last.file)[Last.next]
          /\ Visit([origin |-> Last.file.origin, at |-> i],
                   [frames EXCEPT ![Len(frames)].next = @ + 1])
    /\ UNCHANGED <<loadVars, server, phase, findVars, root, out>>

\* Mutant: a file is appended before its dependencies are.
AppendFirst ==
    /\ phase = "expand"
    /\ frames # <<>>
    /\ out' = Append(out, Last.file)
    /\ frames' = SubSeq(frames, 1, Len(frames) - 1)
    /\ UNCHANGED <<loadVars, server, phase, findVars, root, expanded>>
AppendFile ==
    /\ phase = "expand"
    /\ frames # <<>>
    /\ Last.next > Len(Deps(Last.file))
    /\ out' = Append(out, Last.file)
    /\ frames' = SubSeq(frames, 1, Len(frames) - 1)
    /\ UNCHANGED <<loadVars, server, phase, findVars, root, expanded>>

\* The output may fail as well.
Write ==
    /\ phase = "expand"
    /\ frames = <<>>
    /\ root > Len(roots)
    /\ phase' \in {"written", "failed"}
    /\ UNCHANGED <<loadVars, server, findVars, expandVars>>
-------------------------------------------------------------------------------
Terminated == phase \in {"written", "failed"} /\ UNCHANGED vars

Next ==
    \/ Load
    \/ SourceReady
    \/ LoadFailed
    \/ FindOnServer
    \/ FindInProtosets
    \/ SymbolNotFound
    \/ AllFound
    \/ ExpandRoot
    \/ ExpandDependency
    \/ AppendFile
    \/ Write
    \/ Terminated

Spec == Init /\ [][Next]_vars
-------------------------------------------------------------------------------
(* Properties. *)

\* In what is written, a file comes after all it imports.
DependenciesWrittenFirst ==
    \A i \in DOMAIN out : \A k \in DOMAIN Deps(out[i]) :
        \E j \in 1 .. i - 1 : Name(out[j]) = Deps(out[i])[k]

\* No two files of one name are written.
NoNameTwice == \A i, j \in DOMAIN out : Name(out[i]) = Name(out[j]) => i = j

\* Topological order: the written protoset is complete and can be read in one
\* pass, even when files of two origins with the same names are mixed.
TopologicalOrder == DependenciesWrittenFirst /\ NoNameTwice

\* The file of every symbol is written, as long as one origin answers.
SymbolsWritten ==
    phase = "written" /\ (\A d, e \in found : d.origin = e.origin) =>
        \A d \in found : \E i \in DOMAIN out : out[i] = d

\* The comment on WriteProtoset promises this for every source.
AllSymbolsWritten ==
    phase = "written" => \A d \in found : \E i \in DOMAIN out : out[i] = d
-------------------------------------------------------------------------------
(* Inductive invariant behind the theorems of WriteProtosetProofs. *)

OutNames == {Name(out[i]) : i \in DOMAIN out}
FrameNames == {Name(frames[k].file) : k \in DOMAIN frames}

\* What is looked up, visited and written are files of their origin, which no
\* longer change.
LinkedInv ==
    /\ InOrder(server)
    /\ phase = "load" => roots = <<>> /\ frames = <<>> /\ out = <<>>
    /\ \A i \in DOMAIN roots : Linked(roots[i])
    /\ \A k \in DOMAIN frames : Linked(frames[k].file)
    /\ \A i \in DOMAIN out : Linked(out[i])

\* The frames go down the creation order of one origin: what lies below a file
\* on the stack cannot be among its dependencies.
FramesInv ==
    /\ \A k, l \in DOMAIN frames : k < l =>
          /\ frames[k].file.origin = frames[l].file.origin
          /\ frames[l].file.at < frames[k].file.at
    /\ expanded = OutNames \cup FrameNames
    /\ OutNames \cap FrameNames = {}
    /\ \A k \in DOMAIN frames : \A m \in DOMAIN Deps(frames[k].file) :
          m < frames[k].next => Deps(frames[k].file)[m] \in expanded

IInv ==
    /\ TypeOK
    /\ LoadInv
    /\ LinkedInv
    /\ FramesInv
    /\ DependenciesWrittenFirst
    /\ NoNameTwice

\* The symbols of found are linked, and their names have a root each; the roots
\* that the loop has passed are expanded; all of it from the origins of symbols.
SymbolInv ==
    /\ phase = "load" => found = {}
    /\ phase \in {"load", "find"} => root = 1
    /\ \A d \in found :
          Linked(d) /\ \E i \in DOMAIN roots : Name(roots[i]) = Name(d)
    /\ \A i \in DOMAIN roots : roots[i] \in found
    /\ \A k \in DOMAIN frames : \E d \in found : d.origin = frames[k].file.origin
    /\ \A j \in DOMAIN out : \E d \in found : d.origin = out[j].origin
    /\ \A i \in DOMAIN roots : i < root => Name(roots[i]) \in expanded
    /\ phase = "written" => frames = <<>> /\ root > Len(roots)
===============================================================================

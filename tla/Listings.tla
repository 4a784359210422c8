------------------------------- MODULE Listings --------------------------------
(***************************************************************************)
(* GetAllFiles (grpcurl.go), all the files of a descriptor source, and     *)
(* DescriptorSourceFromFileDescriptors (desc_source.go), which makes one of*)
(* files: here of a source that WriteProtoset has loaded.  The recursions  *)
(* are those of a function, down the creation order of an origin's files.  *)
(***************************************************************************)
EXTENDS WriteProtoset

CONSTANT NameOrder      \* all names, in the order in which they sort

ASSUME ListingsAssumption ==
    NameOrder \in Seq(Names) /\ {NameOrder[i] : i \in DOMAIN NameOrder} = Names

VARIABLES
    listing,    \* "no", "find" (the services' files), "listed" or "sourced"
    origins,    \* where the source's descriptors come from
    asked,      \* questions asked: the services, and then each of them
    located,    \* the files of the services that were found
    missing,    \* the questions that failed
    all,        \* the files, one for each name
    firstError, \* the question that failed first, or 0
    added,      \* those of them that have been added to a new source
    source      \* the files of that source, or Conflict

lookupVars == <<origins, asked, located, missing>>
sourceVars == <<added, source>>
listingVars == <<listing, lookupVars, all, firstError, sourceVars>>

Conflict == {[origin |-> "conflict", at |-> 0]}
Offered(origin) == [origin : {origin}, at : DOMAIN FilesOf(origin)]
Files == Offered("server") \cup Offered("protosets")
NamesOf(ds) == {Name(d) : d \in ds}
Imports(d) ==
    {e \in Offered(d.origin) : \E k \in DOMAIN Deps(d) : Name(e) = Deps(d)[k]}

\* A recursion from d that returns at once from the files in skip, and adds what
\* it visits; a file it has just added is not visited again.
Walk(d, skip) ==
    LET walk[i \in DOMAIN FilesOf(d.origin)] ==
            LET e == [origin |-> d.origin, at |-> i] IN
            IF e \in skip THEN {}
            ELSE {e} \cup UNION {walk[f.at] : f \in Imports(e)}
    IN  walk[d.at]
OfNames(ds) == {e \in Files : Name(e) \in NamesOf(ds)}

\* sort.Sort(filesByName): of several files this one comes first.
Place(n) == CHOOSE i \in DOMAIN NameOrder : NameOrder[i] = n
First(ds) == CHOOSE d \in ds : \A e \in ds : Place(Name(d)) <= Place(Name(e))

ListingInit ==
    /\ Init
    /\ listing = "no"
    /\ origins = {} /\ asked = 0 /\ located = {} /\ missing = {}
    /\ all = {} /\ firstError = 0 /\ added = {} /\ source = {}

Listable == phase = "find" /\ symbols = 0 /\ listing = "no"

\* fileSource.GetAllFiles.
ListFileSource ==
    /\ Listable
    /\ origins' = {"protosets"}
    /\ all' = Offered("protosets")
    /\ listing' = "listed"
    /\ UNCHANGED <<vars, asked, located, missing, firstError, sourceVars>>

\* The services are those of the server, also of a compositeSource.
ListServices ==
    /\ Listable
    /\ origins' \in {{"server"}, {"server", "protosets"}}
    /\ asked' = 1
    /\ \/ listing' = "find" /\ UNCHANGED <<missing, firstError>>
       \/ listing' = "listed" /\ missing' = {1} /\ firstError' = 1
    /\ UNCHANGED <<vars, located, all, sourceVars>>

\* The recursion is addAllFilesToSet: one file for each name.
FindService ==
    /\ listing = "find" /\ asked <= MaxSymbols
    /\ asked' = asked + 1
    /\ \E d \in UNION {Offered(o) : o \in origins} :
          /\ located' = located \cup {d}
          /\ all' = all \cup Walk(d, OfNames(all))
    /\ UNCHANGED <<vars, listing, origins, missing, firstError, sourceVars>>

FindServiceFails ==
    /\ listing = "find" /\ asked <= MaxSymbols
    /\ asked' = asked + 1
    /\ missing' = missing \cup {asked'}
    /\ firstError' = IF firstError = 0 THEN asked' ELSE firstError
    /\ UNCHANGED <<vars, listing, origins, located, all, sourceVars>>

AllLocated ==
    /\ listing = "find"
    /\ listing' = "listed"
    /\ UNCHANGED <<vars, lookupVars, all, firstError, sourceVars>>

\* A caller may make a source of the files: addFile adds them one by one, with
\* all they are linked to, and fails if there is another file of one's name.
\* Mutant: the first of that name is kept, as in addAllFilesToSet.
AddFirstOfName ==
    /\ listing = "listed"
    /\ added # all
    /\ source' = source \cup Walk(First(all \ added), OfNames(source))
    /\ added' = added \cup {First(all \ added)}
    /\ UNCHANGED <<vars, listing, lookupVars, all, firstError>>
AddFile ==
    /\ listing = "listed"
    /\ added # all /\ source # Conflict
    /\ LET files == Walk(First(all \ added), source) IN
       source' = IF files \cap OfNames(source) # {} THEN Conflict
                 ELSE source \cup files
    /\ added' = added \cup {First(all \ added)}
    /\ UNCHANGED <<vars, listing, lookupVars, all, firstError>>

SourceMade ==
    /\ listing = "listed"
    /\ added = all \/ source = Conflict
    /\ listing' = "sourced"
    /\ UNCHANGED <<vars, lookupVars, all, firstError, sourceVars>>

ListingTerminated == listing = "sourced" /\ UNCHANGED <<vars, listingVars>>

ListingNext ==
    \/ listing = "no" /\ Next /\ UNCHANGED listingVars
    \/ ListFileSource
    \/ ListServices
    \/ FindService
    \/ FindServiceFails
    \/ AllLocated
    \/ AddFile
    \/ SourceMade
    \/ ListingTerminated

ListingSpec == ListingInit /\ [][ListingNext]_<<vars, listingVars>>

FairListingSpec == ListingSpec /\ WF_<<vars, listingVars>>(ListingNext)
-------------------------------------------------------------------------------
(* Properties. *)

\* The files and all that they import, linked as they are: what every set has that
\* holds the files, and with a file those it imports.
Closure(ds) ==
    {e \in Files : \A S \in SUBSET Files :
        ds \subseteq S /\ (\A d \in S : Imports(d) \subseteq S) => e \in S}
NamesDiffer(ds) == \A d, e \in ds : Name(d) = Name(e) => d = e

\* GetAllFiles returns one file for each name of what the services found need,
\* and of what these import, with the first of the errors, if there was any.  A
\* source made of these has all they are linked to, or is refused because two
\* origins have different files of one name, which one origin never has.
AllFilesListed ==
    listing \in {"listed", "sourced"} =>
        /\ NamesDiffer(all)
        /\ \A d \in all : \A k \in DOMAIN Deps(d) : Deps(d)[k] \in NamesOf(all)
        /\ NamesOf(located) \subseteq NamesOf(all)
        /\ IF missing = {} THEN firstError = 0
           ELSE firstError \in missing /\ \A i \in missing : firstError <= i
        /\ LET needed == Closure(all) IN
           listing = "sourced" =>
              /\ source = IF NamesDiffer(needed) THEN needed ELSE Conflict
              /\ (\A d, e \in all : d.origin = e.origin) => source = all

\* Loading, writing and listing end, also when every file has to be visited.
Ends == <>(phase \in {"written", "failed"} \/ listing = "sourced")
-------------------------------------------------------------------------------
(* Inductive invariants behind the theorems of WriteProtosetProofs. *)

\* Nothing else happens once files are listed.  They are files of the source, one
\* for each name, and so are those found for the services.
ListInv ==
    /\ IF listing = "no" THEN all = {} /\ located = {} ELSE phase = "find"
    /\ origins \subseteq {"server", "protosets"}
    /\ all \subseteq Files /\ located \subseteq Files
    /\ NamesDiffer(all)
    /\ \A d \in all : \A k \in DOMAIN Deps(d) : Deps(d)[k] \in NamesOf(all)
    /\ NamesOf(located) \subseteq NamesOf(all)

\* The questions are counted, and one of those that failed was the first.
ErrorInv ==
    /\ asked \in Nat /\ (listing = "no" => asked = 0)
    /\ missing \subseteq 1 .. asked
    /\ IF missing = {} THEN firstError = 0
       ELSE firstError \in missing /\ \A i \in missing : firstError <= i

\* A new source has what was added with all it imports, and nothing that is not
\* needed; it is refused only for two files that are.
SourceInv ==
    /\ listing \in {"no", "find"} => added = {} /\ source = {}
    /\ added \subseteq all
    /\ source # Conflict =>
          /\ added \subseteq source /\ source \subseteq Closure(all)
          /\ \A d \in source : Imports(d) \subseteq source
          /\ NamesDiffer(source)
    /\ source = Conflict => ~NamesDiffer(Closure(all))
    /\ listing = "sourced" => added = all \/ source = Conflict
===============================================================================

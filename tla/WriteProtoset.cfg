\* Every import graph, two servers, up to two symbols.
CONSTANTS
    Names <- MCNames
    Protosets <- MCProtosets
    Servers <- MCServers
    NameOrder <- MCNameOrder
    MaxDepth = 3
    MaxSymbols = 2
SPECIFICATION FairListingSpec
INVARIANTS
    TypeOK
    DependenciesFirst
    LoadedIsComplete
    TopologicalOrder
    SymbolsWritten
    AllFilesListed
PROPERTY
    Ends

\* Symbols from the server and from a protoset with a file of the same name.
CONSTANTS
    Names <- MCNames
    Protosets <- MCProtosets
    Servers <- MCServers
    NameOrder <- MCNameOrder
    MaxDepth = 3
    MaxSymbols = 2
SPECIFICATION ListingSpec
INVARIANT
    AllSymbolsWritten

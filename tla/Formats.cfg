\* The walks over three types, and the two directions of a call.
CONSTANTS
    Types <- MCTypes
    Extendable = {"T", "V"}
    Graphs <- MCGraphs
    ServerTags <- MCServerTags
    FileTags <- MCFileTags
    WellKnown = {"V"}
    Goroutines = {"sender", "receiver"}
    ServerTypes = {"T", "V"}
    ServerOthers = {"U"}
    FileTypes = {"T", "U"}
    Fields <- MCFields
    Inputs <- MCInputs
    Responses <- MCResponses
    Registered = {"T"}
    MaxResponses = 2
SPECIFICATION FairSpec
INVARIANTS
    TypeOK
    ExtensionsFetched
    TemplateUnfolds
    ResolvedOnce
    OutputParsesBack
PROPERTIES
    RequestsFollowInput
    AnyValuesAreResolved

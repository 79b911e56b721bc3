SPECIFICATION Spec
CONSTANTS
    None = None
    Types <- Catalog
    OldTypes = {"chart"}
    RootTypes = {"box", "booking"}
    ChildTypes <- Nesting
    Containers = {"box"}
    Singletons = {"booking"}
    Municipal = {"note"}
    Blueprint <- Blueprints
    MaxNodes = 4
    MaxDepth = 2
    MaxContent = 1
    Sessions <- Sittings
    MaxHistory = 2
    MaxRevisions = 2
    MaxRequests = 2
INVARIANTS EditorInv BaselineIsRevision UndoReachesStart FewSavesRefused
PROPERTIES DropLands

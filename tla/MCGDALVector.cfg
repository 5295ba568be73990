SPECIFICATION Spec
CONSTANTS
    FIDs <- ThreeFIDs
    Queries <- ThreeQueries
    Areas <- ThreeAreas
    Efficient = FALSE
    Emulated = TRUE
    CountResets = FALSE
    CountFallsShort = TRUE
    Quiet = FALSE
INVARIANTS
    TypeOK
    LayerHandleAlive
    NothingSkippedSilently
PROPERTIES
    FetchAllIsComplete
    RemainingOnly
    FilterCopyFollows
    ReadOnlyNeverWrites

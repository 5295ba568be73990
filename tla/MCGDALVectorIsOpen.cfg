SPECIFICATION Spec
CONSTANTS
    FIDs <- TwoFIDs
    Queries <- TwoQueries
    Areas <- TwoAreas
    Efficient = FALSE
    Emulated = TRUE
    CountResets = FALSE
    CountFallsShort = FALSE
    Quiet = FALSE
INVARIANTS
    IsOpenSound

CONSTANTS
    Body <- MCBody
    Things <- MCThings
    KnownLeaks <- MCLeaks
    KnownMisuse <- MCMisuse
    KnownSilent <- MCSilent
    KnownPartial <- MCPartial
    Parts <- MCParts
    Homes <- MCHomes
    Pass <- MCPass
    Sure <- MCSure
    Safe <- MCSafe
SPECIFICATION Spec
INVARIANTS TypeOK NothingLeaks NothingMisused FailureMadeKnown AllOrNothing

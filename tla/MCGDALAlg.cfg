SPECIFICATION Spec
CONSTANTS
    ArgOrders <- SomeOrders
    MaxCloses = 2
INVARIANTS
    TypeOK
    FinalizedBeforeRelease
    RunsWithText
PROPERTIES
    SelectionApplied
CHECK_DEADLOCK FALSE

SPECIFICATION CombineSpec
CONSTANTS
    Key <- Combinations
    Increment <- SomeIncrements
    MaxColumns = 2
    MaxCalls = 4
    NRasters = 2
    Pixel <- PixelValues
    Resolution <- CellSizes
    MaxRows = 2
    MaxCols = 2
    TypeMax = 2
INVARIANTS
    TypeOK
    IDsAreDense
    ReturnedIDsStayValid
    TableIsOverlay
    ImageMatchesTable
PROPERTIES
    CountsByFirstSight
    CombineEnds
\* The table of a user has had MaxCalls columns; combine() has ended.
CHECK_DEADLOCK FALSE

SPECIFICATION Spec
CONSTANTS
    RasterSizes <- FourSizes
    BlockSizes <- ThreeBlocks
    MaxPixels <- UpToSixteen
    MaxInt = 7
    Precision = 8
    Exponents <- SmallExponents
INVARIANTS
    TypeOK
    ChunksDisjoint
    ChunksCover
    ChunksOnBlocks
\* The function returns.
CHECK_DEADLOCK FALSE

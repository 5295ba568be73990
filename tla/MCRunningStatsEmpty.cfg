SPECIFICATION Spec
CONSTANTS
    Finite <- SomeFinite
    Infinities <- NoInfinities
    NA = NA
    PosInf = PosInf
    NegInf = NegInf
    MaxChunk = 2
    MaxCount = 2
    Scale = 12
INVARIANT
    ExtremesOfEmpty

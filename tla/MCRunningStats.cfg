SPECIFICATION Spec
CONSTANTS
    Finite <- SomeFinite
    Infinities <- BothInfinities
    NA = NA
    PosInf = PosInf
    NegInf = NegInf
    MaxChunk = 2
    MaxCount = 4
    Scale = 12
INVARIANTS
    TypeOK
    CountSumMean
    VarianceIsTwoPass
    ExtremesOrNA

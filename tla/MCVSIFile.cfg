SPECIFICATION Spec
CONSTANTS
    Byte = {b0, b1}
    Zero = b0
    MaxSize = 3
    MaxCount = 2
INVARIANTS
    TypeOK
    HandleFreedOnce
    LoopReadsAll
PROPERTIES
    LoopEnds
\* Nothing is claimed of an object that has used a freed handle.
CHECK_DEADLOCK FALSE

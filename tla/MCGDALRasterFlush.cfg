SPECIFICATION Spec
CONSTANTS
    Objs = {o1, o2}
    Handles = {h1, h2}
    Files = {f}
    Vectors = {v1}
    NoFile = NoFile
    NoHandle = NoHandle
    MaxOutside = 0
PROPERTIES
    ClosedIsFlushed

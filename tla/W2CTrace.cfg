SPECIFICATION Spec
CONSTANTS
    PageSize = 2
    U32 = 8
    U64 = 32
    SizeT = 32
    NoMax = NoMax
    Byte = {0, 1}
    Segment <- TwoBytes
    Builds <- Traced
INVARIANT TraceExact

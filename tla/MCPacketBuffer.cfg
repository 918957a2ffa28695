SPECIFICATION Spec
CONSTANTS
    Byte <- Bits
    Zero = 0
    HeaderSize = 2
    BodySize = 1
    Strings <- ShortStrings
    Ints <- ShortInts
    ChunkSizes = {1, 2}
    MaxBody = 2
    MaxRequest = 2
INVARIANT BufferInv
PROPERTY ImplementsByteQueue
CHECK_DEADLOCK FALSE

\* Requests are bounded.
CHECK_DEADLOCK FALSE
SPECIFICATION Spec
CONSTANTS
    Paths <- MCPaths
    Contents <- MCContents
    Size <- MCSize
    MaxSize = 3
    MaxVersion = 2
    MaxRequests = 3
    MaxInFlight = 2
    Changing <- MCChanging
    Compressible <- MCCompressible
INVARIANTS
    CompressionIsIndicated

SPECIFICATION MCSpec
CONSTANTS
    Sizes <- MCSizes
    Starts <- MCStarts
    MaxCount = 18
    Contents <- MCContents
    UnsignedRange = 16
    ZstdError = 3
    MinFrame = 3
    ZstdHeader = 1
    LzoHeader = 2
    MarkerSize = 3
    Encodings = {"identity", "lzo", "zstd", "default", "gipfeli"}
    Environments = {"unset", "identity", "lzo", "zstd", "brotli"}
INVARIANTS TypeOK RoundTrip NeverWrong MarkerKept ChecksumOfPrefix InsideBuffer
PROPERTY ComesToEnd
CHECK_DEADLOCK FALSE

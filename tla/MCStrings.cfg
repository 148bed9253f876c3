CONSTANTS
    Key <- MCKey
    Value <- MCValue
    Probe <- MCProbe
    Rid = {1, 2, 3, 4, 5, 6, 7, 8, 9, 10}
    None = None
    STR_CHUNK_MAX_LEN = 2
    MAX_STR_LEN = 4
    MaxRecords = 2
    MaxSeparators = 2
SPECIFICATION MCSpec
INVARIANTS
    NothingDangles
    StringsHeldOnce
    OneRowPerKey
    ChunksHeldOnce
    ReadAsWritten
    ComparesExactly
PROPERTIES
    ImplementsKeyValue

CONSTANTS
    NDir = 2
    HASH_MAP_DIR_BLOCK_SIZE = 2
    HASH_MAP_BLOCK_SIZE = 2
    Addr = {a1, a2, a3, a4, a5}
    None = None
    MaxBlocks = 5
    Few = 3
    CACHE_PAGE = 5
SYMMETRY Symmetry
SPECIFICATION MCSpec
INVARIANTS
    RegisteredOnce
    BlocksOwnedOnce
    EmptyIffFree
    PagesHeld
PROPERTIES
    ImplementsFreeSpaceMap

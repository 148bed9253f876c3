CONSTANTS
    small = small
    middle = middle
    large = large
    PAGE_SIZE = 8
    HeaderSize = 1
    IdSize = 1
    Item <- MCItem
    SizeOf <- MCSizeOf
    MaxBlocks = 3
    None = None
SPECIFICATION Spec
INVARIANTS
    RegisteredTruly
    RoomForItem
    NeverOverfull
    BytesKept
PROPERTIES
    GrowsOnlyWhenFull
    ImplementsItemStore

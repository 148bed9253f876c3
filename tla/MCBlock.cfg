CONSTANTS
    a = a
    b = b
    PAGE_SIZE = 16
    HeaderSize = 1
    IdSize = 2
    Byte = {a, b}
    Blank = a
    Items <- MCItems
SPECIFICATION Spec
INVARIANTS
    ItemsApart
    NoHoles
PROPERTIES
    ImplementsItemStore

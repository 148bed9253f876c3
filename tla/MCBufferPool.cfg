CONSTANTS
    CACHE_PAGE = 3
    MaxPages = 4
    MaxPin = 2
    Vals = {v0, v1}
    Zero = v0
SPECIFICATION Spec
INVARIANTS
    LruExact
PROPERTIES
    LatestSurvives
    ImplementsPageStore

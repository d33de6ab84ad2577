SPECIFICATION Spec
CONSTANTS
    Paths <- MCPaths
    Contents <- MCContents
    Size <- MCSize
    MaxSize = 4
INVARIANTS
    Coherent
    WithinBudget
PROPERTIES
    ImplementsCache
    LruWithoutRepeats

SPECIFICATION Spec
CONSTANTS
    Texts = {1, 2, 3}
    U64Texts = {1}
    I64Texts = {1, 2}
    MaxSegments = 3
    MaxParams = 3
    PoolSize = 8
    MaxPath = 3
    None = None
    Pending = Pending
    Stale = Stale
    Roots <- MCRoots
    TrieAt <- MCTrieAt
    Paths <- MCPaths
INVARIANTS
    TypeOK
    StackBound
    CapturesKept
    NothingLost
PROPERTIES
    Returns
    ImplementsSemantics
CHECK_DEADLOCK FALSE

SPECIFICATION DispatchSpec
CONSTANTS
    Texts = {1, 2, 3}
    U64Texts <- MCU64Texts
    I64Texts <- MCI64Texts
    MaxSegments = 3
    MaxParams = 3
    MethodSlots = 3
    BadMethod = 3
    Bits = 4
    U64Last <- Fifteen
    I64Last <- Seven
    I64First <- Eight
    None = None
    Pending = Pending
    Stale = Stale
    BadPath = BadPath
    Tables <- MCTables
    RoutesIn <- MCRoutesIn
    Roots <- MCRoots
    TrieAt <- MCTrieAt
    Paths <- MCPaths
    TextOf <- MCTextOf
INVARIANTS
    HandlerRight
    AllowedSoFar
PROPERTIES
    ImplementsService
    Returns

SPECIFICATION Spec
CONSTANTS
    Texts = {1, 2, 3, 4}
    U64Texts = {1, 4}
    I64Texts = {1, 2, 4}
    MaxSegments = 2
    MaxParams = 2
    MethodSlots = 2
    LinearEdges = 1
    TableLimit = 11
    MaxSpecs = 2
    MaxPath = 2
    None = None
    Malformed = Malformed
    SpecLists <- MCSpecLists
    EdgeHashes <- MCEdgeHashes
    PathHashes <- MCPathHashes
INVARIANTS
    TableComplete
    DuplicatesRejected
    FirstErrorNamed
    ProbesEnd
    GroupsKept
PROPERTIES
    SlotsTakenOnce
    Terminates
CHECK_DEADLOCK FALSE

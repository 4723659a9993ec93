SPECIFICATION Spec
CONSTANTS
    Objects = {o1, o2, o3}
    Blocks = {b1, b2}
    Readers = {r1, r2}
    MaxTables = 3
    NodeBytes = 32
    EdgeBytes = 24
    SlotBytes = 24
    EmptyBytes = 1
    Null = Null
    NoView = NoView
    NoSpan = NoSpan
    Builts <- MCBuilts
INVARIANTS
    OneOwner
    FieldsAgree
    SpansApart
    HeldWhileOwned
PROPERTIES
    NothingLost

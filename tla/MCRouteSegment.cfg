SPECIFICATION Spec
CONSTANTS
    W = 3
    Bits = 4
    U64Last <- Fifteen
    I64Last <- Seven
    I64First <- Eight
    MaxPath = 7
    MaxDigits = 3
    Paths <- MCPaths
    Changes <- MCChanges
INVARIANTS
    LoadsInside
    CutAtSlashes
    LabelsCompared
    NumbersExact
PROPERTIES
    TakenApart

SPECIFICATION Spec
CONSTANTS
    Alphabet <- MCAlphabet
    Letters <- MCLetters
    Digits <- MCDigits
    Hex <- MCHex
    Pchars <- MCPchars
    Inputs <- MCInputs
    Continuations <- MCContinuations
    MaxSegments = 3
    MaxParams = 2
INVARIANTS
    TypeOK
    SegmentsFit
    ParsesAsWritten
    OffsetMarksTheEnd

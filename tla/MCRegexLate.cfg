SPECIFICATION Spec
CONSTANTS
    Regexes = {1, 2, 3, 4, 5}
    Chars = {3, 4, 5}
    MaxSize = 9
    InlineGroups = 1
    MaxText = 3
    Families <- PlainFamilies
    AddLate = TRUE
    OnlyCompiled = {}
    OnlyBuilt = {}
    Meaning <- Plain
    Tokens <- PlainTokens
    Texts <- AllTexts
INVARIANTS
    MatchesRight
CHECK_DEADLOCK FALSE

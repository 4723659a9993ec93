SPECIFICATION Spec
CONSTANTS
    Regexes = {1}
    Chars = {3, 4, 5}
    MaxSize = 9
    InlineGroups = 1
    MaxText = 2
    Families = {{1}}
    AddLate = FALSE
    OnlyCompiled = {}
    OnlyBuilt = {}
    Meaning <- SameMeaning
    Tokens <- SameTokens
    Texts <- AllTexts
INVARIANTS
    MatchesRight
CHECK_DEADLOCK FALSE

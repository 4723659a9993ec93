SPECIFICATION Spec
CONSTANTS
    Regexes = {1}
    Chars = {3, 4, 5}
    MaxSize = 9
    InlineGroups = 1
    MaxText = 4
    Families = {{1}}
    AddLate = FALSE
    OnlyCompiled = {1}
    OnlyBuilt = {}
    Meaning <- TwiceMeaning
    Tokens <- TwiceTokens
    Texts <- AllTexts
INVARIANTS
    MatchesRight
CHECK_DEADLOCK FALSE

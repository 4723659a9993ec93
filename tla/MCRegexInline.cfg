SPECIFICATION Spec
CONSTANTS
    Regexes = {1}
    Chars = {3, 4, 5}
    MaxSize = 9
    InlineGroups = 1
    MaxText = 4
    Families = {{1}}
    AddLate = FALSE
    OnlyCompiled = {}
    OnlyBuilt = {}
    Meaning <- BranchMeaning
    Tokens <- BranchTokens
    Texts <- AllTexts
INVARIANTS
    InlineRewind
CHECK_DEADLOCK FALSE

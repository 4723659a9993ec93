SPECIFICATION Spec
CONSTANTS
    Regexes = {1, 2, 3, 4, 5, 6, 7, 8, 9, 10, 11, 12, 13, 14, 15, 16, 17, 18, 19, 20}
    Chars = {3, 4, 5}
    MaxSize = 9
    InlineGroups = 1
    MaxText = 4
    Families <- AllFamilies
    AddLate = FALSE
    OnlyCompiled = {11, 12, 13, 14, 15}
    OnlyBuilt = {16, 17, 18, 19, 20}
    Meaning <- AllMeaning
    Tokens <- AllTokens
    Texts <- AllTexts
INVARIANTS
    TypeOK
    MatchesRight
    GroupsRight
    SpilledRewind
    LiveIsWhole
    LimitsOwned
    AbsorbsAnother
    CountersExact
PROPERTIES
    CallsEnd
CHECK_DEADLOCK FALSE

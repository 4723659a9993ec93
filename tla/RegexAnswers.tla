---------------------------- MODULE RegexAnswers ----------------------------
(***************************************************************************)
(* What the matches of a RegexMatcher promise its callers, by what the     *)
(* regexes mean (RegexLanguage).                                           *)
(***************************************************************************)
EXTENDS RegexMatcher, RegexLanguage

CONSTANT Meaning  \* by regex: what it is

ASSUME MeaningAssumption == \A r \in Regexes : Tokens[r] = TokensOf(Meaning[r])

Answered == text # NoText /\ calls = << >>

\* The answer: the regexes that matched are exactly those that accept the text,
\* each reported once, and by regex: "callers do read this order"
\* (node.ipp:194-199), which must not show in what order edges are tried.
MatchesRight ==
    Answered =>
        /\ {results[i].regex : i \in DOMAIN results} =
               {r \in AddedRegexes : Accepts(Meaning[r], text)}
        /\ \A i, j \in DOMAIN results : i < j => results[i].regex < results[j].regex

\* The groups of a match are where some reading of the text has them.
GroupsRight ==
    Answered =>
        \A i \in DOMAIN results :
            results[i].groups \in Captured(Meaning[results[i].regex], text)
=============================================================================

--------------------------- MODULE MCRegexMatcher ---------------------------
(***************************************************************************)
(* Families of regexes over the characters a, b and c, each run taking     *)
(* one, and the texts they are matched against.                            *)
(***************************************************************************)
EXTENDS RegexAnswers

CONSTANT MaxText  \* bound: texts up to this length are all matched

a == Ch(3)
b == Ch(4)
c == Ch(5)
AB == OneOf({3, 4})
BC == OneOf({4, 5})

AllTexts == UNION {[1..n -> Chars] : n \in 0..MaxText}

TokensFor(meaning) == [r \in DOMAIN meaning |-> TokensOf(meaning[r])]

\* The regexes a run takes are a few of these.

\* Literals, groups, classes and the wildcard: the regexes share prefixes and
\* part at a character, at a class and at overlapping classes, and end inside
\* one another.
Plain ==
    <<Cat(<<a, AB, c>>),
      Cat(<<a, Group(b), c>>),
      Cat(<<Group(Cat(<<a, b>>)), Group(BC)>>),
      Cat(<<a, Group(Dot)>>),
      Cat(<<a, b, c, a>>)>>

\* Repeats without a bound, of a class, of a character and of a group; an
\* optional character; and branches.
Looping ==
    <<Cat(<<a, Group(Plus(BC)), a>>),
      Cat(<<Plus(b), c>>),
      Cat(<<a, Optional(b), c>>),
      Cat(<<b, Star(Group(AB))>>),
      Cat(<<Group(Or(<<Cat(<<c, a>>), Group(b)>>)), Plus(Group(Cat(<<c, a>>)))>>)>>

\* Repeats with bounds.
Bounded ==
    <<Cat(<<a, Group(Repeated(BC, 2, 3)), a>>),
      Cat(<<Repeated(b, 2, 2), c>>),
      Cat(<<a, Repeated(c, 0, 2), b>>),
      Repeated(Group(AB), 2, -1),
      Cat(<<a, b, Repeated(c, 1, 2)>>)>>

\* A repeat that loops where another regex goes straight on.
Shortcuts ==
    <<Cat(<<a, a>>),
      Plus(Group(a)),
      Cat(<<Plus(a), b>>),
      Cat(<<a, Repeated(AB, 1, 2), a>>),
      Cat(<<a, AB, AB, c>>)>>

AllMeaning == Plain \o Looping \o Bounded \o Shortcuts

AllTokens == TokensFor(AllMeaning)

AllFamilies ==
    {{1, 2, 3}, {2, 3, 4}, {1, 3, 5}, {2, 4, 5}}
        \cup UNION {{{i, j} : i, j \in s} : s \in {1..5, 6..10, 11..15, 16..20}}

PlainTokens == TokensFor(Plain)

PlainFamilies == {{i, j} : i, j \in 1..5}

\* Branches that backtrack over groups.
BranchMeaning ==
    <<Or(<<Cat(<<Group(a), b, a>>), Cat(<<Dot, b, c>>)>>)>>

BranchTokens == TokensFor(BranchMeaning)

\* A repeat of a group whose body ends in a character of its own.
GroupMeaning ==
    <<Cat(<<Repeated(Group(Cat(<<a, b>>)), 2, 2), AB, c>>)>>

GroupTokens == TokensFor(GroupMeaning)

\* A group of two characters, exactly twice.
TwiceMeaning ==
    <<Repeated(Group(Cat(<<a, b>>)), 2, 2)>>

TwiceTokens == TokensFor(TwiceMeaning)

\* Branches that end in the same character.
SameMeaning ==
    <<Cat(<<b, Group(Or(<<a, a>>))>>)>>

SameTokens == TokensFor(SameMeaning)
=============================================================================

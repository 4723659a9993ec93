--------------------------- MODULE RoutePatterns ---------------------------
(***************************************************************************)
(* Route patterns and the meaning of matching, shared by every module of   *)
(* the route matcher (include/matcher/route/).                             *)
(*                                                                         *)
(* A path is the sequence of the texts between its slashes: "/" is << >>,  *)
(* "/a" is <<a>>, "/a/" is <<a, Empty>>.  A pattern is a sequence of       *)
(* segments.  Texts are numbered in their lexicographic order, so that the *)
(* sort of a build can compare them; 0 is the empty text.                  *)
(***************************************************************************)
EXTENDS Naturals, Sequences, FiniteSets

CONSTANTS
    Texts,        \* the non-empty segment texts that occur
    U64Texts,     \* those matches_u64 accepts
    I64Texts,     \* those matches_i64 accepts
    MaxSegments,  \* kMaxSegments
    MaxParams     \* kMaxParams

ASSUME TextsAssumption ==
    /\ Texts \subseteq Nat \ {0}
    /\ U64Texts \subseteq Texts
    /\ I64Texts \subseteq Texts

ASSUME LimitsAssumption == MaxSegments \in Nat \ {0} /\ MaxParams \in Nat \ {0}

Empty == 0

\* SegKind with ParamType folded in, in the order compare_seg sorts them.
Kinds == {"literal", "u64", "i64", "param", "rest"}

Rank == [literal |-> 0, u64 |-> 1, i64 |-> 2, param |-> 3, rest |-> 4]

\* A segment: its kind, and the literal's text or the parameter's name.
Segments == [kind : Kinds, text : Texts \cup {Empty}]

Lit(t) == [kind |-> "literal", text |-> t]

\* What compare_seg compares of a segment: parameters match the same segments
\* whatever their names.
Key(s) == IF s.kind = "literal" THEN s ELSE [kind |-> s.kind, text |-> Empty]

Keys(pattern) == [i \in 1..Len(pattern) |-> Key(pattern[i])]

SameSeg(a, b) == Key(a) = Key(b)

\* compare_seg(a, b) < 0
SegBefore(a, b) ==
    \/ Rank[a.kind] < Rank[b.kind]
    \/ a.kind = "literal" /\ b.kind = "literal" /\ a.text < b.text

ParamIndices(pattern) == {i \in 1..Len(pattern) : pattern[i].kind # "literal"}

NumParams(pattern) == Cardinality(ParamIndices(pattern))

IsLiteral(pattern) == ParamIndices(pattern) = {}

\* The patterns parse_pattern accepts: its rules between segments (a catch-all
\* last, no empty segment before the last, the limits, no name twice), without
\* its loop.  RouteParse has the loop, and shows that these are what it accepts.
IsPattern(p) ==
    /\ p \in Seq(Segments)
    /\ Len(p) <= MaxSegments
    /\ NumParams(p) <= MaxParams
    /\ \A i \in 1..Len(p) : p[i].kind = "rest" => i = Len(p)
    /\ \A i \in 1..Len(p) : p[i] = Lit(Empty) => i = Len(p) /\ i > 1
    /\ \A i, j \in ParamIndices(p) : p[i].text = p[j].text => i = j

\* The paths a request can carry: the one path of a single empty text is "/",
\* which has no segment at all.
IsPath(path) == path # <<Empty>>

\* The rest of the path from its i-th segment on has no byte.
NothingFrom(path, i) == i = Len(path) /\ path[i] = Empty

SegMatches(s, t) ==
    CASE s.kind = "literal" -> t = s.text
      [] s.kind = "u64"     -> t \in U64Texts
      [] s.kind = "i64"     -> t \in I64Texts
      [] OTHER              -> t # Empty

EndsInRest(pattern) == pattern # << >> /\ pattern[Len(pattern)].kind = "rest"

\* docs/route-semantics.md, rules 2-4, as matches_u64, matches_i64 and the
\* conditions of walk decide them.
Matches(pattern, path) ==
    LET n == Len(pattern)
    IN  IF EndsInRest(pattern)
        THEN /\ n <= Len(path)
             /\ \A i \in 1..(n - 1) : SegMatches(pattern[i], path[i])
             /\ ~NothingFrom(path, n)
        ELSE /\ n = Len(path)
             /\ \A i \in 1..n : SegMatches(pattern[i], path[i])

\* Rule 5: p is more specific than q, both matching one path: at the first
\* segment where their kinds differ, p's is tried before q's.
MoreSpecific(p, q) ==
    \E i \in 1..Len(p) :
        /\ i <= Len(q)
        /\ Rank[p[i].kind] < Rank[q[i].kind]
        /\ \A j \in 1..(i - 1) : SameSeg(p[j], q[j])

\* What a match of a pattern captures: a view of the path for each parameter,
\* as the first and the last segment it spans.
CaptureAt(pattern, path, i) ==
    IF pattern[i].kind = "rest" THEN <<i, Len(path)>> ELSE <<i, i>>

\* The place of parameter i among a pattern's parameters.
ParamPlace(pattern, i) == Cardinality({j \in ParamIndices(pattern) : j <= i})

Captures(pattern, path) ==
    [k \in 1..NumParams(pattern) |->
        CaptureAt(pattern, path,
            CHOOSE i \in ParamIndices(pattern) : ParamPlace(pattern, i) = k)]

\* The pattern of a set that a path finds; the set has one when it holds a
\* pattern that matches.
Found(patterns, path) == \E p \in patterns : Matches(p, path)

Best(patterns, path) ==
    CHOOSE p \in patterns :
        /\ Matches(p, path)
        /\ \A q \in patterns :
               Matches(q, path) /\ Keys(q) # Keys(p) => MoreSpecific(p, q)
=============================================================================

--------------------------- MODULE RegexLanguage ---------------------------
(***************************************************************************)
(* What a regex means, apart from any matcher: its tokens, the texts it    *)
(* matches and the positions its groups capture.  A regex is a record:     *)
(*   [is |-> "char", sym], [is |-> "class", members], [is |-> "cat", parts],*)
(*   [is |-> "or", parts], [is |-> "group", of] and                        *)
(*   [is |-> "repeat", of, min, max].                                      *)
(***************************************************************************)
EXTENDS Integers, Sequences, FiniteSets, SequencesExt

LOCAL AnySym == 1      \* as in RegexGraph
LOCAL Unbounded == -1

Ch(c) == [is |-> "char", sym |-> c]
Dot == Ch(AnySym)
OneOf(members) == [is |-> "class", members |-> members]
Cat(parts) == [is |-> "cat", parts |-> parts]
Or(parts) == [is |-> "or", parts |-> parts]
Group(re) == [is |-> "group", of |-> re]
Repeated(re, min, max) == [is |-> "repeat", of |-> re, min |-> min, max |-> max]
Plus(re) == Repeated(re, 1, Unbounded)
Star(re) == Repeated(re, 0, Unbounded)
Optional(re) == Repeated(re, 0, 1)

\* The tokens add_regex reads.
RECURSIVE TokensOf(_)
TokensOf(re) ==
    CASE re.is = "char" -> <<[kind |-> "char", sym |-> re.sym]>>
      [] re.is = "class" -> <<[kind |-> "class", members |-> re.members]>>
      [] re.is = "cat" -> FlattenSeq([i \in DOMAIN re.parts |-> TokensOf(re.parts[i])])
      [] re.is = "or" ->
            TokensOf(re.parts[1]) \o
            FlattenSeq([i \in 1..(Len(re.parts) - 1) |->
                           <<[kind |-> "or"]>> \o TokensOf(re.parts[i + 1])])
      [] re.is = "group" -> <<[kind |-> "open"]>> \o TokensOf(re.of) \o <<[kind |-> "close"]>>
      [] OTHER -> TokensOf(re.of) \o <<[kind |-> "repeat", min |-> re.min, max |-> re.max]>>

RECURSIVE GroupsIn(_)
GroupsIn(re) ==
    CASE re.is \in {"char", "class"} -> 0
      [] re.is \in {"cat", "or"} ->
            FoldLeft(LAMBDA n, part : n + GroupsIn(part), 0, re.parts)
      [] re.is = "group" -> 1 + GroupsIn(re.of)
      [] OTHER -> GroupsIn(re.of)

\* Where groups end up when a regex is read twice in a row: from the first
\* reading's start to the last one's end.
LOCAL Joined(a, b) ==
    [i \in DOMAIN a \cup DOMAIN b |->
        <<IF i \in DOMAIN a THEN a[i][1] ELSE b[i][1],
          IF i \in DOMAIN b THEN b[i][2] ELSE a[i][2]>>]

\* The readings of a text from a position on: where each ends, and the spans of
\* the groups, numbered from k on.
RECURSIVE Readings(_, _, _, _)
Readings(re, text, pos, k) ==
    CASE re.is = "char" ->
            IF pos < Len(text) /\ re.sym \in {text[pos + 1], AnySym}
            THEN {[end |-> pos + 1, spans |-> << >>]} ELSE {}
      [] re.is = "class" ->
            IF pos < Len(text) /\ text[pos + 1] \in re.members
            THEN {[end |-> pos + 1, spans |-> << >>]} ELSE {}
      [] re.is = "cat" ->
            LET after[n \in 0..Len(re.parts)] ==
                    IF n = 0 THEN {[end |-> pos, spans |-> << >>, k |-> k]}
                    ELSE UNION {{[end |-> y.end,
                                  spans |-> Joined(x.spans, y.spans),
                                  k |-> x.k + GroupsIn(re.parts[n])] :
                                    y \in Readings(re.parts[n], text, x.end, x.k)} :
                                x \in after[n - 1]}
            IN  {[end |-> x.end, spans |-> x.spans] : x \in after[Len(re.parts)]}
      [] re.is = "or" ->
            UNION {Readings(re.parts[i], text, pos,
                       k + FoldLeft(LAMBDA n, part : n + GroupsIn(part), 0,
                                    SubSeq(re.parts, 1, i - 1))) :
                   i \in DOMAIN re.parts}
      [] re.is = "group" ->
            {[end |-> x.end,
              spans |-> Joined([i \in {k} |-> <<pos, x.end>>], x.spans)] :
                x \in Readings(re.of, text, pos, k + 1)}
      [] OTHER ->
            \* more iterations than the text has characters read nothing more
            LET most == IF re.max = Unbounded THEN Len(text) + re.min ELSE re.max
                after[n \in 0..most] ==
                    IF n = 0 THEN {[end |-> pos, spans |-> << >>]}
                    ELSE UNION {{[end |-> y.end, spans |-> Joined(x.spans, y.spans)] :
                                    y \in Readings(re.of, text, x.end, k)} :
                                x \in after[n - 1]}
            IN  UNION {after[n] : n \in re.min..most}

\* The spans of the groups in the readings of a whole text.
Captured(re, text) ==
    {x.spans : x \in {y \in Readings(re, text, 0, 0) : y.end = Len(text)}}

\* ^(re)$
Accepts(re, text) == Captured(re, text) # {}
=============================================================================

------------------------------ MODULE RouteParse ------------------------------
(***************************************************************************)
(* parse_pattern (route/pattern.hpp): a pattern's text, segment by         *)
(* segment, to the segments it has or to its first error and where that    *)
(* is.                                                                     *)
(*                                                                         *)
(* A text is a sequence of symbols, each the byte it shows; the words      *)
(* "u64", "i64" and "string" stand for their letters.  Offsets count       *)
(* symbols, from 0.  The properties compare the parser with the rules of   *)
(* docs/route-semantics.md, stated here without its loop.                  *)
(***************************************************************************)
EXTENDS Naturals, Sequences, FiniteSets

CONSTANTS
    Alphabet,     \* the symbols that occur
    Letters,      \* those that may start a name, but for "_"
    Digits, Hex,  \* digits; what may follow "%"
    Pchars,       \* those a literal may hold anywhere
    Inputs,       \* the texts parsed
    Continuations,  \* texts that may follow a segment: empty, or from a slash on
    MaxSegments,  \* kMaxSegments
    MaxParams     \* kMaxParams

ASSUME AlphabetAssumption ==
    /\ {"/", "{", "}", "*", ":", "%", "_"} \subseteq Alphabet
    /\ Letters \cup Digits \cup Hex \cup Pchars \subseteq Alphabet
    /\ Pchars \cap {"/", "{", "}", "%"} = {}
    /\ Hex \subseteq Letters \cup Digits
    /\ Letters \cup Digits \cup {"_", "*", ":"} \subseteq Pchars
    /\ (Letters \cup Digits) \cap {"*", ":"} = {}

ASSUME InputsAssumption == Inputs \subseteq Seq(Alphabet)

ASSUME ContinuationsAssumption ==
    \A more \in Continuations : more \in Seq(Alphabet) /\ (more # << >> => more[1] = "/")

ASSUME BoundsAssumption == MaxSegments \in Nat \ {0} /\ MaxParams \in Nat \ {0}

VARIABLES
    text,    \* what is parsed: never changed
    pos,     \* where the segment at hand starts
    segs,    \* the segments so far
    params,  \* how many of them are parameters
    error,   \* the first error, or "None"
    at,      \* its offset
    pc       \* "start", "segments" or "done"

vars == <<text, pos, segs, params, error, at, pc>>

Kinds == {"literal", "u64", "i64", "param", "rest"}

\* The types a parameter can name, and the kind of segment each makes.
Types == {"u64", "i64", "string"}

KindOf(type) == IF type = "string" THEN "param" ELSE type

\* The first place of a symbol in a text from place i on, or the place after
\* the text.
FirstAt(s, x, i) ==
    CHOOSE j \in i..(Len(s) + 1) :
        (j > Len(s) \/ s[j] = x) /\ \A k \in i..(j - 1) : s[k] # x

Leading(s) == s # << >> /\ s[1] = "/"

\* detail::valid_name
ValidName(s) ==
    /\ s # << >>
    /\ s[1] \in Letters \cup {"_"}
    /\ \A i \in 1..Len(s) : s[i] \in Letters \cup Digits \cup {"_"}

-----------------------------------------------------------------------------
(* The segment at hand.                                                    *)

End == FirstAt(text, "/", pos)

Seg == SubSeq(text, pos, End - 1)

\* Mutant of IsLast: off by one.
PastLast == End > Len(text) + 1

IsLast == End > Len(text)

IsParam(s) == s # << >> /\ s[1] = "{"

Inner(s) == SubSeq(s, 2, Len(s) - 1)

IsRest(s) == Inner(s) # << >> /\ Inner(s)[1] = "*"

\* What is between the braces, without the star; its name and its type.
Body(s) == IF IsRest(s) THEN Tail(Inner(s)) ELSE Inner(s)

Colon(s) == FirstAt(Body(s), ":", 1)

Name(s) == SubSeq(Body(s), 1, Colon(s) - 1)

HasType(s) == Colon(s) <= Len(Body(s))

Type(s) == SubSeq(Body(s), Colon(s) + 1, Len(Body(s)))

\* Mutant of GoodEscape: one hex digit is enough.
ShortEscape(s, i) == i + 1 <= Len(s) /\ s[i + 1] \in Hex

\* A "%" with its two digits.
GoodEscape(s, i) == i + 2 <= Len(s) /\ s[i + 1] \in Hex /\ s[i + 2] \in Hex

\* The loop over a literal's bytes: where it stops, the place after the literal
\* when it does not.
LiteralStop(s) ==
    LET from[i \in 1..(Len(s) + 1)] ==
            IF i > Len(s) THEN i
            ELSE IF s[i] = "%" THEN IF GoodEscape(s, i) THEN from[i + 3] ELSE i
            ELSE IF s[i] \in Pchars THEN from[i + 1] ELSE i
    IN  from[1]

Stop == LiteralStop(Seg)

\* Mutants of Named: names of literals count; only the segment before counts.
NamedByAny(name) == \E i \in 1..Len(segs) : segs[i].text = name
NamedBefore(name) ==
    segs # << >> /\ segs[Len(segs)].kind # "literal" /\ segs[Len(segs)].text = name

\* A parameter before has the name.
Named(name) ==
    \E i \in 1..Len(segs) : segs[i].kind # "literal" /\ segs[i].text = name

\* Mutant of AfterRest: asked of the first segment only.
AfterRestFirst == Len(segs) = 1 /\ segs[1].kind = "rest"

AfterRest == segs # << >> /\ segs[Len(segs)].kind = "rest"

\* The tests of one segment in the order they are made: each with the error it
\* finds and how far into the segment.
Tests ==
    IF AfterRest THEN <<"RestNotLast", 0>>
    ELSE IF Seg = << >> /\ ~IsLast THEN <<"EmptySegment", 0>>
    ELSE IF Len(segs) = MaxSegments THEN <<"TooManySegments", 0>>
    ELSE IF ~IsParam(Seg)
         THEN IF Stop > Len(Seg) THEN <<"None", 0>>
              ELSE <<IF Seg[Stop] \in {"{", "}"} THEN "BraceInLiteral" ELSE "NotPchar",
                     Stop - 1>>
    ELSE IF Seg[Len(Seg)] # "}" THEN <<"UnclosedBrace", 0>>
    ELSE IF \E i \in 1..Len(Inner(Seg)) : Inner(Seg)[i] \in {"{", "}"}
         THEN <<"BraceInLiteral", 0>>
    ELSE IF HasType(Seg) /\ (IsRest(Seg) \/ \A t \in Types : Type(Seg) # <<t>>)
         THEN <<"UnknownType", 0>>
    ELSE IF Name(Seg) = << >> THEN <<"EmptyName", 0>>
    ELSE IF ~ValidName(Name(Seg)) THEN <<"BadName", 0>>
    ELSE IF Named(Name(Seg)) THEN <<"RepeatedName", 0>>
    ELSE IF params = MaxParams THEN <<"TooManyParams", 0>>
    ELSE <<"None", 0>>

\* The segment made of a text that passes them.
Segment(s) ==
    IF ~IsParam(s) THEN [kind |-> "literal", text |-> s]
    ELSE [kind |-> IF IsRest(s) THEN "rest"
                   ELSE IF HasType(s) THEN KindOf(Type(s)[1]) ELSE "param",
          text |-> Name(s)]

-----------------------------------------------------------------------------
Init ==
    /\ text \in Inputs
    /\ pos = 1
    /\ segs = << >> /\ params = 0
    /\ error = "None" /\ at = 0
    /\ pc = "start"

\* Mutant of Offset: of the segment, not of the byte in it.
OffsetOfSegment(inside) == pos - 1

Offset(inside) == pos - 1 + inside

Fail(e, offset) ==
    /\ error' = e /\ at' = offset /\ pc' = "done"
    /\ UNCHANGED <<pos, segs, params>>

\* Before the loop: the first byte, and the root.
Start ==
    /\ pc = "start"
    /\ \/ /\ ~Leading(text)
          /\ Fail("NoLeadingSlash", 0)
       \/ /\ text = <<"/">>
          /\ pc' = "done"
          /\ UNCHANGED <<pos, segs, params, error, at>>
       \/ /\ Leading(text) /\ Len(text) > 1
          /\ pos' = 2 /\ pc' = "segments"
          /\ UNCHANGED <<segs, params, error, at>>
    /\ UNCHANGED text

\* One turn of the loop that ends in an error, and one that adds a segment.
Refuse ==
    /\ pc = "segments"
    /\ Tests[1] # "None"
    /\ Fail(Tests[1], Offset(Tests[2]))
    /\ UNCHANGED text

Accept ==
    /\ pc = "segments"
    /\ Tests[1] = "None"
    /\ segs' = Append(segs, Segment(Seg))
    /\ params' = params + (IF IsParam(Seg) THEN 1 ELSE 0)
    /\ IF IsLast THEN pc' = "done" /\ UNCHANGED pos
       ELSE pos' = End + 1 /\ UNCHANGED pc
    /\ UNCHANGED <<text, error, at>>

\* The result is returned.
Returned == pc = "done" /\ UNCHANGED vars

Next == Start \/ Refuse \/ Accept \/ Returned

Spec == Init /\ [][Next]_vars

-----------------------------------------------------------------------------
(* The rules, from the form of the text alone.                             *)

\* The parts of a text between its slashes, the first slash left out.
Slashes(s) == {i \in 1..Len(s) : s[i] = "/"}

Part(s, i) == SubSeq(s, i + 1, FirstAt(s, "/", i + 1) - 1)

Parts(s) ==
    LET nth == [k \in 1..Cardinality(Slashes(s)) |->
                   CHOOSE i \in Slashes(s) :
                       Cardinality({j \in Slashes(s) : j <= i}) = k]
    IN  IF s = <<"/">> THEN << >> ELSE [k \in DOMAIN nth |-> Part(s, nth[k])]

\* A literal holds pchars and percent signs with two hex digits: each of those
\* is a pchar itself.
GoodLiteral(s) ==
    \A i \in 1..Len(s) :
        \/ s[i] \in Pchars
        \/ s[i] = "%" /\ i + 2 <= Len(s) /\ {s[i + 1], s[i + 2]} \subseteq Hex

\* The ways to write a parameter with a name, and the kind of each.
Braced(kind, name) ==
    CASE kind = "rest"  -> {<<"{", "*">> \o name \o <<"}">>}
      [] kind = "param" -> {<<"{">> \o name \o <<"}">>,
                            <<"{">> \o name \o <<":", "string", "}">>}
      [] OTHER          -> {<<"{">> \o name \o <<":", kind, "}">>}

NamesIn(s) == {n \in {SubSeq(s, i, j) : i, j \in 1..Len(s)} : ValidName(n)}

\* What a part can be read as: at most one segment.
Readings(s) ==
    (IF GoodLiteral(s) THEN {[kind |-> "literal", text |-> s]} ELSE {})
        \cup {r \in [kind : Kinds \ {"literal"}, text : NamesIn(s)] :
                 s \in Braced(r.kind, r.text)}

\* A pattern is read when its parts are, and keeps the rules between them: it is
\* one of the patterns the tables are built of (RoutePatterns), its texts
\* numbered by the first segment that has them.
Pattern(parts) ==
    [k \in 1..Len(parts) |-> CHOOSE r \in Readings(parts[k]) : TRUE]

ParamsOf(p) == {k \in 1..Len(p) : p[k].kind # "literal"}

Numbered(p) ==
    [k \in 1..Len(p) |->
        [kind |-> p[k].kind,
         text |-> IF p[k].text = << >> THEN 0
                  ELSE CHOOSE j \in 1..k :
                           p[j].text = p[k].text /\ \A i \in 1..(j - 1) : p[i].text # p[k].text]]

Patterns == INSTANCE RoutePatterns WITH
    Texts <- Nat \ {0}, U64Texts <- {}, I64Texts <- {}

KeepsRules(p) == Patterns!IsPattern(Numbered(p))

WellFormed(s) ==
    /\ Leading(s)
    /\ \A k \in 1..Len(Parts(s)) : Readings(Parts(s)[k]) # {}
    /\ KeepsRules(Pattern(Parts(s)))

-----------------------------------------------------------------------------
(* Properties.                                                             *)

Errors ==
    {"None", "NoLeadingSlash", "EmptySegment", "UnclosedBrace", "BraceInLiteral",
     "EmptyName", "BadName", "RepeatedName", "UnknownType", "RestNotLast",
     "NotPchar", "TooManySegments", "TooManyParams"}

TypeOK ==
    /\ text \in Seq(Alphabet)
    /\ pos \in 1..(Len(text) + 1)
    /\ segs \in Seq([kind : Kinds, text : Seq(Alphabet)])
    /\ params \in Nat
    /\ error \in Errors
    /\ at \in Nat
    /\ pc \in {"start", "segments", "done"}

\* The segments so far fit the array they are written to and keep the rules
\* that relate one to another, at every moment: no more than kMaxSegments, no
\* more parameters than kMaxParams and as many as are counted, none after a
\* catch-all, none of a name twice.
SegmentsFit ==
    /\ Len(segs) <= MaxSegments
    /\ params = Cardinality(ParamsOf(segs)) /\ params <= MaxParams
    /\ \A k \in 1..Len(segs) : segs[k].kind = "rest" => k = Len(segs)
    /\ \A j, k \in ParamsOf(segs) : segs[j].text = segs[k].text => j = k

\* A parameter with its closing brace and no brace between.
Closed(p) ==
    /\ IsParam(p) /\ Len(p) > 1 /\ p[Len(p)] = "}"
    /\ \A i \in 2..(Len(p) - 1) : p[i] \notin {"{", "}"}

\* What describe() says of an error in a part (pattern.hpp:55-73).
PartHas(e, p) ==
    CASE e = "UnclosedBrace"  -> IsParam(p) /\ p[Len(p)] # "}"
      [] e = "BraceInLiteral" -> \E i \in 1..Len(p) :
                                     p[i] \in {"{", "}"} /\ ~(IsParam(p) /\ i \in {1, Len(p)})
      [] e = "NotPchar"       -> ~IsParam(p) /\ \E i \in 1..Len(p) :
                                     /\ p[i] \notin Pchars \cup {"{", "}"}
                                     /\ ~(p[i] = "%" /\ GoodEscape(p, i))
      [] e = "UnknownType"    -> Closed(p) /\ HasType(p) /\
                                     (IsRest(p) \/ Type(p) \notin {<<t>> : t \in Types})
      [] e = "EmptyName"      -> Closed(p) /\ Name(p) = << >>
      [] e = "BadName"        -> Closed(p) /\ Name(p) # << >> /\ ~ValidName(Name(p))

\* What it says of one in a text.
TextHas(e, s) ==
    LET parts == Parts(s)
        nth   == 1..Len(parts)
    IN  CASE e = "NoLeadingSlash"  -> ~Leading(s)
          [] e = "EmptySegment"    -> \E k \in nth : parts[k] = << >> /\ k # Len(parts)
          [] e = "TooManySegments" -> Len(parts) > MaxSegments
          [] e = "TooManyParams"   -> Cardinality({k \in nth : IsParam(parts[k])}) > MaxParams
          [] e = "RestNotLast"     -> \E k \in nth : \E r \in Readings(parts[k]) :
                                          r.kind = "rest" /\ k # Len(parts)
          [] e = "RepeatedName"    -> \E j, k \in nth :
                                          \E q \in Readings(parts[j]), r \in Readings(parts[k]) :
                                              /\ q.kind # "literal" /\ r.kind # "literal"
                                              /\ q.text = r.text /\ j # k
          [] OTHER                 -> \E k \in nth : PartHas(e, parts[k])

\* The parser accepts exactly the patterns of docs/route-semantics.md, and reads
\* them as the document says.  Of any other it names an error the text has.
ParsesAsWritten ==
    pc = "done" =>
        IF WellFormed(text) THEN error = "None" /\ segs = Pattern(Parts(text))
        ELSE error # "None" /\ TextHas(error, text)

\* "The result names the first error and the byte offset at which the text
\* stopped being well formed" (pattern.hpp:147-148): the text before the offset
\* is well formed, the slash left out after which no segment can follow; with
\* the byte at the offset it is not, and nothing is that goes on after the
\* segment the offset is in, with a slash if the text has one.
OffsetMarksTheEnd ==
    LET cut == IF error = "RestNotLast" \/ Len(segs) = MaxSegments THEN at - 1 ELSE at
        slash == FirstAt(text, "/", at + 1)
    IN  pc = "done" /\ error \notin {"None", "NoLeadingSlash"} =>
            /\ WellFormed(SubSeq(text, 1, cut))
            /\ ~WellFormed(SubSeq(text, 1, IF at = Len(text) THEN at ELSE at + 1))
            /\ \A more \in Continuations :
                   more # << >> \/ slash > Len(text) =>
                       ~WellFormed(SubSeq(text, 1, slash - 1) \o more)
=============================================================================

---------------------------- MODULE RegexMatcher ----------------------------
(***************************************************************************)
(* A RegexMatcher and its caller: regexes are added, compile() is called,  *)
(* and texts are matched, in any order the caller likes.  Each match       *)
(* starts from fresh counters and captures, so a behaviour matches one     *)
(* text for each state of the matcher.                                     *)
(***************************************************************************)
EXTENDS RegexBuild, RegexWalk

CONSTANTS
    Families,     \* bound: the sets of regexes a matcher gets regexes of
    Texts,        \* the texts matched
    AddLate,      \* regexes are added to a matcher that was compiled, too
    OnlyCompiled, \* the regexes matched only in a matcher that is compiled
    OnlyBuilt     \* those no text is matched with

ASSUME FamiliesAssumption == \A f \in Families : f \subseteq Regexes
ASSUME TextsAssumption == Texts \subseteq Seq(Chars)

VARIABLE
    added         \* the regexes added so far, the one being added included

vars == <<g, added, buildVars, walkVars>>

Idle == adding = NoRegex /\ calls = << >>

Init ==
    /\ added = << >>
    /\ g = EmptyGraph
    /\ BuildInit
    /\ WalkInit

\* What a match had is gone when it returns.
Forget ==
    /\ text' = NoText
    /\ counters' = << >> /\ slots' = << >> /\ results' = << >>
    /\ UNCHANGED calls

AddedRegexes == Range(added)

Add ==
    /\ Idle
    /\ g.node[Root].compiled => AddLate
    /\ \E r \in Regexes \ AddedRegexes :
           /\ \E f \in Families : AddedRegexes \cup {r} \subseteq f
           /\ AddRegex(r)
           /\ added' = Append(added, r)
    /\ Forget

Build == BuildStep /\ UNCHANGED <<added, walkVars>>

Compile ==
    /\ Idle
    /\ added # << >>
    /\ ~g.node[Root].compiled
    /\ g' = Compiled(g)
    /\ Forget
    /\ UNCHANGED <<added, buildVars>>

Match ==
    /\ Idle
    /\ added # << >>
    /\ text = NoText
    /\ AddedRegexes \cap OnlyBuilt = {}
    /\ AddedRegexes \cap OnlyCompiled # {} => g.node[Root].compiled
    /\ \E t \in Texts : StartMatch(t)
    /\ UNCHANGED <<added, buildVars>>

Walk == WalkStep /\ UNCHANGED <<added, buildVars>>

Next == Add \/ Build \/ Compile \/ Match \/ Walk

\* A call of add_regex or of match runs to its end; nobody has to make one.
Spec == Init /\ [][Next]_vars /\ WF_vars(Build) /\ WF_vars(Walk)

-----------------------------------------------------------------------------
(* Properties.                                                             *)

Edges == UNION {{<<n, s>> : s \in DOMAIN Out(g, n)} : n \in NodesOf(g)}

EdgeOf(x) == Out(g, x[1])[x[2]]

\* Types, and the shape of the graph: an edge leads to a node of its symbol,
\* for regexes that were added, with tags and limits that exist.
TypeOK ==
    /\ added \in Seq(Regexes)
    /\ adding \in Regexes \cup {NoRegex}
    /\ \A x \in Edges :
           LET e == EdgeOf(x)
           IN  /\ e.to \in NodesOf(g)
               /\ SymOf(g, e.to) = x[2]
               /\ Ids(e) \subseteq AddedRegexes
               /\ DOMAIN e.tags \subseteq Ids(e)
               /\ \A r \in Ids(e) : e.paths[r] \in 0..Len(g.limit)
    /\ \A i \in DOMAIN calls :
           /\ calls[i].node \in NodesOf(g)
           /\ calls[i].pos \in 0..Len(text)
           /\ calls[i].paths \subseteq AddedRegexes

\* A limit object is shared by the edges of one regex and no other's, though
\* regexes share nodes and edges: the counters of a match are then counters of
\* one regex each, whatever else is tried at the same edges.
LimitsOwned ==
    LET named == UNION {{<<r, EdgeOf(x).paths[r]>> : r \in Ids(EdgeOf(x))} : x \in Edges}
    IN  \A x, y \in named : x[2] = y[2] /\ x[2] # NoLimit => x[1] = y[1]

\* absorb is never told to absorb a node into itself, which would leave it with
\* iterators of an edge it erased.
AbsorbsAnother == \A i \in DOMAIN absorbs : absorbs[i].into # absorbs[i].from

\* The premise of the fast path: a call said to have all the regexes alive at
\* its node has them, so that a step that skips the intersection skips nothing.
LiveIsWhole ==
    \A i \in DOMAIN calls :
        calls[i].live /\ calls[i].prev # NoNode => calls[i].paths = Alive(g, calls[i].node)

\* The counters are those of the way down: a limit is counted down once for
\* every call under way that used it, and by nothing else.  What was tried before
\* on another way leaves no trace (node.ipp:617, "restore this frame's repeat
\* counters").
LoweredTimes(l, n) == FoldLeft(LAMBDA x, i : Lowered(x), l, [i \in 1..n |-> i])

CountersExact ==
    calls # << >> =>
        \A l \in DOMAIN counters :
            counters[l] = LoweredTimes(g.limit[l],
                Cardinality({i \in DOMAIN calls : l \in DOMAIN calls[i].saved}))

\* The captures are those of the way down: taking back what every call under
\* way has to undo leaves no group open (core.hpp:227-228, "restoring to UNSET
\* means the group was not set before").  So for the groups that spill, and for
\* those held inline.  (A group that closes at the end mark stays closed: that is
\* not undone, and shows nowhere as long as the group does not stay open.)
AllUnmarked ==
    LET back[k \in 0..Len(calls)] ==
            IF k = 0 THEN slots ELSE Unmarked(back[k - 1], calls[Len(calls) + 1 - k].undo)
    IN  back[Len(calls)]

Rewinds(ids) ==
    calls # << >> =>
        \A id \in {x \in ids : x.open} : SlotValue(AllUnmarked, id) = Unset

SpilledRewind == Rewinds({id \in DOMAIN slots : ~IsInline(id)})
InlineRewind == Rewinds({id \in DOMAIN slots : IsInline(id)})

\* Adding a regex, with all it rewires and absorbs, and matching a text, round
\* every loop of the graph, come to an end.
CallsEnd ==
    /\ adding # NoRegex ~> adding = NoRegex
    /\ calls # << >> ~> calls = << >>
=============================================================================

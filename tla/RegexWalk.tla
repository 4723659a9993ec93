----------------------------- MODULE RegexWalk -----------------------------
(***************************************************************************)
(* One match of a text (match_with_groups_helper in matcher/impl/node.ipp, *)
(* and match_helper, the same walk without captures): a depth first search *)
(* of the graph along every edge the text allows, by a stack of calls that *)
(* share one set of repeat counters and one table of captured positions    *)
(* and undo what they change there on the way back.                        *)
(***************************************************************************)
EXTENDS RegexGraph

CONSTANT InlineGroups  \* CaptureSlots::INLINE_GROUPS

ASSUME GroupsAssumption == InlineGroups \in Nat

VARIABLES
    text,      \* the text matched, or NoText
    calls,     \* the calls under way, the innermost last
    counters,  \* limit_state: what is left of each limit
    slots,     \* capture_slots
    results    \* the regexes that matched, with their groups

walkVars == <<text, calls, counters, slots, results>>

NoText == <<0>>

\* CaptureSlots::UNSET
Unset == -1

\* The tags of an edge, with the regex each is for.
TagsOf(e) ==
    UNION {{[regex |-> r, group |-> e.tags[r][i].group, open |-> e.tags[r][i].open] :
                i \in DOMAIN e.tags[r]} : r \in DOMAIN e.tags}

EdgesOf(n) == {Out(g, n)[s] : s \in DOMAIN Out(g, n)}

Tags == UNION {UNION {TagsOf(e) : e \in EdgesOf(n)} : n \in NodesOf(g)}

\* The slots the tags of the graph ask for: the code makes them when it is first
\* asked for one of them.
SlotIds == UNION {{[id EXCEPT !.open = open] : open \in BOOLEAN} : id \in Tags}

IsInline(id) == id.group < InlineGroups

\* A slot nobody wrote: an inline one holds zero, its bit clear; one that
\* spilled holds UNSET.
FreshSlots ==
    [id \in SlotIds |-> [value |-> IF IsInline(id) THEN 0 ELSE Unset, isSet |-> FALSE]]

\* start_of and end_of
SlotValue(table, id) ==
    IF IsInline(id) /\ ~table[id].isSet THEN Unset ELSE table[id].value

\* open_group and close_group
Mark(table, id, position) ==
    [table EXCEPT ![id] = [value |-> position, isSet |-> TRUE]]

\* Mutant of Unmark: a slot is only ever unset by its bit.
UnmarkBit(table, id, before) ==
    IF before = Unset THEN [table EXCEPT ![id].isSet = FALSE]
    ELSE [table EXCEPT ![id] = [value |-> before, isSet |-> TRUE]]

\* undo_open and undo_close, with the value Mark found
Unmark(table, id, before) ==
    [table EXCEPT ![id] =
        IF before = Unset /\ IsInline(id) THEN [@ EXCEPT !.isSet = FALSE]
        ELSE [value |-> before, isSet |-> TRUE]]

\* to_groups: the groups both ends of which are set
Groups(table, r) ==
    LET Id(i, open) == [regex |-> r, group |-> i, open |-> open]
        Start(i) == SlotValue(table, Id(i, TRUE))
        End(i) == SlotValue(table, Id(i, FALSE))
        marked == {id.group : id \in {x \in DOMAIN table : x.regex = r}}
        complete == {i \in marked : Start(i) # Unset /\ End(i) # Unset}
    IN  [i \in complete |-> <<Start(i), End(i)>>]

-----------------------------------------------------------------------------
Call == calls[Len(calls)]
Callers == Front(calls)

AtEnd == Call.pos = Len(text)

\* A set of numbers in order: each has as many below it as come before it.
Ordered(S) ==
    [k \in 1..Cardinality(S) |-> CHOOSE x \in S : Cardinality({y \in S : y < x}) = k - 1]

\* The edges a call tries for the next character of a text, in order.
Candidates(t, n, pos) ==
    LET c == t[pos + 1]
        Plain(s) == IF HasChild(g, n, s) THEN <<s>> ELSE << >>
        classes == {s \in DOMAIN Out(g, n) :
                       IsClass(s) /\ c \in g.node[Child(g, n, s)].members}
    IN  Plain(c) \o Plain(AnySym) \o Plain(NoneSym) \o Ordered(classes)

\* A call at a node, at a position of the text, for the regexes that arrive;
\* "live" says they are all those alive there.  "saved" and "undo" are what the
\* call it makes has to leave as it was.
NewCall(t, n, prev, pos, paths, live) ==
    [node |-> n, prev |-> prev, pos |-> pos, paths |-> paths, live |-> live,
     todo |-> IF pos < Len(t) THEN Candidates(t, n, pos) ELSE << >>,
     saved |-> << >>, undo |-> << >>]

WalkInit ==
    /\ text = NoText
    /\ calls = << >> /\ counters = << >> /\ slots = << >> /\ results = << >>

\* Mutant of ByRegex: in the order the walk found them.
AsFound(found) == found

\* The matches by regex; those of one regex keep the order the walk found them in.
ByRegex(found) ==
    LET regexes == Ordered({m.regex : m \in Range(found)})
    IN  FlattenSeq([i \in DOMAIN regexes |->
            SelectSeq(found, LAMBDA m : m.regex = regexes[i])])

\* Node::match_with_groups
StartMatch(t) ==
    /\ calls = << >>
    /\ text' = t
    /\ counters' = g.limit
    /\ slots' = FreshSlots
    /\ results' = << >>
    /\ calls' = <<NewCall(t, Root, NoNode, 0, {}, TRUE)>>
    /\ UNCHANGED g

-----------------------------------------------------------------------------
(* Taking an edge.                                                         *)

\* Node::repeat_satisfied: a regex may not leave a repeat that owes iterations.
RepeatsMet(n, r, taking) ==
    \A x \in g.node[n].repeats : x[1] = r /\ x[2] # taking => counters[x[2]].min = 0

\* The edge is taken for the regexes on it that arrive, may go on repeating and
\* owe nothing here.
Survivors(c, e) ==
    {r \in Ids(e) :
        /\ e.paths[r] # NoLimit => MayRepeat(counters[e.paths[r]])
        /\ c.prev = NoNode \/ r \in c.paths
        /\ RepeatsMet(c.node, r, e.paths[r])}

\* compile() found that the arriving regexes need no second look.
IsFast(c, e) ==
    g.node[c.node].compiled /\ c.live /\ ~e.limited /\ g.node[c.node].repeats = {}

\* The limits the survivors use up one iteration of.
Used(c, e) ==
    IF IsFast(c, e) THEN {}
    ELSE {e.paths[r] : r \in Survivors(c, e)} \ {NoLimit}

After(c, s) == c.pos + (IF s = NoneSym THEN 0 ELSE 1)

\* Mutant of RunMatches: the text may end before the run does.
RunMatchesStart(e, pos) ==
    \A i \in 1..Len(e.run) : pos + i <= Len(text) => text[pos + i] = e.run[i]

\* The literal tail compile() joined to the edge is compared in one pass.
RunMatches(e, pos) ==
    /\ pos + Len(e.run) <= Len(text)
    /\ \A i \in 1..Len(e.run) : text[pos + i] = e.run[i]

\* The tags an edge has for some regexes, in order.
TagsFor(e, rs) ==
    LET tagged == Ordered(rs \cap DOMAIN e.tags)
        Of(r) == [i \in DOMAIN e.tags[r] |->
                     [regex |-> r, group |-> e.tags[r][i].group, open |-> e.tags[r][i].open]]
    IN  FlattenSeq([k \in DOMAIN tagged |-> Of(tagged[k])])

\* The slots with tags marked at a position, and what they held.
Marked(tags, position) ==
    LET upTo[k \in 0..Len(tags)] ==
            IF k = 0 THEN [slots |-> slots, undo |-> << >>]
            ELSE LET before == upTo[k - 1]
                     id == tags[k]
                 IN  [slots |-> Mark(before.slots, id, position),
                      undo |-> Append(before.undo,
                                   [id |-> id, before |-> before.slots[id].value])]
    IN  upTo[Len(tags)]

\* The slots with all that was marked taken back, the last first.
Unmarked(table, undo) ==
    LET back[k \in 0..Len(undo)] ==
            IF k = 0 THEN table
            ELSE LET u == undo[Len(undo) + 1 - k] IN Unmark(back[k - 1], u.id, u.before)
    IN  back[Len(undo)]

Lower(used) ==
    [l \in DOMAIN counters |-> IF l \in used THEN Lowered(counters[l]) ELSE counters[l]]

\* The limits a call restores when the call it made returns.
Saved(used) == [l \in used |-> counters[l]]

\* Mutant of Restored: what is restored is the limit, not what was left of it.
RestoredFull(saved) ==
    [l \in DOMAIN counters |-> IF l \in DOMAIN saved THEN g.limit[l] ELSE counters[l]]

Restored(saved) ==
    [l \in DOMAIN counters |-> IF l \in DOMAIN saved THEN saved[l] ELSE counters[l]]

\* Mutant of Tried: the edge is tried again.
TriedNot(c) == c

\* A call past the edge it tries.
Tried(c) == [c EXCEPT !.todo = Tail(@)]

Try ==
    /\ calls # << >>
    /\ Call.todo # << >>
    /\ LET c == Call
           s == Head(c.todo)
           e == Out(g, c.node)[s]
           used == Used(c, e)
           paths == IF IsFast(c, e) THEN e.ids ELSE Survivors(c, e)
           rest == Tried(c)
           marked == Marked(TagsFor(e, paths), c.pos)
           taken == RunMatches(e, After(c, s)) /\ paths # {}
       IN  /\ counters' = Lower(used)
           /\ IF taken
              THEN /\ slots' = marked.slots
                   /\ calls' = Callers \o
                          <<[rest EXCEPT !.saved = Saved(used), !.undo = marked.undo],
                            NewCall(text, RunEnd(e), c.node, After(c, s) + Len(e.run),
                                    paths, IsFast(c, e) /\ e.full)>>
              ELSE /\ calls' = Append(Callers, rest)
                   /\ UNCHANGED slots
    /\ UNCHANGED <<g, text, results>>

-----------------------------------------------------------------------------
(* Returning.                                                              *)

\* The call at hand returns, with the slots and the matches as it leaves them:
\* its caller undoes what it did for the call; the outermost call sorts.
Leave(table, found) ==
    IF Callers = << >>
    THEN /\ calls' = << >>
         /\ slots' = table
         /\ results' = ByRegex(found)
         /\ UNCHANGED counters
    ELSE LET caller == Last(Callers)
         IN  /\ calls' = [Callers EXCEPT ![Len(Callers)] =
                             [@ EXCEPT !.saved = << >>, !.undo = << >>]]
             /\ slots' = Unmarked(table, caller.undo)
             /\ counters' = Restored(caller.saved)
             /\ results' = found

NothingLeft ==
    /\ calls # << >>
    /\ ~AtEnd
    /\ Call.todo = << >>
    /\ Leave(slots, results)
    /\ UNCHANGED <<g, text>>

\* The limit of a regex on the edge a node has for a symbol, or none.
LimitOn(n, s, r) ==
    IF HasChild(g, n, s) /\ r \in Ids(Out(g, n)[s]) THEN Out(g, n)[s].paths[r] ELSE NoLimit

\* A regex ends at a node when no limit there is owed an iteration: the one of
\* its own end edge, when the call came by an edge of the node's symbol, and the
\* one of the node's edge to its own symbol.
EndsHere(c, r) ==
    LET sym == SymOf(g, c.node)
        Met(l) == l # NoLimit => counters[l].min = 0
    IN  c.prev # NoNode =>
            /\ HasChild(g, c.prev, sym) => Met(LimitOn(c.node, Eor, r))
            /\ Met(LimitOn(c.node, sym, r))

\* The text is read: the regexes that end here match, with the groups captured
\* by now and by the tags of the end edge, which are not undone.
EndOfText ==
    /\ calls # << >>
    /\ AtEnd
    /\ LET c == Call
           eor == EdgeAt(g, c.node, Eor)
           arriving == IF c.paths = {} THEN Ids(eor) ELSE c.paths \cap Ids(eor)
           ending == {r \in arriving : EndsHere(c, r)}
           table == Marked(TagsFor(eor, ending), c.pos).slots
       IN  Leave(table, results \o
                  [i \in 1..Cardinality(ending) |->
                      [regex |-> Ordered(ending)[i],
                       groups |-> Groups(table, Ordered(ending)[i])]])
    /\ UNCHANGED <<g, text>>

WalkStep == Try \/ NothingLeft \/ EndOfText
=============================================================================

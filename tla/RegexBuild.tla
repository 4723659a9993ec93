----------------------------- MODULE RegexBuild -----------------------------
(***************************************************************************)
(* add_regex: a regex is read token by token (process, processSet and      *)
(* processLimit in matcher/impl/core.ipp) and wired into the one graph of  *)
(* all regexes (connect_with and absorb in matcher/impl/node.ipp).  The    *)
(* calls of process, one for each group open, are a stack, and so are      *)
(* those of absorb.                                                        *)
(***************************************************************************)
EXTENDS RegexGraph

CONSTANT Tokens  \* by regex: its tokens (see RegexLanguage)

TokenSet ==
    [kind : {"char"}, sym : Chars \cup {AnySym}] \cup
    [kind : {"class"}, members : SUBSET Chars] \cup
    [kind : {"open", "close", "or"}] \cup
    [kind : {"repeat"}, min : Nat, max : Nat \cup {Unbounded}]

ASSUME TokensAssumption == Tokens \in [Regexes -> Seq(TokenSet)]

VARIABLES
    adding,     \* the regex being added, or NoRegex
    at,         \* its tokens read
    groups,     \* group_counter: its groups opened
    pending,    \* pending_actions: the tags its next edge takes
    levels,     \* the calls of process under way
    links,      \* the edges the quantifier at hand has still to make
    absorbs     \* the calls of absorb under way

buildVars == <<adding, at, groups, pending, levels, links, absorbs>>

NoRegex == -1

tokens == Tokens[adding]
Token == tokens[at + 1]

Reading == adding # NoRegex /\ links = << >> /\ absorbs = << >>
Reads(kind) == Reading /\ at < Len(tokens) /\ Token.kind = kind

Level == levels[Len(levels)]
Outer == SubSeq(levels, 1, Len(levels) - 1)

\* The branch at hand has read something.  Without that, what ends it or repeats
\* it reads a layer that is not there, and what it does is undefined.
HasLayer == Len(Level.layers) > 1

\* The nodes the next token is wired to: the leafs of the last layer.
Leafs == Last(Level.layers).leafs

\* A call of process for what follows some parents.
NewLevel(parents, actions, group) ==
    [layers |-> <<[roots |-> parents, leafs |-> parents]>>,
     initial |-> actions, roots |-> << >>, leafs |-> << >>, group |-> group]

\* What a call of process has, with the branch at hand, to return.
Branch(level) ==
    [roots |-> level.roots \o level.layers[2].leafs,
     leafs |-> level.leafs \o Last(level.layers).leafs]

AddLayer(layer) == levels' = [levels EXCEPT ![Len(levels)].layers = Append(@, layer)]

BuildInit ==
    /\ g = EmptyGraph
    /\ adding = NoRegex
    /\ at = 0 /\ groups = 0
    /\ pending = << >> /\ levels = << >> /\ links = << >> /\ absorbs = << >>

-----------------------------------------------------------------------------
AddRegex(r) ==
    /\ adding = NoRegex
    /\ adding' = r
    /\ at' = 0 /\ groups' = 0 /\ pending' = << >>
    /\ levels' = <<NewLevel(<<Root>>, << >>, 0)>>
    /\ UNCHANGED <<g, links, absorbs>>

\* Every parent gets an edge to a child, with the tags pending.
ConnectAll(h, parents, child) ==
    LET graphs[k \in 0..Len(parents)] ==
            IF k = 0 THEN h
            ELSE Connect(graphs[k - 1], parents[k], child, adding, pending, NoLimit)
    IN  graphs[Len(parents)]

\* The least of some numbers.
Least(S) == CHOOSE x \in S : \A y \in S : x <= y

\* A node the parents lead to already is used again, or one is made.
Extend(reused, sym, members, h) ==
    LET child == IF reused # << >> THEN Head(reused) ELSE Len(h.node) + 1
        made == IF reused # << >> THEN h ELSE AddNode(h, sym, members)
    IN  /\ g' = ConnectAll(made, Leafs, child)
        /\ AddLayer([roots |-> <<child>>, leafs |-> <<child>>])
        /\ pending' = << >>
        /\ at' = at + 1
        /\ UNCHANGED <<adding, groups, links, absorbs>>

\* A character or the wildcard.
Character ==
    /\ Reads("char")
    /\ LET sym == Token.sym
           leading == {i \in DOMAIN Leafs : HasChild(g, Leafs[i], sym)}
           \* the first parent with such an edge decides
           reused == IF leading = {} THEN << >> ELSE <<Child(g, Leafs[Least(leading)], sym)>>
       IN  Extend(reused, sym, {}, g)

\* A class is one node; a parent that leads to the same class leads to it.
Class ==
    /\ Reads("class")
    /\ LET Same(p) ==
               {s \in DOMAIN Out(g, p) :
                   IsClass(s) /\ g.node[Child(g, p, s)].members = Token.members}
           leading == {i \in DOMAIN Leafs : Same(Leafs[i]) # {}}
           first == Leafs[Least(leading)]
           reused == IF leading = {} THEN << >> ELSE <<Child(g, first, Least(Same(first)))>>
       IN  Extend(reused, ClassSym(g.classes + 1), Token.members,
               IF reused = << >> THEN [g EXCEPT !.classes = @ + 1] ELSE g)

OpenGroup ==
    /\ Reads("open")
    /\ pending' = Append(pending, [open |-> TRUE, group |-> groups])
    /\ levels' = Append(levels, NewLevel(Leafs, pending', groups))
    /\ groups' = groups + 1
    /\ at' = at + 1
    /\ UNCHANGED <<g, adding, links, absorbs>>

CloseGroup ==
    /\ Reads("close")
    /\ Len(levels) > 1
    /\ HasLayer
    /\ pending' = Append(pending, [open |-> FALSE, group |-> Level.group])
    /\ levels' = [Outer EXCEPT ![Len(Outer)].layers = Append(@, Branch(Level))]
    /\ at' = at + 1
    /\ UNCHANGED <<g, adding, groups, links, absorbs>>

\* The tags pending go back to those there were when the call of process began:
\* the tags of this branch that no edge took yet are dropped.
Alternate ==
    /\ Reads("or")
    /\ HasLayer
    /\ levels' = [levels EXCEPT ![Len(levels)] =
                     [Level EXCEPT !.roots = Branch(Level).roots,
                                   !.leafs = Branch(Level).leafs,
                                   !.layers = <<Head(@)>>]]
    /\ pending' = Level.initial
    /\ at' = at + 1
    /\ UNCHANGED <<g, adding, groups, links, absorbs>>

\* Mutant of OneLess: the first iteration is counted again.
AsWritten(l) == l

\* The bounds of a quantifier, without the iteration the edges into it make;
\* an upper bound of 0 wraps around.
OneLess(l) ==
    [l EXCEPT !.min = IF @ = 0 THEN 0 ELSE @ - 1,
              !.max = IF @ = Unbounded THEN @ ELSE (@ + MaxSize) % (MaxSize + 1)]

\* processLimit: a repeat that may be skipped has the leafs before it too; one
\* that may go on links its own leafs back to its roots.
Repeat ==
    /\ Reads("repeat")
    /\ HasLayer
    /\ LET layers == Level.layers
           latest == Last(layers)
           before == layers[Len(layers) - 1]
           limit == OneLess([min |-> Token.min, max |-> Token.max, quantifier |-> TRUE])
       IN  /\ g' = [g EXCEPT !.limit = Append(@, limit)]
           /\ levels' = IF Token.min > 0 THEN levels
                        ELSE [levels EXCEPT ![Len(levels)].layers[Len(layers)].leafs =
                                 @ \o before.leafs]
           /\ links' = IF ~MayRepeat(limit) THEN << >>
                       ELSE FlattenSeq([i \in DOMAIN latest.leafs |->
                                [j \in DOMAIN latest.roots |->
                                    [leaf |-> latest.leafs[i],
                                     root |-> latest.roots[j],
                                     limit |-> FreshLimit(g),
                                     absorbed |-> FALSE]]])
    /\ at' = at + 1
    /\ UNCHANGED <<adding, groups, pending, absorbs>>

\* Mutant of Conflict: the root itself is in its own way.
ConflictAny(l) == HasChild(g, l.leaf, SymOf(g, l.root))

\* The leaf at hand leads by the root's symbol to another node: the root has
\* to absorb that node first.
Conflict(l) ==
    LET s == SymOf(g, l.root) IN HasChild(g, l.leaf, s) /\ Child(g, l.leaf, s) # l.root

LinkBack ==
    /\ links # << >>
    /\ absorbs = << >>
    /\ LET l == Head(links)
           s == SymOf(g, l.root)
           free == IF l.absorbed
                   THEN SetEdge(g, l.leaf, s, [EdgeAt(g, l.leaf, s) EXCEPT !.to = l.root])
                   ELSE g
       IN  /\ l.absorbed \/ ~Conflict(l)
           /\ g' = Connect(free, l.leaf, l.root, adding, << >>, l.limit)
    /\ links' = Tail(links)
    /\ UNCHANGED <<adding, at, groups, pending, levels, absorbs>>

StartAbsorb ==
    /\ links # << >>
    /\ absorbs = << >>
    /\ LET l == Head(links)
       IN  /\ ~l.absorbed
           /\ Conflict(l)
           /\ absorbs' = <<[into |-> l.root,
                            from |-> Child(g, l.leaf, SymOf(g, l.root))]>>
    /\ links' = [links EXCEPT ![1].absorbed = TRUE]
    /\ UNCHANGED <<g, adding, at, groups, pending, levels>>

\* Mutant of Cut: the edge stays.
CutNone(h, n, s) == h

\* A node without one of its edges.
Cut(h, n, s) == SetOut(h, n, Without(Out(h, n), s))

\* The regexes of two edges; one on both keeps the limit it has on the first.
Merged(mine, e) ==
    [r \in Ids(mine) \cup Ids(e) |-> IF r \in Ids(mine) THEN mine.paths[r] ELSE e.paths[r]]

\* absorb takes the edges of a node one after the other.  An edge the absorbing
\* node has not it gets; of one it has, it gets the regexes it has not, without
\* their tags, and the child it has absorbs the other.
Absorb ==
    /\ absorbs # << >>
    /\ LET x == Last(absorbs)
           s == Least(DOMAIN Out(g, x.from))
           e == Out(g, x.from)[s]
           cut == Cut(g, x.from, s)
           mine == Out(g, x.into)[s]
           child == Child(g, x.into, SymOf(g, mine.to))
       IN  IF DOMAIN Out(g, x.from) = {}
           THEN absorbs' = Front(absorbs) /\ UNCHANGED g
           ELSE /\ x.into # x.from   \* or else what it does is undefined
                /\ IF HasChild(g, x.into, s)
                   THEN /\ g' = SetEdge(cut, x.into, s, [mine EXCEPT !.paths = Merged(mine, e)])
                        /\ absorbs' = Append(absorbs, [into |-> child, from |-> e.to])
                   ELSE /\ g' = SetEdge(cut, x.into, s, e)
                        /\ UNCHANGED absorbs
    /\ UNCHANGED <<adding, at, groups, pending, levels, links>>

\* The end of the regex: its leafs lead to a node that marks it, or to the one
\* an earlier regex made there.
EndRegex ==
    /\ Reading
    /\ at = Len(tokens)
    /\ Len(levels) = 1   \* or else it reads on past the end of the regex
    /\ HasLayer
    /\ LET made == AddNode(g, Eor, {})
       IN  g' = Uncompiled(ConnectAll(made, Branch(Level).leafs, Len(made.node)))
    /\ adding' = NoRegex
    /\ at' = 0 /\ groups' = 0 /\ pending' = << >> /\ levels' = << >>
    /\ UNCHANGED <<links, absorbs>>

BuildStep ==
    \/ Character \/ Class \/ OpenGroup \/ CloseGroup \/ Alternate \/ Repeat
    \/ LinkBack \/ StartAbsorb \/ Absorb \/ EndRegex
=============================================================================

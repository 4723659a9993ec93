----------------------------- MODULE RegexGraph -----------------------------
(***************************************************************************)
(* The graph of states a RegexMatcher builds, compiles and walks (Node,    *)
(* EdgeInfo and Limits in matcher/core.hpp), and what the three share.     *)
(*                                                                         *)
(* A graph is a record of its nodes, of the repeat limits its edges name   *)
(* and of the number of character classes so far.  Nodes and limits are    *)
(* numbered in the order they were made; node 1 is the root.               *)
(***************************************************************************)
EXTENDS Integers, Sequences, FiniteSets, SequencesExt

CONSTANTS
    Regexes,   \* the uids of the regexes: numbers, as matches are sorted
    Chars,     \* the characters that occur
    MaxSize    \* the greatest size_t

ASSUME RegexesAssumption == Regexes \subseteq Nat
ASSUME CharsAssumption == Chars \subseteq 3..99
ASSUME SizeAssumption == MaxSize \in Nat

VARIABLE g  \* the graph: one for all regexes, which building changes and matching reads

(* Symbols, numbered in the order a node keeps its edges: the end of a     *)
(* regex, the wildcard, epsilon, the characters, and the classes.          *)
Eor == 0
AnySym == 1
NoneSym == 2
ClassSym(i) == 100 + i
IsClass(s) == s > 100

Root == 1
NoNode == 0
NoLimit == 0

\* An upper bound that is not there.
Unbounded == -1

-----------------------------------------------------------------------------
NewEdge(to) ==
    [to |-> to, paths |-> << >>, tags |-> << >>,
     ids |-> {}, limited |-> FALSE, full |-> FALSE, run |-> << >>, runTo |-> NoNode]

\* "paths" and "tags" are functions of the regexes on an edge; the other fields
\* are what compile() derives.
NewNode(sym, members) ==
    [sym |-> sym, members |-> members, out |-> << >>,
     repeats |-> {}, compiled |-> FALSE]

EmptyGraph == [node |-> <<NewNode(NoneSym, {})>>, limit |-> << >>, classes |-> 0]

NodesOf(h) == DOMAIN h.node
Out(h, n) == h.node[n].out
HasChild(h, n, s) == s \in DOMAIN Out(h, n)
Child(h, n, s) == Out(h, n)[s].to
SymOf(h, n) == h.node[n].sym

\* A function with one value added or replaced.
Put(f, x, v) == [y \in DOMAIN f \cup {x} |-> IF y = x THEN v ELSE f[y]]
Without(f, x) == [y \in DOMAIN f \ {x} |-> f[y]]

AddNode(h, sym, members) == [h EXCEPT !.node = Append(@, NewNode(sym, members))]

SetOut(h, n, out) == [h EXCEPT !.node[n].out = out]

SetEdge(h, n, s, e) == SetOut(h, n, Put(Out(h, n), s, e))

\* neighbours[s], which makes the edge when there is none.
EdgeAt(h, n, s) == IF HasChild(h, n, s) THEN Out(h, n)[s] ELSE NewEdge(NoNode)

\* Limits of 1..1 count how often one regex reuses an edge; only those of a
\* written quantifier are a promise about the input.
Reuse == [min |-> 1, max |-> 1, quantifier |-> FALSE]

\* Limits::is_allowed_to_repeat
MayRepeat(l) == l.max = Unbounded \/ (l.max > 0 /\ l.min <= l.max)

\* Limits::operator--
Lowered(l) ==
    [l EXCEPT !.min = IF @ > 0 THEN @ - 1 ELSE @,
              !.max = IF @ > 0 THEN @ - 1 ELSE @]

Raised(l) == [l EXCEPT !.min = @ + 1, !.max = IF @ = Unbounded THEN @ ELSE @ + 1]

\* Mutant of FreshLimit: the limit made first.
FirstLimit(h) == 1

\* The number of the next limit.
FreshLimit(h) == Len(h.limit) + 1

\* Node::connect_with: the edge of node p to child, for a regex.  A regex that
\* is on the edge already is counted there; limits are shared, so counting
\* changes them on every edge that names them.
Connect(h, p, child, r, actions, limit) ==
    LET s == SymOf(h, child)
        e == EdgeAt(h, p, s)
        known == r \in DOMAIN e.paths
        old == e.paths[r]
        fresh == FreshLimit(h)
        counts ==
            /\ limit = NoLimit
            /\ IF known THEN old = NoLimit ELSE HasChild(h, p, s) /\ p = child
        value == IF counts THEN fresh ELSE IF known THEN old ELSE limit
        limits ==
            IF counts THEN Append(h.limit, Reuse)
            ELSE IF known /\ limit = NoLimit
                 THEN [h.limit EXCEPT ![old] = Raised(@)]
                 ELSE h.limit
        tagged == IF r \in DOMAIN e.tags THEN e.tags[r] \o actions ELSE actions
    IN  SetEdge([h EXCEPT !.limit = limits], p, s,
            [e EXCEPT !.to = IF HasChild(h, p, s) THEN @ ELSE child,
                      !.paths = Put(@, r, value),
                      !.tags = IF actions = << >> THEN @ ELSE Put(@, r, tagged)])

-----------------------------------------------------------------------------
(* compile().                                                              *)

Ids(e) == DOMAIN e.paths

\* Whether an edge carries a repeat limit for some regex.
IsLimited(e) == \E r \in Ids(e) : e.paths[r] # NoLimit

\* live_at: the regexes alive at a node are those on its edges.
Alive(h, n) == UNION {Ids(Out(h, n)[s]) : s \in DOMAIN Out(h, n)}

\* The way out of a node that has only one.
OnlySym(h, n) == CHOOSE s \in DOMAIN Out(h, n) : TRUE

\* Mutant of Joins: there may be other ways out.
JoinsMany(h, n, ids) ==
    /\ Out(h, n) # << >>
    /\ LET s == OnlySym(h, n)
       IN  /\ s \in Chars
           /\ ~IsLimited(Out(h, n)[s])
           /\ Out(h, n)[s].tags = << >>

\* Mutant of Joins: there may be tags.
JoinsTagged(h, n, ids) ==
    /\ Cardinality(DOMAIN Out(h, n)) = 1
    /\ \A s \in DOMAIN Out(h, n) :
           s \in Chars /\ ~IsLimited(Out(h, n)[s]) /\ Ids(Out(h, n)[s]) = ids

\* A node joins the run of an edge when nothing can be observed there: one way
\* out, a plain character, with no tag and no limit and for the same regexes.
Joins(h, n, ids) ==
    /\ Cardinality(DOMAIN Out(h, n)) = 1
    /\ \A s \in DOMAIN Out(h, n) :
           /\ s \in Chars
           /\ ~IsLimited(Out(h, n)[s])
           /\ Out(h, n)[s].tags = << >>
           /\ Ids(Out(h, n)[s]) = ids

\* build_run: the nodes an edge passes on its way, the first its own end.
Chain(h, e) ==
    LET nodes[k \in 0..Len(h.node)] ==
            IF k = 0 THEN <<e.to>>
            ELSE LET before == nodes[k - 1]
                 IN  IF Joins(h, Last(before), Ids(e))
                     THEN Append(before, Child(h, Last(before), OnlySym(h, Last(before))))
                     ELSE before
    IN  nodes[Len(h.node)]

\* Mutant of Covers: all that the edge hands on are alive there.
CoversSome(h, e, chain) == Ids(e) \subseteq Alive(h, Last(chain))

\* The edge hands on all the regexes alive where its run ends.
Covers(h, e, chain) == Ids(e) = Alive(h, Last(chain))

\* An edge as compile() leaves it.
CompiledEdge(h, e) ==
    LET chain == Chain(h, e)
        run == [i \in 1..(Len(chain) - 1) |-> OnlySym(h, chain[i])]
    IN  [e EXCEPT !.ids = Ids(e),
                  !.limited = IsLimited(e),
                  !.run = run,
                  !.runTo = IF run = << >> THEN NoNode ELSE Last(chain),
                  !.full = Covers(h, e, chain)]

\* Mutant of Owes: an iteration owed is forgotten.
OwesMore(l) == l.quantifier /\ l.min > 1

\* A repeat that owes iterations, from the bounds as written.
Owes(l) == l.quantifier /\ l.min > 0

\* The repeats that leaving a node could cut short.
Repeats(h, n) ==
    UNION {{<<r, e.paths[r]>> : r \in {q \in Ids(e) :
                e.paths[q] # NoLimit /\ Owes(h.limit[e.paths[q]])}} :
           e \in Range(Out(h, n))}

CompiledNode(h, n) ==
    [h.node[n] EXCEPT
        !.out = [s \in DOMAIN @ |-> CompiledEdge(h, @[s])],
        !.repeats = Repeats(h, n),
        !.compiled = TRUE]

\* compile(), which returns at once when the root is compiled.
Compiled(h) ==
    IF h.node[Root].compiled THEN h
    ELSE [h EXCEPT !.node = [n \in NodesOf(h) |-> CompiledNode(h, n)]]

\* The last thing add_regex does.
Uncompiled(h) ==
    [h EXCEPT !.node = [n \in NodesOf(h) |-> [@[n] EXCEPT !.compiled = FALSE]]]

\* EdgeInfo::run_end
RunEnd(e) == IF e.run = << >> THEN e.to ELSE e.runTo
=============================================================================

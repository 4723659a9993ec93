----------------------------- MODULE RouteTable -----------------------------
(***************************************************************************)
(* The build of a route table (build_table and TrieBuilder in              *)
(* route/table.hpp): the routes are parsed and checked, split into those   *)
(* an exact-match table answers and those a trie does, sorted, and laid    *)
(* out in flat arrays.  The recursion of TrieBuilder::build is a stack of  *)
(* frames; "groups" is the one stack all of its calls share.               *)
(*                                                                         *)
(* Indices of nodes, edges and entries start at 1.  Hashes are arbitrary   *)
(* functions, so that every pattern of collisions is built.                *)
(***************************************************************************)
EXTENDS Integers, RouteTries

CONSTANTS
    MethodSlots,  \* kMethodSlots: methods are 0..MethodSlots-1
    LinearEdges,  \* kLinearEdges: more literal edges than this are hashed
    TableLimit,   \* kNone as a number: the arrays must stay shorter
    Malformed,    \* a pattern parse_pattern refuses
    SpecLists,    \* the lists of routes built
    EdgeHashes,   \* the hash functions of edge texts
    PathHashes    \* the hash functions of a method and a whole path

ASSUME TableAssumption ==
    /\ MethodSlots \in Nat \ {0}
    /\ LinearEdges \in Nat
    /\ TableLimit \in Nat

\* Of a route's pattern, either parse_pattern refuses it or it is one.  A route
\* whose value is kNone could not be told from none.
ASSUME SpecsAssumption ==
    \A list \in SpecLists :
        /\ Len(list) \in Nat /\ DOMAIN list = 1..Len(list)
        /\ \A i \in 1..Len(list) :
               /\ list[i].method \in Nat /\ list[i].route # None
               /\ list[i].pattern = Malformed \/ IsPattern(list[i].pattern)

\* The paths the routes are tried on tell apart the patterns of a list that
\* differ in more than names.
ASSUME PathsAssumption ==
    \A list \in SpecLists, hash \in PathHashes :
        \A p, q \in {list[i].pattern : i \in DOMAIN list} \ {Malformed} :
            (\A path \in {x[2] : x \in DOMAIN hash} : Matches(p, path) <=> Matches(q, path)) =>
                Keys(p) = Keys(q)

\* The path a pattern without parameters matches.
PathOf(p) == [i \in 1..Len(p) |-> p[i].text]

\* Hashes are numbers, of all texts, and of all paths asked for or put in.
ASSUME HashesAssumption ==
    /\ \A hash \in EdgeHashes : \A t \in Texts \cup {Empty} : hash[t] \in Nat
    /\ \A hash \in PathHashes :
           /\ DOMAIN hash \subseteq Nat \X Seq(Texts \cup {Empty})
           /\ \A x \in DOMAIN hash : hash[x] \in Nat
    /\ \A list \in SpecLists, hash \in PathHashes : \A i \in DOMAIN list :
           /\ list[i].method < MethodSlots
           /\ list[i].pattern # Malformed /\ IsLiteral(list[i].pattern)
           => <<list[i].method, PathOf(list[i].pattern)>> \in DOMAIN hash

ASSUME NoneAssumption == None \notin Nat

VARIABLES
    specs, edgeHash, pathHash,  \* what is built, and the hashes: never changed
    pc,         \* "parse", "literals", "tries" or "done"
    entries,    \* the routes parsed so far
    literal,    \* the entries the exact-match table answers, then those left
    order,      \* the entries the tries answer, sorted
    slots,      \* the exact-match slots
    nodes,      \* the nodes of all tries
    edges,      \* the edge slots of all nodes
    roots,      \* by method
    frames,     \* the calls of TrieBuilder::build under way
    groups,     \* their literal groups, one run of the stack per call
    lo,         \* the first entry of order whose trie is not built
    error,      \* the kind of error, and the routes it names
    where       \* a ghost: the call that every node was built by

vars == <<specs, edgeHash, pathHash, pc, entries, literal, order, slots, nodes,
          edges, roots, frames, groups, lo, error, where>>

Methods == 0..(MethodSlots - 1)

Pow2AtLeast(n) ==
    LET doubled[p \in 1..(2 * n + 1)] == IF p < n THEN doubled[2 * p] ELSE p
    IN  doubled[1]

\* Mutants of SlotsFor: room for every entry and no more; an off-by-one.
SlotsTight(n) == Pow2AtLeast(n)
SlotsShort(n) == Pow2AtLeast(n - 1)

\* The slots of an open-addressing array for n entries: at most half are taken.
SlotsFor(n) == Pow2AtLeast(2 * n)

NoEdge == [text |-> Empty, child |-> None]

NoSlot == [method |-> 0, path |-> << >>, route |-> None]

NoError == [kind |-> "none", route |-> 0, other |-> 0]

\* Mutant of Fail: names the route after.
FailAfter(kind, route, other) ==
    /\ error' = [kind |-> kind, route |-> route + 1, other |-> other]
    /\ pc' = "done"

\* The build ends with an error that names one or two routes.
Fail(kind, route, other) ==
    /\ error' = [kind |-> kind, route |-> route, other |-> other]
    /\ pc' = "done"

-----------------------------------------------------------------------------
(* Parsing and splitting.                                                  *)

\* The methods that have a route, and those some route of which has a
\* parameter.
MethodsSeen == {entries[i].method : i \in DOMAIN entries}

ParamMethods ==
    {entries[i].method : i \in {j \in DOMAIN entries : ~IsLiteral(entries[j].pattern)}}

\* Build::less, but for the last resort, the place among the routes: the order
\* by method, then segment by segment, a route that ends before another first.
Before(a, b) ==
    LET p == a.pattern
        q == b.pattern
        Same(n) == \A i \in 1..n : SameSeg(p[i], q[i])
    IN  \/ a.method < b.method
        \/ /\ a.method = b.method
           /\ \/ \E i \in 1..Len(p) :
                     i <= Len(q) /\ Same(i - 1) /\ SegBefore(p[i], q[i])
              \/ Len(p) < Len(q) /\ Same(Len(p))

Less(x, y) ==
    \/ Before(entries[x], entries[y])
    \/ ~Before(entries[y], entries[x]) /\ entries[x].spec < entries[y].spec

\* Mutant of SamePaths: tells parameters of different names apart.
SameText(x, y) ==
    entries[x].method = entries[y].method /\ entries[x].pattern = entries[y].pattern

\* Build::same_paths
SamePaths(x, y) ==
    LET a == entries[x]
        b == entries[y]
    IN  /\ a.method = b.method
        /\ Len(a.pattern) = Len(b.pattern)
        /\ \A i \in 1..Len(a.pattern) : SameSeg(a.pattern[i], b.pattern[i])

\* Mutant of Exact: each route by itself.
ExactAlone(i) == IsLiteral(entries[i].pattern)

\* The entries of the exact-match table: routes of a method with no parameter
\* anywhere.
Exact(i) == entries[i].method \notin ParamMethods

\* The members of a set in an order: each has its place by how many precede it.
\* T is S, bound so that TLC computes it once.
InOrder(S, Precedes(_, _)) ==
    CHOOSE f \in {[k \in 1..Cardinality(T) |->
                       CHOOSE x \in T : Cardinality({y \in T : Precedes(y, x)}) = k - 1] :
                  T \in {S}} : TRUE

Sorted(S) == InOrder(S, Less)

\* The places in a sorted list of the routes that repeat the one before.
Repeats(list) == {i \in 2..Len(list) : SamePaths(list[i - 1], list[i])}

ParseSpec ==
    /\ pc = "parse"
    /\ Len(entries) < Len(specs)
    /\ LET i == Len(entries) + 1
           s == specs[i]
       IN  \/ /\ s.method >= MethodSlots
              /\ Fail("method", i, 0)
              /\ UNCHANGED entries
           \/ /\ s.method < MethodSlots
              /\ s.pattern = Malformed
              /\ Fail("pattern", i, 0)
              /\ UNCHANGED entries
           \/ /\ s.method < MethodSlots
              /\ s.pattern # Malformed
              /\ entries' = Append(entries,
                     [method |-> s.method, pattern |-> s.pattern,
                      route |-> s.route, spec |-> i])
              /\ UNCHANGED <<pc, error>>
    /\ UNCHANGED <<specs, edgeHash, pathHash, literal, order, slots, nodes, edges,
                   roots, frames, groups, lo, where>>

\* Splits the routes, sorts both lists and looks for repeated routes, the exact
\* ones first; without any, makes room for the exact-match slots.
Split ==
    /\ pc = "parse"
    /\ Len(entries) = Len(specs)
    /\ LET exact == Sorted({i \in DOMAIN entries : Exact(i)})
           other == Sorted({i \in DOMAIN entries : ~Exact(i)})
           repeating == IF Repeats(exact) # {} THEN exact ELSE other
           i == CHOOSE j \in Repeats(repeating) : \A k \in Repeats(repeating) : j <= k
       IN  /\ literal' = exact
           /\ order' = other
           /\ IF Repeats(repeating) # {}
              THEN /\ Fail("duplicate", entries[repeating[i]].spec,
                           entries[repeating[i - 1]].spec)
                   /\ UNCHANGED slots
              ELSE /\ pc' = "literals"
                   /\ slots' = IF exact = << >> THEN << >>
                               ELSE [k \in 1..SlotsFor(Len(exact)) |-> NoSlot]
                   /\ UNCHANGED error
    /\ UNCHANGED <<specs, edgeHash, pathHash, entries, nodes, edges, roots, frames,
                   groups, lo, where>>

-----------------------------------------------------------------------------
(* Open addressing: the slot j places after a hash's own, in an array of   *)
(* `size` slots, a power of two, that starts after `first`.                *)

Slot(first, size, hash, j) == first + 1 + ((hash + j) % size)

\* The places a probe passes before it meets an empty slot; none when there is
\* none, and then the probe never ends.
Steps(size, IsFree(_)) ==
    {j \in 0..(size - 1) : IsFree(j) /\ \A k \in 0..(j - 1) : ~IsFree(k)}

\* Puts one exact route into the first empty slot from its hash's own.
InsertLiteral ==
    /\ pc = "literals"
    /\ literal # << >>
    /\ LET e == entries[Head(literal)]
           path == PathOf(e.pattern)
           At(j) == Slot(0, Len(slots), pathHash[e.method, path], j)
       IN  \E j \in Steps(Len(slots), LAMBDA k : slots[At(k)].route = None) :
               slots' = [slots EXCEPT ![At(j)] =
                            [method |-> e.method, path |-> path, route |-> e.route]]
    /\ literal' = Tail(literal)
    /\ UNCHANGED <<specs, edgeHash, pathHash, pc, entries, order, nodes, edges, roots,
                   frames, groups, lo, error, where>>

LiteralsDone ==
    /\ pc = "literals"
    /\ literal = << >>
    /\ pc' = "tries"
    /\ UNCHANGED <<specs, edgeHash, pathHash, entries, literal, order, slots, nodes,
                   edges, roots, frames, groups, lo, error, where>>

-----------------------------------------------------------------------------
(* TrieBuilder::build.                                                     *)

Pattern(i) == entries[order[i]].pattern

\* The first place from l on, before h, where a condition holds, or h.
FirstFrom(l, h, Cond(_)) ==
    CHOOSE i \in l..h :
        (i = h \/ Cond(i)) /\ \A j \in l..(i - 1) : ~Cond(j)

\* The runs of the entries [l, h) that share their segment at a depth.
Runs(l, h, depth) ==
    LET Seg(i) == Pattern(i)[depth + 1]
        starts == {i \in l..(h - 1) : i = l \/ ~SameSeg(Seg(i - 1), Seg(i))}
    IN  {[kind |-> Seg(i).kind,
          from |-> i,
          to |-> FirstFrom(i + 1, h, LAMBDA j : j \in starts)] : i \in starts}

\* Where the entries of [l, h) that end at a depth stop: they are sorted first.
Longer(l, h, depth) == FirstFrom(l, h, LAMBDA i : Len(Pattern(i)) # depth)

ByPlace(runs) == InOrder(runs, LAMBDA a, b : a.from < b.from)

LiteralRuns(l, h, depth) ==
    ByPlace({r \in Runs(Longer(l, h, depth), h, depth) : r.kind = "literal"})

OtherRuns(l, h, depth) ==
    ByPlace({r \in Runs(Longer(l, h, depth), h, depth) : r.kind # "literal"})

NoKids == [k \in {"u64", "i64", "param", "rest"} |-> None]

NewNode == Len(nodes) + 1

\* A call of build for the entries [l, h) of a method, which share their first
\* `depth` segments: it adds its node and the room for its edges and pushes its
\* literal groups.
Enter(callers, m, l, h, depth) ==
    LET rest == Longer(l, h, depth)
        lits == LiteralRuns(l, h, depth)
        others == OtherRuns(l, h, depth)
        hashed == Len(lits) > LinearEdges
        size == IF hashed THEN SlotsFor(Len(lits)) ELSE Len(lits)
    IN  /\ nodes' = Append(nodes,
               [edges |-> Len(edges), count |-> size, hashed |-> hashed,
                branches |-> Len(others) + (IF lits = << >> THEN 0 ELSE 1),
                route |-> IF rest > l THEN entries[order[rest - 1]].route ELSE None,
                kids |-> NoKids])
        /\ edges' = edges \o [k \in 1..size |-> NoEdge]
        /\ groups' = groups \o lits
        /\ where' = Append(where, [method |-> m, lo |-> l, hi |-> h, depth |-> depth])
        /\ frames' = Append(callers,
               [method |-> m, lo |-> l, hi |-> h, depth |-> depth,
                self |-> NewNode, base |-> Len(groups), count |-> Len(lits),
                others |-> others, next |-> 1, kids |-> NoKids])

Top == frames[Len(frames)]

Callers == SubSeq(frames, 1, Len(frames) - 1)

\* The run the call's next child is built from.
NextRun(f) ==
    IF f.next <= f.count THEN groups[f.base + f.next] ELSE f.others[f.next - f.count]

\* Starts the trie of the next method that has routes left.
StartTrie ==
    /\ pc = "tries"
    /\ frames = << >>
    /\ lo <= Len(order)
    /\ LET m == entries[order[lo]].method
           hi == FirstFrom(lo, Len(order) + 1, LAMBDA i : entries[order[i]].method # m)
       IN  Enter(<< >>, m, lo, hi, 0) /\ lo' = hi
    /\ UNCHANGED <<specs, edgeHash, pathHash, pc, entries, literal, order, slots, roots,
                   error>>

BuildChild ==
    /\ frames # << >>
    /\ Top.next <= Top.count + Len(Top.others)
    /\ Enter(frames, Top.method, NextRun(Top).from, NextRun(Top).to, Top.depth + 1)
    /\ UNCHANGED <<specs, edgeHash, pathHash, pc, entries, literal, order, slots, roots,
                   lo, error>>

\* Mutant of EdgePlaces: takes its hash's own slot, free or not.
OwnPlace(f, text) ==
    LET n == nodes[f.self]
    IN  {IF n.hashed THEN Slot(n.edges, n.count, edgeHash[text], 0) ELSE n.edges + f.next}

\* The places the edge of a call's next literal child may take: its own, or in
\* a hashed node the first empty one from its hash's own.
EdgePlaces(f, text) ==
    LET n == nodes[f.self]
        At(j) == Slot(n.edges, n.count, edgeHash[text], j)
    IN  IF n.hashed
        THEN {At(j) : j \in Steps(n.count, LAMBDA k : edges[At(k)].child = None)}
        ELSE {n.edges + f.next}

\* Mutant of Popped: drops the groups of every call.
PoppedAll(f) == << >>

\* The groups left when a call has built its literal children.
Popped(f) == SubSeq(groups, 1, f.base)

\* What the caller f does with the node its child returned.
Deliver(f, child) ==
    IF f.next <= f.count
    THEN LET text == Pattern(NextRun(f).from)[f.depth + 1].text
         IN  /\ \E place \in EdgePlaces(f, text) :
                    edges' = [edges EXCEPT ![place] = [text |-> text, child |-> child]]
             /\ groups' = IF f.next = f.count THEN Popped(f) ELSE groups
             /\ frames' = [Callers EXCEPT ![Len(Callers)].next = @ + 1]
    ELSE /\ frames' = [Callers EXCEPT ![Len(Callers)] =
                          [f EXCEPT !.next = @ + 1, !.kids[NextRun(f).kind] = child]]
         /\ UNCHANGED <<edges, groups>>

\* A call whose children are all built records those that are not literal and
\* returns its node.
Return ==
    /\ frames # << >>
    /\ Top.next > Top.count + Len(Top.others)
    /\ nodes' = [nodes EXCEPT ![Top.self].kids = Top.kids]
    /\ IF Callers = << >>
       THEN /\ roots' = [roots EXCEPT ![Top.method] = Top.self]
            /\ frames' = << >>
            /\ UNCHANGED <<edges, groups>>
       ELSE /\ Deliver(Callers[Len(Callers)], Top.self)
            /\ UNCHANGED roots
    /\ UNCHANGED <<specs, edgeHash, pathHash, pc, entries, literal, order, slots, lo,
                   error, where>>

\* The last check of build_table.  The arena of labels, checked there too, is
\* not modelled.
Finish ==
    /\ pc = "tries"
    /\ frames = << >>
    /\ lo > Len(order)
    /\ IF Len(nodes) >= TableLimit \/ Len(edges) >= TableLimit
       THEN Fail("size", 0, 0)
       ELSE pc' = "done" /\ UNCHANGED error
    /\ UNCHANGED <<specs, edgeHash, pathHash, entries, literal, order, slots, nodes,
                   edges, roots, frames, groups, lo, where>>

Init ==
    /\ specs \in SpecLists
    /\ edgeHash \in EdgeHashes
    /\ pathHash \in PathHashes
    /\ pc = "parse"
    /\ entries = << >> /\ literal = << >> /\ order = << >>
    /\ slots = << >> /\ nodes = << >> /\ edges = << >>
    /\ roots = [m \in Methods |-> None]
    /\ frames = << >> /\ groups = << >> /\ lo = 1
    /\ error = NoError
    /\ where = << >>

Next ==
    \/ ParseSpec \/ Split \/ InsertLiteral \/ LiteralsDone
    \/ StartTrie \/ BuildChild \/ Return \/ Finish

Spec == Init /\ [][Next]_vars /\ WF_vars(Next)

-----------------------------------------------------------------------------
(* What a lookup reads of the arrays (route/lookup.hpp).                   *)

\* find_literal: the method's routes are in the exact-match table or they are
\* not, and the probe of a path ends at its slot or at an empty one.
FindLiteral(m, path) ==
    LET At(j) == Slot(0, Len(slots), pathHash[m, path], j)
        Stops(j) ==
            \/ slots[At(j)].route = None
            \/ slots[At(j)].method = m /\ slots[At(j)].path = path
    IN  IF slots = << >> \/ m \notin MethodsSeen \ ParamMethods THEN None
        ELSE LET j == CHOOSE k \in Steps(Len(slots), Stops) : TRUE
             IN  slots[At(j)].route

\* find_edge: the child under a literal text, found in order or by probing.
FindEdge(n, text) ==
    LET At(j) == Slot(n.edges, n.count, edgeHash[text], j)
        Stops(j) == edges[At(j)].child = None \/ edges[At(j)].text = text
        hits == {i \in 1..n.count : edges[n.edges + i].text = text}
    IN  IF n.hashed
        THEN LET j == CHOOSE k \in Steps(n.count, Stops) : TRUE
             IN  edges[At(j)].child
        ELSE IF hits = {} THEN None
             ELSE edges[n.edges + (CHOOSE i \in hits : \A k \in hits : i <= k)].child

NodeView(n) ==
    LET texts == {t \in Texts \cup {Empty} : FindEdge(n, t) # None}
    IN  [lit |-> [t \in texts |-> FindEdge(n, t)],
         u64 |-> n.kids.u64, i64 |-> n.kids.i64, param |-> n.kids.param,
         rest |-> n.kids.rest,
         branches |-> n.branches, route |-> n.route]

\* The segments spelled on the way to a node: its entries all begin with them.
Prefix(id) == Keys(SubSeq(Pattern(where[id].lo), 1, where[id].depth))

\* The trie of a method as a walk sees it.
TrieOf(m) ==
    LET ids == {id \in DOMAIN nodes : where[id].method = m}
    IN  [root |-> roots[m],
         node |-> [id \in ids |-> NodeView(nodes[id])],
         pre |-> [id \in ids |-> Prefix(id)]]

-----------------------------------------------------------------------------
(* Properties.                                                             *)

Done == pc = "done"

Built == Done /\ error.kind = "none"

\* The routes of a method, by what their patterns match.
RoutesFor(m) ==
    LET mine == {i \in DOMAIN specs : specs[i].method = m}
    IN  [p \in {Keys(specs[i].pattern) : i \in mine} |->
            specs[CHOOSE i \in mine : Keys(specs[i].pattern) = p].route]

\* A finished table answers for exactly the routes it was given, whatever the
\* order they came in and however their hashes collide: a method's routes are
\* all in its trie, which is well formed, or, none of them having a parameter,
\* all in the exact-match table, where their path finds them and no other path
\* finds anything.
TableComplete ==
    Built =>
        \A m \in Methods :
            LET rs == RoutesFor(m)
                exact == m \in MethodsSeen \ ParamMethods
            IN  /\ roots[m] = None <=> exact \/ DOMAIN rs = {}
                /\ roots[m] # None =>
                       /\ TrieOK(TrieOf(m))
                       /\ RoutesOf(TrieOf(m)) = rs
                /\ LET literals == IF exact THEN DOMAIN rs ELSE {}
                   IN  \A path \in {p \in DOMAIN pathHash : p[1] = m} :
                           FindLiteral(m, path[2]) =
                               IF \E p \in literals : Matches(p, path[2])
                               THEN rs[CHOOSE p \in literals : Matches(p, path[2])]
                               ELSE None

\* docs/route-semantics.md, rule 7: two routes of one method that match the same
\* paths are rejected, and named; no other routes are.  The comparison of
\* neighbours in the sorted lists finds every such pair.
SamePathsMatched(i, j) ==
    /\ specs[i].method = specs[j].method
    /\ \A path \in {p[2] : p \in DOMAIN pathHash} :
           Matches(specs[i].pattern, path) <=> Matches(specs[j].pattern, path)

DuplicatesRejected ==
    Done /\ error.kind \in {"none", "duplicate"} =>
        IF error.kind = "duplicate"
        THEN error.route # error.other /\ SamePathsMatched(error.route, error.other)
        ELSE \A i, j \in DOMAIN specs : SamePathsMatched(i, j) => i = j

\* An error about one route names the first route that is wrong, and a table is
\* built only when none is.
FirstErrorNamed ==
    LET bad == {i \in DOMAIN specs :
                   specs[i].method >= MethodSlots \/ specs[i].pattern = Malformed}
    IN  Done =>
            IF error.kind \in {"method", "pattern"}
            THEN error.route \in bad /\ \A i \in bad : error.route <= i
            ELSE bad = {}

\* A probe always ends: in the exact-match table and in every hashed node, an
\* empty slot is left at every moment of the build.
ProbesEnd ==
    /\ slots # << >> => \E i \in DOMAIN slots : slots[i].route = None
    /\ \A id \in DOMAIN nodes :
           LET n == nodes[id]
           IN  n.hashed => \E i \in 1..n.count : edges[n.edges + i].child = None

\* The calls under way share one stack of groups, and each still finds its own
\* there after its children have pushed and popped theirs.
GroupsKept ==
    \A i \in DOMAIN frames :
        LET f == frames[i]
            mine == LiteralRuns(f.lo, f.hi, f.depth)
        IN  /\ f.count = Len(mine)
            /\ f.next <= f.count =>
                   /\ Len(groups) >= f.base + f.count
                   /\ SubSeq(groups, f.base + 1, f.base + f.count) = mine
            /\ i = Len(frames) =>
                   Len(groups) = f.base + (IF f.next <= f.count THEN f.count ELSE 0)

\* A slot once taken is never taken again: the edges of a node are reserved
\* before its children append theirs, and a child's edges never fall in them.
SlotsTakenOnce ==
    [][/\ \A i \in DOMAIN edges : edges[i].child # None => edges'[i] = edges[i]
       /\ \A i \in DOMAIN slots : slots[i].route # None => slots'[i] = slots[i]]_vars

\* Every build comes to an end.
Terminates == <>Done
=============================================================================

----------------------------- MODULE RouteWalk -----------------------------
(***************************************************************************)
(* The trie walk of one lookup (detail::walk in route/lookup.hpp): a depth *)
(* first search that tries the kinds of child in order of precedence and   *)
(* keeps a stack of the choices it may have to come back to.               *)
(*                                                                         *)
(* The trie and the path are the walk's arguments: chosen in Init, never   *)
(* changed.                                                                *)
(***************************************************************************)
EXTENDS RouteTries

CONSTANTS
    Pending,\* no answer yet
    Stale,  \* a capture the array holds from before the walk
    Roots,  \* the tries of the tables looked up in: one for each root
    TrieAt, \* the trie under each root
    Paths   \* the paths looked up

ASSUME TriesAssumption == \A r \in Roots : TrieOK(TrieAt[r])

ASSUME PathsAssumption ==
    \A p \in Paths : p \in Seq(Texts \cup {Empty}) /\ IsPath(p)

VARIABLES
    root,    \* the root of the method's trie
    path,    \* the request's path
    node,    \* the node at hand
    pos,     \* segments of the path already consumed
    stage,   \* the first kind of child still to be tried at node
    stack,   \* the choices to come back to
    nv,      \* captures taken on the way to node
    values,  \* the captures; shared by all branches, never undone
    pc,      \* "walking" or "returned"
    result   \* the route returned and the number of its captures

vars == <<root, path, node, pos, stage, stack, nv, values, pc, result>>

-----------------------------------------------------------------------------
trie == TrieAt[root]

Init ==
    /\ root \in Roots
    /\ path \in Paths
    /\ node = trie.root
    /\ pos = 0
    /\ stage = 0
    /\ stack = << >>
    /\ nv = 0
    /\ values = [k \in 1..MaxParams |-> Stale]
    /\ pc = "walking"
    /\ result = [route |-> None, count |-> 0]

Here == trie.node[node]

AtEnd == pos = Len(path)

\* The segment at hand: the text up to the next slash.
Seg == path[pos + 1]

\* Mutants of Choice: comes back to the kind of child just left; forgets the
\* captures taken so far.
ChoiceTriedAgain(s) == [node |-> node, pos |-> pos, n |-> nv, stage |-> s - 1]
ChoiceForgets(s) == [node |-> node, pos |-> pos, n |-> 0, stage |-> s]

Choice(s) == [node |-> node, pos |-> pos, n |-> nv, stage |-> s]

\* Mutant of Top: the first choice left behind, not the last.
Oldest == stack[1]

Top == stack[Len(stack)]

\* Mutant of Below: the choice taken up stays on the stack.
Unpopped == stack

Below == SubSeq(stack, 1, Len(stack) - 1)

\* Mutant of OtherKinds: two kinds of child taken for one.
ManyKinds == Here.branches > 2

\* The node has another kind of child than the one being entered.
OtherKinds == Here.branches > 1

\* The conditions under which each kind of child is entered, each tried only
\* when the ones before it are not.
Ends == AtEnd /\ stage = 0 /\ Here.route # None

ToLiteral == ~AtEnd /\ stage = 0 /\ Seg \in DOMAIN Here.lit

TakesParam == ~AtEnd /\ Seg # Empty /\ nv < MaxParams

\* Mutant of ToU64: not tried after a literal child failed.
ToU64Once == TakesParam /\ stage = 0 /\ Here.u64 # None /\ Seg \in U64Texts

ToU64 == TakesParam /\ stage <= 1 /\ Here.u64 # None /\ Seg \in U64Texts

ToI64 == TakesParam /\ stage <= 2 /\ Here.i64 # None /\ Seg \in I64Texts

ToParam == TakesParam /\ stage <= 3 /\ Here.param # None

ToRest ==
    /\ ~AtEnd
    /\ Here.rest # None
    /\ nv < MaxParams
    /\ ~NothingFrom(path, pos + 1)

Nothing == ~(Ends \/ ToLiteral \/ ToU64 \/ ToI64 \/ ToParam \/ ToRest)

-----------------------------------------------------------------------------
Return(route, count) ==
    /\ pc' = "returned"
    /\ result' = [route |-> route, count |-> count]
    /\ UNCHANGED <<root, path, node, pos, stage, stack, nv>>

\* Goes down to a child, leaving a choice behind only when another kind of
\* child could still be tried.
Descend(child, again, nextStage) ==
    /\ node' = child
    /\ pos' = pos + 1
    /\ stage' = 0
    /\ stack' = IF again THEN Append(stack, Choice(nextStage)) ELSE stack
    /\ UNCHANGED <<root, path, pc, result>>

\* Mutant of Capture: writes over the capture before.
CaptureOverwrites(view) ==
    /\ values' = [values EXCEPT ![IF nv = 0 THEN 1 ELSE nv] = view]
    /\ nv' = nv + 1

Capture(view) ==
    /\ values' = [values EXCEPT ![nv + 1] = view]
    /\ nv' = nv + 1

Walking == pc = "walking"

Finish ==
    /\ Walking
    /\ Ends
    /\ Return(Here.route, nv)
    /\ UNCHANGED values

Literal ==
    /\ Walking
    /\ ToLiteral
    /\ Descend(Here.lit[Seg], OtherKinds, 1)
    /\ UNCHANGED <<nv, values>>

U64 ==
    /\ Walking
    /\ ~ToLiteral
    /\ ToU64
    /\ Descend(Here.u64, OtherKinds, 2)
    /\ Capture(<<pos + 1, pos + 1>>)

I64 ==
    /\ Walking
    /\ ~(ToLiteral \/ ToU64)
    /\ ToI64
    /\ Descend(Here.i64, OtherKinds, 3)
    /\ Capture(<<pos + 1, pos + 1>>)

Param ==
    /\ Walking
    /\ ~(ToLiteral \/ ToU64 \/ ToI64)
    /\ ToParam
    /\ Descend(Here.param, Here.rest # None, 4)
    /\ Capture(<<pos + 1, pos + 1>>)

Rest ==
    /\ Walking
    /\ ~(ToLiteral \/ ToU64 \/ ToI64 \/ ToParam)
    /\ ToRest
    /\ values' = [values EXCEPT ![nv + 1] = <<pos + 1, Len(path)>>]
    /\ Return(trie.node[Here.rest].route, nv + 1)

Backtrack ==
    /\ Walking
    /\ Nothing
    /\ stack # << >>
    /\ node' = Top.node
    /\ pos' = Top.pos
    /\ nv' = Top.n
    /\ stage' = Top.stage
    /\ stack' = Below
    /\ UNCHANGED <<root, path, values, pc, result>>

Fail ==
    /\ Walking
    /\ Nothing
    /\ stack = << >>
    /\ Return(None, 0)
    /\ UNCHANGED values

-----------------------------------------------------------------------------
Next == Finish \/ Literal \/ U64 \/ I64 \/ Param \/ Rest \/ Backtrack \/ Fail

Spec == Init /\ [][Next]_vars /\ WF_vars(Next)

-----------------------------------------------------------------------------
(* Properties.                                                             *)

\* The routes under each root.
RoutesAt == [r \in Roots |-> RoutesOf(TrieAt[r])]

Captured1to(n) == SubSeq(values, 1, n)

ChoiceSet ==
    [node : Nodes(trie), pos : 0..Len(path), n : 0..MaxParams, stage : 1..4]

Views == (1..Len(path)) \X (1..Len(path))

RouteValues == {None} \cup {trie.node[id].route : id \in Nodes(trie)}

\* Types, with what the arrays of walk have room for: a stack of one choice
\* more than a pattern has segments, and kMaxParams captures.
TypeOK ==
    /\ root \in Roots
    /\ path \in Paths
    /\ node \in Nodes(trie)
    /\ pos \in 0..Len(path)
    /\ stage \in 0..4
    /\ stack \in Seq(ChoiceSet)
    /\ nv \in 0..MaxParams
    /\ values \in [1..MaxParams -> {Stale} \cup Views]
    /\ pc \in {"walking", "returned"}
    /\ result \in [route : RouteValues, count : 0..MaxParams]

\* The stack of walk is an uninitialised array of kMaxSegments + 1 choices
\* pushed to without a bound check: there is at most one pending choice for
\* each segment consumed, however the walk backtracked.
StackBound == Len(stack) <= pos /\ pos <= MaxSegments

\* The walk stands where its trie says it does: every choice, and the node at
\* hand, was reached by exactly the segments consumed, with one capture for
\* each parameter on the way.  Hence the tests nv < kMaxParams of walk never
\* turn a match away.
Aligned ==
    /\ pos = Len(trie.pre[node])
    /\ nv = NumParams(trie.pre[node])
    /\ \A i \in 1..Len(stack) :
           /\ stack[i].pos = Len(trie.pre[stack[i].node])
           /\ stack[i].n = NumParams(trie.pre[stack[i].node])

\* Every pending choice lies on the way from the root to the node at hand, in
\* the order it was left, so that a walk comes back to the nearest one first
\* and never to one it has come back from.
ChoicesOnPath ==
    /\ \A i \in 1..Len(stack) :
           /\ stack[i].pos < pos
           /\ \A k \in 1..stack[i].pos :
                  trie.pre[stack[i].node][k] = trie.pre[node][k]
    /\ \A i, j \in 1..Len(stack) : i < j => stack[i].pos < stack[j].pos

\* No branch overwrites what a choice has yet to come back to: the captures
\* array is shared by all branches and never undone, and still its first n
\* entries are those of every pending choice with n captures, and of the node
\* at hand.
CapturesKept ==
    /\ Captured1to(nv) = Captures(trie.pre[node], path)
    /\ \A i \in 1..Len(stack) :
           Captured1to(stack[i].n) = Captures(trie.pre[stack[i].node], path)

\* The patterns still to be tried from a node at a stage.
Ahead(id, s) ==
    LET pre == trie.pre[id]
        n == Len(pre)
    IN  {p \in DOMAIN RoutesAt[root] :
            /\ n <= Len(p)
            /\ SubSeq(p, 1, n) = pre
            /\ s > 0 => n < Len(p) /\ Rank[p[n + 1].kind] >= s}

Matching == {p \in DOMAIN RoutesAt[root] : Matches(p, path)}

\* Pruning loses nothing: walk pushes no choice when a node has one kind of
\* child, or, leaving for a plain parameter, when it has no catch-all, and
\* still every pattern that matches stays reachable from the node at hand or
\* from a pending choice.
NothingLost ==
    Walking =>
        \A p \in Matching :
            \/ p \in Ahead(node, stage)
            \/ \E i \in 1..Len(stack) : p \in Ahead(stack[i].node, stack[i].stage)

\* Every walk returns.
Returns == <>(pc = "returned")

\* The walk implements a lookup: it returns the most specific of the method's
\* routes that match the path (docs/route-semantics.md, rule 5) and exactly
\* that route's captures, or no route when none matches.
Semantics ==
    INSTANCE RouteSemantics WITH
        routes <- RoutesAt[root],
        answer <- IF Walking THEN Pending
                  ELSE [route |-> result.route, captures |-> Captured1to(result.count)]

ImplementsSemantics == Semantics!Spec
=============================================================================

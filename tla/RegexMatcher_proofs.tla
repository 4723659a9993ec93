------------------------- MODULE RegexMatcher_proofs -------------------------
(***************************************************************************)
(* Proofs about a RegexMatcher, for any regexes, any texts and any order   *)
(* of calls.  A regex need not be well formed; what is shown of one that   *)
(* is not goes up to where the code would read what is not there.          *)
(***************************************************************************)
EXTENDS RegexMatcher, Numbers_proofs, FiniteSetTheorems, SequenceTheorems, TLAPS

-----------------------------------------------------------------------------
(* Functions of some regexes, symbols or limits.                           *)

\* The functions from a part of D to V.
Partial(D, V) == UNION {[S -> V] : S \in SUBSET D}

\* Nothing is a function of no regexes.
LEMMA EmptyPartial ==
    ASSUME NEW D, NEW V
    PROVE  << >> \in Partial(D, V) /\ DOMAIN << >> = {}
<1>1. << >> \in Seq(V) /\ Len(<< >>) = 0
  BY EmptySeq
<1>2. << >> \in [1..0 -> V]
  BY <1>1, LenProperties
<1>3. 1..0 = {}
  OBVIOUS
<1>4. << >> \in [{} -> V]
  BY ONLY <1>2, <1>3
<1> QED
  BY <1>4 DEF Partial

\* A partial function is defined on a part of D, with values of V.
LEMMA PartialIs ==
    ASSUME NEW D, NEW V, NEW f \in Partial(D, V)
    PROVE  /\ DOMAIN f \in SUBSET D
           /\ f \in [DOMAIN f -> V]
           /\ \A x \in DOMAIN f : f[x] \in V
<1>1. PICK S \in SUBSET D : f \in [S -> V]
  BY DEF Partial
<1> QED
  BY <1>1

\* A function on a part of D with values of V is one of the partial functions.
LEMMA IsPartial ==
    ASSUME NEW D, NEW V, NEW S \in SUBSET D, NEW f \in [S -> V]
    PROVE  f \in Partial(D, V)
BY DEF Partial

\* Put keeps a function partial.
LEMMA PutIs ==
    ASSUME NEW D, NEW V, NEW f \in Partial(D, V), NEW x \in D, NEW v \in V
    PROVE  Put(f, x, v) \in Partial(D, V)
<1>1. DOMAIN f \in SUBSET D /\ \A y \in DOMAIN f : f[y] \in V
  BY PartialIs
<1>2. Put(f, x, v) \in [DOMAIN f \cup {x} -> V]
  BY <1>1 DEF Put
<1>3. DOMAIN f \cup {x} \in SUBSET D
  BY <1>1
<1> QED
  BY ONLY <1>2, <1>3, IsPartial

\* So does Without.
LEMMA WithoutIs ==
    ASSUME NEW D, NEW V, NEW f \in Partial(D, V), NEW x
    PROVE  Without(f, x) \in Partial(D, V)
<1>1. DOMAIN f \in SUBSET D /\ \A y \in DOMAIN f : f[y] \in V
  BY PartialIs
<1>2. Without(f, x) \in [DOMAIN f \ {x} -> V]
  BY <1>1 DEF Without
<1>3. DOMAIN f \ {x} \in SUBSET D
  BY <1>1
<1> QED
  BY ONLY <1>2, <1>3, IsPartial

-----------------------------------------------------------------------------
(* Graphs.                                                                 *)

\* The tags an edge has for a regex.
TagSet == [open : BOOLEAN, group : Nat]

\* Limits, edges, nodes and graphs, before anything is said of how they fit.
LimitSet == [min : Nat, max : Int, quantifier : BOOLEAN]

EdgeSet ==
    [to : Nat, paths : Partial(Regexes, Nat), tags : Partial(Regexes, Seq(TagSet)),
     ids : SUBSET Regexes, limited : BOOLEAN, full : BOOLEAN, run : Seq(Nat), runTo : Nat]

NodeSet ==
    [sym : Nat, members : SUBSET Chars, out : Partial(Nat, EdgeSet),
     repeats : SUBSET (Regexes \X Nat), compiled : BOOLEAN]

GraphSet == [node : Seq(NodeSet), limit : Seq(LimitSet), classes : Nat]

\* The parts of a graph.
LEMMA GraphParts ==
    ASSUME NEW h \in GraphSet
    PROVE  /\ h.node \in Seq(NodeSet) /\ h.limit \in Seq(LimitSet) /\ h.classes \in Nat
           /\ Len(h.node) \in Nat /\ Len(h.limit) \in Nat
           /\ NodesOf(h) = 1..Len(h.node)
           /\ \A n \in NodesOf(h) :
                  /\ h.node[n] \in NodeSet
                  /\ Out(h, n) \in Partial(Nat, EdgeSet)
                  /\ SymOf(h, n) \in Nat
                  /\ DOMAIN Out(h, n) \in SUBSET Nat
                  /\ \A s \in DOMAIN Out(h, n) : Out(h, n)[s] \in EdgeSet
<1>1. h.node \in Seq(NodeSet) /\ h.limit \in Seq(LimitSet) /\ h.classes \in Nat
  BY DEF GraphSet
<1>2. Len(h.node) \in Nat /\ Len(h.limit) \in Nat /\ DOMAIN h.node = 1..Len(h.node)
  BY <1>1, LenProperties
<1>3. ASSUME NEW n \in NodesOf(h)
      PROVE  /\ h.node[n] \in NodeSet
             /\ Out(h, n) \in Partial(Nat, EdgeSet)
             /\ SymOf(h, n) \in Nat
             /\ DOMAIN Out(h, n) \in SUBSET Nat
             /\ \A s \in DOMAIN Out(h, n) : Out(h, n)[s] \in EdgeSet
  <2>1. h.node[n] \in NodeSet
    BY <1>1, <1>2 DEF NodesOf
  <2>2. Out(h, n) \in Partial(Nat, EdgeSet) /\ SymOf(h, n) \in Nat
    BY <2>1 DEF Out, SymOf, NodeSet
  <2> QED
    BY <2>1, <2>2, PartialIs
<1> QED
  BY <1>1, <1>2, <1>3 DEF NodesOf

\* The parts of an edge.
LEMMA EdgeParts ==
    ASSUME NEW e \in EdgeSet
    PROVE  /\ e.to \in Nat /\ e.ids \in SUBSET Regexes /\ e.run \in Seq(Nat)
           /\ e.limited \in BOOLEAN /\ e.full \in BOOLEAN /\ e.runTo \in Nat
           /\ e.paths \in Partial(Regexes, Nat)
           /\ Ids(e) = DOMAIN e.paths /\ Ids(e) \in SUBSET Regexes
           /\ \A r \in Ids(e) : e.paths[r] \in Nat
           /\ e.tags \in Partial(Regexes, Seq(TagSet))
           /\ DOMAIN e.tags \in SUBSET Regexes
           /\ \A r \in DOMAIN e.tags : e.tags[r] \in Seq(TagSet)
<1>1. /\ e.to \in Nat /\ e.ids \in SUBSET Regexes /\ e.run \in Seq(Nat)
      /\ e.limited \in BOOLEAN /\ e.full \in BOOLEAN /\ e.runTo \in Nat
      /\ e.paths \in Partial(Regexes, Nat)
      /\ e.tags \in Partial(Regexes, Seq(TagSet))
  BY DEF EdgeSet
<1> QED
  BY <1>1, PartialIs DEF Ids

\* The edges of a node replaced.
LEMMA SetOutIs ==
    ASSUME NEW h \in GraphSet, NEW n \in NodesOf(h), NEW out \in Partial(Nat, EdgeSet)
    PROVE  /\ SetOut(h, n, out) \in GraphSet
           /\ NodesOf(SetOut(h, n, out)) = NodesOf(h)
           /\ SetOut(h, n, out).limit = h.limit
           /\ Len(SetOut(h, n, out).node) = Len(h.node)
           /\ \A m \in NodesOf(h) :
                  /\ Out(SetOut(h, n, out), m) = IF m = n THEN out ELSE Out(h, m)
                  /\ SymOf(SetOut(h, n, out), m) = SymOf(h, m)
<1> DEFINE k == [h EXCEPT !.node[n].out = out]
           node == [h.node EXCEPT ![n] = [h.node[n] EXCEPT !.out = out]]
<1>1. /\ h.node \in Seq(NodeSet) /\ h.node[n] \in NodeSet /\ NodesOf(h) = 1..Len(h.node)
      /\ DOMAIN h.node = 1..Len(h.node)
  BY GraphParts DEF NodesOf
<1>2. [h.node[n] EXCEPT !.out = out] \in NodeSet
  BY <1>1 DEF NodeSet
<1>3. node \in Seq(NodeSet) /\ Len(node) = Len(h.node) /\ DOMAIN node = 1..Len(h.node)
  BY <1>1, <1>2, ExceptSeq, LenProperties
<1>4. k = [h EXCEPT !.node = node]
  BY DEF GraphSet
<1>5. k.node = node /\ k.limit = h.limit /\ k.classes = h.classes
  BY <1>4 DEF GraphSet
<1>6. k \in GraphSet
  <2> HIDE DEF node
  <2> QED
    BY <1>3, <1>4 DEF GraphSet
<1>7. ASSUME NEW m \in NodesOf(h)
      PROVE  k.node[m].out = (IF m = n THEN out ELSE h.node[m].out)
             /\ k.node[m].sym = h.node[m].sym
  <2>1. h.node[m] \in NodeSet
    BY GraphParts
  <2> QED
    BY <1>1, <1>5, <2>1 DEF NodeSet
<1> HIDE DEF node
<1> QED
  BY <1>1, <1>3, <1>5, <1>6, <1>7 DEF SetOut, NodesOf, Out, SymOf

\* The limits replaced.
LEMMA SetLimitIs ==
    ASSUME NEW h \in GraphSet, NEW limit \in Seq(LimitSet)
    PROVE  /\ [h EXCEPT !.limit = limit] \in GraphSet
           /\ [h EXCEPT !.limit = limit].limit = limit
           /\ [h EXCEPT !.limit = limit].node = h.node
BY DEF GraphSet

\* The graph empty has one node, with no edges.
LEMMA NewNodeIs ==
    ASSUME NEW sym \in Nat, NEW members \in SUBSET Chars
    PROVE  NewNode(sym, members) \in NodeSet
BY EmptyPartial DEF NewNode, NodeSet

\* A node more.
LEMMA AddNodeIs ==
    ASSUME NEW h \in GraphSet, NEW sym \in Nat, NEW members \in SUBSET Chars
    PROVE  LET k == AddNode(h, sym, members)
           IN  /\ k \in GraphSet
               /\ NodesOf(k) = NodesOf(h) \cup {Len(h.node) + 1}
               /\ Len(k.node) = Len(h.node) + 1
               /\ k.limit = h.limit
               /\ \A m \in NodesOf(h) :
                      Out(k, m) = Out(h, m) /\ SymOf(k, m) = SymOf(h, m)
               /\ Out(k, Len(h.node) + 1) = << >>
               /\ SymOf(k, Len(h.node) + 1) = sym
<1> DEFINE k == AddNode(h, sym, members)
           new == NewNode(sym, members)
           last == Len(h.node) + 1
<1>1. h.node \in Seq(NodeSet) /\ Len(h.node) \in Nat /\ NodesOf(h) = 1..Len(h.node)
  BY GraphParts
<1>2. new \in NodeSet
  BY NewNodeIs
<1>3. k \in GraphSet /\ k.node = Append(h.node, new) /\ k.limit = h.limit
  BY <1>1, <1>2, AppendProperties DEF AddNode, GraphSet
<1>4. /\ Len(k.node) = last
      /\ \A m \in 1..Len(h.node) : k.node[m] = h.node[m]
      /\ k.node[last] = new
  <2> HIDE DEF new, k
  <2> QED
    BY <1>1, <1>2, <1>3, AppendProperties
<1>5. NodesOf(k) = 1..Len(k.node)
  BY <1>3, GraphParts
<1>6. NodesOf(k) = NodesOf(h) \cup {last}
  <2> HIDE DEF k
  <2> QED
    BY <1>1, <1>4, <1>5
<1>7. new.out = << >> /\ new.sym = sym
  BY DEF NewNode
<1> HIDE DEF k, new
<1>8. \A m \in NodesOf(h) : Out(k, m) = Out(h, m) /\ SymOf(k, m) = SymOf(h, m)
  BY <1>1, <1>4 DEF Out, SymOf
<1>9. Out(k, last) = << >> /\ SymOf(k, last) = sym
  BY <1>4, <1>7 DEF Out, SymOf
<1> QED
  BY <1>3, <1>4, <1>6, <1>8, <1>9 DEF k

\* k is h with edge e for symbol s at node n.
Placed(h, k, n, s, e) ==
    /\ k \in GraphSet
    /\ NodesOf(k) = NodesOf(h)
    /\ Len(k.node) = Len(h.node)
    /\ k.limit = h.limit
    /\ \A m \in NodesOf(h) :
           /\ SymOf(k, m) = SymOf(h, m)
           /\ m # n => Out(k, m) = Out(h, m)
    /\ DOMAIN Out(k, n) = DOMAIN Out(h, n) \cup {s}
    /\ Out(k, n)[s] = e
    /\ \A t \in DOMAIN Out(h, n) : t # s => Out(k, n)[t] = Out(h, n)[t]

\* An edge put at a node.
LEMMA SetEdgeIs ==
    ASSUME NEW h \in GraphSet, NEW n \in NodesOf(h), NEW s \in Nat, NEW e \in EdgeSet
    PROVE  Placed(h, SetEdge(h, n, s, e), n, s, e)
<1> DEFINE before == Out(h, n)
           out == Put(before, s, e)
<1>1. before \in Partial(Nat, EdgeSet)
  BY GraphParts
<1> HIDE DEF before
<1> HIDE DEF out
<1>2. out \in Partial(Nat, EdgeSet)
  BY <1>1, PutIs DEF out
<1>3. /\ DOMAIN out = DOMAIN before \cup {s}
      /\ out[s] = e
      /\ \A t \in DOMAIN before : t # s => out[t] = before[t]
  BY DEF out, Put
<1>4. SetEdge(h, n, s, e) = SetOut(h, n, out)
  BY DEF SetEdge, out, before
<1> QED
  BY <1>2, <1>3, <1>4, SetOutIs DEF before, Placed

\* The edge there is for a symbol, or a new one to nowhere.
LEMMA EdgeAtIs ==
    ASSUME NEW h \in GraphSet, NEW n \in NodesOf(h), NEW s
    PROVE  /\ EdgeAt(h, n, s) \in EdgeSet
           /\ HasChild(h, n, s) => EdgeAt(h, n, s) = Out(h, n)[s]
           /\ ~HasChild(h, n, s) =>
                  /\ Ids(EdgeAt(h, n, s)) = {}
                  /\ DOMAIN EdgeAt(h, n, s).tags = {}
                  /\ EdgeAt(h, n, s).run = << >>
                  /\ EdgeAt(h, n, s).ids = {}
<1>1. CASE HasChild(h, n, s)
  BY <1>1, GraphParts DEF EdgeAt, HasChild
<1>2. CASE ~HasChild(h, n, s)
  <2>1. EdgeAt(h, n, s) = NewEdge(NoNode)
    BY <1>2 DEF EdgeAt
  <2>2. << >> \in Partial(Regexes, Nat) /\ << >> \in Partial(Regexes, Seq(TagSet))
        /\ DOMAIN << >> = {}
    BY EmptyPartial
  <2>3. << >> \in Seq(Nat)
    BY EmptySeq
  <2>4. NewEdge(NoNode) \in EdgeSet
    BY <2>2, <2>3 DEF NewEdge, EdgeSet, NoNode
  <2> QED
    BY <1>2, <2>1, <2>2, <2>4 DEF NewEdge, Ids
<1> QED
  BY <1>1, <1>2

-----------------------------------------------------------------------------
(* What holds of the graph, whatever is added to it.                       *)

\* An edge for symbol s, of a graph the regexes R were added to: it leads to a
\* node of its symbol, for some of R, with limits that exist; its run ends at a
\* node, and no group opens at the end of a regex.
EdgeOK(h, R, s, e) ==
    /\ e.to \in NodesOf(h)
    /\ SymOf(h, e.to) = s
    /\ Ids(e) \subseteq R
    /\ e.ids \subseteq R
    /\ DOMAIN e.tags \subseteq Ids(e)
    /\ \A r \in Ids(e) : e.paths[r] \in 0..Len(h.limit)
    /\ e.run # << >> => e.runTo \in NodesOf(h)
    /\ s = Eor => \A r \in DOMAIN e.tags : \A i \in DOMAIN e.tags[r] : ~e.tags[r][i].open

\* All the edges of a graph are.
GraphOK(h, R) ==
    /\ h \in GraphSet
    /\ Root \in NodesOf(h)
    /\ \A n \in NodesOf(h) :
           /\ IsFiniteSet(DOMAIN Out(h, n))
           /\ \A s \in DOMAIN Out(h, n) : EdgeOK(h, R, s, Out(h, n)[s])

\* Some edge has limit l for regex r.
Names(h, r, l) ==
    \E n \in NodesOf(h) : \E s \in DOMAIN Out(h, n) :
        r \in Ids(Out(h, n)[s]) /\ Out(h, n)[s].paths[r] = l

\* A limit is one regex's.
Owned(h) ==
    \A q, r \in Regexes, l \in Nat : Names(h, q, l) /\ Names(h, r, l) /\ l # NoLimit => q = r

\* Nothing goes away: k has the nodes and the limits of h.
Keeps(h, k) ==
    /\ NodesOf(h) \subseteq NodesOf(k)
    /\ \A n \in NodesOf(h) : SymOf(k, n) = SymOf(h, n)
    /\ Len(h.limit) <= Len(k.limit)

\* Only regex r is on edges it was not on, by the limits of h.
Grown(h, k, r) ==
    /\ Keeps(h, k)
    /\ \A q \in Regexes, l \in 1..Len(h.limit) : Names(k, q, l) => Names(h, q, l) \/ q = r

\* A graph that grows twice has grown.
LEMMA GrownTwice ==
    ASSUME NEW h \in GraphSet, NEW k \in GraphSet, NEW m \in GraphSet, NEW r,
           Grown(h, k, r), Grown(k, m, r)
    PROVE  Grown(h, m, r)
<1>1. Len(h.limit) \in Nat /\ Len(k.limit) \in Nat /\ Len(m.limit) \in Nat
  BY GraphParts
<1>2. Keeps(h, m)
  BY <1>1 DEF Grown, Keeps
<1>3. ASSUME NEW q \in Regexes, NEW l \in 1..Len(h.limit), Names(m, q, l)
      PROVE  Names(h, q, l) \/ q = r
  <2>1. l \in 1..Len(k.limit)
    BY <1>1 DEF Grown, Keeps
  <2> QED
    BY <1>3, <2>1 DEF Grown
<1> QED
  BY <1>2, <1>3 DEF Grown

\* A graph that stays has grown.
LEMMA GrownNot ==
    ASSUME NEW h \in GraphSet, NEW r
    PROVE  Grown(h, h, r)
<1>1. Len(h.limit) \in Nat
  BY GraphParts
<1> QED
  BY <1>1 DEF Grown, Keeps

\* An edge stays in order while nothing goes away.
LEMMA EdgeKept ==
    ASSUME NEW h \in GraphSet, NEW k \in GraphSet, Keeps(h, k), NEW R, NEW s,
           NEW e, EdgeOK(h, R, s, e)
    PROVE  EdgeOK(k, R, s, e)
<1>1. Len(h.limit) \in Nat /\ Len(k.limit) \in Nat /\ Len(h.limit) <= Len(k.limit)
  BY GraphParts DEF Keeps
<1>2. \A r \in Ids(e) : e.paths[r] \in 0..Len(k.limit)
  BY <1>1 DEF EdgeOK
<1>3. e.to \in NodesOf(k) /\ SymOf(k, e.to) = s
  BY DEF EdgeOK, Keeps
<1>4. e.run # << >> => e.runTo \in NodesOf(k)
  BY DEF EdgeOK, Keeps
<1> QED
  BY <1>2, <1>3, <1>4 DEF EdgeOK

\* More regexes added leave a graph in order.
LEMMA GraphOKFor ==
    ASSUME NEW h, NEW R, NEW S, R \subseteq S, GraphOK(h, R)
    PROVE  GraphOK(h, S)
BY DEF GraphOK, EdgeOK

\* The limits replaced, with none gone.
LEMMA LimitsSet ==
    ASSUME NEW R, NEW h, GraphOK(h, R),
           NEW limit \in Seq(LimitSet), Len(h.limit) <= Len(limit)
    PROVE  LET k == [h EXCEPT !.limit = limit]
           IN  /\ GraphOK(k, R)
               /\ k.limit = limit
               /\ Keeps(h, k)
               /\ NodesOf(k) = NodesOf(h)
               /\ Len(k.node) = Len(h.node)
               /\ \A n : Out(k, n) = Out(h, n) /\ SymOf(k, n) = SymOf(h, n)
               /\ \A q, l : Names(k, q, l) <=> Names(h, q, l)
<1> DEFINE k == [h EXCEPT !.limit = limit]
<1>1. h \in GraphSet
  BY DEF GraphOK
<1>2. k \in GraphSet /\ k.limit = limit /\ k.node = h.node
  BY <1>1, SetLimitIs
<1> HIDE DEF k
<1>3. NodesOf(k) = NodesOf(h) /\ \A n : Out(k, n) = Out(h, n) /\ SymOf(k, n) = SymOf(h, n)
  BY <1>2 DEF NodesOf, Out, SymOf
<1>4. Keeps(h, k)
  BY <1>2, <1>3 DEF Keeps
<1>5. \A n \in NodesOf(h) : \A s \in DOMAIN Out(h, n) : EdgeOK(k, R, s, Out(h, n)[s])
  BY <1>1, <1>2, <1>4, EdgeKept DEF GraphOK
<1>6. GraphOK(k, R)
  BY <1>2, <1>3, <1>5 DEF GraphOK
<1>7. \A q, l : Names(k, q, l) <=> Names(h, q, l)
  BY <1>3 DEF Names
<1> QED
  BY <1>2, <1>3, <1>4, <1>6, <1>7 DEF k

\* k is h with an edge e more, which names nothing but what it says.
EdgeAdded(h, k, R, e) ==
    /\ GraphOK(k, R)
    /\ Keeps(h, k)
    /\ NodesOf(k) = NodesOf(h)
    /\ Len(k.node) = Len(h.node)
    /\ k.limit = h.limit
    /\ \A q, l : Names(k, q, l) => Names(h, q, l) \/ (q \in Ids(e) /\ e.paths[q] = l)

\* An edge in order put at a node.
LEMMA EdgePut ==
    ASSUME NEW R, NEW h, GraphOK(h, R), NEW n \in NodesOf(h), NEW s \in Nat,
           NEW e \in EdgeSet, EdgeOK(h, R, s, e)
    PROVE  EdgeAdded(h, SetEdge(h, n, s, e), R, e)
<1> DEFINE k == SetEdge(h, n, s, e)
<1>1. h \in GraphSet
  BY DEF GraphOK
<1>2. /\ k \in GraphSet
      /\ NodesOf(k) = NodesOf(h)
      /\ Len(k.node) = Len(h.node)
      /\ k.limit = h.limit
      /\ \A m \in NodesOf(h) : SymOf(k, m) = SymOf(h, m)
      /\ \A m \in NodesOf(h) : m # n => Out(k, m) = Out(h, m)
      /\ DOMAIN Out(k, n) = DOMAIN Out(h, n) \cup {s}
      /\ Out(k, n)[s] = e
      /\ \A t \in DOMAIN Out(h, n) : t # s => Out(k, n)[t] = Out(h, n)[t]
  <2>1. Placed(h, k, n, s, e)
    BY <1>1, SetEdgeIs
  <2> HIDE DEF k
  <2> QED
    BY <2>1 DEF Placed
<1> HIDE DEF k
<1>3. Keeps(h, k)
  <2>1. Len(h.limit) \in Nat
    BY <1>1, GraphParts
  <2> QED
    BY <1>2, <2>1 DEF Keeps
<1>4. EdgeOK(k, R, s, e)
  BY <1>1, <1>2, <1>3, EdgeKept
<1>5. ASSUME NEW m \in NodesOf(h)
      PROVE  /\ IsFiniteSet(DOMAIN Out(k, m))
             /\ \A t \in DOMAIN Out(k, m) : EdgeOK(k, R, t, Out(k, m)[t])
  <2>1. /\ IsFiniteSet(DOMAIN Out(h, m))
        /\ \A t \in DOMAIN Out(h, m) : EdgeOK(k, R, t, Out(h, m)[t])
    BY <1>1, <1>2, <1>3, EdgeKept DEF GraphOK
  <2>2. CASE m # n
    BY <1>2, <2>1, <2>2
  <2>3. CASE m = n
    <3>1. IsFiniteSet(DOMAIN Out(h, n) \cup {s})
      BY <2>1, <2>3, FS_AddElement
    <3>2. ASSUME NEW t \in DOMAIN Out(k, n)
          PROVE  EdgeOK(k, R, t, Out(k, n)[t])
      BY <1>2, <1>4, <2>1, <2>3
    <3> QED
      BY <1>2, <2>3, <3>1, <3>2
  <2> QED
    BY <2>2, <2>3
<1>6. GraphOK(k, R)
  BY <1>2, <1>5 DEF GraphOK
<1>7. ASSUME NEW q, NEW l, Names(k, q, l)
      PROVE  Names(h, q, l) \/ (q \in Ids(e) /\ e.paths[q] = l)
  <2>1. PICK m \in NodesOf(h) : \E t \in DOMAIN Out(k, m) :
            q \in Ids(Out(k, m)[t]) /\ Out(k, m)[t].paths[q] = l
    BY <1>2, <1>7 DEF Names
  <2>2. PICK t \in DOMAIN Out(k, m) :
            q \in Ids(Out(k, m)[t]) /\ Out(k, m)[t].paths[q] = l
    BY <2>1
  <2>3. CASE m = n /\ t = s
    BY <1>2, <2>2, <2>3
  <2>4. CASE ~(m = n /\ t = s)
    <3>1. t \in DOMAIN Out(h, m) /\ Out(k, m)[t] = Out(h, m)[t]
      BY <1>2, <2>4
    <3> QED
      BY <2>2, <3>1 DEF Names
  <2> QED
    BY <2>3, <2>4
<1> QED
  BY <1>2, <1>3, <1>6, <1>7 DEF k, EdgeAdded

\* A limit raised is a limit.
LEMMA RaisedIs ==
    ASSUME NEW l \in LimitSet
    PROVE  Raised(l) \in LimitSet
<1>1. l.min + 1 \in Nat /\ l.max \in Int /\ l.max + 1 \in Int
  BY DEF LimitSet
<1> QED
  BY <1>1 DEF Raised, LimitSet

\* The limits that edges name exist.
LEMMA NamedIs ==
    ASSUME NEW R, NEW h, GraphOK(h, R), NEW q, NEW l, Names(h, q, l)
    PROVE  q \in R /\ l \in 0..Len(h.limit)
BY DEF GraphOK, EdgeOK, Names

\* The limits no regex names but r.
OwnLimits(h, r) ==
    {l \in 1..Len(h.limit) : \A q \in Regexes : Names(h, q, l) => q = r}

\* No tag of these opens a group.
NoneOpens(tags) == \A i \in DOMAIN tags : ~tags[i].open

\* Node::connect_with adds a regex to an edge, by a limit that is no other
\* regex's.
LEMMA ConnectGrows ==
    ASSUME NEW R \in SUBSET Regexes, NEW h, GraphOK(h, R), Owned(h),
           NEW p \in NodesOf(h), NEW child \in NodesOf(h), NEW r \in R,
           NEW actions \in Seq(TagSet), NEW limit \in OwnLimits(h, r) \cup {NoLimit},
           SymOf(h, child) = Eor => NoneOpens(actions)
    PROVE  LET k == Connect(h, p, child, r, actions, limit)
           IN  GraphOK(k, R) /\ Owned(k) /\ Grown(h, k, r) /\ NodesOf(k) = NodesOf(h)
<1> DEFINE s == SymOf(h, child)
           e == EdgeAt(h, p, s)
           known == r \in DOMAIN e.paths
           old == e.paths[r]
           fresh == FreshLimit(h)
           counts ==
               /\ limit = NoLimit
               /\ IF known THEN old = NoLimit ELSE HasChild(h, p, s) /\ p = child
           value == IF counts THEN fresh ELSE IF known THEN old ELSE limit
           limits ==
               IF counts THEN Append(h.limit, Reuse)
               ELSE IF known /\ limit = NoLimit
                    THEN [h.limit EXCEPT ![old] = Raised(@)]
                    ELSE h.limit
           tagged == IF r \in DOMAIN e.tags THEN e.tags[r] \o actions ELSE actions
           to == IF HasChild(h, p, s) THEN e.to ELSE child
           paths == Put(e.paths, r, value)
           tags == IF actions = << >> THEN e.tags ELSE Put(e.tags, r, tagged)
           edge == [e EXCEPT !.to = to, !.paths = paths, !.tags = tags]
           h1 == [h EXCEPT !.limit = limits]
           k == SetEdge(h1, p, s, edge)
<1>0. /\ limit \in 0..Len(h.limit)
      /\ limit # NoLimit => \A q \in Regexes : Names(h, q, limit) => q = r
      /\ SymOf(h, child) = Eor => \A i \in DOMAIN actions : ~actions[i].open
  <2>1. Len(h.limit) \in Nat
    BY GraphParts DEF GraphOK
  <2> QED
    BY <2>1 DEF OwnLimits, NoLimit, NoneOpens
<1> USE <1>0
<1>1. Connect(h, p, child, r, actions, limit) = k
  BY DEF Connect
<1>2. /\ h \in GraphSet /\ h.limit \in Seq(LimitSet) /\ Len(h.limit) \in Nat
      /\ s \in Nat /\ r \in Regexes /\ child \in Nat
  <2>1. h \in GraphSet
    BY DEF GraphOK
  <2>2. NodesOf(h) \in SUBSET Nat
    BY <2>1, GraphParts
  <2> QED
    BY <2>1, <2>2, GraphParts
<1>3. e \in EdgeSet
  BY <1>2, EdgeAtIs
<1>5. HasChild(h, p, s) => EdgeOK(h, R, s, e) /\ \A q \in Ids(e) : Names(h, q, e.paths[q])
  <2>1. HasChild(h, p, s) => e = Out(h, p)[s] /\ s \in DOMAIN Out(h, p)
    BY <1>2, EdgeAtIs DEF HasChild
  <2> HIDE DEF e, s
  <2> QED
    BY <2>1 DEF GraphOK, Names
<1>6. ~HasChild(h, p, s) => /\ Ids(e) = {} /\ DOMAIN e.tags = {} /\ e.run = << >> /\ e.ids = {}
  BY <1>2, EdgeAtIs
<1>7. known <=> r \in Ids(e)
  BY DEF Ids
<1>8. fresh = Len(h.limit) + 1
  BY DEF FreshLimit
<1>9. Ids(e) = DOMAIN e.paths
  BY DEF Ids
<1>10. k = SetEdge(h1, p, s, edge)
  OBVIOUS
<1> HIDE DEF s, e, fresh, k
<1>11. known => old \in 0..Len(h.limit) /\ Names(h, r, old)
  BY <1>5, <1>6, <1>7 DEF EdgeOK
<1>12. /\ limits \in Seq(LimitSet)
       /\ Len(h.limit) <= Len(limits)
       /\ counts => Len(limits) = fresh
  <2>1. CASE counts
    <3>1. Reuse \in LimitSet
      BY DEF Reuse, LimitSet
    <3> QED
      BY <1>2, <1>8, <2>1, <3>1, AppendProperties
  <2>2. CASE ~counts /\ known /\ limit = NoLimit
    <3>1. old \in 1..Len(h.limit)
      BY <1>2, <1>11, <2>2 DEF NoLimit
    <3>2. h.limit[old] \in LimitSet
      BY <1>2, <3>1
    <3>3. Raised(h.limit[old]) \in LimitSet
      BY <3>2, RaisedIs
    <3>4. limits = [h.limit EXCEPT ![old] = Raised(h.limit[old])]
      BY <2>2
    <3> HIDE DEF old, limits
    <3> QED
      BY <1>2, <2>2, <3>1, <3>3, <3>4, ExceptSeq
  <2>3. CASE ~counts /\ ~(known /\ limit = NoLimit)
    BY <1>2, <2>3
  <2> QED
    BY <2>1, <2>2, <2>3
<1>13. value \in 0..Len(limits)
  <2>1. Len(limits) \in Nat
    BY <1>12, LenProperties
  <2>2. CASE counts
    BY <1>2, <1>8, <1>12, <2>1, <2>2
  <2>3. CASE ~counts /\ known
    <3>1. value = old
      BY <2>3
    <3> HIDE DEF old, value, limits, counts
    <3> QED
      BY <1>2, <1>11, <1>12, <2>1, <2>3, <3>1
  <2>4. CASE ~counts /\ ~known
    <3>1. value = limit
      BY <2>4
    <3> HIDE DEF value, limits, counts
    <3> QED
      BY <1>2, <1>12, <2>1, <2>4, <3>1
  <2> QED
    BY <2>2, <2>3, <2>4
<1>14. value # NoLimit => \A q \in Regexes : Names(h, q, value) => q = r
  <2>1. CASE counts
    <3>1. value = Len(h.limit) + 1
      BY <1>8, <2>1
    <3> HIDE DEF value
    <3> QED
      BY <1>2, <3>1, NamedIs
  <2>2. CASE ~counts /\ known
    <3>1. value = old
      BY <2>2
    <3>2. old \in Nat
      BY <1>2, <1>11, <2>2
    <3> HIDE DEF value, old
    <3> QED
      BY <1>2, <1>11, <2>2, <3>1, <3>2 DEF Owned
  <2>3. CASE ~counts /\ ~known
    <3>1. value = limit
      BY <2>3
    <3> HIDE DEF value
    <3> QED
      BY <3>1
  <2> QED
    BY <2>1, <2>2, <2>3
<1> HIDE DEF value, limits, known, old, counts
<1>15. value \in Nat
  BY <1>12, <1>13, LenProperties
<1>16. /\ GraphOK(h1, R) /\ h1.limit = limits /\ Keeps(h, h1)
       /\ NodesOf(h1) = NodesOf(h)
       /\ \A n : SymOf(h1, n) = SymOf(h, n)
       /\ \A q, l : Names(h1, q, l) <=> Names(h, q, l)
  BY <1>12, LimitsSet
<1> HIDE DEF h1
<1>17. /\ e.paths \in Partial(Regexes, Nat) /\ e.tags \in Partial(Regexes, Seq(TagSet))
       /\ e.to \in Nat
       /\ \A q \in DOMAIN e.tags : e.tags[q] \in Seq(TagSet)
  BY <1>3, EdgeParts
<1>18. tagged \in Seq(TagSet)
  <2>1. CASE r \in DOMAIN e.tags
    BY <1>17, <2>1, ConcatProperties
  <2>2. CASE r \notin DOMAIN e.tags
    BY <2>2
  <2> QED
    BY <2>1, <2>2
<1>19. /\ paths \in Partial(Regexes, Nat)
       /\ DOMAIN paths = Ids(e) \cup {r}
       /\ paths[r] = value
       /\ \A q \in Ids(e) : q # r => paths[q] = e.paths[q]
  <2>1. paths \in Partial(Regexes, Nat)
    BY <1>2, <1>15, <1>17, PutIs
  <2> QED
    BY <1>9, <2>1 DEF Put
<1>20. /\ tags \in Partial(Regexes, Seq(TagSet))
       /\ DOMAIN tags \subseteq DOMAIN e.tags \cup {r}
       /\ \A q \in DOMAIN tags : q # r => tags[q] = e.tags[q]
       /\ r \in DOMAIN tags => tags[r] = IF actions = << >> THEN e.tags[r] ELSE tagged
  <2> HIDE DEF tagged
  <2>1. tags \in Partial(Regexes, Seq(TagSet))
    BY <1>2, <1>17, <1>18, PutIs
  <2> QED
    BY <2>1 DEF Put
<1>21. ASSUME s = Eor
       PROVE  \A q \in DOMAIN tags : \A i \in DOMAIN tags[q] : ~tags[q][i].open
  <2>1. \A q \in DOMAIN e.tags : \A i \in DOMAIN e.tags[q] : ~e.tags[q][i].open
    BY <1>5, <1>6, <1>21 DEF EdgeOK
  <2>2. \A i \in DOMAIN actions : ~actions[i].open
    BY <1>21 DEF s
  <2>3. \A i \in DOMAIN tagged : ~tagged[i].open
    <3>1. CASE r \in DOMAIN e.tags
      <4>1. e.tags[r] \in Seq(TagSet)
        BY <1>17, <3>1
      <4>2. tagged = e.tags[r] \o actions
        BY <3>1
      <4> DEFINE own == e.tags[r]
      <4>3. \A i \in DOMAIN own : ~own[i].open
        BY <2>1, <3>1
      <4>4. own \in Seq(TagSet)
        BY <4>1
      <4> HIDE DEF own
      <4>5. \A i \in DOMAIN (own \o actions) : ~(own \o actions)[i].open
        BY ONLY <2>2, <4>3, <4>4, actions \in Seq(TagSet), ConcatProperties, LenProperties
      <4> QED
        BY <4>2, <4>5 DEF own
    <3>2. CASE r \notin DOMAIN e.tags
      BY <2>2, <3>2
    <3> QED
      BY <3>1, <3>2
  <2>4. ASSUME NEW q \in DOMAIN tags
        PROVE  \A i \in DOMAIN tags[q] : ~tags[q][i].open
    <3> HIDE DEF tagged
    <3>1. CASE q # r
      <4>1. q \in DOMAIN e.tags /\ tags[q] = e.tags[q]
        BY <1>20, <2>4, <3>1
      <4> QED
        BY <2>1, <4>1
    <3>2. CASE q = r
      <4>1. CASE actions = << >>
        <5>1. tags = e.tags
          BY <4>1
        <5> QED
          BY <2>1, <2>4, <5>1
      <4>2. CASE actions # << >>
        <5>1. tags[q] = tagged
          BY <1>20, <2>4, <3>2, <4>2
        <5> QED
          BY <2>3, <5>1
      <4> QED
        BY <4>1, <4>2
    <3> QED
      BY <3>1, <3>2
  <2> QED
    BY <2>4
<1>22. to \in NodesOf(h) /\ SymOf(h, to) = s
  BY <1>5 DEF EdgeOK, s
<1>23. /\ edge \in EdgeSet
       /\ edge.to = to /\ edge.paths = paths /\ edge.tags = tags
       /\ edge.run = e.run /\ edge.runTo = e.runTo /\ edge.ids = e.ids
  <2>1. to \in Nat
    BY <1>2, <1>17
  <2> HIDE DEF to, paths, tags
  <2> QED
    BY <1>3, <1>19, <1>20, <2>1 DEF EdgeSet
<1> HIDE DEF edge, to, paths
<1>24. EdgeOK(h1, R, s, edge)
  <2>1. /\ edge.to \in NodesOf(h1) /\ SymOf(h1, edge.to) = s
    BY <1>16, <1>22, <1>23
  <2>2. Ids(edge) = Ids(e) \cup {r}
    BY <1>19, <1>23 DEF Ids
  <2>3. Ids(e) \subseteq R /\ e.ids \subseteq R /\ DOMAIN e.tags \subseteq Ids(e)
    BY <1>5, <1>6 DEF EdgeOK
  <2>4. DOMAIN edge.tags \subseteq Ids(edge)
    <3> HIDE DEF tags
    <3> QED
      BY <1>20, <1>23, <2>2, <2>3
  <2>5. \A q \in Ids(edge) : edge.paths[q] \in 0..Len(h1.limit)
    <3>1. \A q \in Ids(e) : e.paths[q] \in 0..Len(h.limit)
      BY <1>5, <1>6 DEF EdgeOK
    <3>2. Len(limits) \in Nat
      BY <1>12, LenProperties
    <3>3. \A q \in Ids(e) : e.paths[q] \in 0..Len(limits)
      BY <1>2, <1>12, <3>1, <3>2
    <3>4. \A q \in Ids(edge) : q # r => q \in Ids(e) /\ edge.paths[q] = e.paths[q]
      BY <1>19, <1>23, <2>2
    <3>5. edge.paths[r] = value
      BY <1>19, <1>23
    <3> QED
      BY <1>13, <1>16, <3>3, <3>4, <3>5
  <2>6. edge.run # << >> => edge.runTo \in NodesOf(h1)
    BY <1>5, <1>6, <1>16, <1>23 DEF EdgeOK
  <2> HIDE DEF tags
  <2> QED
    BY <1>21, <1>23, <2>1, <2>2, <2>3, <2>4, <2>5, <2>6 DEF EdgeOK
<1>25. /\ GraphOK(k, R) /\ Keeps(h1, k) /\ NodesOf(k) = NodesOf(h1) /\ k.limit = h1.limit
       /\ \A q, l : Names(k, q, l) =>
              Names(h1, q, l) \/ (q \in Ids(edge) /\ edge.paths[q] = l)
  <2>1. p \in NodesOf(h1)
    BY <1>16
  <2>2. EdgeAdded(h1, k, R, edge)
    BY <1>2, <1>10, <1>16, <1>23, <1>24, <2>1, EdgePut
  <2> QED
    BY <2>2 DEF EdgeAdded
<1>26. ASSUME NEW q, NEW l, Names(k, q, l)
       PROVE  Names(h, q, l) \/ (q = r /\ l = value)
  <2>1. CASE Names(h1, q, l)
    BY <1>16, <2>1
  <2>2. CASE q \in Ids(edge) /\ edge.paths[q] = l
    <3>1. Ids(edge) = Ids(e) \cup {r}
      BY <1>19, <1>23 DEF Ids
    <3>2. CASE q = r
      BY <1>19, <1>23, <2>2, <3>2
    <3>3. CASE q # r
      <4>1. q \in Ids(e) /\ e.paths[q] = l
        BY <1>19, <1>23, <2>2, <3>1, <3>3
      <4> QED
        BY <1>5, <1>6, <4>1
    <3> QED
      BY <3>2, <3>3
  <2> QED
    BY <1>25, <1>26, <2>1, <2>2
<1>27. Owned(k)
  <2>1. ASSUME NEW q \in Regexes, NEW t \in Regexes, NEW l \in Nat,
               Names(k, q, l), Names(k, t, l), l # NoLimit
        PROVE  q = t
    BY <1>14, <1>26, <2>1 DEF Owned
  <2> QED
    BY <2>1 DEF Owned
<1>28. Grown(h, k, r)
  <2>1. Keeps(h, k)
    <3>1. Len(limits) \in Nat
      BY <1>12, LenProperties
    <3> QED
      BY <1>16, <1>25, <3>1, <1>2, <1>12 DEF Keeps
  <2>2. \A q \in Regexes, l \in 1..Len(h.limit) : Names(k, q, l) => Names(h, q, l) \/ q = r
    BY <1>26
  <2> QED
    BY <2>1, <2>2 DEF Grown
<1> QED
  BY <1>1, <1>16, <1>25, <1>27, <1>28

-----------------------------------------------------------------------------
(* Loops.                                                                  *)

\* What a loop keeps from one round to the next holds all through.
LEMMA KeptByRounds ==
    ASSUME NEW S, NEW n \in Nat, NEW f, f[0] \in S,
           \A j \in 1..n : f[j - 1] \in S => f[j] \in S
    PROVE  \A j \in 0..n : f[j] \in S
<1> DEFINE T == {j \in 0..n : f[j] \notin S}
<1>1. ASSUME T # {}
      PROVE  FALSE
  <2>1. PICK j \in T : \A i \in T : j <= i
    <3>1. T \in SUBSET Nat
      OBVIOUS
    <3> HIDE DEF T
    <3> QED
      BY <1>1, <3>1, LeastNumber
  <2>2. j \in 0..n /\ f[j] \notin S
    OBVIOUS
  <2>3. j # 0
    BY <2>2
  <2>4. j \in 1..n /\ j - 1 \in 0..n /\ ~(j <= j - 1)
    BY <2>2, <2>3
  <2>5. f[j - 1] \in S
    BY <2>1, <2>4
  <2> QED
    BY <2>2, <2>4, <2>5
<1> QED
  BY <1>1

\* f is what n rounds make of x, one after the other.
Rounds(f, S, n, F, x) ==
    /\ f \in [0..n -> S]
    /\ f[0] = x
    /\ \A j \in 1..n : f[j] = F[j][f[j - 1]]

\* A loop whose rounds are functions on S can be run for n rounds.
LEMMA RoundsExist ==
    ASSUME NEW S, NEW n \in Nat, NEW F \in [1..n -> [S -> S]], NEW x \in S
    PROVE  \E f : Rounds(f, S, n, F, x)
<1> DEFINE Run(f, m) ==
               /\ f \in [0..m -> S]
               /\ f[0] = x
               /\ \A j \in 1..m : f[j] = F[j][f[j - 1]]
           T == {m \in 0..n : ~\E f : Run(f, m)}
<1>1. \E f : Run(f, 0)
  <2>1. Run([j \in 0..0 |-> x], 0)
    OBVIOUS
  <2> QED
    BY <2>1
<1>2. ASSUME NEW m \in 1..n, NEW f, Run(f, m - 1)
      PROVE  \E k : Run(k, m)
  <2> DEFINE k == [j \in 0..m |-> IF j = m THEN F[m][f[m - 1]] ELSE f[j]]
  <2>1. m - 1 \in 0..(m - 1) /\ m - 1 \in Nat
    OBVIOUS
  <2>2. f[m - 1] \in S
    BY <1>2, <2>1
  <2>3. F[m][f[m - 1]] \in S
    BY <2>2
  <2>4. ASSUME NEW j \in 0..m
        PROVE  /\ j = m => k[j] = F[m][f[m - 1]]
               /\ j # m => k[j] = f[j] /\ j \in 0..(m - 1)
    OBVIOUS
  <2>5. k \in [0..m -> S]
    <3>1. \A j \in 0..m : k[j] \in S
      BY <1>2, <2>3, <2>4
    <3> QED
      BY <3>1
  <2>6. k[0] = x
    BY <1>2, <2>4
  <2>7. ASSUME NEW j \in 1..m
        PROVE  k[j] = F[j][k[j - 1]]
    <3>1. j - 1 \in 0..m /\ j - 1 # m
      OBVIOUS
    <3>2. k[j - 1] = f[j - 1]
      BY <2>4, <3>1
    <3>3. CASE j = m
      BY <2>4, <3>2, <3>3
    <3>4. CASE j # m
      <4>1. j \in 1..(m - 1) /\ k[j] = f[j]
        BY <2>4, <3>4
      <4> HIDE DEF k
      <4> QED
        BY <1>2, <3>2, <4>1
    <3> QED
      BY <3>3, <3>4
  <2> HIDE DEF k
  <2>8. Run(k, m)
    BY <2>5, <2>6, <2>7
  <2> QED
    BY <2>8
<1>3. ASSUME T # {}
      PROVE  FALSE
  <2> HIDE DEF Run
  <2>1. PICK m \in T : \A i \in T : m <= i
    <3>1. T \in SUBSET Nat
      OBVIOUS
    <3> HIDE DEF T
    <3> QED
      BY <1>3, <3>1, LeastNumber
  <2>2. m \in 0..n /\ ~\E f : Run(f, m)
    OBVIOUS
  <2>3. m # 0
    BY <1>1, <2>2
  <2>4. m \in 1..n /\ m - 1 \in 0..n /\ ~(m <= m - 1)
    BY <2>2, <2>3
  <2>5. \E f : Run(f, m - 1)
    BY <2>1, <2>4
  <2> QED
    BY <1>2, <2>2, <2>4, <2>5
<1>4. \E f : Run(f, n)
  <2>1. n \in 0..n
    OBVIOUS
  <2> HIDE DEF Run
  <2> QED
    BY <1>3, <2>1
<1> QED
  BY <1>4 DEF Rounds

\* Every parent is connected to the child, by no limit.
LEMMA ConnectAllGrows ==
    ASSUME NEW R \in SUBSET Regexes, NEW h, GraphOK(h, R), Owned(h), adding \in R,
           NEW parents \in Seq(NodesOf(h)), NEW child \in NodesOf(h),
           pending \in Seq(TagSet), SymOf(h, child) = Eor => NoneOpens(pending)
    PROVE  LET k == ConnectAll(h, parents, child)
           IN  GraphOK(k, R) /\ Owned(k) /\ Grown(h, k, adding) /\ NodesOf(k) = NodesOf(h)
<1> DEFINE n == Len(parents)
           Round(x, j) == Connect(x, parents[j], child, adding, pending, NoLimit)
           Loop(f) == f = [j \in 0..n |-> IF j = 0 THEN h ELSE Round(f[j - 1], j)]
           graphs == CHOOSE f : Loop(f)
           S == {x \in GraphSet : /\ GraphOK(x, R) /\ Owned(x)
                                  /\ Grown(h, x, adding) /\ NodesOf(x) = NodesOf(h)}
<1>1. ConnectAll(h, parents, child) = graphs[n]
  BY DEF ConnectAll
<1>2. n \in Nat /\ h \in GraphSet /\ \A j \in 1..n : parents[j] \in NodesOf(h)
  BY LenProperties DEF GraphOK
<1>3. h \in S
  BY <1>2, GrownNot
<1>4. ASSUME NEW x \in S, NEW j \in 1..n
      PROVE  Round(x, j) \in S
  <2> DEFINE y == Round(x, j)
  <2>1. /\ x \in GraphSet /\ GraphOK(x, R) /\ Owned(x) /\ Grown(h, x, adding)
        /\ NodesOf(x) = NodesOf(h)
    OBVIOUS
  <2>2. parents[j] \in NodesOf(x) /\ child \in NodesOf(x) /\ SymOf(x, child) = SymOf(h, child)
    BY <1>2, <2>1 DEF Grown, Keeps
  <2>3. NoLimit \in OwnLimits(x, adding) \cup {NoLimit}
    OBVIOUS
  <2>4. GraphOK(y, R) /\ Owned(y) /\ Grown(x, y, adding) /\ NodesOf(y) = NodesOf(x)
    BY <2>1, <2>2, <2>3, ConnectGrows
  <2> HIDE DEF y
  <2>5. y \in GraphSet
    BY <2>4 DEF GraphOK
  <2>6. Grown(h, y, adding)
    BY <1>2, <2>1, <2>4, <2>5, GrownTwice
  <2> QED
    BY <2>1, <2>4, <2>5, <2>6 DEF y
<1> HIDE DEF S, Round
<1>5. \E f : Loop(f)
  <2> DEFINE F == [j \in 1..n |-> [x \in S |-> Round(x, j)]]
  <2>1. F \in [1..n -> [S -> S]]
    BY <1>4
  <2>2. PICK f : Rounds(f, S, n, F, h)
    <3> HIDE DEF F, n
    <3> QED
      BY <1>2, <1>3, <2>1, RoundsExist
  <2>3. ASSUME NEW j \in 1..n
        PROVE  f[j] = Round(f[j - 1], j)
    <3>1. j - 1 \in 0..n
      BY <1>2
    <3>2. f[j - 1] \in S
      BY <2>2, <3>1 DEF Rounds
    <3> QED
      BY <2>2, <3>2 DEF Rounds
  <2> HIDE DEF n
  <2>4. Loop(f)
    <3>1. ASSUME NEW j \in 0..n
          PROVE  f[j] = IF j = 0 THEN h ELSE Round(f[j - 1], j)
      BY <1>2, <2>2, <2>3 DEF Rounds
    <3> QED
      BY <2>2, <3>1 DEF Rounds
  <2> QED
    BY <2>4
<1>6. Loop(graphs)
  BY <1>5
<1> HIDE DEF graphs, n
<1>7. graphs[0] = h /\ \A j \in 1..n : graphs[j] = Round(graphs[j - 1], j)
  <2>1. \A j \in 0..n : graphs[j] = IF j = 0 THEN h ELSE Round(graphs[j - 1], j)
    BY <1>6
  <2> HIDE DEF Loop
  <2> QED
    BY <1>2, <2>1
<1>8. \A j \in 0..n : graphs[j] \in S
  BY <1>2, <1>3, <1>4, <1>7, KeptByRounds
<1>9. graphs[n] \in S
  BY <1>2, <1>8
<1> QED
  BY <1>1, <1>9 DEF S

-----------------------------------------------------------------------------
(* The other changes of a graph.                                           *)

\* A graph changed, with no limit named that was not.
Moved(h, k, R) ==
    /\ GraphOK(k, R)
    /\ Keeps(h, k)
    /\ Len(k.limit) = Len(h.limit)
    /\ \A q, l : Names(k, q, l) => Names(h, q, l)

\* It has grown for any regex, and its limits are owned as they were.
LEMMA MovedIsGrown ==
    ASSUME NEW R, NEW h, NEW k, Owned(h), Moved(h, k, R), NEW r
    PROVE  Owned(k) /\ Grown(h, k, r)
BY DEF Moved, Owned, Grown

\* A graph moved twice is moved.
LEMMA MovedTwice ==
    ASSUME NEW R, NEW h, NEW k, NEW m, Moved(h, k, R), Moved(k, m, R)
    PROVE  Moved(h, m, R)
BY DEF Moved, Keeps

\* A graph with the edges and the symbols of h.
LEMMA SameEdges ==
    ASSUME NEW R, NEW h, GraphOK(h, R), NEW k \in GraphSet, NodesOf(k) = NodesOf(h),
           k.limit = h.limit,
           \A n \in NodesOf(h) : Out(k, n) = Out(h, n) /\ SymOf(k, n) = SymOf(h, n)
    PROVE  Moved(h, k, R)
<1>1. h \in GraphSet /\ Len(h.limit) \in Nat
  BY GraphParts DEF GraphOK
<1>2. Keeps(h, k)
  BY <1>1 DEF Keeps
<1>3. \A n \in NodesOf(h) : \A s \in DOMAIN Out(h, n) : EdgeOK(k, R, s, Out(h, n)[s])
  BY <1>1, <1>2, EdgeKept DEF GraphOK
<1>4. GraphOK(k, R)
  BY <1>3 DEF GraphOK
<1>5. \A q, l : Names(k, q, l) => Names(h, q, l)
  BY DEF Names
<1> QED
  BY <1>2, <1>4, <1>5 DEF Moved

\* A class more is counted.
LEMMA ClassesCounted ==
    ASSUME NEW R, NEW h, GraphOK(h, R)
    PROVE  LET k == [h EXCEPT !.classes = @ + 1]
           IN  Moved(h, k, R) /\ k.node = h.node /\ k.classes = h.classes + 1
<1> DEFINE k == [h EXCEPT !.classes = @ + 1]
<1>1. h \in GraphSet
  BY DEF GraphOK
<1>2. k \in GraphSet /\ k.node = h.node /\ k.limit = h.limit /\ k.classes = h.classes + 1
  BY <1>1 DEF GraphSet
<1> HIDE DEF k
<1>3. NodesOf(k) = NodesOf(h) /\ \A n : Out(k, n) = Out(h, n) /\ SymOf(k, n) = SymOf(h, n)
  BY <1>2 DEF NodesOf, Out, SymOf
<1>4. Moved(h, k, R)
  BY <1>2, <1>3, SameEdges
<1> QED
  BY <1>2, <1>4 DEF k

\* add_regex ends with no node compiled.
LEMMA UncompiledIs ==
    ASSUME NEW R, NEW h, GraphOK(h, R)
    PROVE  /\ Moved(h, Uncompiled(h), R)
           /\ NodesOf(Uncompiled(h)) = NodesOf(h)
           /\ \A n \in NodesOf(h) : ~Uncompiled(h).node[n].compiled
<1> DEFINE k == Uncompiled(h)
           node == [n \in 1..Len(h.node) |-> [h.node[n] EXCEPT !.compiled = FALSE]]
<1>1. /\ h \in GraphSet /\ Len(h.node) \in Nat /\ NodesOf(h) = 1..Len(h.node)
      /\ h.limit \in Seq(LimitSet)
  BY GraphParts DEF GraphOK
<1>2. \A n \in NodesOf(h) : h.node[n] \in NodeSet
  BY <1>1, GraphParts
<1>3. ASSUME NEW n \in NodesOf(h)
      PROVE  LET x == [h.node[n] EXCEPT !.compiled = FALSE]
             IN  /\ x \in NodeSet /\ ~x.compiled
                 /\ x.out = h.node[n].out /\ x.sym = h.node[n].sym
  BY <1>2 DEF NodeSet
<1>4. node \in Seq(NodeSet) /\ Len(node) = Len(h.node) /\ DOMAIN node = 1..Len(h.node)
  <2>1. \A n \in 1..Len(h.node) : node[n] \in NodeSet
    BY <1>1, <1>3
  <2>2. node \in [1..Len(h.node) -> NodeSet]
    BY <2>1
  <2> HIDE DEF node
  <2> QED
    BY <1>1, <2>2
<1>5. k = [h EXCEPT !.node = node]
  <2>1. h.node \in Seq(NodeSet)
    BY <1>1, GraphParts
  <2> QED
    BY <1>1 DEF Uncompiled, NodesOf, GraphSet
<1>6. k \in GraphSet /\ k.node = node /\ k.limit = h.limit
  <2> HIDE DEF node
  <2> QED
    BY <1>1, <1>4, <1>5 DEF GraphSet
<1> HIDE DEF k
<1>7. NodesOf(k) = NodesOf(h)
  BY <1>1, <1>4, <1>6 DEF NodesOf
<1>8. \A n \in NodesOf(h) :
          Out(k, n) = Out(h, n) /\ SymOf(k, n) = SymOf(h, n) /\ ~k.node[n].compiled
  BY <1>1, <1>3, <1>6 DEF Out, SymOf
<1>9. Moved(h, k, R)
  BY <1>6, <1>7, <1>8, SameEdges
<1> QED
  BY <1>7, <1>8, <1>9 DEF k

\* A node more.
LEMMA NodeAdded ==
    ASSUME NEW R, NEW h, GraphOK(h, R), NEW sym \in Nat, NEW members \in SUBSET Chars
    PROVE  LET k == AddNode(h, sym, members)
           IN  /\ Moved(h, k, R)
               /\ NodesOf(k) = NodesOf(h) \cup {Len(h.node) + 1}
               /\ Len(k.node) = Len(h.node) + 1
               /\ SymOf(k, Len(h.node) + 1) = sym
<1> DEFINE k == AddNode(h, sym, members)
           new == Len(h.node) + 1
<1>1. h \in GraphSet /\ Len(h.node) \in Nat /\ NodesOf(h) = 1..Len(h.node)
      /\ Len(h.limit) \in Nat
  BY GraphParts DEF GraphOK
<1>2. /\ k \in GraphSet
      /\ NodesOf(k) = NodesOf(h) \cup {new}
      /\ Len(k.node) = new
      /\ k.limit = h.limit
      /\ \A m \in NodesOf(h) : Out(k, m) = Out(h, m) /\ SymOf(k, m) = SymOf(h, m)
      /\ Out(k, new) = << >>
      /\ SymOf(k, new) = sym
  BY <1>1, AddNodeIs
<1> HIDE DEF k, new
<1>3. Keeps(h, k)
  BY <1>1, <1>2 DEF Keeps
<1>4. \A n \in NodesOf(h) : \A s \in DOMAIN Out(h, n) : EdgeOK(k, R, s, Out(h, n)[s])
  BY <1>1, <1>2, <1>3, EdgeKept DEF GraphOK
<1>5. DOMAIN Out(k, new) = {} /\ IsFiniteSet({})
  BY <1>2, EmptyPartial, FS_EmptySet
<1>6. GraphOK(k, R)
  BY <1>2, <1>4, <1>5 DEF GraphOK
<1>7. \A q, l : Names(k, q, l) => Names(h, q, l)
  BY <1>2, <1>5 DEF Names
<1> QED
  BY <1>2, <1>3, <1>6, <1>7 DEF Moved, k, new

\* A node without one of its edges.
LEMMA EdgeCut ==
    ASSUME NEW R, NEW h, GraphOK(h, R), NEW n \in NodesOf(h), NEW s
    PROVE  LET k == Cut(h, n, s)
           IN  /\ Moved(h, k, R)
               /\ NodesOf(k) = NodesOf(h)
               /\ \A m \in NodesOf(h) : m # n => Out(k, m) = Out(h, m)
<1> DEFINE before == Out(h, n)
           out == Without(before, s)
           k == SetOut(h, n, out)
<1>1. /\ h \in GraphSet /\ before \in Partial(Nat, EdgeSet)
      /\ Len(h.limit) \in Nat
  BY GraphParts DEF GraphOK
<1> HIDE DEF before
<1>2. out \in Partial(Nat, EdgeSet)
  BY <1>1, WithoutIs
<1>3. DOMAIN out = DOMAIN before \ {s} /\ \A t \in DOMAIN before \ {s} : out[t] = before[t]
  BY DEF Without
<1> HIDE DEF out
<1>4. /\ k \in GraphSet /\ NodesOf(k) = NodesOf(h) /\ k.limit = h.limit
      /\ \A m \in NodesOf(h) :
             /\ Out(k, m) = IF m = n THEN out ELSE Out(h, m)
             /\ SymOf(k, m) = SymOf(h, m)
  BY <1>1, <1>2, SetOutIs
<1> HIDE DEF k
<1>5. Keeps(h, k)
  BY <1>1, <1>4 DEF Keeps
<1>6. \A m \in NodesOf(h) : \A t \in DOMAIN Out(h, m) : EdgeOK(k, R, t, Out(h, m)[t])
  BY <1>1, <1>4, <1>5, EdgeKept DEF GraphOK
<1>7. IsFiniteSet(DOMAIN out)
  <2>1. IsFiniteSet(DOMAIN before)
    BY DEF GraphOK, before
  <2> QED
    BY <1>3, <2>1, FS_Subset
<1>8. \A m \in NodesOf(h) : \A t \in DOMAIN Out(k, m) :
          t \in DOMAIN Out(h, m) /\ Out(k, m)[t] = Out(h, m)[t]
  BY <1>3, <1>4 DEF before
<1>9. \A m \in NodesOf(h) : IsFiniteSet(DOMAIN Out(k, m))
  BY <1>4, <1>7 DEF GraphOK
<1>10. GraphOK(k, R)
  BY <1>4, <1>6, <1>8, <1>9 DEF GraphOK
<1>11. \A q, l : Names(k, q, l) => Names(h, q, l)
  BY <1>4, <1>8 DEF Names
<1> QED
  BY <1>4, <1>5, <1>10, <1>11 DEF Moved, Cut, k, out, before

\* An edge put at a node that names nothing new.
LEMMA EdgeMoved ==
    ASSUME NEW R, NEW h, GraphOK(h, R), NEW n \in NodesOf(h), NEW s \in Nat,
           NEW e \in EdgeSet, EdgeOK(h, R, s, e),
           \A q \in Ids(e) : Names(h, q, e.paths[q])
    PROVE  Moved(h, SetEdge(h, n, s, e), R)
<1> DEFINE k == SetEdge(h, n, s, e)
<1>1. EdgeAdded(h, k, R, e)
  BY EdgePut
<1> HIDE DEF k
<1>2. Moved(h, k, R)
  BY <1>1 DEF EdgeAdded, Moved
<1> QED
  BY <1>2 DEF k

\* absorb takes an edge from one node to another, or hands over its regexes.
LEMMA AbsorbMoves ==
    ASSUME NEW R \in SUBSET Regexes, NEW h, GraphOK(h, R),
           NEW from \in NodesOf(h), NEW into \in NodesOf(h), into # from,
           NEW s \in DOMAIN Out(h, from)
    PROVE  LET e == Out(h, from)[s]
               mine == Out(h, into)[s]
               merged == [mine EXCEPT !.paths = Merged(mine, e)]
           IN  /\ HasChild(h, into, s) =>
                      Moved(h, SetEdge(Cut(h, from, s), into, s, merged), R)
               /\ ~HasChild(h, into, s) => Moved(h, SetEdge(Cut(h, from, s), into, s, e), R)
<1> DEFINE cut == Cut(h, from, s)
           e == Out(h, from)[s]
           mine == Out(h, into)[s]
<1>1. /\ h \in GraphSet /\ s \in Nat /\ e \in EdgeSet /\ EdgeOK(h, R, s, e)
      /\ \A q \in Ids(e) : Names(h, q, e.paths[q])
  <2>1. h \in GraphSet
    BY DEF GraphOK
  <2> QED
    BY <2>1, GraphParts DEF GraphOK, Names
<1>2. /\ Moved(h, cut, R) /\ NodesOf(cut) = NodesOf(h) /\ Out(cut, into) = Out(h, into)
  BY EdgeCut
<1>3. GraphOK(cut, R) /\ Keeps(h, cut) /\ cut \in GraphSet
  BY <1>2 DEF Moved, GraphOK
<1>4. ASSUME NEW edge \in EdgeSet, EdgeOK(h, R, s, edge),
             \A q \in Ids(edge) : Names(h, q, edge.paths[q])
      PROVE  Moved(h, SetEdge(cut, into, s, edge), R)
  <2> DEFINE k == SetEdge(cut, into, s, edge)
  <2> HIDE DEF cut
  <2>1. EdgeOK(cut, R, s, edge)
    BY <1>1, <1>3, <1>4, EdgeKept
  <2>2. EdgeAdded(cut, k, R, edge)
    BY <1>1, <1>2, <1>3, <2>1, EdgePut
  <2> HIDE DEF k
  <2>3. Keeps(h, k)
    BY <1>3, <2>2 DEF EdgeAdded, Keeps
  <2>4. Moved(h, k, R)
    BY <1>2, <1>4, <2>2, <2>3 DEF EdgeAdded, Moved
  <2> QED
    BY <2>4 DEF k
<1> HIDE DEF cut
<1>5. ~HasChild(h, into, s) => Moved(h, SetEdge(cut, into, s, e), R)
  BY <1>1, <1>4
<1>6. ASSUME HasChild(h, into, s)
      PROVE  Moved(h, SetEdge(cut, into, s, [mine EXCEPT !.paths = Merged(mine, e)]), R)
  <2> DEFINE paths == Merged(mine, e)
             edge == [mine EXCEPT !.paths = paths]
  <2>1. /\ mine \in EdgeSet /\ EdgeOK(h, R, s, mine)
        /\ \A q \in Ids(mine) : Names(h, q, mine.paths[q])
    BY <1>1, <1>6, GraphParts DEF GraphOK, Names, HasChild
  <2> HIDE DEF mine, e
  <2>2. /\ \A q \in Ids(mine) : q \in Regexes /\ mine.paths[q] \in Nat
        /\ \A q \in Ids(e) : q \in Regexes /\ e.paths[q] \in Nat
    BY <1>1, <2>1, EdgeParts
  <2>3. /\ DOMAIN paths = Ids(mine) \cup Ids(e)
        /\ \A q \in Ids(mine) : paths[q] = mine.paths[q]
        /\ \A q \in Ids(e) : q \notin Ids(mine) => paths[q] = e.paths[q]
    BY DEF Merged
  <2>4. paths \in Partial(Regexes, Nat)
    <3> DEFINE D == Ids(mine) \cup Ids(e)
    <3>1. D \in SUBSET Regexes
      BY <2>2
    <3>2. paths \in [D -> Nat]
      BY <2>2 DEF Merged
    <3> HIDE DEF D, paths
    <3> QED
      BY <3>1, <3>2, IsPartial
  <2> HIDE DEF paths
  <2>5. /\ edge \in EdgeSet /\ edge.paths = paths /\ edge.to = mine.to
        /\ edge.tags = mine.tags /\ edge.run = mine.run /\ edge.runTo = mine.runTo
        /\ edge.ids = mine.ids
    BY <2>1, <2>4 DEF EdgeSet
  <2> HIDE DEF edge
  <2>6. Ids(edge) = Ids(mine) \cup Ids(e)
    BY <2>3, <2>5 DEF Ids
  <2>7. \A q \in Ids(edge) :
            edge.paths[q] \in 0..Len(h.limit) /\ Names(h, q, edge.paths[q])
    BY <1>1, <2>1, <2>3, <2>5, <2>6 DEF EdgeOK
  <2>8. EdgeOK(h, R, s, edge)
    BY <1>1, <2>1, <2>5, <2>6, <2>7 DEF EdgeOK
  <2>9. Moved(h, SetEdge(cut, into, s, edge), R)
    BY <1>4, <2>5, <2>7, <2>8
  <2> QED
    BY <2>9 DEF edge, paths
<1> QED
  BY <1>5, <1>6 DEF cut, mine, e

-----------------------------------------------------------------------------
(* compile().                                                              *)

\* A node that joins a run has one way out.
LEMMA OnlySymIs ==
    ASSUME NEW R, NEW h, GraphOK(h, R), NEW n \in NodesOf(h), NEW ids, Joins(h, n, ids)
    PROVE  /\ OnlySym(h, n) \in DOMAIN Out(h, n)
           /\ OnlySym(h, n) \in Nat
           /\ Child(h, n, OnlySym(h, n)) \in NodesOf(h)
<1>1. DOMAIN Out(h, n) # {}
  BY FS_EmptySet DEF Joins
<1>2. OnlySym(h, n) \in DOMAIN Out(h, n)
  BY <1>1 DEF OnlySym
<1>3. h \in GraphSet
  BY DEF GraphOK
<1>4. DOMAIN Out(h, n) \in SUBSET Nat
  BY <1>3, GraphParts
<1> QED
  BY <1>2, <1>4 DEF GraphOK, EdgeOK, Child

\* A run goes from the edge's own end by nodes that join it.
RunOf(h, e, c) ==
    /\ c \in Seq(NodesOf(h))
    /\ Len(c) >= 1
    /\ c[1] = e.to
    /\ \A i \in 1..(Len(c) - 1) : Joins(h, c[i], Ids(e))

\* Such a run is what build_run makes.
LEMMA ChainIs ==
    ASSUME NEW R, NEW h, GraphOK(h, R), NEW e, e.to \in NodesOf(h)
    PROVE  RunOf(h, e, Chain(h, e))
<1> DEFINE n == Len(h.node)
           Round(c) == IF Joins(h, Last(c), Ids(e))
                       THEN Append(c, Child(h, Last(c), OnlySym(h, Last(c))))
                       ELSE c
           Loop(f) == f = [k \in 0..n |-> IF k = 0 THEN <<e.to>> ELSE Round(f[k - 1])]
           nodes == CHOOSE f : Loop(f)
           S == {c \in Seq(NodesOf(h)) : RunOf(h, e, c)}
<1>1. Chain(h, e) = nodes[n]
  BY DEF Chain
<1>2. n \in Nat
  BY GraphParts DEF GraphOK
<1>3. <<e.to>> \in S
  BY DEF RunOf
<1>4. ASSUME NEW c \in S
      PROVE  Round(c) \in S
  <2>1. c \in Seq(NodesOf(h)) /\ RunOf(h, e, c) /\ Len(c) \in Nat /\ Len(c) >= 1
    BY LenProperties DEF RunOf
  <2>2. CASE ~Joins(h, Last(c), Ids(e))
    BY <2>2
  <2>3. CASE Joins(h, Last(c), Ids(e))
    <3> DEFINE next == Child(h, Last(c), OnlySym(h, Last(c)))
               d == Append(c, next)
    <3>1. Last(c) \in NodesOf(h) /\ Last(c) = c[Len(c)]
      BY <2>1, ElementOfSeq DEF Last
    <3>2. next \in NodesOf(h)
      BY <2>3, <3>1, OnlySymIs
    <3> HIDE DEF next
    <3>3. /\ d \in Seq(NodesOf(h)) /\ Len(d) = Len(c) + 1
          /\ \A i \in 1..Len(c) : d[i] = c[i]
      BY <2>1, <3>2, AppendProperties
    <3> HIDE DEF d
    <3>4. ASSUME NEW i \in 1..(Len(d) - 1)
          PROVE  Joins(h, d[i], Ids(e))
      <4>1. i \in 1..Len(c) /\ d[i] = c[i]
        BY <2>1, <3>3
      <4>2. CASE i = Len(c)
        BY <2>3, <3>1, <4>1, <4>2
      <4>3. CASE i # Len(c)
        <5>1. i \in 1..(Len(c) - 1)
          BY <2>1, <4>1, <4>3
        <5> QED
          BY <2>1, <4>1, <5>1 DEF RunOf
      <4> QED
        BY <4>2, <4>3
    <3>5. d[1] = e.to /\ Len(d) >= 1
      BY <2>1, <3>3 DEF RunOf
    <3>6. RunOf(h, e, d)
      BY <3>3, <3>4, <3>5 DEF RunOf
    <3>7. Round(c) = d
      BY <2>3 DEF d, next
    <3> QED
      BY <3>3, <3>6, <3>7
  <2> QED
    BY <2>2, <2>3
<1> HIDE DEF S, Round
<1>5. \E f : Loop(f)
  <2> DEFINE F == [k \in 1..n |-> [c \in S |-> Round(c)]]
  <2>1. F \in [1..n -> [S -> S]]
    BY <1>4
  <2>2. PICK f : Rounds(f, S, n, F, <<e.to>>)
    <3> HIDE DEF F, n
    <3> QED
      BY <1>2, <1>3, <2>1, RoundsExist
  <2>3. ASSUME NEW k \in 1..n
        PROVE  f[k] = Round(f[k - 1])
    <3>1. k - 1 \in 0..n
      BY <1>2
    <3>2. f[k - 1] \in S
      BY <2>2, <3>1 DEF Rounds
    <3> QED
      BY <2>2, <3>2 DEF Rounds
  <2> HIDE DEF n
  <2>4. Loop(f)
    <3>1. ASSUME NEW k \in 0..n
          PROVE  f[k] = IF k = 0 THEN <<e.to>> ELSE Round(f[k - 1])
      <4>1. CASE k = 0
        BY <2>2, <4>1 DEF Rounds
      <4>2. CASE k # 0
        <5>1. k \in 1..n
          BY <1>2, <4>2
        <5> QED
          BY <2>3, <4>2, <5>1
      <4> QED
        BY <4>1, <4>2
    <3> QED
      BY <2>2, <3>1 DEF Rounds
  <2> QED
    BY <2>4
<1>6. Loop(nodes)
  BY <1>5
<1> HIDE DEF nodes, n
<1>7. nodes[0] = <<e.to>> /\ \A k \in 1..n : nodes[k] = Round(nodes[k - 1])
  <2>1. \A k \in 0..n : nodes[k] = IF k = 0 THEN <<e.to>> ELSE Round(nodes[k - 1])
    BY <1>6
  <2> HIDE DEF Loop
  <2> QED
    BY <1>2, <2>1
<1>8. \A k \in 0..n : nodes[k] \in S
  BY <1>2, <1>3, <1>4, <1>7, KeptByRounds
<1>9. nodes[n] \in S
  BY <1>2, <1>8
<1> QED
  BY <1>1, <1>9 DEF S

\* An edge as compile() leaves it: that it covers what it hands on, it says of
\* the end of its run.
LEMMA CompiledEdgeIs ==
    ASSUME NEW R \in SUBSET Regexes, NEW h, GraphOK(h, R), NEW s,
           NEW e \in EdgeSet, EdgeOK(h, R, s, e)
    PROVE  LET k == CompiledEdge(h, e)
           IN  /\ k \in EdgeSet
               /\ k.to = e.to /\ k.paths = e.paths /\ k.tags = e.tags
               /\ k.ids = Ids(e)
               /\ k.run # << >> => k.runTo \in NodesOf(h)
               /\ RunEnd(k) \in NodesOf(h)
               /\ k.full <=> Ids(e) = Alive(h, RunEnd(k))
<1> DEFINE chain == Chain(h, e)
           n == Len(chain) - 1
           run == [i \in 1..n |-> OnlySym(h, chain[i])]
           end == Last(chain)
           runTo == IF run = << >> THEN NoNode ELSE end
           k == [e EXCEPT !.ids = Ids(e),
                          !.limited = IsLimited(e),
                          !.run = run,
                          !.runTo = runTo,
                          !.full = Covers(h, e, chain)]
<1>1. CompiledEdge(h, e) = k
  BY DEF CompiledEdge
<1>2. RunOf(h, e, chain)
  BY ChainIs DEF EdgeOK
<1> HIDE DEF chain
<1>3. /\ chain \in Seq(NodesOf(h)) /\ Len(chain) \in Nat /\ Len(chain) >= 1
      /\ \A i \in 1..Len(chain) : chain[i] \in NodesOf(h)
  BY <1>2, LenProperties DEF RunOf
<1>4. n \in Nat
  BY <1>3
<1>5. run \in Seq(Nat) /\ Len(run) = n
  <2>1. ASSUME NEW i \in 1..n
        PROVE  OnlySym(h, chain[i]) \in Nat
    <3>1. chain[i] \in NodesOf(h) /\ Joins(h, chain[i], Ids(e))
      BY <1>2, <1>3 DEF RunOf
    <3> QED
      BY <3>1, OnlySymIs
  <2>2. run \in [1..n -> Nat]
    BY <2>1
  <2> HIDE DEF run, n
  <2> QED
    BY <1>4, <2>2
<1>6. end \in NodesOf(h) /\ end = chain[Len(chain)]
  BY <1>3 DEF Last
<1>7. NodesOf(h) \in SUBSET Nat
  BY GraphParts DEF GraphOK
<1>8. runTo \in Nat
  BY <1>6, <1>7 DEF NoNode
<1>9. run = << >> => end = e.to
  <2>1. ASSUME run = << >>
        PROVE  end = e.to
    <3>1. Len(run) = 0
      <4> HIDE DEF run
      <4> QED
        BY <2>1
    <3>2. Len(chain) = 1
      <4> HIDE DEF run
      <4> QED
        BY <1>3, <1>5, <3>1
    <3> QED
      BY <1>2, <1>6, <3>2 DEF RunOf
  <2> QED
    BY <2>1
<1>10. Covers(h, e, chain) <=> Ids(e) = Alive(h, end)
  BY DEF Covers
<1>11. Covers(h, e, chain) \in BOOLEAN /\ IsLimited(e) \in BOOLEAN /\ Ids(e) \in SUBSET Regexes
  BY EdgeParts DEF Covers, IsLimited
<1> HIDE DEF run, end
<1>12. /\ k \in EdgeSet
       /\ k.to = e.to /\ k.paths = e.paths /\ k.tags = e.tags
       /\ k.ids = Ids(e) /\ k.run = run /\ k.runTo = runTo
       /\ k.full = Covers(h, e, chain)
  <2> HIDE DEF runTo
  <2> QED
    BY <1>5, <1>8, <1>11 DEF EdgeSet
<1> HIDE DEF k
<1>13. RunEnd(k) = end
  BY <1>9, <1>12 DEF RunEnd
<1> QED
  BY <1>1, <1>6, <1>10, <1>12, <1>13

\* The repeats of a node are regexes and limits.
LEMMA RepeatsIs ==
    ASSUME NEW h \in GraphSet, NEW n \in NodesOf(h)
    PROVE  Repeats(h, n) \in SUBSET (Regexes \X Nat)
<1>1. ASSUME NEW s \in DOMAIN Out(h, n)
      PROVE  LET e == Out(h, n)[s]
             IN  \A r \in Ids(e) : <<r, e.paths[r]>> \in Regexes \X Nat
  <2>1. Out(h, n)[s] \in EdgeSet
    BY GraphParts
  <2> QED
    BY <2>1, EdgeParts
<1> QED
  BY <1>1 DEF Repeats, Range

\* compile() leaves the graph what it was; its flags say what they say of it.
LEMMA CompiledIs ==
    ASSUME NEW R \in SUBSET Regexes, NEW h, GraphOK(h, R), ~h.node[Root].compiled
    PROVE  LET k == Compiled(h)
           IN  /\ Moved(h, k, R)
               /\ NodesOf(k) = NodesOf(h)
               /\ \A n \in NodesOf(k) : \A s \in DOMAIN Out(k, n) :
                      LET e == Out(k, n)[s]
                      IN  e.ids = Ids(e) /\ (e.full => Ids(e) = Alive(k, RunEnd(e)))
<1> DEFINE node == [n \in 1..Len(h.node) |-> CompiledNode(h, n)]
           k == [h EXCEPT !.node = node]
<1>1. /\ h \in GraphSet /\ Len(h.node) \in Nat /\ NodesOf(h) = 1..Len(h.node)
      /\ h.limit \in Seq(LimitSet) /\ Len(h.limit) \in Nat
  BY GraphParts DEF GraphOK
<1>2. Compiled(h) = k
  BY <1>1 DEF Compiled
<1>3. ASSUME NEW n \in NodesOf(h)
      PROVE  LET x == CompiledNode(h, n)
             IN  /\ x \in NodeSet /\ x.sym = SymOf(h, n)
                 /\ DOMAIN x.out = DOMAIN Out(h, n)
                 /\ \A s \in DOMAIN Out(h, n) : x.out[s] = CompiledEdge(h, Out(h, n)[s])
  <2> DEFINE out == [s \in DOMAIN Out(h, n) |-> CompiledEdge(h, Out(h, n)[s])]
             x == [h.node[n] EXCEPT !.out = out, !.repeats = Repeats(h, n), !.compiled = TRUE]
  <2>1. h.node[n] \in NodeSet /\ h.node[n].out = Out(h, n) /\ h.node[n].sym = SymOf(h, n)
    BY <1>1, GraphParts DEF Out, SymOf
  <2>2. CompiledNode(h, n) = x
    BY <2>1 DEF CompiledNode
  <2>3. out \in Partial(Nat, EdgeSet)
    <3>1. ASSUME NEW s \in DOMAIN Out(h, n)
          PROVE  CompiledEdge(h, Out(h, n)[s]) \in EdgeSet
      <4>1. Out(h, n)[s] \in EdgeSet /\ EdgeOK(h, R, s, Out(h, n)[s])
        BY <1>1, GraphParts DEF GraphOK
      <4> QED
        BY <4>1, CompiledEdgeIs
    <3> DEFINE D == DOMAIN Out(h, n)
    <3>2. D \in SUBSET Nat
      BY <1>1, GraphParts
    <3>3. out \in [D -> EdgeSet]
      BY <3>1
    <3> HIDE DEF D, out
    <3> QED
      BY <3>2, <3>3, IsPartial
  <2>4. Repeats(h, n) \in SUBSET (Regexes \X Nat)
    BY <1>1, RepeatsIs
  <2>5. x \in NodeSet /\ x.out = out /\ x.sym = SymOf(h, n)
    <3> HIDE DEF out
    <3> QED
      BY <2>1, <2>3, <2>4 DEF NodeSet
  <2> HIDE DEF x
  <2> QED
    BY <2>2, <2>5
<1>4. node \in Seq(NodeSet) /\ Len(node) = Len(h.node) /\ DOMAIN node = 1..Len(h.node)
  <2>1. node \in [1..Len(h.node) -> NodeSet]
    BY <1>1, <1>3
  <2> HIDE DEF node
  <2> QED
    BY <1>1, <2>1
<1>5. k \in GraphSet /\ k.node = node /\ k.limit = h.limit
  <2> HIDE DEF node
  <2> QED
    BY <1>1, <1>4 DEF GraphSet
<1> HIDE DEF k
<1>6. NodesOf(k) = NodesOf(h)
  BY <1>1, <1>4, <1>5 DEF NodesOf
<1>7. ASSUME NEW n \in NodesOf(h)
      PROVE  /\ SymOf(k, n) = SymOf(h, n)
             /\ DOMAIN Out(k, n) = DOMAIN Out(h, n)
             /\ \A s \in DOMAIN Out(h, n) : Out(k, n)[s] = CompiledEdge(h, Out(h, n)[s])
  <2>1. k.node[n] = CompiledNode(h, n)
    BY <1>1, <1>5
  <2> QED
    BY <1>3, <2>1 DEF SymOf, Out
<1>8. ASSUME NEW n \in NodesOf(h), NEW s \in DOMAIN Out(h, n)
      PROVE  LET e == Out(k, n)[s]
                 before == Out(h, n)[s]
             IN  /\ e \in EdgeSet /\ EdgeOK(h, R, s, before)
                 /\ e.to = before.to /\ e.paths = before.paths /\ e.tags = before.tags
                 /\ e.ids = Ids(before) /\ Ids(e) = Ids(before)
                 /\ e.run # << >> => e.runTo \in NodesOf(h)
                 /\ RunEnd(e) \in NodesOf(h)
                 /\ e.full <=> Ids(before) = Alive(h, RunEnd(e))
  <2>1. Out(h, n)[s] \in EdgeSet /\ EdgeOK(h, R, s, Out(h, n)[s])
    BY <1>1, GraphParts DEF GraphOK
  <2>2. Out(k, n)[s] = CompiledEdge(h, Out(h, n)[s])
    BY <1>7
  <2> DEFINE before == Out(h, n)[s]
             e == CompiledEdge(h, before)
  <2> HIDE DEF before
  <2>3. before \in EdgeSet /\ EdgeOK(h, R, s, before) /\ Out(k, n)[s] = e
    BY <2>1, <2>2 DEF before
  <2>4. /\ e \in EdgeSet
        /\ e.to = before.to /\ e.paths = before.paths /\ e.tags = before.tags
        /\ e.ids = Ids(before)
        /\ e.run # << >> => e.runTo \in NodesOf(h)
        /\ RunEnd(e) \in NodesOf(h)
        /\ e.full <=> Ids(before) = Alive(h, RunEnd(e))
    BY <2>3, CompiledEdgeIs
  <2> HIDE DEF e
  <2>5. Ids(e) = Ids(before)
    BY <2>4 DEF Ids
  <2> QED
    BY <2>3, <2>4, <2>5 DEF before
<1>9. Keeps(h, k)
  BY <1>1, <1>5, <1>6, <1>7 DEF Keeps
<1>10. ASSUME NEW n \in NodesOf(h), NEW s \in DOMAIN Out(k, n)
       PROVE  EdgeOK(k, R, s, Out(k, n)[s])
  <2> DEFINE e == Out(k, n)[s]
             before == Out(h, n)[s]
  <2>1. s \in DOMAIN Out(h, n)
    BY <1>7
  <2>2. /\ EdgeOK(h, R, s, before)
        /\ e.to = before.to /\ e.paths = before.paths /\ e.tags = before.tags
        /\ e.ids = Ids(before) /\ Ids(e) = Ids(before)
        /\ e.run # << >> => e.runTo \in NodesOf(h)
    BY <1>8, <2>1
  <2> HIDE DEF e, before
  <2>3. EdgeOK(h, R, s, e)
    BY <2>2 DEF EdgeOK
  <2>4. EdgeOK(k, R, s, e)
    BY <1>1, <1>5, <1>9, <2>3, EdgeKept
  <2> QED
    BY <2>4 DEF e
<1>11. GraphOK(k, R)
  BY <1>5, <1>6, <1>7, <1>10 DEF GraphOK
<1>12. \A q, l : Names(k, q, l) => Names(h, q, l)
  BY <1>6, <1>7, <1>8 DEF Names
<1>13. Moved(h, k, R)
  BY <1>5, <1>9, <1>11, <1>12 DEF Moved
<1>14. ASSUME NEW m \in NodesOf(h)
       PROVE  Alive(k, m) = Alive(h, m)
  BY <1>7, <1>8 DEF Alive
<1>15. ASSUME NEW n \in NodesOf(k), NEW s \in DOMAIN Out(k, n)
       PROVE  LET e == Out(k, n)[s]
              IN  e.ids = Ids(e) /\ (e.full => Ids(e) = Alive(k, RunEnd(e)))
  BY <1>6, <1>7, <1>8, <1>14
<1> QED
  BY <1>2, <1>6, <1>13, <1>15

-----------------------------------------------------------------------------
(* Sequences.                                                              *)

\* Sequences over a larger set.
LEMMA SeqGrows ==
    ASSUME NEW S, NEW T, S \subseteq T
    PROVE  Seq(S) \subseteq Seq(T)
BY SeqMonotonic

\* One sequence of some is one over the same set.
LEMMA FlattenIs ==
    ASSUME NEW V, NEW ss \in Seq(Seq(V))
    PROVE  FlattenSeq(ss) \in Seq(V)
<1> DEFINE n == Len(ss)
           Loop(f) == f = [i \in 1..n |-> IF i = 1 THEN ss[i] ELSE f[i - 1] \o ss[i]]
           flatten == CHOOSE f : Loop(f)
<1>1. FlattenSeq(ss) = IF n = 0 THEN ss ELSE flatten[n]
  BY DEF FlattenSeq
<1>2. n \in Nat /\ \A i \in 1..n : ss[i] \in Seq(V)
  BY LenProperties
<1>3. CASE n = 0
  <2>1. ss = << >>
    BY <1>3
  <2> QED
    BY <1>1, <1>3, <2>1
<1>4. CASE n # 0
  <2> DEFINE m == n - 1
             F == [j \in 1..m |-> [c \in Seq(V) |-> c \o ss[j + 1]]]
  <2> HIDE DEF n
  <2>1. m \in Nat /\ 1 \in 1..n
    BY <1>2, <1>4
  <2>2. F \in [1..m -> [Seq(V) -> Seq(V)]]
    <3>1. ASSUME NEW j \in 1..m, NEW c \in Seq(V)
          PROVE  c \o ss[j + 1] \in Seq(V)
      <4>1. j + 1 \in 1..n
        BY <1>2
      <4>2. ss[j + 1] \in Seq(V)
        BY <1>2, <4>1
      <4> QED
        BY <4>2, ConcatProperties
    <3> QED
      BY <3>1
  <2>3. ss[1] \in Seq(V)
    BY <1>2, <2>1
  <2>4. PICK f : Rounds(f, Seq(V), m, F, ss[1])
    <3> HIDE DEF F, m
    <3> QED
      BY <2>1, <2>2, <2>3, RoundsExist
  <2>5. ASSUME NEW j \in 1..m
        PROVE  f[j] = f[j - 1] \o ss[j + 1]
    <3>1. j - 1 \in 0..m
      BY <2>1
    <3>2. f[j - 1] \in Seq(V)
      BY <2>4, <3>1 DEF Rounds
    <3> QED
      BY <2>4, <3>2 DEF Rounds
  <2> DEFINE k == [i \in 1..n |-> f[i - 1]]
  <2>6. Loop(k)
    <3>1. ASSUME NEW i \in 1..n
          PROVE  k[i] = IF i = 1 THEN ss[i] ELSE k[i - 1] \o ss[i]
      <4>1. CASE i = 1
        BY <2>4, <4>1 DEF Rounds
      <4>2. CASE i # 1
        <5>1. i - 1 \in 1..m /\ i - 1 \in 1..n /\ (i - 1) + 1 = i
          BY <1>2, <4>2
        <5>2. f[i - 1] = f[(i - 1) - 1] \o ss[(i - 1) + 1]
          BY <2>5, <5>1
        <5>3. f[i - 1] = f[(i - 1) - 1] \o ss[i]
          BY <5>1, <5>2
        <5> QED
          BY <4>2, <5>1, <5>3
      <4> QED
        BY <4>1, <4>2
    <3> QED
      BY <3>1
  <2>7. Loop(flatten)
    BY <2>6
  <2> HIDE DEF flatten
  <2>8. \A i \in 1..n : flatten[i] = IF i = 1 THEN ss[i] ELSE flatten[i - 1] \o ss[i]
    BY <2>7
  <2> DEFINE b == [i \in 0..m |-> flatten[i + 1]]
  <2>9. b[0] \in Seq(V)
    BY <2>1, <2>3, <2>8
  <2>10. ASSUME NEW j \in 1..m, b[j - 1] \in Seq(V)
         PROVE  b[j] \in Seq(V)
    <3>1. /\ j + 1 \in 1..n /\ j + 1 # 1 /\ (j + 1) - 1 = j /\ (j - 1) + 1 = j
          /\ j \in 0..m /\ j - 1 \in 0..m
      BY <1>2
    <3>2. b[j] = flatten[j + 1] /\ b[j - 1] = flatten[j]
      BY <3>1
    <3>3. flatten[j + 1] = flatten[j] \o ss[j + 1]
      BY <2>8, <3>1
    <3>4. ss[j + 1] \in Seq(V)
      BY <1>2, <3>1
    <3> HIDE DEF b
    <3> QED
      BY <2>10, <3>2, <3>3, <3>4, ConcatProperties
  <2>11. \A j \in 0..m : b[j] \in Seq(V)
    <3> HIDE DEF b, m
    <3> QED
      BY <2>1, <2>9, <2>10, KeptByRounds
  <2>12. b[m] = flatten[n]
    <3>1. m \in 0..m /\ m + 1 = n
      BY <1>2, <2>1
    <3>2. b[m] = flatten[m + 1]
      BY <3>1
    <3> QED
      BY <3>1, <3>2
  <2>13. b[m] \in Seq(V)
    <3> HIDE DEF b
    <3> QED
      BY <2>1, <2>11
  <2> QED
    BY <1>1, <1>4, <2>12, <2>13
<1> QED
  BY <1>3, <1>4

\* All but the last of a sequence, and the last.
LEMMA FrontIs ==
    ASSUME NEW S, NEW s \in Seq(S), s # << >>
    PROVE  /\ Len(s) \in Nat /\ Len(s) >= 1
           /\ Last(s) \in S /\ Last(s) = s[Len(s)]
           /\ Front(s) \in Seq(S) /\ Len(Front(s)) = Len(s) - 1
           /\ \A i \in 1..(Len(s) - 1) : Front(s)[i] = s[i]
<1>1. Len(s) \in Nat /\ Len(s) >= 1
  BY EmptySeq
<1>2. \A i \in 1..Len(s) : s[i] \in S
  BY ElementOfSeq
<1>3. Len(s) \in 1..Len(s)
  BY <1>1
<1>4. Last(s) = s[Len(s)] /\ Last(s) \in S
  BY <1>2, <1>3 DEF Last
<1>5. \A i \in 1..(Len(s) - 1) : s[i] \in S
  BY <1>1, <1>2
<1> DEFINE n == Len(s) - 1
<1>6. /\ SubSeq(s, 1, n) \in Seq(S)
      /\ Len(SubSeq(s, 1, n)) = IF 1 <= n THEN n - 1 + 1 ELSE 0
      /\ \A i \in 1..(n - 1 + 1) : SubSeq(s, 1, n)[i] = s[1 + i - 1]
  <2>1. n \in Int /\ 1 \in Int /\ \A i \in 1..n : s[i] \in S
    BY <1>1, <1>5
  <2> HIDE DEF n
  <2> QED
    BY <2>1, SubSeqProperties
<1>7. Front(s) = SubSeq(s, 1, n)
  BY DEF Front
<1>8. n \in Nat /\ n - 1 + 1 = n
  BY <1>1
<1> HIDE DEF n
<1>9. Front(s) \in Seq(S) /\ Len(Front(s)) = n /\ \A i \in 1..n : Front(s)[i] = s[i]
  BY <1>6, <1>7, <1>8
<1> QED
  BY <1>1, <1>4, <1>9 DEF n

\* A sequence with its last member replaced.
LEMMA LastReplaced ==
    ASSUME NEW S, NEW s \in Seq(S), s # << >>, NEW x \in S
    PROVE  LET t == [s EXCEPT ![Len(s)] = x]
           IN  /\ t \in Seq(S) /\ Len(t) = Len(s) /\ t # << >>
               /\ t[Len(t)] = x
               /\ \A i \in 1..(Len(s) - 1) : t[i] = s[i]
<1>1. Len(s) \in Nat /\ Len(s) >= 1
  BY EmptySeq
<1> QED
  BY <1>1

\* All of a sequence but the last, in front of which more is put.
LEMMA SubFront ==
    ASSUME NEW S, NEW s \in Seq(S), s # << >>
    PROVE  SubSeq(s, 1, Len(s) - 1) = Front(s)
BY DEF Front

-----------------------------------------------------------------------------
(* The invariant of building.                                              *)

\* What is kept of a call of process, over nodes N: each layer read, and there
\* is always one.
LayerSet(N) == [roots : Seq(N), leafs : Seq(N)]
LevelSet(N) ==
    [layers : Seq(LayerSet(N)) \ {<< >>}, initial : Seq(TagSet),
     roots : Seq(N), leafs : Seq(N), group : Nat]

\* The edges a quantifier has still to make, and the calls of absorb.
LinkSet(h, r) ==
    [leaf : NodesOf(h), root : NodesOf(h), limit : OwnLimits(h, r), absorbed : BOOLEAN]
AbsorbSet(N) == [into : N, from : N]

\* The graph is one of the regexes added, and each limit is one regex's.
GraphInv ==
    /\ added \in Seq(Regexes)
    /\ GraphOK(g, AddedRegexes)
    /\ Owned(g)

\* What process keeps is over the nodes there are.  Once the branch at hand has
\* read something, no group was opened that no edge tells of: the next edge may
\* be the one to the end.
ReadInv ==
    /\ adding \in AddedRegexes \cup {NoRegex}
    /\ at \in Nat /\ groups \in Nat
    /\ pending \in Seq(TagSet)
    /\ levels \in Seq(LevelSet(NodesOf(g)))
    /\ adding # NoRegex => levels # << >>
    /\ levels # << >> /\ HasLayer => NoneOpens(pending)

\* The edges still to be made name limits of this regex only.
LinkInv ==
    /\ links \in Seq(LinkSet(g, adding))
    /\ absorbs \in Seq(AbsorbSet(NodesOf(g)))
    /\ adding = NoRegex => links = << >> /\ absorbs = << >>

\* What holds of a matcher while it is built and after.
BuildInv == GraphInv /\ ReadInv /\ LinkInv

\* What a node was compiled to is true of it.
CompiledWell(h, n) ==
    \A s \in DOMAIN Out(h, n) :
        LET e == Out(h, n)[s]
        IN  e.ids = Ids(e) /\ (e.full => Ids(e) = Alive(h, RunEnd(e)))

\* Between the calls of add_regex, the nodes marked compiled are.
CompiledInv ==
    adding = NoRegex => \A n \in NodesOf(g) : g.node[n].compiled => CompiledWell(g, n)

\* What is over the nodes of a graph is over those of a larger one.
LEMMA LevelsGrow ==
    ASSUME NEW N, NEW M, N \subseteq M
    PROVE  /\ Seq(LevelSet(N)) \subseteq Seq(LevelSet(M))
           /\ Seq(AbsorbSet(N)) \subseteq Seq(AbsorbSet(M))
<1>1. Seq(N) \subseteq Seq(M)
  BY SeqGrows
<1>2. LayerSet(N) \subseteq LayerSet(M)
  BY <1>1 DEF LayerSet
<1>3. Seq(LayerSet(N)) \subseteq Seq(LayerSet(M))
  BY <1>2, SeqGrows
<1>4. LevelSet(N) \subseteq LevelSet(M)
  BY <1>1, <1>3 DEF LevelSet
<1>5. AbsorbSet(N) \subseteq AbsorbSet(M)
  BY DEF AbsorbSet
<1> QED
  BY <1>4, <1>5, SeqGrows

\* A graph that grows for a regex keeps that regex's limits its own.
LEMMA LinksGrow ==
    ASSUME NEW h \in GraphSet, NEW k \in GraphSet, NEW r, Grown(h, k, r)
    PROVE  Seq(LinkSet(h, r)) \subseteq Seq(LinkSet(k, r))
<1>1. Len(h.limit) \in Nat /\ Len(k.limit) \in Nat
  BY GraphParts
<1>2. OwnLimits(h, r) \subseteq OwnLimits(k, r)
  BY <1>1 DEF OwnLimits, Grown, Keeps
<1>3. LinkSet(h, r) \subseteq LinkSet(k, r)
  BY <1>2 DEF LinkSet, Grown, Keeps
<1> QED
  BY <1>3, SeqGrows

\* The call of process at hand.
LEMMA LevelIs ==
    ASSUME BuildInv, adding # NoRegex
    PROVE  LET N == NodesOf(g)
           IN  /\ levels # << >>
               /\ Level \in LevelSet(N)
               /\ Level.layers \in Seq(LayerSet(N)) /\ Level.layers # << >>
               /\ Level.initial \in Seq(TagSet) /\ Level.group \in Nat
               /\ Level.roots \in Seq(N) /\ Level.leafs \in Seq(N)
               /\ Leafs \in Seq(N)
<1> DEFINE N == NodesOf(g)
<1>1. levels \in Seq(LevelSet(N)) /\ levels # << >>
  BY DEF BuildInv, ReadInv
<1>2. Level \in LevelSet(N)
  BY <1>1, FrontIs DEF Level
<1>3. /\ Level.layers \in Seq(LayerSet(N)) /\ Level.layers # << >>
      /\ Level.initial \in Seq(TagSet) /\ Level.group \in Nat
      /\ Level.roots \in Seq(N) /\ Level.leafs \in Seq(N)
  BY <1>2 DEF LevelSet
<1>4. Last(Level.layers) \in LayerSet(N)
  BY <1>3, FrontIs
<1>5. Leafs \in Seq(N)
  BY <1>4 DEF Leafs, LayerSet
<1> QED
  BY <1>1, <1>2, <1>3, <1>5

\* A layer more for the call of process at hand.
LEMMA LayerAdded ==
    ASSUME NEW N, NEW lv \in Seq(LevelSet(N)), lv # << >>, NEW layer \in LayerSet(N)
    PROVE  LET k == [lv EXCEPT ![Len(lv)].layers = Append(@, layer)]
           IN  k \in Seq(LevelSet(N)) /\ k # << >>
<1> DEFINE last == lv[Len(lv)]
           more == [last EXCEPT !.layers = Append(@, layer)]
<1>1. last \in LevelSet(N)
  BY FrontIs
<1>2. last.layers \in Seq(LayerSet(N))
  BY <1>1 DEF LevelSet
<1>3. Append(last.layers, layer) \in Seq(LayerSet(N)) \ {<< >>}
  BY <1>2, AppendProperties
<1>4. more \in LevelSet(N)
  BY <1>1, <1>3 DEF LevelSet
<1>5. [lv EXCEPT ![Len(lv)].layers = Append(@, layer)] = [lv EXCEPT ![Len(lv)] = more]
  OBVIOUS
<1> HIDE DEF more
<1>6. /\ [lv EXCEPT ![Len(lv)] = more] \in Seq(LevelSet(N))
      /\ [lv EXCEPT ![Len(lv)] = more] # << >>
  BY <1>4, LastReplaced
<1> QED
  BY <1>5, <1>6

\* An action of building that lets the graph grow for the regex being added keeps
\* what has not to do with its own variables.
LEMMA GraphGrew ==
    ASSUME BuildInv, UNCHANGED <<added, adding>>,
           GraphOK(g', AddedRegexes), Owned(g'), Grown(g, g', adding)
    PROVE  /\ GraphInv'
           /\ NodesOf(g) \subseteq NodesOf(g')
           /\ Seq(NodesOf(g)) \subseteq Seq(NodesOf(g'))
           /\ Seq(LevelSet(NodesOf(g))) \subseteq Seq(LevelSet(NodesOf(g')))
           /\ Seq(AbsorbSet(NodesOf(g))) \subseteq Seq(AbsorbSet(NodesOf(g')))
           /\ Seq(LinkSet(g, adding)) \subseteq Seq(LinkSet(g', adding))
<1>1. g \in GraphSet /\ g' \in GraphSet
  BY DEF BuildInv, GraphInv, GraphOK
<1>2. NodesOf(g) \subseteq NodesOf(g')
  BY DEF Grown, Keeps
<1>3. AddedRegexes' = AddedRegexes
  BY DEF AddedRegexes
<1>4. GraphInv'
  BY <1>3 DEF BuildInv, GraphInv
<1> QED
  BY <1>1, <1>2, <1>4, LevelsGrow, LinksGrow, SeqGrows

\* A graph is moved to itself.
LEMMA MovedNot ==
    ASSUME NEW R, NEW h, GraphOK(h, R)
    PROVE  Moved(h, h, R)
BY GraphParts DEF Moved, Keeps, GraphOK

\* Extending the branch at hand by a node of a symbol that is not the end's.
LEMMA ExtendKeeps ==
    ASSUME BuildInv, UNCHANGED added, adding # NoRegex,
           NEW h, Moved(g, h, AddedRegexes), NEW reused \in Seq(NodesOf(h)),
           NEW sym \in Nat, sym # Eor, NEW members \in SUBSET Chars,
           reused # << >> => SymOf(h, Head(reused)) # Eor,
           Extend(reused, sym, members, h)
    PROVE  BuildInv'
<1> DEFINE R == AddedRegexes
           child == IF reused # << >> THEN Head(reused) ELSE Len(h.node) + 1
           made == IF reused # << >> THEN h ELSE AddNode(h, sym, members)
<1>1. /\ GraphOK(g, R) /\ Owned(g) /\ adding \in R
      /\ pending \in Seq(TagSet) /\ links \in Seq(LinkSet(g, adding))
      /\ absorbs \in Seq(AbsorbSet(NodesOf(g))) /\ groups \in Nat /\ at \in Nat
      /\ levels \in Seq(LevelSet(NodesOf(g))) /\ levels # << >>
  BY DEF BuildInv, GraphInv, ReadInv, LinkInv
<1>2. R \in SUBSET Regexes
  BY DEF BuildInv, GraphInv, AddedRegexes, Range
<1>3. Moved(g, made, R) /\ child \in NodesOf(made) /\ SymOf(made, child) # Eor
  <2>1. GraphOK(h, R)
    BY DEF Moved
  <2>2. CASE reused # << >>
    <3>1. Head(reused) \in NodesOf(h)
      BY <2>2, HeadTailProperties
    <3> QED
      BY <2>2, <3>1
  <2>3. CASE reused = << >>
    <3>1. LET k == AddNode(h, sym, members)
          IN  /\ Moved(h, k, R)
              /\ NodesOf(k) = NodesOf(h) \cup {Len(h.node) + 1}
              /\ SymOf(k, Len(h.node) + 1) = sym
      BY <2>1, NodeAdded
    <3> QED
      BY <2>3, <3>1, MovedTwice
  <2> QED
    BY <2>2, <2>3
<1>4. g' = ConnectAll(made, Leafs, child)
  BY DEF Extend
<1>5. /\ levels' = [levels EXCEPT ![Len(levels)].layers =
                        Append(@, [roots |-> <<child>>, leafs |-> <<child>>])]
      /\ pending' = << >> /\ at' = at + 1
      /\ UNCHANGED <<adding, groups, links, absorbs>>
  BY DEF Extend, AddLayer
<1> HIDE DEF child, made, R
<1>6. Leafs \in Seq(NodesOf(made))
  <2>1. Leafs \in Seq(NodesOf(g))
    BY LevelIs
  <2>2. NodesOf(g) \subseteq NodesOf(made)
    BY <1>3 DEF Moved, Keeps
  <2> QED
    BY <2>1, <2>2, SeqGrows
<1>7. Owned(made) /\ Grown(g, made, adding) /\ GraphOK(made, R)
  BY <1>1, <1>3, MovedIsGrown DEF Moved
<1>8. GraphOK(g', R) /\ Owned(g') /\ Grown(made, g', adding) /\ NodesOf(g') = NodesOf(made)
  BY <1>1, <1>2, <1>3, <1>4, <1>6, <1>7, ConnectAllGrows
<1>9. Grown(g, g', adding)
  <2>1. g \in GraphSet /\ made \in GraphSet /\ g' \in GraphSet
    BY <1>1, <1>7, <1>8 DEF GraphOK
  <2> QED
    BY <1>7, <1>8, <2>1, GrownTwice
<1>10. /\ GraphInv'
       /\ Seq(LevelSet(NodesOf(g))) \subseteq Seq(LevelSet(NodesOf(g')))
       /\ Seq(AbsorbSet(NodesOf(g))) \subseteq Seq(AbsorbSet(NodesOf(g')))
       /\ Seq(LinkSet(g, adding)) \subseteq Seq(LinkSet(g', adding))
  BY <1>5, <1>8, <1>9, GraphGrew DEF R
<1>11. levels' \in Seq(LevelSet(NodesOf(g'))) /\ levels' # << >>
  <2>1. [roots |-> <<child>>, leafs |-> <<child>>] \in LayerSet(NodesOf(g'))
    <3>1. child \in NodesOf(g')
      BY <1>3, <1>8
    <3>2. <<child>> \in Seq(NodesOf(g'))
      BY <3>1
    <3> QED
      BY <3>2 DEF LayerSet
  <2>2. levels \in Seq(LevelSet(NodesOf(g')))
    BY <1>1, <1>10
  <2> QED
    BY <1>1, <1>5, <2>1, <2>2, LayerAdded
<1>12. AddedRegexes' = R
  BY DEF AddedRegexes, R
<1>13. ReadInv'
  <2>1. pending' \in Seq(TagSet) /\ NoneOpens(pending')
    BY <1>5 DEF NoneOpens
  <2> QED
    BY <1>1, <1>5, <1>11, <1>12, <2>1 DEF ReadInv
<1>14. LinkInv'
  BY <1>1, <1>5, <1>10 DEF LinkInv, BuildInv
<1> QED
  BY <1>10, <1>13, <1>14 DEF BuildInv

\* The least of some numbers is one of them.
LEMMA LeastIs ==
    ASSUME NEW S \in SUBSET Nat, S # {}
    PROVE  Least(S) \in S /\ \A y \in S : Least(S) <= y
BY LeastNumber DEF Least

\* The token at hand, by its kind.
LEMMA TokenIs ==
    ASSUME BuildInv, NEW kind, Reads(kind)
    PROVE  /\ adding # NoRegex /\ links = << >> /\ absorbs = << >>
           /\ adding \in AddedRegexes /\ adding \in Regexes
           /\ at + 1 \in Nat
           /\ kind = "char" => Token.sym \in Chars \cup {AnySym}
           /\ kind = "class" => Token.members \in SUBSET Chars
           /\ kind = "repeat" => Token.min \in Nat /\ Token.max \in Nat \cup {Unbounded}
<1>1. adding # NoRegex /\ links = << >> /\ absorbs = << >> /\ at < Len(tokens)
      /\ Token.kind = kind
  BY DEF Reads, Reading
<1>2. adding \in AddedRegexes /\ at \in Nat
  BY <1>1 DEF BuildInv, ReadInv
<1>3. adding \in Regexes
  BY <1>2 DEF BuildInv, GraphInv, AddedRegexes, Range
<1>4. tokens \in Seq(TokenSet)
  BY <1>3, TokensAssumption DEF tokens
<1>5. at + 1 \in 1..Len(tokens)
  BY <1>1, <1>2, <1>4, LenProperties
<1>6. Token \in TokenSet
  BY <1>4, <1>5, ElementOfSeq DEF Token
<1>7. /\ kind = "char" => Token.sym \in Chars \cup {AnySym}
      /\ kind = "class" => Token.members \in SUBSET Chars
      /\ kind = "repeat" => Token.min \in Nat /\ Token.max \in Nat \cup {Unbounded}
  <2> DEFINE t == Token
  <2>1. t \in TokenSet /\ t.kind = kind
    BY <1>1, <1>6
  <2> HIDE DEF t
  <2>2. kind = "char" => t.sym \in Chars \cup {AnySym}
    BY <2>1 DEF TokenSet
  <2>3. kind = "class" => t.members \in SUBSET Chars
    BY <2>1 DEF TokenSet
  <2>4. kind = "repeat" => t.min \in Nat /\ t.max \in Nat \cup {Unbounded}
    BY <2>1 DEF TokenSet
  <2> QED
    BY <2>2, <2>3, <2>4 DEF t
<1> QED
  BY <1>1, <1>2, <1>3, <1>7

\* A node the graph leads to.
LEMMA ChildIs ==
    ASSUME NEW R, NEW h, GraphOK(h, R), NEW n \in NodesOf(h), NEW s, HasChild(h, n, s)
    PROVE  Child(h, n, s) \in NodesOf(h) /\ SymOf(h, Child(h, n, s)) = s
BY DEF GraphOK, EdgeOK, Child, HasChild

\* A character or the wildcard is read.
LEMMA CharacterKeeps ==
    ASSUME BuildInv, UNCHANGED added, Character
    PROVE  BuildInv'
<1> DEFINE sym == Token.sym
           leading == {i \in DOMAIN Leafs : HasChild(g, Leafs[i], sym)}
           reused == IF leading = {} THEN << >> ELSE <<Child(g, Leafs[Least(leading)], sym)>>
<1>1. Reads("char") /\ Extend(reused, sym, {}, g)
  BY DEF Character
<1>2. adding # NoRegex /\ sym \in Chars \cup {AnySym}
  BY <1>1, TokenIs
<1> HIDE DEF sym
<1>3. sym \in Nat /\ sym # Eor
  BY <1>2, CharsAssumption DEF AnySym, Eor
<1>4. GraphOK(g, AddedRegexes)
  BY DEF BuildInv, GraphInv
<1>5. Leafs \in Seq(NodesOf(g))
  BY <1>2, LevelIs
<1>6. ASSUME leading # {}
      PROVE  /\ Child(g, Leafs[Least(leading)], sym) \in NodesOf(g)
             /\ SymOf(g, Child(g, Leafs[Least(leading)], sym)) = sym
  <2>1. leading \in SUBSET Nat
    BY <1>5, LenProperties
  <2>2. Least(leading) \in leading
    BY <1>6, <2>1, LeastIs
  <2>3. Leafs[Least(leading)] \in NodesOf(g) /\ HasChild(g, Leafs[Least(leading)], sym)
    BY <1>5, <2>2, ElementOfSeq, LenProperties
  <2> QED
    BY <1>4, <2>3, ChildIs
<1>7. reused \in Seq(NodesOf(g)) /\ (reused # << >> => SymOf(g, Head(reused)) # Eor)
  <2>1. CASE leading = {}
    BY <2>1
  <2>2. CASE leading # {}
    <3> DEFINE child == Child(g, Leafs[Least(leading)], sym)
    <3>1. child \in NodesOf(g) /\ SymOf(g, child) = sym /\ reused = <<child>>
      BY <1>6, <2>2
    <3> HIDE DEF child, reused
    <3>2. Head(<<child>>) = child /\ <<child>> \in Seq(NodesOf(g))
      BY <3>1
    <3> QED
      BY <1>3, <3>1, <3>2
  <2> QED
    BY <2>1, <2>2
<1>8. Moved(g, g, AddedRegexes)
  BY <1>4, MovedNot
<1> HIDE DEF reused
<1> QED
  BY <1>1, <1>2, <1>3, <1>7, <1>8, ExtendKeeps

\* A class is read.
LEMMA ClassKeeps ==
    ASSUME BuildInv, UNCHANGED added, Class
    PROVE  BuildInv'
<1> DEFINE Same(p) ==
               {s \in DOMAIN Out(g, p) :
                   IsClass(s) /\ g.node[Child(g, p, s)].members = Token.members}
           leading == {i \in DOMAIN Leafs : Same(Leafs[i]) # {}}
           first == Leafs[Least(leading)]
           reused == IF leading = {} THEN << >> ELSE <<Child(g, first, Least(Same(first)))>>
           sym == ClassSym(g.classes + 1)
           counted == [g EXCEPT !.classes = @ + 1]
           h == IF reused = << >> THEN counted ELSE g
<1>1. Reads("class") /\ Extend(reused, sym, Token.members, h)
  BY DEF Class
<1>2. adding # NoRegex /\ Token.members \in SUBSET Chars
  BY <1>1, TokenIs
<1>3. GraphOK(g, AddedRegexes) /\ g \in GraphSet
  BY DEF BuildInv, GraphInv, GraphOK
<1>4. sym \in Nat /\ sym # Eor
  <2>1. g.classes \in Nat
    BY <1>3, GraphParts
  <2> QED
    BY <2>1 DEF ClassSym, Eor
<1>5. Leafs \in Seq(NodesOf(g))
  BY <1>2, LevelIs
<1>6. ASSUME leading # {}
      PROVE  /\ Child(g, first, Least(Same(first))) \in NodesOf(g)
             /\ SymOf(g, Child(g, first, Least(Same(first)))) # Eor
  <2>1. leading \in SUBSET Nat
    BY <1>5, LenProperties
  <2>2. Least(leading) \in leading
    BY <1>6, <2>1, LeastIs
  <2>3. first \in NodesOf(g) /\ Same(first) # {}
    BY <1>5, <2>2, ElementOfSeq, LenProperties
  <2>4. Same(first) \in SUBSET Nat
    BY <1>3, <2>3, GraphParts
  <2>5. Least(Same(first)) \in Same(first)
    <3> HIDE DEF Same, first
    <3> QED
      BY <2>3, <2>4, LeastIs
  <2> DEFINE s == Least(Same(first))
  <2>6. HasChild(g, first, s) /\ s > 100 /\ s \in Nat
    BY <2>4, <2>5 DEF HasChild, IsClass
  <2> HIDE DEF s, first
  <2>7. Child(g, first, s) \in NodesOf(g) /\ SymOf(g, Child(g, first, s)) = s
    BY <1>3, <2>3, <2>6, ChildIs
  <2> QED
    BY <2>6, <2>7 DEF s, Eor
<1>7. Moved(g, h, AddedRegexes) /\ h.node = g.node
  BY <1>3, ClassesCounted, MovedNot
<1>8. reused \in Seq(NodesOf(h)) /\ (reused # << >> => SymOf(h, Head(reused)) # Eor)
  <2>1. CASE leading = {}
    <3>1. reused = << >>
      BY <2>1
    <3> HIDE DEF reused
    <3> QED
      BY <3>1
  <2>2. CASE leading # {}
    <3> DEFINE child == Child(g, first, Least(Same(first)))
    <3>1. child \in NodesOf(g) /\ SymOf(g, child) # Eor /\ reused = <<child>>
      BY <1>6, <2>2
    <3>2. child \in NodesOf(h) /\ SymOf(h, child) # Eor
      BY <1>7, <3>1 DEF NodesOf, SymOf
    <3> HIDE DEF child, reused, h
    <3>3. Head(<<child>>) = child /\ <<child>> \in Seq(NodesOf(h))
      BY <3>2
    <3> QED
      BY <3>1, <3>2, <3>3
  <2> QED
    BY <2>1, <2>2
<1> HIDE DEF reused, sym, h
<1> QED
  BY <1>1, <1>2, <1>4, <1>7, <1>8, ExtendKeeps

\* A branch that has read something is over the nodes there are.
LEMMA BranchIs ==
    ASSUME BuildInv, adding # NoRegex, HasLayer
    PROVE  Branch(Level) \in LayerSet(NodesOf(g))
<1> DEFINE N == NodesOf(g)
           layers == Level.layers
<1>1. /\ layers \in Seq(LayerSet(N)) /\ layers # << >>
      /\ Level.roots \in Seq(N) /\ Level.leafs \in Seq(N) /\ Leafs \in Seq(N)
  BY LevelIs
<1>2. Len(layers) \in Nat /\ 2 \in 1..Len(layers)
  BY <1>1, LenProperties DEF HasLayer
<1>3. layers[2].leafs \in Seq(N)
  <2>1. layers[2] \in LayerSet(N)
    BY <1>1, <1>2, ElementOfSeq
  <2> QED
    BY <2>1 DEF LayerSet
<1>4. Level.roots \o layers[2].leafs \in Seq(N) /\ Level.leafs \o Leafs \in Seq(N)
  BY <1>1, <1>3, ConcatProperties
<1>5. Branch(Level) = [roots |-> Level.roots \o layers[2].leafs,
                       leafs |-> Level.leafs \o Leafs]
  BY DEF Branch, Leafs
<1> QED
  BY <1>4, <1>5 DEF LayerSet

\* What a step of reading that changes no graph has to show.
LEMMA OnlyReadKeeps ==
    ASSUME BuildInv, adding # NoRegex, UNCHANGED <<g, added, adding, links, absorbs>>,
           at' = at + 1, groups' \in Nat, pending' \in Seq(TagSet),
           levels' \in Seq(LevelSet(NodesOf(g))), levels' # << >>,
           HasLayer' => NoneOpens(pending')
    PROVE  BuildInv'
<1>1. AddedRegexes' = AddedRegexes
  BY DEF AddedRegexes
<1>2. GraphInv'
  BY <1>1 DEF BuildInv, GraphInv
<1>3. ReadInv'
  BY <1>1 DEF BuildInv, ReadInv
<1>4. LinkInv'
  BY DEF BuildInv, LinkInv
<1> QED
  BY <1>2, <1>3, <1>4 DEF BuildInv

\* A group opens.
LEMMA OpenGroupKeeps ==
    ASSUME BuildInv, UNCHANGED added, OpenGroup
    PROVE  BuildInv'
<1> DEFINE N == NodesOf(g)
           new == NewLevel(Leafs, pending', groups)
<1>1. adding # NoRegex /\ levels # << >>
  BY TokenIs DEF OpenGroup, BuildInv, ReadInv
<1>2. /\ pending \in Seq(TagSet) /\ groups \in Nat
      /\ levels \in Seq(LevelSet(N)) /\ Leafs \in Seq(N)
  BY <1>1, LevelIs DEF BuildInv, ReadInv
<1>3. /\ pending' = Append(pending, [open |-> TRUE, group |-> groups])
      /\ levels' = Append(levels, new)
      /\ groups' = groups + 1 /\ at' = at + 1
      /\ UNCHANGED <<g, adding, links, absorbs>>
  BY DEF OpenGroup
<1>4. pending' \in Seq(TagSet)
  <2>1. [open |-> TRUE, group |-> groups] \in TagSet
    BY <1>2 DEF TagSet
  <2> QED
    BY <1>2, <1>3, <2>1, AppendProperties
<1>5. new \in LevelSet(N) /\ Len(new.layers) = 1
  <2>1. [roots |-> Leafs, leafs |-> Leafs] \in LayerSet(N)
    BY <1>2 DEF LayerSet
  <2>2. /\ <<[roots |-> Leafs, leafs |-> Leafs]>> \in Seq(LayerSet(N)) \ {<< >>}
        /\ Len(<<[roots |-> Leafs, leafs |-> Leafs]>>) = 1
    BY <2>1
  <2>3. << >> \in Seq(N)
    OBVIOUS
  <2> HIDE DEF N
  <2> QED
    BY <1>2, <1>4, <2>2, <2>3 DEF NewLevel, LevelSet
<1> HIDE DEF new
<1>6. levels' \in Seq(LevelSet(N)) /\ levels' # << >> /\ levels'[Len(levels')] = new
  BY <1>2, <1>3, <1>5, AppendProperties
<1>7. ~HasLayer'
  <2>1. Level' = new
    BY <1>6 DEF Level
  <2>2. Len(Level'.layers) = 1
    BY <1>5, <2>1
  <2>3. HasLayer' <=> Len(Level'.layers) > 1
    BY DEF HasLayer
  <2> QED
    BY <2>2, <2>3
<1> QED
  BY <1>1, <1>2, <1>3, <1>4, <1>6, <1>7, OnlyReadKeeps

\* A group closes.
LEMMA CloseGroupKeeps ==
    ASSUME BuildInv, UNCHANGED added, CloseGroup
    PROVE  BuildInv'
<1> DEFINE N == NodesOf(g)
<1>1. adding # NoRegex /\ levels # << >> /\ HasLayer /\ Len(levels) > 1
  BY TokenIs DEF CloseGroup, BuildInv, ReadInv
<1>2. /\ pending \in Seq(TagSet) /\ groups \in Nat
      /\ levels \in Seq(LevelSet(N)) /\ Level.group \in Nat /\ NoneOpens(pending)
  BY <1>1, LevelIs DEF BuildInv, ReadInv
<1>3. /\ pending' = Append(pending, [open |-> FALSE, group |-> Level.group])
      /\ levels' = [Outer EXCEPT ![Len(Outer)].layers = Append(@, Branch(Level))]
      /\ UNCHANGED groups /\ at' = at + 1
      /\ UNCHANGED <<g, adding, links, absorbs>>
  BY DEF CloseGroup
<1>4. pending' \in Seq(TagSet) /\ NoneOpens(pending')
  <2> DEFINE tag == [open |-> FALSE, group |-> Level.group]
  <2>1. tag \in TagSet /\ ~tag.open
    BY <1>2 DEF TagSet
  <2> HIDE DEF tag
  <2>2. pending' = Append(pending, tag)
    BY <1>3 DEF tag
  <2>3. /\ pending' \in Seq(TagSet) /\ Len(pending') = Len(pending) + 1
        /\ pending'[Len(pending) + 1] = tag
        /\ \A i \in 1..Len(pending) : pending'[i] = pending[i]
    BY <1>2, <2>1, <2>2, AppendProperties
  <2>4. Len(pending) \in Nat /\ DOMAIN pending = 1..Len(pending)
        /\ DOMAIN pending' = 1..Len(pending')
    BY <1>2, <2>3, LenProperties
  <2> QED
    BY <1>2, <2>1, <2>3, <2>4 DEF NoneOpens
<1>5. Outer \in Seq(LevelSet(N)) /\ Outer # << >>
  <2>1. Outer = Front(levels)
    BY <1>1, <1>2, SubFront DEF Outer
  <2>2. Front(levels) \in Seq(LevelSet(N)) /\ Len(Front(levels)) = Len(levels) - 1
    BY <1>1, <1>2, FrontIs
  <2>3. Len(Outer) > 0
    BY <1>1, <1>2, <2>1, <2>2, LenProperties
  <2> QED
    BY <2>1, <2>2, <2>3, EmptySeq
<1>6. Branch(Level) \in LayerSet(N)
  BY <1>1, BranchIs
<1>7. levels' \in Seq(LevelSet(N)) /\ levels' # << >>
  BY <1>3, <1>5, <1>6, LayerAdded
<1> QED
  BY <1>1, <1>2, <1>3, <1>4, <1>7, OnlyReadKeeps

\* A branch ends and the next begins.
LEMMA AlternateKeeps ==
    ASSUME BuildInv, UNCHANGED added, Alternate
    PROVE  BuildInv'
<1> DEFINE N == NodesOf(g)
           branch == Branch(Level)
           next == [Level EXCEPT !.roots = branch.roots, !.leafs = branch.leafs,
                                 !.layers = <<Head(@)>>]
<1>1. adding # NoRegex /\ levels # << >> /\ HasLayer
  BY TokenIs DEF Alternate, BuildInv, ReadInv
<1>2. /\ groups \in Nat /\ levels \in Seq(LevelSet(N))
      /\ Level \in LevelSet(N) /\ Level.initial \in Seq(TagSet)
      /\ Level.layers \in Seq(LayerSet(N)) /\ Level.layers # << >>
  BY <1>1, LevelIs DEF BuildInv, ReadInv
<1>3. /\ pending' = Level.initial
      /\ levels' = [levels EXCEPT ![Len(levels)] = next]
      /\ UNCHANGED groups /\ at' = at + 1
      /\ UNCHANGED <<g, adding, links, absorbs>>
  BY DEF Alternate, Level
<1>4. branch.roots \in Seq(N) /\ branch.leafs \in Seq(N)
  BY <1>1, BranchIs DEF LayerSet
<1>5. next \in LevelSet(N) /\ Len(next.layers) = 1
  <2>1. Head(Level.layers) \in LayerSet(N)
    BY <1>2, HeadTailProperties
  <2>2. <<Head(Level.layers)>> \in Seq(LayerSet(N)) \ {<< >>}
        /\ Len(<<Head(Level.layers)>>) = 1
    BY <2>1
  <2> HIDE DEF branch, N
  <2> QED
    BY <1>2, <1>4, <2>2 DEF LevelSet
<1> HIDE DEF next
<1>6. levels' \in Seq(LevelSet(N)) /\ levels' # << >> /\ levels'[Len(levels')] = next
  BY <1>1, <1>2, <1>3, <1>5, LastReplaced
<1>7. ~HasLayer'
  <2>1. Level' = next
    BY <1>6 DEF Level
  <2>2. Len(Level'.layers) = 1
    BY <1>5, <2>1
  <2>3. HasLayer' <=> Len(Level'.layers) > 1
    BY DEF HasLayer
  <2> QED
    BY <2>2, <2>3
<1> QED
  BY <1>1, <1>2, <1>3, <1>6, <1>7, OnlyReadKeeps

\* The bounds of a quantifier are a limit.
LEMMA OneLessIs ==
    ASSUME NEW min \in Nat, NEW max \in Nat \cup {Unbounded}
    PROVE  OneLess([min |-> min, max |-> max, quantifier |-> TRUE]) \in LimitSet
<1> DEFINE l == [min |-> min, max |-> max, quantifier |-> TRUE]
           low == IF l.min = 0 THEN 0 ELSE l.min - 1
           high == IF l.max = Unbounded THEN l.max
                   ELSE (l.max + MaxSize) % (MaxSize + 1)
<1>1. l \in LimitSet /\ l.min \in Nat /\ l.max \in Nat \cup {Unbounded}
  BY DEF LimitSet, Unbounded
<1> HIDE DEF l
<1>2. low \in Nat
  BY <1>1
<1>3. high \in Int
  <2>1. CASE l.max = Unbounded
    BY <2>1 DEF Unbounded
  <2>2. CASE l.max # Unbounded
    <3>1. l.max + MaxSize \in Int /\ MaxSize + 1 \in Int /\ MaxSize + 1 > 0
      BY <1>1, <2>2, SizeAssumption
    <3> QED
      BY <2>2, <3>1
  <2> QED
    BY <2>1, <2>2
<1>4. OneLess(l) = [l EXCEPT !.min = low, !.max = high]
  BY DEF OneLess
<1> HIDE DEF low, high
<1>5. OneLess(l) \in LimitSet
  BY <1>1, <1>2, <1>3, <1>4 DEF LimitSet
<1> QED
  BY <1>5 DEF l

\* A quantifier is read.
LEMMA RepeatKeeps ==
    ASSUME BuildInv, UNCHANGED added, Repeat
    PROVE  BuildInv'
<1> DEFINE R == AddedRegexes
           N == NodesOf(g)
           layers == Level.layers
           latest == Last(layers)
           before == layers[Len(layers) - 1]
           limit == OneLess([min |-> Token.min, max |-> Token.max, quantifier |-> TRUE])
           Link(i, j) == [leaf |-> latest.leafs[i], root |-> latest.roots[j],
                          limit |-> FreshLimit(g), absorbed |-> FALSE]
           wider == [latest EXCEPT !.leafs = @ \o before.leafs]
           level == [Level EXCEPT !.layers = [@ EXCEPT ![Len(layers)] = wider]]
<1>1. Reads("repeat") /\ HasLayer
  BY DEF Repeat
<1>2. adding # NoRegex /\ limit \in LimitSet
  BY <1>1, TokenIs, OneLessIs
<1>3. /\ g' = [g EXCEPT !.limit = Append(g.limit, limit)]
      /\ UNCHANGED <<adding, groups, pending, absorbs>> /\ at' = at + 1
      /\ levels' = levels
         \/ levels' = [levels EXCEPT ![Len(levels)].layers[Len(layers)].leafs = @ \o before.leafs]
      /\ links' = << >>
         \/ links' = FlattenSeq([i \in DOMAIN latest.leafs |->
                                    [j \in DOMAIN latest.roots |-> Link(i, j)]])
  BY DEF Repeat
<1>4. /\ GraphOK(g, R) /\ Owned(g) /\ R \in SUBSET Regexes /\ adding \in R
      /\ g.limit \in Seq(LimitSet) /\ Len(g.limit) \in Nat
      /\ pending \in Seq(TagSet) /\ NoneOpens(pending)
      /\ absorbs \in Seq(AbsorbSet(N)) /\ groups \in Nat /\ at \in Nat
      /\ levels \in Seq(LevelSet(N)) /\ levels # << >>
  <2>1. GraphOK(g, R)
    BY DEF BuildInv, GraphInv
  <2>2. g.limit \in Seq(LimitSet) /\ Len(g.limit) \in Nat
    BY <2>1, GraphParts DEF GraphOK
  <2> QED
    BY <1>1, <1>2, <2>1, <2>2
       DEF BuildInv, GraphInv, ReadInv, LinkInv, AddedRegexes, Range
<1>5. /\ layers \in Seq(LayerSet(N)) /\ layers # << >> /\ Level \in LevelSet(N)
      /\ Len(layers) \in Nat /\ Len(layers) - 1 \in 1..Len(layers)
  <2>1. layers \in Seq(LayerSet(N)) /\ layers # << >> /\ Level \in LevelSet(N)
    BY <1>2, LevelIs
  <2> QED
    BY <1>1, <2>1, LenProperties DEF HasLayer
<1>6. latest \in LayerSet(N) /\ before \in LayerSet(N) /\ latest = layers[Len(layers)]
  BY <1>5, FrontIs, ElementOfSeq
<1> HIDE DEF limit
<1> DEFINE more == Append(g.limit, limit)
<1>7. /\ more \in Seq(LimitSet) /\ Len(more) = Len(g.limit) + 1
  BY <1>2, <1>4, AppendProperties
<1> HIDE DEF more
<1>8. /\ GraphOK(g', R) /\ g'.limit = more /\ Keeps(g, g') /\ NodesOf(g') = N
      /\ \A q, l : Names(g', q, l) <=> Names(g, q, l)
  <2>1. g' = [g EXCEPT !.limit = more]
    BY <1>3 DEF more
  <2>2. Len(g.limit) <= Len(more)
    BY <1>4, <1>7
  <2> QED
    BY <1>4, <1>7, <2>1, <2>2, LimitsSet
<1>9. Owned(g') /\ Grown(g, g', adding)
  BY <1>4, <1>8 DEF Owned, Grown
<1>10. GraphInv'
  BY <1>3, <1>8, <1>9, GraphGrew
<1>11. levels' \in Seq(LevelSet(N)) /\ levels' # << >>
  <2>1. CASE levels' = levels
    BY <1>4, <2>1
  <2>2. CASE levels' = [levels EXCEPT ![Len(levels)].layers[Len(layers)].leafs = @ \o before.leafs]
    <3>1. wider \in LayerSet(N)
      <4>1. latest.leafs \o before.leafs \in Seq(N)
        BY <1>6, ConcatProperties DEF LayerSet
      <4> HIDE DEF latest, before
      <4> QED
        BY <1>6, <4>1 DEF LayerSet
    <3> HIDE DEF wider
    <3>2. [layers EXCEPT ![Len(layers)] = wider] \in Seq(LayerSet(N)) \ {<< >>}
      BY <1>5, <3>1, LastReplaced
    <3>3. level \in LevelSet(N)
      BY <1>5, <3>2 DEF LevelSet
    <3>4. levels' = [levels EXCEPT ![Len(levels)] = level]
      BY <1>6, <2>2 DEF wider, Level
    <3> HIDE DEF level
    <3> QED
      BY <1>4, <3>3, <3>4, LastReplaced
  <2> QED
    BY <1>3, <2>1, <2>2
<1>12. links' \in Seq(LinkSet(g', adding))
  <2>1. FreshLimit(g) \in OwnLimits(g', adding)
    <3>1. FreshLimit(g) \in 1..Len(g'.limit)
      BY <1>4, <1>7, <1>8 DEF FreshLimit
    <3>2. ASSUME NEW q, Names(g', q, FreshLimit(g))
          PROVE  FALSE
      <4>1. FreshLimit(g) \in 0..Len(g.limit)
        BY <1>4, <1>8, <3>2, NamedIs
      <4> QED
        BY <1>4, <4>1 DEF FreshLimit
    <3> QED
      BY <3>1, <3>2 DEF OwnLimits
  <2> DEFINE row == [i \in DOMAIN latest.leafs |-> [j \in DOMAIN latest.roots |-> Link(i, j)]]
             L == LinkSet(g', adding)
  <2>2. latest.leafs \in Seq(N) /\ latest.roots \in Seq(N)
    BY <1>6 DEF LayerSet
  <2>3. ASSUME NEW i \in DOMAIN latest.leafs, NEW j \in DOMAIN latest.roots
        PROVE  Link(i, j) \in L
    <3>1. latest.leafs[i] \in N /\ latest.roots[j] \in N
      BY <2>2, ElementOfSeq, LenProperties
    <3> HIDE DEF latest
    <3> QED
      BY <1>8, <2>1, <3>1 DEF LinkSet
  <2> HIDE DEF Link, L, latest
  <2>4. row \in Seq(Seq(L))
    <3>1. /\ Len(latest.leafs) \in Nat /\ DOMAIN latest.leafs = 1..Len(latest.leafs)
          /\ Len(latest.roots) \in Nat /\ DOMAIN latest.roots = 1..Len(latest.roots)
      BY <2>2, LenProperties
    <3>2. \A i \in DOMAIN latest.leafs : [j \in DOMAIN latest.roots |-> Link(i, j)] \in Seq(L)
      BY <2>3, <3>1, IsASeq
    <3> QED
      BY <3>1, <3>2, IsASeq
  <2>5. FlattenSeq(row) \in Seq(L)
    <3> HIDE DEF row
    <3> QED
      BY <2>4, FlattenIs
  <2>6. << >> \in Seq(L)
    OBVIOUS
  <2> QED
    BY <1>3, <2>5, <2>6 DEF L
<1>13. AddedRegexes' = R
  BY DEF AddedRegexes
<1>14. ReadInv'
  <2>1. levels' \in Seq(LevelSet(NodesOf(g')))
    BY <1>8, <1>11
  <2>2. NoneOpens(pending')
    BY <1>3, <1>4
  <2> QED
    BY <1>3, <1>4, <1>11, <1>13, <2>1, <2>2 DEF ReadInv
<1>15. LinkInv'
  BY <1>2, <1>3, <1>4, <1>8, <1>12 DEF LinkInv
<1> QED
  BY <1>10, <1>14, <1>15 DEF BuildInv

\* What a step that links or absorbs has to show.
LEMMA RewiredKeeps ==
    ASSUME BuildInv, adding # NoRegex, UNCHANGED <<added, adding, at, groups, pending, levels>>,
           GraphOK(g', AddedRegexes), Owned(g'), Grown(g, g', adding),
           links' \in Seq(LinkSet(g', adding)), absorbs' \in Seq(AbsorbSet(NodesOf(g')))
    PROVE  BuildInv'
<1>1. /\ GraphInv'
      /\ Seq(LevelSet(NodesOf(g))) \subseteq Seq(LevelSet(NodesOf(g')))
  BY GraphGrew
<1>2. /\ adding \in AddedRegexes \cup {NoRegex}
      /\ at \in Nat /\ groups \in Nat
      /\ pending \in Seq(TagSet)
      /\ levels \in Seq(LevelSet(NodesOf(g)))
      /\ levels # << >>
      /\ HasLayer => NoneOpens(pending)
  BY DEF BuildInv, ReadInv
<1>3. AddedRegexes' = AddedRegexes
  BY DEF AddedRegexes
<1>4. HasLayer' <=> HasLayer
  BY DEF HasLayer, Level
<1>5. NoneOpens(pending') <=> NoneOpens(pending)
  OBVIOUS
<1>6. levels' \in Seq(LevelSet(NodesOf(g')))
  BY <1>1, <1>2
<1>7. ReadInv'
  BY <1>2, <1>3, <1>4, <1>5, <1>6 DEF ReadInv
<1>8. LinkInv'
  BY DEF LinkInv
<1> QED
  BY <1>1, <1>7, <1>8 DEF BuildInv

\* The link at hand.
LEMMA LinkIs ==
    ASSUME BuildInv, links # << >>
    PROVE  LET l == Head(links)
           IN  /\ adding # NoRegex /\ adding \in AddedRegexes
               /\ AddedRegexes \in SUBSET Regexes
               /\ l.leaf \in NodesOf(g) /\ l.root \in NodesOf(g)
               /\ l.limit \in OwnLimits(g, adding) /\ l.absorbed \in BOOLEAN
               /\ Tail(links) \in Seq(LinkSet(g, adding))
<1>1. /\ links \in Seq(LinkSet(g, adding)) /\ adding # NoRegex
      /\ adding \in AddedRegexes /\ AddedRegexes \in SUBSET Regexes
  BY DEF BuildInv, GraphInv, ReadInv, LinkInv, AddedRegexes, Range
<1>2. Head(links) \in LinkSet(g, adding) /\ Tail(links) \in Seq(LinkSet(g, adding))
  BY <1>1, HeadTailProperties
<1> QED
  BY <1>1, <1>2 DEF LinkSet

\* An edge of a node led to another node of its symbol.
LEMMA EdgeLedElsewhere ==
    ASSUME NEW R, NEW h, GraphOK(h, R), NEW n \in NodesOf(h), NEW to \in NodesOf(h)
    PROVE  LET s == SymOf(h, to)
           IN  Moved(h, SetEdge(h, n, s, [EdgeAt(h, n, s) EXCEPT !.to = to]), R)
<1> DEFINE s == SymOf(h, to)
           e == EdgeAt(h, n, s)
           led == [e EXCEPT !.to = to]
<1>1. h \in GraphSet /\ to \in Nat /\ s \in Nat
  <2>1. h \in GraphSet
    BY DEF GraphOK
  <2> QED
    BY <2>1, GraphParts
<1>2. /\ e \in EdgeSet
      /\ HasChild(h, n, s) => e = Out(h, n)[s]
      /\ ~HasChild(h, n, s) =>
             Ids(e) = {} /\ DOMAIN e.tags = {} /\ e.run = << >> /\ e.ids = {}
  BY <1>1, EdgeAtIs
<1>3. HasChild(h, n, s) => EdgeOK(h, R, s, e)
  BY <1>2 DEF GraphOK, HasChild
<1> HIDE DEF e
<1>4. /\ led \in EdgeSet
      /\ led.to = to /\ led.paths = e.paths /\ led.tags = e.tags /\ led.ids = e.ids
      /\ led.run = e.run /\ led.runTo = e.runTo
  BY <1>1, <1>2 DEF EdgeSet
<1> HIDE DEF led
<1>5. Ids(led) = Ids(e)
  BY <1>4 DEF Ids
<1>6. EdgeOK(h, R, s, led)
  <2>1. CASE HasChild(h, n, s)
    <3>1. EdgeOK(h, R, s, e)
      BY <1>3, <2>1
    <3> QED
      BY <1>4, <1>5, <3>1 DEF EdgeOK
  <2>2. CASE ~HasChild(h, n, s)
    <3>1. Ids(e) = {} /\ DOMAIN e.tags = {} /\ e.run = << >> /\ e.ids = {}
      BY <1>2, <2>2
    <3> QED
      BY <1>4, <1>5, <3>1 DEF EdgeOK
  <2> QED
    BY <2>1, <2>2
<1>7. \A q \in Ids(led) : Names(h, q, led.paths[q])
  <2>1. CASE HasChild(h, n, s)
    <3>1. e = Out(h, n)[s] /\ s \in DOMAIN Out(h, n)
      BY <1>2, <2>1 DEF HasChild
    <3> QED
      BY <1>4, <1>5, <3>1 DEF Names
  <2>2. CASE ~HasChild(h, n, s)
    BY <1>2, <1>5, <2>2
  <2> QED
    BY <2>1, <2>2
<1>8. Moved(h, SetEdge(h, n, s, led), R)
  BY <1>1, <1>4, <1>6, <1>7, EdgeMoved
<1> QED
  BY <1>8 DEF led, e

\* A leaf of what is repeated is linked back to a root of it.
LEMMA LinkBackKeeps ==
    ASSUME BuildInv, UNCHANGED added, LinkBack
    PROVE  BuildInv'
<1> DEFINE R == AddedRegexes
           l == Head(links)
           s == SymOf(g, l.root)
           free == IF l.absorbed
                   THEN SetEdge(g, l.leaf, s, [EdgeAt(g, l.leaf, s) EXCEPT !.to = l.root])
                   ELSE g
<1>1. /\ links # << >>
      /\ g' = Connect(free, l.leaf, l.root, adding, << >>, l.limit)
      /\ links' = Tail(links)
      /\ UNCHANGED <<adding, at, groups, pending, levels, absorbs>>
  BY DEF LinkBack
<1>2. /\ adding # NoRegex /\ adding \in R /\ R \in SUBSET Regexes
      /\ l.leaf \in NodesOf(g) /\ l.root \in NodesOf(g)
      /\ l.limit \in OwnLimits(g, adding)
      /\ Tail(links) \in Seq(LinkSet(g, adding))
  BY <1>1, LinkIs
<1>3. GraphOK(g, R) /\ Owned(g) /\ absorbs \in Seq(AbsorbSet(NodesOf(g)))
  BY DEF BuildInv, GraphInv, LinkInv
<1>4. Moved(g, free, R)
  BY <1>2, <1>3, EdgeLedElsewhere, MovedNot
<1> HIDE DEF free
<1>5. GraphOK(free, R) /\ Owned(free) /\ Grown(g, free, adding)
  BY <1>3, <1>4, MovedIsGrown DEF Moved
<1>6. /\ l.leaf \in NodesOf(free) /\ l.root \in NodesOf(free)
      /\ l.limit \in OwnLimits(free, adding)
  <2>1. /\ NodesOf(g) \subseteq NodesOf(free) /\ Len(free.limit) = Len(g.limit)
        /\ \A q, n : Names(free, q, n) => Names(g, q, n)
    BY <1>4 DEF Moved, Keeps
  <2> HIDE DEF l
  <2> QED
    BY <1>2, <2>1 DEF OwnLimits
<1> DEFINE none == << >>
<1>7. none \in Seq(TagSet) /\ NoneOpens(none) /\ g' = Connect(free, l.leaf, l.root, adding, none, l.limit)
  BY <1>1 DEF NoneOpens
<1> HIDE DEF l, none
<1>8. GraphOK(g', R) /\ Owned(g') /\ Grown(free, g', adding) /\ NodesOf(g') = NodesOf(free)
  BY ONLY <1>2, <1>5, <1>6, <1>7, ConnectGrows
<1>9. g \in GraphSet /\ free \in GraphSet /\ g' \in GraphSet
  BY <1>3, <1>5, <1>8 DEF GraphOK
<1>10. Grown(g, g', adding)
  BY <1>5, <1>8, <1>9, GrownTwice
<1>11. /\ Seq(AbsorbSet(NodesOf(g))) \subseteq Seq(AbsorbSet(NodesOf(g')))
       /\ Seq(LinkSet(g, adding)) \subseteq Seq(LinkSet(g', adding))
  BY <1>1, <1>8, <1>10, GraphGrew
<1>12. links' \in Seq(LinkSet(g', adding)) /\ absorbs' \in Seq(AbsorbSet(NodesOf(g')))
  BY <1>1, <1>2, <1>3, <1>11
<1> QED
  BY <1>1, <1>2, <1>8, <1>10, <1>12, RewiredKeeps

\* The root absorbs what stands in the way of a link.
LEMMA StartAbsorbKeeps ==
    ASSUME BuildInv, UNCHANGED added, StartAbsorb
    PROVE  BuildInv'
<1> DEFINE R == AddedRegexes
           l == Head(links)
           N == NodesOf(g)
           next == [l EXCEPT !.absorbed = TRUE]
<1>1. /\ links # << >> /\ Conflict(l)
      /\ absorbs' = <<[into |-> l.root, from |-> Child(g, l.leaf, SymOf(g, l.root))]>>
      /\ links' = [links EXCEPT ![1].absorbed = TRUE]
      /\ UNCHANGED <<g, adding, at, groups, pending, levels>>
  BY DEF StartAbsorb
<1>2. /\ adding # NoRegex /\ l.leaf \in N /\ l.root \in N
  BY <1>1, LinkIs
<1>3. GraphOK(g, R) /\ Owned(g) /\ g \in GraphSet /\ links \in Seq(LinkSet(g, adding))
  BY DEF BuildInv, GraphInv, LinkInv, GraphOK
<1>4. Child(g, l.leaf, SymOf(g, l.root)) \in N
  <2>1. HasChild(g, l.leaf, SymOf(g, l.root))
    BY <1>1 DEF Conflict
  <2> QED
    BY <1>2, <1>3, <2>1, ChildIs
<1>5. absorbs' \in Seq(AbsorbSet(N))
  <2> DEFINE x == [into |-> l.root, from |-> Child(g, l.leaf, SymOf(g, l.root))]
  <2>1. x \in AbsorbSet(N)
    BY <1>2, <1>4 DEF AbsorbSet
  <2>2. absorbs' = <<x>>
    BY <1>1
  <2> HIDE DEF x, N
  <2> QED
    BY <2>1, <2>2
<1>6. links' \in Seq(LinkSet(g, adding))
  <2> DEFINE L == LinkSet(g, adding)
  <2>1. l \in L /\ l = links[1] /\ 1 \in 1..Len(links) /\ Len(links) \in Nat
    BY <1>1, <1>3, HeadTailProperties, EmptySeq
  <2>2. next \in L
    BY <2>1 DEF LinkSet
  <2>3. links' = [links EXCEPT ![1] = next]
    BY <1>1, <2>1
  <2> HIDE DEF next, L
  <2> QED
    BY <1>3, <2>1, <2>2, <2>3 DEF L
<1>7. Grown(g, g', adding) /\ GraphOK(g', R) /\ Owned(g')
  <2>1. Grown(g, g, adding)
    BY <1>3, GrownNot
  <2> QED
    BY <1>1, <1>3, <2>1
<1> QED
  BY <1>1, <1>2, <1>5, <1>6, <1>7, RewiredKeeps

\* A call of absorb takes an edge, or returns.
LEMMA AbsorbKeeps ==
    ASSUME BuildInv, UNCHANGED added, Absorb
    PROVE  BuildInv'
<1> DEFINE R == AddedRegexes
           N == NodesOf(g)
           x == Last(absorbs)
           s == Least(DOMAIN Out(g, x.from))
           e == Out(g, x.from)[s]
           cut == Cut(g, x.from, s)
           mine == Out(g, x.into)[s]
           child == Child(g, x.into, SymOf(g, mine.to))
           merged == [mine EXCEPT !.paths = Merged(mine, e)]
<1>1. /\ absorbs # << >>
      /\ UNCHANGED <<adding, at, groups, pending, levels, links>>
      /\ \/ absorbs' = Front(absorbs) /\ UNCHANGED g
         \/ /\ DOMAIN Out(g, x.from) # {}
            /\ x.into # x.from
            /\ \/ /\ HasChild(g, x.into, s)
                  /\ g' = SetEdge(cut, x.into, s, merged)
                  /\ absorbs' = Append(absorbs, [into |-> child, from |-> e.to])
               \/ /\ ~HasChild(g, x.into, s)
                  /\ g' = SetEdge(cut, x.into, s, e)
                  /\ UNCHANGED absorbs
  BY DEF Absorb
<1>2. /\ GraphOK(g, R) /\ Owned(g) /\ R \in SUBSET Regexes /\ g \in GraphSet
      /\ links \in Seq(LinkSet(g, adding)) /\ absorbs \in Seq(AbsorbSet(N))
      /\ adding # NoRegex
  BY <1>1 DEF BuildInv, GraphInv, LinkInv, AddedRegexes, Range, GraphOK
<1>3. x.into \in N /\ x.from \in N /\ Front(absorbs) \in Seq(AbsorbSet(N))
  <2>1. x \in AbsorbSet(N) /\ Front(absorbs) \in Seq(AbsorbSet(N))
    BY <1>1, <1>2, FrontIs
  <2> QED
    BY <2>1 DEF AbsorbSet
<1>4. CASE absorbs' = Front(absorbs) /\ UNCHANGED g
  <2>1. Grown(g, g, adding)
    BY <1>2, GrownNot
  <2>2. Grown(g, g', adding) /\ GraphOK(g', R) /\ Owned(g')
    BY <1>2, <1>4, <2>1
  <2>3. links' \in Seq(LinkSet(g', adding)) /\ absorbs' \in Seq(AbsorbSet(NodesOf(g')))
    BY <1>1, <1>2, <1>3, <1>4
  <2> QED
    BY <1>1, <1>2, <2>2, <2>3, RewiredKeeps
<1>5. ASSUME DOMAIN Out(g, x.from) # {}
      PROVE  s \in DOMAIN Out(g, x.from) /\ e.to \in N
  <2>1. DOMAIN Out(g, x.from) \in SUBSET Nat
    BY <1>2, <1>3, GraphParts
  <2>2. s \in DOMAIN Out(g, x.from)
    BY <1>5, <2>1, LeastIs
  <2> HIDE DEF s, x
  <2> QED
    BY <1>2, <1>3, <2>2 DEF GraphOK, EdgeOK
<1>6. ASSUME DOMAIN Out(g, x.from) # {}, x.into # x.from,
             Moved(g, g', R), absorbs' \in Seq(AbsorbSet(N))
      PROVE  BuildInv'
  <2>1. Grown(g, g', adding) /\ GraphOK(g', R) /\ Owned(g')
    BY <1>2, <1>6, MovedIsGrown DEF Moved
  <2>2. /\ Seq(AbsorbSet(NodesOf(g))) \subseteq Seq(AbsorbSet(NodesOf(g')))
        /\ Seq(LinkSet(g, adding)) \subseteq Seq(LinkSet(g', adding))
    BY <1>1, <2>1, GraphGrew
  <2>3. links' \in Seq(LinkSet(g', adding)) /\ absorbs' \in Seq(AbsorbSet(NodesOf(g')))
    BY <1>1, <1>2, <1>6, <2>2
  <2> QED
    BY <1>1, <1>2, <2>1, <2>3, RewiredKeeps
<1>7. CASE /\ DOMAIN Out(g, x.from) # {} /\ x.into # x.from
           /\ HasChild(g, x.into, s)
           /\ g' = SetEdge(cut, x.into, s, merged)
           /\ absorbs' = Append(absorbs, [into |-> child, from |-> e.to])
  <2>1. s \in DOMAIN Out(g, x.from) /\ e.to \in N
    BY <1>5, <1>7
  <2>2. Moved(g, g', R)
    <3> HIDE DEF x, s, R
    <3> QED
      BY <1>2, <1>3, <1>7, <2>1, AbsorbMoves
  <2>3. child \in N
    <3> HIDE DEF x, s
    <3>1. mine.to \in N /\ SymOf(g, mine.to) = s
      BY <1>2, <1>3, <1>7 DEF GraphOK, EdgeOK, HasChild
    <3>2. child = Child(g, x.into, s)
      BY <3>1
    <3> QED
      BY <1>2, <1>3, <1>7, <3>2, ChildIs
  <2>4. absorbs' \in Seq(AbsorbSet(N))
    <3> DEFINE y == [into |-> child, from |-> e.to]
    <3>1. y \in AbsorbSet(N)
      <4> HIDE DEF child, e
      <4> QED
        BY <2>1, <2>3 DEF AbsorbSet
    <3>2. absorbs' = Append(absorbs, y)
      BY <1>7
    <3> HIDE DEF y
    <3> QED
      BY <1>2, <3>1, <3>2, AppendProperties
  <2> HIDE DEF x, s
  <2> QED
    BY <1>6, <1>7, <2>2, <2>4
<1>8. CASE /\ DOMAIN Out(g, x.from) # {} /\ x.into # x.from
           /\ ~HasChild(g, x.into, s)
           /\ g' = SetEdge(cut, x.into, s, e)
           /\ UNCHANGED absorbs
  <2>1. s \in DOMAIN Out(g, x.from)
    BY <1>5, <1>8
  <2>2. Moved(g, g', R)
    <3> HIDE DEF x, s, R
    <3> QED
      BY <1>2, <1>3, <1>8, <2>1, AbsorbMoves
  <2> HIDE DEF x, s
  <2> QED
    BY <1>2, <1>6, <1>8, <2>2
<1> QED
  BY <1>1, <1>4, <1>7, <1>8

\* The end of a regex leaves no node marked compiled.
LEMMA EndRegexKeeps ==
    ASSUME BuildInv, UNCHANGED added, EndRegex
    PROVE  BuildInv' /\ CompiledInv'
<1> DEFINE R == AddedRegexes
           made == AddNode(g, Eor, {})
           end == Len(made.node)
           parents == Branch(Level).leafs
           wired == ConnectAll(made, parents, end)
<1>1. /\ adding # NoRegex /\ HasLayer /\ links = << >> /\ absorbs = << >>
      /\ g' = Uncompiled(wired)
      /\ adding' = NoRegex /\ at' = 0 /\ groups' = 0 /\ pending' = << >> /\ levels' = << >>
      /\ UNCHANGED <<links, absorbs>>
  BY DEF EndRegex, Reading
<1>2. /\ GraphOK(g, R) /\ Owned(g) /\ adding \in R /\ R \in SUBSET Regexes
      /\ pending \in Seq(TagSet) /\ NoneOpens(pending) /\ added \in Seq(Regexes)
  BY <1>1 DEF BuildInv, GraphInv, ReadInv, AddedRegexes, Range
<1>3. parents \in Seq(NodesOf(g))
  BY <1>1, BranchIs DEF LayerSet
<1>4. /\ Moved(g, made, R)
      /\ NodesOf(made) = NodesOf(g) \cup {Len(g.node) + 1}
      /\ end = Len(g.node) + 1
      /\ SymOf(made, Len(g.node) + 1) = Eor
  BY <1>2, NodeAdded DEF Eor
<1> HIDE DEF made, end, parents
<1>5. GraphOK(made, R) /\ Owned(made) /\ end \in NodesOf(made)
  BY <1>2, <1>4, MovedIsGrown DEF Moved
<1>6. parents \in Seq(NodesOf(made))
  BY <1>3, <1>4, SeqGrows
<1>7. GraphOK(wired, R) /\ Owned(wired)
  BY <1>2, <1>5, <1>6, ConnectAllGrows
<1> HIDE DEF wired
<1>8. /\ Moved(wired, g', R)
      /\ NodesOf(g') = NodesOf(wired)
      /\ \A n \in NodesOf(wired) : ~g'.node[n].compiled
  BY <1>1, <1>7, UncompiledIs
<1>9. GraphOK(g', R) /\ Owned(g')
  BY <1>7, <1>8, MovedIsGrown DEF Moved
<1>10. AddedRegexes' = R
  BY DEF AddedRegexes
<1>11. GraphInv'
  BY <1>2, <1>9, <1>10 DEF GraphInv
<1>12. ReadInv'
  <2>1. levels' = << >> /\ pending' = << >> /\ adding' = NoRegex /\ at' = 0 /\ groups' = 0
    BY <1>1
  <2>2. << >> \in Seq(LevelSet(NodesOf(g'))) /\ << >> \in Seq(TagSet)
    OBVIOUS
  <2> QED
    BY <2>1, <2>2 DEF ReadInv
<1>13. LinkInv'
  <2>1. << >> \in Seq(LinkSet(g', NoRegex)) /\ << >> \in Seq(AbsorbSet(NodesOf(g')))
    OBVIOUS
  <2> QED
    BY <1>1, <2>1 DEF LinkInv
<1>14. CompiledInv'
  BY <1>8 DEF CompiledInv
<1> QED
  BY <1>11, <1>12, <1>13, <1>14 DEF BuildInv

\* Every step of building.
LEMMA BuildKeeps ==
    ASSUME BuildInv, CompiledInv, Build
    PROVE  BuildInv' /\ CompiledInv' /\ adding # NoRegex
<1>1. UNCHANGED added
  BY DEF Build
<1>2. ASSUME BuildInv', adding' = adding, adding # NoRegex
      PROVE  CompiledInv'
  BY <1>2 DEF CompiledInv
<1>3. CASE EndRegex
  BY <1>1, <1>3, EndRegexKeeps DEF EndRegex, Reading
<1>4. CASE Character
  BY <1>1, <1>2, <1>4, CharacterKeeps, TokenIs DEF Character, Extend
<1>5. CASE Class
  BY <1>1, <1>2, <1>5, ClassKeeps, TokenIs DEF Class, Extend
<1>6. CASE OpenGroup
  BY <1>1, <1>2, <1>6, OpenGroupKeeps, TokenIs DEF OpenGroup
<1>7. CASE CloseGroup
  BY <1>1, <1>2, <1>7, CloseGroupKeeps, TokenIs DEF CloseGroup
<1>8. CASE Alternate
  BY <1>1, <1>2, <1>8, AlternateKeeps, TokenIs DEF Alternate
<1>9. CASE Repeat
  BY <1>1, <1>2, <1>9, RepeatKeeps, TokenIs DEF Repeat
<1>10. CASE LinkBack
  BY <1>1, <1>2, <1>10, LinkBackKeeps, LinkIs DEF LinkBack
<1>11. CASE StartAbsorb
  BY <1>1, <1>2, <1>11, StartAbsorbKeeps, LinkIs DEF StartAbsorb
<1>12. CASE Absorb
  <2>1. adding # NoRegex /\ adding' = adding
    BY <1>12 DEF Absorb, BuildInv, LinkInv
  <2> QED
    BY <1>1, <1>2, <1>12, <2>1, AbsorbKeeps
<1> QED
  BY <1>3, <1>4, <1>5, <1>6, <1>7, <1>8, <1>9, <1>10, <1>11, <1>12 DEF Build, BuildStep

\* add_regex is called.
LEMMA AddKeeps ==
    ASSUME BuildInv, Add
    PROVE  BuildInv' /\ CompiledInv'
<1>1. PICK r \in Regexes \ AddedRegexes : AddRegex(r) /\ added' = Append(added, r)
  BY DEF Add
<1>2. /\ adding = NoRegex /\ adding' = r
      /\ at' = 0 /\ groups' = 0 /\ pending' = << >>
      /\ levels' = <<NewLevel(<<Root>>, << >>, 0)>>
      /\ UNCHANGED <<g, links, absorbs>>
  BY <1>1 DEF AddRegex
<1>3. /\ added \in Seq(Regexes) /\ GraphOK(g, AddedRegexes) /\ Owned(g)
      /\ links = << >> /\ absorbs = << >>
  BY <1>2 DEF BuildInv, GraphInv, LinkInv
<1>4. /\ added' \in Seq(Regexes)
      /\ AddedRegexes \subseteq AddedRegexes' /\ r \in AddedRegexes'
  <2>1. /\ added' \in Seq(Regexes) /\ Len(added') = Len(added) + 1
        /\ added'[Len(added) + 1] = r
        /\ \A i \in 1..Len(added) : added'[i] = added[i]
    BY <1>1, <1>3, AppendProperties
  <2>2. Len(added) \in Nat /\ DOMAIN added = 1..Len(added) /\ DOMAIN added' = 1..Len(added')
    BY <1>3, <2>1, LenProperties
  <2> QED
    BY <2>1, <2>2 DEF AddedRegexes, Range
<1>5. GraphInv'
  <2>1. GraphOK(g, AddedRegexes')
    BY <1>3, <1>4, GraphOKFor
  <2> QED
    BY <1>2, <1>3, <1>4, <2>1 DEF GraphInv
<1>6. /\ levels' \in Seq(LevelSet(NodesOf(g))) /\ levels' # << >>
      /\ ~HasLayer'
  <2> DEFINE N == NodesOf(g)
             layer == [roots |-> <<Root>>, leafs |-> <<Root>>]
             new == NewLevel(<<Root>>, << >>, 0)
  <2>1. Root \in N
    BY <1>3 DEF GraphOK
  <2> HIDE DEF N
  <2>2. <<Root>> \in Seq(N)
    BY <2>1
  <2>3. layer \in LayerSet(N)
    BY <2>2 DEF LayerSet
  <2>4. new = [layers |-> <<layer>>, initial |-> << >>, roots |-> << >>, leafs |-> << >>,
               group |-> 0]
    BY DEF NewLevel
  <2> HIDE DEF layer
  <2>5. <<layer>> \in Seq(LayerSet(N)) \ {<< >>} /\ Len(<<layer>>) = 1
    BY <2>3
  <2>6. new \in LevelSet(N) /\ Len(new.layers) = 1
    <3>1. << >> \in Seq(TagSet) /\ << >> \in Seq(N) /\ 0 \in Nat
      OBVIOUS
    <3> HIDE DEF new
    <3> QED
      BY <2>4, <2>5, <3>1 DEF LevelSet
  <2> HIDE DEF new
  <2>7. levels' = <<new>>
    BY <1>2 DEF new
  <2>8. <<new>> \in Seq(LevelSet(N)) /\ <<new>> # << >> /\ Len(<<new>>) = 1 /\ <<new>>[1] = new
    BY <2>6
  <2>9. Level' = new
    BY <2>7, <2>8 DEF Level
  <2>10. HasLayer' <=> Len(Level'.layers) > 1
    BY DEF HasLayer
  <2>11. ~HasLayer'
    <3>1. Len(Level'.layers) = 1
      BY <2>6, <2>9
    <3> QED
      BY <2>10, <3>1
  <2>12. levels' \in Seq(LevelSet(N)) /\ levels' # << >>
    BY <2>6, <2>7
  <2> QED
    BY <2>11, <2>12 DEF N
<1>7. ReadInv'
  <2>1. << >> \in Seq(TagSet) /\ 0 \in Nat
    OBVIOUS
  <2>2. levels' \in Seq(LevelSet(NodesOf(g'))) /\ levels' # << >> /\ pending' \in Seq(TagSet)
    BY <1>2, <1>6, <2>1
  <2>3. at' \in Nat /\ groups' \in Nat /\ adding' \in AddedRegexes'
    BY <1>2, <1>4
  <2> QED
    BY <1>6, <2>2, <2>3 DEF ReadInv
<1>8. LinkInv'
  <2>1. << >> \in Seq(LinkSet(g', adding')) /\ << >> \in Seq(AbsorbSet(NodesOf(g')))
    OBVIOUS
  <2> QED
    BY <1>2, <1>3, <2>1 DEF LinkInv
<1>9. CompiledInv'
  BY <1>2, RegexesAssumption DEF CompiledInv, NoRegex
<1> QED
  BY <1>5, <1>7, <1>8, <1>9 DEF BuildInv

\* compile() is called.
LEMMA CompileKeeps ==
    ASSUME BuildInv, Compile
    PROVE  BuildInv' /\ CompiledInv'
<1>1. /\ adding = NoRegex /\ ~g.node[Root].compiled
      /\ g' = Compiled(g)
      /\ UNCHANGED <<added, adding, at, groups, pending, levels, links, absorbs>>
  BY DEF Compile, Idle, buildVars
<1>2. GraphOK(g, AddedRegexes) /\ Owned(g) /\ AddedRegexes \in SUBSET Regexes
  BY DEF BuildInv, GraphInv, AddedRegexes, Range
<1>3. /\ Moved(g, g', AddedRegexes)
      /\ NodesOf(g') = NodesOf(g)
      /\ \A n \in NodesOf(g') : CompiledWell(g', n)
  BY <1>1, <1>2, CompiledIs DEF CompiledWell
<1>4. GraphOK(g', AddedRegexes) /\ Owned(g') /\ Grown(g, g', adding)
  BY <1>2, <1>3, MovedIsGrown DEF Moved
<1>5. /\ GraphInv'
      /\ Seq(LinkSet(g, adding)) \subseteq Seq(LinkSet(g', adding))
  BY <1>1, <1>4, GraphGrew
<1>6. ReadInv'
  <2>1. AddedRegexes' = AddedRegexes /\ (HasLayer' <=> HasLayer)
    BY <1>1 DEF AddedRegexes, HasLayer, Level
  <2>2. levels' \in Seq(LevelSet(NodesOf(g')))
    BY <1>1, <1>3 DEF BuildInv, ReadInv
  <2>3. NoneOpens(pending') <=> NoneOpens(pending)
    BY <1>1
  <2> QED
    BY <1>1, <2>1, <2>2, <2>3 DEF BuildInv, ReadInv
<1>7. LinkInv'
  <2>1. << >> \in Seq(LinkSet(g', adding')) /\ << >> \in Seq(AbsorbSet(NodesOf(g')))
    OBVIOUS
  <2> QED
    BY <1>1, <2>1 DEF BuildInv, LinkInv
<1>8. CompiledInv'
  BY <1>3 DEF CompiledInv
<1> QED
  BY <1>5, <1>6, <1>7, <1>8 DEF BuildInv

\* A matcher that nothing was added to.
LEMMA InitBuilt ==
    ASSUME Init
    PROVE  BuildInv /\ CompiledInv
<1>1. /\ added = << >> /\ g = EmptyGraph /\ adding = NoRegex /\ at = 0 /\ groups = 0
      /\ pending = << >> /\ levels = << >> /\ links = << >> /\ absorbs = << >>
  BY DEF Init, BuildInit
<1> DEFINE node == NewNode(NoneSym, {})
<1>2. node \in NodeSet /\ node.out = << >> /\ node.compiled = FALSE
  BY NewNodeIs DEF NewNode, NoneSym
<1>3. AddedRegexes = {} /\ added \in Seq(Regexes)
  BY <1>1 DEF AddedRegexes, Range
<1> HIDE DEF node
<1>4. <<node>> \in Seq(NodeSet) /\ DOMAIN <<node>> = {1} /\ <<node>>[1] = node
  BY <1>2
<1>5. g = [node |-> <<node>>, limit |-> << >>, classes |-> 0]
  BY <1>1 DEF EmptyGraph, node
<1>6. g \in GraphSet
  <2>1. << >> \in Seq(LimitSet)
    OBVIOUS
  <2> QED
    BY <1>4, <1>5, <2>1 DEF GraphSet
<1>7. NodesOf(g) = {1} /\ Out(g, 1) = << >> /\ DOMAIN Out(g, 1) = {} /\ ~g.node[1].compiled
  <2>1. g.node = <<node>>
    BY <1>5
  <2>2. DOMAIN << >> = {}
    OBVIOUS
  <2> QED
    BY <1>2, <1>4, <2>1, <2>2 DEF NodesOf, Out
<1>8. GraphOK(g, {})
  <2>1. IsFiniteSet({})
    BY FS_EmptySet
  <2> QED
    BY <1>6, <1>7, <2>1 DEF GraphOK, Root
<1>9. Owned(g)
  BY <1>7 DEF Owned, Names
<1>10. GraphInv
  BY <1>3, <1>8, <1>9 DEF GraphInv
<1>11. ReadInv
  <2>1. << >> \in Seq(TagSet) /\ << >> \in Seq(LevelSet(NodesOf(g)))
    OBVIOUS
  <2> QED
    BY <1>1, <2>1 DEF ReadInv
<1>12. LinkInv
  <2>1. << >> \in Seq(LinkSet(g, adding)) /\ << >> \in Seq(AbsorbSet(NodesOf(g)))
    OBVIOUS
  <2> QED
    BY <1>1, <2>1 DEF LinkInv
<1>13. CompiledInv
  BY <1>7 DEF CompiledInv
<1> QED
  BY <1>10, <1>11, <1>12, <1>13 DEF BuildInv

-----------------------------------------------------------------------------
(* The slots of a match.                                                   *)

\* The members of a finite set of numbers, in order.
LEMMA OrderedIs ==
    ASSUME NEW S \in SUBSET Nat, IsFiniteSet(S)
    PROVE  Ordered(S) \in Seq(S)
<1> DEFINE R == {p \in S \X S : p[1] < p[2]}
           n == Cardinality(S)
<1>1. IsOrder(R, S)
  <2>1. \A x, y \in S : <<x, y>> \in R <=> x < y
    OBVIOUS
  <2> HIDE DEF R
  <2> QED
    BY <2>1 DEF IsOrder
<1>2. \A x \in S : Preceding(S, R, x) = {y \in S : y < x}
  BY DEF Preceding
<1>3. n \in Nat /\ \A k \in 1..n : \E x \in S : Cardinality(Preceding(S, R, x)) = k - 1
  BY <1>1, Places
<1>4. ASSUME NEW k \in 1..n
      PROVE  (CHOOSE x \in S : Cardinality({y \in S : y < x}) = k - 1) \in S
  <2>1. \E x \in S : Cardinality({y \in S : y < x}) = k - 1
    BY <1>2, <1>3
  <2> QED
    BY <2>1
<1>5. Ordered(S) = [k \in 1..n |-> CHOOSE x \in S : Cardinality({y \in S : y < x}) = k - 1]
  BY DEF Ordered
<1> HIDE DEF n
<1>6. \A k \in 1..n : Ordered(S)[k] \in S
  BY <1>4, <1>5
<1>7. Ordered(S) = [k \in 1..n |-> Ordered(S)[k]]
  BY <1>5
<1> QED
  BY <1>3, <1>6, <1>7, IsASeq

\* What identifies a slot, what it holds, and what there is to take back.
IdSet == [regex : Regexes, group : Nat, open : BOOLEAN]
SlotSet == [value : Int, isSet : BOOLEAN]
TableSet == [SlotIds -> SlotSet]
UndoSet == [id : SlotIds, before : Int]

\* The tags of an edge name slots there are; to the end mark, they close groups.
LEMMA TagsOfIs ==
    ASSUME NEW R \in SUBSET Regexes, GraphOK(g, R),
           NEW n \in NodesOf(g), NEW s \in DOMAIN Out(g, n)
    PROVE  LET e == Out(g, n)[s]
           IN  /\ TagsOf(e) \subseteq IdSet
               /\ TagsOf(e) \subseteq SlotIds
               /\ s = Eor => \A id \in TagsOf(e) : ~id.open
<1> DEFINE e == Out(g, n)[s]
           Tag(r, i) == [regex |-> r, group |-> e.tags[r][i].group, open |-> e.tags[r][i].open]
<1>1. g \in GraphSet /\ EdgeOK(g, R, s, e)
  BY DEF GraphOK
<1>2. e \in EdgeSet
  BY <1>1, GraphParts
<1>3. ASSUME NEW id \in TagsOf(e)
      PROVE  \E r \in DOMAIN e.tags : \E i \in DOMAIN e.tags[r] : id = Tag(r, i)
  BY DEF TagsOf
<1>4. ASSUME NEW r \in DOMAIN e.tags, NEW i \in DOMAIN e.tags[r]
      PROVE  /\ Tag(r, i) \in IdSet
             /\ s = Eor => ~Tag(r, i).open
  <2>1. r \in Regexes /\ e.tags[r] \in Seq(TagSet)
    BY <1>2, EdgeParts
  <2>2. e.tags[r][i] \in TagSet
    BY <2>1, ElementOfSeq, LenProperties
  <2>3. s = Eor => ~e.tags[r][i].open
    BY <1>1 DEF EdgeOK
  <2> HIDE DEF e
  <2> QED
    BY <2>1, <2>2, <2>3 DEF IdSet, TagSet
<1> HIDE DEF Tag
<1>5. TagsOf(e) \subseteq IdSet /\ (s = Eor => \A id \in TagsOf(e) : ~id.open)
  BY <1>3, <1>4
<1>6. TagsOf(e) \subseteq Tags
  <2>1. e \in EdgesOf(n)
    BY DEF EdgesOf
  <2> HIDE DEF e
  <2> QED
    BY <2>1 DEF Tags
<1>7. ASSUME NEW id \in TagsOf(e)
      PROVE  id \in SlotIds
  <2>1. id \in IdSet /\ id \in Tags
    BY <1>5, <1>6, <1>7
  <2>2. id = [id EXCEPT !.open = id.open] /\ id.open \in BOOLEAN
    BY <2>1 DEF IdSet
  <2> QED
    BY <2>1, <2>2 DEF SlotIds
<1> QED
  BY <1>5, <1>7

\* The slots are those of regexes.
LEMMA SlotIdsAre ==
    ASSUME NEW R \in SUBSET Regexes, GraphOK(g, R)
    PROVE  SlotIds \subseteq IdSet
<1>1. ASSUME NEW id \in Tags
      PROVE  id \in IdSet
  <2>1. PICK n \in NodesOf(g) : id \in UNION {TagsOf(e) : e \in EdgesOf(n)}
    BY <1>1 DEF Tags
  <2>2. PICK s \in DOMAIN Out(g, n) : id \in TagsOf(Out(g, n)[s])
    BY <2>1 DEF EdgesOf
  <2> QED
    BY <2>2, TagsOfIs
<1>2. ASSUME NEW id \in IdSet, NEW open \in BOOLEAN
      PROVE  [id EXCEPT !.open = open] \in IdSet
  BY DEF IdSet
<1> QED
  BY <1>1, <1>2 DEF SlotIds

\* The tags of an edge for some regexes are tags of the edge.
LEMMA TagsForIs ==
    ASSUME NEW e \in EdgeSet, NEW rs \in SUBSET Nat, IsFiniteSet(rs)
    PROVE  TagsFor(e, rs) \in Seq(TagsOf(e))
<1> DEFINE S == rs \cap DOMAIN e.tags
           tagged == Ordered(S)
           V == TagsOf(e)
           Of(r) == [i \in DOMAIN e.tags[r] |->
                        [regex |-> r, group |-> e.tags[r][i].group, open |-> e.tags[r][i].open]]
           all == [k \in DOMAIN tagged |-> Of(tagged[k])]
<1>1. S \in SUBSET Nat /\ IsFiniteSet(S)
  BY FS_Subset
<1>2. tagged \in Seq(S)
  BY <1>1, OrderedIs
<1>3. ASSUME NEW r \in S
      PROVE  Of(r) \in Seq(V)
  <2>1. e.tags[r] \in Seq(TagSet)
    BY EdgeParts
  <2>2. DOMAIN e.tags[r] = 1..Len(e.tags[r]) /\ Len(e.tags[r]) \in Nat
    BY <2>1, LenProperties
  <2>3. \A i \in DOMAIN e.tags[r] :
            [regex |-> r, group |-> e.tags[r][i].group, open |-> e.tags[r][i].open] \in V
    BY DEF TagsOf
  <2> HIDE DEF V
  <2> QED
    BY <2>2, <2>3, IsASeq
<1>4. all \in Seq(Seq(V))
  <2>1. DOMAIN tagged = 1..Len(tagged) /\ Len(tagged) \in Nat
    BY <1>2, LenProperties
  <2>2. \A k \in DOMAIN tagged : tagged[k] \in S
    BY <1>2, <2>1, ElementOfSeq
  <2> HIDE DEF tagged, S, Of, V
  <2>3. \A k \in 1..Len(tagged) : Of(tagged[k]) \in Seq(V)
    BY <1>3, <2>1, <2>2
  <2> QED
    BY <2>1, <2>3, IsASeq
<1>5. TagsFor(e, rs) = FlattenSeq(all)
  BY DEF TagsFor
<1> HIDE DEF all, V
<1> QED
  BY <1>4, <1>5, FlattenIs DEF V

\* Induction: what holds of 0, and of each number when it holds of the one before.
LEMMA TrueByRounds ==
    ASSUME NEW n \in Nat, NEW P, P[0] = TRUE,
           \A j \in 1..n : P[j - 1] = TRUE => P[j] = TRUE
    PROVE  \A j \in 0..n : P[j] = TRUE
<1> DEFINE S == {TRUE}
<1>1. P[0] \in S /\ \A j \in 1..n : P[j - 1] \in S => P[j] \in S
  OBVIOUS
<1>2. \A x \in S : x = TRUE
  OBVIOUS
<1> HIDE DEF S
<1>3. \A j \in 0..n : P[j] \in S
  BY <1>1, KeptByRounds
<1> QED
  BY <1>2, <1>3

\* Some entry is of a slot; the first that is holds a value.
Touches(undo, id) == \E j \in DOMAIN undo : undo[j].id = id
FirstHolds(undo, id, v) ==
    \A j \in DOMAIN undo :
        undo[j].id = id /\ (\A m \in 1..(j - 1) : undo[m].id # id) => undo[j].before = v

\* What marking k of some tags comes to.
MarkedTo(x, tags, k) ==
    /\ x.slots \in TableSet /\ x.undo \in Seq(UndoSet) /\ Len(x.undo) = k
    /\ \A j \in 1..k : x.undo[j].id = tags[j]
    /\ \A id \in SlotIds :
           /\ FirstHolds(x.undo, id, slots[id].value)
           /\ ~Touches(x.undo, id) => x.slots[id] = slots[id]

\* One tag marked.
LEMMA MarkIs ==
    ASSUME NEW x, NEW tags \in Seq(SlotIds), NEW k \in 1..Len(tags), NEW position \in Nat,
           MarkedTo(x, tags, k - 1), slots \in TableSet
    PROVE  MarkedTo([slots |-> Mark(x.slots, tags[k], position),
                     undo |-> Append(x.undo, [id |-> tags[k], before |-> x.slots[tags[k]].value])],
                    tags, k)
<1> DEFINE t == tags[k]
           table == Mark(x.slots, t, position)
           u == [id |-> t, before |-> x.slots[t].value]
           undo == Append(x.undo, u)
<1>1. t \in SlotIds /\ k \in Nat /\ k - 1 \in Nat
  BY ElementOfSeq, LenProperties
<1>2. /\ x.slots \in TableSet /\ x.undo \in Seq(UndoSet) /\ Len(x.undo) = k - 1
      /\ \A j \in 1..(k - 1) : x.undo[j].id = tags[j]
      /\ \A id \in SlotIds :
             /\ FirstHolds(x.undo, id, slots[id].value)
             /\ ~Touches(x.undo, id) => x.slots[id] = slots[id]
  BY DEF MarkedTo
<1>3. x.slots[t] \in SlotSet /\ x.slots[t].value \in Int
  BY <1>1, <1>2 DEF TableSet, SlotSet
<1>4. /\ table \in TableSet
      /\ \A id \in SlotIds : id # t => table[id] = x.slots[id]
  <2>1. [value |-> position, isSet |-> TRUE] \in SlotSet
    BY DEF SlotSet
  <2> QED
    BY <1>1, <1>2, <2>1 DEF TableSet, Mark
<1>5. u \in UndoSet /\ u.id = t /\ u.before = x.slots[t].value
  BY <1>1, <1>3 DEF UndoSet
<1> HIDE DEF table, u
<1>6. /\ undo \in Seq(UndoSet) /\ Len(undo) = k /\ undo[k] = u
      /\ \A j \in 1..(k - 1) : undo[j] = x.undo[j]
  <2> DEFINE before == x.undo
  <2>1. before \in Seq(UndoSet) /\ Len(before) = k - 1
    BY <1>2
  <2> HIDE DEF before
  <2>2. /\ Append(before, u) \in Seq(UndoSet)
        /\ Len(Append(before, u)) = Len(before) + 1
        /\ Append(before, u)[Len(before) + 1] = u
        /\ \A i \in 1..Len(before) : Append(before, u)[i] = before[i]
    BY <1>5, <2>1, AppendProperties
  <2>3. Len(before) + 1 = k
    BY <1>1, <2>1
  <2>4. undo = Append(before, u)
    BY DEF before
  <2> HIDE DEF undo
  <2> QED
    BY <2>1, <2>2, <2>3, <2>4 DEF before
<1>7. /\ DOMAIN undo = 1..k /\ DOMAIN x.undo = 1..(k - 1)
  BY <1>2, <1>6, LenProperties
<1> HIDE DEF undo
<1>8. \A j \in 1..k : undo[j].id = tags[j]
  BY <1>1, <1>2, <1>5, <1>6 DEF t
<1> HIDE DEF t
<1>9. ASSUME NEW id \in SlotIds
      PROVE  /\ FirstHolds(undo, id, slots[id].value)
             /\ ~Touches(undo, id) => table[id] = slots[id]
  <2>1. ASSUME NEW j \in 1..k, undo[j].id = id, \A m \in 1..(j - 1) : undo[m].id # id
        PROVE  undo[j].before = slots[id].value
    <3>1. CASE j = k
      <4>1. ~Touches(x.undo, id)
        BY <1>6, <1>7, <2>1, <3>1 DEF Touches
      <4>2. x.slots[id] = slots[id] /\ id = t
        BY <1>2, <1>5, <1>6, <2>1, <3>1, <4>1
      <4> QED
        BY <1>5, <1>6, <3>1, <4>2
    <3>2. CASE j # k
      <4>1. j \in 1..(k - 1)
        BY <1>1, <3>2
      <4>2. \A m \in 1..(j - 1) : m \in 1..(k - 1)
        BY <1>1, <4>1
      <4>3. x.undo[j].id = id /\ \A m \in 1..(j - 1) : x.undo[m].id # id
        BY <1>6, <2>1, <4>1, <4>2
      <4>4. x.undo[j].before = slots[id].value
        BY <1>2, <1>7, <4>1, <4>3 DEF FirstHolds
      <4> QED
        BY <1>6, <4>1, <4>4
    <3> QED
      BY <3>1, <3>2
  <2>2. FirstHolds(undo, id, slots[id].value)
    BY <1>7, <2>1 DEF FirstHolds
  <2>3. ASSUME ~Touches(undo, id)
        PROVE  table[id] = slots[id]
    <3>1. \A j \in 1..k : undo[j].id # id
      BY <1>7, <2>3 DEF Touches
    <3>2. id # t
      BY <1>1, <1>5, <1>6, <3>1
    <3>3. ~Touches(x.undo, id)
      BY <1>1, <1>6, <1>7, <3>1 DEF Touches
    <3> QED
      BY <1>2, <1>4, <3>2, <3>3
  <2> QED
    BY <2>2, <2>3
<1>10. MarkedTo([slots |-> table, undo |-> undo], tags, k)
  BY <1>4, <1>6, <1>8, <1>9 DEF MarkedTo
<1> QED
  BY <1>10 DEF table, undo, u, t

\* All of some tags marked.
LEMMA MarkedIs ==
    ASSUME NEW tags \in Seq(SlotIds), NEW position \in Nat, slots \in TableSet
    PROVE  MarkedTo(Marked(tags, position), tags, Len(tags))
<1> DEFINE n == Len(tags)
           none == [slots |-> slots, undo |-> << >>]
           Round(x, k) ==
               [slots |-> Mark(x.slots, tags[k], position),
                undo |-> Append(x.undo, [id |-> tags[k], before |-> x.slots[tags[k]].value])]
           Loop(f) == f = [k \in 0..n |-> IF k = 0 THEN none ELSE Round(f[k - 1], k)]
           upTo == CHOOSE f : Loop(f)
           S == [slots : TableSet, undo : Seq(UndoSet)]
<1>1. Marked(tags, position) = upTo[n]
  BY DEF Marked
<1>2. n \in Nat /\ \A k \in 1..n : tags[k] \in SlotIds
  BY LenProperties
<1>3. none \in S
  OBVIOUS
<1>4. ASSUME NEW x \in S, NEW k \in 1..n
      PROVE  Round(x, k) \in S
  <2> DEFINE t == tags[k]
  <2>1. t \in SlotIds /\ x.slots \in TableSet /\ x.undo \in Seq(UndoSet)
    BY <1>2
  <2>2. x.slots[t] \in SlotSet
    BY <2>1 DEF TableSet
  <2> HIDE DEF t
  <2>3. [id |-> t, before |-> x.slots[t].value] \in UndoSet
    BY <2>1, <2>2 DEF UndoSet, SlotSet
  <2>4. Append(x.undo, [id |-> t, before |-> x.slots[t].value]) \in Seq(UndoSet)
    BY <2>1, <2>3, AppendProperties
  <2>5. Mark(x.slots, t, position) \in TableSet
    <3>1. [value |-> position, isSet |-> TRUE] \in SlotSet
      BY DEF SlotSet
    <3> QED
      BY <2>1, <3>1 DEF TableSet, Mark
  <2> QED
    BY <2>4, <2>5 DEF t
<1> HIDE DEF S, Round, none
<1>5. \E f : Loop(f)
  <2> DEFINE F == [j \in 1..n |-> [x \in S |-> Round(x, j)]]
  <2>1. F \in [1..n -> [S -> S]]
    BY <1>4
  <2>2. PICK f : Rounds(f, S, n, F, none)
    <3> HIDE DEF F, n
    <3> QED
      BY <1>2, <1>3, <2>1, RoundsExist
  <2>3. ASSUME NEW j \in 1..n
        PROVE  f[j] = Round(f[j - 1], j)
    <3>1. j - 1 \in 0..n
      BY <1>2
    <3>2. f[j - 1] \in S
      BY <2>2, <3>1 DEF Rounds
    <3> QED
      BY <2>2, <3>2 DEF Rounds
  <2> HIDE DEF n
  <2>4. Loop(f)
    <3>1. ASSUME NEW j \in 0..n
          PROVE  f[j] = IF j = 0 THEN none ELSE Round(f[j - 1], j)
      BY <1>2, <2>2, <2>3 DEF Rounds
    <3> QED
      BY <2>2, <3>1 DEF Rounds
  <2> QED
    BY <2>4
<1>6. Loop(upTo)
  BY <1>5
<1> HIDE DEF upTo, n
<1>7. upTo[0] = none /\ \A j \in 1..n : upTo[j] = Round(upTo[j - 1], j)
  <2>1. \A j \in 0..n : upTo[j] = IF j = 0 THEN none ELSE Round(upTo[j - 1], j)
    BY <1>6
  <2> HIDE DEF Loop
  <2> QED
    BY <1>2, <2>1
<1>8. MarkedTo(upTo[0], tags, 0)
  <2>1. /\ none.slots = slots /\ none.undo = << >> /\ << >> \in Seq(UndoSet)
        /\ Len(<< >>) = 0 /\ DOMAIN << >> = {}
    BY DEF none
  <2> QED
    BY <1>7, <2>1 DEF MarkedTo, FirstHolds, Touches
<1>9. ASSUME NEW j \in 1..n, MarkedTo(upTo[j - 1], tags, j - 1)
      PROVE  MarkedTo(upTo[j], tags, j)
  <2>1. MarkedTo(Round(upTo[j - 1], j), tags, j)
    BY <1>9, MarkIs DEF n, Round
  <2> QED
    BY <1>7, <2>1
<1> DEFINE P == [j \in 0..n |-> MarkedTo(upTo[j], tags, j)]
<1>10. P[0] = TRUE /\ \A j \in 1..n : P[j - 1] = TRUE => P[j] = TRUE
  <2>1. P[0] = TRUE
    BY <1>2, <1>8
  <2>2. ASSUME NEW j \in 1..n, P[j - 1] = TRUE
        PROVE  P[j] = TRUE
    <3>1. j \in 0..n /\ j - 1 \in 0..n
      BY <1>2
    <3> QED
      BY <1>9, <2>2, <3>1
  <2> QED
    BY <2>1, <2>2
<1>11. P[n] = TRUE
  <2> HIDE DEF P
  <2>1. \A j \in 0..n : P[j] = TRUE
    BY <1>2, <1>10, TrueByRounds
  <2> QED
    BY <1>2, <2>1
<1>12. MarkedTo(upTo[n], tags, n)
  BY <1>2, <1>11
<1> QED
  BY <1>1, <1>12 DEF n

\* One entry taken back.
LEMMA UnmarkIs ==
    ASSUME NEW table \in TableSet, NEW u \in UndoSet
    PROVE  LET t == Unmark(table, u.id, u.before)
           IN  /\ t \in TableSet
               /\ \A id \in SlotIds :
                      /\ id # u.id => t[id] = table[id]
                      /\ id = u.id /\ ~IsInline(id) => t[id].value = u.before
<1>1. u.id \in SlotIds /\ u.before \in Int
  BY DEF UndoSet
<1> DEFINE held == IF u.before = Unset /\ IsInline(u.id)
                   THEN [table[u.id] EXCEPT !.isSet = FALSE]
                   ELSE [value |-> u.before, isSet |-> TRUE]
<1>2. held \in SlotSet /\ (~IsInline(u.id) => held.value = u.before)
  <2>1. table[u.id] \in SlotSet
    BY <1>1 DEF TableSet
  <2> QED
    BY <1>1, <2>1 DEF SlotSet
<1>3. Unmark(table, u.id, u.before) = [table EXCEPT ![u.id] = held]
  BY DEF Unmark
<1> HIDE DEF held
<1> QED
  BY <1>1, <1>2, <1>3 DEF TableSet

\* A slot that spilled holds, after all is taken back, what the first entry of it
\* found, or what it held if there is none.
LEMMA UnmarkedIs ==
    ASSUME NEW table \in TableSet, NEW undo \in Seq(UndoSet)
    PROVE  /\ Unmarked(table, undo) \in TableSet
           /\ \A id \in SlotIds, v \in Int :
                  /\ ~IsInline(id)
                  /\ FirstHolds(undo, id, v)
                  /\ ~Touches(undo, id) => table[id].value = v
                  => Unmarked(table, undo)[id].value = v
<1> DEFINE n == Len(undo)
           At(k) == n + 1 - k
           Round(x, k) == Unmark(x, undo[At(k)].id, undo[At(k)].before)
           Loop(f) == f = [k \in 0..n |-> IF k = 0 THEN table ELSE
                              LET u == undo[n + 1 - k] IN Unmark(f[k - 1], u.id, u.before)]
           back == CHOOSE f : Loop(f)
           S == TableSet
<1>1. Unmarked(table, undo) = back[n]
  BY DEF Unmarked
<1>2. /\ n \in Nat /\ DOMAIN undo = 1..n
      /\ \A k \in 1..n : At(k) \in 1..n /\ undo[At(k)] \in UndoSet
  <2>1. n \in Nat /\ DOMAIN undo = 1..n /\ \A k \in 1..n : undo[k] \in UndoSet
    BY LenProperties, ElementOfSeq
  <2> HIDE DEF n
  <2> QED
    BY <2>1
<1>3. ASSUME NEW x \in S, NEW k \in 1..n
      PROVE  Round(x, k) \in S
  BY <1>2, UnmarkIs
<1>4. \E f : Loop(f)
  <2> HIDE DEF S
  <2> DEFINE F == [j \in 1..n |-> [x \in S |-> Round(x, j)]]
  <2>1. F \in [1..n -> [S -> S]]
    <3> HIDE DEF Round
    <3> QED
      BY <1>3
  <2>2. PICK f : Rounds(f, S, n, F, table)
    <3>1. table \in S
      BY DEF S
    <3> HIDE DEF F, n
    <3> QED
      BY <1>2, <2>1, <3>1, RoundsExist
  <2>3. ASSUME NEW j \in 1..n
        PROVE  f[j] = Round(f[j - 1], j)
    <3>1. j - 1 \in 0..n
      BY <1>2
    <3>2. f[j - 1] \in S
      BY <2>2, <3>1 DEF Rounds
    <3> HIDE DEF Round, n
    <3> QED
      BY <2>2, <3>2 DEF Rounds
  <2> HIDE DEF n
  <2>4. Loop(f)
    <3>1. ASSUME NEW j \in 0..n
          PROVE  f[j] = IF j = 0 THEN table ELSE
                            LET u == undo[n + 1 - j] IN Unmark(f[j - 1], u.id, u.before)
      BY <1>2, <2>2, <2>3 DEF Rounds
    <3> QED
      BY <2>2, <3>1 DEF Rounds
  <2> QED
    BY <2>4
<1>5. Loop(back)
  BY <1>4
<1> HIDE DEF back, n
<1>6. back[0] = table /\ \A j \in 1..n : back[j] = Round(back[j - 1], j)
  <2>1. \A j \in 0..n : back[j] = IF j = 0 THEN table ELSE Round(back[j - 1], j)
    BY <1>5
  <2> HIDE DEF Loop, Round
  <2> QED
    BY <1>2, <2>1
<1> HIDE DEF Loop
<1>7. \A j \in 0..n : back[j] \in S
  <2> HIDE DEF S, Round
  <2>1. table \in S
    BY DEF S
  <2> QED
    BY <1>2, <1>3, <1>6, <2>1, KeptByRounds
\* What the last k entries hold of a slot.
<1> DEFINE Holds(k, id, v) ==
               /\ \A j \in At(k)..n :
                      undo[j].id = id /\ (\A m \in At(k)..(j - 1) : undo[m].id # id)
                      => undo[j].before = v
               /\ (\A j \in At(k)..n : undo[j].id # id) => table[id].value = v
           P == [k \in 0..n |-> \A id \in SlotIds, v \in Int :
                                    ~IsInline(id) /\ Holds(k, id, v) => back[k][id].value = v]
<1>8. P[0] = TRUE
  <2>1. \A j \in At(0)..n : FALSE
    BY <1>2
  <2>2. \A id \in SlotIds, v \in Int : Holds(0, id, v) => back[0][id].value = v
    BY <1>6, <2>1
  <2> HIDE DEF Holds
  <2> QED
    BY <1>2, <2>2
<1>9. ASSUME NEW k \in 1..n, P[k - 1] = TRUE
      PROVE  P[k] = TRUE
  <2>1. k - 1 \in 0..n /\ k \in 0..n /\ At(k) \in 1..n /\ At(k - 1) = At(k) + 1
    BY <1>2
  <2>2. \A id \in SlotIds, v \in Int :
            ~IsInline(id) /\ Holds(k - 1, id, v) => back[k - 1][id].value = v
    BY <1>9, <2>1
  <2>3. ASSUME NEW id \in SlotIds, NEW v \in Int, ~IsInline(id), Holds(k, id, v)
        PROVE  back[k][id].value = v
    <3> DEFINE i == At(k)
               u == undo[i]
    <3>1. u \in UndoSet /\ back[k - 1] \in TableSet /\ back[k] = Unmark(back[k - 1], u.id, u.before)
      BY <1>2, <1>6, <1>7, <2>1
    <3>2. /\ id # u.id => back[k][id] = back[k - 1][id]
          /\ id = u.id => back[k][id].value = u.before
      <4> HIDE DEF u
      <4> QED
        BY <2>3, <3>1, UnmarkIs
    <3>3. i \in Nat /\ i <= n /\ At(k - 1) = i + 1
      BY <2>1
    <3>4. /\ \A j \in i..n : undo[j].id = id /\ (\A m \in i..(j - 1) : undo[m].id # id)
                             => undo[j].before = v
          /\ (\A j \in i..n : undo[j].id # id) => table[id].value = v
      BY <2>3
    <3> HIDE DEF i
    <3>5. CASE id = u.id
      <4>1. i \in i..n /\ \A m \in i..(i - 1) : undo[m].id # id
        BY <1>2, <3>3
      <4>2. u.before = v
        BY <3>4, <3>5, <4>1
      <4> QED
        BY <3>2, <3>5, <4>2
    <3>6. CASE id # u.id
      <4>1. ASSUME NEW j \in (i + 1)..n, undo[j].id = id,
                   \A m \in (i + 1)..(j - 1) : undo[m].id # id
            PROVE  undo[j].before = v
        <5>1. j \in i..n
          BY <1>2, <3>3
        <5>2. \A m \in i..(j - 1) : m = i \/ m \in (i + 1)..(j - 1)
          BY <1>2, <3>3
        <5>3. \A m \in i..(j - 1) : undo[m].id # id
          BY <3>6, <4>1, <5>2
        <5> QED
          BY <3>4, <4>1, <5>1, <5>3
      <4>2. ASSUME \A j \in (i + 1)..n : undo[j].id # id
            PROVE  table[id].value = v
        <5>1. \A j \in i..n : j = i \/ j \in (i + 1)..n
          BY <1>2, <3>3
        <5>2. \A j \in i..n : undo[j].id # id
          BY <3>6, <4>2, <5>1
        <5> QED
          BY <3>4, <5>2
      <4>3. Holds(k - 1, id, v)
        BY <3>3, <4>1, <4>2
      <4> HIDE DEF Holds
      <4> QED
        BY <2>2, <2>3, <3>2, <3>6, <4>3
    <3> QED
      BY <3>5, <3>6
  <2> HIDE DEF Holds
  <2> QED
    BY <2>1, <2>3
<1>10. P[n] = TRUE
  <2> HIDE DEF P
  <2>1. \A j \in 0..n : P[j] = TRUE
    BY <1>2, <1>8, <1>9, TrueByRounds
  <2> QED
    BY <1>2, <2>1
<1>11. ASSUME NEW id \in SlotIds, NEW v \in Int, ~IsInline(id), FirstHolds(undo, id, v),
              ~Touches(undo, id) => table[id].value = v
       PROVE  back[n][id].value = v
  <2>1. At(n) = 1
    BY <1>2
  <2>2. Holds(n, id, v)
    BY <1>2, <1>11, <2>1 DEF FirstHolds, Touches
  <2> HIDE DEF Holds
  <2>3. n \in 0..n
    BY <1>2
  <2>4. \A x \in SlotIds, w \in Int : ~IsInline(x) /\ Holds(n, x, w) => back[n][x].value = w
    BY <1>10, <2>3
  <2> QED
    BY <1>11, <2>2, <2>4
<1> HIDE DEF P, Round
<1> QED
  BY <1>1, <1>2, <1>7, <1>11

-----------------------------------------------------------------------------
(* The invariant of walking.                                               *)

\* A call of a walk of text t: at a node, for regexes that were added, with edges
\* of the node still to try.  Where it is said to have all the regexes alive at
\* its node, it has.
CallSet ==
    [node : Nat, prev : Nat, pos : Nat, paths : SUBSET Regexes, live : BOOLEAN,
     todo : Seq(Nat), saved : Partial(Nat, LimitSet), undo : Seq(UndoSet)]
CallsFor(t) ==
    {c \in CallSet :
        /\ c.node \in NodesOf(g) /\ c.pos \in 0..Len(t)
        /\ c.paths \subseteq AddedRegexes
        /\ c.todo \in Seq(DOMAIN Out(g, c.node))
        /\ c.live /\ c.prev # NoNode => c.paths = Alive(g, c.node)}

\* The first entry of a slot, in the order of the calls, found it unset; without
\* one it is.
Rewound(id) ==
    /\ \A i \in DOMAIN calls :
           (\A m \in 1..(i - 1) : ~Touches(calls[m].undo, id))
           => FirstHolds(calls[i].undo, id, Unset)
    /\ (\A i \in DOMAIN calls : ~Touches(calls[i].undo, id)) => slots[id].value = Unset

\* So it is for the groups that open and spill.
AllRewound == \A id \in SlotIds : id.open /\ ~IsInline(id) => Rewound(id)

\* There is a counter for every limit.
CountersInv == counters \in [1..Len(g.limit) -> LimitSet]

\* Nothing is built while a text is matched.
WalkInv ==
    /\ text \in Seq(Nat)
    /\ calls \in Seq(CallsFor(text))
    /\ calls # << >> =>
           /\ adding = NoRegex
           /\ CountersInv
           /\ slots \in TableSet
           /\ Call.undo = << >>
           /\ AllRewound

\* The inductive invariant.
MatcherInv == BuildInv /\ CompiledInv /\ WalkInv

\* The regexes added are finitely many numbers.
LEMMA AddedIs ==
    ASSUME GraphInv
    PROVE  /\ IsFiniteSet(AddedRegexes) /\ AddedRegexes \in SUBSET Regexes
           /\ AddedRegexes \in SUBSET Nat
<1>1. added \in Seq(Regexes) /\ Len(added) \in Nat /\ DOMAIN added = 1..Len(added)
  BY LenProperties DEF GraphInv
<1>2. IsFiniteSet(1..Len(added))
  BY <1>1, FS_Interval
<1>3. added \in Surjection(1..Len(added), AddedRegexes)
  <2>1. added \in [1..Len(added) -> AddedRegexes]
    BY <1>1 DEF AddedRegexes, Range
  <2>2. \A r \in AddedRegexes : \E i \in 1..Len(added) : added[i] = r
    BY <1>1 DEF AddedRegexes, Range
  <2> QED
    BY <2>1, <2>2 DEF Surjection
<1>4. IsFiniteSet(AddedRegexes)
  BY <1>2, <1>3, FS_Surjection
<1>5. AddedRegexes \in SUBSET Regexes
  BY <1>1 DEF AddedRegexes, Range
<1> QED
  BY <1>4, <1>5, RegexesAssumption

\* The edges a call is to try are edges of its node.
LEMMA CandidatesAre ==
    ASSUME NEW R, GraphOK(g, R), NEW t, NEW n \in NodesOf(g), NEW pos
    PROVE  Candidates(t, n, pos) \in Seq(DOMAIN Out(g, n))
<1> DEFINE D == DOMAIN Out(g, n)
           c == t[pos + 1]
           Plain(s) == IF HasChild(g, n, s) THEN <<s>> ELSE << >>
           classes == {s \in D : IsClass(s) /\ c \in g.node[Child(g, n, s)].members}
<1>1. IsFiniteSet(D) /\ D \in SUBSET Nat
  BY GraphParts DEF GraphOK
<1>2. ASSUME NEW s
      PROVE  Plain(s) \in Seq(D)
  <2>1. CASE HasChild(g, n, s)
    <3>1. Plain(s) = <<s>> /\ s \in D
      BY <2>1 DEF HasChild
    <3> HIDE DEF Plain, D
    <3> QED
      BY <3>1
  <2>2. CASE ~HasChild(g, n, s)
    <3>1. Plain(s) = << >>
      BY <2>2
    <3> HIDE DEF Plain, D
    <3> QED
      BY <3>1
  <2> QED
    BY <2>1, <2>2
<1>3. Ordered(classes) \in Seq(D)
  <2>1. classes \in SUBSET D
    OBVIOUS
  <2> HIDE DEF classes, D
  <2>2. IsFiniteSet(classes) /\ classes \in SUBSET Nat
    BY <1>1, <2>1, FS_Subset
  <2>3. Ordered(classes) \in Seq(classes)
    BY <2>2, OrderedIs
  <2> QED
    BY <2>1, <2>3, SeqGrows
<1>4. Candidates(t, n, pos) = Plain(c) \o Plain(AnySym) \o Plain(NoneSym) \o Ordered(classes)
  BY DEF Candidates
<1> HIDE DEF Plain, classes, D
<1> QED
  BY <1>2, <1>3, <1>4, ConcatProperties DEF D

\* A call that begins.
LEMMA NewCallIs ==
    ASSUME GraphInv, NEW t \in Seq(Nat), NEW n \in NodesOf(g), NEW prev \in Nat,
           NEW pos \in 0..Len(t), NEW paths \in SUBSET AddedRegexes, NEW live \in BOOLEAN,
           live /\ prev # NoNode => paths = Alive(g, n)
    PROVE  LET c == NewCall(t, n, prev, pos, paths, live)
           IN  c \in CallsFor(t) /\ c.undo = << >>
<1> DEFINE todo == IF pos < Len(t) THEN Candidates(t, n, pos) ELSE << >>
           D == DOMAIN Out(g, n)
           c == [node |-> n, prev |-> prev, pos |-> pos, paths |-> paths, live |-> live,
                 todo |-> todo, saved |-> << >>, undo |-> << >>]
<1>1. GraphOK(g, AddedRegexes) /\ g \in GraphSet
  BY DEF GraphInv, GraphOK
<1>2. NodesOf(g) \in SUBSET Nat /\ D \in SUBSET Nat
  BY <1>1, GraphParts
<1>3. todo \in Seq(D)
  <2>1. Candidates(t, n, pos) \in Seq(D)
    BY <1>1, CandidatesAre
  <2>2. << >> \in Seq(D)
    OBVIOUS
  <2> HIDE DEF D
  <2>3. todo = Candidates(t, n, pos) \/ todo = << >>
    OBVIOUS
  <2> HIDE DEF todo
  <2> QED
    BY <2>1, <2>2, <2>3
<1> HIDE DEF todo, D
<1>4. todo \in Seq(Nat)
  BY <1>2, <1>3, SeqGrows
<1>5. << >> \in Partial(Nat, LimitSet)
  BY EmptyPartial
<1>6. Len(t) \in Nat /\ n \in Nat /\ paths \in SUBSET Regexes
  BY <1>2, AddedIs, LenProperties
<1>7. pos \in Nat
  BY <1>6
<1>8. << >> \in Seq(UndoSet)
  OBVIOUS
<1>9. c \in CallSet
  BY <1>4, <1>5, <1>6, <1>7, <1>8 DEF CallSet
<1>10. c \in CallsFor(t)
  BY <1>3, <1>9 DEF CallsFor, D
<1> QED
  BY <1>10 DEF NewCall, todo

\* The call at hand.
LEMMA CallIs ==
    ASSUME WalkInv, calls # << >>
    PROVE  /\ Call \in CallsFor(text) /\ Call.undo = << >>
           /\ Callers \in Seq(CallsFor(text))
           /\ Len(calls) \in Nat /\ Len(calls) >= 1
           /\ Len(Callers) = Len(calls) - 1
           /\ \A i \in 1..(Len(calls) - 1) : Callers[i] = calls[i]
           /\ adding = NoRegex /\ CountersInv /\ slots \in TableSet /\ AllRewound
<1>1. calls \in Seq(CallsFor(text))
  BY DEF WalkInv
<1> QED
  BY <1>1, FrontIs DEF WalkInv, Call, Callers

\* Nothing walked is left unset that an open group spilled to, when all the calls
\* are taken back.
LEMMA RewoundIs ==
    ASSUME WalkInv, calls # << >>
    PROVE  \A id \in SlotIds : id.open /\ ~IsInline(id) => AllUnmarked[id].value = Unset
<1> DEFINE n == Len(calls)
           At(k) == n + 1 - k
           Round(x, k) == Unmarked(x, calls[At(k)].undo)
           Loop(f) == f = [k \in 0..n |-> IF k = 0 THEN slots ELSE
                              Unmarked(f[k - 1], calls[n + 1 - k].undo)]
           back == CHOOSE f : Loop(f)
           S == TableSet
<1>1. AllUnmarked = back[n]
  BY DEF AllUnmarked
<1>2. /\ n \in Nat /\ DOMAIN calls = 1..n /\ slots \in TableSet
      /\ \A k \in 1..n : At(k) \in 1..n /\ calls[At(k)].undo \in Seq(UndoSet)
  <2>1. /\ n \in Nat /\ DOMAIN calls = 1..n /\ slots \in TableSet
        /\ \A k \in 1..n : calls[k] \in CallsFor(text)
    BY LenProperties, ElementOfSeq DEF WalkInv
  <2>2. \A k \in 1..n : calls[k].undo \in Seq(UndoSet)
    <3> HIDE DEF n
    <3> QED
      BY <2>1 DEF CallsFor, CallSet
  <2> HIDE DEF n
  <2> QED
    BY <2>1, <2>2
<1>3. ASSUME NEW x \in S, NEW k \in 1..n
      PROVE  Round(x, k) \in S
  BY <1>2, UnmarkedIs
<1>4. \E f : Loop(f)
  <2> HIDE DEF S
  <2> DEFINE F == [j \in 1..n |-> [x \in S |-> Round(x, j)]]
  <2>1. F \in [1..n -> [S -> S]]
    <3> HIDE DEF Round
    <3> QED
      BY <1>3
  <2>2. PICK f : Rounds(f, S, n, F, slots)
    <3>1. slots \in S
      BY <1>2 DEF S
    <3> HIDE DEF F, n
    <3> QED
      BY <1>2, <2>1, <3>1, RoundsExist
  <2>3. ASSUME NEW j \in 1..n
        PROVE  f[j] = Round(f[j - 1], j)
    <3>1. j - 1 \in 0..n
      BY <1>2
    <3>2. f[j - 1] \in S
      BY <2>2, <3>1 DEF Rounds
    <3> HIDE DEF Round, n
    <3> QED
      BY <2>2, <3>2 DEF Rounds
  <2> HIDE DEF n
  <2>4. Loop(f)
    <3>1. ASSUME NEW j \in 0..n
          PROVE  f[j] = IF j = 0 THEN slots ELSE Unmarked(f[j - 1], calls[n + 1 - j].undo)
      BY <1>2, <2>2, <2>3 DEF Rounds
    <3> QED
      BY <2>2, <3>1 DEF Rounds
  <2> QED
    BY <2>4
<1>5. Loop(back)
  BY <1>4
<1> HIDE DEF back, n
<1>6. back[0] = slots /\ \A j \in 1..n : back[j] = Round(back[j - 1], j)
  <2>1. \A j \in 0..n : back[j] = IF j = 0 THEN slots ELSE Round(back[j - 1], j)
    BY <1>5
  <2> HIDE DEF Loop, Round
  <2> QED
    BY <1>2, <2>1
<1> HIDE DEF Loop
<1>7. \A j \in 0..n : back[j] \in S
  <2> HIDE DEF S, Round
  <2>1. slots \in S
    BY <1>2 DEF S
  <2> QED
    BY <1>2, <1>3, <1>6, <2>1, KeptByRounds
\* What the last k calls have of a slot.
<1> DEFINE Holds(k, id) ==
               /\ \A j \in At(k)..n :
                      (\A m \in At(k)..(j - 1) : ~Touches(calls[m].undo, id))
                      => FirstHolds(calls[j].undo, id, Unset)
               /\ (\A j \in At(k)..n : ~Touches(calls[j].undo, id)) => slots[id].value = Unset
           P == [k \in 0..n |-> \A id \in SlotIds :
                                    ~IsInline(id) /\ Holds(k, id) => back[k][id].value = Unset]
<1>8. P[0] = TRUE
  <2>1. \A j \in At(0)..n : FALSE
    BY <1>2
  <2>2. \A id \in SlotIds : Holds(0, id) => back[0][id].value = Unset
    BY <1>6, <2>1
  <2> HIDE DEF Holds
  <2> QED
    BY <1>2, <2>2
<1>9. ASSUME NEW k \in 1..n, P[k - 1] = TRUE
      PROVE  P[k] = TRUE
  <2>1. k - 1 \in 0..n /\ k \in 0..n /\ At(k) \in 1..n /\ At(k - 1) = At(k) + 1
    BY <1>2
  <2>2. \A id \in SlotIds :
            ~IsInline(id) /\ Holds(k - 1, id) => back[k - 1][id].value = Unset
    BY <1>9, <2>1
  <2>3. ASSUME NEW id \in SlotIds, ~IsInline(id), Holds(k, id)
        PROVE  back[k][id].value = Unset
    <3> DEFINE i == At(k)
               u == calls[i].undo
    <3>1. u \in Seq(UndoSet) /\ back[k - 1] \in TableSet /\ back[k] = Unmarked(back[k - 1], u)
      BY <1>2, <1>6, <1>7, <2>1
    <3>2. /\ FirstHolds(u, id, Unset)
          /\ ~Touches(u, id) => back[k - 1][id].value = Unset
          => back[k][id].value = Unset
      <4>1. Unset \in Int
        BY DEF Unset
      <4> HIDE DEF u
      <4> QED
        BY <2>3, <3>1, <4>1, UnmarkedIs
    <3>3. i \in Nat /\ i <= n /\ At(k - 1) = i + 1
      BY <2>1
    <3>4. /\ \A j \in i..n : (\A m \in i..(j - 1) : ~Touches(calls[m].undo, id))
                             => FirstHolds(calls[j].undo, id, Unset)
          /\ (\A j \in i..n : ~Touches(calls[j].undo, id)) => slots[id].value = Unset
      BY <2>3
    <3> HIDE DEF i
    <3>5. FirstHolds(u, id, Unset)
      <4>1. i \in i..n /\ \A m \in i..(i - 1) : ~Touches(calls[m].undo, id)
        BY <1>2, <3>3
      <4> QED
        BY <3>4, <4>1
    <3>6. ASSUME ~Touches(u, id)
          PROVE  back[k - 1][id].value = Unset
      <4>1. ASSUME NEW j \in (i + 1)..n,
                   \A m \in (i + 1)..(j - 1) : ~Touches(calls[m].undo, id)
            PROVE  FirstHolds(calls[j].undo, id, Unset)
        <5>1. j \in i..n
          BY <1>2, <3>3
        <5>2. \A m \in i..(j - 1) : m = i \/ m \in (i + 1)..(j - 1)
          BY <1>2, <3>3
        <5>3. \A m \in i..(j - 1) : ~Touches(calls[m].undo, id)
          BY <3>6, <4>1, <5>2
        <5> QED
          BY <3>4, <5>1, <5>3
      <4>2. ASSUME \A j \in (i + 1)..n : ~Touches(calls[j].undo, id)
            PROVE  slots[id].value = Unset
        <5>1. \A j \in i..n : j = i \/ j \in (i + 1)..n
          BY <1>2, <3>3
        <5>2. \A j \in i..n : ~Touches(calls[j].undo, id)
          BY <3>6, <4>2, <5>1
        <5> QED
          BY <3>4, <5>2
      <4>3. Holds(k - 1, id)
        BY <3>3, <4>1, <4>2
      <4> HIDE DEF Holds
      <4> QED
        BY <2>2, <2>3, <4>3
    <3> QED
      BY <3>2, <3>5, <3>6
  <2> HIDE DEF Holds
  <2> QED
    BY <2>1, <2>3
<1>10. P[n] = TRUE
  <2> HIDE DEF P
  <2>1. \A j \in 0..n : P[j] = TRUE
    BY <1>2, <1>8, <1>9, TrueByRounds
  <2> QED
    BY <1>2, <2>1
<1>11. ASSUME NEW id \in SlotIds, id.open, ~IsInline(id)
       PROVE  back[n][id].value = Unset
  <2>1. At(n) = 1
    BY <1>2
  <2>2. Rewound(id)
    BY <1>11 DEF WalkInv, AllRewound
  <2>3. Holds(n, id)
    BY <1>2, <2>1, <2>2 DEF Rewound
  <2> HIDE DEF Holds
  <2>4. n \in 0..n
    BY <1>2
  <2>5. \A x \in SlotIds : ~IsInline(x) /\ Holds(n, x) => back[n][x].value = Unset
    BY <1>10, <2>4
  <2> QED
    BY <1>11, <2>3, <2>5
<1> QED
  BY <1>1, <1>11

\* What a walk is over stays as it is while the graph, the regexes and the text do.
LEMMA SameCalls ==
    ASSUME UNCHANGED <<g, added, text>>
    PROVE  /\ SlotIds' = SlotIds /\ TableSet' = TableSet
           /\ CallsFor(text)' = CallsFor(text)
<1>1. SlotIds' = SlotIds
  BY DEF SlotIds, Tags, EdgesOf
<1>2. TableSet' = TableSet /\ UndoSet' = UndoSet
  BY <1>1 DEF TableSet, UndoSet
<1>3. CallSet' = CallSet
  BY <1>2 DEF CallSet
<1>4. AddedRegexes' = AddedRegexes
  BY DEF AddedRegexes
<1> QED
  BY <1>1, <1>2, <1>3, <1>4 DEF CallsFor

\* A call that changes in what it has to do next, or to leave as it was.
LEMMA CallChanged ==
    ASSUME NEW t, NEW c \in CallsFor(t), NEW k \in CallSet,
           k.node = c.node, k.pos = c.pos, k.paths = c.paths, k.live = c.live, k.prev = c.prev,
           k.todo \in Seq(DOMAIN Out(g, c.node))
    PROVE  k \in CallsFor(t)
BY DEF CallsFor

\* A call returns, with the slots of the groups that open as they were.
LEMMA LeaveKeeps ==
    ASSUME MatcherInv, calls # << >>, UNCHANGED <<g, text, added, adding>>,
           NEW table \in TableSet, \A id \in SlotIds : id.open => table[id] = slots[id],
           NEW found, Leave(table, found)
    PROVE  WalkInv'
<1> DEFINE n == Len(calls)
           S == CallsFor(text)
           caller == Last(Callers)
           next == [caller EXCEPT !.saved = << >>, !.undo = << >>]
<1>1. /\ SlotIds' = SlotIds /\ TableSet' = TableSet
      /\ CallsFor(text)' = S
  BY SameCalls
<1>2. /\ text \in Seq(Nat)
      /\ Call \in S /\ Call.undo = << >> /\ Callers \in Seq(S)
      /\ n \in Nat /\ n >= 1 /\ Len(Callers) = n - 1
      /\ \A i \in 1..(n - 1) : Callers[i] = calls[i]
      /\ adding = NoRegex /\ CountersInv /\ slots \in TableSet /\ AllRewound
  BY CallIs DEF MatcherInv, WalkInv
<1>3. text' \in Seq(Nat)
  BY <1>2
<1>4. CASE Callers = << >>
  <2>1. calls' = << >>
    BY <1>4 DEF Leave
  <2>2. << >> \in Seq(CallsFor(text)')
    OBVIOUS
  <2>3. calls' \in Seq(CallsFor(text)')
    BY <2>1, <2>2
  <2> QED
    BY <1>3, <2>1, <2>3 DEF WalkInv
<1>5. CASE Callers # << >>
  <2>1. /\ calls' = [Callers EXCEPT ![Len(Callers)] =
                        [Callers[Len(Callers)] EXCEPT !.saved = << >>, !.undo = << >>]]
        /\ slots' = Unmarked(table, caller.undo)
        /\ counters' = Restored(caller.saved)
    BY <1>5 DEF Leave
  <2>2. /\ caller \in S /\ caller = Callers[n - 1] /\ caller = calls[n - 1] /\ n - 1 \in 1..n
        /\ n - 1 >= 1
    <3>1. caller \in S /\ caller = Callers[Len(Callers)] /\ Len(Callers) >= 1
      BY <1>2, <1>5, FrontIs
    <3> HIDE DEF caller
    <3> QED
      BY <1>2, <3>1
  <2>3. /\ caller \in CallSet /\ caller.undo \in Seq(UndoSet) /\ caller.saved \in Partial(Nat, LimitSet)
        /\ caller.todo \in Seq(DOMAIN Out(g, caller.node))
    BY <2>2 DEF CallsFor, CallSet
  <2>4. next \in S /\ next.undo = << >>
    <3>1. << >> \in Partial(Nat, LimitSet) /\ << >> \in Seq(UndoSet)
      BY EmptyPartial
    <3> DEFINE none == << >>
    <3>2. none \in Partial(Nat, LimitSet) /\ none \in Seq(UndoSet)
      BY <3>1
    <3>3. next = [caller EXCEPT !.saved = none, !.undo = none]
      OBVIOUS
    <3> HIDE DEF none, next, caller
    <3>4. /\ next \in CallSet /\ next.undo = none
          /\ next.node = caller.node /\ next.pos = caller.pos /\ next.paths = caller.paths
          /\ next.live = caller.live /\ next.prev = caller.prev /\ next.todo = caller.todo
      BY <2>3, <3>2, <3>3 DEF CallSet
    <3>5. caller \in CallsFor(text)
      BY <2>2
    <3>6. next \in CallsFor(text)
      BY <2>3, <3>4, <3>5, CallChanged
    <3> QED
      BY <3>4, <3>6 DEF none
  <2>5. calls' = [Callers EXCEPT ![Len(Callers)] = next]
    BY <1>2, <2>1, <2>2
  <2> HIDE DEF next, caller
  <2>6. /\ calls' \in Seq(S) /\ Len(calls') = n - 1 /\ calls' # << >>
        /\ calls'[n - 1] = next
        /\ \A i \in 1..(n - 2) : calls'[i] = calls[i]
    <3>1. /\ calls' \in Seq(S) /\ Len(calls') = Len(Callers) /\ calls' # << >>
          /\ calls'[Len(calls')] = next
          /\ \A i \in 1..(Len(Callers) - 1) : calls'[i] = Callers[i]
      BY <1>2, <1>5, <2>4, <2>5, LastReplaced
    <3>2. Len(Callers) - 1 = n - 2
      BY <1>2
    <3>3. \A i \in 1..(n - 2) : i \in 1..(n - 1)
      BY <1>2
    <3> QED
      BY <1>2, <3>1, <3>2, <3>3
  <2>7. DOMAIN calls' = 1..(n - 1) /\ DOMAIN calls = 1..n
    <3>1. calls \in Seq(S)
      BY DEF MatcherInv, WalkInv
    <3> QED
      BY <2>6, <3>1, LenProperties
  <2>8. slots' \in TableSet
    BY <2>1, <2>3, UnmarkedIs
  <2>9. Call'.undo = << >>
    BY <2>4, <2>6 DEF Call
  <2>10. CountersInv'
    <3>1. \A l \in DOMAIN caller.saved : caller.saved[l] \in LimitSet
      BY <2>3, PartialIs
    <3> QED
      BY <1>2, <2>1, <3>1 DEF CountersInv, Restored
  <2>11. ASSUME NEW id \in SlotIds, id.open, ~IsInline(id)
         PROVE  Rewound(id)'
    <3>1. /\ \A i \in 1..n : (\A m \in 1..(i - 1) : ~Touches(calls[m].undo, id))
                             => FirstHolds(calls[i].undo, id, Unset)
          /\ (\A i \in 1..n : ~Touches(calls[i].undo, id)) => slots[id].value = Unset
      BY <1>2, <2>7, <2>11 DEF AllRewound, Rewound
    <3>2. ~Touches(next.undo, id) /\ FirstHolds(next.undo, id, Unset)
      BY <2>4 DEF Touches, FirstHolds
    <3>3. ~Touches(calls[n].undo, id)
      BY <1>2 DEF Call, Touches
    <3>4. ASSUME NEW i \in 1..(n - 1), \A m \in 1..(i - 1) : ~Touches(calls'[m].undo, id)
          PROVE  FirstHolds(calls'[i].undo, id, Unset)
      <4>1. CASE i = n - 1
        BY <2>6, <3>2, <4>1
      <4>2. CASE i # n - 1
        <5>1. i \in 1..(n - 2) /\ i \in 1..n /\ \A m \in 1..(i - 1) : m \in 1..(n - 2)
          BY <1>2, <4>2
        <5>2. \A m \in 1..(i - 1) : ~Touches(calls[m].undo, id)
          BY <2>6, <3>4, <5>1
        <5>3. calls'[i] = calls[i]
          BY <2>6, <5>1
        <5> QED
          BY <3>1, <5>1, <5>2, <5>3
      <4> QED
        BY <4>1, <4>2
    <3>5. ASSUME \A i \in 1..(n - 1) : ~Touches(calls'[i].undo, id)
          PROVE  slots'[id].value = Unset
      <4>1. \A i \in 1..(n - 2) : ~Touches(calls[i].undo, id)
        <5>1. \A i \in 1..(n - 2) : i \in 1..(n - 1)
          BY <1>2
        <5> QED
          BY <2>6, <3>5, <5>1
      <4>2. FirstHolds(caller.undo, id, Unset)
        <5>1. n - 1 \in 1..n /\ (n - 1) - 1 = n - 2
          BY <1>2, <2>2
        <5> QED
          BY <2>2, <3>1, <4>1, <5>1
      <4>3. ASSUME ~Touches(caller.undo, id)
            PROVE  table[id].value = Unset
        <5>1. \A i \in 1..n : i \in 1..(n - 2) \/ i = n - 1 \/ i = n
          BY <1>2
        <5>2. \A i \in 1..n : ~Touches(calls[i].undo, id)
          BY <2>2, <3>3, <4>1, <4>3, <5>1
        <5> QED
          BY <2>11, <3>1, <5>2
      <4>4. Unset \in Int
        BY DEF Unset
      <4> QED
        BY <2>1, <2>3, <2>11, <4>2, <4>3, <4>4, UnmarkedIs
    <3> QED
      BY <2>7, <3>4, <3>5 DEF Rewound
  <2>12. AllRewound'
    BY <1>1, <2>11 DEF AllRewound
  <2> QED
    BY <1>1, <1>2, <1>3, <2>6, <2>8, <2>9, <2>10, <2>12 DEF WalkInv
<1> QED
  BY <1>4, <1>5

\* The regexes a call takes an edge for.
Arrived(c, e) == IF IsFast(c, e) THEN e.ids ELSE Survivors(c, e)

\* They are regexes that were added, and all there are when the edge says so.
LEMMA ArrivedAre ==
    ASSUME GraphInv, CompiledInv, adding = NoRegex,
           NEW c \in CallsFor(text), NEW s \in DOMAIN Out(g, c.node)
    PROVE  LET e == Out(g, c.node)[s]
           IN  /\ e \in EdgeSet
               /\ RunEnd(e) \in NodesOf(g)
               /\ Arrived(c, e) \in SUBSET AddedRegexes
               /\ IsFast(c, e) /\ e.full => Arrived(c, e) = Alive(g, RunEnd(e))
               /\ Used(c, e) \in SUBSET (1..Len(g.limit))
<1> DEFINE n == c.node
           e == Out(g, n)[s]
<1>1. n \in NodesOf(g)
  BY DEF CallsFor
<1>2. g \in GraphSet /\ EdgeOK(g, AddedRegexes, s, e)
  BY <1>1 DEF GraphInv, GraphOK
<1>3. e \in EdgeSet
  BY <1>1, <1>2, GraphParts
<1>4. RunEnd(e) \in NodesOf(g)
  BY <1>2 DEF RunEnd, EdgeOK
<1>5. Survivors(c, e) \in SUBSET Ids(e) /\ Ids(e) \subseteq AddedRegexes /\ e.ids \subseteq AddedRegexes
  BY <1>2 DEF Survivors, EdgeOK
<1>6. Arrived(c, e) \in SUBSET AddedRegexes
  BY <1>5 DEF Arrived
<1>7. ASSUME IsFast(c, e), e.full
      PROVE  Arrived(c, e) = Alive(g, RunEnd(e))
  <2>1. CompiledWell(g, n)
    BY <1>1, <1>7 DEF CompiledInv, IsFast
  <2>2. e.ids = Ids(e) /\ Ids(e) = Alive(g, RunEnd(e))
    BY <1>7, <2>1 DEF CompiledWell
  <2> QED
    BY <1>7, <2>2 DEF Arrived
<1>8. Used(c, e) \in SUBSET (1..Len(g.limit))
  <2>1. Len(g.limit) \in Nat
    BY <1>2, GraphParts
  <2>2. \A r \in Ids(e) : e.paths[r] \in 0..Len(g.limit)
    BY <1>2 DEF EdgeOK
  <2>3. \A l \in Used(c, e) : l # NoLimit /\ \E r \in Ids(e) : l = e.paths[r]
    BY <1>5 DEF Used
  <2> QED
    BY <2>1, <2>2, <2>3 DEF NoLimit
<1> QED
  BY <1>3, <1>4, <1>6, <1>7, <1>8

\* Counters counted down are counters, and so are those that are set aside.
LEMMA LoweredAre ==
    ASSUME CountersInv, Len(g.limit) \in Nat, NEW used \in SUBSET (1..Len(g.limit))
    PROVE  /\ Lower(used) \in [1..Len(g.limit) -> LimitSet]
           /\ Saved(used) \in Partial(Nat, LimitSet)
<1>1. counters \in [1..Len(g.limit) -> LimitSet]
  BY DEF CountersInv
<1>2. ASSUME NEW l \in LimitSet
      PROVE  Lowered(l) \in LimitSet
  <2>1. l.min \in Nat /\ l.max \in Int
    BY DEF LimitSet
  <2>2. (IF l.min > 0 THEN l.min - 1 ELSE l.min) \in Nat
        /\ (IF l.max > 0 THEN l.max - 1 ELSE l.max) \in Int
    BY <2>1
  <2> QED
    BY <2>2 DEF Lowered, LimitSet
<1>3. Lower(used) \in [1..Len(g.limit) -> LimitSet]
  BY <1>1, <1>2 DEF Lower
<1>4. Saved(used) \in [used -> LimitSet] /\ used \in SUBSET Nat
  BY <1>1 DEF Saved
<1>5. Saved(used) \in Partial(Nat, LimitSet)
  BY <1>4, IsPartial
<1> QED
  BY <1>3, <1>5

\* The tags of an edge marked for some regexes.
LEMMA EdgeMarkedIs ==
    ASSUME GraphInv, slots \in TableSet, NEW n \in NodesOf(g), NEW s \in DOMAIN Out(g, n),
           NEW rs \in SUBSET AddedRegexes, NEW position \in Nat
    PROVE  LET tags == TagsFor(Out(g, n)[s], rs)
           IN  /\ tags \in Seq(TagsOf(Out(g, n)[s]))
               /\ MarkedTo(Marked(tags, position), tags, Len(tags))
<1> DEFINE e == Out(g, n)[s]
           tags == TagsFor(e, rs)
<1>1. AddedRegexes \in SUBSET Regexes /\ GraphOK(g, AddedRegexes)
  BY AddedIs DEF GraphInv
<1>2. e \in EdgeSet
  BY <1>1, GraphParts DEF GraphOK
<1>3. rs \in SUBSET Nat /\ IsFiniteSet(rs)
  BY AddedIs, FS_Subset
<1>4. tags \in Seq(TagsOf(e))
  BY <1>2, <1>3, TagsForIs
<1>5. TagsOf(e) \subseteq SlotIds
  BY <1>1, TagsOfIs
<1>6. tags \in Seq(SlotIds)
  BY <1>4, <1>5, SeqGrows
<1> HIDE DEF tags
<1>7. MarkedTo(Marked(tags, position), tags, Len(tags))
  BY <1>6, MarkedIs
<1> QED
  BY <1>4, <1>7 DEF tags

\* A sequence with one more.
LEMMA OneMore ==
    ASSUME NEW T, NEW u \in Seq(T), NEW x \in T
    PROVE  /\ Append(u, x) \in Seq(T) /\ Len(Append(u, x)) = Len(u) + 1
           /\ Append(u, x)[Len(u) + 1] = x
           /\ \A i \in 1..Len(u) : Append(u, x)[i] = u[i]
BY AppendProperties

\* A sequence with two more.
LEMMA TwoMore ==
    ASSUME NEW T, NEW u \in Seq(T), NEW x \in T, NEW y \in T
    PROVE  LET v == u \o <<x, y>>
           IN  /\ v \in Seq(T) /\ Len(v) = Len(u) + 2
               /\ v[Len(u) + 1] = x /\ v[Len(u) + 2] = y
               /\ \A i \in 1..Len(u) : v[i] = u[i]
<1> DEFINE two == <<x, y>>
           v == u \o two
<1>1. two \in Seq(T) /\ Len(two) = 2 /\ two[1] = x /\ two[2] = y
  OBVIOUS
<1> HIDE DEF two
<1>2. /\ v \in Seq(T) /\ Len(v) = Len(u) + Len(two)
      /\ \A i \in 1..(Len(u) + Len(two)) :
             v[i] = IF i <= Len(u) THEN u[i] ELSE two[i - Len(u)]
  BY <1>1, ConcatProperties
<1>3. Len(u) \in Nat
  BY LenProperties
<1>4. (Len(u) + 1) - Len(u) = 1 /\ (Len(u) + 2) - Len(u) = 2
  BY <1>3
<1> HIDE DEF v
<1>5. v[Len(u) + 1] = x /\ v[Len(u) + 2] = y /\ \A i \in 1..Len(u) : v[i] = u[i]
  BY <1>1, <1>2, <1>3, <1>4
<1> QED
  BY <1>2, <1>5 DEF v, two

\* An edge is tried, and taken or not.
LEMMA TryKeeps ==
    ASSUME MatcherInv, UNCHANGED <<added, adding>>, Try
    PROVE  WalkInv'
<1> DEFINE n == Len(calls)
           S == CallsFor(text)
           c == Call
           D == DOMAIN Out(g, c.node)
           s == Head(c.todo)
           e == Out(g, c.node)[s]
           used == Used(c, e)
           paths == Arrived(c, e)
           rest == Tried(c)
           tags == TagsFor(e, paths)
           marked == Marked(tags, c.pos)
           end == After(c, s) + Len(e.run)
           live == IsFast(c, e) /\ e.full
           first == [rest EXCEPT !.saved = Saved(used), !.undo = marked.undo]
           second == NewCall(text, RunEnd(e), c.node, end, paths, live)
           taken == RunMatches(e, After(c, s)) /\ paths # {}
<1>1. /\ calls # << >> /\ c.todo # << >>
      /\ UNCHANGED <<g, text, added, adding>>
      /\ counters' = Lower(used)
      /\ taken => slots' = marked.slots /\ calls' = Callers \o <<first, second>>
      /\ ~taken => slots' = slots /\ calls' = Append(Callers, rest)
  BY DEF Try, Arrived
<1>2. /\ WalkInv /\ GraphInv /\ CompiledInv
      /\ g \in GraphSet /\ Len(g.limit) \in Nat /\ NodesOf(g) \in SUBSET Nat
  BY GraphParts DEF MatcherInv, BuildInv, GraphInv, GraphOK
<1>3. /\ text \in Seq(Nat) /\ Len(text) \in Nat
      /\ c \in S /\ c.undo = << >> /\ Callers \in Seq(S)
      /\ n \in Nat /\ n >= 1 /\ Len(Callers) = n - 1
      /\ \A i \in 1..(n - 1) : Callers[i] = calls[i]
      /\ calls[n] = c
      /\ adding = NoRegex /\ CountersInv /\ slots \in TableSet /\ AllRewound
  BY <1>1, <1>2, CallIs, LenProperties DEF WalkInv, Call
<1>4. /\ SlotIds' = SlotIds /\ TableSet' = TableSet
      /\ CallsFor(text)' = S
  BY <1>1, SameCalls
<1>5. /\ c \in CallSet /\ c.node \in NodesOf(g) /\ c.pos \in Nat /\ c.node \in Nat
      /\ c.todo \in Seq(D)
  BY <1>2, <1>3 DEF CallsFor, CallSet
<1>6. s \in D /\ Tail(c.todo) \in Seq(D) /\ D \in SUBSET Nat
  <2>1. D \in SUBSET Nat
    BY <1>2, <1>5, GraphParts
  <2> HIDE DEF D, c
  <2> QED
    BY <1>1, <1>5, <2>1, HeadTailProperties
<1>7. /\ e \in EdgeSet /\ RunEnd(e) \in NodesOf(g)
      /\ paths \in SUBSET AddedRegexes
      /\ live => paths = Alive(g, RunEnd(e))
      /\ used \in SUBSET (1..Len(g.limit))
  BY <1>2, <1>3, <1>6, ArrivedAre
<1>8. Lower(used) \in [1..Len(g.limit) -> LimitSet] /\ Saved(used) \in Partial(Nat, LimitSet)
  BY <1>2, <1>3, <1>7, LoweredAre
<1>9. MarkedTo(marked, tags, Len(tags))
  <2> HIDE DEF c, paths
  <2> QED
    BY <1>2, <1>3, <1>5, <1>6, <1>7, EdgeMarkedIs
<1>10. /\ marked.slots \in TableSet /\ marked.undo \in Seq(UndoSet)
       /\ \A id \in SlotIds :
              /\ FirstHolds(marked.undo, id, slots[id].value)
              /\ ~Touches(marked.undo, id) => marked.slots[id] = slots[id]
  BY <1>9 DEF MarkedTo
<1>11. /\ rest \in CallSet /\ rest.undo = << >>
       /\ rest.node = c.node /\ rest.pos = c.pos /\ rest.paths = c.paths
       /\ rest.live = c.live /\ rest.prev = c.prev /\ rest.todo = Tail(c.todo)
  <2>1. Tail(c.todo) \in Seq(Nat)
    BY <1>6, SeqGrows
  <2> HIDE DEF c
  <2> QED
    BY <1>3, <1>5, <2>1 DEF Tried, CallSet
<1>12. rest \in S
  <2> HIDE DEF c, rest
  <2>1. c \in CallsFor(text) /\ rest.todo \in Seq(DOMAIN Out(g, c.node))
    BY <1>3, <1>6, <1>11
  <2>2. rest \in CallsFor(text)
    BY <1>11, <2>1, CallChanged
  <2> QED
    BY <2>2
<1>13. /\ first \in CallSet /\ first.undo = marked.undo
       /\ first.node = c.node /\ first.pos = c.pos /\ first.paths = c.paths
       /\ first.live = c.live /\ first.prev = c.prev /\ first.todo = Tail(c.todo)
  <2> HIDE DEF c, rest, marked, used
  <2> QED
    BY <1>8, <1>10, <1>11 DEF CallSet
<1>14. first \in S
  <2> HIDE DEF c, first
  <2>1. c \in CallsFor(text) /\ first.todo \in Seq(DOMAIN Out(g, c.node))
    BY <1>3, <1>6, <1>13
  <2>2. first \in CallsFor(text)
    BY <1>13, <2>1, CallChanged
  <2> QED
    BY <2>2
<1>15. CountersInv'
  BY <1>1, <1>8 DEF CountersInv
<1>16. text' \in Seq(Nat) /\ adding' = NoRegex
  BY <1>1, <1>3
<1>17. calls \in Seq(S) /\ DOMAIN calls = 1..n
  BY <1>2, LenProperties DEF WalkInv
<1>18. ASSUME NEW id \in SlotIds, id.open, ~IsInline(id)
       PROVE  /\ \A i \in 1..n : (\A m \in 1..(i - 1) : ~Touches(calls[m].undo, id))
                                 => FirstHolds(calls[i].undo, id, Unset)
              /\ (\A i \in 1..(n - 1) : ~Touches(calls[i].undo, id)) => slots[id].value = Unset
  <2>1. Rewound(id)
    BY <1>3, <1>18 DEF AllRewound
  <2>2. ~Touches(calls[n].undo, id)
    BY <1>3 DEF Touches
  <2>3. \A i \in 1..n : i \in 1..(n - 1) \/ i = n
    BY <1>3
  <2> QED
    BY <1>17, <2>1, <2>2, <2>3 DEF Rewound
<1> HIDE DEF S, c, D, s, e, used, paths, rest, tags, marked, end, live, first, second
<1>19. CASE ~taken
  <2>1. /\ calls' \in Seq(S) /\ Len(calls') = n /\ calls'[n] = rest
        /\ \A i \in 1..(n - 1) : calls'[i] = calls[i]
    <3> DEFINE all == Append(Callers, rest)
    <3>1. /\ all \in Seq(S) /\ Len(all) = Len(Callers) + 1 /\ all[Len(Callers) + 1] = rest
          /\ \A i \in 1..Len(Callers) : all[i] = Callers[i]
      BY <1>3, <1>12, OneMore
    <3>2. calls' = all
      BY <1>1, <1>19
    <3>3. Len(Callers) + 1 = n /\ Len(Callers) = n - 1
      BY <1>3
    <3> HIDE DEF all, n
    <3> QED
      BY <1>3, <3>1, <3>2, <3>3
  <2>2. calls' # << >> /\ DOMAIN calls' = 1..n
    BY <1>3, <2>1, LenProperties
  <2>3. Call'.undo = << >>
    BY <1>11, <2>1 DEF Call
  <2>4. \A i \in 1..n : calls'[i].undo = calls[i].undo
    <3>1. \A i \in 1..n : i \in 1..(n - 1) \/ i = n
      BY <1>3
    <3> QED
      BY <1>3, <1>11, <2>1, <3>1
  <2>5. ASSUME NEW id \in SlotIds, id.open, ~IsInline(id)
        PROVE  Rewound(id)'
    <3>1. \A i \in 1..n : \A m \in 1..(i - 1) : m \in 1..n
      BY <1>3
    <3>2. \A i \in 1..(n - 1) : i \in 1..n
      BY <1>3
    <3> QED
      BY <1>1, <1>18, <1>19, <2>2, <2>4, <2>5, <3>1, <3>2 DEF Rewound
  <2>6. AllRewound'
    BY <1>4, <2>5 DEF AllRewound
  <2>7. slots' \in TableSet /\ calls' \in Seq(CallsFor(text)')
    BY <1>1, <1>3, <1>4, <1>19, <2>1
  <2> QED
    BY <1>4, <1>15, <1>16, <2>3, <2>6, <2>7 DEF WalkInv
<1>20. CASE taken
  <2>1. second \in S /\ second.undo = << >>
    <3>1. RunMatches(e, After(c, s))
      BY <1>20
    <3>2. After(c, s) \in Nat
      BY <1>5 DEF After
    <3>3. Len(e.run) \in Nat
      BY <1>7, EdgeParts, LenProperties
    <3>4. end \in 0..Len(text)
      BY <1>3, <3>1, <3>2, <3>3 DEF end, RunMatches
    <3>5. live \in BOOLEAN
      BY <1>7, EdgeParts DEF live, IsFast
    <3>6. /\ NewCall(text, RunEnd(e), c.node, end, paths, live) \in CallsFor(text)
          /\ NewCall(text, RunEnd(e), c.node, end, paths, live).undo = << >>
      BY <1>2, <1>3, <1>5, <1>7, <3>4, <3>5, NewCallIs
    <3> QED
      BY <3>6 DEF second, S
  <2>3. /\ calls' \in Seq(S) /\ Len(calls') = n + 1
        /\ calls'[n] = first /\ calls'[n + 1] = second
        /\ \A i \in 1..(n - 1) : calls'[i] = calls[i]
    <3> DEFINE u == Callers
               all == u \o <<first, second>>
    <3>1. /\ all \in Seq(S) /\ Len(all) = Len(u) + 2
          /\ all[Len(u) + 1] = first /\ all[Len(u) + 2] = second
          /\ \A i \in 1..Len(u) : all[i] = u[i]
      <4>1. u \in Seq(S) /\ first \in S /\ second \in S
        BY <1>3, <1>14, <2>1
      <4> HIDE DEF u
      <4> QED
        BY ONLY <4>1, TwoMore
    <3>2. calls' = all
      BY <1>1, <1>20
    <3>3. Len(Callers) + 1 = n /\ Len(Callers) + 2 = n + 1 /\ Len(Callers) = n - 1
      BY <1>3
    <3> HIDE DEF all, n
    <3> QED
      BY <1>3, <3>1, <3>2, <3>3
  <2>4. calls' # << >> /\ DOMAIN calls' = 1..(n + 1)
    BY <1>3, <2>3, LenProperties
  <2>5. Call'.undo = << >>
    BY <2>1, <2>3 DEF Call
  <2>6. /\ \A i \in 1..(n - 1) : calls'[i].undo = calls[i].undo
        /\ calls'[n].undo = marked.undo
        /\ calls'[n + 1].undo = << >>
    BY <1>13, <2>1, <2>3
  <2>7. ASSUME NEW id \in SlotIds, id.open, ~IsInline(id)
        PROVE  Rewound(id)'
    <3>1. ASSUME NEW i \in 1..(n + 1), \A m \in 1..(i - 1) : ~Touches(calls'[m].undo, id)
          PROVE  FirstHolds(calls'[i].undo, id, Unset)
      <4>1. CASE i \in 1..(n - 1)
        <5>1. \A m \in 1..(i - 1) : m \in 1..(n - 1)
          BY <1>3, <4>1
        <5>2. i \in 1..n
          BY <1>3, <4>1
        <5> QED
          BY <1>18, <2>6, <2>7, <3>1, <4>1, <5>1, <5>2
      <4>2. CASE i = n
        <5>1. \A m \in 1..(n - 1) : ~Touches(calls[m].undo, id)
          BY <2>6, <3>1, <4>2
        <5>2. slots[id].value = Unset
          BY <1>18, <2>7, <5>1
        <5> QED
          BY <1>10, <2>6, <4>2, <5>2
      <4>3. CASE i = n + 1
        BY <2>6, <4>3 DEF FirstHolds
      <4> QED
        BY <1>3, <4>1, <4>2, <4>3
    <3>2. ASSUME \A i \in 1..(n + 1) : ~Touches(calls'[i].undo, id)
          PROVE  slots'[id].value = Unset
      <4>1. (\A i \in 1..(n - 1) : i \in 1..(n + 1)) /\ n \in 1..(n + 1)
        BY <1>3
      <4>2. \A m \in 1..(n - 1) : ~Touches(calls[m].undo, id)
        BY <2>6, <3>2, <4>1
      <4>3. slots[id].value = Unset
        BY <1>18, <2>7, <4>2
      <4>4. ~Touches(marked.undo, id)
        BY <2>6, <3>2, <4>1
      <4> QED
        BY <1>1, <1>10, <1>20, <2>7, <4>3, <4>4
    <3> QED
      BY <2>4, <3>1, <3>2 DEF Rewound
  <2>8. AllRewound'
    BY <1>4, <2>7 DEF AllRewound
  <2>9. slots' \in TableSet /\ calls' \in Seq(CallsFor(text)')
    BY <1>1, <1>4, <1>10, <1>20, <2>3
  <2> QED
    BY <1>4, <1>15, <1>16, <2>5, <2>8, <2>9 DEF WalkInv
<1> QED
  BY <1>19, <1>20

\* A call with nothing left to try returns.
LEMMA NothingLeftKeeps ==
    ASSUME MatcherInv, UNCHANGED <<added, adding>>, NothingLeft
    PROVE  WalkInv'
<1>1. calls # << >> /\ UNCHANGED <<g, text, added, adding>> /\ Leave(slots, results)
  BY DEF NothingLeft
<1>2. slots \in TableSet
  BY <1>1, CallIs DEF MatcherInv
<1> QED
  BY <1>1, <1>2, LeaveKeeps

\* A call at the end of the text marks the tags of the end mark, which open no
\* group, and returns.
LEMMA EndOfTextKeeps ==
    ASSUME MatcherInv, UNCHANGED <<added, adding>>, EndOfText
    PROVE  WalkInv'
<1> DEFINE c == Call
           eor == EdgeAt(g, c.node, Eor)
           arriving == IF c.paths = {} THEN Ids(eor) ELSE c.paths \cap Ids(eor)
           ending == {r \in arriving : EndsHere(c, r)}
           tags == TagsFor(eor, ending)
           table == Marked(tags, c.pos).slots
           found == results \o
                        [i \in 1..Cardinality(ending) |->
                            [regex |-> Ordered(ending)[i],
                             groups |-> Groups(table, Ordered(ending)[i])]]
           Closing == {id \in SlotIds : ~id.open}
<1>1. calls # << >> /\ UNCHANGED <<g, text, added, adding>> /\ Leave(table, found)
  BY DEF EndOfText
<1>2. /\ WalkInv /\ GraphInv /\ GraphOK(g, AddedRegexes) /\ g \in GraphSet
      /\ AddedRegexes \in SUBSET Regexes /\ AddedRegexes \in SUBSET Nat
      /\ IsFiniteSet(AddedRegexes)
  BY AddedIs DEF MatcherInv, BuildInv, GraphInv, GraphOK
<1>3. slots \in TableSet /\ c.node \in NodesOf(g) /\ c.pos \in Nat
  BY <1>1, <1>2, CallIs DEF CallsFor, CallSet
<1> HIDE DEF c
<1>4. /\ eor \in EdgeSet
      /\ HasChild(g, c.node, Eor) => eor = Out(g, c.node)[Eor]
      /\ ~HasChild(g, c.node, Eor) => Ids(eor) = {} /\ DOMAIN eor.tags = {}
  BY <1>2, <1>3, EdgeAtIs
<1>5. Ids(eor) \subseteq AddedRegexes
  <2>1. CASE HasChild(g, c.node, Eor)
    <3>1. EdgeOK(g, AddedRegexes, Eor, Out(g, c.node)[Eor])
      BY <1>2, <1>3, <2>1 DEF GraphOK, HasChild
    <3> QED
      BY <1>4, <2>1, <3>1 DEF EdgeOK
  <2> QED
    BY <1>4, <2>1
<1>6. TagsOf(eor) \subseteq Closing
  <2>1. CASE HasChild(g, c.node, Eor)
    <3>1. Eor \in DOMAIN Out(g, c.node)
      BY <2>1 DEF HasChild
    <3>2. /\ TagsOf(Out(g, c.node)[Eor]) \subseteq SlotIds
          /\ \A id \in TagsOf(Out(g, c.node)[Eor]) : ~id.open
      BY <1>2, <1>3, <3>1, TagsOfIs
    <3> QED
      BY <1>4, <2>1, <3>2
  <2>2. CASE ~HasChild(g, c.node, Eor)
    BY <1>4, <2>2 DEF TagsOf
  <2> QED
    BY <2>1, <2>2
<1> HIDE DEF eor
<1>7. ending \in SUBSET AddedRegexes
  BY <1>5
<1>8. ending \in SUBSET Nat /\ IsFiniteSet(ending)
  <2> HIDE DEF ending
  <2> QED
    BY <1>2, <1>7, FS_Subset
<1> HIDE DEF ending
<1>9. tags \in Seq(TagsOf(eor))
  BY <1>4, <1>8, TagsForIs
<1>10. tags \in Seq(Closing) /\ tags \in Seq(SlotIds)
  <2>1. Closing \subseteq SlotIds
    OBVIOUS
  <2> HIDE DEF Closing, tags
  <2> QED
    BY <1>6, <1>9, <2>1, SeqGrows
<1> HIDE DEF tags
<1>11. MarkedTo(Marked(tags, c.pos), tags, Len(tags))
  BY <1>3, <1>10, MarkedIs
<1>12. table \in TableSet
  BY <1>11 DEF MarkedTo
<1>13. ASSUME NEW id \in SlotIds, id.open
       PROVE  table[id] = slots[id]
  <2> DEFINE undo == Marked(tags, c.pos).undo
  <2>1. /\ undo \in Seq(UndoSet) /\ Len(undo) = Len(tags)
        /\ \A j \in 1..Len(tags) : undo[j].id = tags[j]
        /\ ~Touches(undo, id) => table[id] = slots[id]
    BY <1>11, <1>13 DEF MarkedTo
  <2> HIDE DEF undo, table
  <2>2. DOMAIN undo = 1..Len(tags)
    BY <2>1, LenProperties
  <2>3. \A j \in 1..Len(tags) : tags[j] \in Closing
    BY <1>10, ElementOfSeq
  <2>4. ~Touches(undo, id)
    BY <1>13, <2>1, <2>2, <2>3 DEF Touches
  <2> QED
    BY <2>1, <2>4
<1> HIDE DEF table, found
<1> QED
  BY <1>1, <1>12, <1>13, LeaveKeeps

\* A match begins with fresh counters and captures.
LEMMA MatchKeeps ==
    ASSUME MatcherInv, Match
    PROVE  WalkInv'
<1>1. PICK t \in Texts : StartMatch(t)
  BY DEF Match
<1> DEFINE c == NewCall(t, Root, NoNode, 0, {}, TRUE)
<1>2. /\ calls' = <<c>> /\ text' = t /\ counters' = g.limit /\ slots' = FreshSlots
      /\ adding = NoRegex /\ UNCHANGED <<g, added, adding>>
  BY <1>1 DEF StartMatch, Match, Idle, buildVars
<1>3. GraphInv /\ GraphOK(g, AddedRegexes) /\ g \in GraphSet /\ Root \in NodesOf(g)
  BY DEF MatcherInv, BuildInv, GraphInv, GraphOK
<1>4. t \in Seq(Nat)
  <2>1. Chars \subseteq Nat /\ t \in Seq(Chars)
    BY CharsAssumption, TextsAssumption
  <2> QED
    BY <2>1, SeqGrows
<1>5. c \in CallsFor(t) /\ c.undo = << >>
  <2>1. Len(t) \in Nat
    BY <1>4, LenProperties
  <2>2. 0 \in 0..Len(t) /\ NoNode \in Nat
    BY <2>1 DEF NoNode
  <2> QED
    BY <1>3, <1>4, <2>2, NewCallIs
<1>6. /\ SlotIds' = SlotIds /\ TableSet' = TableSet /\ CallsFor(text)' = CallsFor(t)
  <2>1. SlotIds' = SlotIds
    BY <1>2 DEF SlotIds, Tags, EdgesOf
  <2>2. TableSet' = TableSet /\ UndoSet' = UndoSet
    BY <2>1 DEF TableSet, UndoSet
  <2>3. CallSet' = CallSet
    BY <2>2 DEF CallSet
  <2>4. AddedRegexes' = AddedRegexes
    BY <1>2 DEF AddedRegexes
  <2> QED
    BY <1>2, <2>1, <2>2, <2>3, <2>4 DEF CallsFor
<1> HIDE DEF c
<1>7. /\ calls' \in Seq(CallsFor(t)) /\ Len(calls') = 1 /\ calls'[1] = c /\ DOMAIN calls' = {1}
  BY <1>2, <1>5
<1>8. calls' \in Seq(CallsFor(text)')
  BY <1>6, <1>7
<1>9. Call'.undo = << >>
  BY <1>5, <1>7 DEF Call
<1>10. CountersInv'
  <2>1. g.limit \in Seq(LimitSet)
    BY <1>3, GraphParts
  <2>2. g.limit \in [1..Len(g.limit) -> LimitSet]
    BY <2>1, LenProperties
  <2> QED
    BY <1>2, <2>2 DEF CountersInv
<1>11. /\ slots' \in TableSet
       /\ \A id \in SlotIds : ~IsInline(id) => slots'[id].value = Unset
  BY <1>2 DEF TableSet, FreshSlots, SlotSet, Unset
<1>12. AllRewound'
  <2>1. ASSUME NEW id \in SlotIds, id.open, ~IsInline(id)
        PROVE  Rewound(id)'
    BY <1>5, <1>7, <1>11, <2>1 DEF Rewound, FirstHolds
  <2> QED
    BY <1>6, <2>1 DEF AllRewound
<1> QED
  BY <1>2, <1>4, <1>6, <1>8, <1>9, <1>10, <1>11, <1>12 DEF WalkInv

\* What builds leaves a matcher that matches nothing.
LEMMA NoCallsKeeps ==
    ASSUME text' \in Seq(Nat), calls' = << >>
    PROVE  WalkInv'
<1>1. << >> \in Seq(CallsFor(text)')
  OBVIOUS
<1>2. calls' \in Seq(CallsFor(text)')
  BY <1>1
<1> QED
  BY <1>2 DEF WalkInv

\* What walks leaves what was built.
LEMMA BuildKept ==
    ASSUME BuildInv, CompiledInv, UNCHANGED <<g, added, buildVars>>
    PROVE  BuildInv' /\ CompiledInv'
<1>1. /\ UNCHANGED <<g, added, adding, at, groups, pending, levels, links, absorbs>>
      /\ AddedRegexes' = AddedRegexes
  BY DEF buildVars, AddedRegexes
<1>2. GraphInv'
  BY <1>1 DEF BuildInv, GraphInv
<1>3. ReadInv'
  <2>1. HasLayer' <=> HasLayer
    BY <1>1 DEF HasLayer, Level
  <2> QED
    BY <1>1, <2>1 DEF BuildInv, ReadInv
<1>4. LinkInv'
  BY <1>1 DEF BuildInv, LinkInv
<1>5. CompiledInv'
  BY <1>1 DEF CompiledInv
<1> QED
  BY <1>2, <1>3, <1>4, <1>5 DEF BuildInv

\* Nothing changes.
LEMMA WalkKept ==
    ASSUME WalkInv, UNCHANGED vars
    PROVE  WalkInv'
<1>1. UNCHANGED <<g, added, adding, text, calls, counters, slots>>
  BY DEF vars, buildVars, walkVars
<1>2. SlotIds' = SlotIds /\ TableSet' = TableSet /\ CallsFor(text)' = CallsFor(text)
  BY <1>1, SameCalls
<1>3. text' \in Seq(Nat) /\ calls' \in Seq(CallsFor(text)')
  BY <1>1, <1>2 DEF WalkInv
<1>4. CASE calls = << >>
  BY <1>1, <1>3, <1>4 DEF WalkInv
<1>5. CASE calls # << >>
  <2>1. adding' = NoRegex /\ CountersInv' /\ slots' \in TableSet'
    BY <1>1, <1>2, <1>5 DEF WalkInv, CountersInv
  <2>2. Call'.undo = << >>
    BY <1>1, <1>5 DEF WalkInv, Call
  <2>3. AllRewound'
    BY <1>1, <1>2, <1>5 DEF WalkInv, AllRewound, Rewound
  <2> QED
    BY <1>3, <2>1, <2>2, <2>3 DEF WalkInv
<1> QED
  BY <1>4, <1>5

-----------------------------------------------------------------------------
(* Theorems.                                                               *)

\* A matcher begins in the invariant.
LEMMA InitMatcher ==
    ASSUME Init
    PROVE  MatcherInv
<1>1. BuildInv /\ CompiledInv
  BY InitBuilt
<1>2. text = NoText /\ calls = << >>
  BY DEF Init, WalkInit
<1>3. text \in Seq(Nat)
  BY <1>2 DEF NoText
<1>4. << >> \in Seq(CallsFor(text))
  OBVIOUS
<1>5. WalkInv
  BY <1>2, <1>3, <1>4 DEF WalkInv
<1> QED
  BY <1>1, <1>5 DEF MatcherInv

\* Every step keeps the invariant.
LEMMA MatcherKeeps ==
    ASSUME MatcherInv, [Next]_vars
    PROVE  MatcherInv'
<1>1. BuildInv /\ CompiledInv /\ WalkInv
  BY DEF MatcherInv
<1>2. CASE Add
  <2>1. BuildInv' /\ CompiledInv'
    BY <1>1, <1>2, AddKeeps
  <2>2. calls' = << >> /\ text' = NoText
    BY <1>2 DEF Add, Idle, Forget
  <2>3. text' \in Seq(Nat)
    BY <2>2 DEF NoText
  <2>4. WalkInv'
    BY <2>2, <2>3, NoCallsKeeps
  <2> QED
    BY <2>1, <2>4 DEF MatcherInv
<1>3. CASE Build
  <2>1. BuildInv' /\ CompiledInv' /\ adding # NoRegex
    BY <1>1, <1>3, BuildKeeps
  <2>2. calls = << >> /\ text \in Seq(Nat)
    BY <1>1, <2>1 DEF WalkInv
  <2>3. calls' = << >> /\ text' = text
    BY <1>3, <2>2 DEF Build, walkVars
  <2>4. WalkInv'
    BY <2>2, <2>3, NoCallsKeeps
  <2> QED
    BY <2>1, <2>4 DEF MatcherInv
<1>4. CASE Compile
  <2>1. BuildInv' /\ CompiledInv'
    BY <1>1, <1>4, CompileKeeps
  <2>2. calls' = << >> /\ text' = NoText
    BY <1>4 DEF Compile, Idle, Forget
  <2>3. text' \in Seq(Nat)
    BY <2>2 DEF NoText
  <2>4. WalkInv'
    BY <2>2, <2>3, NoCallsKeeps
  <2> QED
    BY <2>1, <2>4 DEF MatcherInv
<1>5. CASE Match
  <2>1. UNCHANGED <<g, added, buildVars>>
    BY <1>5 DEF Match, StartMatch
  <2>2. BuildInv' /\ CompiledInv'
    BY <1>1, <2>1, BuildKept
  <2>3. WalkInv'
    BY <1>5, MatchKeeps
  <2> QED
    BY <2>2, <2>3 DEF MatcherInv
<1>6. CASE Walk
  <2>1. UNCHANGED <<g, added, buildVars>> /\ UNCHANGED <<added, adding>> /\ WalkStep
    BY <1>6 DEF Walk, WalkStep, Try, NothingLeft, EndOfText, buildVars
  <2>2. BuildInv' /\ CompiledInv'
    BY <1>1, <2>1, BuildKept
  <2>3. WalkInv'
    BY <2>1, TryKeeps, NothingLeftKeeps, EndOfTextKeeps DEF WalkStep
  <2> QED
    BY <2>2, <2>3 DEF MatcherInv
<1>7. CASE UNCHANGED vars
  <2>1. UNCHANGED <<g, added, buildVars>>
    BY <1>7 DEF vars
  <2>2. BuildInv' /\ CompiledInv'
    BY <1>1, <2>1, BuildKept
  <2>3. WalkInv'
    BY <1>1, <1>7, WalkKept
  <2> QED
    BY <2>2, <2>3 DEF MatcherInv
<1> QED
  BY <1>2, <1>3, <1>4, <1>5, <1>6, <1>7 DEF Next

\* Whatever regexes are added, whenever they are compiled and whatever is matched,
\* the invariant holds.
THEOREM MatcherInvariant == Spec => []MatcherInv
<1>1. Init => MatcherInv
  BY InitMatcher
<1>2. MatcherInv /\ [Next]_vars => MatcherInv'
  BY MatcherKeeps
<1> QED
  BY <1>1, <1>2, PTL DEF Spec

\* Every edge leads to a node of its symbol, for regexes that were added, by
\* limits that exist; every call is at a node, within the text (Node::connect_with,
\* absorb and match_helper in matcher/impl/node.ipp).
THEOREM MatcherTyped == Spec => []TypeOK
<1>1. ASSUME MatcherInv
      PROVE  TypeOK
  <2>1. /\ added \in Seq(Regexes) /\ GraphOK(g, AddedRegexes)
        /\ adding \in AddedRegexes \cup {NoRegex} /\ AddedRegexes \in SUBSET Regexes
        /\ calls \in Seq(CallsFor(text))
    BY <1>1, AddedIs DEF MatcherInv, BuildInv, GraphInv, ReadInv, WalkInv
  <2>2. ASSUME NEW x \in Edges
        PROVE  EdgeOK(g, AddedRegexes, x[2], EdgeOf(x))
    <3>1. PICK n \in NodesOf(g) : x \in {<<n, s>> : s \in DOMAIN Out(g, n)}
      BY <2>2 DEF Edges
    <3>2. PICK s \in DOMAIN Out(g, n) : x = <<n, s>>
      BY <3>1
    <3>3. x[1] = n /\ x[2] = s
      BY <3>2
    <3>4. EdgeOK(g, AddedRegexes, s, Out(g, n)[s])
      BY <2>1 DEF GraphOK
    <3> QED
      BY <3>3, <3>4 DEF EdgeOf
  <2>3. ASSUME NEW i \in DOMAIN calls
        PROVE  /\ calls[i].node \in NodesOf(g)
               /\ calls[i].pos \in 0..Len(text)
               /\ calls[i].paths \subseteq AddedRegexes
    <3>1. calls[i] \in CallsFor(text)
      BY <2>1, LenProperties, ElementOfSeq
    <3> QED
      BY <3>1 DEF CallsFor
  <2>4. adding \in Regexes \cup {NoRegex}
    BY <2>1
  <2>5. ASSUME NEW x \in Edges
        PROVE  LET e == EdgeOf(x)
               IN  /\ e.to \in NodesOf(g)
                   /\ SymOf(g, e.to) = x[2]
                   /\ Ids(e) \subseteq AddedRegexes
                   /\ DOMAIN e.tags \subseteq Ids(e)
                   /\ \A r \in Ids(e) : e.paths[r] \in 0..Len(g.limit)
    BY <2>2, <2>5 DEF EdgeOK
  <2> QED
    BY <2>1, <2>3, <2>4, <2>5 DEF TypeOK
<1> QED
  BY <1>1, MatcherInvariant, PTL

\* No two regexes name one limit, however many edges they share: what a match
\* counts for one is never counted for another (Node::connect_with and absorb).
THEOREM LimitsAreOwned == Spec => []LimitsOwned
<1>1. ASSUME MatcherInv
      PROVE  LimitsOwned
  <2> DEFINE named == UNION {{<<r, EdgeOf(x).paths[r]>> : r \in Ids(EdgeOf(x))} : x \in Edges}
  <2>1. GraphOK(g, AddedRegexes) /\ Owned(g) /\ AddedRegexes \in SUBSET Regexes
    BY <1>1, AddedIs DEF MatcherInv, BuildInv, GraphInv
  <2>2. ASSUME NEW x \in named
        PROVE  Names(g, x[1], x[2]) /\ x[1] \in Regexes /\ x[2] \in Nat
    <3>1. PICK y \in Edges : \E r \in Ids(EdgeOf(y)) : x = <<r, EdgeOf(y).paths[r]>>
      BY <2>2
    <3>2. PICK r \in Ids(EdgeOf(y)) : x = <<r, EdgeOf(y).paths[r]>>
      BY <3>1
    <3>3. PICK n \in NodesOf(g) : \E s \in DOMAIN Out(g, n) : y = <<n, s>>
      BY DEF Edges
    <3>4. PICK s \in DOMAIN Out(g, n) : y = <<n, s>>
      BY <3>3
    <3>5. EdgeOf(y) = Out(g, n)[s]
      BY <3>4 DEF EdgeOf
    <3>6. Names(g, r, EdgeOf(y).paths[r])
      BY <3>5 DEF Names
    <3>7. EdgeOf(y) \in EdgeSet
      BY <2>1, <3>5, GraphParts DEF GraphOK
    <3>8. r \in Regexes /\ EdgeOf(y).paths[r] \in Nat
      BY <3>7, EdgeParts
    <3>9. x[1] = r /\ x[2] = EdgeOf(y).paths[r]
      BY <3>2
    <3> QED
      BY <3>6, <3>8, <3>9
  <2> HIDE DEF named
  <2>3. \A x, y \in named : x[2] = y[2] /\ x[2] # NoLimit => x[1] = y[1]
    BY <2>1, <2>2 DEF Owned
  <2> QED
    BY <2>3 DEF LimitsOwned, named
<1> QED
  BY <1>1, MatcherInvariant, PTL

\* The premise of the fast path holds: a call said to have all the regexes alive
\* at its node has them (match_helper's all_live, which compile() prepares).
THEOREM LiveIsAll == Spec => []LiveIsWhole
<1>1. ASSUME MatcherInv
      PROVE  LiveIsWhole
  <2>1. calls \in Seq(CallsFor(text))
    BY <1>1 DEF MatcherInv, WalkInv
  <2>2. ASSUME NEW i \in DOMAIN calls, calls[i].live, calls[i].prev # NoNode
        PROVE  calls[i].paths = Alive(g, calls[i].node)
    <3>1. calls[i] \in CallsFor(text)
      BY <2>1, LenProperties, ElementOfSeq
    <3> QED
      BY <2>2, <3>1 DEF CallsFor
  <2> QED
    BY <2>2 DEF LiveIsWhole
<1> QED
  BY <1>1, MatcherInvariant, PTL

\* Taking back what every call under way has to undo leaves no group open that
\* spilled out of the inline slots (CaptureSlots::undo_open, core.hpp).
THEOREM SpilledSlotsRewind == Spec => []SpilledRewind
<1>1. ASSUME MatcherInv
      PROVE  SpilledRewind
  <2>1. SUFFICES ASSUME calls # << >>
                 PROVE  \A id \in DOMAIN slots :
                            id.open /\ ~IsInline(id) => SlotValue(AllUnmarked, id) = Unset
    BY DEF SpilledRewind, Rewinds
  <2>2. DOMAIN slots = SlotIds
    BY <1>1, <2>1 DEF MatcherInv, WalkInv, TableSet
  <2>3. \A id \in SlotIds : id.open /\ ~IsInline(id) => AllUnmarked[id].value = Unset
    BY <1>1, <2>1, RewoundIs DEF MatcherInv
  <2> QED
    BY <2>2, <2>3 DEF SlotValue
<1> QED
  BY <1>1, MatcherInvariant, PTL
=============================================================================

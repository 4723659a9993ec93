----------------------------- MODULE RouteTries -----------------------------
(***************************************************************************)
(* Tries as build_table lays them out (Node in route/table.hpp).           *)
(*                                                                         *)
(* A trie is a record of its nodes, its root, and for every node the       *)
(* segments spelled on the way to it: "pre" is a ghost nothing reads but   *)
(* the properties.                                                         *)
(***************************************************************************)
EXTENDS RoutePatterns, TLC

CONSTANT None   \* kNone: no such child, no route

Nodes(t) == DOMAIN t.node

Children(n) ==
    {n.lit[x] : x \in DOMAIN n.lit} \cup {n[k] : k \in Kinds \ {"literal"}}

\* No node is lost: each but the root is the child of another.
NoneLost(t) ==
    \A id \in Nodes(t) \ {t.root} : \E up \in Nodes(t) : id \in Children(t.node[up])

\* The kinds of child a node has, a lookup's reason to come back to it.
Branches(n) ==
    Cardinality({k \in Kinds :
        IF k = "literal" THEN DOMAIN n.lit # {} ELSE n[k] # None})

NodeOK(t, id) ==
    LET n == t.node[id] IN
    /\ DOMAIN n.lit \subseteq Texts \cup {Empty}
    /\ \A x \in DOMAIN n.lit :
           /\ n.lit[x] \in Nodes(t)
           /\ t.pre[n.lit[x]] = Append(t.pre[id], Lit(x))
    /\ \A k \in Kinds \ {"literal"} :
           n[k] # None =>
               /\ n[k] \in Nodes(t)
               /\ t.pre[n[k]] = Append(t.pre[id], [kind |-> k, text |-> Empty])
    /\ n.rest # None => t.node[n.rest].route # None
    /\ n.branches = Branches(n)

\* A prefix names no parameters, and nothing comes below a catch-all.
PrefixOK(pre) ==
    /\ Len(pre) <= MaxSegments
    /\ NumParams(pre) <= MaxParams
    /\ \A i \in 1..Len(pre) :
           /\ pre[i] = Key(pre[i])
           /\ pre[i].kind = "rest" => i = Len(pre)

TrieOK(t) ==
    /\ None \notin Nodes(t)
    /\ t.root \in Nodes(t)
    /\ t.pre \in [Nodes(t) -> Seq(Segments)]
    /\ t.pre[t.root] = << >>
    /\ \A id \in Nodes(t) : NodeOK(t, id) /\ PrefixOK(t.pre[id])
    /\ \A a, b \in Nodes(t) : t.pre[a] = t.pre[b] => a = b
    /\ NoneLost(t)

\* The routes a trie holds, by the pattern that leads to each.
RoutesOf(t) ==
    LET ends == {id \in Nodes(t) : t.node[id].route # None}
    IN  [p \in {t.pre[id] : id \in ends} |->
            t.node[CHOOSE id \in ends : t.pre[id] = p].route]

-----------------------------------------------------------------------------
(* The trie of a set of routes, each node named by its prefix: the nodes   *)
(* and children a build must come to.  RouteTable has the build.           *)

TrieFor(routes) ==
    LET keyed == [p \in DOMAIN routes |-> Keys(p)]
        patterns == {keyed[p] : p \in DOMAIN routes}
        nodes == UNION {{SubSeq(p, 1, n) : n \in 0..Len(p)} : p \in patterns}
        Child(x, s) == IF Append(x, s) \in nodes THEN Append(x, s) ELSE None
        Kid(x, k) == Child(x, [kind |-> k, text |-> Empty])
        LitTexts(x) == {t \in Texts \cup {Empty} : Append(x, Lit(t)) \in nodes}
        Kids(x) ==
            [lit   |-> [t \in LitTexts(x) |-> Append(x, Lit(t))],
             u64   |-> Kid(x, "u64"),
             i64   |-> Kid(x, "i64"),
             param |-> Kid(x, "param"),
             rest  |-> Kid(x, "rest")]
        Route(x) ==
            IF x \in patterns THEN routes[CHOOSE p \in DOMAIN routes : keyed[p] = x]
            ELSE None
        NodeAt(x) ==
            [route |-> Route(x), branches |-> Branches(Kids(x))] @@ Kids(x)
    IN  [root |-> << >>,
         node |-> [x \in nodes |-> NodeAt(x)],
         pre  |-> [x \in nodes |-> x]]
=============================================================================

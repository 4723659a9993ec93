---------------------------- MODULE MCRouteTable ----------------------------
(***************************************************************************)
(* Every short list of routes of two methods over a pool of patterns, the  *)
(* refused pattern and a method out of range among them, and longer lists  *)
(* of one method, in every order, that fill hashed nodes.  Texts 1 and 4   *)
(* are numbers, 2 a negative one, 3 a word; 3 and 4 also serve as names.   *)
(***************************************************************************)
EXTENDS RouteTable, Functions

CONSTANTS MaxSpecs, MaxPath

Par(kind, name) == [kind |-> kind, text |-> name]

MCPool ==
    <<<< >>,
      <<Lit(3)>>,
      <<Lit(1)>>,
      <<Lit(3), Lit(Empty)>>,
      <<Par("u64", 3)>>,
      <<Par("param", 3)>>,
      <<Par("param", 4)>>,
      <<Lit(3), Par("i64", 4)>>,
      <<Lit(3), Par("rest", 3)>>>>

\* The lists draw their routes from these pairs of a method and a pattern; a
\* pattern past the pool is the refused one.
Pairs ==
    {0, 1} \X (1..Len(MCPool)) \cup {<<2, 1>>, <<0, Len(MCPool) + 1>>}

SpecOf(pair, route) ==
    [method |-> pair[1],
     pattern |-> IF pair[2] \in DOMAIN MCPool THEN MCPool[pair[2]] ELSE Malformed,
     route |-> route]

\* Routes four of which start with different texts, and two match the same
\* paths; lists of four of them, and of the first five, in every order.
Wide ==
    <<<<Lit(1), Lit(3)>>,
      <<Lit(2), Lit(3)>>,
      <<Lit(4)>>,
      <<Lit(3), Lit(1)>>,
      <<Lit(3), Par("param", 3)>>,
      <<Lit(3), Par("param", 4)>>>>

Orders ==
    {f \in [1..4 -> DOMAIN Wide] : IsInjective(f)}
        \cup {f \in [1..5 -> 1..5] : IsInjective(f)}

AllSpecLists ==
    {[i \in DOMAIN f |-> SpecOf(f[i], i)] : f \in UNION {[1..k -> Pairs] : k \in 1..MaxSpecs}}
    \cup {[i \in DOMAIN f |-> [method |-> 0, pattern |-> Wide[f[i]], route |-> f[i]]] :
             f \in Orders}

MCSpecLists == AllSpecLists

AllPaths ==
    {p \in UNION {[1..n -> Texts \cup {Empty}] : n \in 0..MaxPath} : IsPath(p)}

\* Texts and paths that all collide, and texts and paths that mostly do not.
MCEdgeHashes ==
    {[t \in Texts \cup {Empty} |-> 3], [t \in Texts \cup {Empty} |-> 5 - t]}

MCPathHashes ==
    {[x \in {0, 1} \X AllPaths |-> IF x[2] = << >> THEN 1 ELSE x[2][1]]}
=============================================================================

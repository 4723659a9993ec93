----------------------------- MODULE MCRouteWalk -----------------------------
(***************************************************************************)
(* Every trie of patterns drawn from a pool, against every short path.     *)
(* Text 1 is a number both types accept ("12"), 2 one only i64 does ("-5"),*)
(* 3 a word ("x").                                                         *)
(***************************************************************************)
EXTENDS RouteWalk

CONSTANTS PoolSize, MaxPath

Word == Lit(3)
Number == Lit(1)
Slash == Lit(Empty)
Of(kind) == [kind |-> kind, text |-> Empty]

\* Patterns that meet at their nodes with every mix of kinds, at both levels.
MCPool ==
    <<<<Word, Slash>>,
      <<Number, Word>>,
      <<Number, Of("rest")>>,
      <<Of("u64"), Of("i64")>>,
      <<Of("i64"), Of("param")>>,
      <<Of("param"), Word>>,
      <<Of("param"), Of("u64"), Of("rest")>>,
      <<Of("rest")>>,
      << >>>>

\* A root for each choice of patterns from the pool, the bits of its number;
\* a route's value is its pattern's place.
MCRoots == 1..(2^PoolSize - 1)

Chosen(r) == {i \in 1..PoolSize : (r \div 2^(i - 1)) % 2 = 1}

Tries ==
    [r \in MCRoots |->
        TrieFor([p \in {MCPool[i] : i \in Chosen(r)} |->
                    CHOOSE i \in Chosen(r) : MCPool[i] = p])]

MCTrieAt == Tries

AllPaths ==
    {p \in UNION {[1..n -> Texts \cup {Empty}] : n \in 0..MaxPath} : IsPath(p)}

MCPaths == AllPaths
=============================================================================

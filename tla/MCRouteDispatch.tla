--------------------------- MODULE MCRouteDispatch ---------------------------
(***************************************************************************)
(* Two tables of three methods.  In the first, every method has routes of  *)
(* its own kind: literal ones only, and tries in which a walk comes back   *)
(* and fails after it has captured; in the second a method has none.       *)
(* Text 1 is "-8", a signed number only, 2 is "7", a number of either      *)
(* type, and 3 a word.                                                     *)
(***************************************************************************)
EXTENDS RouteDispatch

Signed == Lit(1)
Number == Lit(2)
Word == Lit(3)
Of(kind, name) == [kind |-> kind, text |-> name]

Decl(method_, pattern) == [method |-> method_, pattern |-> pattern]

First ==
    <<Decl(2, <<Word, Number>>),
      Decl(1, <<Word, Of("i64", 1), Word>>),
      Decl(0, <<Of("param", 2), Word>>),
      Decl(1, <<Of("i64", 1)>>),
      Decl(0, <<Of("u64", 1), Of("i64", 2), Number>>),
      Decl(2, << >>),
      Decl(1, <<Of("rest", 3)>>),
      Decl(0, <<Number>>)>>

Second ==
    <<Decl(2, <<Of("param", 1), Of("u64", 2), Of("rest", 3)>>),
      Decl(1, <<Of("i64", 1), Number>>),
      Decl(2, <<Word, Lit(Empty)>>),
      Decl(1, <<Of("u64", 1), Signed>>),
      Decl(1, <<Of("param", 1), Of("param", 2)>>)>>

MCTables == {First, Second}

MCRoutesIn == [decls \in MCTables |-> RouteSpecs(decls)]

MCRoots ==
    {r \in MCTables \X (0..(MethodSlots - 1)) :
        \E i \in 1..Len(r[1]) : r[1][i].method = r[2] /\ ~IsLiteral(r[1][i].pattern)}

Tries == [r \in MCRoots |-> TrieFor(MCRoutesIn[r[1]][r[2]])]

MCTrieAt == Tries

\* Every path of numbers and words of up to two segments, and some with a signed
\* number or of three.
MCPaths ==
    {p \in UNION {[1..n -> {2, 3, Empty}] : n \in 0..2} :
        IsPath(p) /\ \A i \in 1..(Len(p) - 1) : p[i] # Empty}
    \cup {<<1>>, <<2, 1>>, <<2, 1, 2>>, <<2, 2, 3>>, <<3, 2, 3>>, <<3, 2, 2>>,
          <<3, 2, Empty>>, <<3, 3, 3>>}

MCTextOf == <<<<45, 56>>, <<55>>, <<119>>>> @@ (0 :> << >>)

MCU64Texts == {2}

MCI64Texts == {1, 2}

\* The limits of numbers of 4 bits.
Fifteen == <<49, 53>>
Seven == <<55>>
Eight == <<56>>
=============================================================================

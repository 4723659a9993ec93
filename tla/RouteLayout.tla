----------------------------- MODULE RouteLayout -----------------------------
(***************************************************************************)
(* Where a table's four arrays lie in one block (table_layout of           *)
(* route/table.hpp): the members of a StaticTable, the block of a          *)
(* RuntimeTable.                                                           *)
(***************************************************************************)
EXTENDS Naturals

CONSTANTS
    NodeBytes, EdgeBytes, SlotBytes,  \* sizeof(Node), sizeof(Edge), sizeof(LiteralSlot)
    EmptyBytes                        \* sizeof an empty std::array of them

ASSUME BytesAssumption ==
    /\ NodeBytes \in Nat \ {0}
    /\ EdgeBytes \in Nat \ {0}
    /\ SlotBytes \in Nat \ {0}
    /\ EmptyBytes \in Nat \ {0}

kTableAlign == 64

\* StaticSizes: how many elements the arrays have.
StaticSizes == [nodes : Nat, edges : Nat, literals : Nat, arena : Nat]

\* Mutant of AlignUp: up to the next multiple but one byte late.
AlignDown(n) == (n \div kTableAlign) * kTableAlign

\* align_up(n, kTableAlign)
AlignUp(n) == ((n + kTableAlign - 1) \div kTableAlign) * kTableAlign

MemberBytes(n, size) == IF n # 0 THEN n * size ELSE EmptyBytes

\* table_layout
TableLayout(s) ==
    LET edges    == AlignUp(MemberBytes(s.nodes, NodeBytes))
        literals == AlignUp(edges + MemberBytes(s.edges, EdgeBytes))
        arena    == AlignUp(literals + MemberBytes(s.literals, SlotBytes))
    IN  [nodes |-> 0, edges |-> edges, literals |-> literals, arena |-> arena,
         bytes |-> arena + s.arena + 1]

\* The arrays lie in the order of their names, each on an aligned offset and
\* after the last byte of the one before, and the arena's bytes and the one that
\* ends it are the last of the block.
LayoutOK(s) ==
    LET l == TableLayout(s)
    IN  /\ \A x \in {l.nodes, l.edges, l.literals, l.arena} : x % kTableAlign = 0
        /\ l.nodes + s.nodes * NodeBytes <= l.edges
        /\ l.edges + s.edges * EdgeBytes <= l.literals
        /\ l.literals + s.literals * SlotBytes <= l.arena
        /\ l.arena + s.arena < l.bytes

\* An array lies at the first aligned offset after the one before: no larger
\* than it need be, so that a StaticTable's members lie at the same ones.
LayoutTight(s) ==
    LET l == TableLayout(s)
    IN  /\ l.edges < MemberBytes(s.nodes, NodeBytes) + kTableAlign
        /\ l.literals < l.edges + MemberBytes(s.edges, EdgeBytes) + kTableAlign
        /\ l.arena < l.literals + MemberBytes(s.literals, SlotBytes) + kTableAlign
=============================================================================

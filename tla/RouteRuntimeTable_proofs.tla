----------------------- MODULE RouteRuntimeTable_proofs -----------------------
(***************************************************************************)
(* Proofs about the layout of a table's block, for every number of nodes,  *)
(* edges, slots and bytes of labels and whatever the sizes of their types, *)
(* and about RuntimeTable objects, for any number of objects, blocks,      *)
(* readers and tables of any sizes.                                        *)
(***************************************************************************)
EXTENDS RouteRuntimeTable, TLAPS

-----------------------------------------------------------------------------
(* The layout: the arrays lie apart in the block, aligned, with no gap     *)
(* larger than the alignment asks.                                         *)

\* align_up (table.hpp:128-131): the first multiple of kTableAlign from n on.
LEMMA AlignUpFirst ==
    ASSUME NEW n \in Nat
    PROVE  /\ AlignUp(n) \in Nat
           /\ AlignUp(n) % kTableAlign = 0
           /\ n <= AlignUp(n)
           /\ AlignUp(n) < n + kTableAlign
BY DEF AlignUp, kTableAlign

\* member_bytes (table.hpp:135-139) has room for the elements.
LEMMA MemberHolds ==
    ASSUME NEW n \in Nat, NEW size \in Nat \ {0}
    PROVE  /\ n * size \in Nat
           /\ MemberBytes(n, size) \in Nat
           /\ n * size <= MemberBytes(n, size)
BY BytesAssumption DEF MemberBytes

\* The offsets are numbers.
LEMMA LayoutNat ==
    ASSUME NEW s \in StaticSizes
    PROVE  LET l == TableLayout(s)
           IN  /\ l.nodes \in Nat /\ l.edges \in Nat /\ l.literals \in Nat
               /\ l.arena \in Nat /\ l.bytes \in Nat
<1> DEFINE edges    == AlignUp(MemberBytes(s.nodes, NodeBytes))
           literals == AlignUp(edges + MemberBytes(s.edges, EdgeBytes))
           arena    == AlignUp(literals + MemberBytes(s.literals, SlotBytes))
<1>1. s.nodes \in Nat /\ s.edges \in Nat /\ s.literals \in Nat /\ s.arena \in Nat
  BY DEF StaticSizes
<1>2. /\ MemberBytes(s.nodes, NodeBytes) \in Nat /\ MemberBytes(s.edges, EdgeBytes) \in Nat
      /\ MemberBytes(s.literals, SlotBytes) \in Nat
  BY <1>1, MemberHolds, BytesAssumption
<1>3. edges \in Nat
  BY <1>2, AlignUpFirst
<1> HIDE DEF edges
<1>4. edges + MemberBytes(s.edges, EdgeBytes) \in Nat
  BY <1>2, <1>3
<1>5. literals \in Nat
  BY <1>4, AlignUpFirst
<1> HIDE DEF literals
<1>6. literals + MemberBytes(s.literals, SlotBytes) \in Nat
  BY <1>2, <1>5
<1>7. arena \in Nat
  BY <1>6, AlignUpFirst
<1>8. TableLayout(s) = [nodes |-> 0, edges |-> edges, literals |-> literals, arena |-> arena,
                        bytes |-> arena + s.arena + 1]
  BY DEF TableLayout, edges, literals
<1> HIDE DEF arena
<1> QED
  BY <1>1, <1>3, <1>5, <1>7, <1>8

\* table_layout (table.hpp:141-150) puts the arrays apart, aligned and in the
\* block.
THEOREM LayoutCorrect ==
    ASSUME NEW s \in StaticSizes
    PROVE  LayoutOK(s) /\ LayoutTight(s)
<1> DEFINE nodes    == MemberBytes(s.nodes, NodeBytes)
           edges    == AlignUp(nodes)
           edgesEnd == edges + MemberBytes(s.edges, EdgeBytes)
           literals == AlignUp(edgesEnd)
           litsEnd  == literals + MemberBytes(s.literals, SlotBytes)
           arena    == AlignUp(litsEnd)
<1>1. s.nodes \in Nat /\ s.edges \in Nat /\ s.literals \in Nat /\ s.arena \in Nat
  BY DEF StaticSizes
<1>2. nodes \in Nat /\ s.nodes * NodeBytes <= nodes /\ s.nodes * NodeBytes \in Nat
  BY <1>1, MemberHolds, BytesAssumption
<1>3. edges \in Nat /\ edges % kTableAlign = 0 /\ nodes <= edges /\ edges < nodes + kTableAlign
  BY <1>2, AlignUpFirst
<1>4. /\ edgesEnd \in Nat
      /\ s.edges * EdgeBytes \in Nat
      /\ edges + s.edges * EdgeBytes <= edgesEnd
  <2>1. /\ MemberBytes(s.edges, EdgeBytes) \in Nat /\ s.edges * EdgeBytes \in Nat
        /\ s.edges * EdgeBytes <= MemberBytes(s.edges, EdgeBytes)
    BY <1>1, MemberHolds, BytesAssumption
  <2> QED
    BY <2>1, <1>3
<1>5. /\ literals \in Nat /\ literals % kTableAlign = 0
      /\ edgesEnd <= literals /\ literals < edgesEnd + kTableAlign
  <2> HIDE DEF edgesEnd
  <2> QED
    BY <1>4, AlignUpFirst
<1>6. /\ litsEnd \in Nat
      /\ s.literals * SlotBytes \in Nat
      /\ literals + s.literals * SlotBytes <= litsEnd
  <2>1. /\ MemberBytes(s.literals, SlotBytes) \in Nat /\ s.literals * SlotBytes \in Nat
        /\ s.literals * SlotBytes <= MemberBytes(s.literals, SlotBytes)
    BY <1>1, MemberHolds, BytesAssumption
  <2> QED
    BY <2>1, <1>5
<1>7. /\ arena \in Nat /\ arena % kTableAlign = 0
      /\ litsEnd <= arena /\ arena < litsEnd + kTableAlign
  <2> HIDE DEF litsEnd
  <2> QED
    BY <1>6, AlignUpFirst
<1>8. TableLayout(s) = [nodes |-> 0, edges |-> edges, literals |-> literals, arena |-> arena,
                        bytes |-> arena + s.arena + 1]
  BY DEF TableLayout
<1>9. 0 % kTableAlign = 0
  BY DEF kTableAlign
<1> DEFINE l == TableLayout(s)
<1>10. /\ l.nodes = 0 /\ l.edges = edges /\ l.literals = literals /\ l.arena = arena
       /\ l.bytes = arena + s.arena + 1
  BY <1>8
<1>11. \A x \in {l.nodes, l.edges, l.literals, l.arena} : x % kTableAlign = 0
  BY <1>3, <1>5, <1>7, <1>9, <1>10
<1> HIDE DEF nodes, edges, edgesEnd, literals, litsEnd, arena
<1>12. LayoutOK(s)
  <2>1. l.nodes + s.nodes * NodeBytes <= l.edges
    BY <1>2, <1>3, <1>10
  <2>2. l.edges + s.edges * EdgeBytes <= l.literals
    BY <1>3, <1>4, <1>5, <1>10
  <2>3. l.literals + s.literals * SlotBytes <= l.arena
    BY <1>5, <1>6, <1>7, <1>10
  <2>4. l.arena + s.arena < l.bytes
    BY <1>1, <1>7, <1>10
  <2> QED
    BY <1>11, <2>1, <2>2, <2>3, <2>4 DEF LayoutOK
<1>13. LayoutTight(s)
  <2>1. l.edges < MemberBytes(s.nodes, NodeBytes) + kTableAlign
    BY <1>3, <1>10 DEF nodes
  <2>2. l.literals < l.edges + MemberBytes(s.edges, EdgeBytes) + kTableAlign
    BY <1>5, <1>10 DEF edgesEnd
  <2>3. l.arena < l.literals + MemberBytes(s.literals, SlotBytes) + kTableAlign
    BY <1>7, <1>10 DEF litsEnd
  <2> QED
    BY <2>1, <2>2, <2>3 DEF LayoutTight
<1> QED
  BY <1>12, <1>13

-----------------------------------------------------------------------------
(* The objects.                                                            *)

\* The tables' numbers are those given out so far.
Numbered ==
    /\ tables <= MaxTables
    /\ \A b \in Blocks : heap[b] <= tables
    /\ \A r \in Readers : held[r] # NoView => held[r].table \in 1..tables

\* An object with a block is what its constructor makes of some built table, in
\* the block it has now.
Describes(o, s) ==
    /\ heap[block[o]] \in 1..MaxTables
    /\ view[o] = ViewOf(block[o], heap[block[o]], s)
    /\ bytes[o] = TableLayout(s).bytes

Described == \A o \in Objects : block[o] # Null => \E s \in Builts : Describes(o, s)

\* The inductive invariant.  OneOwner needs FieldsAgree (only what is alive has a
\* block), HeldWhileOwned needs both (a block given back takes one table away, its
\* owner's) and the numbers (a block given out again has a table no reader has
\* seen).
IInv == TypeOK /\ OneOwner /\ FieldsAgree /\ HeldWhileOwned /\ Numbered /\ Described

-----------------------------------------------------------------------------
(* What a table's view and layout are.                                     *)

\* The view of a built table says its block and number.
LEMMA ViewFields ==
    ASSUME NEW b \in Blocks, NEW n \in 1..MaxTables, NEW s \in Builts
    PROVE  /\ ViewOf(b, n, s) \in Views
           /\ ViewOf(b, n, s) # NoView
           /\ ViewOf(b, n, s).block = b
           /\ ViewOf(b, n, s).table = n
<1>1. ViewOf(b, n, s) # NoView
  BY NoViewAssumption
<1>2. ViewOf(b, n, s) \in Views
  BY DEF Views
<1>3. ViewOf(b, n, s).block = b /\ ViewOf(b, n, s).table = n
  BY DEF ViewOf
<1> QED
  BY <1>1, <1>2, <1>3

\* So does every view that is one.
LEMMA ViewsFields ==
    ASSUME NEW v \in Views, v # NoView
    PROVE  v.block \in Blocks /\ v.table \in 1..MaxTables
<1>1. PICK b \in Blocks, n \in 1..MaxTables, s \in Builts : v = ViewOf(b, n, s)
  BY DEF Views
<1> QED
  BY <1>1, ViewFields

\* A block has at least the byte that ends the arena.
LEMMA BlockBytes ==
    ASSUME NEW s \in Builts
    PROVE  TableLayout(s).bytes \in Nat \ {0}
<1>1. s \in StaticSizes
  BY SizesAssumption
<1>2. TableLayout(s).bytes \in Nat /\ TableLayout(s).arena \in Nat /\ s.arena \in Nat
  BY <1>1, LayoutNat DEF StaticSizes
<1>3. TableLayout(s).arena + s.arena < TableLayout(s).bytes
  BY <1>1, LayoutCorrect DEF LayoutOK
<1> QED
  BY <1>2, <1>3

-----------------------------------------------------------------------------
(* The steps.                                                              *)

\* Before the first object nothing is owned or held.
LEMMA InitInv == Init => IInv
<1> SUFFICES ASSUME Init PROVE IInv
  OBVIOUS
<1>1. TypeOK
  BY DEF Init, TypeOK, Views
<1>2. OneOwner /\ FieldsAgree /\ HeldWhileOwned /\ Described
  BY DEF Init, OneOwner, Owners, FieldsAgree, HeldWhileOwned, Described
<1>3. Numbered
  BY MaxTablesAssumption DEF Init, Numbered
<1> QED
  BY <1>1, <1>2, <1>3 DEF IInv

\* The default constructor and a failed build make an object that owns nothing.
LEMMA ConstructEmptyInv ==
    ASSUME IInv, NEW o \in Objects, NEW failed \in BOOLEAN, ConstructEmpty(o, failed)
    PROVE  IInv'
<1> USE DEF IInv, ConstructEmpty
<1>1. TypeOK'
  BY DEF TypeOK
<1>2. block[o] = Null /\ view[o] = NoView
  BY DEF FieldsAgree
<1>3. OneOwner'
  <2>1. \A b \in Blocks : Owners(b)' = Owners(b)
    BY <1>2, NullAssumption DEF Owners
  <2> QED
    BY <2>1 DEF OneOwner
<1>4. FieldsAgree'
  BY <1>2 DEF FieldsAgree, TypeOK
<1>5. HeldWhileOwned'
  BY <1>2 DEF HeldWhileOwned
<1>6. Numbered' /\ Described'
  BY DEF Numbered, Described, Describes
<1> QED
  BY <1>1, <1>3, <1>4, <1>5, <1>6

\* Taking in a built table gives the object a block nobody had.
LEMMA ConstructInv ==
    ASSUME IInv, NEW o \in Objects, NEW s \in Builts, Construct(o, s)
    PROVE  IInv'
<1> USE DEF IInv
<1>1. PICK b \in Blocks :
          /\ heap[b] = 0
          /\ heap' = [heap EXCEPT ![b] = tables + 1]
          /\ block' = [block EXCEPT ![o] = b]
          /\ bytes' = [bytes EXCEPT ![o] = TableLayout(s).bytes]
          /\ view' = [view EXCEPT ![o] = ViewOf(b, tables + 1, s)]
  BY DEF Construct
<1>2. /\ o \notin alive
      /\ tables < MaxTables
      /\ alive' = alive \cup {o}
      /\ error' = [error EXCEPT ![o] = FALSE]
      /\ tables' = tables + 1
      /\ held' = held
  BY DEF Construct
<1> DEFINE v == ViewOf(b, tables + 1, s)
<1>3. tables \in Nat /\ tables + 1 \in 1..MaxTables /\ tables + 1 \in Nat
  BY <1>2, MaxTablesAssumption DEF TypeOK
<1>4. v \in Views /\ v # NoView /\ v.block = b /\ v.table = tables + 1
  BY <1>3, ViewFields
<1>5. TableLayout(s).bytes \in Nat \ {0}
  BY BlockBytes
<1> HIDE DEF v
<1>6. view' = [view EXCEPT ![o] = v]
  BY <1>1 DEF v
<1>7. block[o] = Null /\ view[o] = NoView
  BY <1>2 DEF FieldsAgree
<1>8. b # Null
  BY NullAssumption
<1>9. \A p \in Objects \ {o} : block[p] # b
  BY <1>1, <1>8 DEF FieldsAgree, OneOwner, Owners
<1>10. TypeOK'
  BY <1>1, <1>2, <1>3, <1>4, <1>5, <1>6 DEF TypeOK
<1>11. OneOwner'
  <2>1. Owners(b)' = {o}
    BY <1>1, <1>2, <1>9 DEF Owners, TypeOK
  <2>2. \A c \in Blocks \ {b} : Owners(c)' = Owners(c) /\ heap'[c] = heap[c]
    BY <1>1, <1>2, <1>7 DEF Owners, TypeOK
  <2>3. heap'[b] # 0
    BY <1>1, <1>3 DEF TypeOK
  <2> QED
    BY <2>1, <2>2, <2>3 DEF OneOwner
<1>12. FieldsAgree'
  <2> SUFFICES ASSUME NEW p \in Objects
               PROVE  /\ block'[p] = Null <=> bytes'[p] = 0
                      /\ block'[p] = Null <=> view'[p] = NoView
                      /\ block'[p] # Null =>
                             /\ p \in alive' /\ ~error'[p]
                             /\ view'[p].block = block'[p]
                             /\ view'[p].table = heap'[block'[p]]
    BY DEF FieldsAgree
  <2>1. CASE p = o
    BY <2>1, <1>1, <1>2, <1>3, <1>4, <1>5, <1>6, <1>8 DEF TypeOK
  <2>2. CASE p # o
    BY <2>2, <1>1, <1>2, <1>6, <1>9 DEF TypeOK, FieldsAgree
  <2> QED
    BY <2>1, <2>2
<1>13. HeldWhileOwned'
  <2> SUFFICES ASSUME NEW r \in Readers, held[r] # NoView
               PROVE  heap'[held[r].block] = held[r].table <=> \E p \in alive' : view'[p] = held[r]
    BY <1>2 DEF HeldWhileOwned
  <2>1. held[r].block \in Blocks /\ held[r].table \in 1..tables
    BY ViewsFields DEF TypeOK, Numbered
  <2>2. held[r].table # tables + 1 /\ held[r].table # 0
    BY <2>1, <1>3
  <2>3. heap'[held[r].block] = held[r].table <=> heap[held[r].block] = held[r].table
    BY <2>1, <2>2, <1>1 DEF TypeOK
  <2>4. v # held[r]
    BY <2>2, <1>4
  <2>5. (\E p \in alive' : view'[p] = held[r]) <=> \E p \in alive : view[p] = held[r]
    BY <2>4, <1>2, <1>6, <1>7 DEF TypeOK
  <2> QED
    BY <2>3, <2>5 DEF HeldWhileOwned
<1>14. Numbered'
  BY <1>1, <1>2, <1>3 DEF Numbered, TypeOK
<1>15. Described'
  <2> SUFFICES ASSUME NEW p \in Objects, block'[p] # Null
               PROVE  \E t \in Builts : Describes(p, t)'
    BY DEF Described
  <2>1. CASE p = o
    <3>1. heap'[block'[o]] = tables + 1 /\ block'[o] = b
      BY <1>1 DEF TypeOK
    <3>2. Describes(o, s)'
      BY <3>1, <1>1, <1>3 DEF Describes, TypeOK
    <3> QED
      BY <3>2, <2>1
  <2>2. CASE p # o
    <3>1. block'[p] = block[p] /\ view'[p] = view[p] /\ bytes'[p] = bytes[p]
      BY <2>2, <1>1 DEF TypeOK
    <3>2. heap'[block[p]] = heap[block[p]]
      BY <2>2, <1>1, <1>9 DEF TypeOK
    <3> QED
      BY <3>1, <3>2 DEF Described, Describes
  <2> QED
    BY <2>1, <2>2
<1> QED
  BY <1>10, <1>11, <1>12, <1>13, <1>14, <1>15

\* What both moves do: an object takes another's fields, and its block, if it had
\* one, is given back.
LEMMA TakeInv ==
    ASSUME IInv, NEW o \in Objects, NEW from \in alive, o # from,
           heap' = Released(o, from), TakeFrom(o, from),
           alive' = alive \cup {o}, tables' = tables, held' = held
    PROVE  IInv'
<1> USE DEF IInv
<1>1. /\ from \in Objects
      /\ alive \subseteq Objects
      /\ error \in [Objects -> BOOLEAN]
      /\ block \in [Objects -> Blocks \cup {Null}]
      /\ bytes \in [Objects -> Nat]
      /\ view \in [Objects -> Views]
      /\ heap \in [Blocks -> Nat]
  BY DEF TypeOK
<1>2. /\ error' = [error EXCEPT ![o] = error[from]]
      /\ block' = [block EXCEPT ![o] = block[from], ![from] = Null]
      /\ bytes' = [bytes EXCEPT ![o] = bytes[from], ![from] = 0]
      /\ view' = [view EXCEPT ![o] = view[from], ![from] = NoView]
  BY DEF TakeFrom, Exchanged
<1>3. /\ error'[o] = error[from] /\ block'[o] = block[from]
      /\ bytes'[o] = bytes[from] /\ view'[o] = view[from]
      /\ block'[from] = Null /\ bytes'[from] = 0 /\ view'[from] = NoView
  BY <1>1, <1>2
<1>4. \A p \in Objects \ {o, from} :
          /\ error'[p] = error[p] /\ block'[p] = block[p]
          /\ bytes'[p] = bytes[p] /\ view'[p] = view[p]
  BY <1>1, <1>2
<1>5. \A b \in Blocks : heap'[b] = IF b = block[o] THEN 0 ELSE heap[b]
  BY DEF Released
<1>6. \A p, q \in Objects : block[p] = block[q] /\ block[p] # Null => p = q
  BY <1>1 DEF FieldsAgree, OneOwner, Owners
<1>7. TypeOK'
  <2>1. heap' \in [Blocks -> Nat]
    BY <1>1 DEF Released
  <2>2. NoView \in Views
    BY DEF Views
  <2> QED
    BY <1>1, <1>2, <2>1, <2>2 DEF TypeOK
<1>8. OneOwner'
  <2>1. ASSUME NEW b \in Blocks
        PROVE  /\ heap'[b] # 0 <=> Owners(b)' # {}
               /\ \A p, q \in Owners(b)' : p = q
    <3>1. b # Null
      BY NullAssumption
    <3>2. CASE b = block[o]
      <4>1. heap'[b] = 0
        BY <3>2, <1>5
      <4>2. \A p \in Objects : block'[p] # b
        BY <3>1, <3>2, <1>1, <1>3, <1>4, <1>6
      <4> QED
        BY <4>1, <4>2, <1>7 DEF Owners, TypeOK
    <3>3. CASE b # block[o] /\ b = block[from]
      <4>1. heap'[b] = heap[b] /\ heap[b] # 0
        BY <3>3, <1>5 DEF OneOwner, Owners
      <4>2. Owners(b)' = {o}
        BY <3>1, <3>3, <1>1, <1>3, <1>4, <1>6, <1>7 DEF Owners, TypeOK
      <4> QED
        BY <4>1, <4>2
    <3>4. CASE b # block[o] /\ b # block[from]
      <4>1. heap'[b] = heap[b]
        BY <3>4, <1>5
      <4>2. Owners(b)' = Owners(b)
        BY <3>1, <3>4, <1>1, <1>3, <1>4 DEF Owners
      <4> QED
        BY <4>1, <4>2 DEF OneOwner
    <3> QED
      BY <3>2, <3>3, <3>4
  <2> QED
    BY <2>1 DEF OneOwner
<1>9. \A p \in Objects \ {o} : block[p] # Null => heap'[block[p]] = heap[block[p]]
  BY <1>1, <1>5, <1>6
<1>10. FieldsAgree'
  <2> SUFFICES ASSUME NEW p \in Objects
               PROVE  /\ block'[p] = Null <=> bytes'[p] = 0
                      /\ block'[p] = Null <=> view'[p] = NoView
                      /\ block'[p] # Null =>
                             /\ p \in alive' /\ ~error'[p]
                             /\ view'[p].block = block'[p]
                             /\ view'[p].table = heap'[block'[p]]
    BY DEF FieldsAgree
  <2>1. CASE p = o
    BY <2>1, <1>1, <1>3, <1>9 DEF FieldsAgree
  <2>2. CASE p = from
    BY <2>2, <1>3
  <2>3. CASE p \notin {o, from}
    BY <2>3, <1>4, <1>9 DEF FieldsAgree
  <2> QED
    BY <2>1, <2>2, <2>3
<1>11. HeldWhileOwned'
  <2> SUFFICES ASSUME NEW r \in Readers, held[r] # NoView
               PROVE  heap'[held[r].block] = held[r].table <=> \E p \in alive' : view'[p] = held[r]
    BY DEF HeldWhileOwned
  <2> DEFINE v == held[r]
  <2>1. v.block \in Blocks /\ v.table # 0
    BY ViewsFields DEF TypeOK
  <2>2. heap[v.block] = v.table <=> \E p \in alive : view[p] = v
    BY DEF HeldWhileOwned
  <2>3. \A p \in alive : view[p] = v => block[p] = v.block
    BY <1>1 DEF FieldsAgree
  <2> HIDE DEF v
  <2>4. v # NoView
    BY DEF v
  <2>5. CASE v.block = block[o]
    <3>1. heap'[v.block] # v.table
      BY <2>1, <2>5, <1>5
    <3>2. \A p \in alive \ {o} : view[p] # v
      BY <2>1, <2>3, <2>5, <1>1, <1>6, NullAssumption
    <3>3. \A p \in alive' : view'[p] # v
      BY <3>2, <2>4, <1>1, <1>3, <1>4
    <3> QED
      BY <3>1, <3>3 DEF v
  <2>6. CASE v.block # block[o]
    <3>1. heap'[v.block] = heap[v.block]
      BY <2>1, <2>6, <1>5
    <3>2. view[o] # v
      BY <2>3, <2>4, <2>6 DEF FieldsAgree
    <3>3. (\E p \in alive' : view'[p] = v) <=> \E p \in alive : view[p] = v
      BY <3>2, <2>4, <1>1, <1>3, <1>4
    <3> QED
      BY <3>1, <3>3, <2>2 DEF v
  <2> QED
    BY <2>5, <2>6
<1>12. Numbered'
  BY <1>1, <1>5, <1>7 DEF Numbered, TypeOK
<1>13. Described'
  <2> SUFFICES ASSUME NEW p \in Objects, block'[p] # Null
               PROVE  \E s \in Builts : Describes(p, s)'
    BY DEF Described
  <2>1. PICK q \in Objects \ {o} :
            /\ block'[p] = block[q] /\ view'[p] = view[q] /\ bytes'[p] = bytes[q]
    BY <1>1, <1>3, <1>4
  <2>2. block[q] # Null /\ heap'[block'[p]] = heap[block[q]]
    BY <2>1, <1>9
  <2>3. PICK s \in Builts : Describes(q, s)
    BY <2>2 DEF Described
  <2>4. Describes(p, s)'
    BY <2>1, <2>2, <2>3 DEF Describes
  <2> QED
    BY <2>4
<1> QED
  BY <1>7, <1>8, <1>10, <1>11, <1>12, <1>13

\* A new object takes what another had.
LEMMA MoveConstructInv ==
    ASSUME IInv, NEW o \in Objects, NEW from \in Objects, MoveConstruct(o, from)
    PROVE  IInv'
<1>1. block[o] = Null
  BY DEF IInv, FieldsAgree, MoveConstruct
<1>2. Released(o, from) = heap
  BY <1>1, NullAssumption DEF Released, IInv, TypeOK
<1> QED
  BY <1>2, TakeInv DEF MoveConstruct

\* An object gives up its own block and takes what another had.
LEMMA MoveAssignInv ==
    ASSUME IInv, NEW o \in Objects, NEW from \in Objects, MoveAssign(o, from)
    PROVE  IInv'
<1>1. o # from /\ from \in alive /\ heap' = Released(o, from) /\ TakeFrom(o, from)
  BY DEF MoveAssign, Differs
<1>2. alive' = alive \cup {o} /\ tables' = tables /\ held' = held
  BY DEF MoveAssign
<1> QED
  BY <1>1, <1>2, TakeInv

\* An object that goes gives back its block.
LEMMA DestroyInv ==
    ASSUME IInv, NEW o \in Objects, Destroy(o)
    PROVE  IInv'
<1> USE DEF IInv
<1>1. /\ alive \subseteq Objects
      /\ error \in [Objects -> BOOLEAN]
      /\ block \in [Objects -> Blocks \cup {Null}]
      /\ bytes \in [Objects -> Nat]
      /\ view \in [Objects -> Views]
      /\ heap \in [Blocks -> Nat]
  BY DEF TypeOK
<1>2. /\ alive' = alive \ {o}
      /\ heap' = Released(o, o)
      /\ error' = [error EXCEPT ![o] = FALSE]
      /\ block' = [block EXCEPT ![o] = Null]
      /\ bytes' = [bytes EXCEPT ![o] = 0]
      /\ view' = [view EXCEPT ![o] = NoView]
      /\ tables' = tables /\ held' = held
  BY DEF Destroy
<1>3. \A b \in Blocks : heap'[b] = IF b = block[o] THEN 0 ELSE heap[b]
  BY <1>2 DEF Released
<1>4. /\ block'[o] = Null /\ bytes'[o] = 0 /\ view'[o] = NoView
      /\ \A p \in Objects \ {o} :
             /\ error'[p] = error[p] /\ block'[p] = block[p]
             /\ bytes'[p] = bytes[p] /\ view'[p] = view[p]
  BY <1>1, <1>2
<1>5. \A p \in Objects \ {o} :
          block[p] # Null => block[p] # block[o] /\ heap'[block[p]] = heap[block[p]]
  BY <1>1, <1>3 DEF FieldsAgree, OneOwner, Owners
<1>6. TypeOK'
  <2>1. heap' \in [Blocks -> Nat]
    BY <1>1, <1>2 DEF Released
  <2>2. NoView \in Views
    BY DEF Views
  <2> QED
    BY <1>1, <1>2, <2>1, <2>2 DEF TypeOK
<1>7. OneOwner'
  <2>1. ASSUME NEW b \in Blocks
        PROVE  /\ heap'[b] # 0 <=> Owners(b)' # {}
               /\ \A p, q \in Owners(b)' : p = q
    <3>1. b # Null
      BY NullAssumption
    <3>2. CASE b = block[o]
      <4>1. heap'[b] = 0
        BY <3>2, <1>3
      <4>2. \A p \in alive' : block'[p] # b
        BY <3>1, <3>2, <1>1, <1>2, <1>4, <1>5
      <4> QED
        BY <4>1, <4>2 DEF Owners
    <3>3. CASE b # block[o]
      <4>1. heap'[b] = heap[b]
        BY <3>3, <1>3
      <4>2. Owners(b)' = Owners(b)
        BY <3>1, <3>3, <1>1, <1>2, <1>4 DEF Owners
      <4> QED
        BY <4>1, <4>2 DEF OneOwner
    <3> QED
      BY <3>2, <3>3
  <2> QED
    BY <2>1 DEF OneOwner
<1>8. FieldsAgree'
  <2> SUFFICES ASSUME NEW p \in Objects
               PROVE  /\ block'[p] = Null <=> bytes'[p] = 0
                      /\ block'[p] = Null <=> view'[p] = NoView
                      /\ block'[p] # Null =>
                             /\ p \in alive' /\ ~error'[p]
                             /\ view'[p].block = block'[p]
                             /\ view'[p].table = heap'[block'[p]]
    BY DEF FieldsAgree
  <2>1. CASE p = o
    BY <2>1, <1>4
  <2>2. CASE p # o
    BY <2>2, <1>2, <1>4, <1>5 DEF FieldsAgree
  <2> QED
    BY <2>1, <2>2
<1>9. HeldWhileOwned'
  <2> SUFFICES ASSUME NEW r \in Readers, held[r] # NoView
               PROVE  heap'[held[r].block] = held[r].table <=> \E p \in alive' : view'[p] = held[r]
    BY <1>2 DEF HeldWhileOwned
  <2> DEFINE v == held[r]
  <2>1. v.block \in Blocks /\ v.table # 0
    BY ViewsFields DEF TypeOK
  <2>2. heap[v.block] = v.table <=> \E p \in alive : view[p] = v
    BY DEF HeldWhileOwned
  <2>3. \A p \in alive : view[p] = v => block[p] = v.block
    BY <1>1 DEF FieldsAgree
  <2> HIDE DEF v
  <2>4. CASE v.block = block[o]
    <3>1. heap'[v.block] # v.table
      BY <2>1, <2>4, <1>3
    <3>2. \A p \in alive \ {o} : view[p] # v
      BY <2>1, <2>3, <2>4, <1>1, <1>5, NullAssumption
    <3>3. \A p \in alive' : view'[p] # v
      BY <3>2, <1>1, <1>2, <1>4
    <3> QED
      BY <3>1, <3>3 DEF v
  <2>5. CASE v.block # block[o]
    <3>1. heap'[v.block] = heap[v.block]
      BY <2>1, <2>5, <1>3
    <3>2. (\E p \in alive' : view'[p] = v) <=> \E p \in alive : view[p] = v
      BY <2>3, <2>5, <1>1, <1>2, <1>4
    <3> QED
      BY <3>1, <3>2, <2>2 DEF v
  <2> QED
    BY <2>4, <2>5
<1>10. Numbered'
  BY <1>1, <1>2, <1>3, <1>6 DEF Numbered, TypeOK
<1>11. Described'
  <2> SUFFICES ASSUME NEW p \in Objects, block'[p] # Null
               PROVE  \E s \in Builts : Describes(p, s)'
    BY DEF Described
  <2>1. p # o /\ block[p] # Null
    BY <1>4
  <2>2. PICK s \in Builts : Describes(p, s)
    BY <2>1 DEF Described
  <2>3. Describes(p, s)'
    BY <2>1, <2>2, <1>4, <1>5 DEF Describes
  <2> QED
    BY <2>3
<1> QED
  BY <1>6, <1>7, <1>8, <1>9, <1>10, <1>11

\* A view is handed out of the table its object has.
LEMMA TakeViewInv ==
    ASSUME IInv, NEW r \in Readers, NEW o \in Objects, TakeView(r, o)
    PROVE  IInv'
<1> USE DEF IInv
<1>1. /\ o \in alive /\ held' = [held EXCEPT ![r] = view[o]]
      /\ alive' = alive /\ error' = error /\ block' = block /\ bytes' = bytes
      /\ view' = view /\ heap' = heap /\ tables' = tables
  BY DEF TakeView
<1>2. TypeOK'
  BY <1>1 DEF TypeOK
<1>3. OneOwner' /\ FieldsAgree' /\ Described'
  BY <1>1 DEF OneOwner, Owners, FieldsAgree, Described, Describes
<1>4. ASSUME view[o] # NoView
      PROVE  /\ heap[view[o].block] = view[o].table
             /\ view[o].table \in 1..tables
  <2>1. block[o] # Null
    BY <1>4 DEF FieldsAgree
  <2>2. /\ heap[view[o].block] = view[o].table
        /\ view[o].table = heap[block[o]] /\ block[o] \in Blocks
    BY <2>1 DEF FieldsAgree, TypeOK
  <2>3. view[o].table \in 1..MaxTables
    BY <1>4, ViewsFields DEF TypeOK
  <2> QED
    BY <2>2, <2>3 DEF Numbered, TypeOK
<1>5. HeldWhileOwned'
  BY <1>1, <1>4 DEF HeldWhileOwned, TypeOK
<1>6. Numbered'
  BY <1>1, <1>4 DEF Numbered, TypeOK
<1> QED
  BY <1>2, <1>3, <1>5, <1>6

\* Every step of any object or reader keeps the invariant.
LEMMA NextInv == IInv /\ [Next]_vars => IInv'
<1> SUFFICES ASSUME IInv, [Next]_vars PROVE IInv'
  OBVIOUS
<1>1. CASE \E o \in Objects, failed \in BOOLEAN : ConstructEmpty(o, failed)
  BY <1>1, ConstructEmptyInv
<1>2. CASE \E o \in Objects, s \in Builts : Construct(o, s)
  BY <1>2, ConstructInv
<1>3. CASE \E o, from \in Objects : MoveConstruct(o, from) \/ MoveAssign(o, from)
  BY <1>3, MoveConstructInv, MoveAssignInv
<1>4. CASE \E o \in Objects : Destroy(o)
  BY <1>4, DestroyInv
<1>5. CASE \E r \in Readers, o \in Objects : TakeView(r, o)
  BY <1>5, TakeViewInv
<1>6. CASE UNCHANGED vars
  <2>1. TypeOK' /\ OneOwner' /\ FieldsAgree' /\ HeldWhileOwned'
    BY <1>6 DEF IInv, vars, TypeOK, OneOwner, Owners, FieldsAgree, HeldWhileOwned
  <2>2. Numbered' /\ Described'
    BY <1>6 DEF IInv, vars, Numbered, Described, Describes
  <2> QED
    BY <2>1, <2>2 DEF IInv
<1> QED
  BY <1>1, <1>2, <1>3, <1>4, <1>5, <1>6 DEF Next

\* The invariant holds whatever objects and readers do.
THEOREM Invariance == Spec => []IInv
  BY InitInv, NextInv, PTL DEF Spec

-----------------------------------------------------------------------------
(* What follows.                                                           *)

\* The fields keep their types.
THEOREM TypeCorrect == Spec => []TypeOK
<1>1. IInv => TypeOK
  BY DEF IInv
<1> QED
  BY <1>1, Invariance, PTL

\* After any sequence of constructions, moves, assignments and destructions
\* (runtime_table.hpp:30-80) no block is leaked, given back twice, or owned by
\* two objects.
THEOREM BlocksOwnedOnce == Spec => []OneOwner
<1>1. IInv => OneOwner
  BY DEF IInv
<1> QED
  BY <1>1, Invariance, PTL

\* An object's block, size and view agree (runtime_table.hpp:121-123).
THEOREM FieldsTogether == Spec => []FieldsAgree
<1>1. IInv => FieldsAgree
  BY DEF IInv
<1> QED
  BY <1>1, Invariance, PTL

\* A view a reader holds refers to its table as long as some object has it, and
\* no longer (runtime_table.hpp:59-72, 82-85).
THEOREM ViewsLastAsLong == Spec => []HeldWhileOwned
<1>1. IInv => HeldWhileOwned
  BY DEF IInv
<1> QED
  BY <1>1, Invariance, PTL

\* The span of an array is its place and length, and none when it is empty.
LEMMA SpanIs ==
    ASSUME NEW at \in Nat, NEW n \in Nat
    PROVE  IF n = 0 THEN Span(at, n) = NoSpan
           ELSE Span(at, n) = <<at, n>> /\ Span(at, n) # NoSpan
BY NoSpanAssumption DEF Span

\* Where an array ends, read off its span.
LEMMA SpanEnds ==
    ASSUME NEW at \in Nat, NEW n \in Nat, NEW size \in Nat
    PROVE  SpanEnd(Span(at, n), size) = IF n = 0 THEN 0 ELSE at + n * size
BY SpanIs DEF SpanEnd

\* Where an array starts, read off its span, or where the next does.
LEMMA SpanStarts ==
    ASSUME NEW at \in Nat, NEW n \in Nat, NEW otherwise \in Nat
    PROVE  SpanStart(Span(at, n), otherwise) = IF n = 0 THEN otherwise ELSE at
BY SpanIs DEF SpanStart

\* The arrays seen through an object's view lie apart in its block, whatever the
\* sizes of the table (place, runtime_table.hpp:99-108).
THEOREM ArraysApart == Spec => []SpansApart
<1>1. ASSUME IInv PROVE SpansApart
  <2> SUFFICES ASSUME NEW o \in Objects, block[o] # Null
               PROVE  LET v == view[o]
                      IN  /\ SpanEnd(v.nodes, NodeBytes) <= SpanStart(v.edges, v.arena[1])
                          /\ SpanEnd(v.edges, EdgeBytes) <= SpanStart(v.literals, v.arena[1])
                          /\ SpanEnd(v.nodes, NodeBytes) <= SpanStart(v.literals, v.arena[1])
                          /\ SpanEnd(v.literals, SlotBytes) <= v.arena[1]
                          /\ v.arena[1] + v.arena[2] < bytes[o]
    BY DEF SpansApart
  <2>1. PICK s \in Builts : Describes(o, s)
    BY <1>1 DEF IInv, Described
  <2>2. /\ s \in StaticSizes
        /\ s.nodes \in Nat /\ s.edges \in Nat /\ s.literals \in Nat /\ s.arena \in Nat
    BY SizesAssumption DEF StaticSizes
  <2> DEFINE l == TableLayout(s)
             v == view[o]
  <2>3. /\ v.nodes = Span(l.nodes, s.nodes) /\ v.edges = Span(l.edges, s.edges)
        /\ v.literals = Span(l.literals, s.literals)
        /\ v.arena[1] = l.arena /\ v.arena[2] = s.arena
        /\ bytes[o] = l.bytes
    BY <2>1 DEF Describes, ViewOf
  <2>4. /\ l.nodes \in Nat /\ l.edges \in Nat /\ l.literals \in Nat /\ l.arena \in Nat
        /\ l.bytes \in Nat
    BY <2>2, LayoutNat
  <2>5. /\ l.nodes + s.nodes * NodeBytes <= l.edges
        /\ l.edges + s.edges * EdgeBytes <= l.literals
        /\ l.literals + s.literals * SlotBytes <= l.arena
        /\ l.arena + s.arena < l.bytes
    BY <2>2, LayoutCorrect DEF LayoutOK
  <2>6. /\ s.nodes * NodeBytes \in Nat /\ s.edges * EdgeBytes \in Nat
        /\ s.literals * SlotBytes \in Nat
    BY <2>2, MemberHolds, BytesAssumption
  <2> HIDE DEF l, v
  <2>7. /\ SpanEnd(v.nodes, NodeBytes) = IF s.nodes = 0 THEN 0 ELSE l.nodes + s.nodes * NodeBytes
        /\ SpanEnd(v.edges, EdgeBytes) = IF s.edges = 0 THEN 0 ELSE l.edges + s.edges * EdgeBytes
        /\ SpanEnd(v.literals, SlotBytes)
             = IF s.literals = 0 THEN 0 ELSE l.literals + s.literals * SlotBytes
        /\ SpanStart(v.edges, v.arena[1]) = IF s.edges = 0 THEN l.arena ELSE l.edges
        /\ SpanStart(v.literals, v.arena[1]) = IF s.literals = 0 THEN l.arena ELSE l.literals
    <3>1. NodeBytes \in Nat /\ EdgeBytes \in Nat /\ SlotBytes \in Nat
      BY BytesAssumption
    <3>2. SpanEnd(Span(l.nodes, s.nodes), NodeBytes)
            = IF s.nodes = 0 THEN 0 ELSE l.nodes + s.nodes * NodeBytes
      BY <2>2, <2>4, <3>1, SpanEnds
    <3>3. SpanEnd(Span(l.edges, s.edges), EdgeBytes)
            = IF s.edges = 0 THEN 0 ELSE l.edges + s.edges * EdgeBytes
      BY <2>2, <2>4, <3>1, SpanEnds
    <3>4. SpanEnd(Span(l.literals, s.literals), SlotBytes)
            = IF s.literals = 0 THEN 0 ELSE l.literals + s.literals * SlotBytes
      BY <2>2, <2>4, <3>1, SpanEnds
    <3>5. SpanStart(Span(l.edges, s.edges), l.arena) = IF s.edges = 0 THEN l.arena ELSE l.edges
      BY <2>2, <2>4, SpanStarts
    <3>6. SpanStart(Span(l.literals, s.literals), l.arena)
            = IF s.literals = 0 THEN l.arena ELSE l.literals
      BY <2>2, <2>4, SpanStarts
    <3> QED
      BY <2>3, <3>2, <3>3, <3>4, <3>5, <3>6
  <2>8. /\ SpanEnd(v.nodes, NodeBytes) <= l.edges
        /\ SpanEnd(v.edges, EdgeBytes) <= l.literals
        /\ SpanEnd(v.literals, SlotBytes) <= l.arena
    BY <2>4, <2>5, <2>6, <2>7
  <2>9. l.edges <= l.literals /\ l.literals <= l.arena
    BY <2>4, <2>5, <2>6
  <2>10. /\ SpanEnd(v.nodes, NodeBytes) \in Nat /\ SpanEnd(v.edges, EdgeBytes) \in Nat
         /\ SpanEnd(v.literals, SlotBytes) \in Nat
    BY <2>4, <2>6, <2>7
  <2> QED
    BY <2>3, <2>4, <2>5, <2>7, <2>8, <2>9, <2>10 DEF v
<1> QED
  BY <1>1, Invariance, PTL

\* No step loses a table: it stays, is handed on whole, or goes with the object
\* that is destroyed or assigned to.
THEOREM TablesHandedOn == Spec => NothingLost
<1>1. ASSUME IInv, [Next]_vars
      PROVE  [\A o \in alive : block[o] # Null => HandedOn(o)]_vars
  <2> SUFFICES ASSUME Next, NEW o \in alive, block[o] # Null
               PROVE  HandedOn(o)
    BY <1>1
  <2>1. o \in Objects /\ alive \subseteq Objects
    BY <1>1 DEF IInv, TypeOK
  <2>2. \A p \in Objects : block[p] \in Blocks \cup {Null}
    BY <1>1 DEF IInv, TypeOK
  <2> USE DEF HandedOn, Gets, IInv, TypeOK
  <2>3. CASE \E p \in Objects, failed \in BOOLEAN : ConstructEmpty(p, failed)
    BY <2>1, <2>3 DEF ConstructEmpty
  <2>4. CASE \E p \in Objects, s \in Builts : Construct(p, s)
    BY <1>1, <2>1, <2>4 DEF Construct
  <2>5. ASSUME NEW p \in Objects, NEW from \in alive, p # from, TakeFrom(p, from)
        PROVE  /\ Gets(p, from) /\ error'[p] = error[from]
               /\ \A q \in Objects \ {p, from} : Gets(q, q)
    BY <1>1, <2>1, <2>5 DEF TakeFrom, Exchanged
  <2>6. CASE \E p, from \in Objects : MoveConstruct(p, from)
    BY <2>1, <2>5, <2>6 DEF MoveConstruct
  <2>7. CASE \E p, from \in Objects : MoveAssign(p, from)
    BY <2>1, <2>5, <2>7 DEF MoveAssign, Differs
  <2>8. CASE \E p \in Objects : Destroy(p)
    BY <1>1, <2>1, <2>8 DEF Destroy
  <2>9. CASE \E r \in Readers, p \in Objects : TakeView(r, p)
    BY <2>1, <2>9 DEF TakeView
  <2> QED
    BY <2>3, <2>4, <2>6, <2>7, <2>8, <2>9 DEF Next
<1> QED
  BY <1>1, Invariance, PTL DEF Spec, NothingLost
=============================================================================

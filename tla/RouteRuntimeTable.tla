-------------------------- MODULE RouteRuntimeTable --------------------------
(***************************************************************************)
(* RuntimeTable objects (route/runtime_table.hpp): each owns a block of    *)
(* memory with a table's arrays in it, or none; they are made, moved,      *)
(* assigned and destroyed in any order, and readers hold the views they    *)
(* were handed (TableView, a copy).                                        *)
(*                                                                         *)
(* The memory is a set of blocks operator new gives out and takes back,    *)
(* again and again.  A ghost number tells the tables copied into them      *)
(* apart.                                                                  *)
(***************************************************************************)
EXTENDS RouteLayout

CONSTANTS
    Objects,   \* the variables of type RuntimeTable
    Blocks,    \* the memory there is
    Readers,   \* those that hold a view
    Builts,    \* the sizes of the tables copied
    MaxTables, \* bound: how many tables are copied
    Null,      \* no block
    NoView,    \* TableView{}
    NoSpan     \* an empty span

ASSUME SizesAssumption == Builts \subseteq StaticSizes

ASSUME NullAssumption == Null \notin Blocks

ASSUME NoSpanAssumption == NoSpan \notin Nat \X Nat

VARIABLES
    alive,   \* the objects constructed and not destroyed
    error,   \* by object: whether the routes did not build a table
    block,   \* block_
    bytes,   \* bytes_
    view,    \* view_
    heap,    \* by block: the table in it, or 0 when it is free
    tables,  \* how many tables were copied so far
    held     \* by reader: the view it holds

vars == <<alive, error, block, bytes, view, heap, tables, held>>

-----------------------------------------------------------------------------
\* place: where an array is, seen through its span.
Span(at, n) == IF n = 0 THEN NoSpan ELSE <<at, n>>

\* The view of the table of some sizes, the n-th copied, in a block.
ViewOf(b, n, s) ==
    LET l == TableLayout(s)
    IN  [block |-> b, table |-> n,
         nodes |-> Span(l.nodes, s.nodes), edges |-> Span(l.edges, s.edges),
         literals |-> Span(l.literals, s.literals), arena |-> <<l.arena, s.arena>>]

Views ==
    {ViewOf(b, n, s) : b \in Blocks, n \in 1..MaxTables, s \in Builts} \cup {NoView}

ASSUME MaxTablesAssumption == MaxTables \in Nat

ASSUME NoViewAssumption ==
    \A b \in Blocks, n \in 1..MaxTables, s \in Builts : NoView # ViewOf(b, n, s)

Init ==
    /\ alive = {}
    /\ error = [o \in Objects |-> FALSE]
    /\ block = [o \in Objects |-> Null]
    /\ bytes = [o \in Objects |-> 0]
    /\ view = [o \in Objects |-> NoView]
    /\ heap = [b \in Blocks |-> 0]
    /\ tables = 0
    /\ held = [r \in Readers |-> NoView]

\* An object without a table: default-constructed, or made of routes that did
\* not build one.
ConstructEmpty(o, failed) ==
    /\ o \notin alive
    /\ alive' = alive \cup {o}
    /\ error' = [error EXCEPT ![o] = failed]
    /\ UNCHANGED <<block, bytes, view, heap, tables, held>>

\* A built table is copied into a new block.  When there is none, operator new
\* throws and nothing has changed.
Construct(o, s) ==
    /\ o \notin alive
    /\ tables < MaxTables
    /\ \E b \in Blocks :
           /\ heap[b] = 0
           /\ heap' = [heap EXCEPT ![b] = tables + 1]
           /\ block' = [block EXCEPT ![o] = b]
           /\ bytes' = [bytes EXCEPT ![o] = TableLayout(s).bytes]
           /\ view' = [view EXCEPT ![o] = ViewOf(b, tables + 1, s)]
    /\ alive' = alive \cup {o}
    /\ error' = [error EXCEPT ![o] = FALSE]
    /\ tables' = tables + 1
    /\ UNCHANGED held

\* std::exchange of a field of another object with none.
Exchanged(field, o, from, none) == [field EXCEPT ![o] = field[from], ![from] = none]

\* Mutant of TakeFrom: the other object keeps its view.
TakeLeavingView(o, from) ==
    /\ error' = [error EXCEPT ![o] = error[from]]
    /\ block' = Exchanged(block, o, from, Null)
    /\ bytes' = Exchanged(bytes, o, from, 0)
    /\ view' = [view EXCEPT ![o] = view[from]]

TakeFrom(o, from) ==
    /\ error' = [error EXCEPT ![o] = error[from]]
    /\ block' = Exchanged(block, o, from, Null)
    /\ bytes' = Exchanged(bytes, o, from, 0)
    /\ view' = Exchanged(view, o, from, NoView)

\* Mutants of Released: the block is not given back; what is given back is the
\* block of the object moved from.
Kept(o, from) == heap
ReleasedOther(o, from) == [b \in Blocks |-> IF b = block[from] THEN 0 ELSE heap[b]]

\* release: operator delete of an object's block, if it has one, before it takes
\* another's.
Released(o, from) == [b \in Blocks |-> IF b = block[o] THEN 0 ELSE heap[b]]

MoveConstruct(o, from) ==
    /\ o \notin alive /\ from \in alive
    /\ alive' = alive \cup {o}
    /\ TakeFrom(o, from)
    /\ UNCHANGED <<heap, tables, held>>

\* Mutant of Differs: without the test.
DiffersNot(o, from) == TRUE

\* this != &o
Differs(o, from) == o # from

MoveAssign(o, from) ==
    /\ o \in alive /\ from \in alive
    /\ Differs(o, from)
    /\ heap' = Released(o, from)
    /\ TakeFrom(o, from)
    /\ UNCHANGED <<alive, tables, held>>

Destroy(o) ==
    /\ o \in alive
    /\ alive' = alive \ {o}
    /\ heap' = Released(o, o)
    /\ error' = [error EXCEPT ![o] = FALSE]
    /\ block' = [block EXCEPT ![o] = Null]
    /\ bytes' = [bytes EXCEPT ![o] = 0]
    /\ view' = [view EXCEPT ![o] = NoView]
    /\ UNCHANGED <<tables, held>>

\* view()
TakeView(r, o) ==
    /\ o \in alive
    /\ held' = [held EXCEPT ![r] = view[o]]
    /\ UNCHANGED <<alive, error, block, bytes, view, heap, tables>>

Next ==
    \/ \E o \in Objects, failed \in BOOLEAN : ConstructEmpty(o, failed)
    \/ \E o \in Objects, s \in Builts : Construct(o, s)
    \/ \E o, from \in Objects : MoveConstruct(o, from) \/ MoveAssign(o, from)
    \/ \E o \in Objects : Destroy(o)
    \/ \E r \in Readers, o \in Objects : TakeView(r, o)

Spec == Init /\ [][Next]_vars

-----------------------------------------------------------------------------
(* Properties.                                                             *)

TypeOK ==
    /\ alive \subseteq Objects
    /\ error \in [Objects -> BOOLEAN]
    /\ block \in [Objects -> Blocks \cup {Null}]
    /\ bytes \in [Objects -> Nat]
    /\ view \in [Objects -> Views]
    /\ heap \in [Blocks -> Nat]
    /\ tables \in Nat
    /\ held \in [Readers -> Views]

Owners(b) == {o \in alive : block[o] = b}

\* Every block that was given out is owned by one object alive, and no block
\* that was taken back is: after any moves and assignments nothing is leaked and
\* nothing given back twice.
OneOwner ==
    /\ \A b \in Blocks : heap[b] # 0 <=> Owners(b) # {}
    /\ \A b \in Blocks : \A o, p \in Owners(b) : o = p

\* What an object says of itself agrees: it has a block exactly if it has a size
\* and a view ("null when the build failed, or after a move",
\* runtime_table.hpp:87); its view is into its own block and of the table that is
\* there now.
FieldsAgree ==
    \A o \in Objects :
        /\ block[o] = Null <=> bytes[o] = 0
        /\ block[o] = Null <=> view[o] = NoView
        /\ block[o] # Null =>
               /\ o \in alive /\ ~error[o]
               /\ view[o].block = block[o]
               /\ view[o].table = heap[block[o]]

\* The arrays of a view lie in the block and do not touch one another: an element
\* read through it is one the constructor copied there.
SpanEnd(span, size) == IF span = NoSpan THEN 0 ELSE span[1] + span[2] * size

SpanStart(span, otherwise) == IF span = NoSpan THEN otherwise ELSE span[1]

SpansApart ==
    \A o \in Objects : block[o] # Null =>
        LET v == view[o]
        IN  /\ SpanEnd(v.nodes, NodeBytes) <= SpanStart(v.edges, v.arena[1])
            /\ SpanEnd(v.edges, EdgeBytes) <= SpanStart(v.literals, v.arena[1])
            /\ SpanEnd(v.nodes, NodeBytes) <= SpanStart(v.literals, v.arena[1])
            /\ SpanEnd(v.literals, SlotBytes) <= v.arena[1]
            /\ v.arena[1] + v.arena[2] < bytes[o]

\* A view somebody holds is good, into memory that is still that table's, exactly
\* while some object has the table: moves hand it on with the block, and an
\* object that is destroyed or assigned to takes it away.
HeldWhileOwned ==
    \A r \in Readers :
        LET v == held[r]
        IN  v # NoView => (heap[v.block] = v.table <=> \E o \in alive : view[o] = v)

\* An object has after a step what another, or itself, had before.
Gets(o, from) ==
    /\ block'[o] = block[from]
    /\ bytes'[o] = bytes[from]
    /\ view'[o] = view[from]

\* A step that leaves an object without its table hands it on whole, or destroys
\* the object, or gives it the table and the errors of another one.
HandedOn(o) ==
    \/ \E p \in alive' : Gets(p, o)
    \/ o \notin alive'
    \/ \E f \in alive \ {o} : Gets(o, f) /\ error'[o] = error[f]

NothingLost == [][\A o \in alive : block[o] # Null => HandedOn(o)]_vars
=============================================================================

-------------------------- MODULE RouteWalk_proofs --------------------------
(***************************************************************************)
(* Proofs about the trie walk, for every well-formed trie and every path:  *)
(* it keeps its arrays and captures, no pattern that matches is lost, and  *)
(* what is returned is the most specific of them with its captures.        *)
(***************************************************************************)
EXTENDS RouteWalk, Numbers_proofs, FiniteSetTheorems, SequenceTheorems, TLAPS

USE DEF Empty

-----------------------------------------------------------------------------
(* What the helpers on patterns return.                                    *)

\* The parameters of a pattern are finitely many.
LEMMA ParamsFinite ==
    ASSUME NEW p \in Seq(Segments)
    PROVE  /\ IsFiniteSet(ParamIndices(p))
           /\ NumParams(p) \in Nat
<1>1. IsFiniteSet(1..Len(p))
  BY FS_Interval
<1>2. IsFiniteSet(ParamIndices(p))
  BY <1>1, FS_Subset DEF ParamIndices
<1> QED
  BY <1>2, FS_CardinalityType DEF NumParams

\* A literal segment adds no parameter to a pattern, any other adds one.
LEMMA ParamsAppend ==
    ASSUME NEW p \in Seq(Segments), NEW s \in Segments
    PROVE  /\ Append(p, s) \in Seq(Segments)
           /\ Len(Append(p, s)) = Len(p) + 1
           /\ s.kind = "literal" =>
                  /\ ParamIndices(Append(p, s)) = ParamIndices(p)
                  /\ NumParams(Append(p, s)) = NumParams(p)
           /\ s.kind # "literal" =>
                  /\ ParamIndices(Append(p, s)) = ParamIndices(p) \cup {Len(p) + 1}
                  /\ NumParams(Append(p, s)) = NumParams(p) + 1
<1> DEFINE q == Append(p, s)
<1>1. /\ q \in Seq(Segments)
      /\ Len(q) = Len(p) + 1
      /\ \A i \in 1..Len(p) : q[i] = p[i]
      /\ q[Len(p) + 1] = s
  OBVIOUS
<1>2. ASSUME s.kind = "literal"
      PROVE  ParamIndices(q) = ParamIndices(p)
  BY <1>1, <1>2 DEF ParamIndices
<1>3. ASSUME s.kind # "literal"
      PROVE  ParamIndices(q) = ParamIndices(p) \cup {Len(p) + 1}
  BY <1>1, <1>3 DEF ParamIndices
<1>4. Len(p) + 1 \notin ParamIndices(p)
  BY DEF ParamIndices
<1>5. Cardinality(ParamIndices(p) \cup {Len(p) + 1}) = Cardinality(ParamIndices(p)) + 1
  BY <1>4, ParamsFinite, FS_AddElement
<1> QED
  BY <1>1, <1>2, <1>3, <1>5 DEF NumParams

-----------------------------------------------------------------------------
(* Types.                                                                  *)

\* A capture of any path.
AnyView == Nat \X Nat

\* TypeOK but for the captures: a lookup hands the walk an array that may hold
\* those of other paths, from the walks before.
Typed ==
    /\ root \in Roots
    /\ path \in Paths
    /\ node \in Nodes(trie)
    /\ pos \in 0..Len(path)
    /\ stage \in 0..4
    /\ stack \in Seq(ChoiceSet)
    /\ nv \in 0..MaxParams
    /\ values \in [1..MaxParams -> {Stale} \cup AnyView]
    /\ pc \in {"walking", "returned"}
    /\ result \in [route : RouteValues, count : 0..MaxParams]

-----------------------------------------------------------------------------
(* What a well-formed trie says of a node and its children.                *)

\* The trie walked is well formed.
LEMMA WalksTrie == ASSUME Typed PROVE TrieOK(trie)
  BY TriesAssumption DEF Typed, trie

\* The prefix of a node is a sequence of segments, no longer than a pattern
\* may be and with no more parameters.
LEMMA PrefixType ==
    ASSUME NEW t, TrieOK(t), NEW id \in Nodes(t)
    PROVE  /\ t.pre[id] \in Seq(Segments)
           /\ Len(t.pre[id]) \in 0..MaxSegments
           /\ NumParams(t.pre[id]) \in 0..MaxParams
<1>1. t.pre[id] \in Seq(Segments)
  BY DEF TrieOK
<1>2. Len(t.pre[id]) \in Nat /\ NumParams(t.pre[id]) \in Nat
  BY <1>1, ParamsFinite
<1>3. Len(t.pre[id]) <= MaxSegments /\ NumParams(t.pre[id]) <= MaxParams
  BY DEF TrieOK, PrefixOK
<1> QED
  BY <1>1, <1>2, <1>3, LimitsAssumption

\* A literal child is one segment deeper and has taken no capture more.
LEMMA LiteralChild ==
    ASSUME NEW t, TrieOK(t), NEW id \in Nodes(t), NEW x \in DOMAIN t.node[id].lit
    PROVE  LET c == t.node[id].lit[x]
           IN  /\ c \in Nodes(t)
               /\ t.pre[c] = Append(t.pre[id], Lit(x))
               /\ Len(t.pre[c]) = Len(t.pre[id]) + 1
               /\ NumParams(t.pre[c]) = NumParams(t.pre[id])
<1>1. NodeOK(t, id)
  BY DEF TrieOK
<1>2. x \in Texts \cup {Empty}
  BY <1>1 DEF NodeOK
<1>3. Lit(x) \in Segments /\ Lit(x).kind = "literal"
  BY <1>2 DEF Lit, Segments, Kinds
<1> QED
  BY <1>1, <1>3, PrefixType, ParamsAppend DEF NodeOK

\* Any other child is one segment deeper and has taken one capture more.
LEMMA ParamChild ==
    ASSUME NEW t, TrieOK(t), NEW id \in Nodes(t),
           NEW k \in Kinds \ {"literal"}, t.node[id][k] # None
    PROVE  LET c == t.node[id][k]
               s == [kind |-> k, text |-> Empty]
           IN  /\ c \in Nodes(t)
               /\ s \in Segments
               /\ t.pre[c] = Append(t.pre[id], s)
               /\ Len(t.pre[c]) = Len(t.pre[id]) + 1
               /\ NumParams(t.pre[c]) = NumParams(t.pre[id]) + 1
<1>1. NodeOK(t, id)
  BY DEF TrieOK
<1>2. /\ [kind |-> k, text |-> Empty] \in Segments
      /\ [kind |-> k, text |-> Empty].kind # "literal"
  BY DEF Segments, Kinds
<1> QED
  BY <1>1, <1>2, PrefixType, ParamsAppend DEF NodeOK

-----------------------------------------------------------------------------
(* The inductive invariant.                                                *)

\* Strengthens StackBound to an inductive form: the choices on the stack were
\* left at ever greater depths, so the i-th is at least i - 1 segments deep.
Deepening == \A i \in 1..Len(stack) : i - 1 <= stack[i].pos

WalkInv == Typed /\ StackBound /\ Aligned /\ Deepening

\* A walk begins, whatever its array holds from the walks before.
Begun ==
    /\ root \in Roots
    /\ path \in Paths
    /\ node = trie.root /\ pos = 0 /\ stage = 0 /\ stack = << >> /\ nv = 0
    /\ values \in [1..MaxParams -> {Stale} \cup AnyView]
    /\ pc = "walking"
    /\ result = [route |-> None, count |-> 0]

\* The walk modelled on its own begins with an array nobody wrote.
LEMMA InitBegins == Init => Begun /\ TypeOK
<1> SUFFICES ASSUME Init PROVE Begun /\ TypeOK
  OBVIOUS
<1>1. Begun
  BY DEF Init, Begun
<1>2. TrieOK(trie) /\ Len(path) \in Nat
  BY TriesAssumption, PathsAssumption DEF Init, trie
<1>3. TypeOK
  BY <1>2, LimitsAssumption DEF Init, TypeOK, RouteValues, TrieOK
<1> QED
  BY <1>1, <1>3

\* A walk starts at the root with nothing consumed and nothing pending.
LEMMA WalkBegins == Begun => WalkInv
<1> SUFFICES ASSUME Begun PROVE WalkInv
  OBVIOUS
<1> USE DEF Begun
<1>1. /\ TrieOK(trie)
      /\ path \in Seq(Texts \cup {Empty})
  BY TriesAssumption, PathsAssumption DEF trie
<1>2. node \in Nodes(trie) /\ trie.pre[node] = << >>
  BY <1>1 DEF TrieOK
<1>3. ParamIndices(<< >>) = {} /\ NumParams(<< >>) = 0
  BY FS_EmptySet DEF ParamIndices, NumParams
<1>4. Len(path) \in Nat
  BY <1>1
<1>5. Typed
  BY <1>2, <1>4, LimitsAssumption DEF Typed, RouteValues
<1> QED
  BY <1>2, <1>3, <1>5, LimitsAssumption DEF WalkInv, StackBound, Aligned, Deepening

\* The choices after a push, if any, are those before it and the one pushed.
LEMMA PushedChoices ==
    ASSUME NEW c \in ChoiceSet, stack \in Seq(ChoiceSet),
           stack' = stack \/ stack' = Append(stack, c)
    PROVE  \A i \in 1..Len(stack') :
               \/ stack'[i] = c /\ i = Len(stack) + 1
               \/ i \in 1..Len(stack) /\ stack'[i] = stack[i]
<1>1. CASE stack' = stack
  BY <1>1
<1>2. CASE stack' = Append(stack, c)
  <2>1. /\ Len(stack') = Len(stack) + 1
        /\ stack'[Len(stack) + 1] = c
        /\ \A i \in 1..Len(stack) : stack'[i] = stack[i]
    BY <1>2, AppendProperties
  <2>2. Len(stack) \in Nat
    OBVIOUS
  <2> SUFFICES ASSUME NEW i \in 1..Len(stack')
               PROVE  \/ stack'[i] = c /\ i = Len(stack) + 1
                      \/ i \in 1..Len(stack) /\ stack'[i] = stack[i]
    OBVIOUS
  <2>3. CASE i = Len(stack) + 1
    BY <2>1, <2>3
  <2>4. CASE i # Len(stack) + 1
    <3>1. i \in 1..Len(stack)
      BY <2>1, <2>2, <2>4
    <3> QED
      BY <2>1, <3>1
  <2> QED
    BY <2>3, <2>4
<1> QED
  BY <1>1, <1>2

\* The choices after a pop are those before it but the last.
LEMMA PoppedChoices ==
    ASSUME stack \in Seq(ChoiceSet), Len(stack) \in 1..Len(stack)
    PROVE  LET below == SubSeq(stack, 1, Len(stack) - 1)
           IN  /\ below \in Seq(ChoiceSet)
               /\ Len(below) = Len(stack) - 1
               /\ \A i \in 1..Len(below) :
                      /\ i \in 1..Len(stack)
                      /\ i < Len(stack)
                      /\ below[i] = stack[i]
<1> DEFINE n == Len(stack) - 1
<1>1. n \in Nat /\ Len(stack) = n + 1
  OBVIOUS
<1>2. \A i \in 1..n : i \in 1..Len(stack) /\ i < Len(stack) /\ stack[i] \in ChoiceSet
  BY <1>1
<1> HIDE DEF n
<1>3. /\ SubSeq(stack, 1, n) \in Seq(ChoiceSet)
      /\ Len(SubSeq(stack, 1, n)) = IF 1 <= n THEN n - 1 + 1 ELSE 0
      /\ \A i \in 1..(n - 1 + 1) : SubSeq(stack, 1, n)[i] = stack[1 + i - 1]
  BY <1>1, <1>2, SubSeqProperties
<1>4. /\ Len(SubSeq(stack, 1, n)) = n
      /\ \A i \in 1..n : SubSeq(stack, 1, n)[i] = stack[i]
  BY <1>1, <1>3
<1> QED
  BY <1>2, <1>3, <1>4 DEF n

\* Going down to a child one segment deeper keeps the invariant, provided the
\* captures taken are those the child's prefix asks for.
LEMMA WalkDescends ==
    ASSUME WalkInv, ~AtEnd,
           NEW child \in Nodes(trie), NEW s \in 1..4,
           node' = child, pos' = pos + 1, stage' = 0,
           stack' = stack \/ stack' = Append(stack, Choice(s)),
           UNCHANGED <<root, path, pc, result>>,
           Len(trie.pre[child]) = Len(trie.pre[node]) + 1,
           nv' \in 0..MaxParams, nv' = NumParams(trie.pre[child]),
           values' \in [1..MaxParams -> {Stale} \cup AnyView]
    PROVE  WalkInv'
<1> USE DEF WalkInv
<1>0. stack \in Seq(ChoiceSet)
  BY DEF Typed
<1>1. trie' = trie
  BY DEF trie
<1>2. TrieOK(trie)
  BY WalksTrie
<1>3. Len(path) \in Nat
  BY PathsAssumption DEF Typed
<1>4. /\ pos' \in 0..Len(path)
      /\ pos' = Len(trie.pre[child])
      /\ pos' <= MaxSegments
  BY <1>2, <1>3, PrefixType, LimitsAssumption DEF AtEnd, Typed, Aligned
<1>5. Choice(s) \in ChoiceSet
  BY DEF Choice, ChoiceSet, Typed
<1>6. Typed'
  <2>1. UNCHANGED <<ChoiceSet, RouteValues>>
    BY <1>1 DEF ChoiceSet, RouteValues
  <2>2. stack' \in Seq(ChoiceSet)
    BY <1>0, <1>5
  <2> QED
    BY <1>1, <1>4, <2>1, <2>2 DEF Typed
<1>7. StackBound'
  BY <1>3, <1>4 DEF StackBound, Typed
<1>8. \A i \in 1..Len(stack') :
          \/ stack'[i] = Choice(s) /\ i = Len(stack) + 1
          \/ i \in 1..Len(stack) /\ stack'[i] = stack[i]
  BY <1>0, <1>5, PushedChoices
<1>9. Aligned'
  <2>1. Choice(s).pos = Len(trie.pre[Choice(s).node])
    BY DEF Choice, Aligned
  <2>2. Choice(s).n = NumParams(trie.pre[Choice(s).node])
    BY DEF Choice, Aligned
  <2> QED
    BY <1>1, <1>4, <1>8, <2>1, <2>2 DEF Aligned
<1>10. Deepening'
  BY <1>3, <1>8 DEF Deepening, StackBound, Choice, Typed
<1> QED
  BY <1>6, <1>7, <1>9, <1>10

\* Every step of a walk keeps the invariant.
LEMMA WalkStep == WalkInv /\ [Next]_vars => WalkInv'
<1> SUFFICES ASSUME WalkInv, [Next]_vars PROVE WalkInv'
  OBVIOUS
<1> USE DEF WalkInv
<1>1. TrieOK(trie) /\ node \in Nodes(trie)
  BY WalksTrie DEF Typed
<1>2. /\ path \in Seq(Texts \cup {Empty})
      /\ Len(path) \in Nat
      /\ pos \in Nat
      /\ nv \in Nat
      /\ MaxParams \in Nat
  BY PathsAssumption, LimitsAssumption DEF Typed
<1>3. ASSUME NEW k \in Kinds \ {"literal"}, Here[k] # None
      PROVE  LET c == Here[k]
             IN  /\ c \in Nodes(trie)
                 /\ Len(trie.pre[c]) = Len(trie.pre[node]) + 1
                 /\ NumParams(trie.pre[c]) = NumParams(trie.pre[node]) + 1
  BY <1>1, <1>3, ParamChild DEF Here
<1>4. CASE Finish
  <2>1. trie' = trie
    BY <1>4 DEF Finish, Return, trie
  <2>2. result' \in [route : RouteValues, count : 0..MaxParams]
    BY <1>1, <1>4 DEF Finish, Return, Here, RouteValues, Typed
  <2> QED
    BY <1>4, <2>1, <2>2
    DEF Finish, Return, Typed, ChoiceSet, RouteValues, StackBound,
        Aligned, Deepening
<1>5. CASE Literal
  <2>1. LET c == Here.lit[Seg]
        IN  /\ c \in Nodes(trie)
            /\ Len(trie.pre[c]) = Len(trie.pre[node]) + 1
            /\ NumParams(trie.pre[c]) = NumParams(trie.pre[node])
    BY <1>1, <1>5, LiteralChild DEF Literal, ToLiteral, Here
  <2>2. ~AtEnd /\ Descend(Here.lit[Seg], OtherKinds, 1) /\ UNCHANGED <<nv, values>>
    BY <1>5 DEF Literal, ToLiteral
  <2>3. /\ nv' \in 0..MaxParams
        /\ nv' = NumParams(trie.pre[Here.lit[Seg]])
        /\ values' \in [1..MaxParams -> {Stale} \cup AnyView]
    BY <2>1, <2>2 DEF Typed, Aligned
  <2> QED
    BY <2>1, <2>2, <2>3, WalkDescends DEF Descend
<1>6. ASSUME NEW k \in Kinds \ {"literal"}, Here[k] # None,
             NEW s \in 1..4, TakesParam,
             node' = Here[k], pos' = pos + 1, stage' = 0,
             stack' = stack \/ stack' = Append(stack, Choice(s)),
             UNCHANGED <<root, path, pc, result>>,
             Capture(<<pos + 1, pos + 1>>)
      PROVE  WalkInv'
  <2>1. <<pos + 1, pos + 1>> \in AnyView
    BY <1>2, <1>6 DEF AnyView, TakesParam, AtEnd, Typed
  <2>2. values' \in [1..MaxParams -> {Stale} \cup AnyView]
    BY <1>6, <2>1 DEF Capture, Typed
  <2>3. nv' \in 0..MaxParams /\ nv' = NumParams(trie.pre[Here[k]])
    BY <1>2, <1>3, <1>6 DEF Capture, TakesParam, Aligned
  <2> QED
    BY <1>3, <1>6, <2>2, <2>3, WalkDescends DEF TakesParam
<1>7. CASE U64
  BY <1>6, <1>7 DEF U64, ToU64, OtherKinds, Kinds, Descend
<1>8. CASE I64
  BY <1>6, <1>8 DEF I64, ToI64, OtherKinds, Kinds, Descend
<1>9. CASE Param
  BY <1>6, <1>9 DEF Param, ToParam, Kinds, Descend
<1>10. CASE Rest
  <2>1. trie' = trie
    BY <1>10 DEF Rest, Return, trie
  <2>2. Here.rest \in Nodes(trie)
    BY <1>3, <1>10 DEF Rest, ToRest, Kinds
  <2>3. <<pos + 1, Len(path)>> \in AnyView
    BY <1>2, <1>10 DEF AnyView, Rest, ToRest, AtEnd, Typed
  <2>4. values' \in [1..MaxParams -> {Stale} \cup AnyView]
    BY <1>10, <2>3 DEF Rest, Typed
  <2>5. result' \in [route : RouteValues, count : 0..MaxParams]
    BY <1>2, <1>10, <2>2 DEF Rest, ToRest, Return, RouteValues, Typed
  <2> QED
    BY <1>10, <2>1, <2>4, <2>5
    DEF Rest, Return, Typed, ChoiceSet, RouteValues, StackBound,
        Aligned, Deepening
<1>11. CASE Backtrack
  <2>1. trie' = trie
    BY <1>11 DEF Backtrack, trie
  <2>2. /\ Len(stack) \in 1..Len(stack)
        /\ Top \in ChoiceSet
    BY <1>11 DEF Backtrack, Top, Typed
  <2>3. /\ stack' \in Seq(ChoiceSet)
        /\ Len(stack') = Len(stack) - 1
        /\ \A i \in 1..Len(stack') : i \in 1..Len(stack) /\ stack'[i] = stack[i]
    BY <1>11, <2>2, PoppedChoices DEF Backtrack, Below, Typed
  <2>4. Typed'
    BY <1>11, <2>1, <2>2, <2>3
    DEF Backtrack, Typed, ChoiceSet, RouteValues
  <2>5. Aligned'
    BY <1>11, <2>1, <2>2, <2>3 DEF Backtrack, Top, ChoiceSet, Aligned
  <2>6. StackBound'
    <3>1. Top.pos = Len(trie.pre[Top.node])
      BY <2>2 DEF Top, Aligned
    <3>2. Top.pos <= MaxSegments
      BY <1>1, <2>2, <3>1, PrefixType, LimitsAssumption DEF ChoiceSet
    <3>3. Len(stack) - 1 <= Top.pos
      BY <2>2 DEF Deepening, Top
    <3> QED
      BY <1>11, <2>3, <3>2, <3>3 DEF Backtrack, StackBound
  <2>7. Deepening'
    BY <2>3 DEF Deepening
  <2> QED
    BY <2>4, <2>5, <2>6, <2>7
<1>12. CASE Fail
  BY <1>2, <1>12 DEF Fail, Return, trie, Typed, ChoiceSet, RouteValues, StackBound, Aligned, Deepening
<1>13. CASE UNCHANGED vars
  BY <1>13 DEF vars, trie, Typed, ChoiceSet, RouteValues, StackBound, Aligned, Deepening
<1> QED
  BY <1>4, <1>5, <1>7, <1>8, <1>9, <1>10, <1>11, <1>12, <1>13 DEF Next

\* The invariant holds throughout every walk.
LEMMA WalkInvariant == Spec => []WalkInv
  BY InitBegins, WalkBegins, WalkStep, PTL DEF Spec

\* Every variable of the walk keeps its type: in particular no capture is
\* written past the kMaxParams of the array, whatever the path.
THEOREM WalkTypes == Spec => []TypeOK
<1>1. WalkInv /\ TypeOK /\ [Next]_vars => TypeOK'
  <2> SUFFICES ASSUME WalkInv, TypeOK, [Next]_vars PROVE TypeOK'
    OBVIOUS
  <2>1. Typed' /\ path' = path /\ Len(path) \in Nat /\ pos \in Nat
    <3>1. path' = path
      BY DEF Next, vars, Finish, Literal, U64, I64, Param, Rest, Backtrack, Fail,
             Return, Descend
    <3> QED
      BY <3>1, WalkStep, PathsAssumption DEF TypeOK, WalkInv
  <2>2. Views' = Views
    BY <2>1 DEF Views
  <2>3. pos < Len(path) => <<pos + 1, pos + 1>> \in Views /\ <<pos + 1, Len(path)>> \in Views
    BY <2>1 DEF Views
  <2>4. ~AtEnd => pos < Len(path)
    BY <2>1 DEF AtEnd, TypeOK
  <2>5. values' \in [1..MaxParams -> {Stale} \cup Views]
    <3>1. CASE UNCHANGED values
      BY <3>1 DEF TypeOK
    <3>2. CASE U64 \/ I64 \/ Param
      BY <2>3, <2>4, <3>2 DEF U64, I64, Param, ToU64, ToI64, ToParam, TakesParam,
                              Capture, TypeOK
    <3>3. CASE Rest
      BY <2>3, <2>4, <3>3 DEF Rest, ToRest, TypeOK
    <3> QED
      BY <3>1, <3>2, <3>3 DEF Next, vars, Finish, Literal, Backtrack, Fail
  <2> QED
    BY <2>1, <2>2, <2>5 DEF Typed, TypeOK
<1> QED
  BY <1>1, InitBegins, WalkInvariant, PTL DEF Spec

\* The stack of choices never outgrows the segments consumed, so the array of
\* kMaxSegments + 1 choices is never written past its end.
THEOREM WalkStackBound == Spec => []StackBound
  BY WalkInvariant, PTL DEF WalkInv

\* The node at hand and every pending choice are as deep as the segments
\* consumed to reach them and hold one capture for each parameter on the way.
THEOREM WalkAligned == Spec => []Aligned
  BY WalkInvariant, PTL DEF WalkInv

-----------------------------------------------------------------------------
(* Captures.                                                               *)

\* Every capture of a pattern has a parameter it is the capture of.
PlacesFilled(p) ==
    \A k \in 1..NumParams(p) : \E i \in ParamIndices(p) : ParamPlace(p, i) = k

\* A segment more leaves the places of the parameters before it as they are.
LEMMA PlacesKept ==
    ASSUME NEW p \in Seq(Segments), NEW s \in Segments, NEW i \in ParamIndices(p)
    PROVE  /\ i \in ParamIndices(Append(p, s))
           /\ ParamPlace(Append(p, s), i) = ParamPlace(p, i)
           /\ ParamPlace(p, i) \in 0..NumParams(p)
<1> DEFINE q == Append(p, s)
           before(r) == {j \in ParamIndices(r) : j <= i}
<1>1. i \in 1..Len(p) /\ Len(p) \in Nat /\ Len(p) + 1 \notin before(q)
  BY DEF ParamIndices
<1>2. /\ ParamIndices(p) \subseteq ParamIndices(q)
      /\ ParamIndices(q) \subseteq ParamIndices(p) \cup {Len(p) + 1}
  BY ParamsAppend
<1>3. before(q) = before(p)
  BY <1>1, <1>2
<1>4. /\ IsFiniteSet(ParamIndices(p))
      /\ before(p) \subseteq ParamIndices(p)
  BY ParamsFinite
<1>5. /\ Cardinality(before(p)) \in Nat
      /\ Cardinality(before(p)) <= NumParams(p)
      /\ NumParams(p) \in Nat
  BY <1>4, FS_Subset, FS_CardinalityType DEF NumParams
<1>6. \A r : ParamPlace(r, i) = Cardinality(before(r))
  BY DEF ParamPlace
<1> QED
  BY <1>2, <1>3, <1>5, <1>6

\* A segment more leaves the captures of the parameters before it as they are.
LEMMA CapturesBefore ==
    ASSUME NEW p \in Seq(Segments), NEW s \in Segments, PlacesFilled(p),
           NEW k \in 1..NumParams(p),
           s.kind # "literal" => ParamPlace(Append(p, s), Len(p) + 1) # k
    PROVE  /\ \E i \in ParamIndices(Append(p, s)) : ParamPlace(Append(p, s), i) = k
           /\ Captures(Append(p, s), path)[k] = Captures(p, path)[k]
<1> DEFINE q == Append(p, s)
           c == CHOOSE i \in ParamIndices(p) : ParamPlace(p, i) = k
           d == CHOOSE i \in ParamIndices(q) : ParamPlace(q, i) = k
<1>1. \A i : i \in ParamIndices(q) /\ ParamPlace(q, i) = k
              <=> i \in ParamIndices(p) /\ ParamPlace(p, i) = k
  BY ParamsAppend, PlacesKept
<1>2. c = d
  BY <1>1
<1>3. c \in ParamIndices(p) /\ ParamPlace(p, c) = k
  BY DEF PlacesFilled
<1>4. NumParams(p) \in Nat /\ NumParams(q) \in Nat /\ NumParams(p) <= NumParams(q)
  BY ParamsFinite, ParamsAppend
<1>5. k \in 1..NumParams(q)
  BY <1>4
<1>6. q[c] = p[c]
  BY <1>3 DEF ParamIndices
<1>7. CaptureAt(q, path, c) = CaptureAt(p, path, c)
  BY <1>6 DEF CaptureAt
<1>8. Captures(p, path)[k] = CaptureAt(p, path, c)
  BY DEF Captures
<1>9. Captures(q, path)[k] = CaptureAt(q, path, d)
  BY <1>5 DEF Captures
<1> HIDE DEF c, d, q
<1> QED
  BY <1>1, <1>2, <1>3, <1>7, <1>8, <1>9 DEF q

\* A parameter more adds its capture after all others.
LEMMA CapturesAdded ==
    ASSUME NEW p \in Seq(Segments), NEW s \in Segments, s.kind # "literal"
    PROVE  LET q == Append(p, s)
               n == NumParams(p)
           IN  /\ Len(p) + 1 \in ParamIndices(q)
               /\ ParamPlace(q, Len(p) + 1) = n + 1
               /\ Captures(q, path)[n + 1] = CaptureAt(q, path, Len(p) + 1)
               /\ s.kind # "rest" =>
                      Captures(q, path)[n + 1] = <<Len(p) + 1, Len(p) + 1>>
<1> DEFINE q == Append(p, s)
           n == NumParams(p)
           l == Len(p) + 1
<1>1. /\ ParamIndices(q) = ParamIndices(p) \cup {l}
      /\ NumParams(q) = n + 1
      /\ n \in Nat
  BY ParamsAppend, ParamsFinite
<1>2. {j \in ParamIndices(q) : j <= l} = ParamIndices(q)
  BY DEF ParamIndices
<1>3. ParamPlace(q, l) = n + 1
  BY <1>1, <1>2 DEF ParamPlace, NumParams
<1>4. \A i \in ParamIndices(q) : ParamPlace(q, i) = n + 1 <=> i = l
  BY <1>1, <1>3, PlacesKept
<1>5. (CHOOSE i \in ParamIndices(q) : ParamPlace(q, i) = n + 1) = l
  BY <1>1, <1>4
<1>6. Captures(q, path)[n + 1] = CaptureAt(q, path, l)
  <2>1. n + 1 \in 1..NumParams(q)
    BY <1>1
  <2>2. \A k \in 1..NumParams(q) :
            Captures(q, path)[k] =
                CaptureAt(q, path, CHOOSE i \in ParamIndices(q) : ParamPlace(q, i) = k)
    BY DEF Captures
  <2> HIDE DEF n, l, q
  <2>3. Captures(q, path)[n + 1] =
            CaptureAt(q, path, CHOOSE i \in ParamIndices(q) : ParamPlace(q, i) = n + 1)
    BY <2>1, <2>2
  <2> QED
    BY <1>5, <2>3
<1>7. q[l] = s
  OBVIOUS
<1> QED
  BY <1>1, <1>3, <1>6, <1>7 DEF CaptureAt

-----------------------------------------------------------------------------
(* The captures invariant.                                                 *)

\* The captures vs hold those prefix p takes from a path w.
Holds(p, vs, w) ==
    /\ PlacesFilled(p)
    /\ \A k \in 1..NumParams(p) : vs[k] = Captures(p, w)[k]

\* A choice keeps no more captures than what comes after it.
CountsNest ==
    /\ \A i \in 1..Len(stack) : stack[i].n <= nv
    /\ \A i, j \in 1..Len(stack) : i < j => stack[i].n <= stack[j].n

Held ==
    /\ Holds(trie.pre[node], values, path)
    /\ \A i \in 1..Len(stack) : Holds(trie.pre[stack[i].node], values, path)

CapturesInv == WalkInv /\ ChoicesOnPath /\ CountsNest /\ Held

\* A step that writes no capture below nv loses none of a prefix that has at
\* most nv parameters.
LEMMA HoldsKept ==
    ASSUME NEW p \in Seq(Segments), NEW vs, NEW us, NEW w, NEW n \in Nat,
           NumParams(p) <= n, \A k \in 1..n : us[k] = vs[k], Holds(p, vs, w)
    PROVE  Holds(p, us, w)
<1>1. NumParams(p) \in Nat
  BY ParamsFinite
<1>2. \A k \in 1..NumParams(p) : k \in 1..n
  BY <1>1
<1> QED
  BY <1>2 DEF Holds

\* Initially nothing is captured and nothing pending.
LEMMA CapturesBegin == Begun => CapturesInv
<1> SUFFICES ASSUME Begun PROVE CapturesInv
  OBVIOUS
<1>1. WalkInv /\ stack = << >> /\ trie.pre[node] = << >>
  BY WalkBegins, TriesAssumption DEF Begun, TrieOK, trie
<1>2. NumParams(<< >>) = 0
  <2>1. ParamIndices(<< >>) = {}
    BY DEF ParamIndices
  <2> QED
    BY <2>1, FS_EmptySet DEF NumParams
<1> QED
  BY <1>1, <1>2 DEF CapturesInv, ChoicesOnPath, CountsNest, Held, Holds, PlacesFilled

\* Going down to a child keeps what the choices hold and extends what the node
\* at hand holds by at most one capture.
LEMMA CapturesDescend ==
    ASSUME CapturesInv, NEW child \in Nodes(trie), NEW s \in Segments, NEW st \in 1..4,
           node' = child, pos' = pos + 1,
           stack' = stack \/ stack' = Append(stack, Choice(st)),
           root' = root, path' = path,
           trie.pre[child] = Append(trie.pre[node], s), s.kind # "rest",
           s.kind = "literal" => nv' = nv,
           s.kind # "literal" =>
               nv' = nv + 1 /\ values'[nv + 1] = <<pos + 1, pos + 1>>,
           \A k \in 1..nv : values'[k] = values[k]
    PROVE  ChoicesOnPath' /\ CountsNest' /\ Held'
<1> DEFINE p == trie.pre[node]
           q == trie.pre[child]
<1>1. trie' = trie
  BY DEF trie
<1>2. TrieOK(trie)
  BY WalksTrie DEF CapturesInv, WalkInv
<1>3. /\ p \in Seq(Segments)
      /\ pos = Len(p) /\ pos \in Nat
      /\ nv = NumParams(p) /\ nv \in Nat
      /\ Len(q) = pos + 1
      /\ \A k \in 1..pos : q[k] = p[k]
  BY <1>2, PrefixType, ParamsFinite DEF CapturesInv, WalkInv, Typed, Aligned
<1>4. stack \in Seq(ChoiceSet) /\ Choice(st) \in ChoiceSet
  BY DEF CapturesInv, WalkInv, Typed, Choice, ChoiceSet
<1>5. \A i \in 1..Len(stack') :
          \/ stack'[i] = Choice(st) /\ i = Len(stack) + 1
          \/ i \in 1..Len(stack) /\ stack'[i] = stack[i]
  BY <1>4, PushedChoices
<1>6. \A i \in 1..Len(stack) :
          /\ stack[i] \in ChoiceSet
          /\ stack[i].n \in Nat /\ stack[i].pos \in Nat
          /\ stack[i].n = NumParams(trie.pre[stack[i].node])
          /\ trie.pre[stack[i].node] \in Seq(Segments)
          /\ stack[i].n <= nv
          /\ stack[i].pos < pos
  <2> SUFFICES ASSUME NEW i \in 1..Len(stack)
               PROVE  /\ stack[i] \in ChoiceSet
                      /\ stack[i].n \in Nat /\ stack[i].pos \in Nat
                      /\ stack[i].n = NumParams(trie.pre[stack[i].node])
                      /\ trie.pre[stack[i].node] \in Seq(Segments)
                      /\ stack[i].n <= nv
                      /\ stack[i].pos < pos
    OBVIOUS
  <2>1. stack[i] \in ChoiceSet
    BY <1>4
  <2>2. stack[i].node \in Nodes(trie) /\ stack[i].n \in Nat /\ stack[i].pos \in Nat
    BY <2>1 DEF ChoiceSet
  <2> QED
    BY <1>2, <2>1, <2>2, PrefixType
    DEF CapturesInv, WalkInv, Aligned, CountsNest, ChoicesOnPath
<1>7. Choice(st).node = node /\ Choice(st).pos = pos /\ Choice(st).n = nv
  BY DEF Choice
<1>8. ChoicesOnPath'
  <2>1. \A i \in 1..Len(stack') :
            /\ stack'[i].pos < pos'
            /\ \A k \in 1..stack'[i].pos : trie'.pre[stack'[i].node][k] = q[k]
    <3> SUFFICES ASSUME NEW i \in 1..Len(stack')
                 PROVE  /\ stack'[i].pos < pos'
                        /\ \A k \in 1..stack'[i].pos :
                               trie'.pre[stack'[i].node][k] = q[k]
      OBVIOUS
    <3>1. CASE stack'[i] = Choice(st)
      BY <1>1, <1>3, <1>7, <3>1
    <3>2. CASE i \in 1..Len(stack) /\ stack'[i] = stack[i]
      <4>1. \A k \in 1..stack[i].pos : k \in 1..pos /\ trie.pre[stack[i].node][k] = p[k]
        BY <1>3, <1>6, <3>2 DEF CapturesInv, ChoicesOnPath
      <4> QED
        BY <1>1, <1>3, <1>6, <3>2, <4>1
    <3> QED
      BY <1>5, <3>1, <3>2
  <2>2. \A i, j \in 1..Len(stack') : i < j => stack'[i].pos < stack'[j].pos
    <3> SUFFICES ASSUME NEW i \in 1..Len(stack'), NEW j \in 1..Len(stack'), i < j
                 PROVE  stack'[i].pos < stack'[j].pos
      OBVIOUS
    <3>1. i \in 1..Len(stack) /\ stack'[i] = stack[i]
      BY <1>4, <1>5
    <3> QED
      BY <1>5, <1>6, <1>7, <3>1 DEF CapturesInv, ChoicesOnPath
  <2> QED
    BY <1>1, <2>1, <2>2 DEF ChoicesOnPath
<1>9. CountsNest'
  <2>1. nv <= nv' /\ nv' \in Nat
    BY <1>3
  <2>2. \A i \in 1..Len(stack') : stack'[i].n <= nv'
    BY <1>3, <1>5, <1>6, <1>7, <2>1
  <2>3. \A i, j \in 1..Len(stack') : i < j => stack'[i].n <= stack'[j].n
    <3> SUFFICES ASSUME NEW i \in 1..Len(stack'), NEW j \in 1..Len(stack'), i < j
                 PROVE  stack'[i].n <= stack'[j].n
      OBVIOUS
    <3>1. i \in 1..Len(stack) /\ stack'[i] = stack[i]
      BY <1>4, <1>5
    <3> QED
      BY <1>5, <1>6, <1>7, <3>1 DEF CapturesInv, CountsNest
  <2> QED
    BY <2>2, <2>3 DEF CountsNest
<1>10. Holds(p, values', path)
  BY <1>3, HoldsKept DEF CapturesInv, Held
<1>11. \A i \in 1..Len(stack) : Holds(trie.pre[stack[i].node], values', path)
  BY <1>3, <1>6, HoldsKept DEF CapturesInv, Held
<1>12. Holds(q, values', path)
  <2>1. \A k \in 1..nv :
            /\ \E i \in ParamIndices(q) : ParamPlace(q, i) = k
            /\ values'[k] = Captures(q, path)[k]
    <3> SUFFICES ASSUME NEW k \in 1..nv
                 PROVE  /\ \E i \in ParamIndices(q) : ParamPlace(q, i) = k
                        /\ values'[k] = Captures(q, path)[k]
      OBVIOUS
    <3>1. s.kind # "literal" => ParamPlace(q, Len(p) + 1) # k
      BY <1>3, CapturesAdded
    <3>2. PlacesFilled(p) /\ values[k] = Captures(p, path)[k]
      BY <1>3 DEF CapturesInv, Held, Holds
    <3>3. /\ \E i \in ParamIndices(q) : ParamPlace(q, i) = k
          /\ Captures(q, path)[k] = Captures(p, path)[k]
      BY <1>3, <3>1, <3>2, CapturesBefore
    <3> QED
      BY <3>2, <3>3
  <2>2. CASE s.kind = "literal"
    <3>1. NumParams(q) = nv
      BY <1>3, <2>2, ParamsAppend
    <3> QED
      BY <2>1, <3>1 DEF Holds, PlacesFilled
  <2>3. CASE s.kind # "literal"
    <3>1. NumParams(q) = nv + 1
      BY <1>3, <2>3, ParamsAppend
    <3>2. \E i \in ParamIndices(q) : ParamPlace(q, i) = nv + 1
      BY <1>3, <2>3, CapturesAdded
    <3>3. values'[nv + 1] = Captures(q, path)[nv + 1]
      BY <1>3, <2>3, CapturesAdded
    <3>4. \A k \in 1..NumParams(q) : k \in 1..nv \/ k = nv + 1
      BY <1>3, <3>1
    <3> QED
      BY <2>1, <3>2, <3>3, <3>4 DEF Holds, PlacesFilled
  <2> QED
    BY <2>2, <2>3
<1>13. Held'
  <2>1. \A i \in 1..Len(stack') : Holds(trie.pre[stack'[i].node], values', path)
    BY <1>5, <1>7, <1>10, <1>11
  <2> QED
    BY <1>1, <1>12, <2>1 DEF Held
<1> QED
  BY <1>8, <1>9, <1>13

\* Every step keeps the captures invariant.
LEMMA CapturesStep == CapturesInv /\ [Next]_vars => CapturesInv'
<1> SUFFICES ASSUME CapturesInv, [Next]_vars PROVE CapturesInv'
  OBVIOUS
<1>0. WalkInv'
  BY WalkStep DEF CapturesInv
<1>1. /\ Typed
      /\ TrieOK(trie)
      /\ node \in Nodes(trie)
      /\ nv \in Nat /\ MaxParams \in Nat
  BY WalksTrie, LimitsAssumption DEF CapturesInv, WalkInv, Typed
<1>2. ASSUME UNCHANGED <<root, path, node, pos, stack, nv>>,
             \A k \in 1..nv : values'[k] = values[k]
      PROVE  CapturesInv'
  <2>1. trie' = trie
    BY <1>2 DEF trie
  <2>2. Holds(trie.pre[node], values', path)
    <3>1. trie.pre[node] \in Seq(Segments) /\ NumParams(trie.pre[node]) = nv
      BY <1>1, PrefixType DEF CapturesInv, WalkInv, Aligned
    <3> QED
      BY <1>1, <1>2, <3>1, HoldsKept DEF CapturesInv, Held
  <2>3. ASSUME NEW i \in 1..Len(stack)
        PROVE  Holds(trie.pre[stack[i].node], values', path)
    <3>1. stack[i] \in ChoiceSet
      BY <1>1 DEF Typed
    <3>2. /\ trie.pre[stack[i].node] \in Seq(Segments)
          /\ NumParams(trie.pre[stack[i].node]) <= nv
      BY <1>1, <3>1, PrefixType
      DEF ChoiceSet, CapturesInv, WalkInv, Aligned, CountsNest
    <3> QED
      BY <1>1, <1>2, <3>2, HoldsKept DEF CapturesInv, Held
  <2>4. Held'
    BY <1>2, <2>1, <2>2, <2>3 DEF Held
  <2> QED
    BY <1>0, <1>2, <2>1, <2>4 DEF CapturesInv, ChoicesOnPath, CountsNest
<1>3. ASSUME NEW k \in {"u64", "i64", "param"}, Here[k] # None, NEW st \in 1..4,
             node' = Here[k], pos' = pos + 1,
             stack' = stack \/ stack' = Append(stack, Choice(st)),
             root' = root, path' = path,
             TakesParam, Capture(<<pos + 1, pos + 1>>)
      PROVE  CapturesInv'
  <2>1. k \in Kinds \ {"literal"}
    BY DEF Kinds
  <2> DEFINE s == [kind |-> k, text |-> Empty]
  <2>2. /\ Here[k] \in Nodes(trie)
        /\ s \in Segments /\ s.kind = k
        /\ trie.pre[Here[k]] = Append(trie.pre[node], s)
    BY <1>1, <1>3, <2>1, ParamChild DEF Here
  <2>3. /\ nv' = nv + 1
        /\ values'[nv + 1] = <<pos + 1, pos + 1>>
        /\ \A j \in 1..nv : values'[j] = values[j]
    BY <1>1, <1>3 DEF Capture, TakesParam, Typed
  <2> HIDE DEF s
  <2>4. ChoicesOnPath' /\ CountsNest' /\ Held'
    BY <1>3, <2>2, <2>3, CapturesDescend
  <2> QED
    BY <1>0, <2>4 DEF CapturesInv
<1>4. CASE Finish
  BY <1>2, <1>4 DEF Finish, Return
<1>5. CASE Literal
  <2>1. /\ Here.lit[Seg] \in Nodes(trie)
        /\ trie.pre[Here.lit[Seg]] = Append(trie.pre[node], Lit(Seg))
        /\ Seg \in Texts \cup {Empty}
    BY <1>1, <1>5, LiteralChild DEF Literal, ToLiteral, Here, TrieOK, NodeOK
  <2>2. Lit(Seg) \in Segments /\ Lit(Seg).kind = "literal"
    BY <2>1 DEF Lit, Segments, Kinds
  <2>3. /\ node' = Here.lit[Seg] /\ pos' = pos + 1
        /\ stack' = stack \/ stack' = Append(stack, Choice(1))
        /\ root' = root /\ path' = path
        /\ nv' = nv /\ values' = values
    BY <1>5 DEF Literal, Descend
  <2>4. ChoicesOnPath' /\ CountsNest' /\ Held'
    BY <2>1, <2>2, <2>3, CapturesDescend
  <2> QED
    BY <1>0, <2>4 DEF CapturesInv
<1>6. CASE U64
  BY <1>3, <1>6 DEF U64, ToU64, Descend
<1>7. CASE I64
  BY <1>3, <1>7 DEF I64, ToI64, Descend
<1>8. CASE Param
  BY <1>3, <1>8 DEF Param, ToParam, Descend
<1>9. CASE Rest
  <2>1. \A k \in 1..nv : values'[k] = values[k]
    BY <1>1, <1>9 DEF Rest, Typed
  <2> QED
    BY <1>2, <1>9, <2>1 DEF Rest, Return
<1>10. CASE Backtrack
  <2>1. trie' = trie /\ path' = path /\ values' = values
    BY <1>10 DEF Backtrack, trie
  <2>2. /\ stack \in Seq(ChoiceSet)
        /\ Len(stack) \in 1..Len(stack)
    BY <1>10 DEF Backtrack, CapturesInv, WalkInv, Typed
  <2>3. /\ Len(stack') = Len(stack) - 1
        /\ \A i \in 1..Len(stack') :
               i \in 1..Len(stack) /\ i < Len(stack) /\ stack'[i] = stack[i]
    BY <1>10, <2>2, PoppedChoices DEF Backtrack, Below
  <2>4. node' = Top.node /\ pos' = Top.pos /\ nv' = Top.n /\ Top = stack[Len(stack)]
    BY <1>10 DEF Backtrack, Top
  <2>5. ChoicesOnPath'
    <3>1. \A i \in 1..Len(stack') : stack'[i].pos < pos'
      BY <2>2, <2>3, <2>4 DEF CapturesInv, ChoicesOnPath
    <3>2. \A i \in 1..Len(stack') : \A k \in 1..stack'[i].pos :
              trie.pre[stack'[i].node][k] = trie.pre[Top.node][k]
      <4> SUFFICES ASSUME NEW i \in 1..Len(stack'), NEW k \in 1..stack'[i].pos
                   PROVE  trie.pre[stack'[i].node][k] = trie.pre[Top.node][k]
        OBVIOUS
      <4>0. stack[i] \in ChoiceSet /\ Top \in ChoiceSet
        BY <2>2, <2>3, <2>4
      <4>1. stack[i].pos \in Nat /\ Top.pos \in Nat
        BY <4>0 DEF ChoiceSet
      <4>2. stack[i].pos < Top.pos
        BY <2>2, <2>3, <2>4 DEF CapturesInv, ChoicesOnPath
      <4>3. k \in 1..stack[i].pos /\ k \in 1..Top.pos
        BY <2>3, <4>1, <4>2
      <4>4. trie.pre[stack[i].node][k] = trie.pre[node][k]
        BY <2>3, <4>3 DEF CapturesInv, ChoicesOnPath
      <4>5. trie.pre[Top.node][k] = trie.pre[node][k]
        BY <2>2, <2>4, <4>3 DEF CapturesInv, ChoicesOnPath
      <4> QED
        BY <2>3, <4>4, <4>5
    <3>3. \A i, j \in 1..Len(stack') : i < j => stack'[i].pos < stack'[j].pos
      BY <2>3 DEF CapturesInv, ChoicesOnPath
    <3> QED
      BY <2>1, <2>4, <3>1, <3>2, <3>3 DEF ChoicesOnPath
  <2>6. CountsNest'
    BY <2>2, <2>3, <2>4 DEF CapturesInv, CountsNest
  <2>7. Held'
    <3>1. \A i \in 1..Len(stack) : Holds(trie.pre[stack[i].node], values, path)
      BY DEF CapturesInv, Held
    <3> QED
      BY <2>1, <2>2, <2>3, <2>4, <3>1 DEF Held
  <2> QED
    BY <1>0, <2>5, <2>6, <2>7 DEF CapturesInv
<1>11. CASE Fail
  BY <1>2, <1>11 DEF Fail, Return
<1>12. CASE UNCHANGED vars
  BY <1>2, <1>12 DEF vars
<1> QED
  BY <1>4, <1>5, <1>6, <1>7, <1>8, <1>9, <1>10, <1>11, <1>12 DEF Next

\* What is held is what the properties of the walk call the captures.
LEMMA HeldIsKept ==
    ASSUME Typed, NEW p \in Seq(Segments), NumParams(p) \in 0..MaxParams,
           Holds(p, values, path)
    PROVE  Captured1to(NumParams(p)) = Captures(p, path)
<1> DEFINE n == NumParams(p)
           T == {Stale} \cup AnyView
<1>1. n \in Nat /\ MaxParams \in Nat /\ n <= MaxParams
  BY LimitsAssumption
<1>2. values \in [1..MaxParams -> T]
  BY DEF Typed
<1>3. Captured1to(n) = [k \in 1..n |-> values[k]]
  BY <1>1, <1>2 DEF Captured1to
<1>4. Captures(p, path) = [k \in 1..n |-> Captures(p, path)[k]]
  BY DEF Captures
<1>5. \A k \in 1..n : values[k] = Captures(p, path)[k]
  BY DEF Holds
<1> QED
  BY <1>3, <1>4, <1>5

\* Every pending choice lies on the way from the root to the node at hand, in
\* the order it was left.
THEOREM WalkChoicesOnPath == Spec => []ChoicesOnPath
  BY InitBegins, CapturesBegin, CapturesStep, PTL DEF Spec, CapturesInv

\* Whatever branches the walk tries and gives up, the captures below those of
\* every pending choice, and of the node at hand, are the ones its prefix
\* takes from this path.
THEOREM WalkCapturesKept == Spec => []CapturesKept
<1>1. CapturesInv => CapturesKept
  <2> SUFFICES ASSUME CapturesInv PROVE CapturesKept
    OBVIOUS
  <2>1. Typed /\ TrieOK(trie) /\ node \in Nodes(trie) /\ stack \in Seq(ChoiceSet)
    BY WalksTrie DEF CapturesInv, WalkInv, Typed
  <2>2. Captured1to(nv) = Captures(trie.pre[node], path)
    BY <2>1, PrefixType, HeldIsKept DEF CapturesInv, WalkInv, Aligned, Held
  <2>3. ASSUME NEW i \in 1..Len(stack)
        PROVE  Captured1to(stack[i].n) = Captures(trie.pre[stack[i].node], path)
    <3>0. stack[i] \in ChoiceSet
      BY <2>1, <2>3
    <3>1. stack[i].node \in Nodes(trie)
      BY <3>0 DEF ChoiceSet
    <3> QED
      BY <2>1, <3>1, PrefixType, HeldIsKept DEF CapturesInv, WalkInv, Aligned, Held
  <2> QED
    BY <2>2, <2>3 DEF CapturesKept
<1> QED
  BY <1>1, InitBegins, CapturesBegin, CapturesStep, PTL DEF Spec

-----------------------------------------------------------------------------
(* Prefixes.                                                               *)

\* The first segments of a pattern.
LEMMA PrefixIs ==
    ASSUME NEW p \in Seq(Segments), NEW n \in 0..Len(p)
    PROVE  /\ SubSeq(p, 1, n) \in Seq(Segments)
           /\ Len(SubSeq(p, 1, n)) = n
           /\ \A i \in 1..n : SubSeq(p, 1, n)[i] = p[i]
<1>1. n \in Nat /\ n <= Len(p) /\ Len(p) \in Nat
  OBVIOUS
<1>2. \A i \in 1..n : p[i] \in Segments
  BY <1>1
<1>3. /\ SubSeq(p, 1, n) \in Seq(Segments)
      /\ Len(SubSeq(p, 1, n)) = IF 1 <= n THEN n - 1 + 1 ELSE 0
      /\ \A i \in 1..(n - 1 + 1) : SubSeq(p, 1, n)[i] = p[1 + i - 1]
  BY <1>1, <1>2, SubSeqProperties
<1> QED
  BY <1>1, <1>3

\* A pattern one segment longer than another that it begins with.
LEMMA PrefixGrows ==
    ASSUME NEW p \in Seq(Segments), NEW q \in Seq(Segments), NEW s \in Segments,
           NEW k \in 0..Len(p)
    PROVE  /\ Append(q, s) = SubSeq(p, 1, k) =>
                  /\ k > 0 /\ k - 1 \in 0..Len(p) /\ k \in 1..Len(p)
                  /\ q = SubSeq(p, 1, k - 1)
                  /\ s = p[k]
           /\ k < Len(p) /\ q = SubSeq(p, 1, k) /\ s = p[k + 1] =>
                  Append(q, s) = SubSeq(p, 1, k + 1)
<1>1. k \in Nat /\ Len(p) \in Nat /\ Len(q) \in Nat
  OBVIOUS
<1>2. /\ Append(q, s) \in Seq(Segments)
      /\ Len(Append(q, s)) = Len(q) + 1
      /\ \A i \in 1..Len(q) : Append(q, s)[i] = q[i]
      /\ Append(q, s)[Len(q) + 1] = s
  BY AppendProperties
<1>3. ASSUME Append(q, s) = SubSeq(p, 1, k)
      PROVE  /\ k > 0 /\ k - 1 \in 0..Len(p) /\ k \in 1..Len(p)
             /\ q = SubSeq(p, 1, k - 1)
             /\ s = p[k]
  <2>1. /\ Len(q) + 1 = k
        /\ \A i \in 1..k : Append(q, s)[i] = p[i]
    BY <1>2, <1>3, PrefixIs
  <2>2. k > 0 /\ k - 1 \in 0..Len(p) /\ k \in 1..Len(p) /\ k - 1 = Len(q)
    BY <1>1, <2>1
  <2>3. /\ SubSeq(p, 1, k - 1) \in Seq(Segments)
        /\ Len(SubSeq(p, 1, k - 1)) = Len(q)
        /\ \A i \in 1..Len(q) : SubSeq(p, 1, k - 1)[i] = p[i]
    BY <2>2, PrefixIs
  <2>4. \A i \in 1..Len(q) : q[i] = p[i]
    BY <1>1, <1>2, <2>1
  <2>5. q = SubSeq(p, 1, k - 1)
    BY <2>3, <2>4, SeqEqual
  <2> QED
    BY <1>2, <2>1, <2>2, <2>5
<1>4. ASSUME k < Len(p), q = SubSeq(p, 1, k), s = p[k + 1]
      PROVE  Append(q, s) = SubSeq(p, 1, k + 1)
  <2>1. Len(q) = k /\ \A i \in 1..k : q[i] = p[i]
    BY <1>4, PrefixIs
  <2>2. k + 1 \in 0..Len(p)
    BY <1>1, <1>4
  <2>3. /\ SubSeq(p, 1, k + 1) \in Seq(Segments)
        /\ Len(SubSeq(p, 1, k + 1)) = k + 1
        /\ \A i \in 1..(k + 1) : SubSeq(p, 1, k + 1)[i] = p[i]
    BY <2>2, PrefixIs
  <2>4. \A i \in 1..(k + 1) : i \in 1..k \/ i = k + 1
    BY <1>1
  <2>5. \A i \in 1..(k + 1) : Append(q, s)[i] = SubSeq(p, 1, k + 1)[i]
    BY <1>2, <1>4, <2>1, <2>3, <2>4
  <2> QED
    BY <1>2, <2>1, <2>3, <2>5, SeqEqual
<1> QED
  BY <1>3, <1>4

\* The parameters of a pattern take the places 1, 2, and so on, each one.
LEMMA AllPlacesFilled ==
    ASSUME NEW p \in Seq(Segments)
    PROVE  PlacesFilled(p)
<1> DEFINE T == {n \in 0..Len(p) : ~PlacesFilled(SubSeq(p, 1, n))}
<1>1. Len(p) \in Nat /\ SubSeq(p, 1, Len(p)) = p
  BY SubSeqFull
<1>2. SUFFICES ASSUME T # {} PROVE FALSE
  <2>1. Len(p) \in 0..Len(p)
    BY <1>1
  <2> QED
    BY <1>1, <2>1
<1>3. PICK n \in T : \A y \in T : n <= y
  <2>1. T \in SUBSET Nat
    BY <1>1
  <2> HIDE DEF T
  <2> QED
    BY <1>2, <2>1, LeastNumber
<1>4. n # 0
  <2>1. SubSeq(p, 1, 0) = << >>
    BY SubSeqEmpty
  <2>2. NumParams(<< >>) = 0
    BY FS_EmptySet DEF ParamIndices, NumParams
  <2>3. PlacesFilled(<< >>)
    BY <2>2 DEF PlacesFilled
  <2> QED
    BY <2>1, <2>3
<1> DEFINE q == SubSeq(p, 1, n - 1)
           s == p[n]
           r == SubSeq(p, 1, n)
<1>5. n \in 1..Len(p) /\ n - 1 \in 0..Len(p) /\ n - 1 < n /\ s \in Segments
  BY <1>1, <1>4
<1>6. q \in Seq(Segments) /\ r = Append(q, s)
  BY <1>1, <1>5, PrefixIs, PrefixGrows
<1>7. PlacesFilled(q) /\ ~PlacesFilled(r)
  <2>1. n - 1 \notin T
    BY <1>1, <1>3, <1>5
  <2> QED
    BY <1>5, <2>1
<1> HIDE DEF q, s, r, T
<1>8. /\ NumParams(q) \in Nat
      /\ s.kind = "literal" => NumParams(r) = NumParams(q)
      /\ s.kind # "literal" => NumParams(r) = NumParams(q) + 1
  BY <1>5, <1>6, ParamsFinite, ParamsAppend
<1>9. s.kind # "literal" =>
          /\ Len(q) + 1 \in ParamIndices(r)
          /\ ParamPlace(r, Len(q) + 1) = NumParams(q) + 1
  BY <1>5, <1>6, CapturesAdded
<1>10. ASSUME NEW k \in 1..NumParams(r)
       PROVE  \E i \in ParamIndices(r) : ParamPlace(r, i) = k
  <2>1. CASE k \in 1..NumParams(q)
    <3>1. s.kind # "literal" => ParamPlace(r, Len(q) + 1) # k
      BY <1>8, <1>9, <2>1
    <3> QED
      BY <1>5, <1>6, <1>7, <2>1, <3>1, CapturesBefore
  <2>2. CASE k \notin 1..NumParams(q)
    BY <1>8, <1>9, <2>2
  <2> QED
    BY <2>1, <2>2
<1> QED
  BY <1>7, <1>10 DEF PlacesFilled

-----------------------------------------------------------------------------
(* Tries.                                                                  *)

\* Whether a node has a child of a kind.
HasKind(n, k) == IF k = "literal" THEN DOMAIN n.lit # {} ELSE n[k] # None

\* The child c of node up spells the segment s more than its parent.
Spells(t, up, s, c) ==
    /\ s \in Segments
    /\ s = Key(s)
    /\ IF s.kind = "literal"
       THEN s.text \in DOMAIN t.node[up].lit /\ t.node[up].lit[s.text] = c
       ELSE t.node[up][s.kind] = c
    /\ t.pre[c] = Append(t.pre[up], s)

\* Every child spells one segment more than its parent.
LEMMA ChildSpells ==
    ASSUME NEW t, TrieOK(t), NEW up \in Nodes(t), NEW c \in Nodes(t),
           c \in Children(t.node[up])
    PROVE  \E s : Spells(t, up, s, c)
<1>1. NodeOK(t, up) /\ c # None
  BY DEF TrieOK
<1>2. CASE \E x \in DOMAIN t.node[up].lit : c = t.node[up].lit[x]
  <2>1. PICK x \in DOMAIN t.node[up].lit : c = t.node[up].lit[x]
    BY <1>2
  <2>2. x \in Texts \cup {Empty} /\ t.pre[c] = Append(t.pre[up], Lit(x))
    BY <1>1, <2>1 DEF NodeOK
  <2>3. Lit(x) \in Segments /\ Lit(x) = Key(Lit(x)) /\ Lit(x).kind = "literal" /\ Lit(x).text = x
    BY <2>2 DEF Lit, Segments, Kinds, Key
  <2> QED
    BY <2>1, <2>2, <2>3 DEF Spells
<1>3. CASE \E k \in Kinds \ {"literal"} : c = t.node[up][k]
  <2>1. PICK k \in Kinds \ {"literal"} : c = t.node[up][k]
    BY <1>3
  <2> DEFINE s == [kind |-> k, text |-> Empty]
  <2>2. s \in Segments /\ t.pre[c] = Append(t.pre[up], s)
    BY <1>1, <2>1, ParamChild
  <2>3. s = Key(s) /\ s.kind = k /\ k # "literal"
    BY DEF Key
  <2> QED
    BY <2>1, <2>2, <2>3 DEF Spells
<1> QED
  BY <1>2, <1>3 DEF Children

\* Every node but the root has a parent.
LEMMA HasParent ==
    ASSUME NEW t, TrieOK(t), NEW c \in Nodes(t), t.pre[c] # << >>
    PROVE  \E up, s : up \in Nodes(t) /\ Spells(t, up, s, c)
<1>1. c # t.root /\ NoneLost(t)
  BY DEF TrieOK
<1>2. PICK up \in Nodes(t) : c \in Children(t.node[up])
  BY <1>1 DEF NoneLost
<1> QED
  BY <1>2, ChildSpells

\* On the way to a node, a node is built for every prefix.
LEMMA PrefixesBuilt ==
    ASSUME NEW t, TrieOK(t), NEW e \in Nodes(t), NEW n \in 0..Len(t.pre[e])
    PROVE  \E x \in Nodes(t) : t.pre[x] = SubSeq(t.pre[e], 1, n)
<1> DEFINE p == t.pre[e]
           T == {k \in 0..Len(p) : n <= k /\ \E x \in Nodes(t) : t.pre[x] = SubSeq(p, 1, k)}
<1>1. p \in Seq(Segments) /\ Len(p) \in Nat
  BY PrefixType
<1>2. Len(p) \in T
  <2>1. SubSeq(p, 1, Len(p)) = p
    BY <1>1, SubSeqFull
  <2> QED
    BY <1>1, <2>1
<1>3. T \in SUBSET Nat /\ T # {}
  BY <1>1, <1>2
<1>4. PICK k \in T : \A y \in T : k <= y
  BY <1>3, LeastNumber
<1>5. PICK x \in Nodes(t) : t.pre[x] = SubSeq(p, 1, k)
  BY <1>4
<1>6. k \in 0..Len(p) /\ n <= k
  BY <1>4
<1>7. ASSUME n # k PROVE FALSE
  <2>1. k > 0 /\ k \in Nat /\ n \in Nat
    BY <1>1, <1>6, <1>7
  <2>2. t.pre[x] # << >>
    <3>1. Len(t.pre[x]) = k
      BY <1>1, <1>5, <1>6, PrefixIs
    <3> QED
      BY <2>1, <3>1
  <2>3. PICK up, s : up \in Nodes(t) /\ Spells(t, up, s, x)
    BY <2>2, HasParent
  <2>4. t.pre[up] \in Seq(Segments) /\ s \in Segments /\ Append(t.pre[up], s) = SubSeq(p, 1, k)
    BY <1>5, <2>3, PrefixType DEF Spells
  <2>5. t.pre[up] = SubSeq(p, 1, k - 1) /\ k - 1 \in 0..Len(p)
    BY <1>1, <1>6, <2>4, PrefixGrows
  <2>6. n <= k - 1
    BY <1>6, <1>7, <2>1
  <2>7. k - 1 \in T
    BY <2>3, <2>5, <2>6
  <2> QED
    BY <1>4, <2>1, <2>7
<1> QED
  BY <1>5, <1>7
\* A node on the way to another has the child that the next segment names.
LEMMA Onward ==
    ASSUME NEW t, TrieOK(t), NEW id \in Nodes(t), NEW e \in Nodes(t),
           Len(t.pre[id]) < Len(t.pre[e]),
           SubSeq(t.pre[e], 1, Len(t.pre[id])) = t.pre[id]
    PROVE  LET n == Len(t.pre[id])
               s == t.pre[e][n + 1]
           IN  /\ s \in Segments
               /\ \E c \in Nodes(t) :
                      /\ Spells(t, id, s, c)
                      /\ t.pre[c] = SubSeq(t.pre[e], 1, n + 1)
<1> DEFINE p == t.pre[e]
           n == Len(t.pre[id])
<1>1. /\ p \in Seq(Segments) /\ Len(p) \in Nat
      /\ n \in Nat
      /\ n + 1 \in 0..Len(p)
      /\ n + 1 \in 1..Len(p)
  BY PrefixType
<1>2. PICK c \in Nodes(t) : t.pre[c] = SubSeq(p, 1, n + 1)
  BY <1>1, PrefixesBuilt
<1>3. t.pre[c] # << >>
  <2>1. Len(t.pre[c]) = n + 1
    BY <1>1, <1>2, PrefixIs
  <2> QED
    BY <1>1, <2>1
<1>4. PICK up, s : up \in Nodes(t) /\ Spells(t, up, s, c)
  BY <1>3, HasParent
<1>5. /\ t.pre[up] \in Seq(Segments) /\ s \in Segments
      /\ Append(t.pre[up], s) = SubSeq(p, 1, n + 1)
  BY <1>2, <1>4, PrefixType DEF Spells
<1>6. t.pre[up] = SubSeq(p, 1, n) /\ s = p[n + 1]
  <2> DEFINE k == n + 1
             q == t.pre[up]
  <2>1. k \in 0..Len(p) /\ k - 1 = n /\ Append(q, s) = SubSeq(p, 1, k) /\ q \in Seq(Segments)
    BY <1>1, <1>5
  <2> HIDE DEF k, q, p, n
  <2>2. q = SubSeq(p, 1, k - 1) /\ s = p[k]
    BY <1>1, <1>5, <2>1, PrefixGrows
  <2>3. q = SubSeq(p, 1, n) /\ s = p[k]
    BY <2>1, <2>2
  <2> QED
    BY <2>3 DEF k, q
<1>7. up = id
  BY <1>4, <1>6 DEF TrieOK
<1> QED
  BY <1>2, <1>4, <1>5, <1>6, <1>7

\* The routes of a trie are those at its nodes, each found by its prefix.
LEMMA RoutesAre ==
    ASSUME NEW t, TrieOK(t)
    PROVE  /\ \A id \in Nodes(t) :
                  t.node[id].route # None =>
                      /\ t.pre[id] \in DOMAIN RoutesOf(t)
                      /\ RoutesOf(t)[t.pre[id]] = t.node[id].route
           /\ \A p \in DOMAIN RoutesOf(t) :
                  /\ p \in Seq(Segments) /\ PrefixOK(p)
                  /\ \E e \in Nodes(t) : t.pre[e] = p /\ t.node[e].route # None
<1> DEFINE ends == {id \in Nodes(t) : t.node[id].route # None}
<1>1. DOMAIN RoutesOf(t) = {t.pre[id] : id \in ends}
  BY DEF RoutesOf
<1>2. ASSUME NEW id \in Nodes(t), t.node[id].route # None
      PROVE  RoutesOf(t)[t.pre[id]] = t.node[id].route
  <2>1. \A x \in ends : t.pre[x] = t.pre[id] <=> x = id
    BY DEF TrieOK
  <2>2. (CHOOSE x \in ends : t.pre[x] = t.pre[id]) = id
    BY <1>2, <2>1
  <2>3. t.pre[id] \in {t.pre[x] : x \in ends}
    BY <1>2
  <2>4. RoutesOf(t)[t.pre[id]] = t.node[CHOOSE x \in ends : t.pre[x] = t.pre[id]].route
    BY <2>3 DEF RoutesOf
  <2> QED
    BY <2>2, <2>4
<1>3. \A id \in Nodes(t) : t.pre[id] \in Seq(Segments) /\ PrefixOK(t.pre[id])
  BY DEF TrieOK
<1> QED
  BY <1>1, <1>2, <1>3

\* A node with two kinds of child counts more than one.
LEMMA TwoKinds ==
    ASSUME NEW t, NEW id \in Nodes(t), NodeOK(t, id),
           NEW j \in Kinds, NEW k \in Kinds, j # k,
           HasKind(t.node[id], j), HasKind(t.node[id], k)
    PROVE  t.node[id].branches > 1
<1> DEFINE n == t.node[id]
           S == {x \in Kinds : IF x = "literal" THEN DOMAIN n.lit # {} ELSE n[x] # None}
<1>1. n.branches = Cardinality(S)
  BY DEF NodeOK, Branches
<1>2. IsFiniteSet(Kinds)
  <2>1. /\ IsFiniteSet({"literal"}) /\ IsFiniteSet({"u64"}) /\ IsFiniteSet({"i64"})
        /\ IsFiniteSet({"param"}) /\ IsFiniteSet({"rest"})
    BY FS_Singleton
  <2>2. IsFiniteSet({"literal"} \cup {"u64"} \cup {"i64"} \cup {"param"} \cup {"rest"})
    BY <2>1, FS_Union
  <2>3. Kinds = {"literal"} \cup {"u64"} \cup {"i64"} \cup {"param"} \cup {"rest"}
    BY DEF Kinds
  <2> QED
    BY <2>2, <2>3
<1>3. S \subseteq Kinds /\ {j, k} \subseteq S
  BY DEF HasKind
<1>4. IsFiniteSet(S)
  BY <1>2, <1>3, FS_Subset
<1>5. Cardinality({j, k}) <= Cardinality(S) /\ Cardinality(S) \in Nat
  BY <1>3, <1>4, FS_Subset, FS_CardinalityType
<1>6. Cardinality({j, k}) = 2
  <2>1. IsFiniteSet({j}) /\ Cardinality({j}) = 1
    BY FS_Singleton
  <2>2. k \notin {j} /\ {j} \cup {k} = {j, k}
    OBVIOUS
  <2>3. Cardinality({j} \cup {k}) = Cardinality({j}) + 1
    BY <2>1, <2>2, FS_AddElement
  <2> QED
    BY <2>1, <2>2, <2>3
<1> QED
  BY <1>1, <1>5, <1>6
-----------------------------------------------------------------------------
(* The inductive invariant.                                                *)

\* The trie under root r holds a route for p; p matches the path w.
Candidate(r, w, p) == p \in DOMAIN RoutesAt[r] /\ Matches(p, w)

\* p begins with the prefix of node id and goes on with a kind not yet tried
\* at stage s.
Reach(r, p, id, s) ==
    LET pre == TrieAt[r].pre[id]
        n == Len(pre)
    IN  /\ n <= Len(p)
        /\ SubSeq(p, 1, n) = pre
        /\ s > 0 => n < Len(p) /\ Rank[p[n + 1].kind] >= s

\* The segments consumed match those on the way to the node at hand.
MatchedSoFar ==
    \A k \in 1..pos :
        /\ trie.pre[node][k].kind # "rest"
        /\ SegMatches(trie.pre[node][k], path[k])

\* Each pending choice is for kinds less specific than the one taken from there
\* to the node at hand: why the first route found is the most specific.
Passed ==
    \A i \in 1..Len(stack) :
        Rank[trie.pre[node][stack[i].pos + 1].kind] < stack[i].stage

StillReached ==
    Walking =>
        \A p : Candidate(root, path, p) =>
            \/ Reach(root, p, node, stage)
            \/ \E i \in 1..Len(stack) : Reach(root, p, stack[i].node, stack[i].stage)

AnswerInv == CapturesInv /\ MatchedSoFar /\ Passed /\ StillReached

\* What the steps below need to know of the state.
LEMMA AnswerTypes ==
    ASSUME Typed, Aligned
    PROVE  /\ TrieOK(trie) /\ trie = TrieAt[root] /\ root \in Roots
           /\ node \in Nodes(trie) /\ NodeOK(trie, node)
           /\ trie.pre[node] \in Seq(Segments) /\ PrefixOK(trie.pre[node])
           /\ pos = Len(trie.pre[node]) /\ pos \in Nat /\ pos \in 0..Len(path)
           /\ nv \in Nat /\ MaxParams \in Nat
           /\ path \in Seq(Texts \cup {Empty}) /\ Len(path) \in Nat
           /\ stage \in 0..4
<1>1. TrieOK(trie) /\ node \in Nodes(trie) /\ root \in Roots /\ path \in Paths
  BY WalksTrie DEF Typed
<1>2. NodeOK(trie, node) /\ PrefixOK(trie.pre[node])
  BY <1>1 DEF TrieOK
<1>3. path \in Seq(Texts \cup {Empty})
  BY <1>1, PathsAssumption
<1> QED
  BY <1>1, <1>2, <1>3, PrefixType, LimitsAssumption DEF Typed, Aligned, trie

\* A route's pattern is that of a node of the trie.
LEMMA CandidateAt ==
    ASSUME NEW r \in Roots, NEW w, NEW p, Candidate(r, w, p)
    PROVE  /\ p \in Seq(Segments) /\ Len(p) \in Nat /\ PrefixOK(p)
           /\ Matches(p, w)
           /\ \E e \in Nodes(TrieAt[r]) :
                  TrieAt[r].pre[e] = p /\ TrieAt[r].node[e].route # None
<1>1. TrieOK(TrieAt[r]) /\ p \in DOMAIN RoutesOf(TrieAt[r]) /\ Matches(p, w)
  BY TriesAssumption DEF Candidate, RoutesAt
<1> QED
  BY <1>1, RoutesAre

\* Which texts a segment matches, kind by kind.
LEMMA SegMatchesIs ==
    ASSUME NEW s, NEW x
    PROVE  /\ s.kind = "literal" => (SegMatches(s, x) <=> x = s.text)
           /\ s.kind = "u64" => (SegMatches(s, x) <=> x \in U64Texts)
           /\ s.kind = "i64" => (SegMatches(s, x) <=> x \in I64Texts)
           /\ s.kind = "param" => (SegMatches(s, x) <=> x # Empty)
<1>1. /\ "literal" # "u64" /\ "literal" # "i64" /\ "literal" # "param"
      /\ "u64" # "i64" /\ "u64" # "param" /\ "i64" # "param"
  OBVIOUS
<1>2. s.kind = "literal" => (SegMatches(s, x) <=> x = s.text)
  BY <1>1, Zenon DEF SegMatches
<1>3. s.kind = "u64" => (SegMatches(s, x) <=> x \in U64Texts)
  BY <1>1, Zenon DEF SegMatches
<1>4. s.kind = "i64" => (SegMatches(s, x) <=> x \in I64Texts)
  BY <1>1, Zenon DEF SegMatches
<1>5. s.kind = "param" => (SegMatches(s, x) <=> x # Empty)
  BY <1>1, Zenon DEF SegMatches
<1> QED
  BY <1>2, <1>3, <1>4, <1>5

\* A pattern that matches and goes on below the node at hand has a segment
\* there that matches the path's, or is a catch-all and ends.
LEMMA GoesOn ==
    ASSUME Typed, Aligned, NEW p, Candidate(root, path, p), pos < Len(p)
    PROVE  /\ ~AtEnd
           /\ pos + 1 \in 1..Len(path)
           /\ p[pos + 1] \in Segments
           /\ p[pos + 1].kind # "rest" => SegMatches(p[pos + 1], Seg)
           /\ p[pos + 1].kind = "rest" =>
                  Len(p) = pos + 1 /\ ~NothingFrom(path, pos + 1)
<1>1. /\ p \in Seq(Segments) /\ Len(p) \in Nat /\ Matches(p, path)
      /\ \A i \in 1..Len(p) : p[i].kind = "rest" => i = Len(p)
      /\ pos \in Nat /\ Len(path) \in Nat
  BY CandidateAt, AnswerTypes DEF PrefixOK
<1>2. pos + 1 \in 1..Len(p) /\ p[pos + 1] \in Segments /\ p # << >>
  BY <1>1
<1>3. EndsInRest(p) <=> p[Len(p)].kind = "rest"
  BY <1>2 DEF EndsInRest
<1>4. CASE p[Len(p)].kind = "rest"
  <2>1. /\ Len(p) <= Len(path)
        /\ \A i \in 1..(Len(p) - 1) : SegMatches(p[i], path[i])
        /\ ~NothingFrom(path, Len(p))
    BY <1>1, <1>3, <1>4 DEF Matches
  <2>2. pos + 1 \in 1..Len(path) /\ pos # Len(path)
    BY <1>1, <1>2, <2>1
  <2>3. p[pos + 1].kind # "rest" => pos + 1 \in 1..(Len(p) - 1)
    BY <1>1, <1>2, <1>4
  <2>4. p[pos + 1].kind = "rest" => pos + 1 = Len(p)
    BY <1>1, <1>2
  <2> QED
    BY <1>2, <2>1, <2>2, <2>3, <2>4 DEF AtEnd, Seg
<1>5. CASE p[Len(p)].kind # "rest"
  <2>1. /\ Len(p) = Len(path)
        /\ \A i \in 1..Len(p) : SegMatches(p[i], path[i])
    BY <1>1, <1>3, <1>5 DEF Matches
  <2>2. pos + 1 \in 1..Len(path) /\ pos # Len(path)
    BY <1>1, <1>2, <2>1
  <2>3. p[pos + 1].kind # "rest"
    BY <1>1, <1>2, <1>5
  <2> QED
    BY <1>2, <2>1, <2>2, <2>3 DEF AtEnd, Seg
<1> QED
  BY <1>4, <1>5

\* A pattern that matches and is reached from the node at hand ends there, or
\* the walk may enter the child its next segment names.
LEMMA Enters ==
    ASSUME Typed, Aligned, MatchedSoFar,
           NEW p, Candidate(root, path, p), Reach(root, p, node, stage)
    PROVE  \/ Ends /\ p = trie.pre[node]
           \/ /\ pos < Len(p) /\ ~AtEnd
              /\ stage > 0 => Rank[p[pos + 1].kind] >= stage
              /\ \E c \in Nodes(trie) :
                     /\ Spells(trie, node, p[pos + 1], c)
                     /\ trie.pre[c] = SubSeq(p, 1, pos + 1)
              /\ p[pos + 1].kind # "rest" => SegMatches(p[pos + 1], Seg)
              /\ p[pos + 1].kind = "literal" => ToLiteral /\ p[pos + 1].text = Seg
              /\ p[pos + 1].kind = "u64" => ToU64
              /\ p[pos + 1].kind = "i64" => ToI64
              /\ p[pos + 1].kind = "param" => ToParam
              /\ p[pos + 1].kind = "rest" => ToRest /\ Len(p) = pos + 1
<1>1. /\ TrieOK(trie) /\ trie = TrieAt[root] /\ root \in Roots
      /\ node \in Nodes(trie)
      /\ trie.pre[node] \in Seq(Segments)
      /\ pos = Len(trie.pre[node]) /\ pos \in Nat /\ pos \in 0..Len(path)
      /\ Len(path) \in Nat
      /\ stage \in 0..4
  BY AnswerTypes
<1>2. /\ p \in Seq(Segments) /\ Len(p) \in Nat /\ Matches(p, path)
  BY <1>1, CandidateAt
<1>3. PICK e \in Nodes(trie) : trie.pre[e] = p /\ trie.node[e].route # None
  BY <1>1, CandidateAt
<1>4. /\ pos <= Len(p)
      /\ SubSeq(p, 1, pos) = trie.pre[node]
      /\ stage > 0 => pos < Len(p) /\ Rank[p[pos + 1].kind] >= stage
  BY <1>1 DEF Reach
<1>5. CASE pos = Len(p)
  <2>1. p = trie.pre[node]
    BY <1>2, <1>4, <1>5, SubSeqFull
  <2>2. e = node /\ Here.route # None
    BY <1>1, <1>3, <2>1 DEF TrieOK, Here
  <2>3. stage = 0
    BY <1>1, <1>4, <1>5
  <2>4. ~EndsInRest(p)
    <3>1. SUFFICES ASSUME p # << >> PROVE p[Len(p)].kind # "rest"
      BY DEF EndsInRest
    <3>2. Len(p) \in 1..pos
      BY <1>2, <1>5, <3>1, EmptySeq
    <3> QED
      BY <2>1, <3>2 DEF MatchedSoFar
  <2>5. pos = Len(path)
    BY <1>2, <1>5, <2>4 DEF Matches
  <2> QED
    BY <2>1, <2>2, <2>3, <2>5 DEF Ends, AtEnd
<1>6. CASE pos < Len(p)
  <2> DEFINE s == p[pos + 1]
  <2>1. /\ ~AtEnd /\ pos + 1 \in 1..Len(path)
        /\ s \in Segments
        /\ s.kind # "rest" => SegMatches(s, Seg)
        /\ s.kind = "rest" => Len(p) = pos + 1 /\ ~NothingFrom(path, pos + 1)
    BY <1>6, GoesOn
  <2>2. PICK c \in Nodes(trie) :
            Spells(trie, node, s, c) /\ trie.pre[c] = SubSeq(p, 1, pos + 1)
    BY <1>1, <1>3, <1>4, <1>6, Onward
  <2> HIDE DEF s
  <2>3. c # None
    BY <1>1 DEF TrieOK
  <2>4. s.kind = "literal" => s.text \in DOMAIN Here.lit
    BY <2>2 DEF Spells, Here
  <2>5. s.kind # "literal" => Here[s.kind] # None
    BY <2>2, <2>3 DEF Spells, Here
  <2>6. s.kind # "literal" => nv < MaxParams
    <3>1. SUFFICES ASSUME s.kind # "literal" PROVE nv < MaxParams
      OBVIOUS
    <3>2. NumParams(trie.pre[c]) = NumParams(trie.pre[node]) + 1
      <4>1. trie.pre[c] = Append(trie.pre[node], s)
        BY <2>2 DEF Spells
      <4>2. NumParams(Append(trie.pre[node], s)) = NumParams(trie.pre[node]) + 1
        BY <1>1, <2>1, <3>1, ParamsAppend
      <4> QED
        BY <4>1, <4>2
    <3>3. NumParams(trie.pre[c]) \in 0..MaxParams
      BY <1>1, PrefixType
    <3>4. nv = NumParams(trie.pre[node]) /\ nv \in Nat /\ MaxParams \in Nat
      BY AnswerTypes DEF Aligned
    <3> QED
      BY <3>2, <3>3, <3>4
  <2>7. s.kind \in Kinds /\ (stage > 0 => Rank[s.kind] >= stage)
    BY <1>4, <2>1 DEF s, Segments
  <2>8. s.kind = "literal" => ToLiteral /\ s.text = Seg
    BY <1>1, <2>1, <2>4, <2>7, SegMatchesIs DEF ToLiteral, Rank
  <2>9. s.kind = "u64" => ToU64
    BY <1>1, <2>1, <2>5, <2>6, <2>7, SegMatchesIs, TextsAssumption
    DEF ToU64, TakesParam, Rank, Empty
  <2>10. s.kind = "i64" => ToI64
    BY <1>1, <2>1, <2>5, <2>6, <2>7, SegMatchesIs, TextsAssumption
    DEF ToI64, TakesParam, Rank, Empty
  <2>11. s.kind = "param" => ToParam
    BY <1>1, <2>1, <2>5, <2>6, <2>7, SegMatchesIs DEF ToParam, TakesParam, Rank
  <2>12. s.kind = "rest" => ToRest /\ Len(p) = pos + 1
    BY <2>1, <2>5, <2>6 DEF ToRest
  <2> QED
    BY <1>6, <2>1, <2>2, <2>7, <2>8, <2>9, <2>10, <2>11, <2>12 DEF s
<1> QED
  BY <1>1, <1>2, <1>4, <1>5, <1>6
\* When no child may be entered, no pattern that matches is reached from the
\* node at hand.
LEMMA NothingHere ==
    ASSUME Typed, Aligned, MatchedSoFar, Nothing, NEW p, Candidate(root, path, p)
    PROVE  ~Reach(root, p, node, stage)
<1> SUFFICES ASSUME Reach(root, p, node, stage) PROVE FALSE
  OBVIOUS
<1>1. pos < Len(p) => p[pos + 1].kind \in Kinds
  BY GoesOn DEF Segments
<1> QED
  BY <1>1, Enters DEF Nothing, Kinds

-----------------------------------------------------------------------------
(* Steps.                                                                  *)

\* A walk starts where every pattern is still ahead.
LEMMA AnswerBegins == Begun => AnswerInv
<1> SUFFICES ASSUME Begun PROVE AnswerInv
  OBVIOUS
<1>1. CapturesInv
  BY CapturesBegin
<1>2. stack = << >> /\ pos = 0 /\ stage = 0 /\ Len(stack) = 0
  BY DEF Begun
<1>3. MatchedSoFar /\ Passed
  BY <1>2 DEF MatchedSoFar, Passed
<1>4. Typed /\ Aligned
  BY <1>1 DEF CapturesInv, WalkInv
<1>5. ASSUME NEW p, Candidate(root, path, p)
      PROVE  Reach(root, p, node, stage)
  <2>1. p \in Seq(Segments) /\ Len(p) \in Nat
    BY <1>4, <1>5, AnswerTypes, CandidateAt
  <2>2. trie.pre[node] = << >> /\ trie = TrieAt[root]
    BY <1>4, AnswerTypes DEF Begun, TrieOK
  <2>3. SubSeq(p, 1, 0) = << >>
    BY SubSeqEmpty
  <2>4. TrieAt[root].pre[node] = << >> /\ Len(<< >>) = 0
    BY <2>2
  <2>5. Reach(root, p, node, 0)
    BY <2>1, <2>3, <2>4 DEF Reach
  <2> QED
    BY <1>2, <2>5
<1> QED
  BY <1>1, <1>3, <1>5 DEF AnswerInv, StillReached

\* Going down to a child keeps the invariant when every pattern reached from
\* the node at hand goes on to the child or by the choice left behind.
LEMMA AnswerDescends ==
    ASSUME AnswerInv, CapturesInv', Walking,
           NEW child \in Nodes(trie), NEW s \in Segments, NEW st \in 1..4,
           node' = child, pos' = pos + 1, stage' = 0,
           stack' = stack \/ stack' = Append(stack, Choice(st)),
           root' = root, path' = path,
           trie.pre[child] = Append(trie.pre[node], s),
           s.kind # "rest", SegMatches(s, Seg), Rank[s.kind] < st,
           \A p : Candidate(root, path, p) /\ Reach(root, p, node, stage) =>
               \/ pos < Len(p) /\ SubSeq(p, 1, pos + 1) = trie.pre[child]
               \/ /\ stack' = Append(stack, Choice(st))
                  /\ pos < Len(p) /\ Rank[p[pos + 1].kind] >= st
    PROVE  AnswerInv'
<1> DEFINE q == trie.pre[node]
<1>1. Typed /\ Aligned /\ ChoicesOnPath /\ trie' = trie
  BY DEF AnswerInv, CapturesInv, WalkInv, trie
<1>2. /\ trie = TrieAt[root] /\ root \in Roots
      /\ q \in Seq(Segments) /\ pos = Len(q) /\ pos \in Nat
      /\ stack \in Seq(ChoiceSet) /\ Choice(st) \in ChoiceSet
      /\ Len(stack) \in Nat
  BY <1>1, AnswerTypes DEF Typed, Choice, ChoiceSet
<1>3. /\ Len(trie.pre[child]) = pos + 1
      /\ \A k \in 1..pos : trie.pre[child][k] = q[k]
      /\ trie.pre[child][pos + 1] = s
  BY <1>2, AppendProperties
<1>4. \A i \in 1..Len(stack') :
          \/ stack'[i] = Choice(st) /\ i = Len(stack) + 1
          \/ i \in 1..Len(stack) /\ stack'[i] = stack[i]
  BY <1>2, PushedChoices
<1>5. MatchedSoFar'
  <2>1. ASSUME NEW k \in 1..(pos + 1)
        PROVE  /\ trie.pre[child][k].kind # "rest"
               /\ SegMatches(trie.pre[child][k], path[k])
    <3>1. CASE k = pos + 1
      BY <1>3, <3>1 DEF Seg
    <3>2. CASE k # pos + 1
      <4>1. k \in 1..pos
        BY <1>2, <3>2
      <4> QED
        BY <1>3, <4>1 DEF AnswerInv, MatchedSoFar
    <3> QED
      BY <3>1, <3>2
  <2> QED
    BY <1>1, <2>1 DEF MatchedSoFar
<1>6. Passed'
  <2> SUFFICES ASSUME NEW i \in 1..Len(stack')
               PROVE  Rank[trie.pre[child][stack'[i].pos + 1].kind] < stack'[i].stage
    BY <1>1 DEF Passed
  <2>1. CASE stack'[i] = Choice(st)
    <3>1. stack'[i].pos = pos /\ stack'[i].stage = st
      BY <2>1 DEF Choice
    <3> QED
      BY <1>3, <3>1
  <2>2. CASE i \in 1..Len(stack) /\ stack'[i] = stack[i]
    <3>0. stack[i] \in ChoiceSet
      BY <1>2, <2>2
    <3>1. stack[i].pos < pos /\ stack[i].pos \in Nat
      BY <1>1, <2>2, <3>0 DEF ChoicesOnPath, ChoiceSet
    <3>2. stack[i].pos + 1 \in 1..pos
      <4>1. pos \in Nat
        BY <1>2
      <4> QED
        BY <3>1, <4>1
    <3>3. Rank[q[stack[i].pos + 1].kind] < stack[i].stage
      BY <2>2 DEF AnswerInv, Passed
    <3> QED
      BY <1>3, <2>2, <3>2, <3>3
  <2> QED
    BY <1>4, <2>1, <2>2
<1>7. StillReached'
  <2> SUFFICES ASSUME NEW p, Candidate(root, path, p)
               PROVE  \/ Reach(root, p, child, 0)
                      \/ \E i \in 1..Len(stack') :
                             Reach(root, p, stack'[i].node, stack'[i].stage)
    BY DEF StillReached
  <2>1. Len(p) \in Nat
    BY <1>2, CandidateAt
  <2>2. \A i \in 1..Len(stack) : i \in 1..Len(stack') /\ stack'[i] = stack[i]
    BY <1>2, AppendProperties
  <2>3. CASE \E i \in 1..Len(stack) : Reach(root, p, stack[i].node, stack[i].stage)
    BY <2>2, <2>3
  <2>4. CASE Reach(root, p, node, stage)
    <3>1. CASE pos < Len(p) /\ SubSeq(p, 1, pos + 1) = trie.pre[child]
      <4>1. /\ TrieAt[root].pre[child] = trie.pre[child]
            /\ Len(trie.pre[child]) = pos + 1
            /\ pos + 1 <= Len(p)
        BY <1>2, <1>3, <2>1, <3>1
      <4>2. Reach(root, p, child, 0)
        BY <3>1, <4>1 DEF Reach
      <4> QED
        BY <4>2
    <3>2. CASE /\ stack' = Append(stack, Choice(st))
               /\ pos < Len(p) /\ Rank[p[pos + 1].kind] >= st
      <4>1. /\ Len(stack) + 1 \in 1..Len(stack')
            /\ stack'[Len(stack) + 1].node = node
            /\ stack'[Len(stack) + 1].stage = st
        BY <1>2, <3>2, AppendProperties DEF Choice
      <4>2. Reach(root, p, node, st)
        BY <1>2, <2>4, <3>2 DEF Reach
      <4> QED
        BY <4>1, <4>2
    <3> QED
      BY <2>4, <3>1, <3>2
  <2> QED
    BY <2>3, <2>4 DEF AnswerInv, StillReached
<1> QED
  BY <1>5, <1>6, <1>7 DEF AnswerInv
\* Leaving the node at hand, out of which nothing more leads to a pattern that
\* matches, for the last choice left behind.
LEMMA AnswerBacktracks ==
    ASSUME AnswerInv, CapturesInv', Backtrack
    PROVE  AnswerInv'
<1>1. Typed /\ Aligned /\ ChoicesOnPath /\ MatchedSoFar
  BY DEF AnswerInv, CapturesInv, WalkInv
<1>2. /\ root' = root /\ path' = path /\ trie' = trie
      /\ node' = Top.node /\ pos' = Top.pos /\ stage' = Top.stage
      /\ Top = stack[Len(stack)]
      /\ Walking /\ Nothing
  BY DEF Backtrack, trie, Top
<1>3. /\ stack \in Seq(ChoiceSet)
      /\ Len(stack) \in 1..Len(stack)
      /\ Top \in ChoiceSet
  BY <1>2, <1>1 DEF Backtrack, Typed
<1>4. /\ Len(stack') = Len(stack) - 1
      /\ \A i \in 1..Len(stack') :
             i \in 1..Len(stack) /\ i < Len(stack) /\ stack'[i] = stack[i]
  BY <1>3, PoppedChoices DEF Backtrack, Below
<1>5. pos \in Nat /\ Top.pos \in Nat /\ Top.pos < pos
  BY <1>1, <1>2, <1>3, AnswerTypes DEF ChoicesOnPath, ChoiceSet
<1>6. \A k \in 1..Top.pos : k \in 1..pos /\ trie.pre[Top.node][k] = trie.pre[node][k]
  BY <1>1, <1>2, <1>3, <1>5 DEF ChoicesOnPath
<1>7. MatchedSoFar'
  BY <1>1, <1>2, <1>6 DEF MatchedSoFar
<1>8. Passed'
  <2> SUFFICES ASSUME NEW i \in 1..Len(stack')
               PROVE  Rank[trie.pre[Top.node][stack'[i].pos + 1].kind] < stack'[i].stage
    BY <1>2 DEF Passed
  <2>1. i \in 1..Len(stack) /\ i < Len(stack) /\ stack'[i] = stack[i]
    BY <1>4
  <2>2. stack[i] \in ChoiceSet
    BY <1>3, <2>1
  <2>3. stack[i].pos \in Nat /\ stack[i].pos < Top.pos
    BY <1>1, <1>2, <1>3, <2>1, <2>2 DEF ChoicesOnPath, ChoiceSet
  <2>4. stack[i].pos + 1 \in 1..Top.pos
    BY <1>5, <2>3
  <2>5. Rank[trie.pre[node][stack[i].pos + 1].kind] < stack[i].stage
    BY <2>1 DEF AnswerInv, Passed
  <2> QED
    BY <1>6, <2>1, <2>4, <2>5
<1>9. StillReached'
  <2> SUFFICES ASSUME NEW p, Candidate(root, path, p)
               PROVE  \/ Reach(root, p, node', stage')
                      \/ \E i \in 1..Len(stack') :
                             Reach(root, p, stack'[i].node, stack'[i].stage)
    BY <1>2 DEF StillReached
  <2>1. ~Reach(root, p, node, stage)
    BY <1>1, <1>2, NothingHere
  <2>2. PICK i \in 1..Len(stack) : Reach(root, p, stack[i].node, stack[i].stage)
    BY <1>2, <2>1 DEF AnswerInv, StillReached
  <2>3. CASE i = Len(stack)
    BY <1>2, <2>2, <2>3
  <2>4. CASE i # Len(stack)
    <3>1. i \in 1..Len(stack')
      BY <1>3, <1>4, <2>4
    <3> QED
      BY <1>4, <2>2, <3>1
  <2> QED
    BY <2>3, <2>4
<1> QED
  BY <1>7, <1>8, <1>9 DEF AnswerInv

\* Every step keeps the invariant: each that goes down finds every pattern still
\* reached either beyond the child entered or at the kinds the choice keeps.
LEMMA AnswerStep == AnswerInv /\ [Next]_vars => AnswerInv'
<1> SUFFICES ASSUME AnswerInv, [Next]_vars PROVE AnswerInv'
  OBVIOUS
<1>1. CapturesInv' /\ Typed /\ Aligned /\ MatchedSoFar
  BY CapturesStep DEF AnswerInv, CapturesInv, WalkInv
<1>2. /\ node \in Nodes(trie) /\ NodeOK(trie, node) /\ TrieOK(trie)
      /\ trie.pre[node] \in Seq(Segments)
  BY <1>1, AnswerTypes
<1>3. ASSUME UNCHANGED <<root, path, node, pos, stage, stack>>,
             pc' = pc \/ ~Walking'
      PROVE  AnswerInv'
  <2>1. trie' = trie
    BY <1>3 DEF trie
  <2> QED
    BY <1>1, <1>3, <2>1 DEF AnswerInv, MatchedSoFar, Passed, StillReached, Walking
<1>4. ASSUME NEW p, Candidate(root, path, p), Reach(root, p, node, stage), ~Ends
      PROVE  /\ pos < Len(p)
             /\ p[pos + 1].kind \in Kinds
             /\ HasKind(Here, p[pos + 1].kind)
             /\ \E c \in Nodes(trie) :
                    /\ Spells(trie, node, p[pos + 1], c)
                    /\ trie.pre[c] = SubSeq(p, 1, pos + 1)
             /\ p[pos + 1].kind = "literal" => ToLiteral /\ p[pos + 1].text = Seg
             /\ p[pos + 1].kind = "u64" => ToU64
             /\ p[pos + 1].kind = "i64" => ToI64
             /\ p[pos + 1].kind = "param" => ToParam
             /\ p[pos + 1].kind = "rest" => ToRest
  <2>1. /\ pos < Len(p)
        /\ p[pos + 1].kind = "literal" => ToLiteral /\ p[pos + 1].text = Seg
        /\ p[pos + 1].kind = "u64" => ToU64
        /\ p[pos + 1].kind = "i64" => ToI64
        /\ p[pos + 1].kind = "param" => ToParam
        /\ p[pos + 1].kind = "rest" => ToRest
    BY <1>1, <1>4, Enters
  <2>2. PICK c \in Nodes(trie) :
            Spells(trie, node, p[pos + 1], c) /\ trie.pre[c] = SubSeq(p, 1, pos + 1)
    BY <1>1, <1>4, Enters
  <2>3. c # None
    BY <1>2 DEF TrieOK
  <2>4. p[pos + 1].kind \in Kinds /\ HasKind(Here, p[pos + 1].kind)
    BY <2>2, <2>3 DEF Spells, Segments, HasKind, Here
  <2> QED
    BY <2>1, <2>2, <2>4
<1>5. ASSUME NEW j \in Kinds, NEW k \in Kinds, j # k, HasKind(Here, j), HasKind(Here, k)
      PROVE  OtherKinds
  BY <1>2, <1>5, TwoKinds DEF OtherKinds, Here
<1>6. CASE Finish
  BY <1>3, <1>6 DEF Finish, Return, Walking
<1>7. CASE Literal
  <2> DEFINE child == Here.lit[Seg]
  <2>1. /\ Walking /\ ToLiteral /\ ~Ends
        /\ node' = child /\ pos' = pos + 1 /\ stage' = 0
        /\ stack' = IF OtherKinds THEN Append(stack, Choice(1)) ELSE stack
        /\ root' = root /\ path' = path
    BY <1>7 DEF Literal, Descend, ToLiteral, Ends
  <2>2. child \in Nodes(trie) /\ trie.pre[child] = Append(trie.pre[node], Lit(Seg))
    BY <1>2, <2>1, LiteralChild DEF ToLiteral, Here
  <2>3. /\ Lit(Seg) \in Segments /\ Lit(Seg).kind = "literal"
        /\ Rank[Lit(Seg).kind] < 1 /\ SegMatches(Lit(Seg), Seg)
    <3>1. Seg \in Texts \cup {Empty}
      BY <1>2, <2>1 DEF ToLiteral, NodeOK, Here
    <3>2. Lit(Seg) \in Segments /\ Lit(Seg).kind = "literal" /\ Lit(Seg).text = Seg
      BY <3>1 DEF Lit, Segments, Kinds
    <3>3. SegMatches(Lit(Seg), Seg)
      BY <3>2, SegMatchesIs
    <3> QED
      BY <3>2, <3>3 DEF Rank
  <2>4. ASSUME NEW p, Candidate(root, path, p), Reach(root, p, node, stage)
        PROVE  \/ pos < Len(p) /\ SubSeq(p, 1, pos + 1) = trie.pre[child]
               \/ /\ stack' = Append(stack, Choice(1))
                  /\ pos < Len(p) /\ Rank[p[pos + 1].kind] >= 1
    <3> DEFINE k == p[pos + 1].kind
    <3>1. pos < Len(p) /\ k \in Kinds /\ HasKind(Here, k)
      BY <1>4, <2>1, <2>4
    <3>2. CASE k = "literal"
      <4>1. PICK c \in Nodes(trie) :
                Spells(trie, node, p[pos + 1], c) /\ trie.pre[c] = SubSeq(p, 1, pos + 1)
        BY <1>4, <2>1, <2>4
      <4>2. p[pos + 1].text = Seg
        BY <1>4, <2>1, <2>4, <3>2
      <4>3. c = child
        BY <3>2, <4>1, <4>2 DEF Spells, Here
      <4> QED
        BY <3>1, <4>1, <4>3
    <3>3. CASE k # "literal"
      <4>1. "literal" \in Kinds /\ HasKind(Here, "literal")
        BY <2>1 DEF Kinds, HasKind, ToLiteral
      <4>2. OtherKinds
        BY <1>5, <3>1, <3>3, <4>1
      <4>3. Rank[k] >= 1
        BY <3>1, <3>3 DEF Kinds, Rank
      <4> QED
        BY <2>1, <3>1, <4>2, <4>3
    <3> QED
      BY <3>2, <3>3
  <2> HIDE DEF child
  <2>5. 1 \in 1..4
    OBVIOUS
  <2>6. stack' = stack \/ stack' = Append(stack, Choice(1))
    BY <2>1
  <2>7. Lit(Seg).kind # "rest"
    BY <2>3
  <2> QED
    BY <1>1, <2>1, <2>2, <2>3, <2>4, <2>5, <2>6, <2>7, AnswerDescends<1>8. ASSUME NEW k \in {"u64", "i64", "param"}, NEW st \in 1..4, st = Rank[k] + 1,
             Walking, TakesParam, Here[k] # None,
             SegMatches([kind |-> k, text |-> Empty], Seg),
             ~ToLiteral, k \in {"i64", "param"} => ~ToU64, k = "param" => ~ToI64,
             node' = Here[k], pos' = pos + 1, stage' = 0, root' = root, path' = path,
             stack' = stack \/ stack' = Append(stack, Choice(st)),
             \A j \in Kinds : Rank[j] >= st /\ HasKind(Here, j)
                                  => stack' = Append(stack, Choice(st))
      PROVE  AnswerInv'
  <2> DEFINE child == Here[k]
             s == [kind |-> k, text |-> Empty]
  <2>1. k \in Kinds \ {"literal"}
    BY DEF Kinds
  <2>2. /\ child \in Nodes(trie) /\ s \in Segments
        /\ trie.pre[child] = Append(trie.pre[node], s)
    BY <1>2, <1>8, <2>1, ParamChild DEF Here
  <2>3. s.kind # "rest" /\ Rank[s.kind] < st
    BY <1>8 DEF Rank
  <2>4. ~Ends
    BY <1>8 DEF TakesParam, Ends
  <2>5. ASSUME NEW p, Candidate(root, path, p), Reach(root, p, node, stage)
        PROVE  \/ pos < Len(p) /\ SubSeq(p, 1, pos + 1) = trie.pre[child]
               \/ /\ stack' = Append(stack, Choice(st))
                  /\ pos < Len(p) /\ Rank[p[pos + 1].kind] >= st
    <3> DEFINE j == p[pos + 1].kind
    <3>1. pos < Len(p) /\ j \in Kinds /\ HasKind(Here, j)
      BY <1>4, <2>4, <2>5
    <3>2. CASE j = k
      <4>1. PICK c \in Nodes(trie) :
                Spells(trie, node, p[pos + 1], c) /\ trie.pre[c] = SubSeq(p, 1, pos + 1)
        BY <1>4, <2>4, <2>5
      <4>2. c = child
        BY <2>1, <3>2, <4>1 DEF Spells, Here
      <4> QED
        BY <3>1, <4>1, <4>2
    <3>3. CASE j # k
      <4>1. /\ j = "literal" => ToLiteral
            /\ j = "u64" => ToU64
            /\ j = "i64" => ToI64
        BY <1>4, <2>4, <2>5
      <4>2. Rank[j] >= st
        BY <1>8, <3>1, <3>3, <4>1 DEF Kinds, Rank
      <4> QED
        BY <1>8, <3>1, <4>2
    <3> QED
      BY <3>2, <3>3
  <2> HIDE DEF child, s
  <2>6. SegMatches(s, Seg) /\ node' = child
    BY <1>8 DEF s, child
  <2> QED
    BY <1>1, <1>8, <2>2, <2>3, <2>5, <2>6, AnswerDescends
<1>9. CASE U64
  <2>1. SegMatches([kind |-> "u64", text |-> Empty], Seg)
    BY <1>9, SegMatchesIs DEF U64, ToU64
  <2>2. \A j \in Kinds : Rank[j] >= 2 /\ HasKind(Here, j) => OtherKinds
    <3>1. "u64" \in Kinds /\ HasKind(Here, "u64")
      BY <1>9 DEF Kinds, HasKind, U64, ToU64
    <3>2. ~(Rank["u64"] >= 2)
      BY DEF Rank
    <3> QED
      BY <1>5, <3>1, <3>2
  <2>3. Rank["u64"] + 1 = 2 /\ 2 \in 1..4
    BY DEF Rank
  <2> QED
    BY <1>8, <1>9, <2>1, <2>2, <2>3 DEF U64, ToU64, Descend
<1>10. CASE I64
  <2>1. SegMatches([kind |-> "i64", text |-> Empty], Seg)
    BY <1>10, SegMatchesIs DEF I64, ToI64
  <2>2. \A j \in Kinds : Rank[j] >= 3 /\ HasKind(Here, j) => OtherKinds
    <3>1. "i64" \in Kinds /\ HasKind(Here, "i64")
      BY <1>10 DEF Kinds, HasKind, I64, ToI64
    <3>2. ~(Rank["i64"] >= 3)
      BY DEF Rank
    <3> QED
      BY <1>5, <3>1, <3>2
  <2>3. Rank["i64"] + 1 = 3 /\ 3 \in 1..4
    BY DEF Rank
  <2> QED
    BY <1>8, <1>10, <2>1, <2>2, <2>3 DEF I64, ToI64, Descend
<1>11. CASE Param
  <2>1. SegMatches([kind |-> "param", text |-> Empty], Seg)
    BY <1>11, SegMatchesIs DEF Param, ToParam, TakesParam
  <2>2. \A j \in Kinds : Rank[j] >= 4 /\ HasKind(Here, j) => Here.rest # None
    BY DEF Kinds, Rank, HasKind
  <2>3. Rank["param"] + 1 = 4 /\ 4 \in 1..4
    BY DEF Rank
  <2> QED
    BY <1>8, <1>11, <2>1, <2>2, <2>3 DEF Param, ToParam, Descend
<1>12. CASE Rest
  BY <1>3, <1>12 DEF Rest, Return, Walking
<1>13. CASE Backtrack
  BY <1>1, <1>13, AnswerBacktracks
<1>14. CASE Fail
  BY <1>3, <1>14 DEF Fail, Return, Walking
<1>15. CASE UNCHANGED vars
  BY <1>3, <1>15 DEF vars
<1> QED
  BY <1>6, <1>7, <1>9, <1>10, <1>11, <1>12, <1>13, <1>14, <1>15 DEF Next

\* The invariant holds throughout every walk.
LEMMA AnswerInvariant == Spec => []AnswerInv
  BY InitBegins, AnswerBegins, AnswerStep, PTL DEF Spec

\* Pruning loses nothing, in any trie: a walk that leaves no choice behind where
\* a node has one kind of child, or no catch-all below a plain parameter, still
\* reaches every pattern that matches, from the node at hand or from a choice.
THEOREM WalkLosesNothing == Spec => []NothingLost
<1>1. AnswerInv => NothingLost
  <2> SUFFICES ASSUME AnswerInv, Walking, NEW p \in Matching
               PROVE  \/ p \in Ahead(node, stage)
                      \/ \E i \in 1..Len(stack) : p \in Ahead(stack[i].node, stack[i].stage)
    BY DEF NothingLost
  <2>1. p \in DOMAIN RoutesAt[root] /\ Candidate(root, path, p)
    BY DEF Matching, Candidate
  <2>2. ASSUME NEW id, NEW s, Reach(root, p, id, s)
        PROVE  p \in Ahead(id, s)
    BY <2>1, <2>2 DEF Ahead, Reach, trie
  <2> QED
    BY <2>1, <2>2 DEF AnswerInv, StillReached
<1> QED
  BY <1>1, AnswerInvariant, PTL
-----------------------------------------------------------------------------
(* The answer.                                                             *)

\* Of two patterns that differ, not both are more specific than the other.
LEMMA OneMoreSpecific ==
    ASSUME NEW p \in Seq(Segments), NEW q \in Seq(Segments),
           MoreSpecific(p, q), MoreSpecific(q, p)
    PROVE  FALSE
<1>1. PICK i \in 1..Len(p) :
          /\ i <= Len(q)
          /\ Rank[p[i].kind] < Rank[q[i].kind]
          /\ \A j \in 1..(i - 1) : SameSeg(p[j], q[j])
  BY DEF MoreSpecific
<1>2. PICK k \in 1..Len(q) :
          /\ k <= Len(p)
          /\ Rank[q[k].kind] < Rank[p[k].kind]
          /\ \A j \in 1..(k - 1) : SameSeg(q[j], p[j])
  BY DEF MoreSpecific
<1>3. \A j \in 1..Len(p) : j \in 1..Len(q) =>
          /\ Rank[p[j].kind] \in Nat /\ Rank[q[j].kind] \in Nat
          /\ SameSeg(p[j], q[j]) \/ SameSeg(q[j], p[j]) => p[j].kind = q[j].kind
  <2> SUFFICES ASSUME NEW j \in 1..Len(p), j \in 1..Len(q)
               PROVE  /\ Rank[p[j].kind] \in Nat /\ Rank[q[j].kind] \in Nat
                      /\ SameSeg(p[j], q[j]) \/ SameSeg(q[j], p[j])
                             => p[j].kind = q[j].kind
    OBVIOUS
  <2>1. p[j] \in Segments /\ q[j] \in Segments
    OBVIOUS
  <2>2. \A s \in Segments : Key(s).kind = s.kind /\ Rank[s.kind] \in Nat
    BY DEF Segments, Kinds, Key, Rank
  <2> QED
    BY <2>1, <2>2 DEF SameSeg
<1>4. /\ i \in Nat /\ k \in Nat
      /\ i \in 1..Len(p) /\ i \in 1..Len(q) /\ k \in 1..Len(p) /\ k \in 1..Len(q)
  BY <1>1, <1>2
<1>5. CASE i < k
  <2>1. i \in 1..(k - 1)
    BY <1>4, <1>5
  <2> QED
    BY <1>1, <1>2, <1>3, <1>4, <2>1
<1>6. CASE k < i
  <2>1. k \in 1..(i - 1)
    BY <1>4, <1>6
  <2> QED
    BY <1>1, <1>2, <1>3, <1>4, <2>1
<1>7. CASE i = k
  BY <1>1, <1>2, <1>3, <1>4, <1>7
<1> QED
  BY <1>4, <1>5, <1>6, <1>7

\* A pattern that matches and is found from the node at hand, alone of those
\* reached from there, is more specific than any other that matches.
LEMMA MostSpecific ==
    ASSUME AnswerInv, Walking,
           NEW b, Candidate(root, path, b), pos <= Len(b),
           SubSeq(b, 1, pos) = trie.pre[node],
           \A p : Candidate(root, path, p) /\ Reach(root, p, node, stage) => p = b,
           NEW q, Candidate(root, path, q), q # b
    PROVE  MoreSpecific(b, q)
<1>1. Typed /\ Aligned /\ ChoicesOnPath
  BY DEF AnswerInv, CapturesInv, WalkInv
<1>2. PICK i \in 1..Len(stack) : Reach(root, q, stack[i].node, stack[i].stage)
  BY DEF AnswerInv, StillReached
<1> DEFINE c == stack[i]
           n == c.pos
           x == trie.pre[c.node]
<1>3. n \in Nat /\ n < pos /\ c.stage \in Nat /\ c.stage > 0 /\ c.node \in Nodes(trie)
  <2>1. c \in ChoiceSet
    BY <1>1 DEF Typed
  <2>2. c.node \in Nodes(trie) /\ c.stage \in 1..4 /\ n \in Nat
    BY <2>1 DEF ChoiceSet
  <2>3. n < pos
    BY <1>1 DEF ChoicesOnPath
  <2> QED
    BY <2>2, <2>3
<1>4. /\ trie = TrieAt[root] /\ root \in Roots /\ TrieOK(trie)
      /\ pos \in Nat
  BY <1>1, AnswerTypes
<1>5. /\ n = Len(x) /\ TrieAt[root].pre[c.node] = x
      /\ \A k \in 1..n : x[k] = trie.pre[node][k]
  BY <1>1, <1>4 DEF ChoicesOnPath, Aligned
<1>6. Rank[trie.pre[node][n + 1].kind] < c.stage
  BY DEF AnswerInv, Passed
<1> HIDE DEF n, c, x
<1>7. /\ b \in Seq(Segments) /\ Len(b) \in Nat
      /\ q \in Seq(Segments) /\ Len(q) \in Nat
  BY <1>4, CandidateAt
<1>8. /\ n < Len(q)
      /\ SubSeq(q, 1, n) = x
      /\ Rank[q[n + 1].kind] >= c.stage
  <2>1. Reach(root, q, c.node, c.stage)
    BY <1>2 DEF c
  <2> QED
    BY <1>3, <1>5, <2>1 DEF Reach
<1>9. \A k \in 1..pos : b[k] = trie.pre[node][k]
  <2>1. pos \in 0..Len(b)
    BY <1>4, <1>7
  <2> QED
    BY <1>7, <2>1, PrefixIs
<1>10. \A k \in 1..n : b[k] = q[k]
  <2>1. n \in 0..Len(q)
    BY <1>3, <1>7, <1>8
  <2>2. \A k \in 1..n : q[k] = x[k]
    BY <1>7, <1>8, <2>1, PrefixIs
  <2>3. \A k \in 1..n : k \in 1..pos
    BY <1>3, <1>4
  <2> QED
    BY <1>5, <1>9, <2>2, <2>3
<1> DEFINE m == n + 1
<1>11. m \in 1..pos /\ m \in 1..Len(b) /\ m <= Len(q) /\ m \in 1..Len(q) /\ m - 1 = n
  BY <1>3, <1>4, <1>7, <1>8
<1>12. Rank[b[m].kind] < Rank[q[m].kind]
  <2>1. b[m] \in Segments /\ q[m] \in Segments
    BY <1>7, <1>11
  <2>2. Rank[b[m].kind] \in Nat /\ Rank[q[m].kind] \in Nat
    BY <2>1 DEF Segments, Kinds, Rank
  <2>3. Rank[b[m].kind] < c.stage /\ Rank[q[m].kind] >= c.stage
    BY <1>6, <1>8, <1>9, <1>11
  <2> QED
    BY <1>3, <2>2, <2>3
<1> HIDE DEF m
<1>13. \A j \in 1..(m - 1) : SameSeg(b[j], q[j])
  BY <1>10, <1>11 DEF SameSeg
<1> QED
  BY <1>11, <1>12, <1>13 DEF MoreSpecific
\* The specification's notions are the walk's own.
LEMMA SemanticsSame ==
    /\ \A p, w : Semantics!Matches(p, w) <=> Matches(p, w)
    /\ \A p, q : Semantics!MoreSpecific(p, q) <=> MoreSpecific(p, q)
    /\ \A p : Semantics!Keys(p) = Keys(p)
    /\ \A p, w : Semantics!Captures(p, w) = Captures(p, w)
<1>1. ASSUME NEW p, NEW w
      PROVE  Semantics!Matches(p, w) <=> Matches(p, w)
  BY DEF Semantics!Matches, Semantics!EndsInRest, Semantics!NothingFrom,
         Semantics!SegMatches, Semantics!Empty, Matches, EndsInRest,
         NothingFrom, SegMatches, Empty
<1>2. ASSUME NEW p, NEW q
      PROVE  Semantics!MoreSpecific(p, q) <=> MoreSpecific(p, q)
  BY DEF Semantics!MoreSpecific, Semantics!SameSeg, Semantics!Key, Semantics!Rank,
         Semantics!Empty, MoreSpecific, SameSeg, Key, Rank, Empty
<1>3. ASSUME NEW p
      PROVE  Semantics!Keys(p) = Keys(p)
  BY DEF Semantics!Keys, Semantics!Key, Semantics!Empty, Keys, Key, Empty
<1>4. ASSUME NEW p, NEW w
      PROVE  Semantics!Captures(p, w) = Captures(p, w)
  <2>1. Semantics!ParamIndices(p) = ParamIndices(p)
    BY DEF Semantics!ParamIndices, ParamIndices
  <2>0. \A S : Semantics!Cardinality(S) = Cardinality(S)
    BY DEF Semantics!Cardinality, Cardinality
  <2>2. Semantics!NumParams(p) = NumParams(p)
    BY <2>0, <2>1 DEF Semantics!NumParams, NumParams
  <2>3. \A i : Semantics!ParamPlace(p, i) = ParamPlace(p, i)
    BY <2>0, <2>1 DEF Semantics!ParamPlace, ParamPlace
  <2>4. \A i : Semantics!CaptureAt(p, w, i) = CaptureAt(p, w, i)
    BY DEF Semantics!CaptureAt, CaptureAt
  <2>5. ASSUME NEW k
        PROVE  (CHOOSE i \in Semantics!ParamIndices(p) : Semantics!ParamPlace(p, i) = k)
                 = (CHOOSE i \in ParamIndices(p) : ParamPlace(p, i) = k)
    BY <2>1, <2>3
  <2> QED
    BY <2>2, <2>4, <2>5 DEF Semantics!Captures, Captures
<1> QED
  BY <1>1, <1>2, <1>3, <1>4
\* A route whose pattern is more specific than every other that matches is the
\* one the specification answers with.
LEMMA AnswerIs ==
    ASSUME NEW r \in Roots, NEW w, NEW b, Candidate(r, w, b),
           \A q : Candidate(r, w, q) /\ q # b => MoreSpecific(b, q)
    PROVE  Semantics!Answer(RoutesAt[r], w) =
               [route |-> RoutesAt[r][b], captures |-> Captures(b, w)]
<1> DEFINE P == DOMAIN RoutesAt[r]
           IsBest(p) == /\ Matches(p, w)
                        /\ \A q \in P : Matches(q, w) /\ Keys(q) # Keys(p) => MoreSpecific(p, q)
<1>1. \A q : Candidate(r, w, q) <=> q \in P /\ Matches(q, w)
  BY DEF Candidate
<1>2. ASSUME NEW q, Candidate(r, w, q)
      PROVE  q \in Seq(Segments) /\ Keys(q) = q
  <2>1. q \in Seq(Segments) /\ PrefixOK(q)
    BY <1>2, CandidateAt
  <2>2. q = [i \in 1..Len(q) |-> q[i]]
    BY <2>1
  <2>3. \A i \in 1..Len(q) : Key(q[i]) = q[i]
    BY <2>1 DEF PrefixOK
  <2> QED
    BY <2>1, <2>2, <2>3 DEF Keys
<1>3. b \in P /\ IsBest(b)
  BY <1>1
<1>4. ASSUME NEW c \in P, IsBest(c)
      PROVE  c = b
  <2> SUFFICES ASSUME c # b PROVE FALSE
    OBVIOUS
  <2>1. Candidate(r, w, c)
    BY <1>1, <1>4
  <2>2. MoreSpecific(b, c)
    BY <2>1
  <2>3. b \in P /\ Matches(b, w) /\ Keys(b) # Keys(c)
    BY <1>1, <1>2, <2>1
  <2>4. MoreSpecific(c, b)
    BY <1>4, <2>3
  <2> QED
    BY <1>2, <2>1, <2>2, <2>4, OneMoreSpecific
<1>5. Semantics!Best(P, w) = CHOOSE p \in P : IsBest(p)
  <2>1. \A p : IsBest(p) <=>
            /\ Semantics!Matches(p, w)
            /\ \A q \in P :
                   Semantics!Matches(q, w) /\ Semantics!Keys(q) # Semantics!Keys(p)
                       => Semantics!MoreSpecific(p, q)
    BY SemanticsSame
  <2> HIDE DEF IsBest, P
  <2> QED
    BY <2>1 DEF Semantics!Best
<1>6. Semantics!Best(P, w) = b
  <2> HIDE DEF IsBest, P
  <2> QED
    BY <1>3, <1>4, <1>5
<1>7. Semantics!Found(P, w)
  BY <1>1, SemanticsSame DEF Semantics!Found
<1> QED
  BY <1>6, <1>7, SemanticsSame DEF Semantics!Answer

\* The specification finds no route when none matches.
LEMMA AnswerNone ==
    ASSUME NEW r, NEW w, \A q : ~Candidate(r, w, q)
    PROVE  Semantics!Answer(RoutesAt[r], w) = [route |-> None, captures |-> << >>]
<1>1. ~Semantics!Found(DOMAIN RoutesAt[r], w)
  BY SemanticsSame DEF Candidate, Semantics!Found
<1> QED
  BY <1>1 DEF Semantics!Answer

\* The first captures, when they are a pattern's.
LEMMA FirstCaptures ==
    ASSUME NEW T, NEW vs \in [1..MaxParams -> T], NEW p, NEW w,
           NumParams(p) \in 0..MaxParams,
           \A k \in 1..NumParams(p) : vs[k] = Captures(p, w)[k]
    PROVE  SubSeq(vs, 1, NumParams(p)) = Captures(p, w)
<1> DEFINE n == NumParams(p)
<1>1. n \in Nat /\ MaxParams \in Nat /\ n <= MaxParams
  BY LimitsAssumption
<1>2. SubSeq(vs, 1, n) = [k \in 1..n |-> vs[k]]
  BY <1>1
<1>3. Captures(p, w) = [k \in 1..n |-> Captures(p, w)[k]]
  BY DEF Captures
<1> QED
  BY <1>2, <1>3
-----------------------------------------------------------------------------
(* The refinement.                                                         *)

\* The right answer: the route of a pattern more specific than every other that
\* matches with its captures, or none when no pattern matches.
RightFor(r, w, route, caps) ==
    \/ \E b : /\ Candidate(r, w, b)
              /\ \A q : Candidate(r, w, q) /\ q # b => MoreSpecific(b, q)
              /\ route = RoutesAt[r][b]
              /\ caps = Captures(b, w)
    \/ /\ \A q : ~Candidate(r, w, q)
       /\ route = None
       /\ caps = << >>

Answered == ~Walking => RightFor(root, path, result.route, Captured1to(result.count))

\* Ending at a node with a route, the walk answers right.
LEMMA FinishRight ==
    ASSUME AnswerInv, Finish
    PROVE  Answered'
<1> DEFINE b == trie.pre[node]
<1>1. Typed /\ Aligned /\ MatchedSoFar /\ Held /\ Walking /\ Ends
  BY DEF AnswerInv, CapturesInv, WalkInv, Finish
<1>2. /\ TrieOK(trie) /\ trie = TrieAt[root] /\ root \in Roots
      /\ node \in Nodes(trie) /\ b \in Seq(Segments)
      /\ pos = Len(b) /\ pos \in Nat /\ pos = Len(path)
      /\ Here.route # None /\ stage = 0
  BY <1>1, AnswerTypes DEF Ends, AtEnd
<1>3. b \in DOMAIN RoutesAt[root] /\ RoutesAt[root][b] = Here.route
  BY <1>2, RoutesAre DEF RoutesAt, Here
<1>4. Matches(b, path)
  <2>1. ~EndsInRest(b)
    <3>1. SUFFICES ASSUME b # << >> PROVE b[Len(b)].kind # "rest"
      BY DEF EndsInRest
    <3>2. Len(b) \in 1..pos
      <4>1. Len(b) # 0 /\ Len(b) \in Nat
        BY <1>2, <3>1, EmptySeq
      <4> QED
        BY <1>2, <4>1
    <3> QED
      BY <1>1, <3>2 DEF MatchedSoFar
  <2> QED
    BY <1>1, <1>2, <2>1 DEF Matches, MatchedSoFar
<1>5. Candidate(root, path, b)
  BY <1>3, <1>4 DEF Candidate
<1>6. ASSUME NEW p, Candidate(root, path, p), Reach(root, p, node, stage)
      PROVE  p = b
  BY <1>1, <1>6, Enters DEF Ends
<1>7. pos <= Len(b) /\ SubSeq(b, 1, pos) = trie.pre[node]
  <2>1. SubSeq(b, 1, Len(b)) = b
    BY <1>2, SubSeqFull
  <2>2. pos <= pos
    BY <1>2
  <2> QED
    BY <1>2, <2>1, <2>2
<1>8. ASSUME NEW q, Candidate(root, path, q), q # b
      PROVE  MoreSpecific(b, q)
  BY <1>1, <1>5, <1>6, <1>7, <1>8, MostSpecific
<1>9. RightFor(root, path, Here.route, Captures(b, path))
  BY <1>3, <1>5, <1>8 DEF RightFor
<1>10. SubSeq(values, 1, nv) = Captures(b, path)
  <2>1. nv = NumParams(b) /\ NumParams(b) \in 0..MaxParams
    BY <1>1, <1>2, PrefixType DEF Aligned
  <2>2. \A k \in 1..NumParams(b) : values[k] = Captures(b, path)[k]
    BY <1>1 DEF Held, Holds
  <2>3. values \in [1..MaxParams -> {Stale} \cup AnyView]
    BY <1>1 DEF Typed
  <2> HIDE DEF b
  <2>4. SubSeq(values, 1, NumParams(b)) = Captures(b, path)
    BY <2>1, <2>2, <2>3, FirstCaptures
  <2> QED
    BY <2>1, <2>4
<1>11. /\ root' = root /\ path' = path /\ result'.route = Here.route
       /\ Captured1to(result.count)' = SubSeq(values, 1, nv)
  BY DEF Finish, Return, Captured1to
<1> QED
  BY <1>9, <1>10, <1>11 DEF Answered

\* Taking a catch-all, the walk answers right.
LEMMA RestRight ==
    ASSUME AnswerInv, Rest
    PROVE  Answered'
<1> DEFINE c == Here.rest
           a == trie.pre[node]
           s == [kind |-> "rest", text |-> Empty]
           b == trie.pre[c]
<1>1. /\ Typed /\ Aligned /\ MatchedSoFar /\ Held /\ Walking /\ ToRest
      /\ ~(ToLiteral \/ ToU64 \/ ToI64 \/ ToParam)
  BY DEF AnswerInv, CapturesInv, WalkInv, Rest
<1>2. /\ TrieOK(trie) /\ trie = TrieAt[root] /\ root \in Roots
      /\ node \in Nodes(trie) /\ NodeOK(trie, node) /\ a \in Seq(Segments)
      /\ pos = Len(a) /\ pos \in Nat /\ pos \in 0..Len(path) /\ Len(path) \in Nat
      /\ nv \in Nat
  BY <1>1, AnswerTypes
<1>3. /\ c # None /\ ~AtEnd /\ ~NothingFrom(path, pos + 1)
      /\ pos < Len(path)
  BY <1>1, <1>2 DEF ToRest, AtEnd
<1>4. /\ c \in Nodes(trie) /\ s \in Segments /\ s.kind = "rest"
      /\ b = Append(a, s) /\ b \in Seq(Segments)
      /\ Len(b) = pos + 1 /\ NumParams(b) = nv + 1
      /\ trie.node[c].route # None
  <2>1. "rest" \in Kinds \ {"literal"}
    BY DEF Kinds
  <2>2. /\ c \in Nodes(trie) /\ s \in Segments
        /\ b = Append(a, s)
        /\ Len(b) = Len(a) + 1 /\ NumParams(b) = NumParams(a) + 1
    BY <1>2, <1>3, <2>1, ParamChild DEF Here
  <2>3. trie.node[c].route # None
    BY <1>2, <1>3 DEF NodeOK, Here
  <2> QED
    BY <1>1, <1>2, <2>2, <2>3, PrefixType DEF Aligned
<1>5. b[pos + 1] = s /\ \A k \in 1..pos : b[k] = a[k]
  BY <1>2, <1>4, AppendProperties
<1>6. b \in DOMAIN RoutesAt[root] /\ RoutesAt[root][b] = trie.node[c].route
  BY <1>2, <1>4, RoutesAre DEF RoutesAt
<1> HIDE DEF b, s, c, a
<1>7. Matches(b, path)
  <2>1. EndsInRest(b)
    BY <1>2, <1>4, <1>5 DEF EndsInRest
  <2>2. \A i \in 1..(Len(b) - 1) : SegMatches(b[i], path[i])
    <3>1. \A i \in 1..(Len(b) - 1) : i \in 1..pos
      BY <1>2, <1>4
    <3>2. \A i \in 1..pos : SegMatches(a[i], path[i])
      BY <1>1 DEF MatchedSoFar, a
    <3> QED
      BY <1>5, <3>1, <3>2
  <2>3. Len(b) <= Len(path)
    BY <1>2, <1>3, <1>4
  <2> QED
    BY <1>3, <1>4, <2>1, <2>2, <2>3 DEF Matches
<1>8. Candidate(root, path, b)
  BY <1>6, <1>7 DEF Candidate
<1>9. ASSUME NEW p, Candidate(root, path, p), Reach(root, p, node, stage)
      PROVE  p = b
  <2>1. ~Ends
    BY <1>3 DEF Ends
  <2>2. p \in Seq(Segments) /\ Len(p) \in Nat
    BY <1>2, <1>9, CandidateAt
  <2>3. PICK d \in Nodes(trie) :
            Spells(trie, node, p[pos + 1], d) /\ trie.pre[d] = SubSeq(p, 1, pos + 1)
    BY <1>1, <1>9, <2>1, Enters
  <2>4. /\ p[pos + 1].kind # "literal" /\ p[pos + 1].kind # "u64"
        /\ p[pos + 1].kind # "i64" /\ p[pos + 1].kind # "param"
        /\ p[pos + 1].kind = "rest" => Len(p) = pos + 1
    BY <1>1, <1>9, <2>1, Enters
  <2>5. p[pos + 1].kind = "rest"
    BY <2>3, <2>4 DEF Spells, Segments, Kinds
  <2>6. d = c
    BY <2>3, <2>5 DEF Spells, Here, c
  <2>7. SubSeq(p, 1, pos + 1) = p
    BY <2>2, <2>4, <2>5, SubSeqFull
  <2> QED
    BY <2>3, <2>6, <2>7 DEF b
<1>10. pos <= Len(b) /\ SubSeq(b, 1, pos) = trie.pre[node]
  <2>1. pos \in 0..Len(b) /\ pos <= Len(b)
    BY <1>2, <1>4
  <2>2. /\ SubSeq(b, 1, pos) \in Seq(Segments)
        /\ Len(SubSeq(b, 1, pos)) = Len(a)
        /\ \A k \in 1..Len(a) : SubSeq(b, 1, pos)[k] = a[k]
    BY <1>2, <1>4, <1>5, <2>1, PrefixIs
  <2>3. SubSeq(b, 1, pos) = a
    BY <1>2, <2>2, SeqEqual
  <2> QED
    BY <2>1, <2>3 DEF a
<1>11. ASSUME NEW q, Candidate(root, path, q), q # b
       PROVE  MoreSpecific(b, q)
  BY <1>1, <1>8, <1>9, <1>10, <1>11, MostSpecific
<1>12. RightFor(root, path, trie.node[c].route, Captures(b, path))
  BY <1>6, <1>8, <1>11 DEF RightFor
<1>13. nv + 1 \in 0..MaxParams
  BY <1>1, <1>2, LimitsAssumption DEF ToRest
<1>14. values' = [values EXCEPT ![nv + 1] = <<pos + 1, Len(path)>>]
  BY DEF Rest
<1>15. /\ values' \in [1..MaxParams -> {Stale} \cup AnyView \cup {<<pos + 1, Len(path)>>}]
       /\ \A k \in 1..nv : values'[k] = values[k]
       /\ values'[nv + 1] = <<pos + 1, Len(path)>>
  BY <1>1, <1>2, <1>13, <1>14, LimitsAssumption DEF Typed
<1>16. SubSeq(values', 1, nv + 1) = Captures(b, path)
  <2>1. ASSUME NEW k \in 1..(nv + 1)
        PROVE  values'[k] = Captures(b, path)[k]
    <3>1. /\ ParamPlace(b, pos + 1) = nv + 1
          /\ Captures(b, path)[nv + 1] = CaptureAt(b, path, pos + 1)
      <4>1. NumParams(a) = nv
        BY <1>1 DEF Aligned, a
      <4>2. s.kind # "literal"
        BY <1>4
      <4> QED
        BY <1>2, <1>4, <4>1, <4>2, CapturesAdded
    <3>2. CASE k = nv + 1
      BY <1>4, <1>5, <1>15, <3>1, <3>2 DEF CaptureAt
    <3>3. CASE k # nv + 1
      <4>1. k \in 1..nv
        BY <1>2, <3>3
      <4>2. /\ NumParams(a) = nv /\ PlacesFilled(a)
            /\ values[k] = Captures(a, path)[k]
        BY <1>1, <4>1 DEF Aligned, Held, Holds, a
      <4>3. Captures(Append(a, s), path)[k] = Captures(a, path)[k]
        BY <1>2, <1>4, <3>1, <3>3, <4>1, <4>2, CapturesBefore
      <4> QED
        BY <1>4, <1>15, <4>1, <4>2, <4>3
    <3> QED
      BY <3>2, <3>3
  <2>2. NumParams(b) = nv + 1 /\ NumParams(b) \in 0..MaxParams
    BY <1>4, <1>13
  <2>3. \A k \in 1..NumParams(b) : values'[k] = Captures(b, path)[k]
    BY <2>1, <2>2
  <2> DEFINE T == {Stale} \cup AnyView \cup {<<pos + 1, Len(path)>>}
             vs == values'
  <2>5. vs \in [1..MaxParams -> T] /\ \A k \in 1..NumParams(b) : vs[k] = Captures(b, path)[k]
    BY <1>15, <2>3
  <2> HIDE DEF T, vs
  <2>6. SubSeq(vs, 1, NumParams(b)) = Captures(b, path)
    BY <2>2, <2>5, FirstCaptures
  <2>7. SubSeq(values', 1, NumParams(b)) = Captures(b, path)
    BY <2>6 DEF vs
  <2> QED
    BY <2>2, <2>7
<1>17. /\ root' = root /\ path' = path /\ result'.route = trie.node[c].route
       /\ Captured1to(result.count)' = SubSeq(values', 1, nv + 1)
  BY DEF Rest, Return, Captured1to, c
<1> QED
  BY <1>12, <1>16, <1>17 DEF Answered

\* Giving up, the walk answers right.
LEMMA FailRight ==
    ASSUME AnswerInv, Fail
    PROVE  Answered'
<1>1. Typed /\ Aligned /\ MatchedSoFar /\ Walking /\ Nothing /\ stack = << >>
  BY DEF AnswerInv, CapturesInv, WalkInv, Fail
<1>2. ASSUME NEW p, Candidate(root, path, p)
      PROVE  FALSE
  <2>1. \/ Reach(root, p, node, stage)
        \/ \E i \in 1..Len(stack) : Reach(root, p, stack[i].node, stack[i].stage)
    BY <1>1, <1>2 DEF AnswerInv, StillReached
  <2> QED
    BY <1>1, <1>2, <2>1, NothingHere
<1>3. RightFor(root, path, None, << >>)
  BY <1>2 DEF RightFor
<1>4. SubSeq(values, 1, 0) = << >>
  BY SubSeqEmpty
<1>5. /\ root' = root /\ path' = path /\ result'.route = None
      /\ Captured1to(result.count)' = SubSeq(values, 1, 0)
  BY DEF Fail, Return, Captured1to
<1> QED
  BY <1>3, <1>4, <1>5 DEF Answered

\* A walk that has returned has answered right, and stays so.
LEMMA AnsweredStep == AnswerInv /\ Answered /\ [Next]_vars => Answered'
<1> SUFFICES ASSUME AnswerInv, Answered, [Next]_vars PROVE Answered'
  OBVIOUS
<1>1. CASE Finish \/ Rest \/ Fail
  BY <1>1, FinishRight, RestRight, FailRight
<1>2. CASE Literal \/ U64 \/ I64 \/ Param \/ Backtrack
  BY <1>2 DEF Literal, U64, I64, Param, Backtrack, Descend, Answered, Walking
<1>3. CASE UNCHANGED vars
  BY <1>3 DEF vars, Answered, Walking, Captured1to
<1> QED
  BY <1>1, <1>2, <1>3 DEF Next

\* The right answer is the one the specification gives.
LEMMA RightIsAnswer ==
    ASSUME NEW r \in Roots, NEW w, NEW route, NEW caps, RightFor(r, w, route, caps)
    PROVE  [route |-> route, captures |-> caps] = Semantics!Answer(RoutesAt[r], w)
<1>1. CASE \A q : ~Candidate(r, w, q)
  BY <1>1, AnswerNone DEF RightFor
<1>2. CASE \E q : Candidate(r, w, q)
  <2>1. PICK b : /\ Candidate(r, w, b)
                 /\ \A q : Candidate(r, w, q) /\ q # b => MoreSpecific(b, q)
                 /\ route = RoutesAt[r][b]
                 /\ caps = Captures(b, w)
    BY <1>2 DEF RightFor
  <2> QED
    BY <2>1, AnswerIs
<1> QED
  BY <1>1, <1>2

\* The walk implements the abstract lookup, but for its liveness: for every trie
\* and every path, the one step a caller sees returns the most specific of the
\* routes that match and exactly that route's captures, or no route when none
\* matches.
THEOREM WalkAnswersRight == Spec => Semantics!Init /\ [][Semantics!Next]_(Semantics!vars)
<1>1. Init => Semantics!Init
  BY DEF Init, Semantics!Init, Walking
<1>2. AnswerInv /\ Answered /\ [Next]_vars => [Semantics!Next]_(Semantics!vars)
  <2> SUFFICES ASSUME AnswerInv, Answered, [Next]_vars
               PROVE  [Semantics!Next]_(Semantics!vars)
    OBVIOUS
  <2>1. root \in Roots /\ Answered'
    BY AnsweredStep DEF AnswerInv, CapturesInv, WalkInv, Typed
  <2>2. ASSUME Walking, ~Walking', root' = root, path' = path
        PROVE  Semantics!Next
    <3>1. RightFor(root, path, result'.route, Captured1to(result.count)')
      BY <2>1, <2>2 DEF Answered
    <3>2. [route |-> result'.route, captures |-> Captured1to(result.count)']
              = Semantics!Answer(RoutesAt[root], path)
      BY <2>1, <3>1, RightIsAnswer
    <3> QED
      BY <2>2, <3>2 DEF Semantics!Next, Semantics!Find
  <2>3. ASSUME root' = root, path' = path, pc' = pc, Walking \/ UNCHANGED <<values, result>>
        PROVE  UNCHANGED Semantics!vars
    BY <2>3 DEF Semantics!vars, Walking, Captured1to
  <2>4. CASE Finish \/ Rest \/ Fail
    BY <2>2, <2>4 DEF Finish, Rest, Fail, Return, Walking
  <2>5. CASE Literal \/ U64 \/ I64 \/ Param
    BY <2>3, <2>5 DEF Literal, U64, I64, Param, Descend
  <2>6. CASE Backtrack
    BY <2>3, <2>6 DEF Backtrack
  <2>7. CASE UNCHANGED vars
    BY <2>3, <2>7 DEF vars
  <2> QED
    BY <2>4, <2>5, <2>6, <2>7 DEF Next
<1>3. Init => Answered
  BY DEF Init, Answered, Walking
<1>4. Spec => [](AnswerInv /\ Answered)
  BY <1>3, InitBegins, AnswerBegins, AnswerStep, AnsweredStep, PTL DEF Spec
<1> QED
  BY <1>1, <1>2, <1>4, PTL DEF Spec
=============================================================================

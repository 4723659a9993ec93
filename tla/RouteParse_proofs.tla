-------------------------- MODULE RouteParse_proofs --------------------------
(***************************************************************************)
(* Proofs about the parser of patterns, for every text, alphabet and       *)
(* limits: what it writes stays in its array, it reads what the rules      *)
(* allow and nothing else, the error it names is one the text has, and its *)
(* offset is where the rules are broken.                                   *)
(***************************************************************************)
EXTENDS RouteParse, Numbers_proofs, FiniteSetTheorems, SequenceTheorems, TLAPS

SegmentsRead == [kind : Kinds, text : Seq(Alphabet)]

\* The inductive invariant: where the segment at hand starts is needed for its
\* text, and the counter of parameters for its bound.
IInv ==
    /\ text \in Seq(Alphabet)
    /\ pos \in 1..(Len(text) + 1)
    /\ segs \in Seq(SegmentsRead)
    /\ params \in Nat
    /\ SegmentsFit

-----------------------------------------------------------------------------
(* Texts.                                                                  *)

\* text.find: there is a first place of a symbol, or none and the text's end is
\* taken.
LEMMA FirstAtIs ==
    ASSUME NEW s \in Seq(Alphabet), NEW x, NEW i \in 1..(Len(s) + 1)
    PROVE  /\ FirstAt(s, x, i) \in i..(Len(s) + 1)
           /\ FirstAt(s, x, i) > Len(s) \/ s[FirstAt(s, x, i)] = x
           /\ \A k \in i..(FirstAt(s, x, i) - 1) : s[k] # x
<1> DEFINE P(j) == (j > Len(s) \/ s[j] = x) /\ \A k \in i..(j - 1) : s[k] # x
           T == {j \in i..(Len(s) + 1) : j > Len(s) \/ s[j] = x}
<1>1. Len(s) \in Nat /\ i \in Nat
  OBVIOUS
<1>2. T \in SUBSET Nat /\ Len(s) + 1 \in T
  BY <1>1
<1>3. PICK j \in T : \A y \in T : j <= y
  BY <1>2, LeastNumber
<1>4. \A k \in i..(j - 1) : s[k] # x
  <2> SUFFICES ASSUME NEW k \in i..(j - 1), s[k] = x PROVE FALSE
    OBVIOUS
  <2>1. k \in i..(Len(s) + 1) /\ k < j /\ k \in Nat /\ j \in Nat
    BY <1>1
  <2>2. k \in T
    BY <2>1
  <2> QED
    BY <2>1, <2>2, <1>3
<1>5. \E q \in i..(Len(s) + 1) : P(q)
  BY <1>4
<1> QED
  BY <1>5 DEF FirstAt

\* A part of a text is one.
LEMMA PartOfText ==
    ASSUME NEW s \in Seq(Alphabet), NEW a \in Int, NEW b \in Int, 1 <= a, b <= Len(s)
    PROVE  SubSeq(s, a, b) \in Seq(Alphabet)
<1>1. \A i \in a..b : s[i] \in Alphabet
  OBVIOUS
<1> QED
  BY <1>1, SubSeqProperties

\* Its bytes are those of the text from there on.
LEMMA PartBytes ==
    ASSUME NEW s \in Seq(Alphabet), NEW a \in Nat, NEW b \in Int,
           1 <= a, a <= b + 1, b <= Len(s)
    PROVE  /\ SubSeq(s, a, b) \in Seq(Alphabet)
           /\ Len(SubSeq(s, a, b)) = b + 1 - a
           /\ \A i \in 1..(b + 1 - a) : SubSeq(s, a, b)[i] = s[a + i - 1]
<1> DEFINE t == SubSeq(s, a, b)
<1>1. \A i \in a..b : s[i] \in Alphabet
  OBVIOUS
<1>2. t \in Seq(Alphabet)
  BY <1>1, SubSeqProperties
<1>3. Len(t) = IF a <= b THEN b - a + 1 ELSE 0
  BY <1>1, SubSeqProperties
<1>4. \A i \in 1..(b - a + 1) : t[i] = s[a + i - 1]
  BY <1>1, SubSeqProperties
<1> HIDE DEF t
<1>5. Len(t) = b + 1 - a
  BY <1>3
<1>6. 1..(b + 1 - a) = 1..(b - a + 1)
  OBVIOUS
<1> QED
  BY <1>2, <1>4, <1>5, <1>6 DEF t

\* What is in the braces of a segment, and the name.
LEMMA SegmentParts ==
    ASSUME NEW s \in Seq(Alphabet)
    PROVE  /\ Inner(s) \in Seq(Alphabet)
           /\ Body(s) \in Seq(Alphabet)
           /\ Colon(s) \in 1..(Len(Body(s)) + 1)
           /\ Name(s) \in Seq(Alphabet)
<1>1. Inner(s) \in Seq(Alphabet)
  BY PartOfText DEF Inner
<1>2. Body(s) \in Seq(Alphabet)
  BY <1>1 DEF Body, IsRest
<1>3. Colon(s) \in 1..(Len(Body(s)) + 1)
  BY <1>2, FirstAtIs DEF Colon
<1>4. Name(s) \in Seq(Alphabet)
  BY <1>2, <1>3, PartOfText DEF Name
<1> QED
  BY <1>1, <1>2, <1>3, <1>4

\* The segment at hand.
LEMMA SegmentText ==
    ASSUME text \in Seq(Alphabet), pos \in 1..(Len(text) + 1)
    PROVE  /\ End \in pos..(Len(text) + 1)
           /\ Seg \in Seq(Alphabet)
           /\ Name(Seg) \in Seq(Alphabet)
<1>1. End \in pos..(Len(text) + 1)
  BY FirstAtIs DEF End
<1>2. Seg \in Seq(Alphabet)
  BY <1>1, PartOfText DEF Seg
<1>3. Name(Seg) \in Seq(Alphabet)
  BY <1>2, SegmentParts
<1> QED
  BY <1>1, <1>2, <1>3

-----------------------------------------------------------------------------
(* Parameters.                                                             *)

\* The parameters read are finitely many.
LEMMA ParamsFinite ==
    ASSUME NEW p \in Seq(SegmentsRead)
    PROVE  IsFiniteSet(ParamsOf(p)) /\ Cardinality(ParamsOf(p)) \in Nat
<1>1. IsFiniteSet(1..Len(p))
  BY FS_Interval
<1>2. IsFiniteSet(ParamsOf(p))
  BY <1>1, FS_Subset DEF ParamsOf
<1> QED
  BY <1>2, FS_CardinalityType

\* A segment more adds a parameter exactly when it is one.
LEMMA ParamsAppend ==
    ASSUME NEW p \in Seq(SegmentsRead), NEW s \in SegmentsRead
    PROVE  /\ ParamsOf(Append(p, s))
                = IF s.kind = "literal" THEN ParamsOf(p) ELSE ParamsOf(p) \cup {Len(p) + 1}
           /\ Cardinality(ParamsOf(Append(p, s)))
                = Cardinality(ParamsOf(p)) + (IF s.kind = "literal" THEN 0 ELSE 1)
<1> DEFINE q == Append(p, s)
<1>1. /\ q \in Seq(SegmentsRead)
      /\ Len(q) = Len(p) + 1
      /\ \A i \in 1..Len(p) : q[i] = p[i]
      /\ q[Len(p) + 1] = s
  OBVIOUS
<1>2. ParamsOf(q) = IF s.kind = "literal" THEN ParamsOf(p) ELSE ParamsOf(p) \cup {Len(p) + 1}
  BY <1>1 DEF ParamsOf
<1>3. Len(p) + 1 \notin ParamsOf(p)
  BY DEF ParamsOf
<1>4. Cardinality(ParamsOf(p) \cup {Len(p) + 1}) = Cardinality(ParamsOf(p)) + 1
  BY <1>3, ParamsFinite, FS_AddElement
<1> QED
  BY <1>2, <1>4, ParamsFinite

-----------------------------------------------------------------------------
(* The steps.                                                              *)

\* What a segment has passed that is accepted.
LEMMA TestsPassed ==
    ASSUME Tests[1] = "None"
    PROVE  /\ ~AfterRest
           /\ Len(segs) # MaxSegments
           /\ IsParam(Seg) => /\ ~IsRest(Seg) /\ HasType(Seg) => \E t \in Types : Type(Seg) = <<t>>
                         /\ ~Named(Name(Seg))
                         /\ params # MaxParams
<1>1. ~AfterRest
  BY DEF Tests
<1>2. Len(segs) # MaxSegments
  BY <1>1 DEF Tests
<1>3. ASSUME IsParam(Seg)
      PROVE  /\ ~IsRest(Seg) /\ HasType(Seg) => \E t \in Types : Type(Seg) = <<t>>
             /\ ~Named(Name(Seg))
             /\ params # MaxParams
  BY <1>1, <1>2, <1>3 DEF Tests
<1> QED
  BY <1>1, <1>2, <1>3

\* A segment accepted is the literal read, or a parameter with the name read.
LEMMA SegmentIs ==
    ASSUME text \in Seq(Alphabet), pos \in 1..(Len(text) + 1), Tests[1] = "None"
    PROVE  /\ Segment(Seg) \in SegmentsRead
           /\ Segment(Seg).kind = "literal" <=> ~IsParam(Seg)
           /\ IsParam(Seg) => Segment(Seg).text = Name(Seg)
<1>1. CASE ~IsParam(Seg)
  <2>1. Segment(Seg) = [kind |-> "literal", text |-> Seg]
    BY <1>1 DEF Segment
  <2> QED
    BY <1>1, <2>1, SegmentText DEF SegmentsRead, Kinds
<1>2. CASE IsParam(Seg)
  <2> DEFINE kind == IF IsRest(Seg) THEN "rest" ELSE IF HasType(Seg) THEN KindOf(Type(Seg)[1]) ELSE "param"
  <2>1. Segment(Seg) = [kind |-> kind, text |-> Name(Seg)]
    BY <1>2 DEF Segment
  <2>2. kind \in {"rest", "u64", "i64", "param"}
    <3>1. ~IsRest(Seg) /\ HasType(Seg) => Type(Seg)[1] \in Types
      BY <1>2, TestsPassed
    <3> QED
      BY <3>1 DEF KindOf, Types
  <2> HIDE DEF kind
  <2> QED
    BY <1>2, <2>1, <2>2, SegmentText DEF SegmentsRead, Kinds
<1> QED
  BY <1>1, <1>2

\* Before the first symbol nothing is read.
LEMMA InitInv == Init => IInv
<1> SUFFICES ASSUME Init PROVE IInv
  OBVIOUS
<1>1. /\ text \in Seq(Alphabet) /\ pos = 1 /\ segs = << >> /\ params = 0
      /\ Len(text) \in Nat
  BY InputsAssumption DEF Init
<1>2. ParamsOf(segs) = {} /\ Cardinality(ParamsOf(segs)) = 0
  BY <1>1, FS_EmptySet DEF ParamsOf
<1>3. SegmentsFit
  BY <1>1, <1>2, BoundsAssumption DEF SegmentsFit
<1> QED
  BY <1>1, <1>3 DEF IInv

\* A step that leaves the segments alone.
LEMMA KeptInv ==
    ASSUME IInv, text' = text, segs' = segs, params' = params, pos' \in 1..(Len(text) + 1)
    PROVE  IInv'
BY DEF IInv, SegmentsFit, ParamsOf

\* Accepting a segment that passed its tests keeps the invariant.
LEMMA AcceptInv ==
    ASSUME IInv, Accept
    PROVE  IInv'
<1>1. /\ text \in Seq(Alphabet) /\ pos \in 1..(Len(text) + 1)
      /\ segs \in Seq(SegmentsRead) /\ params \in Nat
      /\ SegmentsFit
  BY DEF IInv
<1>2. /\ Tests[1] = "None"
      /\ segs' = Append(segs, Segment(Seg))
      /\ params' = params + (IF IsParam(Seg) THEN 1 ELSE 0)
      /\ pos' = pos \/ (~IsLast /\ pos' = End + 1)
      /\ text' = text
  BY DEF Accept
<1>3. /\ Segment(Seg) \in SegmentsRead
      /\ Segment(Seg).kind = "literal" <=> ~IsParam(Seg)
      /\ IsParam(Seg) => Segment(Seg).text = Name(Seg)
  BY <1>1, <1>2, SegmentIs
<1>4. /\ ~AfterRest /\ Len(segs) # MaxSegments
      /\ IsParam(Seg) => ~Named(Name(Seg)) /\ params # MaxParams
  BY <1>2, TestsPassed
<1>5. /\ segs' \in Seq(SegmentsRead)
      /\ Len(segs') = Len(segs) + 1 /\ Len(segs) \in Nat
      /\ \A i \in 1..Len(segs) : segs'[i] = segs[i]
      /\ segs'[Len(segs) + 1] = Segment(Seg)
  BY <1>1, <1>2, <1>3
<1>6. pos' \in 1..(Len(text') + 1)
  <2>1. Len(text) \in Nat
    BY <1>1
  <2> QED
    BY <1>1, <1>2, <2>1, SegmentText DEF IsLast
<1>7. params' \in Nat
  BY <1>1, <1>2
<1>8. /\ ParamsOf(segs') = IF IsParam(Seg) THEN ParamsOf(segs) \cup {Len(segs) + 1} ELSE ParamsOf(segs)
      /\ Cardinality(ParamsOf(segs')) = Cardinality(ParamsOf(segs)) + (IF IsParam(Seg) THEN 1 ELSE 0)
  BY <1>1, <1>2, <1>3, ParamsAppend
<1>9. SegmentsFit'
  <2>1. Len(segs') <= MaxSegments
    BY <1>1, <1>4, <1>5, BoundsAssumption DEF SegmentsFit
  <2>2. params' = Cardinality(ParamsOf(segs')) /\ params' <= MaxParams
    <3>1. params = Cardinality(ParamsOf(segs)) /\ params <= MaxParams
      BY <1>1 DEF SegmentsFit
    <3> QED
      BY <3>1, <1>1, <1>2, <1>4, <1>8, BoundsAssumption
  <2>3. ASSUME NEW k \in 1..Len(segs'), segs'[k].kind = "rest"
        PROVE  k = Len(segs')
    <3> SUFFICES ASSUME k # Len(segs') PROVE FALSE
      OBVIOUS
    <3>1. k \in 1..Len(segs) /\ segs[k].kind = "rest"
      BY <2>3, <1>5
    <3>2. k = Len(segs) /\ segs # << >>
      BY <3>1, <1>1 DEF SegmentsFit
    <3> QED
      BY <3>1, <3>2, <1>4 DEF AfterRest
  <2>4. ASSUME NEW j \in ParamsOf(segs'), NEW k \in ParamsOf(segs'),
               segs'[j].text = segs'[k].text
        PROVE  j = k
    <3>1. \A i \in ParamsOf(segs) : /\ i \in 1..Len(segs) /\ segs'[i] = segs[i]
                                    /\ segs[i].kind # "literal"
      BY <1>5 DEF ParamsOf
    <3>2. CASE j \in ParamsOf(segs) /\ k \in ParamsOf(segs)
      BY <2>4, <3>1, <3>2, <1>1 DEF SegmentsFit
    <3>3. IsParam(Seg) => \A i \in ParamsOf(segs) : segs'[i].text # segs'[Len(segs) + 1].text
      BY <3>1, <1>3, <1>4, <1>5 DEF Named
    <3> QED
      BY <2>4, <3>2, <3>3, <1>8
  <2> QED
    BY <2>1, <2>2, <2>3, <2>4 DEF SegmentsFit
<1> QED
  BY <1>1, <1>2, <1>5, <1>6, <1>7, <1>9 DEF IInv

\* Every step of the parser keeps the invariant.
LEMMA NextInv == IInv /\ [Next]_vars => IInv'
<1> SUFFICES ASSUME IInv, [Next]_vars PROVE IInv'
  OBVIOUS
<1>1. Len(text) \in Nat /\ pos \in 1..(Len(text) + 1)
  BY DEF IInv
<1>2. CASE Start
  <2>1. text' = text /\ segs' = segs /\ params' = params
    BY <1>2 DEF Start, Fail
  <2>2. pos' = pos \/ (Len(text) > 1 /\ pos' = 2)
    BY <1>2 DEF Start, Fail
  <2>3. pos' \in 1..(Len(text) + 1)
    BY <1>1, <2>2
  <2> QED
    BY <2>1, <2>3, KeptInv
<1>3. CASE Refuse
  BY <1>1, <1>3, KeptInv DEF Refuse, Fail
<1>4. CASE Accept
  BY <1>4, AcceptInv
<1>5. CASE Returned \/ UNCHANGED vars
  BY <1>1, <1>5, KeptInv DEF Returned, vars
<1> QED
  BY <1>2, <1>3, <1>4, <1>5 DEF Next

\* The invariant holds throughout every parse.
THEOREM Invariance == Spec => []IInv
  BY InitInv, NextInv, PTL DEF Spec

\* Whatever the text (pattern.hpp:149-284): no segment is written past the
\* array, the count of parameters is that of the segments and never past
\* kMaxParams, nothing follows a catch-all and no name occurs twice.
THEOREM SegmentsAlwaysFit == Spec => []SegmentsFit
<1>1. IInv => SegmentsFit
  BY DEF IInv
<1> QED
  BY <1>1, Invariance, PTL
-----------------------------------------------------------------------------
(* The loop over a literal's bytes.                                        *)

\* A byte the loop does not pass.
Bad(s, i) == s[i] \notin Pchars /\ ~(s[i] = "%" /\ GoodEscape(s, i))

\* Where the loop stops that starts at place i: at the first bad byte.
StopFrom(s, i, j) ==
    /\ j \in i..(Len(s) + 1)
    /\ j > Len(s) \/ Bad(s, j)
    /\ \A k \in i..(j - 1) : ~Bad(s, k)

\* The first bad byte exists, or the text ends.
LEMMA StopExists ==
    ASSUME NEW s \in Seq(Alphabet), NEW i \in 1..(Len(s) + 1)
    PROVE  \E j \in 1..(Len(s) + 1) : StopFrom(s, i, j)
<1> DEFINE T == {j \in i..(Len(s) + 1) : j > Len(s) \/ Bad(s, j)}
<1>1. Len(s) \in Nat /\ i \in Nat /\ i >= 1
  OBVIOUS
<1>2. T \in SUBSET Nat /\ Len(s) + 1 \in T
  BY <1>1
<1>3. PICK j \in T : \A y \in T : j <= y
  BY <1>2, LeastNumber
<1>4. j \in 1..(Len(s) + 1)
  BY <1>1
<1>5. \A k \in i..(j - 1) : ~Bad(s, k)
  <2> SUFFICES ASSUME NEW k \in i..(j - 1), Bad(s, k) PROVE FALSE
    OBVIOUS
  <2>1. k \in i..(Len(s) + 1) /\ k < j /\ k \in Nat /\ j \in Nat
    BY <1>1
  <2>2. k \in T
    BY <2>1
  <2> QED
    BY <2>1, <2>2, <1>3
<1> HIDE DEF T
<1>6. j \in i..(Len(s) + 1) /\ (j > Len(s) \/ Bad(s, j))
  BY DEF T
<1> QED
  BY <1>4, <1>5, <1>6 DEF StopFrom

\* There is only one.
LEMMA StopUnique ==
    ASSUME NEW s \in Seq(Alphabet), NEW i \in 1..(Len(s) + 1),
           NEW a, NEW b, StopFrom(s, i, a), StopFrom(s, i, b)
    PROVE  a = b
<1>1. Len(s) \in Nat /\ i \in Nat /\ a \in Nat /\ b \in Nat
  BY DEF StopFrom
<1>2. ~(a < b)
  BY <1>1 DEF StopFrom
<1>3. ~(b < a)
  BY <1>1 DEF StopFrom
<1> QED
  BY <1>1, <1>2, <1>3

\* A good byte is passed; the two digits of an escape are good bytes.
LEMMA StopPasses ==
    ASSUME NEW s \in Seq(Alphabet), NEW i \in 1..Len(s), ~Bad(s, i),
           NEW j, s[i] # "%" => StopFrom(s, i + 1, j),
           s[i] = "%" => i + 3 \in 1..(Len(s) + 1) /\ StopFrom(s, i + 3, j)
    PROVE  StopFrom(s, i, j)
<1>1. Len(s) \in Nat /\ i \in Nat
  OBVIOUS
<1>2. CASE s[i] # "%"
  <2>1. j \in (i + 1)..(Len(s) + 1) /\ (j > Len(s) \/ Bad(s, j))
        /\ \A k \in (i + 1)..(j - 1) : ~Bad(s, k)
    BY <1>2 DEF StopFrom
  <2>2. \A k \in i..(j - 1) : ~Bad(s, k)
    <3> TAKE k \in i..(j - 1)
    <3>1. k = i \/ k \in (i + 1)..(j - 1)
      BY <1>1, <2>1
    <3> QED
      BY <2>1, <3>1
  <2> QED
    BY <1>1, <2>1, <2>2 DEF StopFrom
<1>3. CASE s[i] = "%"
  <2>1. j \in (i + 3)..(Len(s) + 1) /\ (j > Len(s) \/ Bad(s, j))
        /\ \A k \in (i + 3)..(j - 1) : ~Bad(s, k)
    BY <1>3 DEF StopFrom
  <2>2. s[i + 1] \in Pchars /\ s[i + 2] \in Pchars
    BY <1>3, AlphabetAssumption DEF Bad, GoodEscape
  <2>3. \A k \in i..(j - 1) : ~Bad(s, k)
    <3> TAKE k \in i..(j - 1)
    <3>1. k = i \/ k = i + 1 \/ k = i + 2 \/ k \in (i + 3)..(j - 1)
      BY <1>1, <2>1
    <3> QED
      BY <2>1, <2>2, <3>1 DEF Bad
  <2> QED
    BY <1>1, <2>1, <2>3 DEF StopFrom
<1> QED
  BY <1>2, <1>3

\* The loop stops at the first bad byte, although it jumps over the digits of
\* an escape (pattern.hpp:253-273).
LEMMA LiteralStopIs ==
    ASSUME NEW s \in Seq(Alphabet)
    PROVE  StopFrom(s, 1, LiteralStop(s))
<1> DEFINE D == 1..(Len(s) + 1)
           B(f) == [i \in D |->
                      IF i > Len(s) THEN i
                      ELSE IF s[i] = "%" THEN IF GoodEscape(s, i) THEN f[i + 3] ELSE i
                      ELSE IF s[i] \in Pchars THEN f[i + 1] ELSE i]
           First == [i \in D |-> CHOOSE j \in D : StopFrom(s, i, j)]
<1>1. Len(s) \in Nat
  OBVIOUS
<1>2. \A i \in D : First[i] \in D /\ StopFrom(s, i, First[i])
  BY StopExists
<1>3. \A i \in D : i <= Len(s) /\ GoodEscape(s, i) => i + 3 \in D
  BY <1>1 DEF GoodEscape
<1>4. \A i \in D : i <= Len(s) => i + 1 \in D /\ i \in 1..Len(s)
  BY <1>1
<1>5. "%" \notin Pchars
  BY AlphabetAssumption
<1>6. \A i \in D : First[i] = B(First)[i]
  <2> TAKE i \in D
  <2>1. CASE i > Len(s)
    <3>1. StopFrom(s, i, i)
      BY <1>1, <2>1 DEF StopFrom
    <3> QED
      BY <3>1, <2>1, <1>2, StopUnique
  <2>2. CASE i <= Len(s) /\ Bad(s, i)
    <3>1. StopFrom(s, i, i)
      BY <1>1, <2>2 DEF StopFrom
    <3>2. B(First)[i] = i
      BY <1>1, <2>2 DEF Bad
    <3> QED
      BY <3>1, <3>2, <1>2, StopUnique
  <2>3. CASE i <= Len(s) /\ ~Bad(s, i) /\ s[i] = "%"
    <3>1. GoodEscape(s, i) /\ i + 3 \in D /\ i \in 1..Len(s)
      BY <2>3, <1>3, <1>4, <1>5 DEF Bad
    <3>2. B(First)[i] = First[i + 3]
      BY <1>1, <2>3, <3>1
    <3>3. StopFrom(s, i + 3, First[i + 3])
      BY <3>1, <1>2
    <3>4. StopFrom(s, i, First[i + 3])
      BY <2>3, <3>1, <3>3, StopPasses
    <3> QED
      BY <3>2, <3>4, <1>2, StopUnique
  <2>4. CASE i <= Len(s) /\ ~Bad(s, i) /\ s[i] # "%"
    <3>1. s[i] \in Pchars /\ i + 1 \in D /\ i \in 1..Len(s)
      BY <2>4, <1>4 DEF Bad
    <3>2. B(First)[i] = First[i + 1]
      BY <1>1, <2>4, <3>1
    <3>3. StopFrom(s, i + 1, First[i + 1])
      BY <3>1, <1>2
    <3>4. StopFrom(s, i, First[i + 1])
      BY <2>4, <3>1, <3>3, StopPasses
    <3> QED
      BY <3>2, <3>4, <1>2, StopUnique
  <2> QED
    BY <2>1, <2>2, <2>3, <2>4, <1>1
<1>7. First = B(First)
  BY <1>6
<1>8. PICK f : f = B(f) /\ LiteralStop(s) = f[1]
  <2> HIDE DEF First
  <2> QED
    BY <1>7 DEF LiteralStop
<1>9. \A i \in D : StopFrom(s, i, f[i])
  <2> DEFINE T == {m \in 0..Len(s) : ~StopFrom(s, Len(s) + 1 - m, f[Len(s) + 1 - m])}
  <2>1. T = {}
    <3> SUFFICES ASSUME T # {} PROVE FALSE
      OBVIOUS
    <3>1. PICK m \in T : \A y \in T : m <= y
      <4>1. T \in SUBSET Nat
        BY <1>1
      <4> HIDE DEF T
      <4> QED
        BY <4>1, LeastNumber
    <3> DEFINE i == Len(s) + 1 - m
    <3>2. m \in 0..Len(s) /\ i \in D /\ ~StopFrom(s, i, f[i])
      BY <1>1
    <3>3. \A j \in D : j > i => StopFrom(s, j, f[j])
      <4> SUFFICES ASSUME NEW j \in D, j > i, ~StopFrom(s, j, f[j]) PROVE FALSE
        OBVIOUS
      <4>1. Len(s) + 1 - j \in 0..Len(s) /\ Len(s) + 1 - (Len(s) + 1 - j) = j
            /\ Len(s) + 1 - j < m
        BY <1>1, <3>2
      <4>2. Len(s) + 1 - j \in T
        BY <4>1
      <4> QED
        BY <4>1, <4>2, <3>1, <3>2, <1>1
    <3> HIDE DEF i, T
    <3>4. CASE i > Len(s) \/ (i <= Len(s) /\ Bad(s, i))
      <4>1. f[i] = i
        BY <1>1, <1>8, <3>2, <3>4 DEF Bad
      <4> QED
        BY <4>1, <3>2, <3>4, <1>1 DEF StopFrom
    <3>5. CASE i <= Len(s) /\ ~Bad(s, i) /\ s[i] = "%"
      <4>1. GoodEscape(s, i) /\ i + 3 \in D /\ i \in 1..Len(s) /\ i + 3 > i
        BY <3>2, <3>5, <1>1, <1>3, <1>4, <1>5 DEF Bad
      <4>2. f[i] = f[i + 3]
        BY <1>1, <1>8, <3>2, <3>5, <4>1
      <4>3. StopFrom(s, i + 3, f[i + 3])
        BY <4>1, <3>3
      <4> QED
        BY <4>1, <4>2, <4>3, <3>2, <3>5, StopPasses
    <3>6. CASE i <= Len(s) /\ ~Bad(s, i) /\ s[i] # "%"
      <4>1. s[i] \in Pchars /\ i + 1 \in D /\ i \in 1..Len(s) /\ i + 1 > i
        BY <3>2, <3>6, <1>1, <1>4 DEF Bad
      <4>2. f[i] = f[i + 1]
        BY <1>1, <1>8, <3>2, <3>6, <4>1
      <4>3. StopFrom(s, i + 1, f[i + 1])
        BY <4>1, <3>3
      <4> QED
        BY <4>1, <4>2, <4>3, <3>2, <3>6, StopPasses
    <3> QED
      BY <3>2, <3>4, <3>5, <3>6, <1>1
  <2> TAKE i \in D
  <2>2. Len(s) + 1 - i \in 0..Len(s) /\ Len(s) + 1 - (Len(s) + 1 - i) = i
    BY <1>1
  <2> QED
    BY <2>1, <2>2
<1> QED
  BY <1>1, <1>8, <1>9

\* What a literal may be made of (docs/route-semantics.md) is what the loop
\* passes.
LEMMA GoodLiteralIs ==
    ASSUME NEW s \in Seq(Alphabet)
    PROVE  /\ GoodLiteral(s) <=> \A i \in 1..Len(s) : ~Bad(s, i)
           /\ GoodLiteral(s) <=> LiteralStop(s) > Len(s)
<1>1. GoodLiteral(s) <=> \A i \in 1..Len(s) : ~Bad(s, i)
  BY DEF GoodLiteral, Bad, GoodEscape
<1>2. /\ LiteralStop(s) \in 1..(Len(s) + 1)
      /\ LiteralStop(s) > Len(s) \/ Bad(s, LiteralStop(s))
      /\ \A k \in 1..(LiteralStop(s) - 1) : ~Bad(s, k)
  BY LiteralStopIs DEF StopFrom
<1> QED
  BY <1>1, <1>2
-----------------------------------------------------------------------------
(* Types.                                                                  *)

\* A test names an error, and a byte of the segment or its start.
LEMMA TestsTyped ==
    ASSUME text \in Seq(Alphabet), pos \in 1..(Len(text) + 1)
    PROVE  /\ Tests[1] \in Errors
           /\ Tests[2] \in Nat
           /\ Offset(Tests[2]) \in Nat
<1>1. Seg \in Seq(Alphabet) /\ Stop \in 1..(Len(Seg) + 1)
  BY SegmentText, LiteralStopIs DEF Stop, StopFrom
<1>2. Stop - 1 \in Nat
  BY <1>1
<1>3. Tests[1] \in Errors /\ Tests[2] \in Nat
  <2>1. CASE ~IsParam(Seg)
    BY <1>2, <2>1 DEF Tests, Errors
  <2>2. CASE IsParam(Seg)
    BY <2>2 DEF Tests, Errors
  <2> QED
    BY <2>1, <2>2
<1> HIDE DEF Tests
<1>4. pos \in Nat /\ pos >= 1
  OBVIOUS
<1> QED
  BY <1>3, <1>4 DEF Offset

\* What the result is made of.
Typed == error \in Errors /\ at \in Nat /\ pc \in {"start", "segments", "done"}

\* It is from the start.
LEMMA InitTyped == Init => Typed
BY DEF Init, Typed, Errors

\* And after every step.
LEMMA NextTyped == IInv /\ Typed /\ [Next]_vars => Typed'
<1> SUFFICES ASSUME IInv, Typed, [Next]_vars PROVE Typed'
  OBVIOUS
<1>1. Tests[1] \in Errors /\ Offset(Tests[2]) \in Nat
  BY TestsTyped DEF IInv
<1>2. CASE Start
  BY <1>2 DEF Start, Fail, Typed, Errors
<1>3. CASE Refuse
  BY <1>1, <1>3 DEF Refuse, Fail, Typed
<1>4. CASE Accept
  BY <1>4 DEF Accept, Typed
<1>5. CASE Returned \/ UNCHANGED vars
  BY <1>5 DEF Returned, Typed, vars
<1> QED
  BY <1>2, <1>3, <1>4, <1>5 DEF Next

\* Whatever the text (pattern.hpp:149-284): the scan stays in the text, the
\* segments hold parts of it, and the error and its offset are of their types.
THEOREM ParserTyped == Spec => []TypeOK
<1>1. Init => IInv /\ Typed
  BY InitInv, InitTyped
<1>2. (IInv /\ Typed) /\ [Next]_vars => (IInv /\ Typed)'
  BY NextInv, NextTyped
<1>3. IInv /\ Typed => TypeOK
  BY DEF IInv, Typed, TypeOK, SegmentsRead
<1> QED
  BY <1>1, <1>2, <1>3, PTL DEF Spec
-----------------------------------------------------------------------------
(* What a part can be read as.                                             *)

\* The place text.find answers is the only first one.
LEMMA FirstAtUnique ==
    ASSUME NEW s \in Seq(Alphabet), NEW x, NEW i \in 1..(Len(s) + 1),
           NEW j \in i..(Len(s) + 1), j > Len(s) \/ s[j] = x,
           \A k \in i..(j - 1) : s[k] # x
    PROVE  FirstAt(s, x, i) = j
<1> DEFINE f == FirstAt(s, x, i)
<1>1. /\ f \in i..(Len(s) + 1)
      /\ f > Len(s) \/ s[f] = x
      /\ \A k \in i..(f - 1) : s[k] # x
  BY FirstAtIs
<1> HIDE DEF f
<1>2. Len(s) \in Nat /\ i \in Nat /\ j \in Nat /\ f \in Nat
  BY <1>1
<1>3. ~(f < j)
  BY <1>1, <1>2
<1>4. ~(j < f)
  BY <1>1, <1>2
<1>5. f = j
  BY <1>2, <1>3, <1>4
<1> QED
  BY <1>5 DEF f

\* A name has no byte that means something in a parameter.
LEMMA NameHas ==
    ASSUME NEW n \in Seq(Alphabet), ValidName(n)
    PROVE  /\ Len(n) \in Nat \ {0}
           /\ \A i \in 1..Len(n) : n[i] \notin {"{", "}", "*", ":"}
<1>1. Len(n) \in Nat \ {0}
  BY EmptySeq DEF ValidName
<1>2. /\ (Letters \cup Digits) \cap {"{", "}", "*", ":"} = {}
      /\ "_" \notin {"{", "}", "*", ":"}
  BY AlphabetAssumption
<1> QED
  BY <1>1, <1>2 DEF ValidName

\* The bytes between the braces, the star left out.
LEMMA BodyBytes ==
    ASSUME NEW s \in Seq(Alphabet), Len(s) >= 2
    PROVE  LET o == IF IsRest(s) THEN 2 ELSE 1
           IN  /\ IsRest(s) <=> Len(s) > 2 /\ s[2] = "*"
               /\ Len(Inner(s)) = Len(s) - 2
               /\ \A i \in 1..(Len(s) - 2) : Inner(s)[i] = s[i + 1]
               /\ Len(Body(s)) = Len(s) - 1 - o
               /\ \A i \in 1..(Len(s) - 1 - o) : Body(s)[i] = s[i + o]
<1>1. Len(s) \in Nat
  OBVIOUS
<1>3. /\ Inner(s) \in Seq(Alphabet)
      /\ Len(Inner(s)) = Len(s) - 2
      /\ \A i \in 1..(Len(s) - 2) : Inner(s)[i] = s[i + 1]
  <2> DEFINE h == Len(s) - 1
  <2>1. h \in Int /\ 2 <= h + 1 /\ h <= Len(s) /\ h + 1 - 2 = Len(s) - 2 /\ 1 <= 2 /\ 2 \in Nat
    BY <1>1
  <2>2. Inner(s) = SubSeq(s, 2, h)
    BY DEF Inner
  <2> HIDE DEF h
  <2>3. /\ Inner(s) \in Seq(Alphabet)
        /\ Len(Inner(s)) = h + 1 - 2
        /\ \A i \in 1..(h + 1 - 2) : Inner(s)[i] = s[2 + i - 1]
    BY <2>1, <2>2, PartBytes
  <2>4. \A i \in 1..(Len(s) - 2) : 2 + i - 1 = i + 1
    BY <1>1
  <2> QED
    BY <2>1, <2>3, <2>4
<1>4. IsRest(s) <=> Len(s) > 2 /\ s[2] = "*"
  <2>1. Inner(s) # << >> <=> Len(s) > 2
    BY <1>1, <1>3
  <2>2. Len(s) > 2 => Inner(s)[1] = s[2]
    BY <1>1, <1>3
  <2> QED
    BY <2>1, <2>2 DEF IsRest
<1>5. CASE IsRest(s)
  <2>1. Body(s) = Tail(Inner(s)) /\ Inner(s) # << >>
    BY <1>5 DEF Body, IsRest
  <2>2. /\ Len(Body(s)) = Len(Inner(s)) - 1
        /\ \A i \in 1..Len(Body(s)) : Body(s)[i] = Inner(s)[i + 1]
    BY <2>1, <1>3, HeadTailProperties
  <2>3. \A i \in 1..(Len(s) - 1 - 2) : /\ i \in 1..Len(Body(s)) /\ i + 1 \in 1..(Len(s) - 2)
                                       /\ (i + 1) + 1 = i + 2
    BY <1>1, <1>3, <2>2
  <2>4. Len(Body(s)) = Len(s) - 1 - 2
    BY <1>1, <1>3, <2>2
  <2>5. \A i \in 1..(Len(s) - 1 - 2) : Body(s)[i] = s[i + 2]
    BY <2>2, <2>3, <1>3
  <2> QED
    BY <1>3, <1>4, <1>5, <2>4, <2>5
<1>6. CASE ~IsRest(s)
  <2>1. Body(s) = Inner(s)
    BY <1>6 DEF Body
  <2>2. Len(s) - 1 - 1 = Len(s) - 2
    BY <1>1
  <2> QED
    BY <1>3, <1>4, <1>6, <2>1, <2>2
<1> QED
  BY <1>5, <1>6

\* The bytes of the name, and of the type if there is one.
LEMMA NameBytes ==
    ASSUME NEW s \in Seq(Alphabet)
    PROVE  /\ Len(Name(s)) = Colon(s) - 1
           /\ \A i \in 1..(Colon(s) - 1) : Name(s)[i] = Body(s)[i]
           /\ HasType(s) => /\ Len(Type(s)) = Len(Body(s)) - Colon(s)
                            /\ \A i \in 1..(Len(Body(s)) - Colon(s)) :
                                   Type(s)[i] = Body(s)[Colon(s) + i]
           /\ Type(s) \in Seq(Alphabet)
<1> DEFINE b == Body(s)
           c == Colon(s)
<1>1. b \in Seq(Alphabet) /\ c \in 1..(Len(b) + 1) /\ Len(b) \in Nat
  BY SegmentParts
<1>2. Name(s) = SubSeq(b, 1, c - 1) /\ Type(s) = SubSeq(b, c + 1, Len(b))
      /\ (HasType(s) <=> c <= Len(b))
  BY DEF Name, Type, HasType
<1> HIDE DEF b, c
<1>3. /\ Len(Name(s)) = c - 1 + 1 - 1
      /\ \A i \in 1..(c - 1 + 1 - 1) : Name(s)[i] = b[1 + i - 1]
  BY <1>1, <1>2, PartBytes
<1>4. c - 1 + 1 - 1 = c - 1 /\ \A i \in 1..(c - 1) : 1 + i - 1 = i
  BY <1>1
<1>5. ASSUME c <= Len(b)
      PROVE  /\ Len(Type(s)) = Len(b) - c
             /\ \A i \in 1..(Len(b) - c) : Type(s)[i] = b[c + i]
  <2>1. /\ Len(Type(s)) = Len(b) + 1 - (c + 1)
        /\ \A i \in 1..(Len(b) + 1 - (c + 1)) : Type(s)[i] = b[c + 1 + i - 1]
    BY <1>1, <1>2, <1>5, PartBytes
  <2>2. Len(b) + 1 - (c + 1) = Len(b) - c /\ \A i \in 1..(Len(b) - c) : c + 1 + i - 1 = c + i
    BY <1>1
  <2> QED
    BY <2>1, <2>2
<1>6. Type(s) \in Seq(Alphabet)
  BY <1>1, <1>2, PartOfText
<1> QED
  BY <1>2, <1>3, <1>4, <1>5, <1>6 DEF b, c

\* A parameter's text byte by byte: without a type, after "{" or after "{*"...
Plain(s, n, o) ==
    /\ Len(s) = Len(n) + o + 1
    /\ s[1] = "{" /\ (o = 2 => s[2] = "*")
    /\ \A i \in 1..Len(n) : s[i + o] = n[i]
    /\ s[Len(n) + o + 1] = "}"

\* ... and with one.
Tagged(s, n, w) ==
    /\ Len(s) = Len(n) + 4
    /\ s[1] = "{"
    /\ \A i \in 1..Len(n) : s[i + 1] = n[i]
    /\ s[Len(n) + 2] = ":" /\ s[Len(n) + 3] = w /\ s[Len(n) + 4] = "}"

\* Three texts in a row, byte by byte.
Row(s, a, n, b) ==
    /\ Len(s) = Len(a) + Len(n) + Len(b)
    /\ \A i \in 1..Len(a) : s[i] = a[i]
    /\ \A i \in 1..Len(n) : s[Len(a) + i] = n[i]
    /\ \A i \in 1..Len(b) : s[Len(a) + Len(n) + i] = b[i]

\* That is what \o makes of them.
LEMMA ThreeInARow ==
    ASSUME NEW A, NEW a \in Seq(A), NEW n \in Seq(A), NEW b \in Seq(A), NEW s \in Seq(A)
    PROVE  s = a \o n \o b <=> Row(s, a, n, b)
<1> DEFINE m == a \o n
           t == m \o b
<1>1. Len(a) \in Nat /\ Len(n) \in Nat /\ Len(b) \in Nat /\ Len(s) \in Nat
  OBVIOUS
<1>2. /\ m \in Seq(A) /\ Len(m) = Len(a) + Len(n)
      /\ \A i \in 1..(Len(a) + Len(n)) : m[i] = IF i <= Len(a) THEN a[i] ELSE n[i - Len(a)]
  BY ConcatProperties
<1>a. ASSUME NEW u \in Seq(A)
      PROVE  /\ u \o b \in Seq(A) /\ Len(u \o b) = Len(u) + Len(b)
             /\ \A i \in 1..(Len(u) + Len(b)) :
                    (u \o b)[i] = IF i <= Len(u) THEN u[i] ELSE b[i - Len(u)]
  BY ConcatProperties
<1> HIDE DEF m
<1>3. /\ t \in Seq(A) /\ Len(t) = Len(m) + Len(b)
      /\ \A i \in 1..(Len(m) + Len(b)) : t[i] = IF i <= Len(m) THEN m[i] ELSE b[i - Len(m)]
  BY <1>2, <1>a
<1> HIDE DEF t
<1>4. /\ \A i \in 1..Len(a) : t[i] = a[i]
      /\ \A i \in 1..Len(n) : t[Len(a) + i] = n[i]
      /\ \A i \in 1..Len(b) : t[Len(a) + Len(n) + i] = b[i]
  <2>1. \A i \in 1..Len(a) : /\ i \in 1..(Len(a) + Len(n)) /\ i \in 1..(Len(m) + Len(b))
                             /\ i <= Len(m) /\ i <= Len(a)
    BY <1>1, <1>2
  <2>2. \A i \in 1..Len(n) : /\ Len(a) + i \in 1..(Len(a) + Len(n))
                             /\ Len(a) + i \in 1..(Len(m) + Len(b))
                             /\ Len(a) + i <= Len(m) /\ ~(Len(a) + i <= Len(a))
                             /\ Len(a) + i - Len(a) = i
    BY <1>1, <1>2
  <2>3. \A i \in 1..Len(b) : /\ Len(a) + Len(n) + i \in 1..(Len(m) + Len(b))
                             /\ ~(Len(a) + Len(n) + i <= Len(m))
                             /\ Len(a) + Len(n) + i - Len(m) = i
    BY <1>1, <1>2
  <2> QED
    BY <2>1, <2>2, <2>3, <1>2, <1>3
<1>5. Len(t) = Len(a) + Len(n) + Len(b)
  BY <1>2, <1>3
<1>6. ASSUME /\ Len(s) = Len(a) + Len(n) + Len(b)
             /\ \A i \in 1..Len(a) : s[i] = a[i]
             /\ \A i \in 1..Len(n) : s[Len(a) + i] = n[i]
             /\ \A i \in 1..Len(b) : s[Len(a) + Len(n) + i] = b[i]
      PROVE  s = t
  <2>1. \A i \in 1..Len(s) : s[i] = t[i]
    <3> TAKE i \in 1..Len(s)
    <3>1. CASE i \in 1..Len(a)
      BY <3>1, <1>4, <1>6
    <3>2. CASE i - Len(a) \in 1..Len(n)
      <4>1. Len(a) + (i - Len(a)) = i
        BY <1>1
      <4> QED
        BY <4>1, <3>2, <1>4, <1>6
    <3>3. CASE i - Len(a) - Len(n) \in 1..Len(b)
      <4>1. Len(a) + Len(n) + (i - Len(a) - Len(n)) = i
        BY <1>1
      <4> QED
        BY <4>1, <3>3, <1>4, <1>6
    <3>4. i \in 1..Len(a) \/ i - Len(a) \in 1..Len(n) \/ i - Len(a) - Len(n) \in 1..Len(b)
      BY <1>1, <1>6
    <3> QED
      BY <3>1, <3>2, <3>3, <3>4
  <2> QED
    BY <2>1, <1>3, <1>5, <1>6, SeqEqual
<1>7. s = t <=> /\ Len(s) = Len(a) + Len(n) + Len(b)
                /\ \A i \in 1..Len(a) : s[i] = a[i]
                /\ \A i \in 1..Len(n) : s[Len(a) + i] = n[i]
                /\ \A i \in 1..Len(b) : s[Len(a) + Len(n) + i] = b[i]
  BY <1>4, <1>5, <1>6
<1> QED
  BY <1>7 DEF t, m, Row

\* Texts of one, two and three bytes.
LEMMA ShortTexts ==
    ASSUME NEW A, NEW x \in A, NEW y \in A, NEW z \in A
    PROVE  /\ <<x>> \in Seq(A) /\ Len(<<x>>) = 1 /\ <<x>>[1] = x
           /\ <<x, y>> \in Seq(A) /\ Len(<<x, y>>) = 2
           /\ <<x, y>>[1] = x /\ <<x, y>>[2] = y
           /\ <<x, y, z>> \in Seq(A) /\ Len(<<x, y, z>>) = 3
           /\ <<x, y, z>>[1] = x /\ <<x, y, z>>[2] = y /\ <<x, y, z>>[3] = z
OBVIOUS

\* A text in a row with what opens and closes a parameter: without a type...
LEMMA RowPlain ==
    ASSUME NEW A, NEW s \in Seq(A), NEW n \in Seq(A), NEW a \in Seq(A), NEW b \in Seq(A),
           NEW o \in {1, 2},
           Len(a) = o, Len(b) = 1, a[1] = "{", o = 2 => a[2] = "*", b[1] = "}"
    PROVE  Row(s, a, n, b) <=> Plain(s, n, o)
<1>0. Len(n) \in Nat /\ Len(a) = o /\ Len(b) = 1 /\ (o = 1 \/ o = 2)
  BY LenProperties, Zenon
<1>1. /\ \A i \in 1..Len(a) : i = 1 \/ (i = 2 /\ o = 2)
      /\ \A i \in 1..Len(b) : i = 1
      /\ 1 \in 1..Len(a) /\ (o = 2 => 2 \in 1..Len(a)) /\ 1 \in 1..Len(b)
  BY ONLY <1>0
<1>2. /\ \A i \in 1..Len(n) : Len(a) + i = i + o
      /\ Len(a) + Len(n) + Len(b) = Len(n) + o + 1
      /\ Len(a) + Len(n) + 1 = Len(n) + o + 1
  BY ONLY <1>0
<1>3. (\A i \in 1..Len(a) : s[i] = a[i]) <=> s[1] = "{" /\ (o = 2 => s[2] = "*")
  BY <1>1
<1>4. (\A i \in 1..Len(n) : s[Len(a) + i] = n[i]) <=> \A i \in 1..Len(n) : s[i + o] = n[i]
  BY <1>2
<1>5. (\A i \in 1..Len(b) : s[Len(a) + Len(n) + i] = b[i]) <=> s[Len(n) + o + 1] = "}"
  BY <1>1, <1>2
<1> QED
  BY <1>2, <1>3, <1>4, <1>5 DEF Row, Plain

\* ... and with one.
LEMMA RowTagged ==
    ASSUME NEW A, NEW s \in Seq(A), NEW n \in Seq(A), NEW a \in Seq(A), NEW b \in Seq(A), NEW w,
           Len(a) = 1, Len(b) = 3, a[1] = "{", b[1] = ":", b[2] = w, b[3] = "}"
    PROVE  Row(s, a, n, b) <=> Tagged(s, n, w)
<1>0. Len(n) \in Nat /\ Len(a) = 1 /\ Len(b) = 3
  BY LenProperties, Zenon
<1>1. /\ \A i \in 1..Len(a) : i = 1
      /\ \A i \in 1..Len(b) : i = 1 \/ i = 2 \/ i = 3
      /\ 1 \in 1..Len(a) /\ 1 \in 1..Len(b) /\ 2 \in 1..Len(b) /\ 3 \in 1..Len(b)
  BY ONLY <1>0
<1>2. /\ \A i \in 1..Len(n) : Len(a) + i = i + 1
      /\ Len(a) + Len(n) + Len(b) = Len(n) + 4
      /\ Len(a) + Len(n) + 1 = Len(n) + 2
      /\ Len(a) + Len(n) + 2 = Len(n) + 3
      /\ Len(a) + Len(n) + 3 = Len(n) + 4
  BY ONLY <1>0
<1>3. (\A i \in 1..Len(a) : s[i] = a[i]) <=> s[1] = "{"
  BY <1>1
<1>4. (\A i \in 1..Len(n) : s[Len(a) + i] = n[i]) <=> \A i \in 1..Len(n) : s[i + 1] = n[i]
  BY <1>2
<1>5. (\A i \in 1..Len(b) : s[Len(a) + Len(n) + i] = b[i]) <=>
          s[Len(n) + 2] = ":" /\ s[Len(n) + 3] = w /\ s[Len(n) + 4] = "}"
  BY <1>1, <1>2
<1> QED
  BY <1>2, <1>3, <1>4, <1>5 DEF Row, Tagged

\* The ways to write a parameter, byte by byte.
LEMMA BracedForm ==
    ASSUME NEW s \in Seq(Alphabet), NEW n \in Seq(Alphabet), NEW kind \in Kinds \ {"literal"}
    PROVE  s \in Braced(kind, n) <=>
               CASE kind = "rest"  -> Plain(s, n, 2)
                 [] kind = "param" -> Plain(s, n, 1) \/ Tagged(s, n, "string")
                 [] OTHER          -> Tagged(s, n, kind)
<1> DEFINE A == Alphabet \cup {"u64", "i64", "string", "{", "}", "*", ":"}
<1>1. s \in Seq(A) /\ n \in Seq(A)
  BY SeqMonotonic
<1>2. Len(n) \in Nat /\ Len(s) \in Nat
  OBVIOUS
<1>3. /\ "{" \in A /\ "}" \in A /\ "*" \in A /\ ":" \in A
      /\ \A w \in {"u64", "i64", "string"} : w \in A
  OBVIOUS
<1> HIDE DEF A
<1>4. /\ <<"{">> \in Seq(A) /\ Len(<<"{">>) = 1 /\ <<"{">>[1] = "{"
      /\ <<"}">> \in Seq(A) /\ Len(<<"}">>) = 1 /\ <<"}">>[1] = "}"
  BY <1>3, ShortTexts, Zenon
<1>5. /\ <<"{", "*">> \in Seq(A) /\ Len(<<"{", "*">>) = 2
      /\ <<"{", "*">>[1] = "{" /\ <<"{", "*">>[2] = "*"
  BY <1>3, ShortTexts, Zenon
<1>a. s = <<"{">> \o n \o <<"}">> <=> Plain(s, n, 1)
  <2>1. s = <<"{">> \o n \o <<"}">> <=> Row(s, <<"{">>, n, <<"}">>)
    BY ONLY <1>1, <1>4, ThreeInARow
  <2>2. 1 \in {1, 2} /\ 1 # 2
    OBVIOUS
  <2>3. Row(s, <<"{">>, n, <<"}">>) <=> Plain(s, n, 1)
    BY ONLY <2>2, <1>1, <1>4, RowPlain, Zenon
  <2> QED
    BY <2>1, <2>3
<1>b. s = <<"{", "*">> \o n \o <<"}">> <=> Plain(s, n, 2)
  <2>1. s = <<"{", "*">> \o n \o <<"}">> <=> Row(s, <<"{", "*">>, n, <<"}">>)
    BY ONLY <1>1, <1>4, <1>5, ThreeInARow
  <2>2. Row(s, <<"{", "*">>, n, <<"}">>) <=> Plain(s, n, 2)
    BY ONLY <1>1, <1>4, <1>5, RowPlain
  <2> QED
    BY <2>1, <2>2
<1>c. ASSUME NEW w \in {"u64", "i64", "string"}
      PROVE  s = <<"{">> \o n \o <<":", w, "}">> <=> Tagged(s, n, w)
  <2>1. w \in A
    BY <1>3
  <2>2. /\ <<":", w, "}">> \in Seq(A) /\ Len(<<":", w, "}">>) = 3
        /\ <<":", w, "}">>[1] = ":" /\ <<":", w, "}">>[2] = w /\ <<":", w, "}">>[3] = "}"
    BY <1>3, <2>1, ShortTexts, Zenon
  <2>3. s = <<"{">> \o n \o <<":", w, "}">> <=> Row(s, <<"{">>, n, <<":", w, "}">>)
    BY ONLY <1>1, <1>4, <2>2, ThreeInARow
  <2>4. Row(s, <<"{">>, n, <<":", w, "}">>) <=> Tagged(s, n, w)
    BY ONLY <1>1, <1>4, <2>2, RowTagged
  <2> QED
    BY <2>3, <2>4
<1>6. kind = "rest" \/ kind = "param" \/ kind = "u64" \/ kind = "i64"
  BY DEF Kinds
<1>7. CASE kind = "rest"
  BY <1>b, <1>7 DEF Braced
<1>8. CASE kind = "param"
  BY <1>a, <1>c, <1>8 DEF Braced
<1>9. CASE kind = "u64" \/ kind = "i64"
  BY <1>c, <1>9 DEF Braced
<1> QED
  BY <1>6, <1>7, <1>8, <1>9

\* What a parameter's text passes, but for its name being taken and the count of
\* parameters.
Fine(s) ==
    /\ s[Len(s)] = "}"
    /\ \A i \in 1..Len(Inner(s)) : Inner(s)[i] \notin {"{", "}"}
    /\ ~(HasType(s) /\ (IsRest(s) \/ \A t \in Types : Type(s) # <<t>>))
    /\ ValidName(Name(s))

\* A parameter without a type is read as it is written...
LEMMA PlainRead ==
    ASSUME NEW s \in Seq(Alphabet), NEW n \in Seq(Alphabet), ValidName(n),
           NEW o \in {1, 2}, Plain(s, n, o)
    PROVE  /\ IsParam(s) /\ Fine(s)
           /\ Name(s) = n /\ ~HasType(s) /\ (IsRest(s) <=> o = 2)
<1>1. /\ Len(n) \in Nat /\ Len(n) >= 1 /\ Len(s) \in Nat
      /\ Len(s) = Len(n) + o + 1 /\ (o = 1 \/ o = 2)
  <2>1. Len(n) \in Nat \ {0}
    BY NameHas
  <2>2. Len(s) = Len(n) + o + 1
    BY DEF Plain
  <2> QED
    BY <2>1, <2>2
<1>2. \A i \in 1..Len(n) : n[i] \notin {"{", "}", "*", ":"}
  BY NameHas
<1>3. /\ s[1] = "{" /\ (o = 2 => s[2] = "*")
      /\ \A i \in 1..Len(n) : s[i + o] = n[i]
      /\ s[Len(n) + o + 1] = "}"
  BY DEF Plain
<1>4. IsRest(s) <=> o = 2
  <2>1. IsRest(s) <=> Len(s) > 2 /\ s[2] = "*"
    BY <1>1, BodyBytes
  <2>2. Len(s) > 2 /\ (o = 1 => 1 \in 1..Len(n) /\ 1 + o = 2)
    BY <1>1
  <2>3. o = 1 => s[2] # "*"
    BY <2>2, <1>2, <1>3
  <2> QED
    BY <2>1, <2>2, <2>3, <1>1, <1>3
<1>5. /\ Len(Inner(s)) = Len(s) - 2
      /\ \A i \in 1..(Len(s) - 2) : Inner(s)[i] = s[i + 1]
      /\ Len(Body(s)) = Len(s) - 1 - o
      /\ \A i \in 1..(Len(s) - 1 - o) : Body(s)[i] = s[i + o]
  <2>1. o = IF IsRest(s) THEN 2 ELSE 1
    BY <1>1, <1>4
  <2>2. Len(s) >= 2
    BY <1>1
  <2> QED
    BY <2>1, <2>2, BodyBytes
<1>6. /\ Body(s) \in Seq(Alphabet)
      /\ Len(Body(s)) = Len(n)
      /\ \A i \in 1..Len(n) : Body(s)[i] = n[i]
  <2>1. Len(s) - 1 - o = Len(n)
    BY <1>1
  <2> QED
    BY <2>1, <1>3, <1>5, SegmentParts
<1>7. Body(s) = n
  BY <1>6, SeqEqual
<1>8. Colon(s) = Len(n) + 1
  <2>1. /\ 1 \in 1..(Len(n) + 1) /\ Len(n) + 1 \in 1..(Len(n) + 1) /\ Len(n) + 1 > Len(n)
        /\ 1..(Len(n) + 1 - 1) = 1..Len(n)
    BY <1>1
  <2>2. \A k \in 1..(Len(n) + 1 - 1) : n[k] # ":"
    BY <2>1, <1>2
  <2> QED
    BY <1>7, <2>1, <2>2, FirstAtUnique DEF Colon
<1>9. ~HasType(s)
  BY <1>1, <1>6, <1>8 DEF HasType
<1>10. Name(s) = n
  <2>1. Colon(s) - 1 = Len(n)
    BY <1>1, <1>8
  <2>2. Len(Name(s)) = Len(n) /\ \A i \in 1..Len(n) : Name(s)[i] = n[i]
    BY <2>1, <1>7, NameBytes
  <2> QED
    BY <2>2, SegmentParts, SeqEqual
<1>11. \A i \in 1..Len(Inner(s)) : Inner(s)[i] \notin {"{", "}"}
  <2> TAKE i \in 1..Len(Inner(s))
  <2>1. i \in 1..(Len(s) - 2) /\ Inner(s)[i] = s[i + 1]
    BY <1>5
  <2>2. CASE o = 2 /\ i = 1
    <3>1. i + 1 = 2
      BY <2>2
    <3> QED
      BY <2>1, <2>2, <3>1, <1>3
  <2>3. CASE ~(o = 2 /\ i = 1)
    <3>1. i + 1 - o \in 1..Len(n) /\ (i + 1 - o) + o = i + 1
      BY <1>1, <2>1, <2>3
    <3> QED
      BY <2>1, <3>1, <1>2, <1>3
  <2> QED
    BY <2>2, <2>3
<1>12. IsParam(s) /\ s[Len(s)] = "}"
  <2>1. s # << >>
    BY <1>1
  <2> QED
    BY <2>1, <1>1, <1>3 DEF IsParam
<1> QED
  BY <1>4, <1>9, <1>10, <1>11, <1>12 DEF Fine

\* ... and one with a type.
LEMMA TaggedRead ==
    ASSUME NEW s \in Seq(Alphabet), NEW n \in Seq(Alphabet), ValidName(n),
           NEW w \in Types, Tagged(s, n, w)
    PROVE  /\ IsParam(s) /\ Fine(s)
           /\ Name(s) = n /\ ~IsRest(s) /\ HasType(s) /\ Type(s)[1] = w
<1>1. Len(n) \in Nat /\ Len(n) >= 1 /\ Len(s) \in Nat /\ Len(s) = Len(n) + 4
  <2>1. Len(n) \in Nat \ {0}
    BY NameHas
  <2>2. Len(s) = Len(n) + 4
    BY DEF Tagged
  <2> QED
    BY <2>1, <2>2
<1>2. \A i \in 1..Len(n) : n[i] \notin {"{", "}", "*", ":"}
  BY NameHas
<1>3. /\ s[1] = "{"
      /\ \A i \in 1..Len(n) : s[i + 1] = n[i]
      /\ s[Len(n) + 2] = ":" /\ s[Len(n) + 3] = w /\ s[Len(n) + 4] = "}"
  BY DEF Tagged
<1>4. ~IsRest(s)
  <2>1. IsRest(s) <=> Len(s) > 2 /\ s[2] = "*"
    BY <1>1, BodyBytes
  <2>2. 1 \in 1..Len(n) /\ 1 + 1 = 2
    BY <1>1
  <2>3. s[2] # "*"
    BY <2>2, <1>2, <1>3
  <2> QED
    BY <2>1, <2>3
<1>5. /\ Len(Inner(s)) = Len(s) - 2
      /\ \A i \in 1..(Len(s) - 2) : Inner(s)[i] = s[i + 1]
      /\ Len(Body(s)) = Len(s) - 1 - 1
      /\ \A i \in 1..(Len(s) - 1 - 1) : Body(s)[i] = s[i + 1]
  <2>1. 1 = IF IsRest(s) THEN 2 ELSE 1
    BY <1>4
  <2>2. Len(s) >= 2
    BY <1>1
  <2> QED
    BY <2>1, <2>2, BodyBytes
<1>6. /\ Body(s) \in Seq(Alphabet)
      /\ Len(Body(s)) = Len(n) + 2
      /\ \A i \in 1..Len(n) : Body(s)[i] = n[i]
      /\ Body(s)[Len(n) + 1] = ":" /\ Body(s)[Len(n) + 2] = w
  <2>1. /\ Len(s) - 1 - 1 = Len(n) + 2
        /\ \A i \in 1..Len(n) : i \in 1..(Len(n) + 2)
        /\ Len(n) + 1 \in 1..(Len(n) + 2) /\ Len(n) + 2 \in 1..(Len(n) + 2)
        /\ Len(n) + 1 + 1 = Len(n) + 2 /\ Len(n) + 2 + 1 = Len(n) + 3
    BY <1>1
  <2> QED
    BY <2>1, <1>3, <1>5, SegmentParts
<1>7. Colon(s) = Len(n) + 1
  <2> DEFINE b == Body(s)
             j == Len(n) + 1
  <2>1. /\ 1 \in 1..(Len(b) + 1) /\ j \in 1..(Len(b) + 1)
        /\ 1..(j - 1) = 1..Len(n)
    BY <1>1, <1>6
  <2>2. b \in Seq(Alphabet) /\ b[j] = ":" /\ \A k \in 1..(j - 1) : b[k] # ":"
    BY <2>1, <1>2, <1>6
  <2> HIDE DEF b, j
  <2>3. FirstAt(b, ":", 1) = j
    BY ONLY <2>1, <2>2, FirstAtUnique
  <2> QED
    BY <2>3 DEF Colon, b, j
<1>8. HasType(s)
  BY <1>1, <1>6, <1>7 DEF HasType
<1>9. Name(s) = n
  <2>1. Colon(s) - 1 = Len(n)
    BY <1>1, <1>7
  <2>2. Len(Name(s)) = Len(n) /\ \A i \in 1..Len(n) : Name(s)[i] = n[i]
    BY <2>1, <1>6, NameBytes
  <2> QED
    BY <2>2, SegmentParts, SeqEqual
<1>10. Type(s) = <<w>> /\ Type(s)[1] = w
  <2>1. /\ Len(Body(s)) - Colon(s) = 1 /\ Colon(s) + 1 = Len(n) + 2 /\ 1 \in 1..1
        /\ \A i \in 1..1 : i = 1
    BY <1>1, <1>6, <1>7
  <2>2. Type(s) \in Seq(Alphabet) /\ Len(Type(s)) = 1 /\ Type(s)[1] = Body(s)[Len(n) + 2]
    <3>1. /\ Len(Type(s)) = Len(Body(s)) - Colon(s)
          /\ \A i \in 1..(Len(Body(s)) - Colon(s)) : Type(s)[i] = Body(s)[Colon(s) + i]
      BY <1>8, NameBytes
    <3>2. Type(s)[1] = Body(s)[Colon(s) + 1]
      BY <2>1, <3>1
    <3> QED
      BY <2>1, <3>1, <3>2, NameBytes
  <2>3. Type(s)[1] = w
    BY <2>2, <1>6
  <2>4. w \in Alphabet
    BY <2>2, <2>3, ElementOfSeq, <2>1
  <2>5. <<w>> \in Seq(Alphabet) /\ Len(<<w>>) = 1 /\ <<w>>[1] = w
    BY <2>4, ShortTexts
  <2>6. Type(s) = <<w>>
    BY <2>1, <2>2, <2>3, <2>5, SeqEqual
  <2> QED
    BY <2>3, <2>6
<1>11. \A i \in 1..Len(Inner(s)) : Inner(s)[i] \notin {"{", "}"}
  <2> TAKE i \in 1..Len(Inner(s))
  <2>1. i \in 1..(Len(n) + 2) /\ Inner(s)[i] = s[i + 1]
    BY <1>1, <1>5
  <2>2. CASE i \in 1..Len(n)
    BY <2>1, <2>2, <1>2, <1>3
  <2>3. CASE i = Len(n) + 1
    <3>1. i + 1 = Len(n) + 2
      BY <2>3, <1>1
    <3> QED
      BY <2>1, <3>1, <1>3
  <2>4. CASE i = Len(n) + 2
    <3>1. i + 1 = Len(n) + 3
      BY <2>4, <1>1
    <3>2. w \notin {"{", "}"}
      BY DEF Types
    <3> QED
      BY <2>1, <3>1, <3>2, <1>3
  <2>5. i \in 1..Len(n) \/ i = Len(n) + 1 \/ i = Len(n) + 2
    BY ONLY <2>1, <1>1
  <2> QED
    BY <2>2, <2>3, <2>4, <2>5, Zenon
<1>12. IsParam(s) /\ s[Len(s)] = "}"
  <2>1. s # << >>
    BY <1>1
  <2> QED
    BY <2>1, <1>1, <1>3 DEF IsParam
<1> QED
  BY <1>4, <1>8, <1>9, <1>10, <1>11, <1>12 DEF Fine

\* The names a text holds are texts.
LEMMA NamesAreTexts ==
    ASSUME NEW s \in Seq(Alphabet), NEW n \in NamesIn(s)
    PROVE  n \in Seq(Alphabet) /\ ValidName(n)
<1>1. ValidName(n) /\ n \in {SubSeq(s, i, j) : i, j \in 1..Len(s)}
  BY DEF NamesIn
<1>2. PICK i \in 1..Len(s), j \in 1..Len(s) : n = SubSeq(s, i, j)
  BY <1>1
<1>3. n \in Seq(Alphabet)
  BY <1>2, PartOfText
<1> QED
  BY <1>1, <1>3

\* A parameter's text that passes is written in one of the ways.
LEMMA FineWritten ==
    ASSUME NEW s \in Seq(Alphabet), IsParam(s), Fine(s)
    PROVE  LET n == Name(s)
               o == IF IsRest(s) THEN 2 ELSE 1
           IN  /\ ~HasType(s) => Plain(s, n, o)
               /\ HasType(s) => ~IsRest(s) /\ Type(s)[1] \in Types /\ Tagged(s, n, Type(s)[1])
               /\ n \in NamesIn(s)
<1> DEFINE n == Name(s)
           o == IF IsRest(s) THEN 2 ELSE 1
           b == Body(s)
           c == Colon(s)
<1>1. Len(s) \in Nat /\ Len(s) >= 2 /\ s[1] = "{" /\ s[Len(s)] = "}"
  <2>1. s # << >> /\ s[1] = "{" /\ s[Len(s)] = "}"
    BY DEF IsParam, Fine
  <2>2. Len(s) \in Nat \ {0}
    BY <2>1, EmptySeq, Zenon
  <2>3. Len(s) # 1
    BY <2>1
  <2>4. \A l \in Nat \ {0} : l # 1 => l \in Nat /\ l >= 2
    OBVIOUS
  <2>5. Len(s) \in Nat /\ Len(s) >= 2
    BY <2>2, <2>3, <2>4, Zenon
  <2> QED
    BY <2>1, <2>5
<1>2. n \in Seq(Alphabet) /\ ValidName(n) /\ Len(n) \in Nat /\ Len(n) >= 1
  <2>1. n \in Seq(Alphabet) /\ ValidName(n)
    BY SegmentParts DEF Fine
  <2>2. Len(n) \in Nat \ {0}
    BY <2>1, NameHas
  <2> QED
    BY <2>1, <2>2
<1>3. /\ o = 1 \/ o = 2
      /\ o = 2 <=> IsRest(s)
  OBVIOUS
<1>4. /\ IsRest(s) => s[2] = "*"
      /\ Len(b) = Len(s) - 1 - o
      /\ \A i \in 1..(Len(s) - 1 - o) : b[i] = s[i + o]
  BY <1>1, BodyBytes
<1>5. b \in Seq(Alphabet) /\ Len(b) \in Nat /\ c \in 1..(Len(b) + 1)
  BY SegmentParts
<1>6. /\ Len(n) = c - 1
      /\ \A i \in 1..(c - 1) : n[i] = b[i]
      /\ HasType(s) => /\ Len(Type(s)) = Len(b) - c
                       /\ \A i \in 1..(Len(b) - c) : Type(s)[i] = b[c + i]
  BY NameBytes
<1>7. HasType(s) <=> c <= Len(b)
  BY DEF HasType
<1>8. c <= Len(b) => b[c] = ":"
  <2>1. c = FirstAt(b, ":", 1) /\ 1 \in 1..(Len(b) + 1)
    BY <1>5 DEF Colon
  <2> HIDE DEF b, c
  <2> QED
    BY <2>1, <1>5, FirstAtIs
<1>9. HasType(s) => ~IsRest(s) /\ \E t \in Types : Type(s) = <<t>>
  BY DEF Fine
<1> HIDE DEF n, o, b, c
<1>n. /\ Len(s) \in Nat /\ Len(s) >= 2 /\ Len(n) \in Nat /\ Len(n) >= 1
      /\ o = 1 \/ o = 2
      /\ Len(b) \in Nat /\ Len(b) = Len(s) - 1 - o
      /\ c \in 1..(Len(b) + 1) /\ Len(n) = c - 1
  BY <1>1, <1>2, <1>3, <1>4, <1>5, <1>6
<1>10. \A i \in 1..Len(n) : s[i + o] = n[i]
  <2> TAKE i \in 1..Len(n)
  <2>1. i \in 1..(c - 1) /\ i \in 1..(Len(s) - 1 - o)
    BY ONLY <1>n
  <2> QED
    BY <2>1, <1>4, <1>6
<1>11. ~HasType(s) => Plain(s, n, o)
  <2> SUFFICES ASSUME ~HasType(s) PROVE Plain(s, n, o)
    OBVIOUS
  <2>1. ~(c <= Len(b))
    BY <1>7
  <2>2. Len(s) = Len(n) + o + 1
    BY ONLY <2>1, <1>n
  <2> QED
    BY <2>2, <1>1, <1>3, <1>4, <1>10 DEF Plain
<1>12. HasType(s) => ~IsRest(s) /\ Type(s)[1] \in Types /\ Tagged(s, n, Type(s)[1])
  <2> SUFFICES ASSUME HasType(s)
               PROVE  ~IsRest(s) /\ Type(s)[1] \in Types /\ Tagged(s, n, Type(s)[1])
    OBVIOUS
  <2>1. ~IsRest(s) /\ o = 1
    BY <1>3, <1>9
  <2>2. PICK t \in Types : Type(s) = <<t>>
    BY <1>9
  <2>3. Len(Type(s)) = 1 /\ Type(s)[1] = t
    BY <2>2
  <2>4. Len(b) - c = 1
    BY <2>3, <1>6
  <2>5. /\ Len(n) + 1 = c /\ Len(b) = Len(n) + 2 /\ Len(s) = Len(n) + 4
        /\ c \in 1..(Len(s) - 1 - o) /\ c + 1 \in 1..(Len(s) - 1 - o)
        /\ c + o = Len(n) + 2 /\ (c + 1) + o = Len(n) + 3
        /\ 1 \in 1..(Len(b) - c) /\ c <= Len(b)
    BY ONLY <2>1, <2>4, <1>n
  <2>6. s[Len(n) + 2] = ":"
    BY <2>5, <1>4, <1>8
  <2>7. b[c + 1] = t
    BY <2>3, <2>5, <1>6
  <2>8. s[Len(n) + 3] = t
    BY <2>5, <2>7, <1>4
  <2>9. \A i \in 1..Len(n) : s[i + 1] = n[i]
    BY <2>1, <1>10
  <2>10. Tagged(s, n, t)
    BY <2>5, <2>6, <2>8, <2>9, <1>1 DEF Tagged
  <2> QED
    BY <2>1, <2>3, <2>10
<1>13. n \in NamesIn(s)
  <2> DEFINE i == o + 1
             j == o + Len(n)
             t == SubSeq(s, i, j)
  <2>a. i = o + 1 /\ j = o + Len(n)
    OBVIOUS
  <2>1. /\ i \in 1..Len(s) /\ j \in 1..Len(s) /\ i \in Nat /\ j \in Int /\ 1 <= i
        /\ i <= j + 1 /\ j <= Len(s) /\ j + 1 - i = Len(n)
        /\ \A k \in 1..Len(n) : i + k - 1 = k + o
    BY ONLY <2>a, <1>n
  <2> HIDE DEF i, j
  <2>2. t \in Seq(Alphabet) /\ Len(t) = Len(n) /\ \A k \in 1..Len(n) : t[k] = s[k + o]
    BY <2>1, PartBytes
  <2>3. t = n
    BY <2>2, <1>2, <1>10, SeqEqual
  <2> QED
    BY <2>1, <2>3, <1>2 DEF NamesIn
<1> QED
  BY <1>11, <1>12, <1>13 DEF n, o

\* A part that opens with a brace is read as the parameter the parser makes of
\* it, or not at all.
LEMMA ReadingsOfParam ==
    ASSUME NEW s \in Seq(Alphabet), IsParam(s)
    PROVE  \A r : r \in Readings(s) <=> Fine(s) /\ r = Segment(s)
<1> SUFFICES ASSUME NEW r PROVE r \in Readings(s) <=> Fine(s) /\ r = Segment(s)
  OBVIOUS
<1>1. ~GoodLiteral(s)
  <2>1. s # << >> /\ s[1] = "{"
    BY DEF IsParam
  <2>a. Len(s) \in Nat \ {0}
    BY <2>1, EmptySeq, Zenon
  <2>2. 1 \in 1..Len(s)
    BY ONLY <2>a
  <2>3. "{" \notin Pchars
    BY AlphabetAssumption
  <2> QED
    BY <2>1, <2>2, <2>3 DEF GoodLiteral
<1>2. Segment(s) = [kind |-> IF IsRest(s) THEN "rest"
                             ELSE IF HasType(s) THEN KindOf(Type(s)[1]) ELSE "param",
                    text |-> Name(s)]
  BY DEF Segment
<1>3. r \in Readings(s) <=>
          r \in [kind : Kinds \ {"literal"}, text : NamesIn(s)] /\ s \in Braced(r.kind, r.text)
  BY <1>1 DEF Readings
<1>4. \A n \in NamesIn(s) : n \in Seq(Alphabet) /\ ValidName(n)
  BY NamesAreTexts
<1>5. ASSUME r \in Readings(s)
      PROVE  Fine(s) /\ r = Segment(s)
  <2> DEFINE kind == r.kind
             n == r.text
  <2>1. /\ kind \in Kinds \ {"literal"} /\ n \in NamesIn(s) /\ r = [kind |-> kind, text |-> n]
        /\ s \in Braced(kind, n)
    BY <1>3, <1>5
  <2> HIDE DEF kind, n
  <2>2. n \in Seq(Alphabet) /\ ValidName(n)
    BY <2>1, <1>4
  <2>3. CASE kind = "rest" /\ Plain(s, n, 2)
    <3>1. 2 \in {1, 2}
      OBVIOUS
    <3>2. Fine(s) /\ Name(s) = n /\ IsRest(s)
      BY <2>2, <2>3, <3>1, PlainRead
    <3> QED
      BY <2>1, <2>3, <3>2, <1>2
  <2>4. CASE kind = "param" /\ Plain(s, n, 1)
    <3>1. 1 \in {1, 2} /\ 1 # 2
      OBVIOUS
    <3>2. Fine(s) /\ Name(s) = n /\ ~IsRest(s) /\ ~HasType(s)
      BY <2>2, <2>4, <3>1, PlainRead
    <3> QED
      BY <2>1, <2>4, <3>2, <1>2
  <2>5. ASSUME NEW w \in Types, KindOf(w) = kind, Tagged(s, n, w)
        PROVE  Fine(s) /\ r = Segment(s)
    <3>1. Fine(s) /\ Name(s) = n /\ ~IsRest(s) /\ HasType(s) /\ Type(s)[1] = w
      BY <2>2, <2>5, TaggedRead
    <3> QED
      BY <2>1, <2>5, <3>1, <1>2
  <2>6. \/ kind = "rest" /\ Plain(s, n, 2)
        \/ kind = "param" /\ Plain(s, n, 1)
        \/ kind = "param" /\ Tagged(s, n, "string")
        \/ kind = "u64" /\ Tagged(s, n, "u64")
        \/ kind = "i64" /\ Tagged(s, n, "i64")
    <3>1. kind = "rest" \/ kind = "param" \/ kind = "u64" \/ kind = "i64"
      BY <2>1 DEF Kinds
    <3> QED
      BY <2>1, <2>2, <3>1, BracedForm
  <2>7. /\ KindOf("string") = "param" /\ KindOf("u64") = "u64" /\ KindOf("i64") = "i64"
        /\ "string" \in Types /\ "u64" \in Types /\ "i64" \in Types
    BY DEF KindOf, Types
  <2> QED
    BY <2>3, <2>4, <2>5, <2>6, <2>7
<1>6. ASSUME Fine(s), r = Segment(s)
      PROVE  r \in Readings(s)
  <2> DEFINE n == Name(s)
  <2>1. /\ ~HasType(s) => Plain(s, n, IF IsRest(s) THEN 2 ELSE 1)
        /\ HasType(s) => ~IsRest(s) /\ Type(s)[1] \in Types /\ Tagged(s, n, Type(s)[1])
        /\ n \in NamesIn(s)
    BY <1>6, FineWritten
  <2>2. n \in Seq(Alphabet)
    BY SegmentParts
  <2> HIDE DEF n
  <2>3. CASE IsRest(s)
    <3>1. r = [kind |-> "rest", text |-> n] /\ Plain(s, n, 2)
      BY <2>1, <2>3, <1>2, <1>6 DEF n
    <3>2. s \in Braced("rest", n)
      BY <3>1, <2>2, BracedForm DEF Kinds
    <3> QED
      BY <3>1, <3>2, <2>1, <1>3 DEF Kinds
  <2>4. CASE ~IsRest(s) /\ ~HasType(s)
    <3>1. r = [kind |-> "param", text |-> n] /\ Plain(s, n, 1)
      BY <2>1, <2>4, <1>2, <1>6 DEF n
    <3>2. s \in Braced("param", n)
      BY <3>1, <2>2, BracedForm DEF Kinds
    <3> QED
      BY <3>1, <3>2, <2>1, <1>3 DEF Kinds
  <2>5. CASE ~IsRest(s) /\ HasType(s)
    <3> DEFINE w == Type(s)[1]
    <3>1. r = [kind |-> KindOf(w), text |-> n] /\ w \in Types /\ Tagged(s, n, w)
      BY <2>1, <2>5, <1>2, <1>6 DEF n
    <3> HIDE DEF w
    <3>2. KindOf(w) \in Kinds \ {"literal"} /\ (KindOf(w) = "param" => w = "string")
          /\ (KindOf(w) # "param" => KindOf(w) = w) /\ KindOf(w) # "rest"
      BY <3>1 DEF KindOf, Types, Kinds
    <3>3. s \in Braced(KindOf(w), n)
      BY <3>1, <3>2, <2>2, BracedForm
    <3> QED
      BY <3>1, <3>2, <3>3, <2>1, <1>3
  <2> QED
    BY <2>3, <2>4, <2>5
<1> QED
  BY <1>5, <1>6

\* Any other part is read as a literal, or not at all.
LEMMA ReadingsOfLiteral ==
    ASSUME NEW s \in Seq(Alphabet), ~IsParam(s)
    PROVE  \A r : r \in Readings(s) <=> GoodLiteral(s) /\ r = Segment(s)
<1> SUFFICES ASSUME NEW r PROVE r \in Readings(s) <=> GoodLiteral(s) /\ r = Segment(s)
  OBVIOUS
<1>1. Segment(s) = [kind |-> "literal", text |-> s]
  BY DEF Segment
<1>2. ASSUME r \in [kind : Kinds \ {"literal"}, text : NamesIn(s)], s \in Braced(r.kind, r.text)
      PROVE  FALSE
  <2> DEFINE kind == r.kind
             n == r.text
  <2>1. kind \in Kinds \ {"literal"} /\ n \in NamesIn(s) /\ s \in Braced(kind, n)
    BY <1>2
  <2> HIDE DEF kind, n
  <2>2. n \in Seq(Alphabet) /\ ValidName(n)
    BY <2>1, NamesAreTexts
  <2>3. \/ Plain(s, n, 2)
        \/ Plain(s, n, 1)
        \/ \E w \in Types : Tagged(s, n, w)
    <3>1. kind = "rest" \/ kind = "param" \/ kind = "u64" \/ kind = "i64"
      BY <2>1 DEF Kinds
    <3>2. "string" \in Types /\ "u64" \in Types /\ "i64" \in Types
      BY DEF Types
    <3> QED
      BY <2>1, <2>2, <3>1, <3>2, BracedForm
  <2>4. 1 \in {1, 2} /\ 2 \in {1, 2}
    OBVIOUS
  <2> QED
    BY <2>2, <2>3, <2>4, PlainRead, TaggedRead
<1> QED
  BY <1>1, <1>2 DEF Readings
-----------------------------------------------------------------------------
(* What the tests of a segment decide.                                     *)

\* A segment accepted can be read, and the segments before allow it.
LEMMA AcceptedReads ==
    ASSUME text \in Seq(Alphabet), pos \in 1..(Len(text) + 1), Tests[1] = "None"
    PROVE  /\ ~AfterRest
           /\ Seg = << >> => IsLast
           /\ Len(segs) # MaxSegments
           /\ Segment(Seg) \in Readings(Seg)
           /\ IsParam(Seg) => ~Named(Name(Seg)) /\ params # MaxParams
<1>1. Seg \in Seq(Alphabet)
  BY SegmentText
<1>2. /\ ~AfterRest /\ Len(segs) # MaxSegments
      /\ IsParam(Seg) => ~Named(Name(Seg)) /\ params # MaxParams
  BY TestsPassed
<1>3. Seg = << >> => IsLast
  BY <1>2 DEF Tests
<1>4. CASE ~IsParam(Seg)
  <2>1. Stop > Len(Seg)
    BY <1>2, <1>3, <1>4 DEF Tests
  <2>2. GoodLiteral(Seg)
    BY <1>1, <2>1, GoodLiteralIs DEF Stop
  <2> QED
    BY <1>1, <1>2, <1>3, <1>4, <2>2, ReadingsOfLiteral
<1>5. CASE IsParam(Seg)
  <2>1. Fine(Seg)
    BY <1>2, <1>3, <1>5 DEF Tests, Fine
  <2> QED
    BY <1>1, <1>2, <1>3, <1>5, <2>1, ReadingsOfParam
<1> QED
  BY <1>4, <1>5

\* The grounds to refuse a segment, each with the error and the byte it names.
NoMore == AfterRest \/ Len(segs) = MaxSegments
EmptyPart == ~AfterRest /\ Seg = << >> /\ ~IsLast /\ Tests = <<"EmptySegment", 0>>
BadByte ==
    /\ ~NoMore /\ ~IsParam(Seg)
    /\ Stop <= Len(Seg) /\ Tests[2] = Stop - 1
BadParam == ~NoMore /\ IsParam(Seg) /\ Tests[2] = 0 /\ ~Fine(Seg)
TakenName == ~NoMore /\ IsParam(Seg) /\ Tests[2] = 0 /\ Fine(Seg) /\ Named(Name(Seg))
OneTooMany == ~NoMore /\ IsParam(Seg) /\ Tests[2] = 0 /\ Fine(Seg) /\ params = MaxParams

\* The tests look at the text, the segments and the count of parameters only.
LEMMA TestsKept ==
    ASSUME text' = text, pos' = pos, segs' = segs, params' = params
    PROVE  Tests' = Tests
<1>1. End' = End
  BY DEF End
<1>2. Seg' = Seg /\ IsLast' = IsLast
  BY <1>1 DEF Seg, IsLast
<1>3. Stop' = Stop /\ AfterRest' = AfterRest
  BY <1>2 DEF Stop, AfterRest
<1>4. Named(Name(Seg))' = Named(Name(Seg))
  BY <1>2 DEF Named
<1> QED
  BY <1>2, <1>3, <1>4 DEF Tests

\* A segment refused is refused on one of them.
LEMMA RefusedFor ==
    ASSUME text \in Seq(Alphabet), pos \in 1..(Len(text) + 1), Tests[1] # "None"
    PROVE  /\ \/ NoMore /\ Tests[2] = 0
              \/ EmptyPart \/ BadByte \/ BadParam \/ TakenName \/ OneTooMany
           /\ Tests[1] = "RestNotLast" <=> AfterRest
<1>1. CASE AfterRest
  BY <1>1 DEF Tests, NoMore
<1>2. CASE ~AfterRest /\ Seg = << >> /\ ~IsLast
  BY <1>2 DEF Tests, EmptyPart
<1>3. CASE ~AfterRest /\ ~(Seg = << >> /\ ~IsLast) /\ Len(segs) = MaxSegments
  BY <1>3 DEF Tests, NoMore
<1>4. CASE ~AfterRest /\ ~(Seg = << >> /\ ~IsLast) /\ Len(segs) # MaxSegments /\ ~IsParam(Seg)
  <2>1. Tests = IF Stop > Len(Seg) THEN <<"None", 0>>
                ELSE <<IF Seg[Stop] \in {"{", "}"} THEN "BraceInLiteral" ELSE "NotPchar",
                       Stop - 1>>
    BY <1>4 DEF Tests
  <2>2. ~(Stop > Len(Seg)) /\ Tests[2] = Stop - 1 /\ Tests[1] # "RestNotLast"
    BY <2>1
  <2>3. Stop \in Int
    <3>1. Tests[2] = Stop - 1
      BY <2>2
    <3> QED
      BY SegmentText, LiteralStopIs DEF Stop, StopFrom
  <2>4. Stop <= Len(Seg)
    BY <2>2, <2>3, SegmentText
  <2>5. ~NoMore
    BY <1>4 DEF NoMore
  <2>6. BadByte
    BY <1>4, <2>2, <2>4, <2>5 DEF BadByte
  <2> QED
    BY <1>4, <2>2, <2>6
<1>5. CASE ~AfterRest /\ ~(Seg = << >> /\ ~IsLast) /\ Len(segs) # MaxSegments /\ IsParam(Seg)
  <2>1. Tests[2] = 0 /\ Tests[1] # "RestNotLast"
    BY <1>5 DEF Tests
  <2>2. CASE ~Fine(Seg)
    BY <1>5, <2>1, <2>2 DEF BadParam, NoMore
  <2>3. CASE Fine(Seg)
    <3>1. Name(Seg) # << >>
      BY <2>3 DEF Fine, ValidName
    <3>2. Named(Name(Seg)) \/ params = MaxParams
      BY <1>5, <2>3, <3>1 DEF Tests, Fine
    <3> QED
      BY <1>5, <2>1, <2>3, <3>2 DEF TakenName, OneTooMany, NoMore
  <2> QED
    BY <1>5, <2>1, <2>2, <2>3
<1> QED
  BY <1>1, <1>2, <1>3, <1>4, <1>5

-----------------------------------------------------------------------------
(* The slashes of a text.                                                  *)

\* How many slashes a text has up to a place, and the place of the k-th.
UpTo(s, i) == {j \in Slashes(s) : j <= i}

Count(s, i) == Cardinality(UpTo(s, i))

SlashAt(s, k, i) == i \in Slashes(s) /\ Count(s, i) = k

\* They are finitely many.
LEMMA CountIs ==
    ASSUME NEW s \in Seq(Alphabet), NEW i \in Nat
    PROVE  /\ IsFiniteSet(UpTo(s, i)) /\ Count(s, i) \in Nat
           /\ IsFiniteSet(Slashes(s)) /\ Cardinality(Slashes(s)) \in Nat
           /\ Count(s, i) <= Cardinality(Slashes(s))
           /\ Len(s) <= i => Count(s, i) = Cardinality(Slashes(s))
<1>1. Len(s) \in Nat /\ IsFiniteSet(1..Len(s))
  BY FS_Interval
<1>2. IsFiniteSet(Slashes(s))
  BY <1>1, FS_Subset DEF Slashes
<1>3. UpTo(s, i) \subseteq Slashes(s)
  BY DEF UpTo
<1>4. Len(s) <= i => UpTo(s, i) = Slashes(s)
  BY <1>1 DEF UpTo, Slashes
<1> QED
  BY <1>2, <1>3, <1>4, FS_Subset, FS_CardinalityType DEF Count

\* A slash adds one, any other byte none.
LEMMA CountStep ==
    ASSUME NEW s \in Seq(Alphabet), NEW i \in Nat, NEW j \in Nat, i < j,
           \A k \in (i + 1)..(j - 1) : k \notin Slashes(s)
    PROVE  Count(s, j) = Count(s, i) + (IF j \in Slashes(s) THEN 1 ELSE 0)
<1>1. CASE j \in Slashes(s)
  <2>1. UpTo(s, j) = UpTo(s, i) \cup {j} /\ j \notin UpTo(s, i)
    <3>1. \A k \in Slashes(s) : k \in Nat
      BY DEF Slashes
    <3>2. \A k \in Slashes(s) : k <= j <=> k <= i \/ k = j
      <4> TAKE k \in Slashes(s)
      <4>1. k \notin (i + 1)..(j - 1) /\ k \in Nat
        BY <3>1
      <4> QED
        BY <4>1
    <3>3. ~(j <= i)
      OBVIOUS
    <3> QED
      BY <1>1, <3>2, <3>3 DEF UpTo
  <2> QED
    BY <1>1, <2>1, CountIs, FS_AddElement DEF Count
<1>2. CASE j \notin Slashes(s)
  <2>1. UpTo(s, j) = UpTo(s, i)
    <3>1. \A k \in Slashes(s) : k \in Nat
      BY DEF Slashes
    <3> QED
      BY <1>2, <3>1 DEF UpTo
  <2> QED
    BY <1>2, <2>1, CountIs DEF Count
<1> QED
  BY <1>1, <1>2

\* The counts never fall, and are greater from a slash on than before it.
LEMMA CountGrows ==
    ASSUME NEW s \in Seq(Alphabet), NEW i \in Nat, NEW j \in Nat, i <= j
    PROVE  /\ Count(s, i) <= Count(s, j)
           /\ i < j /\ j \in Slashes(s) => Count(s, i) < Count(s, j)
<1>0. /\ IsFiniteSet(UpTo(s, i)) /\ Count(s, i) \in Nat
      /\ IsFiniteSet(UpTo(s, j)) /\ Count(s, j) \in Nat
  BY CountIs
<1>1. UpTo(s, i) \subseteq UpTo(s, j)
  <2>1. \A k \in Slashes(s) : k \in Nat
    BY DEF Slashes
  <2> QED
    BY <2>1 DEF UpTo
<1>2. Count(s, i) <= Count(s, j)
  BY <1>0, <1>1, FS_Subset DEF Count
<1>3. ASSUME i < j, j \in Slashes(s)
      PROVE  Count(s, i) < Count(s, j)
  <2>1. j \in UpTo(s, j) /\ j \notin UpTo(s, i)
    BY <1>3 DEF UpTo
  <2>2. UpTo(s, i) \cup {j} \subseteq UpTo(s, j)
    BY <1>1, <2>1
  <2>3. Cardinality(UpTo(s, i) \cup {j}) = Count(s, i) + 1
    BY <1>0, <2>1, FS_AddElement DEF Count
  <2>4. Cardinality(UpTo(s, i) \cup {j}) <= Count(s, j)
    BY <1>0, <2>2, FS_Subset DEF Count
  <2> QED
    BY <1>0, <2>3, <2>4
<1> QED
  BY <1>2, <1>3

\* There is one k-th slash for every number up to how many there are.
LEMMA SlashIsOne ==
    ASSUME NEW s \in Seq(Alphabet), NEW k
    PROVE  /\ \A i, j : SlashAt(s, k, i) /\ SlashAt(s, k, j) => i = j
           /\ k \in 1..Cardinality(Slashes(s)) <=> \E i \in Slashes(s) : SlashAt(s, k, i)
<1>1. Len(s) \in Nat /\ \A i \in Slashes(s) : i \in Nat /\ i \in 1..Len(s)
  BY DEF Slashes
<1>2. ASSUME NEW i, NEW j, SlashAt(s, k, i), SlashAt(s, k, j)
      PROVE  i = j
  <2>1. i \in Nat /\ j \in Nat /\ i \in Slashes(s) /\ j \in Slashes(s)
        /\ Count(s, i) = Count(s, j) /\ Count(s, i) \in Nat
    BY <1>1, <1>2, CountIs DEF SlashAt
  <2>2. ~(i < j)
    BY <2>1, CountGrows
  <2>3. ~(j < i)
    BY <2>1, CountGrows
  <2> QED
    BY <2>1, <2>2, <2>3
<1>3. ASSUME NEW i \in Slashes(s), SlashAt(s, k, i)
      PROVE  k \in 1..Cardinality(Slashes(s))
  <2>1. Count(s, i) = k /\ i \in Nat /\ i > 0
    BY <1>1, <1>3 DEF SlashAt
  <2>2. k \in Nat /\ k <= Cardinality(Slashes(s)) /\ Cardinality(Slashes(s)) \in Nat
    BY <2>1, CountIs
  <2>3. Count(s, 0) < k /\ Count(s, 0) \in Nat
    BY <2>1, CountGrows, CountIs
  <2> QED
    BY <2>2, <2>3
<1>4. ASSUME k \in 1..Cardinality(Slashes(s))
      PROVE  \E i \in Slashes(s) : SlashAt(s, k, i)
  <2> DEFINE T == {i \in 0..Len(s) : k <= Count(s, i)}
  <2>0. k \in Nat /\ k >= 1 /\ k <= Cardinality(Slashes(s)) /\ Cardinality(Slashes(s)) \in Nat
    BY <1>4, CountIs, <1>1
  <2>1. T \in SUBSET Nat /\ T # {}
    <3>1. Count(s, Len(s)) = Cardinality(Slashes(s))
      BY <1>1, CountIs
    <3>2. Len(s) \in T
      BY <1>1, <2>0, <3>1
    <3> QED
      BY <1>1, <3>2
  <2>2. PICK i \in T : \A y \in T : i <= y
    <3> HIDE DEF T
    <3> QED
      BY <2>1, LeastNumber
  <2>3. i \in Nat /\ k <= Count(s, i) /\ Count(s, i) \in Nat /\ i <= Len(s)
    BY <1>1, CountIs
  <2>4. i # 0
    <3>1. UpTo(s, 0) = {}
      BY <1>1 DEF UpTo
    <3>2. Count(s, 0) = 0
      BY <3>1, FS_EmptySet DEF Count
    <3> QED
      BY <2>0, <2>3, <3>2
  <2>5. i - 1 \in Nat /\ i - 1 < i /\ i - 1 \in 0..Len(s)
    BY <1>1, <2>3, <2>4
  <2>6. Count(s, i - 1) < k /\ Count(s, i - 1) \in Nat
    <3>1. i - 1 \notin T
      BY <2>2, <2>3, <2>5
    <3>2. Count(s, i - 1) \in Nat
      BY <2>5, CountIs
    <3> QED
      BY <2>0, <2>5, <3>1, <3>2
  <2>7. Count(s, i) = Count(s, i - 1) + (IF i \in Slashes(s) THEN 1 ELSE 0)
    <3>1. \A m \in (i - 1 + 1)..(i - 1) : m \notin Slashes(s)
      BY <2>3
    <3> QED
      BY <2>3, <2>5, <3>1, CountStep
  <2>8. i \in Slashes(s) /\ Count(s, i) = k
    BY <2>0, <2>3, <2>6, <2>7
  <2> QED
    BY <2>8 DEF SlashAt
<1> QED
  BY <1>2, <1>3, <1>4
-----------------------------------------------------------------------------
(* What makes a text well formed.                                          *)

\* A part can be read as one segment at most, the one the parser makes of it.
LEMMA OneReading ==
    ASSUME NEW t \in Seq(Alphabet), NEW r \in Readings(t)
    PROVE  /\ r = Segment(t)
           /\ r \in SegmentsRead
           /\ r.kind = "literal" <=> ~IsParam(t)
           /\ r.kind # "literal" => r.text # << >>
<1>1. r = Segment(t)
  BY ReadingsOfParam, ReadingsOfLiteral
<1>2. CASE ~IsParam(t)
  <2>1. r = [kind |-> "literal", text |-> t]
    BY <1>1, <1>2 DEF Segment
  <2> QED
    BY <1>1, <1>2, <2>1 DEF SegmentsRead, Kinds
<1>3. CASE IsParam(t)
  <2>1. Fine(t)
    BY <1>3, ReadingsOfParam
  <2>2. Name(t) \in Seq(Alphabet) /\ Name(t) # << >>
    BY <2>1, SegmentParts DEF Fine, ValidName
  <2> DEFINE kind == IF IsRest(t) THEN "rest" ELSE IF HasType(t) THEN KindOf(Type(t)[1]) ELSE "param"
  <2>3. r = [kind |-> kind, text |-> Name(t)]
    BY <1>1, <1>3 DEF Segment
  <2>4. kind \in {"rest", "u64", "i64", "param"}
    <3>1. HasType(t) => Type(t)[1] \in Types
      BY <1>3, <2>1, FineWritten
    <3> QED
      BY <3>1 DEF KindOf, Types
  <2> HIDE DEF kind
  <2>5. r.kind = kind /\ r.text = Name(t)
    BY <2>3
  <2>6. r \in SegmentsRead
    BY <2>2, <2>3, <2>4 DEF SegmentsRead, Kinds
  <2>7. kind # "literal"
    BY <2>4
  <2> QED
    BY <1>1, <1>3, <2>2, <2>5, <2>6, <2>7
<1> QED
  BY <1>2, <1>3

\* The part after a slash is a text.
LEMMA PartIs ==
    ASSUME NEW s \in Seq(Alphabet), NEW i \in Slashes(s)
    PROVE  Part(s, i) \in Seq(Alphabet)
<1>1. Len(s) \in Nat /\ i \in 1..Len(s)
  BY DEF Slashes
<1>2. i + 1 \in 1..(Len(s) + 1)
  BY <1>1
<1>3. FirstAt(s, "/", i + 1) \in (i + 1)..(Len(s) + 1)
  BY <1>2, FirstAtIs
<1> QED
  BY <1>1, <1>3, PartOfText DEF Part

\* The parts of a text, by the number of their slash.
LEMMA PartsAre ==
    ASSUME NEW s \in Seq(Alphabet), s # <<"/">>
    PROVE  /\ Len(Parts(s)) = Cardinality(Slashes(s))
           /\ \A k, i : SlashAt(s, k, i) =>
                  k \in 1..Cardinality(Slashes(s)) /\ Parts(s)[k] = Part(s, i)
<1> DEFINE n == Cardinality(Slashes(s))
           nth == [k \in 1..n |-> CHOOSE i \in Slashes(s) :
                                      Cardinality({j \in Slashes(s) : j <= i}) = k]
<1>1. n \in Nat
  <2>1. 0 \in Nat
    OBVIOUS
  <2> QED
    BY <2>1, CountIs
<1>2. Parts(s) = [k \in DOMAIN nth |-> Part(s, nth[k])] /\ DOMAIN nth = 1..n
  BY DEF Parts
<1>3. ASSUME NEW k, NEW i, SlashAt(s, k, i)
      PROVE  k \in 1..n /\ nth[k] = i
  <2>1. k \in 1..n /\ i \in Slashes(s)
    BY <1>3, SlashIsOne DEF SlashAt
  <2>2. \A j \in Slashes(s) : Cardinality({m \in Slashes(s) : m <= j}) = k <=> j = i
    BY <1>3, <2>1, SlashIsOne DEF SlashAt, Count, UpTo
  <2> QED
    BY <2>1, <2>2
<1> HIDE DEF nth, n
<1>4. \A k \in 1..n : Parts(s)[k] = Part(s, nth[k])
  BY <1>2
<1>5. Len(Parts(s)) = n
  BY <1>1, <1>2
<1>6. ASSUME NEW k, NEW i, SlashAt(s, k, i)
      PROVE  k \in 1..n /\ Parts(s)[k] = Part(s, i)
  BY <1>3, <1>4, <1>6
<1> QED
  BY <1>5, <1>6 DEF n

\* A text is read as these segments.
ReadAs(s, p) ==
    /\ p \in Seq(SegmentsRead)
    /\ Len(p) = Cardinality(Slashes(s))
    /\ \A k \in 1..Len(p) : \E i : SlashAt(s, k, i) /\ p[k] \in Readings(Part(s, i))

\* The rules that relate one segment to another, on their texts.
PlainRules(p) ==
    /\ Len(p) <= MaxSegments
    /\ Cardinality(ParamsOf(p)) <= MaxParams
    /\ \A k \in 1..Len(p) : p[k].kind = "rest" => k = Len(p)
    /\ \A k \in 1..Len(p) : p[k].kind = "literal" /\ p[k].text = << >> => k = Len(p) /\ k > 1
    /\ \A j, k \in ParamsOf(p) : p[j].text = p[k].text => j = k

\* Texts and the numbers they get are equal together.
LEMMA NumberedIs ==
    ASSUME NEW p \in Seq(SegmentsRead)
    PROVE  /\ Numbered(p) \in Seq([kind : Kinds, text : Nat])
           /\ Len(Numbered(p)) = Len(p)
           /\ \A k \in 1..Len(p) : /\ Numbered(p)[k].kind = p[k].kind
                                   /\ Numbered(p)[k].text = 0 <=> p[k].text = << >>
           /\ \A j, k \in 1..Len(p) :
                  Numbered(p)[j].text = Numbered(p)[k].text <=> p[j].text = p[k].text
<1> DEFINE L(k, j) == p[j].text = p[k].text /\ \A i \in 1..(j - 1) : p[i].text # p[k].text
           Number(k) == CHOOSE j \in 1..k : L(k, j)
           num(k) == IF p[k].text = << >> THEN 0 ELSE Number(k)
<1>1. Len(p) \in Nat /\ \A k \in 1..Len(p) : k \in Nat /\ p[k].kind \in Kinds
  <2>1. \A k \in 1..Len(p) : p[k] \in SegmentsRead
    BY ElementOfSeq
  <2>2. \A k \in 1..Len(p) : p[k].kind \in Kinds
    BY <2>1 DEF SegmentsRead
  <2>3. Len(p) \in Nat /\ \A k \in 1..Len(p) : k \in Nat
    OBVIOUS
  <2> QED
    BY <2>2, <2>3
<1>2. ASSUME NEW k \in 1..Len(p)
      PROVE  Number(k) \in 1..k /\ L(k, Number(k))
  <2> DEFINE T == {j \in 1..k : p[j].text = p[k].text}
  <2>1. T \in SUBSET Nat /\ k \in T
    BY <1>1
  <2>2. PICK j \in T : \A y \in T : j <= y
    <3> HIDE DEF T
    <3> QED
      BY <2>1, LeastNumber
  <2>3. L(k, j)
    <3> SUFFICES ASSUME NEW i \in 1..(j - 1), p[i].text = p[k].text PROVE FALSE
      BY <2>2
    <3>1. i \in 1..k /\ i < j /\ i \in Nat /\ j \in Nat
      BY <1>1, <2>2
    <3>2. i \in T
      BY <3>1
    <3> QED
      BY <2>2, <3>1, <3>2
  <2>4. j \in 1..k
    BY <2>2
  <2> HIDE DEF T, L
  <2> QED
    BY <2>3, <2>4
<1>3. ASSUME NEW j \in 1..Len(p), NEW k \in 1..Len(p)
      PROVE  p[j].text = p[k].text <=> Number(j) = Number(k)
  <2> DEFINE a == Number(j)
             b == Number(k)
  <2>1. a \in 1..j /\ L(j, a) /\ b \in 1..k /\ L(k, b)
    BY <1>2
  <2> HIDE DEF a, b
  <2>2. a \in Nat /\ b \in Nat /\ a >= 1 /\ b >= 1
    BY <1>1, <2>1
  <2>3. p[a].text = p[j].text /\ p[b].text = p[k].text
    BY <2>1
  <2>4. ASSUME p[j].text = p[k].text
        PROVE  a = b
    <3>1. ~(a < b)
      <4> SUFFICES ASSUME a < b PROVE FALSE
        OBVIOUS
      <4>1. a \in 1..(b - 1)
        BY <2>2
      <4> QED
        BY <4>1, <2>1, <2>3, <2>4
    <3>2. ~(b < a)
      <4> SUFFICES ASSUME b < a PROVE FALSE
        OBVIOUS
      <4>1. b \in 1..(a - 1)
        BY <2>2
      <4> QED
        BY <4>1, <2>1, <2>3, <2>4
    <3> QED
      BY <2>2, <3>1, <3>2
  <2>5. p[j].text = p[k].text <=> a = b
    BY <2>3, <2>4
  <2> QED
    BY <2>5 DEF a, b
<1> HIDE DEF Number
<1>4. \A k \in 1..Len(p) : /\ num(k) \in Nat
                           /\ num(k) = 0 <=> p[k].text = << >>
  <2> TAKE k \in 1..Len(p)
  <2>1. Number(k) \in Nat /\ Number(k) # 0
    BY <1>1, <1>2
  <2> QED
    BY <2>1
<1>5. \A j, k \in 1..Len(p) : num(j) = num(k) <=> p[j].text = p[k].text
  <2> TAKE j, k \in 1..Len(p)
  <2>1. /\ num(j) = 0 <=> p[j].text = << >>
        /\ num(k) = 0 <=> p[k].text = << >>
        /\ p[j].text = p[k].text <=> Number(j) = Number(k)
    BY <1>3, <1>4
  <2> QED
    BY <2>1
<1>6. Numbered(p) = [k \in 1..Len(p) |-> [kind |-> p[k].kind, text |-> num(k)]]
  BY DEF Numbered, Number
<1> HIDE DEF num
<1>7. \A k \in 1..Len(p) : Numbered(p)[k] = [kind |-> p[k].kind, text |-> num(k)]
  BY <1>6
<1>8. \A k \in 1..Len(p) : /\ Numbered(p)[k] \in [kind : Kinds, text : Nat]
                           /\ Numbered(p)[k].kind = p[k].kind /\ Numbered(p)[k].text = num(k)
  <2> TAKE k \in 1..Len(p)
  <2>1. p[k].kind \in Kinds /\ num(k) \in Nat
    BY <1>1, <1>4
  <2>2. Numbered(p)[k] = [kind |-> p[k].kind, text |-> num(k)]
    BY <1>7
  <2> QED
    BY ONLY <2>1, <2>2
<1>9. Numbered(p) \in Seq([kind : Kinds, text : Nat]) /\ Len(Numbered(p)) = Len(p)
  BY <1>1, <1>6, <1>8
<1> QED
  BY <1>4, <1>5, <1>8, <1>9

\* A pattern is one of RoutePatterns when its segments keep the rules.
LEMMA RulesAre ==
    ASSUME NEW p \in Seq(SegmentsRead),
           \A k \in ParamsOf(p) : p[k].text # << >>
    PROVE  KeepsRules(p) <=> PlainRules(p)
<1> DEFINE q == Numbered(p)
<1>1. /\ q \in Seq([kind : Kinds, text : Nat])
      /\ Len(q) = Len(p) /\ Len(p) \in Nat
      /\ \A k \in 1..Len(p) : /\ q[k].kind = p[k].kind
                              /\ q[k].text = 0 <=> p[k].text = << >>
      /\ \A j, k \in 1..Len(p) : q[j].text = q[k].text <=> p[j].text = p[k].text
  <2>1. Len(p) \in Nat
    OBVIOUS
  <2> QED
    BY <2>1, NumberedIs, Zenon
<1> HIDE DEF q
<1>2. q \in Seq(Patterns!Segments)
  <2>1. (Nat \ {0}) \cup {0} = Nat
    OBVIOUS
  <2>2. Patterns!Segments = [kind : Kinds, text : Nat]
    BY <2>1 DEF Patterns!Segments, Patterns!Kinds, Patterns!Empty, Kinds
  <2> QED
    BY <1>1, <2>2
<1>3. Patterns!ParamIndices(q) = ParamsOf(p)
  BY <1>1 DEF Patterns!ParamIndices, ParamsOf
<1>4. \A k \in 1..Len(p) : q[k] = Patterns!Lit(Patterns!Empty) <=>
                               p[k].kind = "literal" /\ p[k].text = << >>
  <2> TAKE k \in 1..Len(p)
  <2>1. q[k] \in [kind : Kinds, text : Nat]
    BY <1>1, ElementOfSeq
  <2>2. q[k] = [kind |-> "literal", text |-> 0] <=> q[k].kind = "literal" /\ q[k].text = 0
    BY <2>1
  <2> QED
    BY <1>1, <2>2 DEF Patterns!Lit, Patterns!Empty
<1>5. \A j, k \in ParamsOf(p) : q[j].text = q[k].text <=> p[j].text = p[k].text
  BY <1>1 DEF ParamsOf
<1>6. Patterns!NumParams(q) = Cardinality(ParamsOf(p))
  <2>1. \A S : Patterns!Cardinality(S) = Cardinality(S)
    BY DEF Patterns!Cardinality, Cardinality
  <2> QED
    BY <1>3, <2>1 DEF Patterns!NumParams
<1>7. Patterns!IsPattern(q) <=> PlainRules(p)
  BY <1>1, <1>2, <1>3, <1>4, <1>5, <1>6 DEF Patterns!IsPattern, PlainRules
<1> QED
  BY <1>7 DEF KeepsRules, q

\* A text read as segments has no other reading.
LEMMA PatternIs ==
    ASSUME NEW s \in Seq(Alphabet), s # <<"/">>, NEW p, ReadAs(s, p)
    PROVE  /\ Pattern(Parts(s)) = p
           /\ \A k \in 1..Len(Parts(s)) : Readings(Parts(s)[k]) # {}
           /\ \A k \in ParamsOf(p) : p[k].text # << >>
<1>1. Len(Parts(s)) = Len(p) /\ p \in Seq(SegmentsRead)
  BY PartsAre DEF ReadAs
<1>2. ASSUME NEW k \in 1..Len(p)
      PROVE  /\ Readings(Parts(s)[k]) = {p[k]}
             /\ p[k].kind # "literal" => p[k].text # << >>
  <2>1. PICK i : SlashAt(s, k, i) /\ p[k] \in Readings(Part(s, i))
    BY DEF ReadAs
  <2>2. Parts(s)[k] = Part(s, i) /\ Part(s, i) \in Seq(Alphabet)
    BY <2>1, PartsAre, PartIs DEF SlashAt
  <2>3. \A r \in Readings(Part(s, i)) : r = p[k]
    BY <2>1, <2>2, OneReading
  <2>4. p[k].kind # "literal" => p[k].text # << >>
    BY <2>1, <2>2, OneReading
  <2> QED
    BY <2>1, <2>2, <2>3, <2>4
<1>3. \A k \in 1..Len(p) : (CHOOSE r \in Readings(Parts(s)[k]) : TRUE) = p[k]
  BY <1>2
<1>4. Pattern(Parts(s)) = [k \in 1..Len(p) |-> p[k]]
  BY <1>1, <1>3 DEF Pattern
<1>5. p = [k \in 1..Len(p) |-> p[k]]
  BY <1>1
<1> QED
  BY <1>1, <1>2, <1>4, <1>5 DEF ParamsOf

\* A text read as segments that keep the rules is well formed...
LEMMA WellFormedWhen ==
    ASSUME NEW s \in Seq(Alphabet), Leading(s), s # <<"/">>,
           NEW p, ReadAs(s, p), PlainRules(p)
    PROVE  WellFormed(s) /\ Pattern(Parts(s)) = p
<1>1. /\ Pattern(Parts(s)) = p
      /\ \A k \in 1..Len(Parts(s)) : Readings(Parts(s)[k]) # {}
      /\ \A k \in ParamsOf(p) : p[k].text # << >>
  BY PatternIs
<1>2. p \in Seq(SegmentsRead)
  BY DEF ReadAs
<1>3. KeepsRules(p)
  BY <1>1, <1>2, RulesAre
<1> QED
  BY <1>1, <1>3 DEF WellFormed

\* ... and every well-formed text but the root's is.
LEMMA WellFormedIs ==
    ASSUME NEW s \in Seq(Alphabet), s # <<"/">>, WellFormed(s)
    PROVE  ReadAs(s, Pattern(Parts(s))) /\ PlainRules(Pattern(Parts(s)))
<1> DEFINE n == Cardinality(Slashes(s))
           p == Pattern(Parts(s))
<1>1. n \in Nat
  <2>1. 0 \in Nat
    OBVIOUS
  <2> QED
    BY <2>1, CountIs
<1>2. Len(Parts(s)) = n
  BY PartsAre
<1>3. p = [k \in 1..n |-> CHOOSE r \in Readings(Parts(s)[k]) : TRUE]
  BY <1>2 DEF Pattern
<1> HIDE DEF p, n
<1>4. ASSUME NEW k \in 1..n
      PROVE  /\ \E i : SlashAt(s, k, i) /\ p[k] \in Readings(Part(s, i))
             /\ p[k] \in SegmentsRead
             /\ p[k].kind # "literal" => p[k].text # << >>
  <2>1. PICK i \in Slashes(s) : SlashAt(s, k, i)
    BY SlashIsOne DEF n
  <2>2. Parts(s)[k] = Part(s, i) /\ Part(s, i) \in Seq(Alphabet)
    BY <2>1, PartsAre, PartIs
  <2>3. Readings(Part(s, i)) # {}
    BY <1>2, <2>2 DEF WellFormed
  <2>4. p[k] = CHOOSE r \in Readings(Part(s, i)) : TRUE
    BY <1>3, <2>2
  <2>5. p[k] \in Readings(Part(s, i))
    BY <2>3, <2>4
  <2> QED
    BY <2>1, <2>2, <2>5, OneReading
<1>5. p \in Seq(SegmentsRead) /\ Len(p) = n
  <2>1. \A k \in 1..n : p[k] \in SegmentsRead
    BY <1>4
  <2>2. p = [k \in 1..n |-> p[k]]
    BY ONLY <1>3
  <2>3. p \in [1..n -> SegmentsRead]
    BY ONLY <2>1, <2>2
  <2> QED
    BY ONLY <1>1, <2>3
<1>6. ReadAs(s, p)
  BY <1>4, <1>5 DEF ReadAs, n
<1>7. \A k \in ParamsOf(p) : p[k].text # << >>
  BY <1>4, <1>5 DEF ParamsOf
<1>8. KeepsRules(p)
  BY DEF WellFormed, p
<1>9. PlainRules(p)
  BY <1>5, <1>7, <1>8, RulesAre
<1> QED
  BY <1>6, <1>9 DEF p

\* The root is well formed, and has no segment.
LEMMA RootIsWellFormed ==
    WellFormed(<<"/">>) /\ Pattern(Parts(<<"/">>)) = << >>
<1>1. Parts(<<"/">>) = << >>
  BY DEF Parts
<1>2. Len(<< >>) = 0 /\ << >> \in Seq(SegmentsRead)
  BY EmptySeq
<1>3. Pattern(<< >>) = << >>
  BY <1>2 DEF Pattern
<1>4. ParamsOf(<< >>) = {} /\ Cardinality({}) = 0
  BY <1>2, FS_EmptySet DEF ParamsOf
<1>5. PlainRules(<< >>)
  <2>1. 1..Len(<< >>) = {} /\ Len(<< >>) <= MaxSegments /\ 0 <= MaxParams
    BY <1>2, BoundsAssumption
  <2> QED
    BY <1>4, <2>1 DEF PlainRules
<1>6. KeepsRules(<< >>)
  BY <1>2, <1>4, <1>5, RulesAre
<1>7. Leading(<<"/">>)
  BY DEF Leading
<1> QED
  BY <1>1, <1>2, <1>3, <1>6, <1>7 DEF WellFormed
-----------------------------------------------------------------------------
(* The parse so far.                                                       *)

\* In the loop: the segment at hand follows a slash, the segments so far are
\* what the parts before it are read as, and none of them is empty.
Working ==
    /\ Leading(text) /\ Len(text) > 1
    /\ pos \in 2..(Len(text) + 1)
    /\ SlashAt(text, Len(segs) + 1, pos - 1)
    /\ segs = << >> => pos = 2
    /\ \A k \in 1..Len(segs) : \E i \in 1..(pos - 2) :
           /\ SlashAt(text, k, i)
           /\ segs[k] \in Readings(Part(text, i))
           /\ FirstAt(text, "/", i + 1) < pos
    /\ \A k \in 1..Len(segs) : ~(segs[k].kind = "literal" /\ segs[k].text = << >>)

\* Refused: by the tests of the segment at hand.
Refused == Working /\ Tests[1] # "None" /\ error = Tests[1] /\ at = Offset(Tests[2])

\* Accepted: as it reads.
Accepted ==
    IF text = <<"/">> THEN segs = << >>
    ELSE Leading(text) /\ ReadAs(text, segs) /\ PlainRules(segs)

\* The invariant of the parse.
Parse ==
    /\ pc = "start" => pos = 1 /\ segs = << >> /\ params = 0 /\ error = "None"
    /\ pc = "segments" => Working /\ error = "None"
    /\ pc = "done" =>
           IF error = "None" THEN Accepted
           ELSE (error = "NoLeadingSlash" /\ ~Leading(text)) \/ Refused

\* The segment at hand is the part after the slash before it.
LEMMA SegIsPart ==
    ASSUME text \in Seq(Alphabet), pos \in 2..(Len(text) + 1)
    PROVE  /\ Part(text, pos - 1) = Seg
           /\ End \in pos..(Len(text) + 1) /\ FirstAt(text, "/", pos) = End
           /\ End > Len(text) \/ text[End] = "/"
           /\ \A k \in pos..(End - 1) : text[k] # "/"
           /\ Seg \in Seq(Alphabet) /\ Len(Seg) = End - pos
           /\ \A i \in 1..Len(Seg) : Seg[i] = text[pos + i - 1]
<1>1. Len(text) \in Nat /\ pos \in Nat /\ pos >= 2 /\ pos \in 1..(Len(text) + 1) /\ pos - 1 + 1 = pos
  OBVIOUS
<1>2. /\ End \in pos..(Len(text) + 1)
      /\ End > Len(text) \/ text[End] = "/"
      /\ \A k \in pos..(End - 1) : text[k] # "/"
  BY <1>1, FirstAtIs DEF End
<1>3. Part(text, pos - 1) = Seg
  BY <1>1 DEF Part, Seg, End
<1> DEFINE e == End - 1
<1>4. e \in Int /\ 1 <= pos /\ pos <= e + 1 /\ e <= Len(text) /\ e + 1 - pos = End - pos
  BY <1>1, <1>2
<1>5. Seg = SubSeq(text, pos, e)
  BY DEF Seg
<1> HIDE DEF e
<1>6. /\ Seg \in Seq(Alphabet) /\ Len(Seg) = e + 1 - pos
      /\ \A i \in 1..(e + 1 - pos) : Seg[i] = text[pos + i - 1]
  BY <1>1, <1>4, <1>5, PartBytes
<1> QED
  BY <1>2, <1>3, <1>4, <1>6 DEF End

\* What a step does that adds a segment and goes on.
LEMMA AcceptWorks ==
    ASSUME IInv, Working, Accept, ~IsLast
    PROVE  Working'
<1>1. /\ text \in Seq(Alphabet) /\ Len(text) \in Nat /\ segs \in Seq(SegmentsRead)
      /\ Len(segs) \in Nat
      /\ pos \in 2..(Len(text) + 1) /\ pos \in 1..(Len(text) + 1)
  BY DEF IInv, Working
<1>2. /\ text' = text /\ segs' = Append(segs, Segment(Seg)) /\ pos' = End + 1
      /\ Tests[1] = "None"
  BY DEF Accept
<1>3. /\ Part(text, pos - 1) = Seg
      /\ End \in pos..(Len(text) + 1) /\ FirstAt(text, "/", pos) = End
      /\ End > Len(text) \/ text[End] = "/"
      /\ \A k \in pos..(End - 1) : text[k] # "/"
      /\ Seg \in Seq(Alphabet) /\ Len(Seg) = End - pos
  BY <1>1, SegIsPart
<1>4. End <= Len(text) /\ text[End] = "/" /\ End \in Slashes(text)
  BY <1>1, <1>3 DEF IsLast, Slashes
<1>5. /\ Segment(Seg) \in Readings(Seg) /\ Seg # << >>
  BY <1>1, <1>2, AcceptedReads
<1>6. /\ Segment(Seg) \in SegmentsRead
      /\ Segment(Seg).kind = "literal" => Segment(Seg).text = Seg
  BY <1>3, <1>5, OneReading DEF Segment
<1>7. /\ segs' \in Seq(SegmentsRead) /\ Len(segs') = Len(segs) + 1
      /\ \A k \in 1..Len(segs) : segs'[k] = segs[k]
      /\ segs'[Len(segs) + 1] = Segment(Seg)
  BY <1>1, <1>2, <1>6
<1>8. SlashAt(text, Len(segs) + 1, pos - 1)
  BY DEF Working
<1>9. SlashAt(text, Len(segs) + 2, End)
  <2>1. /\ pos - 1 \in Nat /\ End \in Nat /\ pos - 1 < End
        /\ \A k \in (pos - 1 + 1)..(End - 1) : k \in pos..(End - 1)
    BY <1>1, <1>3
  <2>2. \A k \in (pos - 1 + 1)..(End - 1) : k \notin Slashes(text)
    BY <2>1, <1>3 DEF Slashes
  <2>3. Count(text, End) = Count(text, pos - 1) + (IF End \in Slashes(text) THEN 1 ELSE 0)
    BY <1>1, <2>1, <2>2, CountStep
  <2>4. Count(text, pos - 1) = Len(segs) + 1
    BY <1>8 DEF SlashAt
  <2>5. Count(text, End) = Len(segs) + 2
    BY <1>1, <1>4, <2>3, <2>4
  <2> QED
    BY <1>4, <2>5 DEF SlashAt
<1>10. ASSUME NEW k \in 1..Len(segs')
       PROVE  /\ \E i \in 1..(pos' - 2) : /\ SlashAt(text', k, i)
                                          /\ segs'[k] \in Readings(Part(text', i))
                                          /\ FirstAt(text', "/", i + 1) < pos'
              /\ ~(segs'[k].kind = "literal" /\ segs'[k].text = << >>)
  <2>1. CASE k \in 1..Len(segs)
    <3>1. PICK i \in 1..(pos - 2) : /\ SlashAt(text, k, i)
                                    /\ segs[k] \in Readings(Part(text, i))
                                    /\ FirstAt(text, "/", i + 1) < pos
      BY <2>1 DEF Working
    <3>2. i \in 1..(pos' - 2) /\ FirstAt(text, "/", i + 1) < pos'
      <4>1. i + 1 \in 1..(Len(text) + 1)
        BY <1>1
      <4>2. FirstAt(text, "/", i + 1) \in Int
        BY <4>1, <1>1, FirstAtIs
      <4> QED
        BY <4>2, <3>1, <1>1, <1>2, <1>3
    <3>3. ~(segs[k].kind = "literal" /\ segs[k].text = << >>)
      BY <2>1 DEF Working
    <3> QED
      BY <2>1, <3>1, <3>2, <3>3, <1>2, <1>7
  <2>2. CASE k = Len(segs) + 1
    <3>1. /\ pos - 1 \in 1..(pos' - 2) /\ pos - 1 + 1 = pos /\ End < pos'
      BY <1>1, <1>2, <1>3
    <3>2. FirstAt(text, "/", pos - 1 + 1) < pos'
      BY <3>1, <1>3
    <3> QED
      BY <2>2, <3>1, <3>2, <1>2, <1>3, <1>5, <1>6, <1>7, <1>8
  <2> QED
    BY <2>1, <2>2, <1>1, <1>7
<1>11. pos' \in 2..(Len(text') + 1) /\ pos' - 1 = End
  BY <1>1, <1>2, <1>3, <1>4
<1>12. SlashAt(text', Len(segs') + 1, pos' - 1)
  <2>1. Len(segs') + 1 = Len(segs) + 2
    BY <1>1, <1>7
  <2> QED
    BY <2>1, <1>2, <1>9, <1>11
<1>13. Leading(text') /\ Len(text') > 1
  BY <1>2 DEF Working
<1>14. segs' # << >>
  BY <1>1, <1>7
<1> QED
  BY <1>10, <1>11, <1>12, <1>13, <1>14 DEF Working

\* What a step does that adds the last segment.
LEMMA AcceptEnds ==
    ASSUME IInv, Working, Accept, IsLast
    PROVE  Accepted'
<1>1. /\ text \in Seq(Alphabet) /\ Len(text) \in Nat /\ segs \in Seq(SegmentsRead)
      /\ Len(segs) \in Nat /\ Len(text) > 1
      /\ pos \in 2..(Len(text) + 1) /\ pos \in 1..(Len(text) + 1)
  BY DEF IInv, Working
<1>2. /\ text' = text /\ segs' = Append(segs, Segment(Seg))
      /\ Tests[1] = "None"
  BY DEF Accept
<1>3. /\ Part(text, pos - 1) = Seg
      /\ End \in pos..(Len(text) + 1)
      /\ \A k \in pos..(End - 1) : text[k] # "/"
      /\ Seg \in Seq(Alphabet) /\ Len(Seg) = End - pos
  BY <1>1, SegIsPart
<1>4. End = Len(text) + 1
  BY <1>1, <1>3 DEF IsLast
<1>5. Segment(Seg) \in Readings(Seg)
  BY <1>1, <1>2, AcceptedReads
<1>6. /\ Segment(Seg) \in SegmentsRead
      /\ Segment(Seg).kind = "literal" => Segment(Seg).text = Seg
  BY <1>3, <1>5, OneReading DEF Segment
<1>7. /\ segs' \in Seq(SegmentsRead) /\ Len(segs') = Len(segs) + 1
      /\ \A k \in 1..Len(segs) : segs'[k] = segs[k]
      /\ segs'[Len(segs) + 1] = Segment(Seg)
  BY <1>1, <1>2, <1>6
<1>8. SlashAt(text, Len(segs) + 1, pos - 1)
  BY DEF Working
<1>9. Cardinality(Slashes(text)) = Len(segs) + 1
  <2>1. Count(text, pos - 1) = Len(segs) + 1
    BY <1>8 DEF SlashAt
  <2>2. CASE pos - 1 = Len(text)
    BY <1>1, <2>1, <2>2, CountIs
  <2>3. CASE pos - 1 < Len(text)
    <3>1. /\ pos - 1 \in Nat
          /\ \A k \in (pos - 1 + 1)..(Len(text) - 1) : k \in pos..(End - 1)
          /\ Len(text) \in pos..(End - 1)
      BY <1>1, <1>4, <2>3
    <3>2. Count(text, Len(text)) = Count(text, pos - 1) + (IF Len(text) \in Slashes(text) THEN 1 ELSE 0)
      <4>1. \A k \in (pos - 1 + 1)..(Len(text) - 1) : k \notin Slashes(text)
        BY <1>3, <3>1 DEF Slashes
      <4> QED
        BY <1>1, <2>3, <3>1, <4>1, CountStep
    <3>3. Len(text) \notin Slashes(text)
      BY <1>3, <3>1 DEF Slashes
    <3>4. Count(text, Len(text)) = Cardinality(Slashes(text))
      BY <1>1, CountIs
    <3> QED
      BY <1>1, <2>1, <3>2, <3>3, <3>4
  <2> QED
    BY <1>1, <2>2, <2>3
<1>10. ReadAs(text, segs')
  <2>1. \A k \in 1..Len(segs') : \E i : SlashAt(text, k, i) /\ segs'[k] \in Readings(Part(text, i))
    <3> TAKE k \in 1..Len(segs')
    <3>1. CASE k \in 1..Len(segs)
      BY <3>1, <1>7 DEF Working
    <3>2. CASE k = Len(segs) + 1
      BY <3>2, <1>3, <1>5, <1>7, <1>8
    <3> QED
      BY <3>1, <3>2, <1>1, <1>7
  <2> QED
    BY <2>1, <1>7, <1>9 DEF ReadAs
<1>11. PlainRules(segs')
  <2>1. /\ Len(segs') <= MaxSegments
        /\ Cardinality(ParamsOf(segs')) <= MaxParams
        /\ \A k \in 1..Len(segs') : segs'[k].kind = "rest" => k = Len(segs')
        /\ \A j, k \in ParamsOf(segs') : segs'[j].text = segs'[k].text => j = k
    BY AcceptInv DEF IInv, SegmentsFit
  <2>2. ASSUME NEW k \in 1..Len(segs'), segs'[k].kind = "literal", segs'[k].text = << >>
        PROVE  k = Len(segs') /\ k > 1
    <3>1. k \notin 1..Len(segs)
      BY <2>2, <1>7 DEF Working
    <3>2. k = Len(segs) + 1
      BY <3>1, <1>1, <1>7
    <3>3. Seg = << >>
      BY <2>2, <3>2, <1>6, <1>7
    <3>4. End = pos
      BY <3>3, <1>1, <1>3
    <3>5. segs # << >>
      <4> SUFFICES ASSUME segs = << >> PROVE FALSE
        OBVIOUS
      <4>1. pos = 2
        BY DEF Working
      <4> QED
        BY <4>1, <3>4, <1>1, <1>4
    <3>6. Len(segs) > 0
      BY <3>5, <1>1
    <3> QED
      BY <3>2, <3>6, <1>1, <1>7
  <2> QED
    BY <2>1, <2>2 DEF PlainRules
<1>12. text # <<"/">> /\ Leading(text)
  <2>1. Leading(text)
    BY DEF Working
  <2> DEFINE n == Len(text)
  <2>2. 1 # n
    <3>1. n \in Nat /\ n > 1
      BY <1>1
    <3> HIDE DEF n
    <3> QED
      BY ONLY <3>1
  <2>3. "/" \in Alphabet
    BY AlphabetAssumption
  <2>4. Len(<<"/">>) = 1
    BY <2>3, ShortTexts, Zenon
  <2>5. text # <<"/">>
    BY <2>2, <2>4, Zenon
  <2> QED
    BY <2>1, <2>5
<1> QED
  BY <1>2, <1>10, <1>11, <1>12 DEF Accepted

\* Nothing is refused or accepted by a step that changes nothing.
LEMMA ParseKept ==
    ASSUME Parse, UNCHANGED vars
    PROVE  Parse'
<1>1. /\ text' = text /\ pos' = pos /\ segs' = segs /\ params' = params
      /\ error' = error /\ at' = at /\ pc' = pc
  BY DEF vars
<1>2. Working' <=> Working
  BY <1>1 DEF Working
<1>3. Tests' = Tests
  BY <1>1, TestsKept
<1>4. Refused' <=> Refused
  BY <1>1, <1>2, <1>3 DEF Refused, Offset
<1>5. Accepted' <=> Accepted
  BY <1>1 DEF Accepted
<1> QED
  BY <1>1, <1>2, <1>4, <1>5 DEF Parse

\* At the start the parse is where it says.
LEMMA InitParse == Init => Parse
BY DEF Init, Parse

\* The step before the loop.
LEMMA StartParse ==
    ASSUME IInv, Parse, Start
    PROVE  Parse'
<1>0. /\ pos = 1 /\ segs = << >> /\ error = "None" /\ text' = text
      /\ text \in Seq(Alphabet) /\ Len(text) \in Nat
  BY DEF Start, Parse, IInv
<1>1. CASE ~Leading(text) /\ Fail("NoLeadingSlash", 0)
  BY <1>0, <1>1 DEF Fail, Parse
<1>2. CASE text = <<"/">> /\ pc' = "done" /\ UNCHANGED <<pos, segs, params, error, at>>
  BY <1>0, <1>2 DEF Parse, Accepted
<1>3. CASE /\ Leading(text) /\ Len(text) > 1
           /\ pos' = 2 /\ pc' = "segments"
           /\ UNCHANGED <<segs, params, error, at>>
  <2>1. segs' = << >> /\ Len(<< >>) = 0 /\ Len(segs') = 0
    BY <1>0, <1>3, EmptySeq
  <2>2. pos' \in 2..(Len(text') + 1) /\ pos' - 1 = 1
    BY <1>0, <1>3
  <2>3. SlashAt(text, 1, 1)
    <3>1. 1 \in Slashes(text)
      <4>1. text[1] = "/"
        BY <1>3 DEF Leading
      <4>2. 1 \in 1..Len(text)
        BY <1>0, <1>3
      <4> QED
        BY <4>1, <4>2 DEF Slashes
    <3>2. UpTo(text, 1) = {1}
      <4>1. \A j \in Slashes(text) : j <= 1 <=> j = 1
        BY DEF Slashes
      <4> QED
        BY <3>1, <4>1 DEF UpTo
    <3>3. Cardinality({1}) = 1
      BY FS_Singleton
    <3> QED
      BY <3>1, <3>2, <3>3 DEF SlashAt, Count
  <2>4. SlashAt(text', Len(segs') + 1, pos' - 1)
    <3>1. Len(segs') + 1 = 1
      BY <2>1
    <3> QED
      BY <3>1, <1>0, <2>2, <2>3
  <2>5. 1..Len(segs') = {}
    BY <2>1
  <2>6. Working'
    BY <1>0, <1>3, <2>1, <2>2, <2>4, <2>5 DEF Working
  <2> QED
    BY <1>0, <1>3, <2>6 DEF Parse
<1> QED
  BY <1>1, <1>2, <1>3 DEF Start

\* The turn of the loop that refuses.
LEMMA RefuseParse ==
    ASSUME IInv, Parse, Refuse
    PROVE  Parse'
<1>1. /\ text' = text /\ pos' = pos /\ segs' = segs /\ params' = params
      /\ error' = Tests[1] /\ at' = Offset(Tests[2]) /\ pc' = "done"
      /\ pc = "segments" /\ Tests[1] # "None"
  BY DEF Refuse, Fail
<1>2. Working
  BY <1>1 DEF Parse
<1>3. Working'
  BY <1>1, <1>2 DEF Working
<1>4. Tests' = Tests
  BY <1>1, TestsKept
<1>5. Refused'
  BY <1>1, <1>3, <1>4 DEF Refused, Offset
<1> QED
  BY <1>1, <1>5 DEF Parse

\* The turn of the loop that adds a segment.
LEMMA AcceptParse ==
    ASSUME IInv, Parse, Accept
    PROVE  Parse'
<1>1. Working /\ error = "None" /\ error' = "None" /\ pc = "segments"
  BY DEF Parse, Accept
<1>2. CASE IsLast
  <2>1. Accepted' /\ pc' = "done"
    BY <1>1, <1>2, AcceptEnds DEF Accept
  <2> QED
    BY <1>1, <2>1 DEF Parse
<1>3. CASE ~IsLast
  <2>1. Working' /\ pc' = "segments"
    BY <1>1, <1>3, AcceptWorks DEF Accept
  <2> QED
    BY <1>1, <2>1 DEF Parse
<1> QED
  BY <1>2, <1>3

\* Throughout every parse: what is read so far is what its text reads as, and
\* an error is one of the segment at hand.
THEOREM ParseInvariance == Spec => [](IInv /\ Parse)
<1>1. Init => IInv /\ Parse
  BY InitInv, InitParse
<1>2. (IInv /\ Parse) /\ [Next]_vars => (IInv /\ Parse)'
  <2> SUFFICES ASSUME IInv, Parse, [Next]_vars PROVE IInv' /\ Parse'
    OBVIOUS
  <2>1. IInv'
    BY NextInv
  <2>2. Parse'
    BY StartParse, RefuseParse, AcceptParse, ParseKept DEF Next, Returned
  <2> QED
    BY <2>1, <2>2
<1> QED
  BY <1>1, <1>2, PTL DEF Spec
-----------------------------------------------------------------------------
(* Texts that agree with the one parsed up to a place.                     *)

\* Two texts with the same bytes up to place c.
Agree(s, t, c) ==
    c \in Nat /\ c <= Len(s) /\ c <= Len(t) /\ \A i \in 1..c : s[i] = t[i]

\* They have the same slashes there, with the same numbers.
LEMMA SlashesAgree ==
    ASSUME NEW s \in Seq(Alphabet), NEW t \in Seq(Alphabet), NEW c, Agree(s, t, c),
           NEW i \in 1..c
    PROVE  /\ i \in Slashes(s) <=> i \in Slashes(t)
           /\ Count(s, i) = Count(t, i)
           /\ \A k : SlashAt(s, k, i) <=> SlashAt(t, k, i)
<1>1. c \in Nat /\ c <= Len(s) /\ c <= Len(t) /\ Len(s) \in Nat /\ Len(t) \in Nat
  BY DEF Agree
<1>2. \A j \in 1..c : j \in Slashes(s) <=> j \in Slashes(t)
  BY <1>1 DEF Agree, Slashes
<1>3. UpTo(s, i) = UpTo(t, i)
  <2>1. \A j : j \in UpTo(s, i) <=> j \in UpTo(t, i)
    <3> TAKE j
    <3>1. ASSUME j \in UpTo(s, i) \/ j \in UpTo(t, i)
          PROVE  j \in 1..c
      BY <1>1, <3>1 DEF UpTo, Slashes
    <3> QED
      BY <1>2, <3>1 DEF UpTo
  <2> QED
    BY <2>1 DEF UpTo
<1> QED
  BY <1>2, <1>3 DEF Count, SlashAt

\* A part of one that ends where they still agree, and at a slash or the end of
\* the other, is a part of the other.
LEMMA PartsAgree ==
    ASSUME NEW s \in Seq(Alphabet), NEW t \in Seq(Alphabet), NEW c, Agree(s, t, c),
           NEW i \in Slashes(t), i <= c,
           NEW f, f = FirstAt(t, "/", i + 1), f <= c + 1,
           f = Len(s) + 1 \/ s[f] = "/"
    PROVE  Part(s, i) = Part(t, i) /\ FirstAt(s, "/", i + 1) = f
<1>1. /\ c \in Nat /\ c <= Len(s) /\ c <= Len(t) /\ Len(s) \in Nat /\ Len(t) \in Nat
      /\ i \in Nat /\ i >= 1 /\ i + 1 \in 1..(Len(t) + 1) /\ i + 1 \in 1..(Len(s) + 1)
  BY DEF Agree, Slashes
<1>2. f \in (i + 1)..(Len(t) + 1) /\ \A k \in (i + 1)..(f - 1) : t[k] # "/"
  BY <1>1, FirstAtIs
<1>3. f \in (i + 1)..(Len(s) + 1) /\ (f > Len(s) \/ s[f] = "/")
  BY <1>1, <1>2
<1>4. \A k \in (i + 1)..(f - 1) : s[k] = t[k] /\ s[k] # "/"
  <2> TAKE k \in (i + 1)..(f - 1)
  <2>1. k \in 1..c
    BY <1>1, <1>2
  <2> QED
    BY <1>2, <2>1 DEF Agree
<1>5. FirstAt(s, "/", i + 1) = f
  BY <1>1, <1>3, <1>4, FirstAtUnique
<1> DEFINE a == i + 1
           b == f - 1
<1>6. a \in Nat /\ b \in Int /\ 1 <= a /\ a <= b + 1 /\ b <= Len(s) /\ b <= Len(t)
  BY <1>1, <1>2, <1>3
<1>7. \A k \in 1..(b + 1 - a) : s[a + k - 1] = t[a + k - 1]
  <2> TAKE k \in 1..(b + 1 - a)
  <2>1. a + k - 1 \in (i + 1)..(f - 1)
    BY <1>1, <1>2
  <2> QED
    BY <1>4, <2>1
<1>8. Part(s, i) = SubSeq(s, a, b) /\ Part(t, i) = SubSeq(t, a, b)
  BY <1>5 DEF Part
<1> HIDE DEF a, b
<1>9. SubSeq(s, a, b) = SubSeq(t, a, b)
  <2> DEFINE u == SubSeq(s, a, b)
             v == SubSeq(t, a, b)
  <2>1. /\ u \in Seq(Alphabet) /\ Len(u) = b + 1 - a
        /\ \A k \in 1..(b + 1 - a) : u[k] = s[a + k - 1]
    BY <1>6, PartBytes
  <2>2. /\ v \in Seq(Alphabet) /\ Len(v) = b + 1 - a
        /\ \A k \in 1..(b + 1 - a) : v[k] = t[a + k - 1]
    BY <1>6, PartBytes
  <2> HIDE DEF u, v
  <2>3. \A k \in 1..Len(u) : u[k] = v[k]
    BY <1>7, <2>1, <2>2
  <2>4. u \in Seq(Alphabet) /\ v \in Seq(Alphabet) /\ Len(u) = Len(v)
    BY ONLY <2>1, <2>2
  <2>5. u = v
    BY ONLY <2>3, <2>4, SeqEqual
  <2> QED
    BY <2>5 DEF u, v
<1> QED
  BY <1>5, <1>8, <1>9

\* A well-formed text that agrees up to where the segment at hand starts is read
\* as the segments so far, then the part it has there, and one more if that part
\* ends in a slash.
LEMMA ReadOn ==
    ASSUME IInv, Working,
           NEW s \in Seq(Alphabet), Agree(s, text, pos - 1), s # <<"/">>,
           NEW p, ReadAs(s, p)
    PROVE  /\ Len(segs) \in Nat /\ Len(p) \in Nat /\ Len(segs) + 1 <= Len(p)
           /\ \A k \in 1..Len(segs) : p[k] = segs[k]
           /\ p[Len(segs) + 1] \in Readings(Part(s, pos - 1))
           /\ FirstAt(s, "/", pos) <= Len(s) => Len(segs) + 1 < Len(p)
<1>1. /\ text \in Seq(Alphabet) /\ Len(text) \in Nat /\ segs \in Seq(SegmentsRead)
      /\ Len(segs) \in Nat /\ Len(s) \in Nat
      /\ pos \in 2..(Len(text) + 1) /\ pos - 1 \in Nat /\ pos - 1 \in 1..(pos - 1)
      /\ pos - 1 <= Len(s) /\ pos \in 1..(Len(s) + 1)
  BY DEF IInv, Working, Agree
<1>2. p \in Seq(SegmentsRead) /\ Len(p) \in Nat /\ Len(p) = Cardinality(Slashes(s))
  BY DEF ReadAs
<1>3. SlashAt(s, Len(segs) + 1, pos - 1)
  BY <1>1, SlashesAgree DEF Working
<1>4. ASSUME NEW k, NEW i, SlashAt(s, k, i)
      PROVE  k \in 1..Len(p) /\ i \in Slashes(s) /\ p[k] \in Readings(Part(s, i))
  <2>1. k \in 1..Len(p) /\ i \in Slashes(s)
    BY <1>2, <1>4, SlashIsOne DEF SlashAt
  <2>2. PICK j : SlashAt(s, k, j) /\ p[k] \in Readings(Part(s, j))
    BY <2>1 DEF ReadAs
  <2>3. j = i
    BY <1>4, <2>2, SlashIsOne
  <2> QED
    BY <2>1, <2>2, <2>3
<1>5. Len(segs) + 1 \in 1..Len(p) /\ p[Len(segs) + 1] \in Readings(Part(s, pos - 1))
  BY <1>3, <1>4
<1>6. ASSUME NEW k \in 1..Len(segs)
      PROVE  p[k] = segs[k]
  <2>1. PICK i \in 1..(pos - 2) : /\ SlashAt(text, k, i)
                                  /\ segs[k] \in Readings(Part(text, i))
                                  /\ FirstAt(text, "/", i + 1) < pos
    BY DEF Working
  <2> DEFINE f == FirstAt(text, "/", i + 1)
  <2>2. i \in 1..(pos - 1) /\ i <= pos - 1 /\ i + 1 \in 1..(Len(text) + 1) /\ i + 1 >= 1
    BY <1>1
  <2>3. f \in (i + 1)..(Len(text) + 1) /\ (f > Len(text) \/ text[f] = "/")
    BY <1>1, <2>2, FirstAtIs
  <2>4. f < pos
    BY <2>1
  <2> HIDE DEF f
  <2>5. f \in 1..(pos - 1) /\ f <= Len(text) /\ f <= pos - 1 + 1
    BY <1>1, <2>2, <2>3, <2>4
  <2>6. s[f] = "/"
    BY <1>1, <2>3, <2>5 DEF Agree
  <2>7. SlashAt(s, k, i) /\ i \in Slashes(text)
    BY <1>1, <2>1, <2>2, SlashesAgree DEF SlashAt
  <2>8. Part(s, i) = Part(text, i)
    BY <1>1, <2>2, <2>5, <2>6, <2>7, PartsAgree DEF f
  <2>9. p[k] \in Readings(Part(text, i)) /\ Part(text, i) \in Seq(Alphabet)
    BY <1>1, <1>4, <2>7, <2>8, PartIs
  <2> QED
    BY <2>1, <2>9, OneReading
<1>7. ASSUME FirstAt(s, "/", pos) <= Len(s)
      PROVE  Len(segs) + 1 < Len(p)
  <2> DEFINE f == FirstAt(s, "/", pos)
  <2>1. f \in pos..(Len(s) + 1) /\ (f > Len(s) \/ s[f] = "/")
    BY <1>1, FirstAtIs
  <2>2. f <= Len(s)
    BY <1>7
  <2> HIDE DEF f
  <2>3. f \in Nat /\ pos - 1 < f /\ f \in Slashes(s)
    BY <1>1, <2>1, <2>2 DEF Slashes
  <2>4. Count(s, pos - 1) < Count(s, f) /\ Count(s, f) <= Len(p) /\ Count(s, f) \in Nat
    BY <1>1, <1>2, <2>3, CountGrows, CountIs
  <2>5. Count(s, pos - 1) = Len(segs) + 1
    BY <1>3 DEF SlashAt
  <2> QED
    BY <1>1, <1>2, <2>4, <2>5
<1>8. Len(segs) + 1 <= Len(p)
  BY <1>1, <1>2, <1>5
<1> QED
  BY <1>1, <1>2, <1>5, <1>6, <1>7, <1>8
-----------------------------------------------------------------------------
(* What is refused is not well formed.                                     *)

\* No text is well formed that goes on where no segment can follow.
LEMMA NoMoreIsNone ==
    ASSUME IInv, Working, NoMore,
           NEW s \in Seq(Alphabet), Agree(s, text, pos - 1), s # <<"/">>
    PROVE  ~WellFormed(s)
<1> SUFFICES ASSUME WellFormed(s) PROVE FALSE
  OBVIOUS
<1> DEFINE p == Pattern(Parts(s))
<1>1. ReadAs(s, p) /\ PlainRules(p)
  BY WellFormedIs
<1> HIDE DEF p
<1>2. /\ Len(segs) \in Nat /\ Len(p) \in Nat /\ Len(segs) + 1 <= Len(p)
      /\ \A k \in 1..Len(segs) : p[k] = segs[k]
  BY <1>1, ReadOn
<1>3. CASE AfterRest
  <2>1. Len(segs) \in 1..Len(segs) /\ Len(segs) \in 1..Len(p)
    <3>1. Len(segs) # 0
      BY <1>3 DEF AfterRest, IInv
    <3> QED
      BY <1>2, <3>1
  <2>2. p[Len(segs)].kind = "rest"
    BY <1>2, <1>3, <2>1 DEF AfterRest
  <2>3. Len(segs) = Len(p)
    BY <1>1, <2>1, <2>2 DEF PlainRules
  <2> QED
    BY <1>2, <2>3
<1>4. CASE Len(segs) = MaxSegments
  BY <1>1, <1>2, <1>4, BoundsAssumption DEF PlainRules
<1> QED
  BY <1>3, <1>4 DEF NoMore

\* None is that goes on after the segment refused, or ends with it as the text
\* does.
LEMMA RefusedIsNone ==
    ASSUME IInv, Working, Tests[1] # "None",
           NEW s \in Seq(Alphabet), Agree(s, text, End - 1),
           IF Len(s) = End - 1 THEN IsLast ELSE s[End] = "/"
    PROVE  ~WellFormed(s)
<1> SUFFICES ASSUME WellFormed(s) PROVE FALSE
  OBVIOUS
<1> DEFINE p == Pattern(Parts(s))
           n == Len(segs) + 1
<1>1. /\ text \in Seq(Alphabet) /\ Len(text) \in Nat /\ Len(text) > 1 /\ Len(s) \in Nat
      /\ segs \in Seq(SegmentsRead) /\ Len(segs) \in Nat
      /\ pos \in 2..(Len(text) + 1) /\ pos \in 1..(Len(text) + 1) /\ pos - 1 + 1 = pos
      /\ SlashAt(text, Len(segs) + 1, pos - 1)
  BY DEF IInv, Working
<1>2. /\ Part(text, pos - 1) = Seg
      /\ End \in pos..(Len(text) + 1) /\ FirstAt(text, "/", pos) = End
      /\ Seg \in Seq(Alphabet) /\ Len(Seg) = End - pos
  BY <1>1, SegIsPart
<1>3. End - 1 <= Len(s) /\ (End = Len(s) + 1 \/ s[End] = "/")
  BY <1>1, <1>2 DEF Agree
<1>4. Agree(s, text, pos - 1)
  <2>1. pos - 1 \in Nat /\ pos - 1 <= End - 1 /\ \A i \in 1..(pos - 1) : i \in 1..(End - 1)
    BY <1>1, <1>2
  <2> QED
    BY <1>1, <1>2, <2>1 DEF Agree
<1>5. Part(s, pos - 1) = Seg /\ FirstAt(s, "/", pos) = End
  <2> DEFINE i == pos - 1
             c == End - 1
  <2>1. i \in Slashes(text) /\ i <= c /\ End <= c + 1 /\ i + 1 = pos
    BY <1>1, <1>2 DEF SlashAt
  <2>2. End = FirstAt(text, "/", i + 1) /\ Part(text, i) = Seg
    BY <1>2, <2>1
  <2>3. Agree(s, text, c)
    OBVIOUS
  <2> HIDE DEF i, c
  <2>4. Part(s, i) = Seg /\ FirstAt(s, "/", i + 1) = End
    BY <1>1, <1>3, <2>1, <2>2, <2>3, PartsAgree
  <2> QED
    BY <2>1, <2>4 DEF i
<1>6. s # <<"/">>
  <2> DEFINE m == Len(s)
  <2>1. m # 1
    <3>1. CASE Len(s) = End - 1
      <4>1. End > Len(text)
        BY <1>3, <3>1 DEF IsLast
      <4> QED
        BY <1>1, <1>2, <3>1, <4>1
    <3>2. CASE Len(s) # End - 1
      <4>1. End \in Int /\ End >= 2
        BY <1>1, <1>2
      <4>2. m \in Nat /\ End - 1 <= m /\ m # End - 1
        BY <1>1, <1>3, <3>2
      <4> HIDE DEF m
      <4> QED
        BY ONLY <4>1, <4>2
    <3> QED
      BY <3>1, <3>2
  <2>2. "/" \in Alphabet
    BY AlphabetAssumption
  <2>3. Len(<<"/">>) = 1
    BY <2>2, ShortTexts, Zenon
  <2> QED
    BY <2>1, <2>3, Zenon
<1>7. ReadAs(s, p) /\ PlainRules(p) /\ p \in Seq(SegmentsRead)
  BY <1>6, WellFormedIs DEF ReadAs
<1> HIDE DEF p
<1>8. /\ Len(p) \in Nat /\ n \in Nat /\ n <= Len(p) /\ n \in 1..Len(p)
      /\ \A k \in 1..Len(segs) : k \in 1..Len(p) /\ k # n /\ p[k] = segs[k]
      /\ p[n] \in Readings(Seg)
      /\ End <= Len(s) => n # Len(p)
  BY <1>1, <1>4, <1>5, <1>6, <1>7, ReadOn
<1> HIDE DEF n
<1>9. p[n] = Segment(Seg) /\ Readings(Seg) # {} /\ (p[n].kind = "literal" <=> ~IsParam(Seg))
  BY <1>2, <1>8, OneReading
<1>10. CASE NoMore
  BY <1>4, <1>6, <1>10, NoMoreIsNone
<1>11. CASE EmptyPart
  <2>1. Seg = << >> /\ ~IsLast /\ ~IsParam(Seg)
    BY <1>11 DEF EmptyPart, IsParam
  <2>2. p[n].kind = "literal" /\ p[n].text = << >>
    BY <1>9, <2>1 DEF Segment
  <2>3. n = Len(p)
    BY <1>7, <1>8, <2>2 DEF PlainRules
  <2>4. End <= Len(s)
    BY <1>1, <1>2, <1>3, <2>1
  <2> QED
    BY <1>8, <2>3, <2>4
<1>12. CASE BadByte
  <2>1. GoodLiteral(Seg)
    BY <1>2, <1>8, <1>12, ReadingsOfLiteral DEF BadByte
  <2>2. Stop > Len(Seg) /\ Stop \in Nat
    BY <1>2, <2>1, GoodLiteralIs, LiteralStopIs DEF Stop, StopFrom
  <2> QED
    BY <1>2, <1>12, <2>2 DEF BadByte
<1>13. CASE BadParam
  BY <1>2, <1>8, <1>13, ReadingsOfParam DEF BadParam
<1>14. CASE TakenName
  <2>1. /\ p[n].kind # "literal" /\ p[n].text = Name(Seg)
        /\ Named(Name(Seg))
    BY <1>9, <1>14 DEF TakenName, Segment
  <2>2. PICK k \in 1..Len(segs) : segs[k].kind # "literal" /\ segs[k].text = Name(Seg)
    BY <2>1 DEF Named
  <2>3. k \in ParamsOf(p) /\ n \in ParamsOf(p) /\ p[k].text = p[n].text /\ k # n
    BY <1>8, <2>1, <2>2 DEF ParamsOf
  <2> QED
    BY <1>7, <2>3 DEF PlainRules
<1>15. CASE OneTooMany
  <2>1. p[n].kind # "literal" /\ params = MaxParams
    BY <1>9, <1>15 DEF OneTooMany
  <2>2. Cardinality(ParamsOf(segs)) = MaxParams
    BY <2>1 DEF IInv, SegmentsFit
  <2>3. ParamsOf(segs) \cup {n} \subseteq ParamsOf(p) /\ n \notin ParamsOf(segs)
    BY <1>8, <2>1 DEF ParamsOf
  <2>4. IsFiniteSet(ParamsOf(segs)) /\ IsFiniteSet(ParamsOf(p)) /\ Cardinality(ParamsOf(p)) \in Nat
    BY <1>1, <1>7, ParamsFinite
  <2>5. Cardinality(ParamsOf(segs) \cup {n}) = MaxParams + 1
    BY <2>2, <2>3, <2>4, FS_AddElement
  <2>6. Cardinality(ParamsOf(segs) \cup {n}) <= Cardinality(ParamsOf(p))
    BY <2>3, <2>4, FS_Subset
  <2>7. Cardinality(ParamsOf(p)) <= MaxParams
    BY <1>7 DEF PlainRules
  <2> QED
    BY <2>4, <2>5, <2>6, <2>7, BoundsAssumption
<1> QED
  BY <1>1, <1>10, <1>11, <1>12, <1>13, <1>14, <1>15, RefusedFor

\* The text is one of them.
LEMMA RefusedIsWrong ==
    ASSUME IInv, Refused
    PROVE  ~WellFormed(text) /\ error # "None"
<1>1. Working /\ Tests[1] # "None" /\ error = Tests[1]
  BY DEF Refused
<1>2. /\ text \in Seq(Alphabet) /\ Len(text) \in Nat
      /\ pos \in 2..(Len(text) + 1)
  BY <1>1 DEF IInv, Working
<1>3. /\ End \in pos..(Len(text) + 1)
      /\ End > Len(text) \/ text[End] = "/"
  BY <1>2, SegIsPart
<1>4. Agree(text, text, End - 1)
  BY <1>2, <1>3 DEF Agree
<1>5. IF Len(text) = End - 1 THEN IsLast ELSE text[End] = "/"
  BY <1>2, <1>3 DEF IsLast
<1> QED
  BY <1>1, <1>2, <1>4, <1>5, RefusedIsNone

\* The error named is one the segment at hand has.
LEMMA BadByteHas ==
    ASSUME IInv, Working, BadByte, Tests[1] # "None", ~(Seg = << >> /\ ~IsLast)
    PROVE  Tests[1] \in {"BraceInLiteral", "NotPchar"} /\ PartHas(Tests[1], Seg)
<1>1. /\ Seg \in Seq(Alphabet) /\ Len(Seg) \in Nat
      /\ Stop \in 1..(Len(Seg) + 1) /\ (Stop > Len(Seg) \/ Bad(Seg, Stop))
  BY SegmentText, LiteralStopIs DEF IInv, Stop, StopFrom
<1>2. ~NoMore /\ ~IsParam(Seg) /\ Stop <= Len(Seg)
  BY DEF BadByte
<1>3. Stop \in 1..Len(Seg) /\ Bad(Seg, Stop)
  BY <1>1, <1>2
<1>4. Tests[1] = IF Seg[Stop] \in {"{", "}"} THEN "BraceInLiteral" ELSE "NotPchar"
  BY <1>1, <1>2, <1>3 DEF Tests, NoMore
<1>5. CASE Seg[Stop] \in {"{", "}"}
  BY <1>2, <1>3, <1>4, <1>5 DEF PartHas
<1>6. CASE Seg[Stop] \notin {"{", "}"}
  <2>1. /\ Seg[Stop] \notin Pchars \cup {"{", "}"}
        /\ ~(Seg[Stop] = "%" /\ GoodEscape(Seg, Stop))
    BY <1>3, <1>6 DEF Bad
  <2> QED
    BY <1>2, <1>3, <1>4, <1>6, <2>1 DEF PartHas
<1> QED
  BY <1>4, <1>5, <1>6

\* A parameter that ends with its brace: where the others are.
LEMMA ClosedIs ==
    ASSUME NEW s \in Seq(Alphabet), IsParam(s), s[Len(s)] = "}"
    PROVE  /\ Len(s) \in Nat /\ Len(s) > 1 /\ s[1] = "{"
           /\ \A i \in 1..Len(Inner(s)) : i + 1 \in 2..(Len(s) - 1) /\ Inner(s)[i] = s[i + 1]
           /\ Closed(s) <=> \A i \in 1..Len(Inner(s)) : Inner(s)[i] \notin {"{", "}"}
<1> DEFINE l == Len(s)
           m == Len(Inner(s))
<1>1. s # << >> /\ s[1] = "{"
  BY DEF IsParam
<1>2. l \in Nat \ {0}
  BY <1>1, EmptySeq, Zenon
<1>3. l # 1
  <2> SUFFICES ASSUME l = 1 PROVE FALSE
    OBVIOUS
  <2>1. s[1] = "}"
    OBVIOUS
  <2> QED
    BY <1>1, <2>1
<1>4. l > 1 /\ l >= 2 /\ l \in Nat
  <2> HIDE DEF l
  <2> QED
    BY ONLY <1>2, <1>3
<1>5. m = l - 2 /\ \A i \in 1..(l - 2) : Inner(s)[i] = s[i + 1]
  BY <1>4, BodyBytes
<1>6. \A i \in 1..m : i + 1 \in 2..(l - 1) /\ Inner(s)[i] = s[i + 1]
  <2> HIDE DEF l, m
  <2> TAKE i \in 1..m
  <2>1. i + 1 \in 2..(l - 1) /\ i \in 1..(l - 2)
    <3>1. i \in 1..m
      OBVIOUS
    <3> QED
      BY ONLY <1>4, <1>5, <3>1
  <2> QED
    BY <1>5, <2>1
<1>7. \A j \in 2..(l - 1) : j - 1 \in 1..m /\ Inner(s)[j - 1] = s[j]
  <2> HIDE DEF l, m
  <2> TAKE j \in 2..(l - 1)
  <2>1. j - 1 \in 1..(l - 2) /\ (j - 1) + 1 = j
    <3>1. j \in 2..(l - 1)
      OBVIOUS
    <3> QED
      BY ONLY <1>4, <3>1
  <2> QED
    BY <1>5, <2>1
<1>8. Closed(s) <=> \A i \in 1..m : Inner(s)[i] \notin {"{", "}"}
  BY <1>4, <1>6, <1>7 DEF Closed
<1> QED
  BY <1>1, <1>4, <1>6, <1>8

\* So is that of a parameter.
LEMMA BadParamHas ==
    ASSUME IInv, Working, BadParam
    PROVE  /\ Tests[1] \in {"UnclosedBrace", "BraceInLiteral", "UnknownType",
                            "EmptyName", "BadName"}
           /\ PartHas(Tests[1], Seg)
<1>1. Seg \in Seq(Alphabet)
  BY SegmentText DEF IInv
<1>2. ~NoMore /\ IsParam(Seg) /\ ~Fine(Seg) /\ Seg # << >>
  BY DEF BadParam, IsParam
<1>3. CASE Seg[Len(Seg)] # "}"
  <2>1. Tests[1] = "UnclosedBrace"
    BY <1>2, <1>3 DEF Tests, NoMore
  <2> QED
    BY <1>2, <1>3, <2>1 DEF PartHas
<1>4. CASE Seg[Len(Seg)] = "}"
  <2>1. /\ Len(Seg) \in Nat /\ Len(Seg) > 1
        /\ \A i \in 1..Len(Inner(Seg)) : i + 1 \in 2..(Len(Seg) - 1) /\ Inner(Seg)[i] = Seg[i + 1]
        /\ Closed(Seg) <=> \A i \in 1..Len(Inner(Seg)) : Inner(Seg)[i] \notin {"{", "}"}
    BY <1>1, <1>2, <1>4, ClosedIs
  <2>2. CASE \E i \in 1..Len(Inner(Seg)) : Inner(Seg)[i] \in {"{", "}"}
    <3>1. Tests[1] = "BraceInLiteral"
      BY <1>2, <1>4, <2>2 DEF Tests, NoMore
    <3>2. PICK i \in 1..Len(Inner(Seg)) : Inner(Seg)[i] \in {"{", "}"}
      BY <2>2
    <3> DEFINE j == i + 1
    <3>3. j \in 2..(Len(Seg) - 1) /\ Seg[j] \in {"{", "}"}
      BY <2>1, <3>2
    <3> HIDE DEF j
    <3>4. j \in 1..Len(Seg) /\ j \notin {1, Len(Seg)}
      <4> DEFINE l == Len(Seg)
      <4>1. l \in Nat /\ j \in 2..(l - 1)
        BY <2>1, <3>3
      <4> HIDE DEF l
      <4>2. j \in 1..l /\ j # 1 /\ j # l
        BY ONLY <4>1
      <4> QED
        BY <4>2 DEF l
    <3> QED
      BY <3>1, <3>3, <3>4 DEF PartHas
  <2>3. CASE \A i \in 1..Len(Inner(Seg)) : Inner(Seg)[i] \notin {"{", "}"}
    <3>1. Closed(Seg)
      BY <2>1, <2>3
    <3>2. CASE HasType(Seg) /\ (IsRest(Seg) \/ \A t \in Types : Type(Seg) # <<t>>)
      <4>1. Tests[1] = "UnknownType"
        BY <1>2, <1>4, <2>3, <3>2 DEF Tests, NoMore
      <4>2. IsRest(Seg) \/ Type(Seg) \notin {<<t>> : t \in Types}
        BY <3>2
      <4> QED
        BY <3>1, <3>2, <4>1, <4>2 DEF PartHas
    <3>3. CASE /\ ~(HasType(Seg) /\ (IsRest(Seg) \/ \A t \in Types : Type(Seg) # <<t>>))
               /\ Name(Seg) = << >>
      <4>1. Tests[1] = "EmptyName"
        BY <1>2, <1>4, <2>3, <3>3 DEF Tests, NoMore
      <4> QED
        BY <3>1, <3>3, <4>1 DEF PartHas
    <3>4. CASE /\ ~(HasType(Seg) /\ (IsRest(Seg) \/ \A t \in Types : Type(Seg) # <<t>>))
               /\ Name(Seg) # << >>
      <4>1. ~ValidName(Name(Seg))
        BY <1>2, <1>4, <2>3, <3>4 DEF Fine
      <4>2. Tests[1] = "BadName"
        BY <1>2, <1>4, <2>3, <3>4, <4>1 DEF Tests, NoMore
      <4> QED
        BY <3>1, <3>4, <4>1, <4>2 DEF PartHas
    <3> QED
      BY <3>2, <3>3, <3>4
  <2> QED
    BY <2>2, <2>3
<1> QED
  BY <1>3, <1>4

\* The parts read so far, and the one at hand.
LEMMA PartsSoFar ==
    ASSUME IInv, Working
    PROVE  /\ Len(segs) \in Nat /\ Len(Parts(text)) \in Nat
           /\ Len(segs) + 1 \in 1..Len(Parts(text))
           /\ Parts(text)[Len(segs) + 1] = Seg
           /\ ~IsLast => Len(segs) + 1 # Len(Parts(text))
           /\ \A k \in 1..Len(segs) :
                  /\ k \in 1..Len(Parts(text)) /\ k # Len(segs) + 1
                  /\ Parts(text)[k] \in Seq(Alphabet)
                  /\ segs[k] \in Readings(Parts(text)[k])
<1>1. /\ text \in Seq(Alphabet) /\ Len(text) \in Nat /\ Len(text) > 1
      /\ Len(segs) \in Nat
      /\ pos \in 2..(Len(text) + 1)
      /\ SlashAt(text, Len(segs) + 1, pos - 1)
  BY DEF IInv, Working
<1>2. text # <<"/">>
  <2> DEFINE n == Len(text)
  <2>1. n # 1
    <3>1. n \in Nat /\ n > 1
      BY <1>1
    <3> HIDE DEF n
    <3> QED
      BY ONLY <3>1
  <2>2. "/" \in Alphabet
    BY AlphabetAssumption
  <2>3. Len(<<"/">>) = 1
    BY <2>2, ShortTexts, Zenon
  <2> QED
    BY <2>1, <2>3, Zenon
<1> DEFINE m == Cardinality(Slashes(text))
<1>3. /\ Len(Parts(text)) = m /\ m \in Nat
      /\ \A k, i : SlashAt(text, k, i) => k \in 1..m /\ Parts(text)[k] = Part(text, i)
  BY <1>1, <1>2, PartsAre, CountIs
<1> HIDE DEF m
<1>4. /\ Part(text, pos - 1) = Seg
      /\ End \in pos..(Len(text) + 1)
      /\ End > Len(text) \/ text[End] = "/"
  BY <1>1, SegIsPart
<1>5. ASSUME ~IsLast PROVE Len(segs) + 1 # m
  <2>1. End \in Slashes(text) /\ pos - 1 \in Nat /\ End \in Nat /\ pos - 1 < End
    BY <1>1, <1>4, <1>5 DEF IsLast, Slashes
  <2>2. Count(text, pos - 1) < Count(text, End) /\ Count(text, End) <= m /\ Count(text, End) \in Nat
    BY <1>1, <2>1, CountGrows, CountIs DEF m
  <2> QED
    BY <1>1, <1>3, <2>2 DEF SlashAt
<1>6. ASSUME NEW k \in 1..Len(segs)
      PROVE  /\ k \in 1..m /\ k # Len(segs) + 1
             /\ Parts(text)[k] \in Seq(Alphabet)
             /\ segs[k] \in Readings(Parts(text)[k])
  <2>1. PICK i \in 1..(pos - 2) : SlashAt(text, k, i) /\ segs[k] \in Readings(Part(text, i))
    BY DEF Working
  <2>2. k \in 1..m /\ Parts(text)[k] = Part(text, i)
    BY <1>3, <2>1
  <2>3. Part(text, i) \in Seq(Alphabet)
    BY <1>1, <2>1, PartIs DEF SlashAt
  <2>4. k # Len(segs) + 1
    BY <1>1
  <2> QED
    BY <2>1, <2>2, <2>3, <2>4
<1> QED
  BY <1>1, <1>3, <1>4, <1>5, <1>6

\* The error named is one the text has, as describe() says what each means
\* (pattern.hpp:55-73).
LEMMA RefusedHas ==
    ASSUME IInv, Refused
    PROVE  TextHas(error, text)
<1> DEFINE parts == Parts(text)
           n     == Len(segs) + 1
<1>1. Working /\ Tests[1] # "None" /\ error = Tests[1]
  BY DEF Refused
<1>2. /\ Len(segs) \in Nat /\ Len(parts) \in Nat
      /\ n \in 1..Len(parts) /\ parts[n] = Seg /\ Seg \in Seq(Alphabet)
      /\ ~IsLast => n # Len(parts)
      /\ \A k \in 1..Len(segs) : /\ k \in 1..Len(parts) /\ k # n
                                 /\ parts[k] \in Seq(Alphabet)
                                 /\ segs[k] \in Readings(parts[k])
  BY <1>1, PartsSoFar, SegmentText DEF IInv
<1>3. segs \in Seq(SegmentsRead) /\ SegmentsFit
  BY DEF IInv
<1> HIDE DEF parts
<1>4. CASE AfterRest
  <2>1. error = "RestNotLast"
    BY <1>1, <1>4 DEF Tests
  <2>2. Len(segs) \in 1..Len(segs) /\ segs[Len(segs)].kind = "rest"
    BY <1>2, <1>3, <1>4, EmptySeq DEF AfterRest
  <2>3. Len(segs) # Len(parts)
    BY <1>2
  <2>4. \E k \in 1..Len(parts) : \E r \in Readings(parts[k]) : r.kind = "rest" /\ k # Len(parts)
    BY <1>2, <2>2, <2>3
  <2> QED
    BY <2>1, <2>4 DEF TextHas, parts
<1>5. CASE ~AfterRest /\ Seg = << >> /\ ~IsLast
  <2>1. error = "EmptySegment"
    BY <1>1, <1>5 DEF Tests
  <2>2. \E k \in 1..Len(parts) : parts[k] = << >> /\ k # Len(parts)
    BY <1>2, <1>5
  <2> QED
    BY <2>1, <2>2 DEF TextHas, parts
<1>6. CASE ~AfterRest /\ ~(Seg = << >> /\ ~IsLast) /\ Len(segs) = MaxSegments
  <2>1. error = "TooManySegments"
    BY <1>1, <1>6 DEF Tests
  <2>2. Len(parts) > MaxSegments
    BY <1>2, <1>6
  <2> QED
    BY <2>1, <2>2 DEF TextHas, parts
<1>7. ASSUME error \in {"BraceInLiteral", "NotPchar", "UnclosedBrace", "UnknownType",
                        "EmptyName", "BadName"},
             PartHas(error, Seg)
      PROVE  TextHas(error, text)
  <2>1. \E k \in 1..Len(parts) : PartHas(error, parts[k])
    BY <1>2, <1>7
  <2> QED
    BY <1>7, <2>1 DEF TextHas, parts
<1>8. CASE ~NoMore /\ BadByte /\ ~(Seg = << >> /\ ~IsLast)
  BY <1>1, <1>7, <1>8, BadByteHas
<1>9. CASE BadParam
  BY <1>1, <1>7, <1>9, BadParamHas
<1>10. CASE ~NoMore /\ IsParam(Seg) /\ Fine(Seg)
  <2>1. /\ Segment(Seg) \in Readings(Seg)
        /\ Segment(Seg).kind # "literal" /\ Segment(Seg).text = Name(Seg)
    <3>1. Segment(Seg) \in Readings(Seg)
      BY <1>2, <1>10, ReadingsOfParam
    <3> QED
      BY <1>2, <1>10, <3>1, OneReading DEF Segment
  <2>2. Name(Seg) # << >> /\ Seg # << >>
    BY <1>10 DEF Fine, ValidName, IsParam
  <2>3. Tests[1] = IF Named(Name(Seg)) THEN "RepeatedName"
                   ELSE IF params = MaxParams THEN "TooManyParams" ELSE "None"
    BY <1>10, <2>2 DEF Tests, Fine, NoMore
  <2>4. CASE Named(Name(Seg))
    <3>1. error = "RepeatedName"
      BY <1>1, <2>3, <2>4
    <3>2. PICK k \in 1..Len(segs) : segs[k].kind # "literal" /\ segs[k].text = Name(Seg)
      BY <2>4 DEF Named
    <3>3. \E j, k2 \in 1..Len(parts) :
              \E q \in Readings(parts[j]), r \in Readings(parts[k2]) :
                  /\ q.kind # "literal" /\ r.kind # "literal"
                  /\ q.text = r.text /\ j # k2
      BY <1>2, <2>1, <3>2
    <3> QED
      BY <3>1, <3>3 DEF TextHas, parts
  <2>5. CASE ~Named(Name(Seg))
    <3>1. error = "TooManyParams" /\ params = MaxParams
      BY <1>1, <2>3, <2>5
    <3> DEFINE P == {k \in 1..Len(parts) : IsParam(parts[k])}
    <3>2. ParamsOf(segs) \cup {n} \subseteq P /\ n \notin ParamsOf(segs)
      <4>1. ASSUME NEW k \in ParamsOf(segs) PROVE k \in P /\ k # n
        <5>1. k \in 1..Len(segs) /\ segs[k].kind # "literal"
          BY DEF ParamsOf
        <5> QED
          BY <1>2, <5>1, OneReading
      <4>2. n \in P
        BY <1>2, <1>10
      <4> QED
        BY <4>1, <4>2
    <3>3. IsFiniteSet(P)
      <4>1. IsFiniteSet(1..Len(parts)) /\ P \subseteq 1..Len(parts)
        BY <1>2, FS_Interval
      <4> HIDE DEF P
      <4> QED
        BY <4>1, FS_Subset
    <3>4. IsFiniteSet(ParamsOf(segs)) /\ Cardinality(ParamsOf(segs)) = MaxParams
      BY <1>3, <3>1, ParamsFinite DEF SegmentsFit
    <3> HIDE DEF P
    <3>5. Cardinality(ParamsOf(segs) \cup {n}) = MaxParams + 1
      BY <3>2, <3>4, FS_AddElement
    <3>6. Cardinality(ParamsOf(segs) \cup {n}) <= Cardinality(P) /\ Cardinality(P) \in Nat
      BY <3>2, <3>3, FS_Subset, FS_CardinalityType
    <3>7. Cardinality(P) > MaxParams
      BY <3>5, <3>6, BoundsAssumption
    <3> QED
      BY <3>1, <3>7 DEF TextHas, P, parts
  <2> QED
    BY <2>4, <2>5
<1> QED
  BY <1>1, <1>4, <1>5, <1>6, <1>8, <1>9, <1>10, RefusedFor
     DEF IInv, NoMore, EmptyPart, BadByte, BadParam, TakenName, OneTooMany

\* The parser accepts what the rules of docs/route-semantics.md allow, as they
\* read it, and nothing else; of any other text it names an error the text has
\* (pattern.hpp:149-284).
THEOREM ParsesRight == Spec => []ParsesAsWritten
<1>1. IInv /\ Parse => ParsesAsWritten
  <2> SUFFICES ASSUME IInv, Parse, pc = "done"
               PROVE  IF WellFormed(text) THEN error = "None" /\ segs = Pattern(Parts(text))
                      ELSE error # "None" /\ TextHas(error, text)
    BY DEF ParsesAsWritten
  <2>1. CASE error = "None"
    <3>1. Accepted
      BY <2>1 DEF Parse
    <3>2. CASE text = <<"/">>
      BY <2>1, <3>1, <3>2, RootIsWellFormed DEF Accepted
    <3>3. CASE text # <<"/">>
      BY <2>1, <3>1, <3>3, WellFormedWhen DEF Accepted, IInv
    <3> QED
      BY <3>2, <3>3
  <2>2. CASE error = "NoLeadingSlash" /\ ~Leading(text)
    BY <2>2 DEF WellFormed, TextHas
  <2>3. CASE Refused
    BY <2>3, RefusedIsWrong, RefusedHas
  <2> QED
    BY <2>1, <2>2, <2>3 DEF Parse
<1> QED
  BY <1>1, ParseInvariance, PTL
-----------------------------------------------------------------------------
(* Where the text stops being well formed.                                 *)

\* The text up to a place.
LEMMA PrefixIs ==
    ASSUME NEW t \in Seq(Alphabet), NEW c \in 0..Len(t)
    PROVE  /\ SubSeq(t, 1, c) \in Seq(Alphabet) /\ Len(SubSeq(t, 1, c)) = c
           /\ Agree(SubSeq(t, 1, c), t, c)
<1>1. 1 \in Nat /\ c \in Int /\ 1 <= 1 /\ 1 <= c + 1 /\ c <= Len(t) /\ c + 1 - 1 = c /\ c \in Nat
  OBVIOUS
<1> DEFINE s == SubSeq(t, 1, c)
<1>2. /\ s \in Seq(Alphabet) /\ Len(s) = c + 1 - 1
      /\ \A i \in 1..(c + 1 - 1) : s[i] = t[1 + i - 1]
  BY <1>1, PartBytes
<1> HIDE DEF s
<1>3. \A i \in 1..c : s[i] = t[i]
  BY <1>1, <1>2
<1> QED
  BY <1>1, <1>2, <1>3 DEF Agree, s

\* A text that ends after the segments so far, before or after the slash that
\* follows them, is read as them as far as they go.
LEMMA ReadBack ==
    ASSUME IInv, Working,
           NEW s \in Seq(Alphabet), NEW c, Agree(s, text, c), Len(s) = c, pos - 2 <= c,
           NEW k \in 1..Len(segs)
    PROVE  \E i : SlashAt(s, k, i) /\ segs[k] \in Readings(Part(s, i))
<1>1. /\ text \in Seq(Alphabet) /\ Len(text) \in Nat
      /\ pos \in 2..(Len(text) + 1) /\ c \in Nat /\ c <= Len(text)
  BY DEF IInv, Working, Agree
<1>2. PICK i \in 1..(pos - 2) : /\ SlashAt(text, k, i)
                                /\ segs[k] \in Readings(Part(text, i))
                                /\ FirstAt(text, "/", i + 1) < pos
  BY DEF Working
<1> DEFINE f == FirstAt(text, "/", i + 1)
<1>3. i \in 1..c /\ i <= c /\ i + 1 \in 1..(Len(text) + 1)
  BY <1>1
<1>4. f \in (i + 1)..(Len(text) + 1) /\ (f > Len(text) \/ text[f] = "/") /\ f < pos
  BY <1>1, <1>2, <1>3, FirstAtIs
<1> HIDE DEF f
<1>5. f <= c + 1 /\ f <= Len(text) /\ (f = c + 1 \/ f \in 1..c)
  BY <1>1, <1>3, <1>4
<1>6. f = Len(s) + 1 \/ s[f] = "/"
  BY <1>1, <1>4, <1>5 DEF Agree
<1>7. SlashAt(s, k, i) /\ i \in Slashes(text)
  BY <1>1, <1>2, <1>3, SlashesAgree DEF SlashAt
<1>8. Part(s, i) = Part(text, i)
  BY <1>1, <1>3, <1>5, <1>6, <1>7, PartsAgree DEF f
<1> QED
  BY <1>2, <1>7, <1>8

\* The segments so far keep the rules.
LEMMA SegsArePlain ==
    ASSUME IInv, Working
    PROVE  PlainRules(segs)
BY DEF IInv, SegmentsFit, Working, PlainRules

\* Where no segment can follow, the text is well formed up to the slash before
\* the segment at hand.
LEMMA WellBeforeTheSlash ==
    ASSUME IInv, Working, NoMore
    PROVE  WellFormed(SubSeq(text, 1, pos - 2))
<1> DEFINE c == pos - 2
           s == SubSeq(text, 1, c)
<1>1. /\ text \in Seq(Alphabet) /\ Len(text) \in Nat /\ pos \in 2..(Len(text) + 1)
      /\ segs \in Seq(SegmentsRead) /\ Len(segs) \in Nat
      /\ SlashAt(text, Len(segs) + 1, pos - 1) /\ Leading(text)
  BY DEF IInv, Working
<1>2. Len(segs) \in 1..Len(segs)
  <2>1. Len(segs) # 0
    <3>1. CASE AfterRest
      BY <1>1, <3>1 DEF AfterRest
    <3>2. CASE Len(segs) = MaxSegments
      BY <3>2, BoundsAssumption
    <3> QED
      BY <3>1, <3>2 DEF NoMore
  <2> QED
    BY <1>1, <2>1
<1>3. 1..(pos - 2) # {}
  BY <1>2 DEF Working
<1>4. /\ c \in Nat /\ c >= 1 /\ c <= Len(text) /\ c \in 0..Len(text) /\ c + 1 = pos - 1
      /\ c \in 1..c /\ c + 1 \in Nat /\ c < c + 1 /\ pos - 2 <= c
  BY <1>1, <1>3
<1>5. s \in Seq(Alphabet) /\ Len(s) = c /\ Agree(s, text, c)
  BY <1>1, <1>4, PrefixIs
<1> HIDE DEF s
<1>6. Count(text, c) = Len(segs)
  <2>1. \A j \in (c + 1)..(c + 1 - 1) : j \notin Slashes(text)
    BY <1>4
  <2>2. Count(text, c + 1) = Count(text, c) + (IF c + 1 \in Slashes(text) THEN 1 ELSE 0)
    BY <1>1, <1>4, <2>1, CountStep
  <2>3. Count(text, c + 1) = Len(segs) + 1 /\ c + 1 \in Slashes(text)
    BY <1>1, <1>4 DEF SlashAt
  <2>4. Count(text, c) \in Nat
    BY <1>1, <1>4, CountIs
  <2> QED
    BY <1>1, <2>2, <2>3, <2>4
<1> HIDE DEF c
<1>7. Cardinality(Slashes(s)) = Len(segs)
  <2>1. Count(s, c) = Count(text, c)
    BY <1>1, <1>4, <1>5, SlashesAgree
  <2>2. Count(s, c) = Cardinality(Slashes(s))
    BY <1>4, <1>5, CountIs
  <2> QED
    BY <1>6, <2>1, <2>2
<1>8. ReadAs(s, segs)
  BY <1>1, <1>4, <1>5, <1>7, ReadBack DEF ReadAs
<1>9. Leading(s)
  <2>1. s[1] = text[1] /\ Len(s) >= 1
    BY <1>4, <1>5 DEF Agree
  <2>2. s # << >>
    BY <2>1
  <2> QED
    BY <1>1, <2>1, <2>2 DEF Leading
<1>10. CASE s = <<"/">>
  BY <1>10, RootIsWellFormed DEF s, c
<1>11. CASE s # <<"/">>
  <2>1. WellFormed(s)
    BY <1>5, <1>8, <1>9, <1>11, SegsArePlain, WellFormedWhen
  <2> QED
    BY <2>1 DEF s, c
<1> QED
  BY <1>10, <1>11

\* The text up to a byte of the segment at hand ends in that much of it.
LEMMA PrefixPart ==
    ASSUME IInv, Working, NEW n \in 0..Len(Seg),
           NEW c, c = pos - 1 + n, NEW s, s = SubSeq(text, 1, c)
    PROVE  /\ s \in Seq(Alphabet) /\ Len(s) = c /\ Agree(s, text, c)
           /\ c \in Nat /\ c <= Len(text) /\ pos - 1 <= c
           /\ FirstAt(s, "/", pos) = c + 1
           /\ Part(s, pos - 1) = SubSeq(Seg, 1, n)
           /\ SubSeq(Seg, 1, n) \in Seq(Alphabet) /\ Len(SubSeq(Seg, 1, n)) = n
           /\ \A i \in 1..n : SubSeq(Seg, 1, n)[i] = Seg[i]
<1>1. /\ text \in Seq(Alphabet) /\ Len(text) \in Nat /\ pos \in 2..(Len(text) + 1)
      /\ pos - 1 + 1 = pos
  BY DEF IInv, Working
<1>2. /\ End \in pos..(Len(text) + 1)
      /\ \A k \in pos..(End - 1) : text[k] # "/"
      /\ Seg \in Seq(Alphabet) /\ Len(Seg) = End - pos
      /\ \A i \in 1..Len(Seg) : Seg[i] = text[pos + i - 1]
  BY <1>1, SegIsPart
<1>3. /\ c \in Nat /\ c \in 0..Len(text) /\ c <= Len(text) /\ pos - 1 <= c
      /\ pos \in 1..(c + 1) /\ c + 1 \in pos..(c + 1) /\ c + 1 > c
      /\ \A k \in pos..c : k \in pos..(End - 1) /\ k \in 1..c
  BY <1>1, <1>2
<1>4. s \in Seq(Alphabet) /\ Len(s) = c /\ Agree(s, text, c)
  BY <1>1, <1>3, PrefixIs
<1>5. FirstAt(s, "/", pos) = c + 1
  <2> DEFINE j == c + 1
  <2>1. \A k \in pos..(j - 1) : s[k] # "/"
    <3> TAKE k \in pos..(j - 1)
    <3>1. k \in pos..c
      BY <1>3
    <3> QED
      BY <1>2, <1>3, <1>4, <3>1 DEF Agree
  <2>2. j \in pos..(Len(s) + 1) /\ j > Len(s) /\ pos \in 1..(Len(s) + 1)
    BY <1>3, <1>4
  <2> HIDE DEF j
  <2>3. FirstAt(s, "/", pos) = j
    BY <1>4, <2>1, <2>2, FirstAtUnique
  <2> QED
    BY <2>3 DEF j
<1> DEFINE u == SubSeq(Seg, 1, n)
           v == SubSeq(s, pos, c)
<1>6. u \in Seq(Alphabet) /\ Len(u) = n /\ \A i \in 1..n : u[i] = Seg[i]
  BY <1>2, PrefixIs DEF Agree
<1>7. v \in Seq(Alphabet) /\ Len(v) = c + 1 - pos /\ \A i \in 1..(c + 1 - pos) : v[i] = s[pos + i - 1]
  BY <1>1, <1>3, <1>4, PartBytes
<1>8. Part(s, pos - 1) = v
  BY <1>1, <1>3, <1>5 DEF Part
<1> HIDE DEF u, v
<1>9. u = v
  <2>1. c + 1 - pos = n
    BY <1>1
  <2>2. \A i \in 1..n : u[i] = v[i]
    <3> TAKE i \in 1..n
    <3>1. pos + i - 1 \in 1..c /\ i \in 1..Len(Seg)
      BY <1>1, <1>2
    <3> QED
      BY <1>2, <1>4, <1>6, <1>7, <2>1, <3>1 DEF Agree
  <2>3. \A i \in 1..Len(u) : u[i] = v[i]
    BY <1>6, <2>2
  <2>4. u \in Seq(Alphabet) /\ v \in Seq(Alphabet) /\ Len(u) = Len(v)
    BY <1>6, <1>7, <2>1
  <2> QED
    BY ONLY <2>3, <2>4, SeqEqual
<1> QED
  BY <1>3, <1>4, <1>5, <1>6, <1>8, <1>9 DEF u

\* A text that ends in a literal of the segment at hand is well formed.
LEMMA WellUpToTheByte ==
    ASSUME IInv, Working, ~NoMore,
           NEW n \in 0..Len(Seg), GoodLiteral(SubSeq(Seg, 1, n))
    PROVE  WellFormed(SubSeq(text, 1, pos - 1 + n))
<1> DEFINE c == pos - 1 + n
           s == SubSeq(text, 1, c)
           u == SubSeq(Seg, 1, n)
           r == [kind |-> "literal", text |-> u]
           p == Append(segs, r)
<1>1. /\ text \in Seq(Alphabet) /\ Len(text) \in Nat /\ pos \in 2..(Len(text) + 1)
      /\ segs \in Seq(SegmentsRead) /\ Len(segs) \in Nat
      /\ SlashAt(text, Len(segs) + 1, pos - 1) /\ Leading(text)
  BY DEF IInv, Working
<1>2. /\ s \in Seq(Alphabet) /\ Len(s) = c /\ Agree(s, text, c)
      /\ c \in Nat /\ c <= Len(text) /\ pos - 1 <= c
      /\ FirstAt(s, "/", pos) = c + 1
      /\ Part(s, pos - 1) = u
      /\ u \in Seq(Alphabet) /\ Len(u) = n
  <2>1. c = pos - 1 + n /\ s = SubSeq(text, 1, c)
    OBVIOUS
  <2>2. u = SubSeq(Seg, 1, n) /\ IInv /\ Working /\ n \in 0..Len(Seg)
    OBVIOUS
  <2> HIDE DEF c, s, u
  <2>3. s \in Seq(Alphabet) /\ Len(s) = c /\ Agree(s, text, c)
    BY ONLY <2>1, <2>2, PrefixPart
  <2>4. c \in Nat /\ c <= Len(text) /\ pos - 1 <= c
    BY ONLY <2>1, <2>2, PrefixPart
  <2>5. FirstAt(s, "/", pos) = c + 1
    BY ONLY <2>1, <2>2, PrefixPart
  <2>6. Part(s, pos - 1) = u
    BY ONLY <2>1, <2>2, PrefixPart
  <2>7. u \in Seq(Alphabet) /\ Len(u) = n
    BY ONLY <2>1, <2>2, PrefixPart
  <2> QED
    BY <2>3, <2>4, <2>5, <2>6, <2>7
<1>3. GoodLiteral(u)
  OBVIOUS
<1> HIDE DEF c, s, u
<1>4. r \in Readings(u) /\ r \in SegmentsRead /\ r.kind = "literal" /\ r.text = u
  BY <1>2, <1>3 DEF Readings, SegmentsRead, Kinds
<1> HIDE DEF r
<1>5. /\ p \in Seq(SegmentsRead) /\ Len(p) = Len(segs) + 1
      /\ \A k \in 1..Len(segs) : p[k] = segs[k]
      /\ p[Len(segs) + 1] = r
  BY <1>1, <1>4
<1>6. Cardinality(ParamsOf(p)) = Cardinality(ParamsOf(segs)) /\ ParamsOf(p) = ParamsOf(segs)
  <2>1. Cardinality(ParamsOf(segs)) \in Nat
    BY <1>1, ParamsFinite
  <2> QED
    BY <1>1, <1>4, <2>1, ParamsAppend
<1> HIDE DEF p
<1>7. pos - 1 \in 1..c /\ pos - 1 \in Nat /\ pos - 1 + 1 = pos
  BY <1>1, <1>2
<1>8. SlashAt(s, Len(segs) + 1, pos - 1)
  BY <1>1, <1>2, <1>7, SlashesAgree
<1>9. Cardinality(Slashes(s)) = Len(segs) + 1
  <2>1. Count(s, pos - 1) = Len(segs) + 1
    BY <1>8 DEF SlashAt
  <2>2. Count(s, c) = Cardinality(Slashes(s))
    BY <1>2, CountIs
  <2>3. CASE c = pos - 1
    BY <2>1, <2>2, <2>3
  <2>4. CASE c # pos - 1
    <3>1. pos - 1 < c /\ pos \in 1..(Len(s) + 1)
      BY <1>1, <1>2, <2>4
    <3>2. \A k \in pos..c : k \notin Slashes(s)
      <4>1. \A k \in pos..(c + 1 - 1) : s[k] # "/"
        BY <1>2, <3>1, FirstAtIs
      <4>2. c + 1 - 1 = c
        BY <1>2
      <4> QED
        BY <4>1, <4>2 DEF Slashes
    <3>3. c \in pos..c /\ \A k \in (pos - 1 + 1)..(c - 1) : k \in pos..c
      BY <1>2, <1>7, <3>1
    <3>4. Count(s, c) = Count(s, pos - 1) + (IF c \in Slashes(s) THEN 1 ELSE 0)
      BY <1>2, <1>7, <3>1, <3>2, <3>3, CountStep
    <3>5. c \notin Slashes(s)
      BY <3>2, <3>3
    <3> QED
      BY <1>1, <2>1, <2>2, <3>4, <3>5
  <2> QED
    BY <2>3, <2>4
<1>10. ReadAs(s, p)
  <2>1. ASSUME NEW k \in 1..Len(p)
        PROVE  \E i : SlashAt(s, k, i) /\ p[k] \in Readings(Part(s, i))
    <3>1. CASE k \in 1..Len(segs)
      <4>1. pos - 2 <= c
        BY <1>1, <1>2
      <4> QED
        BY <1>2, <1>5, <3>1, <4>1, ReadBack
    <3>2. CASE k = Len(segs) + 1
      BY <1>2, <1>4, <1>5, <1>8, <3>2
    <3> QED
      BY <1>1, <1>5, <3>1, <3>2
  <2> QED
    BY <1>5, <1>9, <2>1 DEF ReadAs
<1>11. Leading(s)
  <2>1. s[1] = text[1] /\ Len(s) >= 1
    BY <1>2, <1>7 DEF Agree
  <2>2. s # << >>
    BY <2>1
  <2> QED
    BY <1>1, <2>1, <2>2 DEF Leading
<1>12. CASE s = <<"/">>
  BY <1>12, RootIsWellFormed DEF s, c
<1>13. CASE s # <<"/">>
  <2>1. u = << >> => Len(segs) > 0
    <3> SUFFICES ASSUME u = << >>, ~(Len(segs) > 0) PROVE FALSE
      OBVIOUS
    <3>1. segs = << >> /\ n = 0
      BY <1>1, <1>2
    <3>2. pos = 2
      BY <3>1 DEF Working
    <3>3. c = 1 /\ s[1] = "/"
      <4>1. c = 1
        BY <3>1, <3>2 DEF c
      <4> QED
        BY <1>11, <4>1 DEF Leading
    <3>4. s = <<"/">>
      <4>1. Len(s) = 1 /\ s[1] = "/"
        BY <1>2, <3>3
      <4> QED
        BY <1>2, <4>1
    <3> QED
      BY <1>13, <3>4
  <2>2. PlainRules(segs) /\ Len(segs) < MaxSegments
    <3>1. PlainRules(segs)
      BY SegsArePlain
    <3> QED
      BY <1>1, <3>1, BoundsAssumption DEF PlainRules, NoMore
  <2>3. \A k \in 1..Len(segs) : segs[k].kind # "rest"
    <3> SUFFICES ASSUME NEW k \in 1..Len(segs), segs[k].kind = "rest" PROVE FALSE
      OBVIOUS
    <3>1. k = Len(segs)
      BY <2>2 DEF PlainRules
    <3>2. segs # << >>
      BY <1>1, <3>1
    <3> QED
      BY <3>1, <3>2 DEF NoMore, AfterRest
  <2>4. \A k \in 1..Len(segs) : ~(segs[k].kind = "literal" /\ segs[k].text = << >>)
    BY DEF Working
  <2>5. ASSUME NEW k \in 1..Len(p)
        PROVE  /\ p[k].kind = "rest" => k = Len(p)
               /\ p[k].kind = "literal" /\ p[k].text = << >> => k = Len(p) /\ k > 1
    <3>1. CASE k \in 1..Len(segs)
      BY <1>5, <2>3, <2>4, <3>1
    <3>2. CASE k = Len(segs) + 1
      BY <1>1, <1>4, <1>5, <2>1, <3>2
    <3> QED
      BY <1>1, <1>5, <3>1, <3>2
  <2>6. \A j, k \in ParamsOf(p) : p[j].text = p[k].text => j = k
    BY <1>5, <1>6, <2>2 DEF PlainRules, ParamsOf
  <2>7. Len(p) <= MaxSegments /\ Cardinality(ParamsOf(p)) <= MaxParams
    BY <1>1, <1>5, <1>6, <2>2, BoundsAssumption DEF PlainRules
  <2>8. PlainRules(p)
    BY <2>5, <2>6, <2>7 DEF PlainRules
  <2>9. WellFormed(s)
    BY <1>2, <1>10, <1>11, <1>13, <2>8, WellFormedWhen
  <2> QED
    BY <2>9 DEF s, c
<1> QED
  BY <1>12, <1>13

\* A text that ends in a piece of it that has no reading is not.
LEMMA UnreadIsNone ==
    ASSUME IInv, Working, NEW n \in 1..Len(Seg), Readings(SubSeq(Seg, 1, n)) = {}
    PROVE  ~WellFormed(SubSeq(text, 1, pos - 1 + n))
<1> DEFINE c == pos - 1 + n
           s == SubSeq(text, 1, c)
           u == SubSeq(Seg, 1, n)
<1>1. /\ text \in Seq(Alphabet) /\ Len(text) \in Nat /\ pos \in 2..(Len(text) + 1)
  BY DEF IInv, Working
<1>2. n \in 0..Len(Seg) /\ n >= 1
  BY <1>1, SegIsPart
<1>3. /\ s \in Seq(Alphabet) /\ Len(s) = c /\ Agree(s, text, c)
      /\ c \in Nat /\ c <= Len(text) /\ pos - 1 <= c
      /\ Part(s, pos - 1) = u
  <2>1. c = pos - 1 + n /\ s = SubSeq(text, 1, c) /\ u = SubSeq(Seg, 1, n)
    OBVIOUS
  <2>2. IInv /\ Working /\ n \in 0..Len(Seg)
    BY <1>2
  <2> HIDE DEF c, s, u
  <2>3. s \in Seq(Alphabet) /\ Len(s) = c /\ Agree(s, text, c)
    BY ONLY <2>1, <2>2, PrefixPart
  <2>4. c \in Nat /\ c <= Len(text) /\ pos - 1 <= c
    BY ONLY <2>1, <2>2, PrefixPart
  <2>5. Part(s, pos - 1) = u
    BY ONLY <2>1, <2>2, PrefixPart
  <2> QED
    BY <2>3, <2>4, <2>5
<1>4. c > 1
  BY <1>1, <1>2
<1>5. Readings(u) = {}
  OBVIOUS
<1> HIDE DEF c, s, u
<1> SUFFICES ASSUME WellFormed(s) PROVE FALSE
  BY DEF s, c
<1>6. s # <<"/">>
  <2>1. "/" \in Alphabet
    BY AlphabetAssumption
  <2>2. Len(<<"/">>) = 1
    BY <2>1, ShortTexts, Zenon
  <2>3. c # 1
    BY ONLY <1>4
  <2> QED
    BY <1>3, <2>2, <2>3, Zenon
<1>7. Agree(s, text, pos - 1)
  <2>1. pos - 1 \in Nat /\ \A i \in 1..(pos - 1) : i \in 1..c
    BY <1>1, <1>3
  <2> QED
    BY <1>1, <1>3, <2>1 DEF Agree
<1> DEFINE p == Pattern(Parts(s))
<1>8. ReadAs(s, p)
  BY <1>3, <1>6, WellFormedIs
<1> HIDE DEF p
<1>9. p[Len(segs) + 1] \in Readings(Part(s, pos - 1))
  BY <1>3, <1>6, <1>7, <1>8, ReadOn
<1> QED
  BY <1>3, <1>5, <1>9

\* What the loop over a literal's bytes has passed is a literal: it stops after
\* an escape, never in one.
LEMMA GoodBeforeTheStop ==
    ASSUME NEW s \in Seq(Alphabet), NEW n \in Nat, n + 1 = LiteralStop(s), n + 1 <= Len(s)
    PROVE  /\ GoodLiteral(SubSeq(s, 1, n))
           /\ ~GoodLiteral(SubSeq(s, 1, n + 1))
<1>1. Len(s) \in Nat /\ n \in 0..Len(s) /\ n + 1 \in 0..Len(s) /\ n + 1 \in 1..(n + 1)
  OBVIOUS
<1>2. Bad(s, n + 1) /\ \A k \in 1..n : ~Bad(s, k)
  <2>1. /\ LiteralStop(s) > Len(s) \/ Bad(s, LiteralStop(s))
        /\ \A k \in 1..(LiteralStop(s) - 1) : ~Bad(s, k)
    BY LiteralStopIs DEF StopFrom
  <2>2. ~(n + 1 > Len(s)) /\ n + 1 - 1 = n
    BY <1>1
  <2> QED
    BY <2>1, <2>2
<1> DEFINE u == SubSeq(s, 1, n)
           v == SubSeq(s, 1, n + 1)
<1>3. /\ u \in Seq(Alphabet) /\ Len(u) = n /\ \A i \in 1..n : u[i] = s[i]
      /\ v \in Seq(Alphabet) /\ Len(v) = n + 1 /\ \A i \in 1..(n + 1) : v[i] = s[i]
  BY <1>1, PrefixIs DEF Agree
<1> HIDE DEF u, v
<1>4. GoodLiteral(u)
  <2> SUFFICES ASSUME NEW k \in 1..n, s[k] \notin Pchars
               PROVE  s[k] = "%" /\ k + 2 <= n /\ u[k + 1] \in Hex /\ u[k + 2] \in Hex
    BY <1>3 DEF GoodLiteral
  <2>1. s[k] = "%" /\ k + 2 <= Len(s) /\ s[k + 1] \in Hex /\ s[k + 2] \in Hex
    BY <1>2 DEF Bad, GoodEscape
  <2>2. s[k + 1] \in Pchars /\ s[k + 2] \in Pchars /\ s[n + 1] \notin Pchars
    BY <1>2, <2>1, AlphabetAssumption DEF Bad
  <2>3. k + 2 <= n
    <3>1. k + 1 # n + 1 /\ k + 2 # n + 1
      BY <2>2
    <3>2. k \in Nat /\ k <= n
      OBVIOUS
    <3> QED
      BY ONLY <3>1, <3>2
  <2>4. k + 1 \in 1..n /\ k + 2 \in 1..n
    BY <2>3
  <2> QED
    BY <1>3, <2>1, <2>3, <2>4
<1>5. ~GoodLiteral(v)
  <2>1. v[n + 1] \notin Pchars /\ n + 1 \in 1..Len(v)
    BY <1>1, <1>2, <1>3 DEF Bad
  <2>2. ~(n + 1 + 2 <= Len(v))
    BY <1>3
  <2> QED
    BY <2>1, <2>2 DEF GoodLiteral
<1> QED
  BY <1>4, <1>5 DEF u, v

\* Where a segment is refused that could have followed the ones before: the
\* offset is in it, it is a literal up to there, and with the byte there it
\* cannot be read, if it has one.
LEMMA RefusedInside ==
    ASSUME IInv, Working, Tests[1] # "None", ~NoMore
    PROVE  /\ Tests[2] \in 0..Len(Seg)
           /\ GoodLiteral(SubSeq(Seg, 1, Tests[2]))
           /\ Tests[2] < Len(Seg) \/ EmptyPart
           /\ ~EmptyPart => Readings(SubSeq(Seg, 1, Tests[2] + 1)) = {}
<1>1. /\ text \in Seq(Alphabet) /\ Len(text) \in Nat /\ pos \in 2..(Len(text) + 1)
      /\ pos \in 1..(Len(text) + 1) /\ Seg \in Seq(Alphabet) /\ Len(Seg) \in Nat
  BY SegIsPart DEF IInv, Working
<1>2. EmptyPart \/ BadByte \/ BadParam \/ TakenName \/ OneTooMany
  BY <1>1, RefusedFor
<1>3. GoodLiteral(SubSeq(Seg, 1, 0))
  <2>1. Len(SubSeq(Seg, 1, 0)) = 0
    <3>1. 0 \in 0..Len(Seg)
      BY <1>1
    <3> QED
      BY <1>1, <3>1, PrefixIs
  <2> QED
    BY <2>1 DEF GoodLiteral
<1>4. CASE EmptyPart
  <2>1. Tests[2] = 0
    BY <1>4 DEF EmptyPart
  <2> QED
    BY <1>1, <1>3, <1>4, <2>1
<1>5. CASE BadByte
  <2> DEFINE n == Stop - 1
             u == SubSeq(Seg, 1, n + 1)
  <2>1. Stop \in 1..(Len(Seg) + 1) /\ Stop = LiteralStop(Seg)
    BY <1>1, LiteralStopIs DEF Stop, StopFrom
  <2>2. n \in Nat /\ n + 1 = LiteralStop(Seg) /\ n + 1 <= Len(Seg) /\ Tests[2] = n /\ ~IsParam(Seg)
    BY <1>5, <2>1 DEF BadByte
  <2>3. n \in 0..Len(Seg) /\ n < Len(Seg) /\ n + 1 \in 0..Len(Seg) /\ 1 \in 1..(n + 1)
    BY <1>1, <2>2
  <2> HIDE DEF n
  <2>4. GoodLiteral(SubSeq(Seg, 1, n)) /\ ~GoodLiteral(u)
    BY <1>1, <2>2, GoodBeforeTheStop
  <2>5. u \in Seq(Alphabet) /\ Len(u) = n + 1 /\ \A i \in 1..(n + 1) : u[i] = Seg[i]
    BY <1>1, <2>3, PrefixIs DEF Agree
  <2> HIDE DEF u
  <2>6. u[1] = Seg[1] /\ Seg # << >>
    BY <1>1, <2>3, <2>5
  <2>7. ~IsParam(u)
    BY <2>2, <2>6 DEF IsParam
  <2>8. Readings(u) = {}
    BY <2>4, <2>5, <2>7, ReadingsOfLiteral
  <2> QED
    BY <2>2, <2>3, <2>4, <2>8 DEF u
<1>6. CASE BadParam \/ TakenName \/ OneTooMany
  <2> DEFINE u == SubSeq(Seg, 1, 1)
  <2>1. IsParam(Seg) /\ Tests[2] = 0
    BY <1>6 DEF BadParam, TakenName, OneTooMany
  <2> DEFINE m == Len(Seg)
  <2>2. Seg # << >> /\ Seg[1] = "{"
    BY <2>1, Zenon DEF IsParam
  <2>3. 0 < m /\ 0 \in 0..m /\ 1 \in 0..m /\ 1 \in 1..1
    <3>1. m \in Nat /\ m # 0
      <4>1. m # 0
        BY <1>1, <2>2, EmptySeq, Zenon
      <4> QED
        BY <1>1, <4>1
    <3> HIDE DEF m
    <3> QED
      BY ONLY <3>1
  <2>4. u \in Seq(Alphabet) /\ Len(u) = 1 /\ u[1] = Seg[1]
    BY <1>1, <2>3, PrefixIs DEF Agree
  <2> HIDE DEF u
  <2>5. u # << >>
    BY ONLY <2>4
  <2>6. IsParam(u) /\ ~Fine(u)
    <3>1. u[1] = "{" /\ u[Len(u)] = u[1]
      BY <2>2, <2>4, Zenon
    <3> QED
      BY <2>5, <3>1, Zenon DEF IsParam, Fine
  <2>7. Readings(u) = {}
    BY <2>4, <2>6, ReadingsOfParam
  <2>8. Readings(SubSeq(Seg, 1, 0 + 1)) = {}
    BY <2>7 DEF u
  <2> QED
    BY <1>3, <2>1, <2>3, <2>8
<1> QED
  BY <1>2, <1>4, <1>5, <1>6

\* The text before the offset is well formed, the slash left out after which no
\* segment can follow.
LEMMA WellBefore ==
    ASSUME IInv, Refused
    PROVE  WellFormed(SubSeq(text, 1,
               IF error = "RestNotLast" \/ Len(segs) = MaxSegments THEN at - 1 ELSE at))
<1>1. Working /\ Tests[1] # "None" /\ error = Tests[1] /\ at = pos - 1 + Tests[2]
  BY DEF Refused, Offset
<1>2. /\ text \in Seq(Alphabet) /\ pos \in 2..(Len(text) + 1) /\ pos \in 1..(Len(text) + 1)
  BY <1>1 DEF IInv, Working
<1>3. error = "RestNotLast" <=> AfterRest
  BY <1>1, <1>2, RefusedFor
<1>4. CASE NoMore
  <2>1. Tests[2] = 0
    BY <1>1, <1>2, <1>4, RefusedFor DEF EmptyPart, BadByte, BadParam, TakenName, OneTooMany
  <2>2. at - 1 = pos - 2
    BY <1>1, <1>2, <2>1
  <2>3. WellFormed(SubSeq(text, 1, at - 1))
    BY <1>1, <1>4, <2>2, WellBeforeTheSlash
  <2> QED
    BY <1>3, <1>4, <2>3 DEF NoMore
<1>5. CASE ~NoMore
  <2>1. WellFormed(SubSeq(text, 1, at))
    BY <1>1, <1>5, RefusedInside, WellUpToTheByte
  <2> QED
    BY <1>3, <1>5, <2>1 DEF NoMore
<1> QED
  BY <1>4, <1>5

\* With the byte there it is not.
LEMMA WrongWithTheByte ==
    ASSUME IInv, Refused
    PROVE  ~WellFormed(SubSeq(text, 1, IF at = Len(text) THEN at ELSE at + 1))
<1>1. Working /\ Tests[1] # "None" /\ at = pos - 1 + Tests[2]
  BY DEF Refused, Offset
<1>2. /\ text \in Seq(Alphabet) /\ Len(text) \in Nat /\ Len(text) > 1
      /\ pos \in 2..(Len(text) + 1) /\ pos \in 1..(Len(text) + 1)
  BY <1>1 DEF IInv, Working
<1>3. /\ End \in pos..(Len(text) + 1)
      /\ End > Len(text) \/ text[End] = "/"
      /\ Seg \in Seq(Alphabet) /\ Len(Seg) = End - pos
  BY <1>2, SegIsPart
<1>4. CASE NoMore \/ EmptyPart
  <2> DEFINE c == IF at = Len(text) THEN at ELSE at + 1
             s == SubSeq(text, 1, c)
  <2>1. Tests[2] = 0
    BY <1>1, <1>2, <1>4, RefusedFor DEF EmptyPart, BadByte, BadParam, TakenName, OneTooMany
  <2>2. at = pos - 1
    BY <1>1, <1>2, <2>1
  <2>3. c \in 0..Len(text) /\ c > 1 /\ pos - 1 <= c
    BY <1>2, <2>2
  <2>4. s \in Seq(Alphabet) /\ Len(s) = c /\ Agree(s, text, c)
    <3> HIDE DEF c
    <3> QED
      BY <1>2, <2>3, PrefixIs
  <2>5. Agree(s, text, pos - 1)
    <3>1. pos - 1 \in Nat /\ \A i \in 1..(pos - 1) : i \in 1..c
      BY <1>2, <2>3
    <3> HIDE DEF c, s
    <3> QED
      BY <1>2, <2>3, <2>4, <3>1 DEF Agree
  <2>6. CASE NoMore
    <3>1. s # <<"/">>
      <4>1. "/" \in Alphabet
        BY AlphabetAssumption
      <4>2. Len(<<"/">>) = 1
        BY <4>1, ShortTexts, Zenon
      <4>3. c # 1
        BY ONLY <2>3
      <4> HIDE DEF c, s
      <4> QED
        BY <2>4, <4>2, <4>3, Zenon
    <3> HIDE DEF s
    <3>2. ~WellFormed(s)
      BY <1>1, <2>4, <2>5, <2>6, <3>1, NoMoreIsNone
    <3> QED
      BY <3>2 DEF s
  <2>7. CASE EmptyPart
    <3>1. Seg = << >> /\ ~IsLast
      BY <2>7 DEF EmptyPart
    <3>2. End = pos /\ End <= Len(text)
      BY <1>2, <1>3, <3>1 DEF IsLast
    <3>3. c = End /\ c = pos
      BY <1>2, <2>2, <3>2
    <3>4. s[End] = "/"
      <4>1. End \in 1..c
        BY <1>2, <3>3
      <4> HIDE DEF c, s
      <4> QED
        BY <1>2, <1>3, <2>4, <3>2, <4>1 DEF Agree
    <3>5. Agree(s, text, End - 1) /\ ~(Len(s) = End - 1)
      <4> HIDE DEF c, s
      <4>1. End \in Int
        BY <1>2, <3>2
      <4> QED
        BY <2>4, <2>5, <3>2, <3>3, <4>1
    <3> HIDE DEF c, s
    <3>6. ~WellFormed(s)
      BY <1>1, <2>4, <3>4, <3>5, RefusedIsNone
    <3> QED
      BY <3>6 DEF s, c
  <2> QED
    BY <1>4, <2>6, <2>7
<1>5. CASE ~NoMore /\ ~EmptyPart
  <2> DEFINE n == Tests[2] + 1
  <2>1. /\ Tests[2] \in 0..Len(Seg) /\ Tests[2] < Len(Seg)
        /\ Readings(SubSeq(Seg, 1, n)) = {}
    BY <1>1, <1>5, RefusedInside
  <2>2. n \in 1..Len(Seg) /\ at + 1 = pos - 1 + n /\ at # Len(text)
    BY <1>1, <1>2, <1>3, <2>1
  <2> HIDE DEF n
  <2>3. ~WellFormed(SubSeq(text, 1, pos - 1 + n))
    BY <1>1, <2>1, <2>2, UnreadIsNone
  <2> QED
    BY <2>2, <2>3
<1> QED
  BY <1>4, <1>5

\* Nothing is that goes on after the segment the offset is in.
LEMMA WrongAfterwards ==
    ASSUME IInv, Refused, NEW more \in Continuations,
           more # << >> \/ FirstAt(text, "/", at + 1) > Len(text)
    PROVE  ~WellFormed(SubSeq(text, 1, FirstAt(text, "/", at + 1) - 1) \o more)
<1>1. Working /\ Tests[1] # "None" /\ at = pos - 1 + Tests[2]
  BY DEF Refused, Offset
<1>2. /\ text \in Seq(Alphabet) /\ Len(text) \in Nat
      /\ pos \in 2..(Len(text) + 1) /\ pos \in 1..(Len(text) + 1)
  BY <1>1 DEF IInv, Working
<1>3. /\ End \in pos..(Len(text) + 1)
      /\ End > Len(text) \/ text[End] = "/"
      /\ \A k \in pos..(End - 1) : text[k] # "/"
      /\ Seg \in Seq(Alphabet) /\ Len(Seg) = End - pos
  BY <1>2, SegIsPart
<1>4. Tests[2] \in 0..Len(Seg)
  <2>1. CASE NoMore
    <3>1. Tests[2] = 0
      BY <1>1, <1>2, <2>1, RefusedFor DEF EmptyPart, BadByte, BadParam, TakenName, OneTooMany
    <3> QED
      BY <1>2, <1>3, <3>1
  <2>2. CASE ~NoMore
    BY <1>1, <2>2, RefusedInside
  <2> QED
    BY <2>1, <2>2
<1>5. FirstAt(text, "/", at + 1) = End
  <2> DEFINE i == at + 1
  <2>1. i \in 1..(Len(text) + 1) /\ End \in i..(Len(text) + 1) /\ i >= pos
    <3> DEFINE l == Len(text)
               d == Tests[2]
    <3>1. l \in Nat /\ pos \in 2..(l + 1) /\ End \in pos..(l + 1)
      BY <1>2, <1>3
    <3>2. d \in 0..(End - pos)
      BY <1>3, <1>4
    <3>3. i = pos - 1 + d + 1
      BY <1>1
    <3> HIDE DEF i, l, d
    <3>4. i \in 1..(l + 1) /\ End \in i..(l + 1) /\ i >= pos
      BY ONLY <3>1, <3>2, <3>3
    <3> QED
      BY <3>4 DEF l
  <2>2. \A k \in i..(End - 1) : text[k] # "/"
    BY <1>2, <1>3, <2>1
  <2> HIDE DEF i
  <2>3. FirstAt(text, "/", i) = End
    BY <1>2, <1>3, <2>1, <2>2, FirstAtUnique
  <2> QED
    BY <2>3 DEF i
<1> DEFINE c == End - 1
           t == SubSeq(text, 1, c)
           s == t \o more
<1>6. c \in Nat /\ c \in 0..Len(text) /\ c <= Len(text) /\ End = c + 1
  BY <1>2, <1>3
<1> HIDE DEF c
<1>7. t \in Seq(Alphabet) /\ Len(t) = c /\ \A i \in 1..c : t[i] = text[i]
  BY <1>2, <1>6, PrefixIs DEF Agree
<1> HIDE DEF t
<1>8. more \in Seq(Alphabet) /\ Len(more) \in Nat /\ (more # << >> => more[1] = "/")
  BY ContinuationsAssumption
<1>9. /\ s \in Seq(Alphabet) /\ Len(s) = c + Len(more)
      /\ \A i \in 1..c : s[i] = t[i]
      /\ \A i \in 1..Len(more) : s[c + i] = more[i]
  BY <1>6, <1>7, <1>8
<1> HIDE DEF s
<1>10. Agree(s, text, c)
  BY <1>6, <1>7, <1>8, <1>9 DEF Agree
<1>11. IF Len(s) = c THEN IsLast ELSE s[End] = "/"
  <2>1. CASE more = << >>
    <3>1. End > Len(text)
      BY <1>5, <2>1
    <3>2. Len(more) = 0
      BY <2>1, EmptySeq, Zenon
    <3>3. Len(s) = c
      BY <1>6, <1>9, <3>2
    <3> QED
      BY <3>1, <3>3 DEF IsLast
  <2>2. CASE more # << >>
    <3>1. Len(more) # 0
      BY <1>8, <2>2, EmptySeq, Zenon
    <3>2. 1 \in 1..Len(more) /\ Len(s) # c
      BY <1>6, <1>8, <1>9, <3>1
    <3>3. s[c + 1] = more[1]
      BY <1>9, <3>2
    <3> QED
      BY <1>6, <1>8, <2>2, <3>2, <3>3
  <2> QED
    BY <2>1, <2>2
<1>12. ~WellFormed(s)
  BY <1>1, <1>9, <1>10, <1>11, RefusedIsNone DEF c
<1> QED
  BY <1>5, <1>12 DEF s, t, c

\* "The result names the first error and the byte offset at which the text
\* stopped being well formed" (pattern.hpp:147-148), for every text.
THEOREM OffsetIsRight == Spec => []OffsetMarksTheEnd
<1>1. IInv /\ Parse => OffsetMarksTheEnd
  <2> SUFFICES ASSUME IInv, Parse, pc = "done", error \notin {"None", "NoLeadingSlash"}
               PROVE  OffsetMarksTheEnd
    BY DEF OffsetMarksTheEnd
  <2>1. Refused
    BY DEF Parse
  <2> QED
    BY <2>1, WellBefore, WrongWithTheByte, WrongAfterwards DEF OffsetMarksTheEnd
<1> QED
  BY <1>1, ParseInvariance, PTL
=============================================================================

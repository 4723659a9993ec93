------------------------- MODULE RouteLookup_proofs -------------------------
(***************************************************************************)
(* Proofs about one caller's lookups, for every table, every sequence of   *)
(* requests and whatever the arrays hold from the requests before.  What   *)
(* is proved of a walk on its own (RouteWalk_proofs) is taken over for the *)
(* walks of a lookup, and what is proved of a lookup for the call of the   *)
(* handler it found (RouteDispatch).                                       *)
(***************************************************************************)
EXTENDS RouteDispatch, Numbers_proofs, FiniteSetTheorems, SequenceTheorems

\* The array a walk under way writes to: its caller's.
Array == IF target = method THEN params ELSE scratch

\* The walk of the lookup, with all that is proved of it.
Run == INSTANCE RouteWalk_proofs WITH values <- Array, pc <- wpc

-----------------------------------------------------------------------------
(* The walk's notions are those of the lookup.                             *)

\* The size of a set and the parameters of a pattern.
LEMMA CountsSame ==
    /\ \A p : Run!ParamIndices(p) = ParamIndices(p)
    /\ \A S : Run!Cardinality(S) = Cardinality(S)
    /\ \A p : Run!NumParams(p) = NumParams(p)
<1>1. \A p : Run!ParamIndices(p) = ParamIndices(p)
  BY DEF Run!ParamIndices, ParamIndices
<1>2. \A S : Run!Cardinality(S) = Cardinality(S)
  BY DEF Run!Cardinality, Cardinality
<1>3. \A p : Run!NumParams(p) = NumParams(p)
  BY <1>1, <1>2 DEF Run!NumParams, NumParams
<1> QED
  BY <1>1, <1>2, <1>3

\* A well-formed trie is one for the walk.
LEMMA TriesSame ==
    /\ \A r \in Roots : Run!TrieOK(TrieAt[r])
    /\ \A p \in Paths : p \in Seq(Texts \cup {Run!Empty}) /\ Run!IsPath(p)
<1>1. \A n : Run!Branches(n) = Branches(n)
  BY CountsSame DEF Run!Branches, Branches, Run!Kinds, Kinds
<1>2. Run!Segments = Segments /\ Run!Kinds = Kinds /\ Run!Empty = Empty
  BY DEF Run!Segments, Segments, Run!Kinds, Kinds, Run!Empty, Empty
<1>3. \A x : Run!Lit(x) = Lit(x) /\ Run!Key(x) = Key(x)
  BY <1>2 DEF Run!Lit, Lit, Run!Key, Key
<1>4. \A t : Run!Nodes(t) = Nodes(t)
  BY DEF Run!Nodes, Nodes
<1>5. \A n : Run!Children(n) = Children(n)
  BY <1>2 DEF Run!Children, Children
<1>6. ASSUME NEW t, NEW id, NodeOK(t, id)
      PROVE  Run!NodeOK(t, id)
  <2>1. /\ DOMAIN t.node[id].lit \subseteq Texts \cup {Run!Empty}
        /\ t.node[id].rest # None => t.node[t.node[id].rest].route # None
        /\ t.node[id].branches = Run!Branches(t.node[id])
    BY <1>1, <1>2, <1>6 DEF NodeOK
  <2>2. ASSUME NEW x \in DOMAIN t.node[id].lit
        PROVE  /\ t.node[id].lit[x] \in Run!Nodes(t)
               /\ t.pre[t.node[id].lit[x]] = Append(t.pre[id], Run!Lit(x))
    BY <1>3, <1>4, <1>6 DEF NodeOK
  <2>3. ASSUME NEW k \in Run!Kinds \ {"literal"}, t.node[id][k] # None
        PROVE  /\ t.node[id][k] \in Run!Nodes(t)
               /\ t.pre[t.node[id][k]]
                      = Append(t.pre[id], [kind |-> k, text |-> Run!Empty])
    BY <1>2, <1>4, <1>6, <2>3 DEF NodeOK
  <2> QED
    BY <2>1, <2>2, <2>3 DEF Run!NodeOK
<1>7. \A pre : PrefixOK(pre) => Run!PrefixOK(pre)
  BY <1>3, CountsSame DEF Run!PrefixOK, PrefixOK
<1>8. \A t : NoneLost(t) => Run!NoneLost(t)
  BY <1>4, <1>5 DEF Run!NoneLost, NoneLost
<1>9. \A t : TrieOK(t) => Run!TrieOK(t)
  BY <1>2, <1>4, <1>6, <1>7, <1>8 DEF Run!TrieOK, TrieOK
<1>10. \A p \in Paths : p \in Seq(Texts \cup {Run!Empty}) /\ Run!IsPath(p)
  BY <1>2, PathsAssumption DEF Run!IsPath, IsPath
<1> QED
  BY <1>9, <1>10, TriesAssumption



\* What a walk reads of the trie and the path is the same on any array.
LEMMA ReadsSame ==
    ASSUME NEW v
    PROVE  /\ Walk(v)!trie = Run!trie /\ Walk(v)!Here = Run!Here
           /\ Walk(v)!AtEnd <=> Run!AtEnd
           /\ Walk(v)!Seg = Run!Seg
           /\ Walk(v)!OtherKinds <=> Run!OtherKinds
           /\ Walk(v)!Walking <=> Run!Walking
           /\ Walk(v)!Top = Run!Top
           /\ Walk(v)!Below = Run!Below
           /\ \A s : Walk(v)!Choice(s) = Run!Choice(s)
  BY DEF Walk!trie, Walk!Here, Walk!AtEnd, Walk!Seg, Walk!OtherKinds, Walk!Walking,
         Walk!Top, Walk!Below, Walk!Choice, Run!trie, Run!Here, Run!AtEnd, Run!Seg,
         Run!OtherKinds, Run!Walking, Run!Top, Run!Below, Run!Choice

\* So are the conditions under which it takes each step.
LEMMA GuardsSame ==
    ASSUME NEW v
    PROVE  /\ Walk(v)!Ends <=> Run!Ends
           /\ Walk(v)!ToLiteral <=> Run!ToLiteral
           /\ Walk(v)!ToU64 <=> Run!ToU64
           /\ Walk(v)!ToI64 <=> Run!ToI64
           /\ Walk(v)!ToParam <=> Run!ToParam
           /\ Walk(v)!ToRest <=> Run!ToRest
           /\ Walk(v)!Nothing <=> Run!Nothing
<1>1. Walk(v)!Ends <=> Run!Ends
  BY ReadsSame DEF Walk!Ends, Run!Ends
<1>2. Walk(v)!ToLiteral <=> Run!ToLiteral
  BY ReadsSame DEF Walk!ToLiteral, Run!ToLiteral
<1>3. Walk(v)!TakesParam <=> Run!TakesParam
  BY ReadsSame DEF Walk!TakesParam, Run!TakesParam, Walk!Empty, Run!Empty
<1>4. Walk(v)!ToU64 <=> Run!ToU64
  BY <1>3, ReadsSame DEF Walk!ToU64, Run!ToU64
<1>5. Walk(v)!ToI64 <=> Run!ToI64
  BY <1>3, ReadsSame DEF Walk!ToI64, Run!ToI64
<1>6. Walk(v)!ToParam <=> Run!ToParam
  BY <1>3, ReadsSame DEF Walk!ToParam, Run!ToParam
<1>7. Walk(v)!ToRest <=> Run!ToRest
  BY ReadsSame 
  DEF Walk!ToRest, Run!ToRest, Walk!NothingFrom, Run!NothingFrom, Walk!Empty, Run!Empty
<1>8. Walk(v)!Nothing <=> Run!Nothing
  BY <1>1, <1>2, <1>4, <1>5, <1>6, <1>7 DEF Walk!Nothing, Run!Nothing
<1> QED
  BY <1>1, <1>2, <1>4, <1>5, <1>6, <1>7, <1>8

\* A step of the walk on its caller's array is one of the walk proved about.
LEMMA StepsSame ==
    ASSUME target' = target, method' = method,
           \/ target = method /\ Walk(params)!Next
           \/ target # method /\ Walk(scratch)!Next
    PROVE  Run!Next
<1> USE ReadsSame, GuardsSame
    DEF Walk!Finish, Walk!Literal, Walk!U64, Walk!I64, Walk!Param, Walk!Rest,
        Walk!Backtrack, Walk!Fail, Walk!Return, Walk!Descend, Walk!Capture,
        Run!Finish, Run!Literal, Run!U64, Run!I64, Run!Param, Run!Rest,
        Run!Backtrack, Run!Fail, Run!Return, Run!Descend, Run!Capture
<1>1. CASE target = method /\ Walk(params)!Next
  <2>1. Array = params /\ Array' = params'
    BY <1>1 DEF Array
  <2>2. CASE Walk(params)!Finish \/ Walk(params)!Fail \/ Walk(params)!Rest
    BY <2>1, <2>2 DEF Run!Next
  <2>3. CASE Walk(params)!Literal
    BY <2>1, <2>3 DEF Run!Next
  <2>4. CASE Walk(params)!U64
    BY <2>1, <2>4 DEF Run!Next
  <2>5. CASE Walk(params)!I64
    BY <2>1, <2>5 DEF Run!Next
  <2>6. CASE Walk(params)!Param
    BY <2>1, <2>6 DEF Run!Next
  <2>7. CASE Walk(params)!Backtrack
    BY <2>1, <2>7 DEF Run!Next
  <2> QED
    BY <1>1, <2>2, <2>3, <2>4, <2>5, <2>6, <2>7 DEF Walk!Next
<1>2. CASE target # method /\ Walk(scratch)!Next
  <2>1. Array = scratch /\ Array' = scratch'
    BY <1>2 DEF Array
  <2>2. CASE Walk(scratch)!Finish \/ Walk(scratch)!Fail \/ Walk(scratch)!Rest
    BY <2>1, <2>2 DEF Run!Next
  <2>3. CASE Walk(scratch)!Literal
    BY <2>1, <2>3 DEF Run!Next
  <2>4. CASE Walk(scratch)!U64
    BY <2>1, <2>4 DEF Run!Next
  <2>5. CASE Walk(scratch)!I64
    BY <2>1, <2>5 DEF Run!Next
  <2>6. CASE Walk(scratch)!Param
    BY <2>1, <2>6 DEF Run!Next
  <2>7. CASE Walk(scratch)!Backtrack
    BY <2>1, <2>7 DEF Run!Next
  <2> QED
    BY <1>2, <2>2, <2>3, <2>4, <2>5, <2>6, <2>7 DEF Walk!Next
<1> QED
  BY <1>1, <1>2

-----------------------------------------------------------------------------
(* Patterns and their keys.                                                *)

\* Names apart, a segment matches what its key does.
LEMMA KeyMatches ==
    ASSUME NEW s \in Segments, NEW x
    PROVE  /\ Key(s).kind = s.kind
           /\ Key(Key(s)) = Key(s)
           /\ SegMatches(Key(s), x) <=> SegMatches(s, x)
<1>1. Key(s).kind = s.kind /\ Key(Key(s)) = Key(s)
  BY DEF Key, Segments
<1>2. s.kind = "literal" => Key(s) = s
  BY DEF Key
<1>3. CASE s.kind = "literal"
  BY <1>1, <1>2, <1>3
<1>4. CASE s.kind # "literal"
  <2>1. Key(s).kind = s.kind /\ s.kind # "literal" /\ Key(s).kind # "literal"
    BY <1>1, <1>4
  <2> QED
    BY <1>1, <2>1, Zenon DEF SegMatches
<1> QED
  BY <1>1, <1>3, <1>4

\* A pattern's keys are as long, with the same kinds of segment.
LEMMA KeysAre ==
    ASSUME NEW p \in Seq(Segments)
    PROVE  /\ Keys(p) \in Seq(Segments)
           /\ Len(Keys(p)) = Len(p)
           /\ \A i \in 1..Len(p) :
                  /\ p[i] \in Segments
                  /\ Keys(p)[i] = Key(p[i])
                  /\ Keys(p)[i].kind = p[i].kind
           /\ ParamIndices(Keys(p)) = ParamIndices(p)
           /\ Keys(p) = << >> <=> p = << >>
<1>1. Len(p) \in Nat
  OBVIOUS
<1>2. \A i \in 1..Len(p) : p[i] \in Segments /\ Key(p[i]) \in Segments
  <2> SUFFICES ASSUME NEW i \in 1..Len(p) PROVE p[i] \in Segments /\ Key(p[i]) \in Segments
    OBVIOUS
  <2>1. p[i] \in Segments
    OBVIOUS
  <2> QED
    BY <2>1 DEF Segments, Key, Kinds
<1>3. Keys(p) \in Seq(Segments) /\ Len(Keys(p)) = Len(p)
  BY <1>1, <1>2 DEF Keys
<1>4. \A i \in 1..Len(p) : Keys(p)[i] = Key(p[i])
  BY DEF Keys
<1>5. \A i \in 1..Len(p) : Keys(p)[i].kind = p[i].kind
  BY <1>2, <1>4, KeyMatches
<1>6. ParamIndices(Keys(p)) = ParamIndices(p)
  BY <1>3, <1>5 DEF ParamIndices
<1> QED
  BY <1>1, <1>2, <1>3, <1>4, <1>5, <1>6

\* Every capture of a pattern has a parameter it is the capture of.
LEMMA PlacesFilled ==
    ASSUME NEW p \in Seq(Segments), NEW n \in 1..NumParams(p)
    PROVE  \E i \in ParamIndices(p) : ParamPlace(p, i) = n
<1>1. p \in Seq(Run!Segments)
  BY DEF Segments, Run!Segments, Kinds, Run!Kinds, Empty, Run!Empty
<1>2. Run!PlacesFilled(p)
  BY <1>1, Run!AllPlacesFilled, TextsAssumption, LimitsAssumption, TriesSame
<1>3. \A i : Run!ParamPlace(p, i) = ParamPlace(p, i)
  BY CountsSame DEF Run!ParamPlace, ParamPlace
<1> QED
  BY <1>2, <1>3, CountsSame DEF Run!PlacesFilled

\* Hence a pattern and its keys match the same paths and capture the same.
LEMMA KeysMatch ==
    ASSUME NEW p \in Seq(Segments), NEW w
    PROVE  /\ Matches(Keys(p), w) <=> Matches(p, w)
           /\ Captures(Keys(p), w) = Captures(p, w)
<1> DEFINE k == Keys(p)
<1>1. /\ k \in Seq(Segments) /\ Len(k) = Len(p) /\ Len(p) \in Nat
      /\ \A i \in 1..Len(p) : p[i] \in Segments /\ k[i] = Key(p[i]) /\ k[i].kind = p[i].kind
      /\ ParamIndices(k) = ParamIndices(p)
      /\ k = << >> <=> p = << >>
  BY KeysAre
<1> HIDE DEF k
<1>2. EndsInRest(k) <=> EndsInRest(p)
  <2>1. p # << >> => Len(p) \in 1..Len(p)
    BY <1>1
  <2> QED
    BY <1>1, <2>1 DEF EndsInRest
<1>3. \A i \in 1..Len(p) : \A x : SegMatches(k[i], x) <=> SegMatches(p[i], x)
  BY <1>1, KeyMatches
<1>4. Matches(k, w) <=> Matches(p, w)
  <2>1. \A i \in 1..(Len(p) - 1) : i \in 1..Len(p)
    BY <1>1
  <2>2. CASE EndsInRest(p)
    BY <1>1, <1>2, <1>3, <2>1, <2>2 DEF Matches
  <2>3. CASE ~EndsInRest(p)
    BY <1>1, <1>2, <1>3, <2>3 DEF Matches
  <2> QED
    BY <2>2, <2>3
<1>5. Captures(k, w) = Captures(p, w)
  <2>1. NumParams(k) = NumParams(p)
    BY <1>1 DEF NumParams
  <2>2. \A i : ParamPlace(k, i) = ParamPlace(p, i)
    BY <1>1 DEF ParamPlace
  <2>3. \A i \in ParamIndices(p) : CaptureAt(k, w, i) = CaptureAt(p, w, i)
    BY <1>1 DEF CaptureAt, ParamIndices
  <2> DEFINE At(n) == CHOOSE i \in ParamIndices(p) : ParamPlace(p, i) = n
             KAt(n) == CHOOSE i \in ParamIndices(k) : ParamPlace(k, i) = n
  <2>4. \A n : KAt(n) = At(n)
    BY <1>1, <2>2
  <2>5. \A n \in 1..NumParams(p) : At(n) \in ParamIndices(p)
    BY PlacesFilled
  <2>6. /\ Captures(k, w) = [n \in 1..NumParams(k) |-> CaptureAt(k, w, KAt(n))]
        /\ Captures(p, w) = [n \in 1..NumParams(p) |-> CaptureAt(p, w, At(n))]
    BY DEF Captures
  <2> HIDE DEF At, KAt
  <2>7. \A n \in 1..NumParams(p) : CaptureAt(k, w, KAt(n)) = CaptureAt(p, w, At(n))
    BY <2>3, <2>4, <2>5
  <2> QED
    BY <2>1, <2>6, <2>7
<1> QED
  BY <1>4, <1>5 DEF k
\* So are which of two patterns is the more specific.
LEMMA KeysSpecific ==
    ASSUME NEW p \in Seq(Segments), NEW q \in Seq(Segments)
    PROVE  MoreSpecific(Keys(p), Keys(q)) <=> MoreSpecific(p, q)
<1> DEFINE k == Keys(p)
           l == Keys(q)
<1>1. /\ Len(k) = Len(p) /\ Len(p) \in Nat
      /\ \A i \in 1..Len(p) : p[i] \in Segments /\ k[i] = Key(p[i]) /\ k[i].kind = p[i].kind
      /\ Len(l) = Len(q) /\ Len(q) \in Nat
      /\ \A i \in 1..Len(q) : q[i] \in Segments /\ l[i] = Key(q[i]) /\ l[i].kind = q[i].kind
  BY KeysAre
<1> HIDE DEF k, l
<1>2. \A i : i \in 1..Len(p) /\ i \in 1..Len(q) =>
          (SameSeg(k[i], l[i]) <=> SameSeg(p[i], q[i]))
  BY <1>1, KeyMatches DEF SameSeg
<1>3. \A i \in 1..Len(p) : i <= Len(q) =>
          /\ i \in 1..Len(q)
          /\ \A j \in 1..(i - 1) : j \in 1..Len(p) /\ j \in 1..Len(q)
  BY <1>1
<1>4. MoreSpecific(k, l) <=>
          \E i \in 1..Len(p) :
              /\ i <= Len(q)
              /\ Rank[p[i].kind] < Rank[q[i].kind]
              /\ \A j \in 1..(i - 1) : SameSeg(k[j], l[j])
  BY <1>1, <1>3 DEF MoreSpecific
<1> QED
  BY <1>2, <1>3, <1>4 DEF MoreSpecific, k, l

\* The walk's notions of matching, as above, and its routes.
LEMMA MatchingSame ==
    /\ \A p, w : Run!Matches(p, w) <=> Matches(p, w)
    /\ \A p, q : Run!MoreSpecific(p, q) <=> MoreSpecific(p, q)
    /\ \A p, w : Run!Captures(p, w) = Captures(p, w)
    /\ \A r \in Roots : Run!RoutesAt[r] = RoutesOf(TrieAt[r])
<1>1. ASSUME NEW p, NEW w
      PROVE  Run!Matches(p, w) <=> Matches(p, w)
  BY DEF Run!Matches, Run!EndsInRest, Run!NothingFrom, Run!SegMatches, Run!Empty,
         Matches, EndsInRest, NothingFrom, SegMatches, Empty
<1>2. ASSUME NEW p, NEW q
      PROVE  Run!MoreSpecific(p, q) <=> MoreSpecific(p, q)
  BY DEF Run!MoreSpecific, Run!SameSeg, Run!Key, Run!Rank, Run!Empty,
         MoreSpecific, SameSeg, Key, Rank, Empty
<1>3. ASSUME NEW p, NEW w
      PROVE  Run!Captures(p, w) = Captures(p, w)
  <2>1. Run!ParamIndices(p) = ParamIndices(p) /\ Run!NumParams(p) = NumParams(p)
    BY CountsSame
  <2>2. \A i : Run!ParamPlace(p, i) = ParamPlace(p, i)
    BY CountsSame DEF Run!ParamPlace, ParamPlace
  <2>3. \A i : Run!CaptureAt(p, w, i) = CaptureAt(p, w, i)
    BY DEF Run!CaptureAt, CaptureAt
  <2>4. ASSUME NEW n
        PROVE  (CHOOSE i \in Run!ParamIndices(p) : Run!ParamPlace(p, i) = n)
                   = (CHOOSE i \in ParamIndices(p) : ParamPlace(p, i) = n)
    BY <2>1, <2>2
  <2> QED
    BY <2>1, <2>3, <2>4 DEF Run!Captures, Captures
<1>4. \A t : Run!RoutesOf(t) = RoutesOf(t)
  BY DEF Run!RoutesOf, RoutesOf, Run!Nodes, Nodes
<1> QED
  BY <1>1, <1>2, <1>3, <1>4 DEF Run!RoutesAt

\* So are those of the service.
LEMMA ServiceSame ==
    /\ \A p, w : Service!Matches(p, w) <=> Matches(p, w)
    /\ \A p, q : Service!MoreSpecific(p, q) <=> MoreSpecific(p, q)
    /\ \A p, w : Service!Captures(p, w) = Captures(p, w)
    /\ \A p : Service!Keys(p) = Keys(p)
<1>1. ASSUME NEW p, NEW w
      PROVE  Service!Matches(p, w) <=> Matches(p, w)
  BY DEF Service!Matches, Service!EndsInRest, Service!NothingFrom, Service!SegMatches,
         Service!Empty, Matches, EndsInRest, NothingFrom, SegMatches, Empty
<1>2. ASSUME NEW p, NEW q
      PROVE  Service!MoreSpecific(p, q) <=> MoreSpecific(p, q)
  BY DEF Service!MoreSpecific, Service!SameSeg, Service!Key, Service!Rank, Service!Empty,
         MoreSpecific, SameSeg, Key, Rank, Empty
<1>3. ASSUME NEW p, NEW w
      PROVE  Service!Captures(p, w) = Captures(p, w)
  <2>0. \A S : Service!Cardinality(S) = Cardinality(S)
    BY DEF Service!Cardinality, Cardinality
  <2>1. Service!ParamIndices(p) = ParamIndices(p)
    BY DEF Service!ParamIndices, ParamIndices
  <2>2. Service!NumParams(p) = NumParams(p)
    BY <2>0, <2>1 DEF Service!NumParams, NumParams
  <2>3. \A i : Service!ParamPlace(p, i) = ParamPlace(p, i)
    BY <2>0, <2>1 DEF Service!ParamPlace, ParamPlace
  <2>4. \A i : Service!CaptureAt(p, w, i) = CaptureAt(p, w, i)
    BY DEF Service!CaptureAt, CaptureAt
  <2>5. \A n : (CHOOSE i \in Service!ParamIndices(p) : Service!ParamPlace(p, i) = n)
                   = (CHOOSE i \in ParamIndices(p) : ParamPlace(p, i) = n)
    BY <2>1, <2>3
  <2> QED
    BY <2>2, <2>4, <2>5 DEF Service!Captures, Captures
<1>4. \A p : Service!Keys(p) = Keys(p)
  BY DEF Service!Keys, Keys, Service!Key, Key, Service!Empty, Empty
<1> QED
  BY <1>1, <1>2, <1>3, <1>4

-----------------------------------------------------------------------------
(* The right answer for one method.                                        *)

\* Of the routes rs, that of a pattern more specific than every other that
\* matches with its captures, or none when no pattern matches.
RightOf(rs, w, route, caps) ==
    \/ \E p \in DOMAIN rs :
           /\ Matches(p, w)
           /\ \A q \in DOMAIN rs : Matches(q, w) /\ q # p => MoreSpecific(p, q)
           /\ route = rs[p]
           /\ caps = Captures(p, w)
    \/ /\ \A p \in DOMAIN rs : ~Matches(p, w)
       /\ route = None
       /\ caps = << >>

\* What the build promises of the routes of a method.
LEMMA RoutesAre ==
    ASSUME NEW t \in Tables, NEW o \in Methods
    PROVE  /\ \A p \in DOMAIN RoutesIn[t][o] :
                  p \in Seq(Segments) /\ RoutesIn[t][o][p] # None
           /\ \A p, q \in DOMAIN RoutesIn[t][o] : Keys(p) = Keys(q) => p = q
           /\ \A p \in DOMAIN RoutesIn[t][o] :
                  ~IsLiteral(p) =>
                      /\ <<t, o>> \in Roots
                      /\ RoutesOf(TrieAt[<<t, o>>]) = ByKeys(RoutesIn[t][o])
  BY BuildAssumption DEF IsPattern

\* The walk's right answer, on the trie the build made, is that of the routes.
LEMMA TrieRight ==
    ASSUME NEW t \in Tables, NEW o \in Methods, NEW w, NEW route, NEW caps,
           <<t, o>> \in Roots,
           RoutesOf(TrieAt[<<t, o>>]) = ByKeys(RoutesIn[t][o]),
           Run!RightFor(<<t, o>>, w, route, caps)
    PROVE  RightOf(RoutesIn[t][o], w, route, caps)
<1> DEFINE rs == RoutesIn[t][o]
           r == <<t, o>>
<1>1. /\ \A p \in DOMAIN rs : p \in Seq(Segments) /\ rs[p] # None
      /\ \A p, q \in DOMAIN rs : Keys(p) = Keys(q) => p = q
  BY RoutesAre
<1>2. Run!RoutesAt[r] = ByKeys(rs)
  BY MatchingSame
<1> HIDE DEF rs, r
<1>3. /\ DOMAIN ByKeys(rs) = {Keys(p) : p \in DOMAIN rs}
      /\ \A p \in DOMAIN rs : ByKeys(rs)[Keys(p)] = rs[p]
  <2>1. \A p \in DOMAIN rs : (CHOOSE q \in DOMAIN rs : Keys(q) = Keys(p)) = p
    BY <1>1
  <2>2. DOMAIN ByKeys(rs) = {Keys(p) : p \in DOMAIN rs}
    BY DEF ByKeys
  <2>3. \A k \in {Keys(p) : p \in DOMAIN rs} :
            ByKeys(rs)[k] = rs[CHOOSE q \in DOMAIN rs : Keys(q) = k]
    BY DEF ByKeys
  <2> QED
    BY <2>1, <2>2, <2>3
<1>4. \A k : Run!Candidate(r, w, k) <=> \E p \in DOMAIN rs : k = Keys(p) /\ Matches(p, w)
  <2>1. \A p \in DOMAIN rs : Matches(Keys(p), w) <=> Matches(p, w)
    BY <1>1, KeysMatch
  <2>2. \A k : Run!Candidate(r, w, k) <=> k \in DOMAIN ByKeys(rs) /\ Matches(k, w)
    BY <1>2, MatchingSame DEF Run!Candidate
  <2> QED
    BY <1>3, <2>1, <2>2
<1>5. CASE \A k : ~Run!Candidate(r, w, k)
  <2>1. route = None /\ caps = << >>
    BY <1>5 DEF Run!RightFor, r
  <2>2. \A p \in DOMAIN rs : ~Matches(p, w)
    BY <1>4, <1>5
  <2> QED
    BY <2>1, <2>2 DEF RightOf, rs
<1>6. CASE \E k : Run!Candidate(r, w, k)
  <2>1. PICK b : /\ Run!Candidate(r, w, b)
                 /\ \A q : Run!Candidate(r, w, q) /\ q # b => Run!MoreSpecific(b, q)
                 /\ route = Run!RoutesAt[r][b]
                 /\ caps = Run!Captures(b, w)
    BY <1>6 DEF Run!RightFor, r
  <2>2. PICK p \in DOMAIN rs : b = Keys(p) /\ Matches(p, w)
    BY <1>4, <2>1
  <2>3. ASSUME NEW q \in DOMAIN rs, Matches(q, w), q # p
        PROVE  MoreSpecific(p, q)
    <3>1. Run!Candidate(r, w, Keys(q)) /\ Keys(q) # b
      BY <1>1, <1>4, <2>2, <2>3
    <3>2. MoreSpecific(Keys(p), Keys(q))
      BY <2>1, <2>2, <3>1, MatchingSame
    <3> QED
      BY <1>1, <3>2, KeysSpecific
  <2>4. route = rs[p]
    BY <1>2, <1>3, <2>1, <2>2
  <2>5. caps = Captures(p, w)
    BY <1>1, <2>1, <2>2, KeysMatch, MatchingSame
  <2> QED
    BY <2>2, <2>3, <2>4, <2>5 DEF RightOf, rs
<1> QED
  BY <1>5, <1>6

\* Two literal patterns that match one path are one.
LEMMA OneLiteral ==
    ASSUME NEW p \in Seq(Segments), NEW q \in Seq(Segments), NEW w,
           IsLiteral(p), IsLiteral(q), Matches(p, w), Matches(q, w)
    PROVE  p = q
<1>1. ASSUME NEW r \in Seq(Segments), IsLiteral(r), Matches(r, w)
      PROVE  /\ Len(r) = Len(w) /\ Len(r) \in Nat
             /\ \A i \in 1..Len(r) : r[i] = Lit(w[i])
  <2>1. \A i \in 1..Len(r) : r[i] \in Segments /\ r[i].kind = "literal"
    BY <1>1 DEF IsLiteral, ParamIndices
  <2>2. ~EndsInRest(r)
    <3>1. r # << >> => Len(r) \in 1..Len(r)
      BY <1>1
    <3> QED
      BY <2>1, <3>1 DEF EndsInRest
  <2>3. Len(r) = Len(w) /\ \A i \in 1..Len(r) : SegMatches(r[i], w[i])
    BY <1>1, <2>2 DEF Matches
  <2>4. \A i \in 1..Len(r) : w[i] = r[i].text
    BY <2>1, <2>3, Zenon DEF SegMatches
  <2> QED
    BY <1>1, <2>1, <2>3, <2>4 DEF Segments, Lit
<1>2. Len(p) = Len(q) /\ \A i \in 1..Len(p) : p[i] = q[i]
  BY <1>1
<1> QED
  BY <1>2, SeqEqual

\* The exact-match table, or the lack of a trie, answers right.
LEMMA ExactRight ==
    ASSUME table \in Tables, NEW o \in Methods, FindLiteral(o) # None \/ ~HasTrie(o)
    PROVE  RightOf(routes[o], path, FindLiteral(o), << >>)
<1> DEFINE rs == routes[o]
           hits == {p \in DOMAIN rs : Matches(p, path)}
           f == CHOOSE p \in hits : TRUE
<1>1. \A p \in DOMAIN rs : p \in Seq(Segments) /\ rs[p] # None
  BY RoutesAre DEF routes
<1>2. IsExact(o) /\ \A p \in DOMAIN rs : IsLiteral(p)
  BY DEF FindLiteral, HasTrie, MethodsIn, IsExact
<1>3. CASE hits = {}
  BY <1>3 DEF FindLiteral, RightOf
<1>4. CASE hits # {}
  <2>1. f \in DOMAIN rs /\ Matches(f, path) /\ FindLiteral(o) = rs[f]
    BY <1>2, <1>4 DEF FindLiteral
  <2> HIDE DEF f
  <2>2. \A q \in DOMAIN rs : Matches(q, path) => q = f
    BY <1>1, <1>2, <2>1, OneLiteral
  <2>3. Captures(f, path) = << >>
    <3>1. NumParams(f) = 0
      BY <1>2, <2>1, FS_EmptySet DEF IsLiteral, NumParams
    <3> QED
      BY <3>1 DEF Captures
  <2> QED
    BY <2>1, <2>2, <2>3 DEF RightOf
<1> QED
  BY <1>3, <1>4

\* The right answer is what the service promises of the method.
LEMMA ServiceRight ==
    ASSUME table \in Tables, NEW o \in Methods, NEW w, NEW route, NEW caps,
           RightOf(routes[o], w, route, caps)
    PROVE  /\ Service!Finds(routes, o, w) <=> route # None
           /\ route # None =>
                  LET best == Service!Best(DOMAIN routes[o], w)
                  IN  /\ best \in DOMAIN routes[o]
                      /\ route = routes[o][best]
                      /\ caps = Service!Captures(best, w)
<1> DEFINE rs == routes[o]
           P == DOMAIN rs
           IsBest(p) ==
               /\ Matches(p, w)
               /\ \A q \in P : Matches(q, w) /\ Keys(q) # Keys(p) => MoreSpecific(p, q)
<1>1. /\ \A p \in P : p \in Seq(Segments) /\ rs[p] # None
      /\ \A p, q \in P : Keys(p) = Keys(q) => p = q
  BY RoutesAre DEF routes
<1>2. Service!Finds(routes, o, w) <=> \E p \in P : Matches(p, w)
  BY ServiceSame DEF Service!Finds, Service!Found
<1>3. Service!Best(P, w) = CHOOSE p \in P : IsBest(p)
  <2>1. \A p : IsBest(p) <=>
            /\ Service!Matches(p, w)
            /\ \A q \in P : Service!Matches(q, w) /\ Service!Keys(q) # Service!Keys(p)
                                => Service!MoreSpecific(p, q)
    BY ServiceSame
  <2> HIDE DEF IsBest, P
  <2> QED
    BY <2>1 DEF Service!Best
<1>4. CASE \A p \in P : ~Matches(p, w)
  BY <1>2, <1>4 DEF RightOf
<1>5. CASE \E p \in P : Matches(p, w)
  <2>1. PICK b \in P : /\ Matches(b, w)
                       /\ \A q \in P : Matches(q, w) /\ q # b => MoreSpecific(b, q)
                       /\ route = rs[b]
                       /\ caps = Captures(b, w)
    BY <1>5 DEF RightOf
  <2>2. IsBest(b)
    BY <2>1
  <2>3. ASSUME NEW c \in P, IsBest(c)
        PROVE  c = b
    <3> SUFFICES ASSUME c # b PROVE FALSE
      OBVIOUS
    <3>1. MoreSpecific(b, c) /\ MoreSpecific(c, b)
      BY <1>1, <2>1, <2>3
    <3>2. b \in Seq(Run!Segments) /\ c \in Seq(Run!Segments)
      BY <1>1 DEF Segments, Run!Segments, Kinds, Run!Kinds, Empty, Run!Empty
    <3> QED
      BY <3>1, <3>2, MatchingSame, Run!OneMoreSpecific, TextsAssumption,
         LimitsAssumption, TriesSame
  <2> HIDE DEF IsBest
  <2>4. Service!Best(P, w) = b
    BY <1>3, <2>2, <2>3
  <2> QED
    BY <1>1, <1>2, <1>5, <2>1, <2>4, ServiceSame
<1> QED
  BY <1>4, <1>5

-----------------------------------------------------------------------------
(* The inductive invariant.                                                *)

\* An array that may hold any captures of the requests before.
Arrays == [1..MaxParams -> {Stale} \cup (Nat \X Nat)]

Types ==
    /\ table \in Tables
    /\ method \in Methods \cup {BadMethod}
    /\ path \in Paths \cup {BadPath}
    /\ m \in [status : {"NotFound", "Found", "MethodNotAllowed"}, route : RouteValues,
              count : 0..MaxParams, allowed : SUBSET Methods]
    /\ params \in Arrays
    /\ pc \in {"idle", "called", "finding", "walking", "others"}
    /\ target \in Methods
    /\ others \subseteq MethodsIn
    /\ allowed \subseteq MethodsIn
    /\ scratch \in Arrays

\* The 405 search is on.
Searching == pc = "others" \/ (pc \in {"finding", "walking"} /\ target # method)

\* A request is looked up when it can be, into a Match set back; the 405 search
\* begins when the method asked for has no match, and takes each other method
\* once.
Control ==
    /\ pc \in {"finding", "walking", "others"} =>
           method \in Methods /\ path \in Paths /\ m = NoMatch
    /\ pc \in {"finding", "walking"} => target \notin others
    /\ Searching => ~Service!Finds(routes, method, path) /\ method \notin allowed
    /\ ~Searching => others = {} /\ allowed = {}

\* The walk under way is one of the method's trie, and has so far gone right.
WalksRight ==
    pc = "walking" =>
        /\ root = <<table, target>>
        /\ HasTrie(target)
        /\ Run!AnswerInv
        /\ Run!Answered

LookupInv == Types /\ Control /\ AllowedSoFar /\ WalksRight

\* A walk begins well, and goes on so.
LEMMA RunBegins == Run!Begun => Run!AnswerInv
  BY Run!AnswerBegins, TextsAssumption, LimitsAssumption, TriesSame

\* A step of a walk keeps what is true of the lookup around it.
LEMMA RunStep ==
    ASSUME Run!AnswerInv, Run!Answered, Run!Next
    PROVE  Run!AnswerInv' /\ Run!Answered'
<1>1. Run!AnswerInv'
  BY Run!AnswerStep, TextsAssumption, LimitsAssumption, TriesSame
<1>2. Run!Answered'
  BY Run!AnsweredStep, TextsAssumption, LimitsAssumption, TriesSame
<1> QED
  BY <1>1, <1>2

\* A lookup starts with nothing under way.
LEMMA LookupInit == Init => LookupInv
<1> SUFFICES ASSUME Init PROVE LookupInv
  OBVIOUS
<1>1. 0 \in Methods
  BY LookupAssumption DEF Methods
<1>2. Unwritten \in Arrays
  BY DEF Unwritten, Arrays
<1>3. NoMatch \in [status : {"NotFound", "Found", "MethodNotAllowed"},
                   route : RouteValues, count : 0..MaxParams, allowed : SUBSET Methods]
  BY LimitsAssumption DEF NoMatch, RouteValues
<1>4. Types
  BY <1>1, <1>2, <1>3 DEF Init, Types
<1> QED
  BY <1>4 DEF Init, LookupInv, Control, Searching, AllowedSoFar, WalksRight

-----------------------------------------------------------------------------
(* Steps.                                                                  *)

\* What find_in returned is the right answer of the method it was called for.
Returned(route, count) ==
    /\ count \in 0..MaxParams
    /\ RightOf(routes[target], path, route, SubSeq(Array, 1, count))

\* A right answer has a route of the table, or none.
LEMMA RightRoute ==
    ASSUME table \in Tables, NEW o \in Methods, NEW w, NEW route, NEW caps,
           RightOf(routes[o], w, route, caps)
    PROVE  route \in RouteValues
<1>1. CASE route = None
  BY <1>1 DEF RouteValues
<1>2. CASE route # None
  <2> DEFINE Of(t, o1) == {RoutesIn[t][o1][p] : p \in DOMAIN RoutesIn[t][o1]}
  <2>1. route \in Of(table, o)
    BY <1>2 DEF RightOf, routes
  <2>2. Of(table, o) \in {Of(t, o1) : t \in Tables, o1 \in Methods}
    OBVIOUS
  <2>3. RouteValues = {None} \cup UNION {Of(t, o1) : t \in Tables, o1 \in Methods}
    BY DEF RouteValues
  <2> HIDE DEF Of
  <2> QED
    BY <2>1, <2>2, <2>3
<1> QED
  BY <1>1, <1>2

\* A right answer, given to find_into or to the 405 search, keeps the invariant.
LEMMA DeliverStep ==
    ASSUME LookupInv, pc \in {"finding", "walking"}, NEW route, NEW count,
           Returned(route, count), Deliver(route, count),
           UNCHANGED <<table, method, path, params, target, scratch>>
    PROVE  LookupInv'
<1>1. /\ Types /\ Control /\ AllowedSoFar
      /\ target \in Methods /\ table \in Tables /\ method \in Methods /\ path \in Paths
      /\ m = NoMatch /\ routes' = routes /\ MethodsIn' = MethodsIn
  BY DEF LookupInv, Types, Control, routes, MethodsIn
<1>2. /\ route \in RouteValues /\ count \in 0..MaxParams
      /\ Service!Finds(routes, target, path) <=> route # None
  BY <1>1, ServiceRight, RightRoute DEF Returned
<1>3. \A o : Service!Finds(routes, o, path)' <=> Service!Finds(routes, o, path)
  BY <1>1 DEF Service!Finds, Service!Found
<1>4. NoMatch \in [status : {"NotFound", "Found", "MethodNotAllowed"},
                   route : RouteValues, count : 0..MaxParams, allowed : SUBSET Methods]
  BY <1>1 DEF Types
<1>5. CASE target # method
  <2>1. /\ allowed' = IF route # None THEN allowed \cup {target} ELSE allowed
        /\ pc' = "others" /\ m' = m /\ others' = others
    BY <1>5 DEF Deliver
  <2>2. target \in MethodsIn \/ route = None
    BY <1>1, <1>2 DEF MethodsIn, Service!Finds, Service!Found
  <2>3. Types'
    BY <1>1, <2>1, <2>2 DEF Types
  <2>4. Control'
    BY <1>1, <1>3, <1>5, <2>1 DEF Control, Searching
  <2>5. AllowedSoFar'
    <3>1. /\ method \notin others \cup {target}
          /\ \A o \in MethodsIn \ ({method} \cup others \cup {target}) :
                 o \in allowed <=> Service!Finds(routes, o, path)
          /\ allowed \cap (others \cup {target}) = {}
      BY <1>1, <1>5 DEF AllowedSoFar
    <3>2. target \notin others
      BY <1>1 DEF Control
    <3>3. ASSUME NEW o \in MethodsIn \ ({method} \cup others)
          PROVE  o \in allowed' <=> Service!Finds(routes, o, path)
      <4>1. CASE o = target
        BY <1>2, <2>1, <3>1, <4>1
      <4>2. CASE o # target
        BY <2>1, <3>1, <4>2
      <4> QED
        BY <4>1, <4>2
    <3>4. method \notin others /\ allowed' \cap others = {}
      BY <2>1, <3>1, <3>2
    <3> QED
      BY <1>1, <1>3, <2>1, <3>3, <3>4 DEF AllowedSoFar
  <2> QED
    BY <2>1, <2>3, <2>4, <2>5 DEF LookupInv, WalksRight
<1>6. CASE target = method /\ route # None
  <2>1. /\ m' = [m EXCEPT !.status = "Found", !.route = route, !.count = count]
        /\ pc' = "idle" /\ UNCHANGED <<others, allowed>>
    BY <1>6 DEF Deliver
  <2>2. Types'
    BY <1>1, <1>2, <1>4, <2>1 DEF Types
  <2>3. others = {} /\ allowed = {}
    BY <1>1, <1>6 DEF Control, Searching
  <2> QED
    BY <2>1, <2>2, <2>3 DEF LookupInv, Control, Searching, AllowedSoFar, WalksRight
<1>7. CASE target = method /\ route = None
  <2>1. /\ m' = NoMatch /\ pc' = "others" /\ others' = MethodsIn \ {method} /\ allowed' = {}
    BY <1>1, <1>7 DEF Deliver, NoMatch, Others
  <2>2. Types'
    BY <1>1, <1>4, <2>1 DEF Types
  <2>3. Control'
    BY <1>1, <1>2, <1>3, <1>7, <2>1 DEF Control, Searching
  <2>4. AllowedSoFar'
    BY <1>1, <2>1 DEF AllowedSoFar
  <2> QED
    BY <2>1, <2>2, <2>3, <2>4 DEF LookupInv, WalksRight
<1> QED
  BY <1>5, <1>6, <1>7

\* The exact-match table, and a walk that has returned, return a right answer.
LEMMA ExactReturns ==
    ASSUME LookupInv, FindExact
    PROVE  Returned(FindLiteral(target), 0)
<1>1. table \in Tables /\ target \in Methods
  BY DEF LookupInv, Types
<1>2. RightOf(routes[target], path, FindLiteral(target), << >>)
  BY <1>1, ExactRight DEF FindExact
<1>3. SubSeq(Array, 1, 0) = << >>
  BY SubSeqEmpty
<1>4. RightOf(routes[target], path, FindLiteral(target), SubSeq(Array, 1, 0))
  BY <1>2, <1>3, Zenon
<1>5. 0 \in 0..MaxParams
  BY LimitsAssumption
<1> QED
  BY <1>4, <1>5, Zenon DEF Returned

\* What a walk that ends hands the lookup is the answer of its method.
LEMMA WalkReturns ==
    ASSUME LookupInv, WalkDone
    PROVE  Returned(result.route, result.count)
<1>1. /\ table \in Tables /\ target \in Methods
      /\ root = <<table, target>> /\ HasTrie(target)
      /\ Run!AnswerInv /\ Run!Answered
  BY DEF LookupInv, Types, WalksRight, WalkDone
<1>2. result.count \in 0..MaxParams
  BY <1>1 DEF Run!AnswerInv, Run!CapturesInv, Run!WalkInv, Run!Typed
<1>3. Run!RightFor(root, path, result.route, SubSeq(Array, 1, result.count))
  BY <1>1 DEF Run!Answered, Run!Walking, Run!Captured1to, WalkDone
<1>4. <<table, target>> \in Roots /\ RoutesOf(TrieAt[<<table, target>>]) = ByKeys(RoutesIn[table][target])
  BY <1>1, RoutesAre DEF HasTrie, IsExact, routes
<1>5. RightOf(routes[target], path, result.route, SubSeq(Array, 1, result.count))
  BY <1>1, <1>3, <1>4, TrieRight DEF routes
<1> QED
  BY <1>2, <1>5 DEF Returned

\* The walk starts on the trie of a method that has one.
LEMMA StartStep ==
    ASSUME LookupInv, StartWalk
    PROVE  LookupInv'
<1> DEFINE r == <<table, target>>
<1>1. /\ Types /\ Control /\ AllowedSoFar
      /\ table \in Tables /\ target \in Methods /\ path \in Paths /\ HasTrie(target)
      /\ pc = "finding" /\ pc' = "walking"
      /\ UNCHANGED <<table, method, path, m, params, target, others, allowed, scratch>>
      /\ routes' = routes /\ MethodsIn' = MethodsIn
  BY DEF LookupInv, Types, Control, StartWalk, routes, MethodsIn
<1>2. r \in Roots
  BY <1>1, RoutesAre DEF HasTrie, IsExact, routes
<1>3. /\ root' = r /\ node' = TrieAt[r].root /\ wpc' = "walking" /\ pos' = 0
      /\ stage' = 0 /\ stack' = << >> /\ nv' = 0
      /\ result' = [route |-> None, count |-> 0]
  BY DEF StartWalk, SetWalk
<1>4. Array' \in Arrays
  BY <1>1 DEF Array, Types
<1>5. Run!Begun'
  BY <1>1, <1>2, <1>3, <1>4 DEF Run!Begun, Run!trie, Run!AnyView, Arrays
<1>6. Run!AnswerInv'
  BY <1>5, RunBegins, PTL
<1>7. Run!Answered'
  BY <1>3 DEF Run!Answered, Run!Walking
<1>8. HasTrie(target)'
  BY <1>1 DEF HasTrie, IsExact
<1>9. Types'
  BY <1>1 DEF Types
<1>10. \A o : Service!Finds(routes, o, path)' <=> Service!Finds(routes, o, path)
  BY <1>1 DEF Service!Finds, Service!Found
<1>11. Control'
  BY <1>1, <1>10 DEF Control, Searching
<1>12. AllowedSoFar'
  BY <1>1, <1>10 DEF AllowedSoFar
<1> QED
  BY <1>1, <1>3, <1>6, <1>7, <1>8, <1>9, <1>11, <1>12 DEF LookupInv, WalksRight

\* A step of the walk leaves all else alone.
LEMMA WalkStepStep ==
    ASSUME LookupInv, WalkStep
    PROVE  LookupInv'
<1>1. /\ Types /\ Control /\ AllowedSoFar /\ HasTrie(target)
      /\ root = <<table, target>> /\ Run!AnswerInv /\ Run!Answered
      /\ pc = "walking"
      /\ UNCHANGED <<table, method, m, pc, target, others, allowed>>
      /\ routes' = routes /\ MethodsIn' = MethodsIn
      /\ \/ target = method /\ Walk(params)!Next /\ UNCHANGED scratch
         \/ target # method /\ Walk(scratch)!Next /\ UNCHANGED params
  BY DEF LookupInv, WalksRight, WalkStep, routes, MethodsIn
<1>2. Run!Next
  BY <1>1, StepsSame
<1>3. Run!AnswerInv' /\ Run!Answered'
  BY <1>1, <1>2, RunStep
<1>4. root' = root /\ path' = path
  BY <1>2 DEF Run!Next, Run!Finish, Run!Literal, Run!U64, Run!I64, Run!Param, Run!Rest,
              Run!Backtrack, Run!Fail, Run!Return, Run!Descend
<1>5. Array' \in Arrays
  BY <1>3 DEF Run!AnswerInv, Run!CapturesInv, Run!WalkInv, Run!Typed, Run!AnyView, Arrays
<1>6. params' \in Arrays /\ scratch' \in Arrays
  BY <1>1, <1>5 DEF Array, Types
<1>7. HasTrie(target)'
  BY <1>1 DEF HasTrie, IsExact
<1>8. Types'
  BY <1>1, <1>4, <1>6 DEF Types
<1>9. \A o : Service!Finds(routes, o, path)' <=> Service!Finds(routes, o, path)
  BY <1>1, <1>4 DEF Service!Finds, Service!Found
<1>10. Control'
  BY <1>1, <1>4, <1>9 DEF Control, Searching
<1>11. AllowedSoFar'
  BY <1>1, <1>9 DEF AllowedSoFar
<1> QED
  BY <1>1, <1>3, <1>4, <1>7, <1>8, <1>10, <1>11 DEF LookupInv, WalksRight

\* The 405 search takes the lowest of the methods left.
LEMMA NextOtherStep ==
    ASSUME LookupInv, NextOther
    PROVE  LookupInv'
<1>1. /\ Types /\ Control /\ AllowedSoFar /\ pc = "others" /\ others # {}
      /\ pc' = "finding" /\ target' = Min(others) /\ others' = others \ {target'}
      /\ UNCHANGED <<table, method, path, m, params, allowed, scratch>>
      /\ routes' = routes /\ MethodsIn' = MethodsIn
  BY DEF LookupInv, NextOther, LeftAfter, routes, MethodsIn
<1>2. target' \in others
  <2>1. others \in SUBSET Nat
    BY <1>1 DEF Types, MethodsIn, Methods
  <2>2. \E x \in others : \A y \in others : x <= y
    BY <1>1, <2>1, LeastNumber
  <2> QED
    BY <1>1, <2>2 DEF Min
<1>3. target' \in Methods /\ target' # method
  BY <1>1, <1>2 DEF Types, MethodsIn, AllowedSoFar
<1>4. Types'
  BY <1>1, <1>3 DEF Types
<1>5. \A o : Service!Finds(routes, o, path)' <=> Service!Finds(routes, o, path)
  BY <1>1 DEF Service!Finds, Service!Found
<1>6. Control'
  BY <1>1, <1>3, <1>5 DEF Control, Searching
<1>7. AllowedSoFar'
  <2>1. others' \cup {target'} = others
    BY <1>1, <1>2
  <2>2. /\ method \notin others
        /\ \A o \in MethodsIn \ ({method} \cup others) :
               o \in allowed <=> Service!Finds(routes, o, path)
        /\ allowed \cap others = {}
    BY <1>1 DEF AllowedSoFar
  <2>3. MethodsIn \ ({method} \cup others' \cup {target'}) = MethodsIn \ ({method} \cup others)
    BY <2>1
  <2> QED
    BY <1>1, <1>5, <2>1, <2>2, <2>3 DEF AllowedSoFar
<1> QED
  BY <1>1, <1>4, <1>6, <1>7 DEF LookupInv, WalksRight

\* Every step of a lookup keeps the invariant.
LEMMA LookupStep == LookupInv /\ [Next]_vars => LookupInv'
<1> SUFFICES ASSUME LookupInv, [Next]_vars PROVE LookupInv'
  OBVIOUS
<1>1. /\ Types /\ Control /\ AllowedSoFar /\ WalksRight
      /\ NoMatch \in [status : {"NotFound", "Found", "MethodNotAllowed"},
                      route : RouteValues, count : 0..MaxParams, allowed : SUBSET Methods]
  BY LimitsAssumption DEF LookupInv, NoMatch, RouteValues
<1>2. CASE Call
  <2>1. /\ pc = "idle" /\ pc' = "called" /\ others = {} /\ allowed = {}
        /\ method' \in Methods \cup {BadMethod} /\ path' \in Paths \cup {BadPath}
        /\ UNCHANGED <<table, m, params, target, others, allowed, scratch>>
    BY <1>1, <1>2 DEF Call, Control, Searching
  <2>2. Types'
    BY <1>1, <2>1 DEF Types, MethodsIn, routes
  <2> QED
    BY <2>1, <2>2 DEF LookupInv, Control, Searching, AllowedSoFar, WalksRight
<1>3. CASE Begin
  <2>1. /\ pc = "called" /\ others = {} /\ allowed = {} /\ m' = NoMatch
        /\ UNCHANGED <<table, method, path, params, others, allowed, scratch>>
        /\ \/ pc' = "idle" /\ target' = target
           \/ /\ pc' = "finding" /\ target' = method
              /\ method \in Methods /\ path \in Paths
    BY <1>1, <1>3 DEF Begin, Reset, Control, Searching, Types
  <2>2. Types'
    BY <1>1, <2>1 DEF Types, MethodsIn, routes
  <2> QED
    BY <2>1, <2>2 DEF LookupInv, Control, Searching, AllowedSoFar, WalksRight
<1>4. CASE FindExact
  BY <1>4, ExactReturns, DeliverStep DEF FindExact
<1>5. CASE WalkDone
  BY <1>5, WalkReturns, DeliverStep DEF WalkDone
<1>6. CASE NoMoreOthers
  <2>1. /\ pc = "others" /\ pc' = "idle" /\ others' = {} /\ allowed' = {}
        /\ target' = method /\ method \in Methods /\ m = NoMatch
        /\ m' = [m EXCEPT !.allowed = allowed,
                          !.status = IF allowed # {} THEN "MethodNotAllowed" ELSE @]
        /\ scratch' = Unwritten
        /\ UNCHANGED <<table, method, path, params>>
    BY <1>1, <1>6 DEF NoMoreOthers, Control
  <2>2. allowed \in SUBSET Methods
    BY <1>1 DEF Types, MethodsIn
  <2>3. Unwritten \in Arrays
    BY DEF Unwritten, Arrays
  <2>4. Types'
    BY <1>1, <2>1, <2>2, <2>3 DEF Types
  <2> QED
    BY <2>1, <2>4 DEF LookupInv, Control, Searching, AllowedSoFar, WalksRight
<1>7. CASE UNCHANGED vars
  <2>1. /\ UNCHANGED <<table, method, path, m, params, pc, target, others, allowed, scratch>>
        /\ UNCHANGED <<root, node, pos, stage, stack, nv, wpc, result>>
        /\ routes' = routes /\ MethodsIn' = MethodsIn
    BY <1>7 DEF vars, walkVars, routes, MethodsIn
  <2>2. Types'
    BY <1>1, <2>1 DEF Types
  <2>3. \A o : Service!Finds(routes, o, path)' <=> Service!Finds(routes, o, path)
    BY <2>1 DEF Service!Finds, Service!Found
  <2>4. Control'
    BY <1>1, <2>1, <2>3 DEF Control, Searching
  <2>5. AllowedSoFar'
    BY <1>1, <2>1, <2>3 DEF AllowedSoFar
  <2>6. WalksRight'
    <3>1. Array' = Array
      BY <2>1 DEF Array
    <3>2. UNCHANGED Run!vars
      BY <2>1, <3>1 DEF Run!vars
    <3>3. Run!AnswerInv => Run!AnswerInv'
      BY <3>2, Run!AnswerStep, TextsAssumption, LimitsAssumption, TriesSame
    <3>4. Run!AnswerInv /\ Run!Answered => Run!Answered'
      BY <3>2, Run!AnsweredStep, TextsAssumption, LimitsAssumption, TriesSame
    <3>5. HasTrie(target)' <=> HasTrie(target)
      BY <2>1 DEF HasTrie, IsExact
    <3> QED
      BY <1>1, <2>1, <3>3, <3>4, <3>5 DEF WalksRight
  <2> QED
    BY <2>2, <2>4, <2>5, <2>6 DEF LookupInv
<1> QED
  BY <1>2, <1>3, <1>4, <1>5, <1>6, <1>7, StartStep, WalkStepStep, NextOtherStep
  DEF Next, Lookup

\* At every moment of a lookup, for every table and every request before, the
\* 405 search has found of the methods it is done with exactly those that match,
\* though all of them walked in one scratch array nobody clears.
THEOREM LookupAllowedSoFar == Spec => []AllowedSoFar
  BY LookupInit, LookupStep, PTL DEF Spec, LookupInv

-----------------------------------------------------------------------------
(* The refinement.                                                         *)

\* The answer of the Match, as the refinement maps it.
AnswerNow ==
    IF pc # "idle" THEN Pending
    ELSE [status |-> m.status, route |-> m.route,
          captures |-> SubSeq(params, 1, m.count), allowed |-> m.allowed]

\* A Match that answers is not one that waits.
LEMMA AnswersAre ==
    ASSUME Types
    PROVE  (pc = "idle") <=> (AnswerNow # Pending)
<1>1. CASE pc = "idle"
  <2> DEFINE T == {Stale} \cup (Nat \X Nat)
             n == m.count
  <2>1. n \in Nat /\ MaxParams \in Nat /\ n <= MaxParams
    BY LimitsAssumption DEF Types
  <2>2. params \in [1..MaxParams -> T]
    BY DEF Types, Arrays
  <2> HIDE DEF T, n
  <2>3. SubSeq(params, 1, n) = [k \in 1..n |-> params[k]]
    BY <2>1, <2>2
  <2>4. SubSeq(params, 1, n) \in Seq(T)
    BY <2>1, <2>2, <2>3
  <2>5. AnswerNow \in Answers
    BY <1>1, <2>4 DEF AnswerNow, Answers, Types, T, n
  <2> QED
    BY <1>1, <2>5, PendingAssumption
<1>2. CASE pc # "idle"
  BY <1>2 DEF AnswerNow
<1> QED
  BY <1>1, <1>2

\* A step that answers right is the service's reply, and one while there is no
\* answer yet no step of the service.
LEMMA ReplyIs ==
    ASSUME pc # "idle", UNCHANGED <<table, method, path>>,
           AnswerNow' = Pending \/ AnswerNow' = Service!Answer(routes, method, path)
    PROVE  [Service!Next]_(Service!vars)
<1>1. routes' = routes /\ AnswerNow = Pending
  BY DEF routes, AnswerNow
<1>2. CASE AnswerNow' = Pending
  BY <1>1, <1>2 DEF Service!vars, AnswerNow
<1>3. CASE AnswerNow' = Service!Answer(routes, method, path)
  BY <1>1, <1>3 DEF Service!Next, Service!Reply, AnswerNow
<1> QED
  BY <1>2, <1>3

\* What find_in returned to find_into, if a route, is the answer.
LEMMA DeliverAnswers ==
    ASSUME LookupInv, pc \in {"finding", "walking"}, NEW route, NEW count,
           Returned(route, count), Deliver(route, count),
           UNCHANGED <<table, method, path, params, target, scratch>>
    PROVE  [Service!Next]_(Service!vars)
<1>1. /\ table \in Tables /\ method \in Methods /\ path \in Paths /\ target \in Methods
      /\ m = NoMatch /\ pc # "idle" /\ path # BadPath
  BY LookupAssumption DEF LookupInv, Types, Control
<1>2. CASE target # method \/ route = None
  <2>1. pc' = "others"
    BY <1>2 DEF Deliver
  <2> QED
    BY <1>1, <2>1, ReplyIs DEF AnswerNow
<1>3. CASE target = method /\ route # None
  <2> DEFINE best == Service!Best(DOMAIN routes[method], path)
  <2>1. /\ Service!Finds(routes, method, path)
        /\ route = routes[method][best]
        /\ SubSeq(params, 1, count) = Service!Captures(best, path)
    BY <1>1, <1>3, ServiceRight DEF Returned, Array
  <2>2. /\ pc' = "idle" /\ params' = params
        /\ m' = [m EXCEPT !.status = "Found", !.route = route, !.count = count]
    BY <1>3 DEF Deliver
  <2>3. AnswerNow' = [status |-> "Found", route |-> route,
                      captures |-> SubSeq(params, 1, count), allowed |-> {}]
    BY <1>1, <2>2 DEF AnswerNow, NoMatch
  <2>4. Service!Answer(routes, method, path)
            = [status |-> "Found", route |-> routes[method][best],
               captures |-> Service!Captures(best, path), allowed |-> {}]
    BY <1>1, <2>1 DEF Service!Answer
  <2> HIDE DEF best
  <2> QED
    BY <1>1, <2>1, <2>3, <2>4, ReplyIs
<1> QED
  BY <1>2, <1>3

\* The methods the 405 search has found are the answer when it is over.
LEMMA SearchAnswers ==
    ASSUME LookupInv, NoMoreOthers
    PROVE  [Service!Next]_(Service!vars)
<1>1. /\ pc = "others" /\ pc' = "idle" /\ others = {}
      /\ table \in Tables /\ method \in Methods /\ path \in Paths /\ path # BadPath
      /\ m = NoMatch /\ params' = params
      /\ m' = [m EXCEPT !.allowed = allowed,
                        !.status = IF allowed # {} THEN "MethodNotAllowed" ELSE @]
      /\ UNCHANGED <<table, method, path>>
  BY LookupAssumption DEF LookupInv, Types, Control, NoMoreOthers
<1>2. ~Service!Finds(routes, method, path)
  BY <1>1 DEF LookupInv, Control, Searching
<1>3. allowed = {o \in Methods : Service!Finds(routes, o, path)}
  <2>1. /\ allowed \subseteq MethodsIn
        /\ \A o \in MethodsIn \ {method} : o \in allowed <=> Service!Finds(routes, o, path)
    BY <1>1 DEF LookupInv, Types, AllowedSoFar
  <2>2. \A o \in Methods : Service!Finds(routes, o, path) => o \in MethodsIn
    BY DEF Service!Finds, Service!Found, MethodsIn
  <2>3. method \notin allowed
    BY <1>1 DEF LookupInv, Control, Searching
  <2>4. MethodsIn \subseteq Methods
    BY DEF MethodsIn
  <2> QED
    BY <1>2, <2>1, <2>2, <2>3, <2>4
<1>4. AnswerNow' = [status |-> IF allowed # {} THEN "MethodNotAllowed" ELSE "NotFound",
                   route |-> None, captures |-> << >>, allowed |-> allowed]
  <2>1. SubSeq(params, 1, 0) = << >>
    BY SubSeqEmpty
  <2> QED
    BY <1>1, <2>1 DEF AnswerNow, NoMatch
<1>5. Service!Answer(routes, method, path)
          = [status |-> IF allowed = {} THEN "NotFound" ELSE "MethodNotAllowed",
             route |-> None, captures |-> << >>, allowed |-> allowed]
  BY <1>1, <1>2, <1>3 DEF Service!Answer, Service!NotFound
<1>6. AnswerNow' = Service!Answer(routes, method, path)
  BY <1>4, <1>5
<1> QED
  BY <1>1, <1>6, ReplyIs

\* What a lookup starts with and every step of it are the service's.
LEMMA LookupRefines == Init /\ [][Next]_vars => Service!Init /\ [][Service!Next]_(Service!vars)
<1>1. Init => Service!Init
  <2>1. SubSeq(params, 1, 0) = << >>
    BY SubSeqEmpty
  <2>2. Init => m.status = "NotFound" /\ m.route = None /\ m.count = 0 /\ m.allowed = {}
    BY DEF Init, NoMatch
  <2>3. Init => AnswerNow = Service!NotFound
    BY <2>1, <2>2 DEF Init, AnswerNow, Service!NotFound
  <2> QED
    BY <2>3 DEF Init, AnswerNow, Service!Init
<1>2. LookupInv /\ [Next]_vars => [Service!Next]_(Service!vars)
  <2> SUFFICES ASSUME LookupInv, [Next]_vars PROVE [Service!Next]_(Service!vars)
    OBVIOUS
  <2>1. CASE Call
    <3>1. AnswerNow # Pending
      BY <2>1, AnswersAre DEF LookupInv, Call
    <3>2. routes' = routes /\ AnswerNow' = Pending
      BY <2>1 DEF Call, routes, AnswerNow
    <3> QED
      BY <3>1, <3>2 DEF Service!Next, Service!Request, AnswerNow
  <2>2. CASE Begin
    <3>1. pc # "idle" /\ UNCHANGED <<table, method, path, params>> /\ m' = NoMatch
      BY <2>2 DEF Begin, Reset
    <3>2. CASE method \notin Methods \/ path = BadPath
      <4>1. SubSeq(params, 1, 0) = << >>
        BY SubSeqEmpty
      <4>2. AnswerNow' = Service!Answer(routes, method, path)
        <5>1. Service!Answer(routes, method, path) = Service!NotFound
          BY <3>2 DEF Service!Answer
        <5>2. /\ pc' = "idle" /\ params' = params
              /\ m'.status = "NotFound" /\ m'.route = None /\ m'.count = 0 /\ m'.allowed = {}
          BY <2>2, <3>1, <3>2 DEF Begin, NoMatch
        <5> QED
          BY <4>1, <5>1, <5>2 DEF AnswerNow, Service!NotFound
      <4> QED
        BY <3>1, <4>2, ReplyIs
    <3>3. CASE ~(method \notin Methods \/ path = BadPath)
      <4>1. AnswerNow' = Pending
        BY <2>2, <3>3 DEF Begin, AnswerNow
      <4> QED
        BY <3>1, <4>1, ReplyIs
    <3> QED
      BY <3>2, <3>3
  <2>3. CASE FindExact
    BY <2>3, ExactReturns, DeliverAnswers DEF FindExact
  <2>4. CASE WalkDone
    BY <2>4, WalkReturns, DeliverAnswers DEF WalkDone
  <2>5. CASE StartWalk \/ NextOther
    BY <2>5, ReplyIs DEF StartWalk, NextOther, AnswerNow
  <2>6. CASE WalkStep
    <3>1. /\ pc = "walking" /\ pc' = pc /\ target' = target /\ method' = method /\ table' = table
          /\ \/ target = method /\ Walk(params)!Next
             \/ target # method /\ Walk(scratch)!Next
      BY <2>6 DEF WalkStep
    <3>2. Run!Next
      BY <3>1, StepsSame
    <3>3. path' = path
      BY <3>2 DEF Run!Next, Run!Finish, Run!Literal, Run!U64, Run!I64, Run!Param, Run!Rest,
                  Run!Backtrack, Run!Fail, Run!Return, Run!Descend
    <3> QED
      BY <3>1, <3>3, ReplyIs DEF AnswerNow
  <2>7. CASE NoMoreOthers
    BY <2>7, SearchAnswers
  <2>8. CASE UNCHANGED vars
    BY <2>8 DEF vars, routes, Service!vars
  <2> QED
    BY <2>1, <2>2, <2>3, <2>4, <2>5, <2>6, <2>7, <2>8 DEF Next, Lookup
<1> QED
  BY <1>1, <1>2, LookupInit, LookupStep, PTL

\* A lookup implements the service, but for its liveness: for every table the
\* build could make, every sequence of requests and whatever a Match and its
\* arrays hold from the requests before, each answer is the most specific route
\* of the method and exactly its captures, or exactly the other methods that
\* match, or nothing.
THEOREM LookupAnswersRight == Spec => Service!Init /\ [][Service!Next]_(Service!vars)
  BY LookupRefines, PTL DEF Spec

-----------------------------------------------------------------------------
(* The call of a handler.                                                  *)

\* A front end's steps are those of lookups, and calls of handlers that change
\* nothing a lookup reads or writes.
LEMMA DispatchLooksUp ==
    /\ DispatchInit => Init
    /\ [DispatchNext]_allVars => [Next]_vars
<1>1. DispatchInit => Init
  BY DEF DispatchInit
<1>2. ASSUME [DispatchNext]_allVars PROVE [Next]_vars
  <2>1. CASE Ask
    BY <2>1 DEF Ask, Next
  <2>2. CASE Answer
    BY <2>2 DEF Answer, Next
  <2>3. CASE Dispatch
    BY <2>3 DEF Dispatch
  <2>4. CASE UNCHANGED allVars
    BY <2>4 DEF allVars
  <2> QED
    BY <1>2, <2>1, <2>2, <2>3, <2>4 DEF DispatchNext
<1> QED
  BY <1>1, <1>2

\* A Match that says "found" holds the right answer to the request before, until
\* the next.
AnswerKept ==
    pc = "idle" /\ m.status = "Found" =>
        /\ method \in Methods /\ path \in Paths /\ m.route # None
        /\ RightOf(routes[method], path, m.route, SubSeq(params, 1, m.count))

\* A route that find_in returned to find_into is kept.
LEMMA DeliverKeeps ==
    ASSUME LookupInv, pc \in {"finding", "walking"}, NEW route, NEW count,
           Returned(route, count), Deliver(route, count),
           UNCHANGED <<table, method, path, params, target, scratch>>
    PROVE  AnswerKept'
<1>1. method \in Methods /\ path \in Paths /\ routes' = routes /\ m = NoMatch
  BY DEF LookupInv, Control, routes
<1>2. CASE target = method /\ route # None
  <2>1. m' = [m EXCEPT !.status = "Found", !.route = route, !.count = count]
    BY <1>2 DEF Deliver
  <2>2. m'.route = route /\ m'.count = count
    BY <1>1, <2>1 DEF NoMatch
  <2>3. RightOf(routes[method], path, route, SubSeq(params, 1, count))
    BY <1>2 DEF Returned, Array
  <2>4. RightOf(routes[method], path, route, SubSeq(params, 1, count))'
            <=> RightOf(routes[method], path, route', SubSeq(params, 1, count'))
    BY <1>1 DEF RightOf
  <2> QED
    BY <1>1, <1>2, <2>2, <2>3 DEF AnswerKept, RightOf
<1>3. CASE ~(target = method /\ route # None)
  BY <1>3 DEF Deliver, AnswerKept
<1> QED
  BY <1>2, <1>3

\* An answer is kept until the next request.
LEMMA AnswerStep ==
    ASSUME LookupInv, AnswerKept, [Next]_vars
    PROVE  AnswerKept'
<1>1. CASE Call
  BY <1>1 DEF Call, AnswerKept
<1>2. CASE Begin
  BY <1>2 DEF Begin, Reset, NoMatch, AnswerKept
<1>3. CASE FindExact
  BY <1>3, ExactReturns, DeliverKeeps DEF FindExact
<1>4. CASE WalkDone
  BY <1>4, WalkReturns, DeliverKeeps DEF WalkDone
<1>5. CASE StartWalk \/ NextOther \/ WalkStep
  BY <1>5 DEF StartWalk, NextOther, WalkStep, AnswerKept
<1>6. CASE NoMoreOthers
  <2>1. /\ m = NoMatch
        /\ m' = [m EXCEPT !.allowed = allowed,
                          !.status = IF allowed # {} THEN "MethodNotAllowed" ELSE @]
    BY <1>6 DEF NoMoreOthers, LookupInv, Control
  <2>2. m'.status # "Found"
    BY <2>1 DEF NoMatch
  <2> QED
    BY <2>2 DEF AnswerKept
<1>7. CASE UNCHANGED vars
  <2>1. routes' = routes
    BY <1>7 DEF vars, routes
  <2> QED
    BY <1>7, <2>1 DEF vars, AnswerKept, RightOf
<1> QED
  BY <1>1, <1>2, <1>3, <1>4, <1>5, <1>6, <1>7 DEF Next, Lookup

\* No two parameters of a pattern have one place.
LEMMA PlacesDistinct ==
    ASSUME NEW p \in Seq(Segments)
    PROVE  /\ NumParams(p) \in Nat
           /\ \A i \in ParamIndices(p) : ParamPlace(p, i) \in 1..NumParams(p)
           /\ \A i, j \in ParamIndices(p) : ParamPlace(p, i) = ParamPlace(p, j) => i = j
<1> DEFINE P == ParamIndices(p)
           UpTo(i) == {j \in P : j <= i}
<1>1. P \in SUBSET (1..Len(p)) /\ P \subseteq Nat
  BY DEF ParamIndices
<1>2. IsFiniteSet(P) /\ Cardinality(P) \in Nat
  <2>1. IsFiniteSet(1..Len(p))
    BY FS_Interval
  <2>2. IsFiniteSet(P)
    BY <1>1, <2>1, FS_Subset, Zenon
  <2> QED
    BY <2>2, FS_CardinalityType
<1>3. \A i : ParamPlace(p, i) = Cardinality(UpTo(i))
  BY DEF ParamPlace
<1>4. NumParams(p) = Cardinality(P)
  BY DEF NumParams
<1>5. /\ \A i : UpTo(i) \in SUBSET P
      /\ \A i \in P : i \in UpTo(i)
      /\ \A i, j \in P : i < j => UpTo(i) \in SUBSET UpTo(j) /\ j \notin UpTo(i)
  BY <1>1
<1> HIDE DEF P, UpTo
<1>6. ASSUME NEW i
      PROVE  /\ IsFiniteSet(UpTo(i)) /\ Cardinality(UpTo(i)) \in Nat
             /\ Cardinality(UpTo(i)) <= Cardinality(P)
  <2>1. IsFiniteSet(UpTo(i)) /\ Cardinality(UpTo(i)) <= Cardinality(P)
    BY <1>2, <1>5, FS_Subset, Zenon
  <2> QED
    BY <2>1, FS_CardinalityType
<1>7. ASSUME NEW i \in P
      PROVE  Cardinality(UpTo(i)) \in 1..Cardinality(P)
  <2>1. Cardinality(UpTo(i)) # 0
    BY <1>5, <1>6, FS_EmptySet, Zenon
  <2> QED
    BY <1>2, <1>6, <2>1
<1>8. ASSUME NEW i \in P, NEW j \in P, i < j
      PROVE  Cardinality(UpTo(i)) # Cardinality(UpTo(j))
  <2>1. UpTo(i) \in SUBSET UpTo(j) /\ j \in UpTo(j) /\ j \notin UpTo(i)
    BY <1>5, <1>8
  <2>2. Cardinality(UpTo(j)) = Cardinality(UpTo(i)) => UpTo(j) = UpTo(i)
    BY <1>6, <2>1, FS_Subset, Zenon
  <2> QED
    BY <2>1, <2>2
<1>9. ASSUME NEW i \in P, NEW j \in P, Cardinality(UpTo(i)) = Cardinality(UpTo(j))
      PROVE  i = j
  <2>1. i \in Nat /\ j \in Nat
    BY <1>1
  <2>2. ~(i < j) /\ ~(j < i)
    BY <1>8, <1>9
  <2> QED
    BY <2>1, <2>2
<1> QED
  BY <1>2, <1>3, <1>4, <1>7, <1>9 DEF P

\* The value a match takes for a parameter is the parameter's capture, and the
\* type the declaration gives it the parameter's own.
LEMMA AtPlace ==
    ASSUME NEW p \in Seq(Segments), NEW w, NEW i \in ParamIndices(p)
    PROVE  /\ Captures(p, w)[ParamPlace(p, i)] = CaptureAt(p, w, i)
           /\ ParamType(p, ParamPlace(p, i))
                  = IF p[i].kind \in {"u64", "i64"} THEN p[i].kind ELSE "string"
<1> DEFINE k == ParamPlace(p, i)
           At == CHOOSE j \in ParamIndices(p) : ParamPlace(p, j) = k
<1>1. At = i
  BY PlacesDistinct
<1>2. k \in 1..NumParams(p)
  BY PlacesDistinct
<1>3. Captures(p, w)[k] = CaptureAt(p, w, At)
  BY <1>2 DEF Captures
<1>4. ParamType(p, k) = IF p[At].kind \in {"u64", "i64"} THEN p[At].kind ELSE "string"
  BY DEF ParamType
<1> HIDE DEF k, At
<1> QED
  BY <1>1, <1>3, <1>4 DEF k

\* The route a method has for a pattern is the place of the declaration of both.
LEMMA Declared ==
    ASSUME NEW decls \in Tables, NEW o \in Methods
    PROVE  /\ DOMAIN RoutesIn[decls][o]
                  = {decls[i].pattern : i \in {j \in 1..Len(decls) : decls[j].method = o}}
           /\ \A p \in DOMAIN RoutesIn[decls][o] :
                  /\ decls[RoutesIn[decls][o][p] + 1].method = o
                  /\ decls[RoutesIn[decls][o][p] + 1].pattern = p
<1> DEFINE mine == {j \in 1..Len(decls) : decls[j].method = o}
           Of(p) == CHOOSE i \in mine : decls[i].pattern = p
<1>1. RoutesIn[decls][o] = [p \in {decls[i].pattern : i \in mine} |-> Of(p) - 1]
  <2>1. RoutesIn[decls] = RouteSpecs(decls)
    BY TablesAssumption
  <2> QED
    BY <2>1 DEF RouteSpecs
<1>2. ASSUME NEW p \in {decls[i].pattern : i \in mine}
      PROVE  Of(p) \in mine /\ decls[Of(p)].pattern = p
  OBVIOUS
<1>3. \A i \in mine : i \in Int /\ decls[i].method = o
  OBVIOUS
<1> HIDE DEF Of
<1>4. DOMAIN RoutesIn[decls][o] = {decls[i].pattern : i \in mine}
  BY <1>1
<1> HIDE DEF mine
<1>5. ASSUME NEW p \in {decls[i].pattern : i \in mine}
      PROVE  /\ decls[RoutesIn[decls][o][p] + 1].method = o
             /\ decls[RoutesIn[decls][o][p] + 1].pattern = p
  <2>1. RoutesIn[decls][o][p] = Of(p) - 1
    BY <1>1
  <2>2. RoutesIn[decls][o][p] + 1 = Of(p)
    BY <1>2, <1>3, <2>1
  <2> QED
    BY <1>2, <1>3, <2>2
<1> QED
  BY <1>4, <1>5 DEF mine

\* A typed segment that matches converts to the number it says.
LEMMA TypedConverts ==
    /\ \A t \in U64Texts : Convert("u64", TextOf[t]) = NumberOf(TextOf[t])
    /\ \A t \in I64Texts : Convert("i64", TextOf[t]) = NumberOf(TextOf[t])
<1>1. /\ U64Last \in Seq(DigitBytes) /\ U64Last # << >> /\ U64Last[1] # 48
      /\ I64Last \in Seq(DigitBytes) /\ I64Last # << >> /\ I64Last[1] # 48
      /\ I64First \in Seq(DigitBytes) /\ I64First # << >> /\ I64First[1] # 48
      /\ ValueOf(I64First) = ValueOf(I64Last) + 1
      /\ U64 = 0..ValueOf(U64Last)
      /\ I64 = (-ValueOf(I64Last) - 1)..ValueOf(I64Last)
  BY LiteralsAssumption DEF U64, I64
<1>2. ASSUME NEW t \in Texts
      PROVE  TextOf[t] \in Seq(Int)
  <2> DEFINE Bytes == 0..255
             s == TextOf[t]
  <2>1. s \in Seq(Bytes) /\ Bytes \subseteq Int
    BY TextsMatch
  <2> HIDE DEF Bytes, s
  <2>2. Len(s) \in Nat /\ s = [i \in 1..Len(s) |-> s[i]] /\ \A i \in 1..Len(s) : s[i] \in Int
    BY <2>1
  <2>3. s \in Seq(Int)
    BY <2>2
  <2> QED
    BY <2>3 DEF s
<1>3. ASSUME NEW t \in U64Texts
      PROVE  Convert("u64", TextOf[t]) = NumberOf(TextOf[t])
  <2>1. t \in Texts /\ DigitsUpTo(TextOf[t], U64Last)
    BY TextsMatch DEF MatchesU64
  <2>2. TextOf[t] \in Seq(Int)
    BY <1>2, <2>1
  <2>3. FromChars(TextOf[t], FALSE, 0..ValueOf(U64Last)) = NumberOf(TextOf[t])
    BY <1>1, <2>1, <2>2, UnsignedText, Zenon
  <2> QED
    BY <1>1, <2>3 DEF Convert
<1>4. ASSUME NEW t \in I64Texts
      PROVE  Convert("i64", TextOf[t]) = NumberOf(TextOf[t])
  <2>1. t \in Texts /\ DigitsUpTo(DigitsOf(TextOf[t]), IF Negative(TextOf[t]) THEN I64First ELSE I64Last)
    BY TextsMatch DEF MatchesI64
  <2>2. TextOf[t] \in Seq(Int)
    BY <1>2, <2>1
  <2>3. FromChars(TextOf[t], TRUE, (-ValueOf(I64Last) - 1)..ValueOf(I64Last)) = NumberOf(TextOf[t])
    BY <1>1, <2>1, <2>2, SignedText, Zenon
  <2> QED
    BY <1>1, <2>3 DEF Convert
<1> QED
  BY <1>3, <1>4

\* The argument made of the capture of a parameter, in a path its pattern
\* matches, is what the path says there.
LEMMA ArgumentSays ==
    ASSUME NEW p \in Seq(Segments), Matches(p, path), NEW i \in ParamIndices(p)
    PROVE  Argument(ParamType(p, ParamPlace(p, i)), Captures(p, path)[ParamPlace(p, i)])
               = Said(p, i)
<1>1. /\ Captures(p, path)[ParamPlace(p, i)] = CaptureAt(p, path, i)
      /\ ParamType(p, ParamPlace(p, i))
             = IF p[i].kind \in {"u64", "i64"} THEN p[i].kind ELSE "string"
  BY AtPlace
<1>2. i \in 1..Len(p) /\ Len(p) \in Nat
  BY DEF ParamIndices
<1>3. CASE p[i].kind \notin {"u64", "i64"}
  BY <1>1, <1>3 DEF Argument, Said
<1>4. CASE p[i].kind \in {"u64", "i64"}
  <2>1. CaptureAt(p, path, i) = <<i, i>>
    BY <1>4 DEF CaptureAt
  <2>2. SegMatches(p[i], path[i])
    <3>1. EndsInRest(p) => i \in 1..(Len(p) - 1)
      BY <1>2, <1>4 DEF EndsInRest
    <3> QED
      BY <1>2, <3>1 DEF Matches
  <2>3. CASE p[i].kind = "u64"
    <3>1. path[i] \in U64Texts
      BY <2>2, <2>3 DEF SegMatches
    <3> QED
      BY <1>1, <2>1, <2>3, <3>1, TypedConverts DEF Argument, Said
  <2>4. CASE p[i].kind = "i64"
    <3>1. path[i] \in I64Texts
      BY <2>2, <2>4 DEF SegMatches
    <3> QED
      BY <1>1, <2>1, <2>4, <3>1, TypedConverts DEF Argument, Said
  <2> QED
    BY <1>4, <2>3, <2>4
<1> QED
  BY <1>3, <1>4

\* A handler is called right.
LEMMA DispatchRight ==
    ASSUME LookupInv, AnswerKept, Dispatch
    PROVE  HandlerRight'
<1> DEFINE best == Service!Best(DOMAIN routes[method], path)
           caps == SubSeq(params, 1, m.count)
           decl == table[m.route + 1]
<1>1. /\ table \in Tables /\ method \in Methods /\ m.route # None
      /\ RightOf(routes[method], path, m.route, caps)
  BY DEF LookupInv, Types, AnswerKept, Dispatch
<1>2. /\ best \in DOMAIN routes[method]
      /\ m.route = routes[method][best]
      /\ caps = Captures(best, path)
  BY <1>1, ServiceRight, ServiceSame
<1>3. Matches(best, path)
  <2>1. \E p \in DOMAIN routes[method] :
            /\ Matches(p, path)
            /\ \A q \in DOMAIN routes[method] :
                   Matches(q, path) /\ q # p => MoreSpecific(p, q)
    BY <1>1 DEF RightOf
  <2>2. \E p \in DOMAIN routes[method] :
            /\ Service!Matches(p, path)
            /\ \A q \in DOMAIN routes[method] :
                   Service!Matches(q, path) /\ Service!Keys(q) # Service!Keys(p)
                       => Service!MoreSpecific(p, q)
    <3>1. PICK p \in DOMAIN routes[method] :
            /\ Matches(p, path)
            /\ \A q \in DOMAIN routes[method] :
                   Matches(q, path) /\ q # p => MoreSpecific(p, q)
      BY <2>1
    <3> QED
      BY <3>1, ServiceSame
  <2> QED
    BY <2>2, ServiceSame DEF Service!Best
<1>4. best = Best(DOMAIN routes[method], path)
  BY ServiceSame DEF Service!Best, Best
<1> HIDE DEF best
<1>5. best \in Seq(Segments)
  BY <1>1, <1>2, RoutesAre DEF routes
<1>6. /\ decl.method = method /\ decl.pattern = best
      /\ DOMAIN routes[method]
             = {table[i].pattern : i \in {j \in 1..Len(table) : table[j].method = method}}
  BY <1>1, <1>2, Declared DEF routes
<1> DEFINE args == [k \in 1..NumParams(best) |-> Argument(ParamType(best, k), caps[k])]
<1>7. called' = [handler |-> m.route, args |-> args] /\ UNCHANGED <<table, method, path>>
  BY <1>6 DEF Dispatch, vars
<1>8. Len(args) = NumParams(best)
  BY <1>5, PlacesDistinct
<1>9. \A i \in ParamIndices(best) : args[ParamPlace(best, i)] = Said(best, i)
  <2> SUFFICES ASSUME NEW i \in ParamIndices(best)
               PROVE  args[ParamPlace(best, i)] = Said(best, i)
    OBVIOUS
  <2>1. ParamPlace(best, i) \in 1..NumParams(best)
    BY <1>5, PlacesDistinct
  <2>2. Argument(ParamType(best, ParamPlace(best, i)), caps[ParamPlace(best, i)])
            = Said(best, i)
    BY <1>2, <1>3, <1>5, ArgumentSays
  <2> QED
    BY <2>1, <2>2
<1>10. \A i : Said(best, i)' = Said(best', i)
  BY <1>7 DEF Said
<1> HIDE DEF args
<1> QED
  BY <1>4, <1>6, <1>7, <1>8, <1>9 DEF HandlerRight, Said

\* Nothing is looked up while a handler runs, and it was called right.
DispatchInv ==
    /\ LookupInv /\ AnswerKept
    /\ called # None => pc = "idle"
    /\ HandlerRight

\* No handler is called to begin with.
LEMMA DispatchBegins == DispatchInit => DispatchInv
<1> SUFFICES ASSUME DispatchInit PROVE DispatchInv
  OBVIOUS
<1>1. LookupInv
  BY LookupInit DEF DispatchInit
<1>2. AnswerKept
  BY DEF DispatchInit, Init, NoMatch, AnswerKept
<1> QED
  BY <1>1, <1>2 DEF DispatchInit, DispatchInv, HandlerRight

\* Every step of the front end keeps the invariant.
LEMMA DispatchStep == DispatchInv /\ [DispatchNext]_allVars => DispatchInv'
<1> SUFFICES ASSUME DispatchInv, [DispatchNext]_allVars PROVE DispatchInv'
  OBVIOUS
<1>1. LookupInv /\ AnswerKept /\ [Next]_vars
  BY DispatchLooksUp DEF DispatchInv
<1>2. LookupInv' /\ AnswerKept'
  BY <1>1, LookupStep, AnswerStep
<1>3. CASE Ask
  BY <1>2, <1>3 DEF Ask, DispatchInv, HandlerRight
<1>4. CASE Answer
  <2>1. pc # "idle"
    BY <1>4 DEF Answer, Lookup, Begin, FindExact, StartWalk, WalkStep, WalkDone, NextOther,
                NoMoreOthers
  <2>2. called' = None
    BY <1>4, <2>1 DEF Answer, DispatchInv
  <2> QED
    BY <1>2, <2>2 DEF DispatchInv, HandlerRight
<1>5. CASE Dispatch
  <2>1. pc' = "idle"
    BY <1>5 DEF Dispatch, vars
  <2> QED
    BY <1>1, <1>2, <1>5, <2>1, DispatchRight DEF DispatchInv
<1>6. CASE UNCHANGED allVars
  <2>1. UNCHANGED <<table, method, path, pc, called>>
    BY <1>6 DEF allVars, vars
  <2>2. HandlerRight /\ (called # None => pc = "idle")
    BY DEF DispatchInv
  <2>3. HandlerRight'
    BY <2>1, <2>2 DEF HandlerRight, Said
  <2> QED
    BY <1>2, <2>1, <2>2, <2>3 DEF DispatchInv
<1> QED
  BY <1>3, <1>4, <1>5, <1>6 DEF DispatchNext

\* For every set of declarations the compiler accepts, and after any requests,
\* a request that finds a route calls the handler declared for the most specific
\* of its method's patterns that match, with the numbers and the texts the path
\* says at the places of the pattern's parameters.
THEOREM HandlersRight == DispatchSpec => []HandlerRight
  BY DispatchBegins, DispatchStep, PTL DEF DispatchSpec, DispatchInv

\* A front end's lookups are lookups: what is proved of those holds of it.
THEOREM DispatchAnswersRight ==
    DispatchSpec => /\ Init /\ [][Next]_vars
                    /\ []AllowedSoFar
                    /\ Service!Init /\ [][Service!Next]_(Service!vars)
<1>1. DispatchSpec => Init /\ [][Next]_vars
  BY DispatchLooksUp, PTL DEF DispatchSpec
<1>2. Init /\ [][Next]_vars => []AllowedSoFar
  BY LookupInit, LookupStep, PTL DEF LookupInv
<1> QED
  BY <1>1, <1>2, LookupRefines, PTL
=============================================================================

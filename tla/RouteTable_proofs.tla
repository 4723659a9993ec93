-------------------------- MODULE RouteTable_proofs --------------------------
(***************************************************************************)
(* Proofs about the build of a route table, for any lists of routes, any   *)
(* hash functions and any limits.                                          *)
(***************************************************************************)
EXTENDS RouteTable, Numbers_proofs, FiniteSetTheorems, SequenceTheorems, TLAPS

-----------------------------------------------------------------------------
(* The order of the routes.                                                *)

\* Two segments match the same texts if they are of one kind and, literal, of
\* one text.
LEMMA SameSegIs ==
    ASSUME NEW a \in Segments, NEW b \in Segments
    PROVE  SameSeg(a, b) <=> a.kind = b.kind /\ (a.kind = "literal" => a.text = b.text)
BY DEF SameSeg, Key, Segments

\* The fields of a segment.
LEMMA SegFields ==
    ASSUME NEW a \in Segments
    PROVE  a.kind \in Kinds /\ a.text \in Texts \cup {Empty} /\ a.text \in Nat
<1>1. a.kind \in Kinds /\ a.text \in Texts \cup {Empty}
  BY DEF Segments
<1>2. Texts \cup {Empty} \subseteq Nat
  BY TextsAssumption DEF Empty
<1> QED
  BY <1>1, <1>2

\* The kinds have different ranks.
LEMMA Ranks ==
    /\ \A k \in Kinds : Rank[k] \in Nat
    /\ \A k, l \in Kinds : Rank[k] = Rank[l] => k = l
BY DEF Kinds, Rank

\* compare_seg (pattern.hpp) orders the segments: of two that do not match the same
\* texts, one comes first.
LEMMA SegTotal ==
    ASSUME NEW a \in Segments, NEW b \in Segments
    PROVE  /\ SegBefore(a, b) \/ SegBefore(b, a) \/ SameSeg(a, b)
           /\ ~(SegBefore(a, b) /\ SegBefore(b, a))
           /\ ~(SegBefore(a, b) /\ SameSeg(a, b))
<1>1. /\ a.kind \in Kinds /\ b.kind \in Kinds
      /\ a.text \in Nat /\ b.text \in Nat
  BY SegFields
<1>2. /\ Rank[a.kind] \in Nat /\ Rank[b.kind] \in Nat
      /\ Rank[a.kind] = Rank[b.kind] => a.kind = b.kind
  BY <1>1, Ranks
<1> QED
  BY <1>1, <1>2, SameSegIs DEF SegBefore

\* The order of segments, by kind and then by text, is transitive.
LEMMA SegTransitive ==
    ASSUME NEW a \in Segments, NEW b \in Segments, NEW c \in Segments,
           SegBefore(a, b) \/ SameSeg(a, b), SegBefore(b, c) \/ SameSeg(b, c)
    PROVE  /\ SegBefore(a, c) \/ SameSeg(a, c)
           /\ SegBefore(a, b) \/ SegBefore(b, c) => SegBefore(a, c)
<1>1. /\ a.kind \in Kinds /\ b.kind \in Kinds /\ c.kind \in Kinds
      /\ a.text \in Nat /\ b.text \in Nat /\ c.text \in Nat
  BY SegFields
<1>2. /\ Rank[a.kind] \in Nat /\ Rank[b.kind] \in Nat /\ Rank[c.kind] \in Nat
      /\ Rank[a.kind] = Rank[b.kind] => a.kind = b.kind
      /\ Rank[b.kind] = Rank[c.kind] => b.kind = c.kind
      /\ Rank[a.kind] = Rank[c.kind] => a.kind = c.kind
  BY <1>1, Ranks
<1> QED
  BY <1>1, <1>2, SameSegIs DEF SegBefore

\* What the build's comparisons ask of an entry.
Comparable(a) == a.method \in Nat /\ a.pattern \in Seq(Segments)

\* Two entries that match the same paths.
Alike(a, b) ==
    /\ a.method = b.method
    /\ Len(a.pattern) = Len(b.pattern)
    /\ \A i \in 1..Len(a.pattern) : SameSeg(a.pattern[i], b.pattern[i])

\* The first segment two patterns differ in.
DifferAt(p, q, i) ==
    /\ i \in 1..Len(p) /\ i \in 1..Len(q)
    /\ ~SameSeg(p[i], q[i])
    /\ \A j \in 1..(i - 1) : SameSeg(p[j], q[j])

\* Two patterns are alike as far as the shorter one goes, or there is a first place
\* where they are not.
LEMMA FirstDifference ==
    ASSUME NEW p \in Seq(Segments), NEW q \in Seq(Segments)
    PROVE  \/ \E i \in Nat : DifferAt(p, q, i)
           \/ \A i \in 1..Len(p) : i \in 1..Len(q) => SameSeg(p[i], q[i])
<1> DEFINE D == {i \in Nat : i \in 1..Len(p) /\ i \in 1..Len(q) /\ ~SameSeg(p[i], q[i])}
<1>1. CASE D = {}
  BY <1>1
<1>2. CASE D # {}
  <2>1. PICK i \in D : \A j \in D : i <= j
    BY <1>2, LeastNumber
  <2>2. ASSUME NEW j \in 1..(i - 1)
        PROVE  SameSeg(p[j], q[j])
    BY <2>1, <2>2
  <2> QED
    BY <2>1, <2>2 DEF DifferAt
<1> QED
  BY <1>1, <1>2

\* Build::less, of entries of one method, decides at that segment, and without
\* one by the lengths.
LEMMA BeforeDecided ==
    ASSUME NEW a, NEW b, Comparable(a), Comparable(b), a.method = b.method
    PROVE  /\ \A i \in Nat : DifferAt(a.pattern, b.pattern, i) =>
                  (Before(a, b) <=> SegBefore(a.pattern[i], b.pattern[i]))
           /\ (\A i \in 1..Len(a.pattern) :
                  i \in 1..Len(b.pattern) => SameSeg(a.pattern[i], b.pattern[i])) =>
                  (Before(a, b) <=> Len(a.pattern) < Len(b.pattern))
<1> DEFINE p == a.pattern
           q == b.pattern
<1>1. p \in Seq(Segments) /\ q \in Seq(Segments) /\ Len(p) \in Nat /\ Len(q) \in Nat
  BY DEF Comparable
<1>2. Before(a, b) <=>
          \/ \E j \in 1..Len(p) : /\ j <= Len(q)
                                  /\ \A k \in 1..(j - 1) : SameSeg(p[k], q[k])
                                  /\ SegBefore(p[j], q[j])
          \/ Len(p) < Len(q) /\ \A k \in 1..Len(p) : SameSeg(p[k], q[k])
  BY DEF Before, Comparable
<1> HIDE DEF p, q
<1>3. ASSUME NEW i \in Nat, DifferAt(p, q, i)
      PROVE  Before(a, b) <=> SegBefore(p[i], q[i])
  <2>1. i \in 1..Len(p) /\ i \in 1..Len(q) /\ ~SameSeg(p[i], q[i]) /\ i <= Len(q)
        /\ \A j \in 1..(i - 1) : SameSeg(p[j], q[j])
    BY <1>3, <1>1 DEF DifferAt
  <2>2. ~\A k \in 1..Len(p) : SameSeg(p[k], q[k])
    BY <2>1
  <2>3. ASSUME NEW j \in 1..Len(p), j <= Len(q), \A k \in 1..(j - 1) : SameSeg(p[k], q[k]),
               SegBefore(p[j], q[j])
        PROVE  j = i
    <3>1. j \in 1..Len(q) /\ p[j] \in Segments /\ q[j] \in Segments
      BY <1>1, <2>3
    <3>2. ~SameSeg(p[j], q[j])
      BY <3>1, <2>3, SegTotal
    <3>3. j \notin 1..(i - 1) /\ i \notin 1..(j - 1)
      BY <2>1, <2>3, <3>2
    <3> QED
      BY <1>3, <2>1, <3>1, <3>3
  <2> QED
    BY <1>2, <2>1, <2>2, <2>3
<1>4. ASSUME \A i \in 1..Len(p) : i \in 1..Len(q) => SameSeg(p[i], q[i])
      PROVE  Before(a, b) <=> Len(p) < Len(q)
  <2>1. ASSUME NEW j \in 1..Len(p), j <= Len(q)
        PROVE  ~SegBefore(p[j], q[j])
    <3>1. j \in 1..Len(q) /\ p[j] \in Segments /\ q[j] \in Segments
      BY <1>1, <2>1
    <3> QED
      BY <1>4, <3>1, SegTotal
  <2>2. Len(p) < Len(q) => \A k \in 1..Len(p) : k \in 1..Len(q)
    BY <1>1
  <2> QED
    BY <1>2, <1>4, <2>1, <2>2
<1> QED
  BY <1>3, <1>4 DEF p, q

\* Being alike but for the names of parameters is an equivalence.
LEMMA AlikeIsEquivalence ==
    ASSUME NEW a, NEW b, Comparable(a), Comparable(b), Alike(a, b)
    PROVE  /\ Alike(b, a)
           /\ \A c : Comparable(c) /\ Alike(b, c) => Alike(a, c)
BY DEF Alike, SameSeg

\* Of two entries that do not match the same paths, one comes first.
LEMMA BeforeTotal ==
    ASSUME NEW a, NEW b, Comparable(a), Comparable(b)
    PROVE  /\ Before(a, b) \/ Before(b, a) \/ Alike(a, b)
           /\ ~(Before(a, b) /\ Before(b, a))
           /\ ~(Before(a, b) /\ Alike(a, b))
<1> DEFINE p == a.pattern
           q == b.pattern
<1>1. /\ p \in Seq(Segments) /\ q \in Seq(Segments) /\ Len(p) \in Nat /\ Len(q) \in Nat
      /\ a.method \in Nat /\ b.method \in Nat
  BY DEF Comparable
<1>2. CASE a.method # b.method
  <2>1. a.method < b.method \/ b.method < a.method
    BY <1>1, <1>2
  <2>2. Before(a, b) <=> a.method < b.method
    BY <1>2 DEF Before
  <2>3. Before(b, a) <=> b.method < a.method
    BY <1>2 DEF Before
  <2>4. ~Alike(a, b)
    BY <1>2 DEF Alike
  <2> HIDE DEF p, q
  <2> QED
    BY <1>1, <2>1, <2>2, <2>3, <2>4
<1>3. CASE a.method = b.method
  <2>1. CASE \E i \in Nat : DifferAt(p, q, i)
    <3>1. PICK i \in Nat : DifferAt(p, q, i)
      BY <2>1
    <3>2. DifferAt(q, p, i)
      BY <3>1 DEF DifferAt, SameSeg
    <3>3. /\ Before(a, b) <=> SegBefore(p[i], q[i])
          /\ Before(b, a) <=> SegBefore(q[i], p[i])
      BY <1>3, <3>1, <3>2, BeforeDecided
    <3>4. p[i] \in Segments /\ q[i] \in Segments /\ ~SameSeg(p[i], q[i])
      BY <1>1, <3>1 DEF DifferAt
    <3>5. ~Alike(a, b)
      BY <3>1 DEF Alike, DifferAt
    <3> QED
      BY <3>3, <3>4, <3>5, SegTotal
  <2>2. CASE \A i \in 1..Len(p) : i \in 1..Len(q) => SameSeg(p[i], q[i])
    <3>1. \A i \in 1..Len(q) : i \in 1..Len(p) => SameSeg(q[i], p[i])
      BY <2>2 DEF SameSeg
    <3>2. /\ Before(a, b) <=> Len(p) < Len(q)
          /\ Before(b, a) <=> Len(q) < Len(p)
      BY <1>3, <2>2, <3>1, BeforeDecided
    <3>3. Alike(a, b) <=> Len(p) = Len(q)
      BY <1>3, <2>2 DEF Alike
    <3> HIDE DEF p, q
    <3> QED
      BY <1>1, <3>2, <3>3
  <2> QED
    BY <1>1, <2>1, <2>2, FirstDifference
<1> QED
  BY <1>2, <1>3

\* The order of routes is transitive.
LEMMA BeforeTransitive ==
    ASSUME NEW a, NEW b, NEW c, Comparable(a), Comparable(b), Comparable(c),
           Before(a, b), Before(b, c)
    PROVE  Before(a, c)
<1> DEFINE p == a.pattern
           q == b.pattern
           r == c.pattern
<1>1. /\ p \in Seq(Segments) /\ q \in Seq(Segments) /\ r \in Seq(Segments)
      /\ Len(p) \in Nat /\ Len(q) \in Nat /\ Len(r) \in Nat
      /\ a.method \in Nat /\ b.method \in Nat /\ c.method \in Nat
  BY DEF Comparable
<1>2. CASE a.method < b.method \/ b.method < c.method
  <2>1. a.method <= b.method /\ b.method <= c.method
    BY <1>1 DEF Before
  <2>2. a.method < c.method
    <3> HIDE DEF p, q, r
    <3> QED
      BY <1>1, <1>2, <2>1
  <2> QED
    BY <2>2 DEF Before
<1>3. CASE a.method = b.method /\ b.method = c.method
  <2> DEFINE At(x, y, i) == /\ i \in 1..Len(x) /\ i <= Len(y)
                            /\ \A k \in 1..(i - 1) : SameSeg(x[k], y[k])
                            /\ SegBefore(x[i], y[i])
             Shorter(x, y) == Len(x) < Len(y) /\ \A k \in 1..Len(x) : SameSeg(x[k], y[k])
  <2>1. \/ \E i \in 1..Len(p) : At(p, q, i)
        \/ Shorter(p, q)
    BY <1>1, <1>3 DEF Before
  <2>2. \/ \E j \in 1..Len(q) : At(q, r, j)
        \/ Shorter(q, r)
    BY <1>1, <1>3 DEF Before
  <2>3. (\E i \in 1..Len(p) : At(p, r, i)) \/ Shorter(p, r) => Before(a, c)
    BY <1>3 DEF Before
  <2> HIDE DEF p, q, r
  <2>4. ASSUME NEW i \in 1..Len(p), At(p, q, i), NEW j \in 1..Len(q), At(q, r, j)
        PROVE  \E k \in 1..Len(p) : At(p, r, k)
    <3>0. i \in 1..Len(q) /\ j \in 1..Len(r)
      BY <1>1, <2>4
    <3>1. CASE i < j
      <4>1. i <= Len(r) /\ i \in 1..Len(r) /\ p[i] \in Segments /\ q[i] \in Segments /\ r[i] \in Segments
        BY <1>1, <3>0, <3>1
      <4>2. SameSeg(q[i], r[i])
        BY <2>4, <3>1
      <4>3. SegBefore(p[i], r[i])
        BY <2>4, <4>1, <4>2, SegTransitive
      <4>4. \A k \in 1..(i - 1) : SameSeg(p[k], r[k])
        BY <2>4, <3>1 DEF SameSeg
      <4> QED
        BY <4>1, <4>3, <4>4
    <3>2. CASE i = j
      <4>1. i <= Len(r) /\ p[i] \in Segments /\ q[i] \in Segments /\ r[i] \in Segments
        BY <1>1, <3>0, <3>2
      <4>2. SegBefore(p[i], r[i])
        BY <2>4, <3>2, <4>1, SegTransitive
      <4>3. \A k \in 1..(i - 1) : SameSeg(p[k], r[k])
        BY <2>4, <3>2 DEF SameSeg
      <4> QED
        BY <4>1, <4>2, <4>3
    <3>3. CASE i > j
      <4>1. j \in 1..Len(p) /\ j <= Len(r) /\ p[j] \in Segments /\ q[j] \in Segments /\ r[j] \in Segments
        BY <1>1, <3>0, <3>3
      <4>2. SameSeg(p[j], q[j])
        BY <2>4, <3>3
      <4>3. SegBefore(p[j], r[j])
        BY <2>4, <4>1, <4>2, SegTransitive
      <4>4. \A k \in 1..(j - 1) : SameSeg(p[k], r[k])
        BY <2>4, <3>3 DEF SameSeg
      <4> QED
        BY <4>1, <4>3, <4>4
    <3> QED
      BY <3>1, <3>2, <3>3
  <2>5. ASSUME NEW i \in 1..Len(p), At(p, q, i), Shorter(q, r)
        PROVE  \E k \in 1..Len(p) : At(p, r, k)
    <3>1. i \in 1..Len(q) /\ i <= Len(r) /\ p[i] \in Segments /\ q[i] \in Segments /\ r[i] \in Segments
      BY <1>1, <2>5
    <3>2. SegBefore(p[i], r[i])
      BY <2>5, <3>1, SegTransitive
    <3>3. \A k \in 1..(i - 1) : SameSeg(p[k], r[k])
      BY <2>5, <3>1 DEF SameSeg
    <3> QED
      BY <3>1, <3>2, <3>3
  <2>6. ASSUME Shorter(p, q), NEW j \in 1..Len(q), At(q, r, j)
        PROVE  (\E k \in 1..Len(p) : At(p, r, k)) \/ Shorter(p, r)
    <3>1. CASE j <= Len(p)
      <4>1. j \in 1..Len(p) /\ j <= Len(r) /\ p[j] \in Segments /\ q[j] \in Segments /\ r[j] \in Segments
        BY <1>1, <2>6, <3>1
      <4>2. SegBefore(p[j], r[j])
        BY <2>6, <4>1, SegTransitive
      <4>3. \A k \in 1..(j - 1) : SameSeg(p[k], r[k])
        BY <2>6, <4>1 DEF SameSeg
      <4> QED
        BY <4>1, <4>2, <4>3
    <3>2. CASE j > Len(p)
      <4>1. Len(p) < Len(r) /\ \A k \in 1..Len(p) : k \in 1..(j - 1)
        BY <1>1, <2>6, <3>2
      <4>2. \A k \in 1..Len(p) : SameSeg(p[k], r[k])
        BY <2>6, <4>1 DEF SameSeg
      <4> QED
        BY <4>1, <4>2
    <3> QED
      BY <1>1, <3>1, <3>2
  <2>7. ASSUME Shorter(p, q), Shorter(q, r)
        PROVE  Shorter(p, r)
    <3>1. Len(p) < Len(r) /\ \A k \in 1..Len(p) : k \in 1..Len(q)
      BY <1>1, <2>7
    <3>2. \A k \in 1..Len(p) : SameSeg(p[k], r[k])
      BY <2>7, <3>1 DEF SameSeg
    <3> QED
      BY <3>1, <3>2
  <2> HIDE DEF At, Shorter
  <2> QED
    BY <2>1, <2>2, <2>3, <2>4, <2>5, <2>6, <2>7
<1> QED
  BY <1>1, <1>2, <1>3 DEF Before

-----------------------------------------------------------------------------
(* Parsing.                                                                *)

\* The routes no error is about.
Accepted(i) == specs[i].method < MethodSlots /\ specs[i].pattern # Malformed

\* A route's entry.
EntryOf(i) ==
    [method |-> specs[i].method, pattern |-> specs[i].pattern, route |-> specs[i].route,
     spec |-> i]

\* The entries are those of the first routes, in their order, all accepted; an
\* error about one route is about the next.
Parsed ==
    /\ specs \in SpecLists /\ edgeHash \in EdgeHashes /\ pathHash \in PathHashes
    /\ pc \in {"parse", "literals", "tries", "done"}
    /\ Len(entries) \in Nat /\ Len(entries) <= Len(specs)
    /\ entries = [i \in 1..Len(entries) |-> EntryOf(i)]
    /\ \A i \in 1..Len(entries) : Accepted(i)
    /\ pc \in {"literals", "tries"} => Len(entries) = Len(specs)
    /\ pc # "done" => error = NoError
    /\ pc = "done" =>
           IF error.kind \in {"method", "pattern"}
           THEN /\ error.route = Len(entries) + 1 /\ error.route <= Len(specs)
                /\ ~Accepted(error.route)
           ELSE Len(entries) = Len(specs)

\* No route is parsed yet.
LEMMA ParsedInit == Init => Parsed
<1> SUFFICES ASSUME Init
             PROVE  Parsed
  OBVIOUS
<1>1. Len(specs) \in Nat /\ Len(entries) = 0 /\ entries = << >>
  BY SpecsAssumption DEF Init
<1>2. entries = [i \in 1..Len(entries) |-> EntryOf(i)]
  BY <1>1
<1> QED
  BY <1>1, <1>2 DEF Init, Parsed

\* Parsing goes on with the first route not parsed, and stops at the first wrong one.
LEMMA ParsedStep == Parsed /\ [Next]_vars => Parsed'
<1> SUFFICES ASSUME Parsed, [Next]_vars
             PROVE  Parsed'
  OBVIOUS
<1>1. /\ Len(specs) \in Nat /\ Len(entries) \in Nat
      /\ \A i \in 1..Len(specs) : specs[i].method \in Nat
  BY SpecsAssumption DEF Parsed
<1>2. MethodSlots \in Nat
  BY TableAssumption
<1>3. CASE ParseSpec
  <2> DEFINE i == Len(entries) + 1
  <2>1. /\ pc = "parse" /\ Len(entries) < Len(specs)
        /\ specs' = specs /\ edgeHash' = edgeHash /\ pathHash' = pathHash
    BY <1>3 DEF ParseSpec
  <2>2. i \in 1..Len(specs) /\ specs[i].method \in Nat
    BY <1>1, <2>1
  <2>3. CASE ~Accepted(i)
    <3>1. /\ entries' = entries /\ pc' = "done"
          /\ error'.kind \in {"method", "pattern"} /\ error'.route = i
      BY <1>2, <1>3, <2>2, <2>3 DEF ParseSpec, Fail, Accepted
    <3>2. Accepted(i)' <=> Accepted(i)
      BY <2>1, <3>1 DEF Accepted
    <3>3. \A j \in 1..Len(entries) : EntryOf(j)' = EntryOf(j) /\ (Accepted(j)' <=> Accepted(j))
      BY <2>1 DEF EntryOf, Accepted
    <3> QED
      BY <1>1, <2>1, <2>2, <2>3, <3>1, <3>2, <3>3 DEF Parsed, Accepted, EntryOf
  <2>4. CASE Accepted(i)
    <3>1. entries' = Append(entries, EntryOf(i)) /\ pc' = pc /\ error' = error
      BY <1>2, <1>3, <2>2, <2>4 DEF ParseSpec, Accepted, EntryOf
    <3> DEFINE S == {EntryOf(j) : j \in 1..Len(specs)}
    <3>2. entries \in Seq(S)
      <4>1. entries = [j \in 1..Len(entries) |-> EntryOf(j)]
        BY DEF Parsed
      <4>2. \A j \in 1..Len(entries) : EntryOf(j) \in S
        BY <1>1, <2>1
      <4>3. entries \in [1..Len(entries) -> S]
        BY <4>1, <4>2
      <4> QED
        BY <1>1, <4>3, SeqDef
    <3>3. EntryOf(i) \in S
      BY <2>2
    <3>4. /\ Len(entries') = Len(entries) + 1
          /\ entries' = [j \in 1..Len(entries') |-> IF j = Len(entries) + 1 THEN EntryOf(i) ELSE entries[j]]
      <4> HIDE DEF S
      <4>1. /\ entries' \in Seq(S) /\ Len(entries') = Len(entries) + 1
            /\ \A j \in 1..Len(entries) : entries'[j] = entries[j]
            /\ entries'[Len(entries) + 1] = EntryOf(i)
        BY <3>1, <3>2, <3>3, AppendProperties
      <4>2. entries' = [j \in 1..Len(entries') |-> entries'[j]]
        BY <4>1, LenProperties
      <4>3. ASSUME NEW j \in 1..Len(entries')
            PROVE  entries'[j] = IF j = Len(entries) + 1 THEN EntryOf(i) ELSE entries[j]
        BY <1>1, <4>1
      <4> QED
        BY <4>1, <4>2, <4>3
    <3>5. \A j \in 1..Len(entries') : EntryOf(j)' = EntryOf(j) /\ (Accepted(j)' <=> Accepted(j))
      BY <2>1 DEF EntryOf, Accepted
    <3>6. entries' = [j \in 1..Len(entries') |-> EntryOf(j)]
      <4>1. ASSUME NEW j \in 1..Len(entries')
            PROVE  (IF j = Len(entries) + 1 THEN EntryOf(i) ELSE entries[j]) = EntryOf(j)
        <5>1. j # Len(entries) + 1 => j \in 1..Len(entries)
          BY <1>1, <3>4
        <5> QED
          BY <5>1 DEF Parsed
      <4> QED
        BY <3>4, <4>1
    <3>7. entries' = [j \in 1..Len(entries') |-> EntryOf(j)']
      BY <3>5, <3>6
    <3>8. \A j \in 1..Len(entries') : Accepted(j)
      <4>1. ASSUME NEW j \in 1..Len(entries')
            PROVE  Accepted(j)
        <5>1. j = i \/ j \in 1..Len(entries)
          BY <1>1, <3>4
        <5> QED
          BY <5>1, <2>4 DEF Parsed
      <4> QED
        BY <4>1
    <3> QED
      BY <1>1, <2>1, <2>2, <3>1, <3>4, <3>5, <3>7, <3>8 DEF Parsed
  <2> QED
    BY <2>3, <2>4
<1>4. CASE Split
  <2>1. /\ pc = "parse" /\ Len(entries) = Len(specs)
        /\ UNCHANGED <<specs, edgeHash, pathHash, entries>>
    BY <1>4 DEF Split
  <2>2. PICK repeating, i :
            IF Repeats(repeating) # {}
            THEN Fail("duplicate", entries[repeating[i]].spec, entries[repeating[i - 1]].spec)
            ELSE pc' = "literals" /\ UNCHANGED error
    BY <1>4, Zenon DEF Split
  <2>3. \/ pc' = "done" /\ error'.kind = "duplicate"
        \/ pc' = "literals" /\ error' = error
    BY <2>2 DEF Fail
  <2> QED
    BY <2>1, <2>3 DEF Parsed, EntryOf, Accepted
<1>5. CASE InsertLiteral
  BY <1>5 DEF InsertLiteral, Parsed, EntryOf, Accepted
<1>6. CASE LiteralsDone
  BY <1>6 DEF LiteralsDone, Parsed, EntryOf, Accepted
<1>7. CASE StartTrie \/ BuildChild \/ Return
  <2>1. UNCHANGED <<specs, edgeHash, pathHash, entries, pc, error>>
    BY <1>7 DEF StartTrie, BuildChild, Return
  <2> QED
    BY <2>1 DEF Parsed, EntryOf, Accepted
<1>8. CASE Finish
  <2>1. /\ pc = "tries" /\ UNCHANGED <<specs, edgeHash, pathHash, entries>>
        /\ pc' = "done" /\ (error'.kind = "size" \/ error' = error)
    BY <1>8 DEF Finish, Fail
  <2>2. error'.kind \notin {"method", "pattern"}
    BY <2>1 DEF Parsed, NoError
  <2> QED
    BY <2>1, <2>2 DEF Parsed, EntryOf, Accepted
<1>9. CASE UNCHANGED vars
  BY <1>9 DEF vars, Parsed, EntryOf, Accepted
<1> QED
  BY <1>3, <1>4, <1>5, <1>6, <1>7, <1>8, <1>9 DEF Next

\* build_table names the first route that is wrong, and builds a table only when
\* none is, of any list of routes.
THEOREM TheFirstErrorNamed == Spec => []FirstErrorNamed
<1>1. ASSUME Parsed
      PROVE  FirstErrorNamed
  <2> DEFINE bad == {i \in DOMAIN specs :
                        specs[i].method >= MethodSlots \/ specs[i].pattern = Malformed}
  <2>1. /\ Len(specs) \in Nat /\ DOMAIN specs = 1..Len(specs)
        /\ \A i \in 1..Len(specs) : specs[i].method \in Nat
    BY <1>1, SpecsAssumption DEF Parsed
  <2>2. \A i \in 1..Len(specs) : i \in bad <=> ~Accepted(i)
    BY <2>1, TableAssumption DEF Accepted
  <2>3. bad \subseteq 1..Len(specs)
    BY <2>1
  <2> HIDE DEF bad
  <2>4. /\ Len(entries) \in Nat
        /\ \A i \in 1..Len(entries) : i \in 1..Len(specs) /\ Accepted(i)
    <3>1. /\ Len(entries) \in Nat /\ Len(entries) <= Len(specs)
          /\ \A i \in 1..Len(entries) : Accepted(i)
      BY <1>1 DEF Parsed
    <3> QED
      BY <2>1, <3>1
  <2>5. CASE pc = "done" /\ error.kind \in {"method", "pattern"}
    <3>1. /\ error.route = Len(entries) + 1 /\ error.route <= Len(specs)
          /\ ~Accepted(error.route) /\ Len(entries) \in Nat
      BY <1>1, <2>5 DEF Parsed
    <3>2. error.route \in 1..Len(specs)
      BY <2>1, <3>1
    <3>3. error.route \in bad
      BY <2>2, <3>1, <3>2
    <3>4. ASSUME NEW i \in bad
          PROVE  error.route <= i
      <4>1. i \in 1..Len(specs) /\ ~Accepted(i)
        BY <2>2, <2>3, <3>4
      <4>2. i \notin 1..Len(entries)
        BY <2>4, <4>1
      <4> QED
        BY <2>1, <2>4, <3>1, <4>1, <4>2
    <3> QED
      BY <2>5, <3>3, <3>4 DEF FirstErrorNamed, Done, bad
  <2>6. CASE pc = "done" /\ error.kind \notin {"method", "pattern"}
    <3>1. Len(entries) = Len(specs)
      BY <1>1, <2>6 DEF Parsed
    <3>2. bad = {}
      BY <2>2, <2>3, <2>4, <3>1
    <3> QED
      BY <2>6, <3>2 DEF FirstErrorNamed, Done, bad
  <2> QED
    BY <2>5, <2>6 DEF FirstErrorNamed, Done
<1> QED
  BY <1>1, ParsedInit, ParsedStep, PTL DEF Spec

-----------------------------------------------------------------------------
(* The sorted lists.                                                       *)

\* The entries have what the comparisons read.
LEMMA EntriesComparable ==
    ASSUME Parsed
    PROVE  /\ DOMAIN entries = 1..Len(entries)
           /\ \A i \in 1..Len(entries) :
                  /\ entries[i] = EntryOf(i) /\ entries[i].spec = i
                  /\ Comparable(entries[i]) /\ IsPattern(entries[i].pattern)
                  /\ entries[i].method \in Methods
<1>1. /\ entries = [i \in 1..Len(entries) |-> EntryOf(i)]
      /\ Len(entries) \in Nat /\ Len(specs) \in Nat /\ Len(entries) <= Len(specs)
  BY SpecsAssumption DEF Parsed
<1>2. ASSUME NEW i \in 1..Len(entries)
      PROVE  /\ entries[i] = EntryOf(i)
             /\ specs[i].method \in Nat /\ specs[i].method < MethodSlots
             /\ IsPattern(specs[i].pattern)
  <2>1. i \in 1..Len(specs) /\ entries[i] = EntryOf(i)
    BY <1>1
  <2> QED
    BY <2>1, SpecsAssumption DEF Parsed, Accepted
<1>3. ASSUME NEW i \in 1..Len(entries)
      PROVE  /\ entries[i].spec = i /\ entries[i].method = specs[i].method
             /\ entries[i].pattern = specs[i].pattern
  <2>1. entries[i] = EntryOf(i)
    BY <1>2
  <2> QED
    BY <2>1 DEF EntryOf
<1>4. MethodSlots \in Nat
  BY TableAssumption
<1>5. ASSUME NEW i \in 1..Len(entries)
      PROVE  /\ Comparable(entries[i]) /\ IsPattern(entries[i].pattern)
             /\ entries[i].method \in Methods
  <2>1. IsPattern(specs[i].pattern) /\ specs[i].method \in Nat /\ specs[i].method < MethodSlots
    BY <1>2
  <2>2. specs[i].pattern \in Seq(Segments)
    BY <2>1 DEF IsPattern
  <2>3. specs[i].method \in Methods
    BY <1>4, <2>1 DEF Methods
  <2> QED
    BY <1>3, <2>1, <2>2, <2>3 DEF Comparable
<1>6. DOMAIN entries = 1..Len(entries)
  BY <1>1
<1> QED
  BY <1>2, <1>3, <1>5, <1>6

\* Less orders the entries: their places decide between those that are alike.
LEMMA LessOrders ==
    ASSUME Parsed, NEW S \in SUBSET DOMAIN entries
    PROVE  IsOrder({x \in S \X S : Less(x[1], x[2])}, S)
<1> DEFINE R == {x \in S \X S : Less(x[1], x[2])}
<1>1. \A x, y \in S : <<x, y>> \in R <=> Less(x, y)
  OBVIOUS
<1>2. \A x \in S : /\ Comparable(entries[x]) /\ entries[x].spec = x /\ x \in Nat
  BY EntriesComparable DEF Parsed
<1>3. \A x, y \in S : Less(x, y) <=>
          \/ Before(entries[x], entries[y])
          \/ ~Before(entries[y], entries[x]) /\ x < y
  BY <1>2 DEF Less
<1>4. ASSUME NEW x \in S
      PROVE  ~Less(x, x)
  BY <1>2, <1>3, BeforeTotal
<1>5. ASSUME NEW x \in S, NEW y \in S, x # y
      PROVE  Less(x, y) \/ Less(y, x)
  BY <1>2, <1>3, <1>5
<1>6. ASSUME NEW x \in S, NEW y \in S, NEW z \in S, Less(x, y), Less(y, z)
      PROVE  Less(x, z)
  <2> DEFINE a == entries[x]
             b == entries[y]
             c == entries[z]
  <2>1. Comparable(a) /\ Comparable(b) /\ Comparable(c)
    BY <1>2
  <2>2. /\ Before(a, b) \/ (Alike(a, b) /\ x < y)
        /\ Before(b, c) \/ (Alike(b, c) /\ y < z)
    BY <1>3, <1>6, <2>1, BeforeTotal
  <2>3. Less(x, z) <=> Before(a, c) \/ (~Before(c, a) /\ x < z)
    BY <1>3
  <2>4. x < y /\ y < z => x < z
    BY <1>2
  <2> HIDE DEF a, b, c
  <2>5. CASE Before(a, b) /\ Before(b, c)
    BY <2>1, <2>3, <2>5, BeforeTransitive
  <2>6. CASE Before(a, b) /\ Alike(b, c) /\ y < z
    <3>1. Alike(c, b)
      BY <2>1, <2>6, AlikeIsEquivalence
    <3>2. ~Before(c, a)
      BY <2>1, <2>6, <3>1, BeforeTransitive, BeforeTotal
    <3>3. ~Alike(a, c)
      BY <2>1, <2>6, <3>1, AlikeIsEquivalence, BeforeTotal
    <3> QED
      BY <2>1, <2>3, <3>2, <3>3, BeforeTotal
  <2>7. CASE Alike(a, b) /\ x < y /\ Before(b, c)
    <3>1. Alike(b, a)
      BY <2>1, <2>7, AlikeIsEquivalence
    <3>2. ~Before(c, a)
      <4>1. ASSUME Before(c, a)
            PROVE  FALSE
        <5>1. Before(b, a)
          BY <2>1, <2>7, <4>1, BeforeTransitive
        <5> QED
          BY <2>1, <3>1, <5>1, BeforeTotal
      <4> QED
        BY <4>1
    <3>3. ~Alike(a, c)
      <4>1. ASSUME Alike(a, c)
            PROVE  FALSE
        <5>1. Alike(b, c)
          BY <2>1, <3>1, <4>1, AlikeIsEquivalence
        <5> QED
          BY <2>1, <2>7, <5>1, BeforeTotal
      <4> QED
        BY <4>1
    <3> QED
      BY <2>1, <2>3, <3>2, <3>3, BeforeTotal
  <2>8. CASE Alike(a, b) /\ x < y /\ Alike(b, c) /\ y < z
    <3>1. Alike(a, c)
      BY <2>1, <2>8, AlikeIsEquivalence
    <3>2. Alike(c, a)
      BY <2>1, <3>1, AlikeIsEquivalence
    <3>3. ~Before(c, a)
      BY <2>1, <3>2, BeforeTotal
    <3> QED
      BY <2>3, <2>4, <2>8, <3>3
  <2> QED
    BY <2>2, <2>5, <2>6, <2>7, <2>8
<1> HIDE DEF R
<1> QED
  BY <1>1, <1>4, <1>5, <1>6 DEF IsOrder, R

\* The sorted list of a set of entries holds each of them once, in order.
LEMMA SortedList ==
    ASSUME Parsed, NEW S \in SUBSET DOMAIN entries
    PROVE  LET list == Sorted(S)
           IN  /\ list \in Seq(S) /\ Len(list) = Cardinality(S) /\ Cardinality(S) \in Nat
               /\ IsFiniteSet(S)
               /\ \A k \in 1..Len(list) : list[k] \in S
               /\ \A x \in S : \E k \in 1..Len(list) : list[k] = x
               /\ \A j, k \in 1..Len(list) : j < k <=> Less(list[j], list[k])
<1> DEFINE R == {x \in S \X S : Less(x[1], x[2])}
           n == Cardinality(S)
           list == Sorted(S)
           Place(x) == Cardinality({y \in S : Less(y, x)})
<1>1. IsFiniteSet(S)
  <2>1. S \in SUBSET (1..Len(entries))
    BY EntriesComparable
  <2>2. Len(entries) \in Int /\ 1 \in Int
    BY DEF Parsed
  <2> QED
    BY <2>1, <2>2, FS_Interval, FS_Subset
<1>2. \A x \in S : Preceding(S, R, x) = {y \in S : Less(y, x)}
  BY DEF Preceding
<1>3. IsOrder(R, S)
  BY LessOrders
<1>4. \A x, y \in S : <<x, y>> \in R <=> Less(x, y)
  OBVIOUS
<1> HIDE DEF R
<1>5. /\ n \in Nat
      /\ \A x \in S : Place(x) \in 0..(n - 1)
      /\ \A x, y \in S : Less(x, y) <=> Place(x) < Place(y)
      /\ \A k \in 1..n : \E x \in S : Place(x) = k - 1
  <2>1. /\ n \in Nat
        /\ \A x \in S : Cardinality(Preceding(S, R, x)) \in 0..(n - 1)
        /\ \A x, y \in S : <<x, y>> \in R <=> Cardinality(Preceding(S, R, x)) < Cardinality(Preceding(S, R, y))
        /\ \A k \in 1..n : \E x \in S : Cardinality(Preceding(S, R, x)) = k - 1
    BY <1>1, <1>3, Places
  <2>2. \A x \in S : Place(x) = Cardinality(Preceding(S, R, x))
    BY <1>2
  <2> HIDE DEF Place, n
  <2> QED
    BY <1>4, <2>1, <2>2
<1>6. list = [k \in 1..n |-> CHOOSE x \in S : Place(x) = k - 1]
  BY DEF Sorted, InOrder
<1> HIDE DEF list, n, Place
<1>7. \A k \in 1..n : list[k] \in S /\ Place(list[k]) = k - 1
  BY <1>5, <1>6
<1>8. list \in Seq(S) /\ Len(list) = n
  <2>1. list \in [1..n -> S]
    BY <1>6, <1>7
  <2> QED
    BY <1>5, <2>1, SeqDef, LenProperties
<1>9. \A x \in S : \E k \in 1..n : list[k] = x
  <2>1. ASSUME NEW x \in S
        PROVE  \E k \in 1..n : list[k] = x
    <3> DEFINE k == Place(x) + 1
    <3>1. k \in 1..n /\ Place(x) = k - 1
      BY <1>5
    <3>2. list[k] \in S /\ Place(list[k]) = Place(x)
      BY <1>7, <3>1
    <3>3. Place(x) \in Nat
      BY <1>5
    <3>4. ~Less(x, list[k]) /\ ~Less(list[k], x)
      BY <1>5, <3>2, <3>3
    <3>5. list[k] = x
      BY <1>3, <1>4, <3>2, <3>4 DEF IsOrder
    <3> QED
      BY <3>1, <3>5
  <2> QED
    BY <2>1
<1>10. ASSUME NEW j \in 1..n, NEW k \in 1..n
       PROVE  j < k <=> Less(list[j], list[k])
  <2>1. j - 1 < k - 1 <=> j < k
    BY <1>5
  <2> QED
    BY <1>5, <1>7, <2>1
<1> QED
  BY <1>1, <1>5, <1>7, <1>8, <1>9, <1>10 DEF list, n

-----------------------------------------------------------------------------
(* Routes of the same paths.                                               *)

\* Of two places of a sorted list, the earlier holds the entry that comes before,
\* or one like it.
LEMMA LessMeans ==
    ASSUME Parsed, NEW x \in DOMAIN entries, NEW y \in DOMAIN entries, Less(x, y)
    PROVE  Before(entries[x], entries[y]) \/ Alike(entries[x], entries[y])
<1>1. Comparable(entries[x]) /\ Comparable(entries[y])
  BY EntriesComparable
<1> QED
  BY <1>1, BeforeTotal DEF Less

\* Comparing neighbours finds every pair of routes that match the same paths: all
\* that the order puts between two alike are like them.
LEMMA NeighboursFindAll ==
    ASSUME Parsed, NEW S \in SUBSET DOMAIN entries, Repeats(Sorted(S)) = {},
           NEW x \in S, NEW y \in S, Alike(entries[x], entries[y])
    PROVE  x = y
<1> DEFINE list == Sorted(S)
<1>1. /\ Len(list) \in Nat
      /\ \A k \in 1..Len(list) : list[k] \in S
      /\ \A z \in S : \E k \in 1..Len(list) : list[k] = z
      /\ \A j, k \in 1..Len(list) : j < k <=> Less(list[j], list[k])
  BY SortedList
<1>2. \A z \in S : Comparable(entries[z])
  BY EntriesComparable
<1>3. \A k \in 2..Len(list) : ~Alike(entries[list[k - 1]], entries[list[k]])
  BY DEF Repeats, SamePaths, Alike
<1> HIDE DEF list
<1>4. ASSUME NEW j \in 1..Len(list), NEW k \in 1..Len(list), j < k,
             Alike(entries[list[j]], entries[list[k]])
      PROVE  FALSE
  <2> DEFINE a == entries[list[j]]
             b == entries[list[j + 1]]
             c == entries[list[k]]
  <2>1. j + 1 \in 2..Len(list) /\ j + 1 \in 1..Len(list) /\ (j + 1) - 1 = j /\ j < j + 1
        /\ (j + 1 = k \/ j + 1 < k)
    BY <1>1, <1>4
  <2>2. /\ list[j] \in DOMAIN entries /\ list[j + 1] \in DOMAIN entries
        /\ list[k] \in DOMAIN entries
    BY <1>1, <2>1
  <2>3. Comparable(a) /\ Comparable(b) /\ Comparable(c)
    BY <1>1, <1>2, <2>1
  <2>4. ~Alike(a, b)
    BY <1>3, <2>1
  <2>5. Before(a, b)
    BY <1>1, <2>1, <2>2, <2>4, LessMeans
  <2>6. j + 1 < k => Before(b, c) \/ Alike(b, c)
    BY <1>1, <2>1, <2>2, LessMeans
  <2>7. Alike(a, c)
    BY <1>4
  <2> HIDE DEF a, b, c
  <2>8. CASE Alike(b, c)
    BY <2>3, <2>4, <2>7, <2>8, AlikeIsEquivalence
  <2>9. CASE Before(b, c)
    BY <2>3, <2>5, <2>7, <2>9, BeforeTransitive, BeforeTotal
  <2>10. j + 1 = k => b = c
    BY DEF b, c
  <2> QED
    BY <2>1, <2>4, <2>6, <2>7, <2>8, <2>9, <2>10
<1>5. PICK j \in 1..Len(list), k \in 1..Len(list) : list[j] = x /\ list[k] = y
  BY <1>1
<1>6. Alike(entries[y], entries[x])
  BY <1>2, AlikeIsEquivalence
<1>7. j \in Nat /\ k \in Nat
  OBVIOUS
<1> QED
  BY <1>4, <1>5, <1>6, <1>7

\* The segments two alike patterns have in one place match the same texts, and so
\* the patterns match the same paths.
LEMMA AlikeMatch ==
    ASSUME NEW a, NEW b, Comparable(a), Comparable(b), Alike(a, b), NEW path
    PROVE  Matches(a.pattern, path) <=> Matches(b.pattern, path)
<1> DEFINE p == a.pattern
           q == b.pattern
           n == Len(p)
<1>1. /\ p \in Seq(Segments) /\ q \in Seq(Segments) /\ n \in Nat /\ Len(q) = n
      /\ \A i \in 1..n : SameSeg(p[i], q[i])
  BY DEF Comparable, Alike
<1> HIDE DEF p, q
<1>2. ASSUME NEW i \in 1..n
      PROVE  /\ p[i].kind = q[i].kind
             /\ \A t : SegMatches(p[i], t) <=> SegMatches(q[i], t)
  <2>1. p[i] \in Segments /\ q[i] \in Segments
    BY <1>1
  <2>2. p[i].kind = q[i].kind /\ (p[i].kind = "literal" => p[i].text = q[i].text)
    BY <1>1, <2>1, SameSegIs
  <2> QED
    BY <2>2 DEF SegMatches
<1>3. EndsInRest(p) <=> EndsInRest(q)
  <2>1. n = 0 => p = << >> /\ q = << >>
    BY <1>1, EmptySeq
  <2>2. n # 0 => p # << >> /\ q # << >> /\ n \in 1..n
    BY <1>1
  <2> QED
    BY <1>1, <1>2, <2>1, <2>2 DEF EndsInRest
<1>4. \A i \in 1..(n - 1) : i \in 1..n
  BY <1>1
<1> HIDE DEF n
<1>5. Len(p) = n /\ Len(q) = n
  BY <1>1 DEF n
<1> QED
  BY <1>2, <1>3, <1>4, <1>5 DEF Matches, p, q

\* Patterns of the same keys are alike.
LEMMA SameKeysAlike ==
    ASSUME NEW p \in Seq(Segments), NEW q \in Seq(Segments), Keys(p) = Keys(q)
    PROVE  Len(p) = Len(q) /\ \A i \in 1..Len(p) : SameSeg(p[i], q[i])
<1>1. DOMAIN Keys(p) = 1..Len(p) /\ DOMAIN Keys(q) = 1..Len(q)
      /\ Len(p) \in Nat /\ Len(q) \in Nat
  BY DEF Keys
<1>2. Len(p) = Len(q)
  <2>1. 1..Len(p) = 1..Len(q)
    BY <1>1
  <2> QED
    BY <1>1, <2>1
<1>3. ASSUME NEW i \in 1..Len(p)
      PROVE  SameSeg(p[i], q[i])
  <2>1. Keys(p)[i] = Key(p[i]) /\ Keys(q)[i] = Key(q[i])
    BY <1>2 DEF Keys
  <2> QED
    BY <2>1 DEF SameSeg
<1> QED
  BY <1>2, <1>3

\* No two routes are alike.
NoneAlike == \A i, j \in 1..Len(entries) : Alike(entries[i], entries[j]) => i = j

\* The entries a trie answers.
TrieEntries == {i \in DOMAIN entries : ~Exact(i)}

\* After the split, either no two routes are alike or the error names two that are.
Divided ==
    /\ Parsed
    /\ pc \in {"literals", "tries"} => order = Sorted(TrieEntries)
    /\ pc # "parse" /\ error.kind = "duplicate" =>
           /\ error.route \in 1..Len(entries) /\ error.other \in 1..Len(entries)
           /\ error.route # error.other
           /\ Alike(entries[error.route], entries[error.other])
    /\ pc # "parse" /\ error.kind \in {"none", "size"} => NoneAlike

\* What the split finds: of no list a neighbour repeated, or the entries of two.
LEMMA SplitFinds ==
    ASSUME Parsed, Split
    PROVE  \/ /\ pc' = "done" /\ error'.kind = "duplicate"
              /\ error'.route \in 1..Len(entries) /\ error'.other \in 1..Len(entries)
              /\ error'.route # error'.other
              /\ Alike(entries[error'.route], entries[error'.other])
           \/ /\ pc' = "literals" /\ error' = error /\ NoneAlike
<1> DEFINE S == {i \in DOMAIN entries : Exact(i)}
           exact == Sorted(S)
           other == Sorted(TrieEntries)
           repeating == IF Repeats(exact) # {} THEN exact ELSE other
           i == CHOOSE j \in Repeats(repeating) : \A k \in Repeats(repeating) : j <= k
<1>1. IF Repeats(repeating) # {}
      THEN Fail("duplicate", entries[repeating[i]].spec, entries[repeating[i - 1]].spec)
      ELSE pc' = "literals" /\ error' = error
  BY DEF Split, TrieEntries
<1>2. S \in SUBSET DOMAIN entries /\ TrieEntries \in SUBSET DOMAIN entries
  BY DEF TrieEntries
<1>3. ASSUME NEW T \in SUBSET DOMAIN entries, NEW k \in Repeats(Sorted(T))
      PROVE  /\ Sorted(T)[k] \in DOMAIN entries /\ Sorted(T)[k - 1] \in DOMAIN entries
             /\ Sorted(T)[k] # Sorted(T)[k - 1]
             /\ SamePaths(Sorted(T)[k - 1], Sorted(T)[k])
  <2> DEFINE list == Sorted(T)
  <2>1. /\ Len(list) \in Nat
        /\ \A l \in 1..Len(list) : list[l] \in T
        /\ \A j, l \in 1..Len(list) : j < l <=> Less(list[j], list[l])
    BY SortedList
  <2>2. k \in 2..Len(list) /\ SamePaths(list[k - 1], list[k])
    BY DEF Repeats
  <2> HIDE DEF list
  <2>3. k \in 1..Len(list) /\ k - 1 \in 1..Len(list) /\ k - 1 < k /\ ~(k < k)
    BY <2>1, <2>2
  <2>4. Less(list[k - 1], list[k]) /\ ~Less(list[k], list[k])
    BY <2>1, <2>3
  <2>5. list[k] # list[k - 1]
    BY <2>4
  <2> QED
    BY <2>1, <2>2, <2>3, <2>5 DEF list
<1>4. CASE Repeats(repeating) # {}
  <2>1. i \in Repeats(repeating)
    <3>1. \A k \in Repeats(repeating) : k \in Nat
      <4>1. \A list : \A k \in Repeats(list) : k \in Nat
        BY DEF Repeats
      <4> QED
        BY <4>1
    <3> HIDE DEF repeating
    <3>2. PICK j \in Repeats(repeating) : \A k \in Repeats(repeating) : j <= k
      <4>1. Repeats(repeating) \in SUBSET Nat
        BY <3>1
      <4> QED
        BY <1>4, <4>1, LeastNumber
    <3> QED
      BY <3>2
  <2> HIDE DEF i
  <2>2. \/ i \in Repeats(Sorted(S)) /\ repeating = Sorted(S)
        \/ i \in Repeats(Sorted(TrieEntries)) /\ repeating = Sorted(TrieEntries)
    BY <2>1
  <2> DEFINE x == repeating[i]
             y == repeating[i - 1]
  <2>3. x \in DOMAIN entries /\ y \in DOMAIN entries /\ x # y /\ SamePaths(y, x)
    BY <1>2, <1>3, <2>2
  <2>4. Fail("duplicate", entries[x].spec, entries[y].spec)
    BY <1>1, <1>4
  <2> HIDE DEF x, y, repeating, S
  <2>5. /\ entries[x].spec = x /\ entries[y].spec = y
        /\ x \in 1..Len(entries) /\ y \in 1..Len(entries)
        /\ Comparable(entries[x]) /\ Comparable(entries[y])
    BY <2>3, EntriesComparable
  <2>6. Alike(entries[y], entries[x])
    BY <2>3 DEF SamePaths, Alike
  <2>7. Alike(entries[x], entries[y])
    BY <2>5, <2>6, AlikeIsEquivalence
  <2>8. pc' = "done" /\ error' = [kind |-> "duplicate", route |-> x, other |-> y]
    BY <2>4, <2>5 DEF Fail
  <2> QED
    BY <2>3, <2>5, <2>7, <2>8
<1>5. CASE Repeats(repeating) = {}
  <2>1. Repeats(Sorted(S)) = {} /\ Repeats(Sorted(TrieEntries)) = {}
    BY <1>5
  <2>2. pc' = "literals" /\ error' = error
    BY <1>1, <1>5
  <2> HIDE DEF repeating
  <2>3. ASSUME NEW x \in 1..Len(entries), NEW y \in 1..Len(entries),
               Alike(entries[x], entries[y])
        PROVE  x = y
    <3>1. x \in DOMAIN entries /\ y \in DOMAIN entries
      BY EntriesComparable
    <3>2. entries[x].method = entries[y].method
      BY <2>3 DEF Alike
    <3>3. Exact(x) <=> Exact(y)
      BY <3>2 DEF Exact
    <3>4. CASE Exact(x)
      BY <1>2, <2>1, <2>3, <3>1, <3>3, <3>4, NeighboursFindAll
    <3>5. CASE ~Exact(x)
      <4>1. x \in TrieEntries /\ y \in TrieEntries
        BY <3>1, <3>3, <3>5 DEF TrieEntries
      <4> QED
        BY <1>2, <2>1, <2>3, <4>1, NeighboursFindAll
    <3> QED
      BY <3>4, <3>5
  <2> QED
    BY <2>2, <2>3 DEF NoneAlike
<1> QED
  BY <1>4, <1>5

\* Every step of the build keeps what the split found.
LEMMA DividedStep == Divided /\ [Next]_vars => Divided'
<1> SUFFICES ASSUME Divided, [Next]_vars
             PROVE  Divided'
  OBVIOUS
<1>1. Parsed /\ Parsed'
  BY ParsedStep DEF Divided
<1>2. CASE ParseSpec
  <2>1. pc = "parse" /\ error = NoError
    BY <1>1, <1>2 DEF ParseSpec, Parsed
  <2>2. \/ pc' = "parse"
        \/ pc' = "done" /\ error'.kind \in {"method", "pattern"}
    BY <1>2, <2>1 DEF ParseSpec, Fail
  <2> QED
    BY <1>1, <2>2 DEF Divided
<1>3. CASE Split
  <2>1. entries' = entries /\ order' = Sorted(TrieEntries)
    BY <1>3 DEF Split, TrieEntries
  <2>2. /\ NoneAlike' = NoneAlike
        /\ Sorted(TrieEntries)' = Sorted(TrieEntries)
    <3>1. NoneAlike' = NoneAlike
      BY <2>1 DEF NoneAlike
    <3>2. Sorted(TrieEntries)' = Sorted(TrieEntries)
      BY <2>1 DEF Sorted, InOrder, Less, TrieEntries, Exact, ParamMethods
    <3> QED
      BY <3>1, <3>2
  <2>3. error = NoError
    BY <1>1, <1>3 DEF Split, Parsed
  <2>4. \/ /\ pc' = "done" /\ error'.kind = "duplicate"
           /\ error'.route \in 1..Len(entries) /\ error'.other \in 1..Len(entries)
           /\ error'.route # error'.other
           /\ Alike(entries[error'.route], entries[error'.other])
        \/ /\ pc' = "literals" /\ error' = error /\ NoneAlike
    BY <1>1, <1>3, SplitFinds
  <2>5. CASE pc' = "done" /\ error'.kind = "duplicate"
    BY <1>1, <2>1, <2>3, <2>4, <2>5 DEF Divided, NoError
  <2>6. CASE pc' = "literals" /\ error' = error /\ NoneAlike
    <3>1. error'.kind = "none"
      BY <2>3, <2>6 DEF NoError
    <3> QED
      BY <1>1, <2>1, <2>2, <2>6, <3>1 DEF Divided
  <2> QED
    BY <2>4, <2>5, <2>6
<1>4. CASE InsertLiteral \/ LiteralsDone \/ StartTrie \/ BuildChild \/ Return \/ UNCHANGED vars
  <2>1. /\ entries' = entries /\ order' = order /\ error' = error
        /\ pc' = pc \/ (pc = "literals" /\ pc' = "tries")
    BY <1>4 DEF InsertLiteral, LiteralsDone, StartTrie, BuildChild, Return, vars
  <2>2. /\ NoneAlike' = NoneAlike
        /\ Sorted(TrieEntries)' = Sorted(TrieEntries)
    <3>1. NoneAlike' = NoneAlike
      BY <2>1 DEF NoneAlike
    <3>2. Sorted(TrieEntries)' = Sorted(TrieEntries)
      BY <2>1 DEF Sorted, InOrder, Less, TrieEntries, Exact, ParamMethods
    <3> QED
      BY <3>1, <3>2
  <2> QED
    BY <1>1, <2>1, <2>2 DEF Divided
<1>5. CASE Finish
  <2>1. /\ entries' = entries /\ pc = "tries" /\ pc' = "done"
        /\ error'.kind = "size" \/ error' = error
    BY <1>5 DEF Finish, Fail
  <2>2. error.kind = "none"
    BY <1>1, <2>1 DEF Parsed, NoError
  <2>3. NoneAlike' = NoneAlike
    BY <2>1 DEF NoneAlike
  <2> QED
    BY <1>1, <2>1, <2>2, <2>3 DEF Divided
<1> QED
  BY <1>2, <1>3, <1>4, <1>5 DEF Next

\* docs/route-semantics.md, rule 7, of any list of routes in any order: the build
\* rejects two routes that match the same paths and names them, and rejects no
\* other routes.
THEOREM DuplicatesAreRejected == Spec => []DuplicatesRejected
<1>1. Init => Divided
  <2> SUFFICES ASSUME Init
               PROVE  Divided
    OBVIOUS
  <2>1. Parsed /\ pc = "parse"
    BY ParsedInit DEF Init
  <2> QED
    BY <2>1 DEF Divided
<1>2. ASSUME Divided
      PROVE  DuplicatesRejected
  <2> SUFFICES ASSUME Done, error.kind \in {"none", "duplicate"}
               PROVE  IF error.kind = "duplicate"
                      THEN error.route # error.other /\ SamePathsMatched(error.route, error.other)
                      ELSE \A i, j \in DOMAIN specs : SamePathsMatched(i, j) => i = j
    BY DEF DuplicatesRejected
  <2>1. Parsed /\ Len(entries) = Len(specs) /\ pc = "done"
    BY <1>2 DEF Divided, Parsed, Done
  <2>2. ASSUME NEW i \in 1..Len(entries)
        PROVE  /\ entries[i].method = specs[i].method
               /\ entries[i].pattern = specs[i].pattern
               /\ Comparable(entries[i]) /\ specs[i].pattern # Malformed
    <3>1. entries[i] = EntryOf(i) /\ Comparable(entries[i])
      BY <2>1, EntriesComparable
    <3>2. specs[i].pattern # Malformed
      BY <2>1 DEF Parsed, Accepted
    <3>3. /\ entries[i].method = specs[i].method
          /\ entries[i].pattern = specs[i].pattern
      BY <3>1 DEF EntryOf
    <3> QED
      BY <3>1, <3>2, <3>3
  <2>3. CASE error.kind = "duplicate"
    <3> DEFINE r == error.route
               o == error.other
    <3>1. /\ r \in 1..Len(entries) /\ o \in 1..Len(entries) /\ r # o
          /\ Alike(entries[r], entries[o])
      BY <1>2, <2>1, <2>3 DEF Divided
    <3>2. specs[r].method = specs[o].method
      BY <2>2, <3>1 DEF Alike
    <3>3. \A path : Matches(specs[r].pattern, path) <=> Matches(specs[o].pattern, path)
      BY <2>2, <3>1, AlikeMatch
    <3> QED
      BY <2>3, <3>1, <3>2, <3>3 DEF SamePathsMatched
  <2>4. CASE error.kind = "none"
    <3>1. ASSUME NEW i \in DOMAIN specs, NEW j \in DOMAIN specs, SamePathsMatched(i, j)
          PROVE  i = j
      <4> DEFINE p == specs[i].pattern
                 q == specs[j].pattern
      <4>1. i \in 1..Len(entries) /\ j \in 1..Len(entries)
        BY <2>1, SpecsAssumption DEF Parsed
      <4>2. /\ p \in {specs[k].pattern : k \in DOMAIN specs} \ {Malformed}
            /\ q \in {specs[k].pattern : k \in DOMAIN specs} \ {Malformed}
        BY <2>2, <4>1
      <4>3. \A path \in {x[2] : x \in DOMAIN pathHash} : Matches(p, path) <=> Matches(q, path)
        BY <3>1 DEF SamePathsMatched
      <4>4. specs \in SpecLists /\ pathHash \in PathHashes
        BY <2>1 DEF Parsed
      <4>5. Keys(p) = Keys(q)
        BY <4>2, <4>3, <4>4, PathsAssumption
      <4>6. entries[i].pattern = p /\ entries[j].pattern = q
            /\ p \in Seq(Segments) /\ q \in Seq(Segments)
        BY <2>2, <4>1 DEF Comparable
      <4>7. Len(p) = Len(q) /\ \A k \in 1..Len(p) : SameSeg(p[k], q[k])
        <5> HIDE DEF p, q
        <5> QED
          BY <4>5, <4>6, SameKeysAlike
      <4>8. entries[i].method = entries[j].method
        BY <2>2, <3>1, <4>1 DEF SamePathsMatched
      <4>9. Alike(entries[i], entries[j])
        BY <4>6, <4>7, <4>8 DEF Alike
      <4> QED
        BY <1>2, <2>1, <2>4, <4>1, <4>9 DEF Divided, NoneAlike
    <3> QED
      BY <2>4, <3>1
  <2> QED
    BY <2>3, <2>4
<1> QED
  BY <1>1, <1>2, DividedStep, PTL DEF Spec

-----------------------------------------------------------------------------
(* Lists of anything.                                                      *)

List(s) == Len(s) \in Nat /\ s = [i \in 1..Len(s) |-> s[i]]

\* A function of 1..n is a list of length n.
LEMMA ListOf ==
    ASSUME NEW s, NEW n \in Nat, s = [i \in 1..n |-> s[i]]
    PROVE  List(s) /\ Len(s) = n
<1> DEFINE S == {s[i] : i \in 1..n}
<1>1. s \in [1..n -> S]
  OBVIOUS
<1>2. s \in Seq(S)
  BY <1>1, SeqDef
<1>3. Len(s) = n
  BY <1>1, <1>2, LenProperties
<1> QED
  BY <1>3 DEF List

\* A list is a sequence of any set that has its members.
LEMMA ListIsSeq ==
    ASSUME NEW s, List(s), NEW S, \A i \in 1..Len(s) : s[i] \in S
    PROVE  s \in Seq(S)
<1>1. s \in [1..Len(s) -> S]
  BY DEF List
<1> QED
  BY <1>1, SeqDef DEF List

\* The list with one more member.
LEMMA ListAppend ==
    ASSUME NEW s, List(s), NEW e
    PROVE  /\ List(Append(s, e)) /\ Len(Append(s, e)) = Len(s) + 1
           /\ \A i \in 1..Len(s) : Append(s, e)[i] = s[i]
           /\ Append(s, e)[Len(s) + 1] = e
<1> DEFINE S == {s[i] : i \in 1..Len(s)} \cup {e}
           t == Append(s, e)
<1>1. s \in Seq(S) /\ e \in S
  BY ListIsSeq
<1> HIDE DEF S
<1>2. /\ t \in Seq(S) /\ Len(t) = Len(s) + 1
      /\ \A i \in 1..Len(s) : t[i] = s[i]
      /\ t[Len(s) + 1] = e
  BY <1>1, AppendProperties
<1>3. t = [i \in 1..Len(t) |-> t[i]] /\ Len(t) \in Nat
  BY <1>2, LenProperties
<1> QED
  BY <1>2, <1>3 DEF List

\* One list after another.
LEMMA ListConcat ==
    ASSUME NEW s, List(s), NEW t, List(t)
    PROVE  /\ List(s \o t) /\ Len(s \o t) = Len(s) + Len(t)
           /\ \A i \in 1..Len(s) : (s \o t)[i] = s[i]
           /\ \A i \in 1..Len(t) : (s \o t)[Len(s) + i] = t[i]
<1> DEFINE S == {s[i] : i \in 1..Len(s)} \cup {t[i] : i \in 1..Len(t)}
           u == s \o t
<1>1. s \in Seq(S) /\ t \in Seq(S)
  BY ListIsSeq
<1> HIDE DEF S
<1>2. /\ u \in Seq(S) /\ Len(u) = Len(s) + Len(t)
      /\ \A i \in 1..(Len(s) + Len(t)) : u[i] = IF i <= Len(s) THEN s[i] ELSE t[i - Len(s)]
  BY <1>1, ConcatProperties
<1>3. u = [i \in 1..Len(u) |-> u[i]] /\ Len(u) \in Nat
  BY <1>2, LenProperties
<1>4. Len(s) \in Nat /\ Len(t) \in Nat
  BY DEF List
<1> HIDE DEF u
<1>5. \A i \in 1..Len(s) : u[i] = s[i]
  BY <1>2, <1>4
<1>6. ASSUME NEW i \in 1..Len(t)
      PROVE  u[Len(s) + i] = t[i]
  <2>1. Len(s) + i \in 1..(Len(s) + Len(t)) /\ ~(Len(s) + i <= Len(s)) /\ (Len(s) + i) - Len(s) = i
    BY <1>4
  <2> QED
    BY <1>2, <2>1
<1> QED
  BY <1>2, <1>3, <1>5, <1>6 DEF List, u

\* The list of the first members.
LEMMA ListFirst ==
    ASSUME NEW s, List(s), NEW n \in 0..Len(s)
    PROVE  /\ List(SubSeq(s, 1, n)) /\ Len(SubSeq(s, 1, n)) = n
           /\ \A i \in 1..n : SubSeq(s, 1, n)[i] = s[i]
<1> DEFINE S == {s[i] : i \in 1..Len(s)}
           t == SubSeq(s, 1, n)
<1>1. s \in Seq(S) /\ Len(s) \in Nat /\ n \in Nat
  BY ListIsSeq DEF List
<1> HIDE DEF S
<1>2. t = [i \in 1..n |-> s[i]]
  BY <1>1
<1> HIDE DEF t
<1>3. t = [i \in 1..n |-> t[i]] /\ \A i \in 1..n : t[i] = s[i]
  BY <1>2
<1> QED
  BY <1>1, <1>3, ListOf DEF t

\* The list between two places of a list is the one of the same members.
LEMMA SubList ==
    ASSUME NEW s, List(s), NEW b \in Nat, NEW c \in Nat, b + c <= Len(s),
           NEW t, t = [k \in 1..c |-> t[k]], \A k \in 1..c : s[b + k] = t[k]
    PROVE  SubSeq(s, b + 1, b + c) = t
<1> DEFINE S == {s[i] : i \in 1..Len(s)}
<1>1. s \in Seq(S) /\ Len(s) \in Nat
  BY ListIsSeq DEF List
<1> HIDE DEF S
<1>2. SubSeq(s, b + 1, b + c) = [k \in 1..c |-> s[b + k]]
  BY <1>1
<1> QED
  BY <1>2

-----------------------------------------------------------------------------
(* The room of open addressing.                                            *)

\* The loop of pow2_at_least ends, at a number that is large enough.
LEMMA Pow2IsEnough ==
    ASSUME NEW n \in Nat
    PROVE  Pow2AtLeast(n) \in Nat /\ Pow2AtLeast(n) >= n /\ Pow2AtLeast(n) > 0
<1> DEFINE top == 2 * n + 1
           Turn(f, p) == IF p < n THEN f[2 * p] ELSE p
           Loop(f, m) == f = [p \in m..top |-> Turn(f, p)]
           Good(k) == \E f : Loop(f, top - k)
<1>1. top \in Nat /\ top >= 1 /\ \A p \in 1..top : p < n => 2 * p \in (p + 1)..top
  OBVIOUS
<1>2. Good(0)
  <2> DEFINE f == [p \in top..top |-> p]
  <2>1. \A p \in top..top : Turn(f, p) = p
    BY <1>1
  <2>2. Loop(f, top - 0)
    BY <1>1, <2>1
  <2> QED
    BY <2>2
<1>3. ASSUME NEW k \in 0..(top - 2), Good(k)
      PROVE  Good(k + 1)
  <2> DEFINE m == top - (k + 1)
  <2>1. m \in 1..top /\ m + 1 = top - k /\ m..top = ((m + 1)..top) \cup {m}
    BY <1>1, <1>3
  <2>2. PICK f : Loop(f, m + 1)
    BY <1>3, <2>1
  <2> DEFINE g == [p \in m..top |-> IF p = m THEN (IF m < n THEN f[2 * m] ELSE m) ELSE f[p]]
  <2> HIDE DEF m
  <2>3. \A p \in (m + 1)..top : f[p] = IF p < n THEN f[2 * p] ELSE p
    BY <2>2
  <2>4. ASSUME NEW p \in m..top
        PROVE  g[p] = Turn(g, p)
    <3>1. p \in 1..top
      BY <2>1
    <3>2. p < n => 2 * p \in (m + 1)..top /\ 2 * p \in m..top /\ 2 * p # m
      BY <1>1, <2>1, <3>1
    <3>3. p < n => g[2 * p] = f[2 * p]
      BY <3>2
    <3>4. CASE p = m
      BY <3>3, <3>4
    <3>5. CASE p # m
      <4>1. p \in (m + 1)..top
        BY <2>1, <3>5
      <4> QED
        BY <2>3, <3>3, <3>5, <4>1
    <3> QED
      BY <3>4, <3>5
  <2>5. Loop(g, m)
    BY <2>4
  <2> QED
    BY <2>5 DEF m
<1>4. Good(top - 1)
  <2> DEFINE D == {k \in Nat : k \in 0..(top - 1) /\ ~Good(k)}
  <2>1. CASE D = {}
    <3>1. top - 1 \in Nat /\ top - 1 \in 0..(top - 1)
      BY <1>1
    <3> HIDE DEF Good, top
    <3> QED
      BY <2>1, <3>1
  <2>2. CASE D # {}
    <3> HIDE DEF Good
    <3>1. PICK k \in D : \A j \in D : k <= j
      BY <2>2, LeastNumber
    <3>2. k # 0
      BY <1>2, <3>1
    <3>3. k - 1 \in 0..(top - 2) /\ k - 1 \notin D /\ (k - 1) + 1 = k /\ k - 1 \in Nat
          /\ k - 1 \in 0..(top - 1)
      BY <1>1, <3>1, <3>2
    <3>4. Good(k - 1)
      BY <3>3
    <3>5. Good((k - 1) + 1)
      BY <1>3, <3>3, <3>4
    <3> QED
      BY <3>1, <3>3, <3>5
  <2> QED
    BY <2>1, <2>2
<1>5. \E f : Loop(f, 1)
  <2>1. top - (top - 1) = 1
    BY <1>1
  <2> QED
    BY <1>4, <2>1
<1> DEFINE doubled == CHOOSE f : Loop(f, 1)
<1>6. Loop(doubled, 1)
  <2> HIDE DEF Loop
  <2> QED
    BY <1>5
<1>7. Pow2AtLeast(n) = doubled[1]
  BY Zenon DEF Pow2AtLeast
<1> HIDE DEF doubled
<1>8. \A p \in 1..top : doubled[p] = IF p < n THEN doubled[2 * p] ELSE p
  BY <1>6
<1> DEFINE Fine(p) == doubled[p] \in Nat /\ doubled[p] >= n /\ doubled[p] > 0
<1>9. \A p \in 1..top : Fine(p)
  <2> DEFINE D == {k \in Nat : k \in 0..(top - 1) /\ ~Fine(top - k)}
  <2>1. CASE D # {}
    <3> HIDE DEF Fine
    <3>1. PICK k \in D : \A j \in D : k <= j
      BY <2>1, LeastNumber
    <3> DEFINE p == top - k
    <3>2. p \in 1..top
      BY <1>1, <3>1
    <3>3. CASE p < n
      <4>1. 2 * p \in (p + 1)..top
        BY <1>1, <3>2, <3>3
      <4> DEFINE j == top - 2 * p
      <4>2. j \in Nat /\ j < k /\ j \in 0..(top - 1) /\ top - j = 2 * p
        BY <1>1, <3>1, <3>2, <4>1
      <4>3. Fine(2 * p)
        BY <3>1, <4>2
      <4> QED
        BY <1>8, <3>1, <3>2, <3>3, <4>3 DEF Fine
    <3>4. CASE ~(p < n)
      BY <1>8, <3>1, <3>2, <3>4 DEF Fine
    <3> QED
      BY <3>3, <3>4
  <2>2. CASE D = {}
    <3>1. ASSUME NEW p \in 1..top
          PROVE  Fine(p)
      <4>1. top - p \in Nat /\ top - p \in 0..(top - 1) /\ top - (top - p) = p
        BY <1>1
      <4> HIDE DEF Fine, top
      <4> QED
        BY <2>2, <4>1
    <3> QED
      BY <3>1
  <2> QED
    BY <2>1, <2>2
<1>10. 1 \in 1..top
  BY <1>1
<1> HIDE DEF top
<1> QED
  BY <1>7, <1>9, <1>10

\* Half the slots of an open-addressing array are room to spare.
LEMMA SlotsAreEnough ==
    ASSUME NEW n \in Nat
    PROVE  SlotsFor(n) \in Nat /\ SlotsFor(n) >= 2 * n /\ SlotsFor(n) > 0
<1>1. 2 * n \in Nat
  OBVIOUS
<1> QED
  BY <1>1, Pow2IsEnough DEF SlotsFor

\* With half its slots to spare, an array has a free one.
LEMMA RoomIsLeft ==
    ASSUME NEW n \in Nat, n > 0, NEW T \in SUBSET (1..n), NEW k \in Nat,
           2 * (Cardinality(T) + k) <= n
    PROVE  \E i \in 1..n : i \notin T
<1>1. IsFiniteSet(1..n) /\ Cardinality(1..n) = n
  <2>1. 1 \in Int /\ n \in Int
    OBVIOUS
  <2>2. IsFiniteSet(1..n) /\ Cardinality(1..n) = IF 1 > n THEN 0 ELSE n - 1 + 1
    BY <2>1, FS_Interval
  <2> QED
    BY <2>2
<1>2. Cardinality(T) \in Nat
  BY <1>1, FS_Subset, FS_CardinalityType
<1>3. T # 1..n
  BY <1>1, <1>2
<1> QED
  BY <1>3

\* Taking a slot takes one.
LEMMA OneMoreTaken ==
    ASSUME NEW n \in Nat, NEW T \in SUBSET (1..n), NEW p, NEW U \in SUBSET (T \cup {p})
    PROVE  /\ Cardinality(T) \in Nat /\ Cardinality(U) \in Nat
           /\ Cardinality(U) <= Cardinality(T) + 1
<1>1. IsFiniteSet(T) /\ Cardinality(T) \in Nat
  <2>1. IsFiniteSet(1..n)
    BY FS_Interval
  <2> QED
    BY <2>1, FS_Subset, FS_CardinalityType
<1>2. /\ IsFiniteSet(T \cup {p})
      /\ Cardinality(T \cup {p}) = IF p \in T THEN Cardinality(T) ELSE Cardinality(T) + 1
  BY <1>1, FS_AddElement
<1>3. Cardinality(U) <= Cardinality(T \cup {p}) /\ IsFiniteSet(U)
  BY <1>2, FS_Subset
<1>4. Cardinality(U) \in Nat
  BY <1>3, FS_CardinalityType
<1> QED
  BY <1>1, <1>2, <1>3, <1>4

-----------------------------------------------------------------------------
(* The exact-match slots.                                                  *)

TakenSlots == {i \in 1..Len(slots) : slots[i].route # None}

\* There is room for two slots to every exact route, in its slot or not yet.
SlotsOK ==
    /\ Parsed
    /\ List(literal)
    /\ pc = "parse" => slots = << >>
    /\ slots # << >> =>
           /\ List(slots) /\ Len(slots) > 0
           /\ 2 * (Cardinality(TakenSlots) + Len(literal)) <= Len(slots)

\* An array of empty slots.
LEMMA SlotsBegin ==
    ASSUME NEW n \in Nat, slots' = [k \in 1..n |-> NoSlot]
    PROVE  List(slots') /\ Len(slots') = n /\ TakenSlots' = {}
<1>1. slots' = [k \in 1..n |-> slots'[k]]
  OBVIOUS
<1>2. List(slots') /\ Len(slots') = n
  BY <1>1, ListOf
<1> QED
  BY <1>2 DEF TakenSlots, NoSlot

\* A route is put into a free slot, and the slots still have room for those left.
LEMMA SlotsStep ==
    SlotsOK /\ [Next]_vars =>
        /\ SlotsOK'
        /\ \A i \in DOMAIN slots : slots[i].route # None => slots'[i] = slots[i]
<1> SUFFICES ASSUME SlotsOK, [Next]_vars
             PROVE  /\ SlotsOK'
                    /\ \A i \in DOMAIN slots : slots[i].route # None => slots'[i] = slots[i]
  OBVIOUS
<1>1. Parsed /\ Parsed'
  BY ParsedStep DEF SlotsOK
<1>2. CASE ParseSpec
  <2>1. slots' = slots /\ literal' = literal /\ slots = << >>
    BY <1>2 DEF ParseSpec, SlotsOK
  <2> QED
    BY <1>1, <2>1 DEF SlotsOK
<1>3. CASE Split
  <2> DEFINE exact == Sorted({i \in DOMAIN entries : Exact(i)})
  <2>1. /\ literal' = exact /\ slots = << >>
        /\ \/ slots' = slots /\ pc' = "done"
           \/ /\ pc' = "literals"
              /\ slots' = IF exact = << >> THEN << >>
                          ELSE [k \in 1..SlotsFor(Len(exact)) |-> NoSlot]
    BY <1>3 DEF Split, SlotsOK, Fail
  <2>2. exact \in Seq({i \in DOMAIN entries : Exact(i)})
    BY <1>1, SortedList
  <2>3. List(exact) /\ Len(exact) \in Nat
    <3> HIDE DEF exact
    <3>1. Len(exact) \in Nat /\ exact = [i \in 1..Len(exact) |-> exact[i]]
      BY <2>2, LenProperties
    <3> QED
      BY <3>1 DEF List
  <2> HIDE DEF exact
  <2>4. \A i \in DOMAIN slots : slots[i].route # None => slots'[i] = slots[i]
    BY <2>1
  <2>5. CASE slots' = slots /\ pc' = "done"
    BY <1>1, <2>1, <2>3, <2>4, <2>5 DEF SlotsOK
  <2>6. CASE pc' = "literals" /\ exact = << >>
    BY <1>1, <2>1, <2>3, <2>4, <2>6 DEF SlotsOK
  <2>7. CASE pc' = "literals" /\ exact # << >>
    <3>1. SlotsFor(Len(exact)) \in Nat /\ SlotsFor(Len(exact)) >= 2 * Len(exact)
          /\ SlotsFor(Len(exact)) > 0
      BY <2>3, SlotsAreEnough
    <3>2. slots' = [k \in 1..SlotsFor(Len(exact)) |-> NoSlot]
      BY <2>1, <2>7
    <3> DEFINE n == SlotsFor(Len(exact))
    <3> HIDE DEF n
    <3>3. List(slots') /\ Len(slots') = n /\ TakenSlots' = {}
      BY <3>1, <3>2, SlotsBegin DEF n
    <3>4. Cardinality(TakenSlots') = 0
      BY <3>3, FS_EmptySet
    <3>5. 2 * (Cardinality(TakenSlots') + Len(literal')) <= Len(slots')
      BY <2>1, <2>3, <3>1, <3>3, <3>4 DEF n
    <3> QED
      BY <1>1, <2>1, <2>3, <2>4, <2>7, <3>1, <3>3, <3>5 DEF SlotsOK, n
  <2> QED
    BY <2>1, <2>5, <2>6, <2>7
<1>4. CASE InsertLiteral
  <2>1. PICK place, e :
            /\ slots' = [slots EXCEPT ![place] = e]
            /\ slots[place].route = None
    BY <1>4 DEF InsertLiteral, Steps
  <2>2. literal # << >> /\ literal' = Tail(literal) /\ pc = "literals" /\ pc' = pc
    BY <1>4 DEF InsertLiteral
  <2>3. List(literal) /\ Len(literal) \in Nat
    BY DEF SlotsOK, List
  <2>4. List(literal') /\ Len(literal') = Len(literal) - 1 /\ Len(literal') \in Nat
    <3> DEFINE S == {literal[i] : i \in 1..Len(literal)}
    <3>1. literal \in Seq(S)
      BY <2>3, ListIsSeq
    <3> HIDE DEF S
    <3>2. Tail(literal) \in Seq(S) /\ Len(Tail(literal)) = Len(literal) - 1
      BY <2>2, <3>1, HeadTailProperties
    <3>3. Len(literal') \in Nat /\ literal' = [i \in 1..Len(literal') |-> literal'[i]]
      BY <2>2, <3>2, LenProperties
    <3> QED
      BY <2>2, <3>2, <3>3 DEF List
  <2>5. \A i \in DOMAIN slots : slots[i].route # None => slots'[i] = slots[i]
    BY <2>1
  <2>6. CASE slots = << >>
    <3>1. slots' = << >>
      BY <2>1, <2>6
    <3> QED
      BY <1>1, <2>2, <2>4, <2>5, <3>1 DEF SlotsOK
  <2>7. CASE slots # << >>
    <3>1. /\ List(slots) /\ Len(slots) > 0 /\ Len(slots) \in Nat
          /\ 2 * (Cardinality(TakenSlots) + Len(literal)) <= Len(slots)
      BY <2>7 DEF SlotsOK, List
    <3>2. /\ List(slots') /\ Len(slots') = Len(slots)
          /\ \A i \in 1..Len(slots) : slots'[i] = IF i = place THEN e ELSE slots[i]
      <4>1. slots = [i \in 1..Len(slots) |-> slots[i]]
        BY <3>1 DEF List
      <4>2. /\ slots' = [i \in 1..Len(slots) |-> slots'[i]]
            /\ \A i \in 1..Len(slots) : slots'[i] = IF i = place THEN e ELSE slots[i]
        BY <2>1, <4>1
      <4> QED
        BY <3>1, <4>2, ListOf
    <3>3. TakenSlots' \in SUBSET (TakenSlots \cup {place})
      BY <3>2 DEF TakenSlots
    <3>4. TakenSlots \in SUBSET (1..Len(slots))
      BY DEF TakenSlots
    <3>5. /\ Cardinality(TakenSlots) \in Nat /\ Cardinality(TakenSlots') \in Nat
          /\ Cardinality(TakenSlots') <= Cardinality(TakenSlots) + 1
      BY <3>1, <3>3, <3>4, OneMoreTaken
    <3>6. 2 * (Cardinality(TakenSlots') + Len(literal')) <= Len(slots')
      BY <2>3, <2>4, <3>1, <3>2, <3>5
    <3> QED
      BY <1>1, <2>2, <2>4, <2>5, <3>1, <3>2, <3>6 DEF SlotsOK
  <2> QED
    BY <2>6, <2>7
<1>5. CASE LiteralsDone \/ StartTrie \/ BuildChild \/ Return \/ Finish \/ UNCHANGED vars
  <2>1. slots' = slots /\ literal' = literal /\ (pc' = "parse" => pc = "parse")
    BY <1>5 DEF LiteralsDone, StartTrie, BuildChild, Return, Finish, Fail, vars
  <2>2. TakenSlots' = TakenSlots
    BY <2>1 DEF TakenSlots
  <2> QED
    BY <1>1, <2>1, <2>2 DEF SlotsOK
<1> QED
  BY <1>2, <1>3, <1>4, <1>5 DEF Next

\* An exact-match slot is free as long as there are any.
LEMMA SlotIsFree ==
    ASSUME SlotsOK, slots # << >>
    PROVE  \E i \in DOMAIN slots : slots[i].route = None
<1>1. /\ List(slots) /\ Len(slots) > 0 /\ Len(slots) \in Nat /\ Len(literal) \in Nat
      /\ 2 * (Cardinality(TakenSlots) + Len(literal)) <= Len(slots)
  BY DEF SlotsOK, List
<1>2. TakenSlots \in SUBSET (1..Len(slots)) /\ DOMAIN slots = 1..Len(slots)
  BY <1>1 DEF TakenSlots, List
<1>3. PICK i \in 1..Len(slots) : i \notin TakenSlots
  BY <1>1, <1>2, RoomIsLeft
<1> QED
  BY <1>2, <1>3 DEF TakenSlots

-----------------------------------------------------------------------------
(* The runs of the sorted routes.                                          *)

\* The first place where a condition, a set of places, holds, or the end.
LEMMA FirstPlace ==
    ASSUME NEW l \in Nat, NEW h \in Nat, l <= h, NEW C
    PROVE  \E i \in l..h : (i = h \/ i \in C) /\ \A j \in l..(i - 1) : j \notin C
<1> DEFINE D == {i \in Nat : i \in l..h /\ (i = h \/ i \in C)}
<1>1. h \in D
  OBVIOUS
<1>2. PICK i \in D : \A j \in D : i <= j
  <2>1. D \in SUBSET Nat /\ D # {}
    BY <1>1
  <2> HIDE DEF D
  <2> QED
    BY <2>1, LeastNumber
<1>3. ASSUME NEW j \in l..(i - 1)
      PROVE  j \notin C
  BY <1>2
<1> QED
  BY <1>2, <1>3

\* While the tries are built, the list of their entries is sorted, and no two of
\* them are alike.
LEMMA OrderIs ==
    ASSUME Divided, pc = "tries"
    PROVE  /\ List(order) /\ Len(order) \in Nat
           /\ \A i \in 1..Len(order) :
                  /\ order[i] \in DOMAIN entries /\ order[i] \in TrieEntries
                  /\ Comparable(entries[order[i]]) /\ IsPattern(Pattern(i))
                  /\ Pattern(i) \in Seq(Segments) /\ Len(Pattern(i)) \in Nat
                  /\ entries[order[i]].method \in Methods
           /\ \A i, j \in 1..Len(order) :
                  i < j => /\ Before(entries[order[i]], entries[order[j]])
                           /\ ~Alike(entries[order[i]], entries[order[j]])
           /\ \A x \in TrieEntries : \E i \in 1..Len(order) : order[i] = x
<1>1. Parsed /\ order = Sorted(TrieEntries) /\ NoneAlike
  <2>1. error.kind = "none"
    BY DEF Divided, Parsed, NoError
  <2> QED
    BY <2>1 DEF Divided
<1>2. TrieEntries \in SUBSET DOMAIN entries
  BY DEF TrieEntries
<1>3. /\ order \in Seq(TrieEntries)
      /\ \A k \in 1..Len(order) : order[k] \in TrieEntries
      /\ \A x \in TrieEntries : \E k \in 1..Len(order) : order[k] = x
      /\ \A j, k \in 1..Len(order) : j < k <=> Less(order[j], order[k])
  BY <1>1, <1>2, SortedList
<1>4. List(order) /\ Len(order) \in Nat
  <2>1. Len(order) \in Nat /\ order = [i \in 1..Len(order) |-> order[i]]
    BY <1>3, LenProperties
  <2> QED
    BY <2>1 DEF List
<1>5. ASSUME NEW i \in 1..Len(order)
      PROVE  /\ order[i] \in DOMAIN entries /\ order[i] \in TrieEntries
             /\ order[i] \in 1..Len(entries)
             /\ Comparable(entries[order[i]]) /\ IsPattern(Pattern(i))
             /\ Pattern(i) \in Seq(Segments) /\ Len(Pattern(i)) \in Nat
             /\ entries[order[i]].method \in Methods
  <2>1. order[i] \in DOMAIN entries /\ order[i] \in TrieEntries
    BY <1>2, <1>3
  <2>2. /\ order[i] \in 1..Len(entries)
        /\ Comparable(entries[order[i]]) /\ IsPattern(entries[order[i]].pattern)
        /\ entries[order[i]].method \in Methods
    BY <1>1, <2>1, EntriesComparable
  <2>3. Pattern(i) \in Seq(Segments)
    BY <2>2 DEF Pattern, Comparable
  <2>4. Len(Pattern(i)) \in Nat
    BY <2>3, LenProperties
  <2> QED
    BY <2>1, <2>2, <2>3, <2>4 DEF Pattern
<1>6. ASSUME NEW i \in 1..Len(order), NEW j \in 1..Len(order), i < j
      PROVE  /\ Before(entries[order[i]], entries[order[j]])
             /\ ~Alike(entries[order[i]], entries[order[j]])
  <2>1. Less(order[i], order[j]) /\ ~Less(order[i], order[i])
    BY <1>3, <1>6
  <2>2. order[i] # order[j]
    BY <2>1
  <2>3. ~Alike(entries[order[i]], entries[order[j]])
    BY <1>1, <1>5, <2>2 DEF NoneAlike
  <2> QED
    BY <1>1, <1>5, <2>1, <2>3, LessMeans
<1> QED
  BY <1>3, <1>4, <1>5, <1>6

\* The entries [l, h) are of one method and share their first `depth` segments.
Shares(l, h, m, depth) ==
    /\ l \in 1..Len(order) /\ h \in (l + 1)..(Len(order) + 1) /\ depth \in Nat
    /\ \A i \in l..(h - 1) :
           /\ entries[order[i]].method = m /\ Len(Pattern(i)) >= depth
           /\ \A d \in 1..depth : SameSeg(Pattern(i)[d], Pattern(l)[d])

\* Of entries that share their first segments, those that end there come first,
\* and as no two are alike there is one at most.
LEMMA LongerIs ==
    ASSUME Divided, pc = "tries", NEW l, NEW h, NEW m, NEW depth, Shares(l, h, m, depth)
    PROVE  LET x == Longer(l, h, depth)
           IN  /\ x \in l..h /\ x \in {l, l + 1}
               /\ x = l + 1 <=> Len(Pattern(l)) = depth
               /\ \A i \in x..(h - 1) : Len(Pattern(i)) > depth
<1> DEFINE x == Longer(l, h, depth)
<1>1. /\ l \in 1..Len(order) /\ h \in (l + 1)..(Len(order) + 1) /\ depth \in Nat
      /\ l \in Nat /\ h \in Nat /\ l <= h /\ l < h /\ Len(order) \in Nat
  BY OrderIs DEF Shares
<1>2. \A i \in l..(h - 1) :
          /\ i \in 1..Len(order) /\ Len(Pattern(i)) \in Nat /\ Len(Pattern(i)) >= depth
          /\ entries[order[i]].method = m
          /\ Comparable(entries[order[i]]) /\ Pattern(i) \in Seq(Segments)
          /\ \A d \in 1..depth : SameSeg(Pattern(i)[d], Pattern(l)[d])
  BY <1>1, OrderIs DEF Shares
<1>3. /\ x \in l..h
      /\ x = h \/ Len(Pattern(x)) # depth
      /\ \A j \in l..(x - 1) : Len(Pattern(j)) = depth
  <2> DEFINE C == {i \in Nat : Len(Pattern(i)) # depth}
             P(i) == (i = h \/ Len(Pattern(i)) # depth)
                     /\ \A j \in l..(i - 1) : ~(Len(Pattern(j)) # depth)
  <2>1. PICK i \in l..h : (i = h \/ i \in C) /\ \A j \in l..(i - 1) : j \notin C
    BY <1>1, FirstPlace
  <2>2. P(i)
    BY <1>1, <2>1
  <2>3. x = CHOOSE k \in l..h : P(k)
    BY DEF Longer, FirstFrom
  <2> HIDE DEF P, x
  <2>4. x \in l..h /\ P(x)
    BY <2>2, <2>3
  <2> QED
    BY <2>4 DEF P
<1> HIDE DEF x
<1>4. ASSUME NEW i \in l..(h - 1), NEW j \in l..(h - 1), i < j, Len(Pattern(j)) = depth
      PROVE  FALSE
  <2> DEFINE a == entries[order[i]]
             b == entries[order[j]]
             p == a.pattern
             q == b.pattern
  <2>1. /\ Comparable(a) /\ Comparable(b) /\ a.method = b.method
        /\ p \in Seq(Segments) /\ q \in Seq(Segments)
        /\ Len(p) \in Nat /\ Len(q) = depth /\ Len(p) >= depth
    BY <1>2, <1>4 DEF Pattern
  <2>2. Before(a, b) /\ ~Alike(a, b)
    BY <1>2, <1>4, OrderIs
  <2>3. \A d \in 1..depth : SameSeg(p[d], q[d])
    BY <1>2, <1>4 DEF SameSeg, Pattern
  <2> HIDE DEF a, b
  <2>4. \A d \in 1..Len(p) : d \in 1..Len(q) => SameSeg(p[d], q[d])
    BY <2>1, <2>3
  <2>5. Before(a, b) <=> Len(p) < Len(q)
    BY <2>1, <2>4, BeforeDecided
  <2> QED
    BY <1>1, <2>1, <2>2, <2>5
<1>5. \A i \in x..(h - 1) : Len(Pattern(i)) > depth
  <2>1. ASSUME NEW i \in x..(h - 1)
        PROVE  Len(Pattern(i)) > depth
    <3>1. /\ i \in l..(h - 1) /\ x \in l..(h - 1) /\ (x = i \/ x < i)
      BY <1>1, <1>3
    <3>2. Len(Pattern(i)) # depth
      BY <1>1, <1>3, <1>4, <3>1
    <3> QED
      BY <1>1, <1>2, <3>1, <3>2
  <2> QED
    BY <2>1
<1>6. x \in {l, l + 1}
  <2>1. ASSUME x > l + 1
        PROVE  FALSE
    <3>1. /\ l \in l..(h - 1) /\ l + 1 \in l..(h - 1) /\ l < l + 1
          /\ l + 1 \in l..(x - 1)
      BY <1>1, <1>3, <2>1
    <3>2. Len(Pattern(l + 1)) = depth
      BY <1>3, <3>1
    <3> QED
      BY <1>4, <3>1, <3>2
  <2> QED
    BY <1>1, <1>3, <2>1
<1>7. x = l + 1 <=> Len(Pattern(l)) = depth
  <2>1. x = l + 1 => l \in l..(x - 1)
    BY <1>1
  <2>2. x = l => l \in x..(h - 1) /\ l # l + 1
    BY <1>1
  <2>3. x = l => Len(Pattern(l)) > depth
    BY <1>5, <2>2
  <2>4. Len(Pattern(l)) > depth => Len(Pattern(l)) # depth
    BY <1>1
  <2> QED
    BY <1>1, <1>3, <1>6, <2>1, <2>2, <2>3, <2>4
<1> QED
  BY <1>3, <1>5, <1>6, <1>7 DEF x

\* A run of the entries that are longer starts where a segment differs from the
\* one before, and its entries share one segment more.
LEMMA RunsAre ==
    ASSUME Divided, pc = "tries", NEW l, NEW h, NEW m, NEW depth, Shares(l, h, m, depth),
           NEW r \in Runs(Longer(l, h, depth), h, depth)
    PROVE  /\ r.from \in Longer(l, h, depth)..(h - 1) /\ r.from \in l..(h - 1)
           /\ r.from \in 1..Len(order) /\ r.from \in Nat
           /\ r.to \in (r.from + 1)..h
           /\ r.kind = Pattern(r.from)[depth + 1].kind
           /\ r = [kind |-> Pattern(r.from)[depth + 1].kind, from |-> r.from, to |-> r.to]
           /\ Pattern(r.from)[depth + 1] \in Segments
           /\ Shares(r.from, r.to, m, depth + 1)
<1> DEFINE x == Longer(l, h, depth)
           Seg(i) == Pattern(i)[depth + 1]
           starts == {i \in x..(h - 1) : i = x \/ ~SameSeg(Seg(i - 1), Seg(i))}
           End(i) == FirstFrom(i + 1, h, LAMBDA j : j \in starts)
<1>1. /\ l \in 1..Len(order) /\ h \in (l + 1)..(Len(order) + 1) /\ depth \in Nat
      /\ l \in Nat /\ h \in Nat /\ l < h /\ Len(order) \in Nat
  BY OrderIs DEF Shares
<1>2. x \in l..h /\ x \in Nat /\ \A i \in x..(h - 1) : Len(Pattern(i)) > depth
  BY <1>1, LongerIs
<1>3. PICK f \in starts : r = [kind |-> Seg(f).kind, from |-> f, to |-> End(f)]
  BY DEF Runs
<1> HIDE DEF x
<1>4. f \in x..(h - 1) /\ f \in l..(h - 1) /\ f \in Nat /\ f \in 1..Len(order)
  BY <1>1, <1>2, <1>3
<1>5. /\ End(f) \in (f + 1)..h
      /\ \A j \in (f + 1)..(End(f) - 1) : j \notin starts
  <2> DEFINE P(i) == (i = h \/ i \in starts) /\ \A j \in (f + 1)..(i - 1) : ~(j \in starts)
  <2>1. f + 1 \in Nat /\ f + 1 <= h
    BY <1>1, <1>4
  <2> HIDE DEF starts
  <2>2. \E i \in (f + 1)..h : P(i)
    BY <1>1, <2>1, FirstPlace
  <2>3. End(f) = CHOOSE i \in (f + 1)..h : P(i)
    BY DEF FirstFrom
  <2> HIDE DEF P, End
  <2>4. End(f) \in (f + 1)..h /\ P(End(f))
    BY <2>2, <2>3
  <2> QED
    BY <2>4 DEF P
<1> HIDE DEF End
<1> DEFINE t == End(f)
<1>6. t \in Nat /\ t > f /\ t <= h /\ \A i \in f..(t - 1) : i \in x..(h - 1) /\ i \in l..(h - 1)
  BY <1>1, <1>4, <1>5, <1>2
<1> HIDE DEF t
<1>7. \A i \in l..(h - 1) :
          /\ i \in 1..Len(order) /\ Len(Pattern(i)) \in Nat
          /\ Pattern(i) \in Seq(Segments)
          /\ entries[order[i]].method = m
          /\ \A d \in 1..depth : SameSeg(Pattern(i)[d], Pattern(l)[d])
  BY <1>1, OrderIs DEF Shares
<1>8. \A i \in f..(t - 1) : SameSeg(Seg(i), Seg(f))
  <2> DEFINE D == {i \in Nat : i \in f..(t - 1) /\ ~SameSeg(Seg(i), Seg(f))}
  <2>1. ASSUME D # {}
        PROVE  FALSE
    <3>1. PICK i \in D : \A j \in D : i <= j
      BY <2>1, LeastNumber
    <3>2. i # f /\ i \in f..(t - 1)
      BY <3>1 DEF SameSeg
    <3>3. i - 1 \in Nat /\ i - 1 \in f..(t - 1) /\ i \in (f + 1)..(t - 1) /\ i # x
          /\ i \in x..(h - 1) /\ i - 1 < i
      BY <1>2, <1>4, <1>6, <3>2
    <3>4. SameSeg(Seg(i - 1), Seg(f))
      BY <3>1, <3>3
    <3>5. i \notin starts
      BY <1>5, <3>3 DEF t
    <3>6. SameSeg(Seg(i - 1), Seg(i))
      BY <3>3, <3>5
    <3> HIDE DEF Seg
    <3>7. SameSeg(Seg(i), Seg(f))
      BY <3>4, <3>6 DEF SameSeg
    <3> QED
      BY <3>1, <3>7
  <2>2. \A i \in f..(t - 1) : i \in Nat
    BY <1>4, <1>6
  <2> HIDE DEF Seg
  <2> QED
    BY <2>1, <2>2
<1>9. Seg(f) \in Segments
  <2>1. Pattern(f) \in Seq(Segments) /\ depth + 1 \in 1..Len(Pattern(f))
    BY <1>1, <1>2, <1>4, <1>7
  <2> QED
    BY <2>1
<1>10. Shares(f, t, m, depth + 1)
  <2>1. f \in 1..Len(order) /\ t \in (f + 1)..(Len(order) + 1) /\ depth + 1 \in Nat
    BY <1>1, <1>4, <1>6
  <2>2. ASSUME NEW i \in f..(t - 1)
        PROVE  /\ entries[order[i]].method = m /\ Len(Pattern(i)) >= depth + 1
               /\ \A d \in 1..(depth + 1) : SameSeg(Pattern(i)[d], Pattern(f)[d])
    <3>1. i \in x..(h - 1) /\ i \in l..(h - 1)
      BY <1>6
    <3>2. Len(Pattern(i)) >= depth + 1 /\ entries[order[i]].method = m
      BY <1>1, <1>2, <1>7, <3>1
    <3>3. ASSUME NEW d \in 1..(depth + 1)
          PROVE  SameSeg(Pattern(i)[d], Pattern(f)[d])
      <4>1. CASE d \in 1..depth
        BY <1>4, <1>7, <3>1, <4>1 DEF SameSeg
      <4>2. CASE d = depth + 1
        BY <1>8, <4>2
      <4> QED
        BY <1>1, <4>1, <4>2
    <3> QED
      BY <3>2, <3>3
  <2> QED
    BY <2>1, <2>2 DEF Shares
<1> HIDE DEF Seg, starts
<1>11. r.from = f /\ r.to = t /\ r.kind = Seg(f).kind
  BY <1>3 DEF t
<1> QED
  BY <1>3, <1>4, <1>5, <1>9, <1>10, <1>11 DEF Seg, t, x

\* A list of runs has each once, by their places.
LEMMA RunsListed ==
    ASSUME Divided, pc = "tries", NEW l, NEW h, NEW m, NEW depth, Shares(l, h, m, depth),
           NEW T \in SUBSET Runs(Longer(l, h, depth), h, depth)
    PROVE  /\ List(ByPlace(T)) /\ Len(ByPlace(T)) = Cardinality(T) /\ Cardinality(T) \in Nat
           /\ IsFiniteSet(T)
           /\ \A k \in 1..Len(ByPlace(T)) : ByPlace(T)[k] \in T
           /\ \A r \in T : \E k \in 1..Len(ByPlace(T)) : ByPlace(T)[k] = r
           /\ \A j, k \in 1..Len(ByPlace(T)) :
                  j < k <=> ByPlace(T)[j].from < ByPlace(T)[k].from
<1> DEFINE R == {z \in T \X T : z[1].from < z[2].from}
           n == Cardinality(T)
           list == ByPlace(T)
           Place(r) == Cardinality({y \in T : y.from < r.from})
           x == Longer(l, h, depth)
<1>1. IsFiniteSet(T)
  <2> DEFINE Seg(i) == Pattern(i)[depth + 1]
             starts == {i \in x..(h - 1) : i = x \/ ~SameSeg(Seg(i - 1), Seg(i))}
             Run(i) == [kind |-> Seg(i).kind, from |-> i,
                        to |-> FirstFrom(i + 1, h, LAMBDA j : j \in starts)]
  <2>1. x \in Int /\ h - 1 \in Int
    <3>1. x \in l..h
      BY LongerIs
    <3>2. h \in Int /\ l \in Int
      BY OrderIs DEF Shares
    <3> HIDE DEF x
    <3> QED
      BY <3>1, <3>2
  <2>2. IsFiniteSet(starts)
    <3> HIDE DEF x
    <3>1. IsFiniteSet(x..(h - 1))
      BY <2>1, FS_Interval
    <3> QED
      BY <3>1, FS_Subset
  <2>3. Runs(x, h, depth) = {Run(i) : i \in starts}
    BY DEF Runs
  <2> HIDE DEF starts, Run
  <2>4. IsFiniteSet({Run(i) : i \in starts})
    <3> DEFINE f == [i \in starts |-> Run(i)]
    <3>1. f \in Surjection(starts, {Run(i) : i \in starts})
      BY DEF Surjection
    <3> QED
      BY <2>2, <3>1, FS_Surjection
  <2> QED
    BY <2>3, <2>4, FS_Subset
<1>2. \A r \in T : r.from \in Nat
  BY RunsAre
<1>3. ASSUME NEW r \in T, NEW s \in T, r.from = s.from
      PROVE  r = s
  <2> DEFINE starts == {i \in x..(h - 1) :
                            i = x \/ ~SameSeg(Pattern(i - 1)[depth + 1], Pattern(i)[depth + 1])}
             Run(i) == [kind |-> Pattern(i)[depth + 1].kind, from |-> i,
                        to |-> FirstFrom(i + 1, h, LAMBDA j : j \in starts)]
  <2>1. PICK i, j : r = Run(i) /\ s = Run(j)
    BY DEF Runs
  <2>2. r.from = i /\ s.from = j
    BY <2>1
  <2> HIDE DEF Run
  <2> QED
    BY <1>3, <2>1, <2>2
<1>4. \A r, s \in T : <<r, s>> \in R <=> r.from < s.from
  OBVIOUS
<1>5. IsOrder(R, T)
  <2>1. \A r \in T : <<r, r>> \notin R
    BY <1>2, <1>4
  <2>2. \A r, s \in T : r # s => <<r, s>> \in R \/ <<s, r>> \in R
    BY <1>2, <1>3, <1>4
  <2>3. ASSUME NEW a \in T, NEW b \in T, NEW c \in T, <<a, b>> \in R, <<b, c>> \in R
        PROVE  <<a, c>> \in R
    <3>1. a.from < b.from /\ b.from < c.from
      BY <1>4, <2>3
    <3>2. a.from < c.from
      BY <1>2, <3>1
    <3> QED
      BY <1>4, <3>2
  <2> HIDE DEF R
  <2> QED
    BY <2>1, <2>2, <2>3 DEF IsOrder
<1>6. \A r \in T : Preceding(T, R, r) = {y \in T : y.from < r.from}
  BY DEF Preceding
<1> HIDE DEF R, x
<1>7. /\ n \in Nat
      /\ \A r \in T : Place(r) \in 0..(n - 1)
      /\ \A r, s \in T : r.from < s.from <=> Place(r) < Place(s)
      /\ \A k \in 1..n : \E r \in T : Place(r) = k - 1
  <2>1. /\ n \in Nat
        /\ \A r \in T : Cardinality(Preceding(T, R, r)) \in 0..(n - 1)
        /\ \A r, s \in T : <<r, s>> \in R <=> Cardinality(Preceding(T, R, r)) < Cardinality(Preceding(T, R, s))
        /\ \A k \in 1..n : \E r \in T : Cardinality(Preceding(T, R, r)) = k - 1
    BY <1>1, <1>5, Places
  <2>2. \A r \in T : Place(r) = Cardinality(Preceding(T, R, r))
    BY <1>6
  <2> HIDE DEF Place, n
  <2> QED
    BY <1>4, <2>1, <2>2
<1>8. list = [k \in 1..n |-> CHOOSE r \in T : Place(r) = k - 1]
  BY DEF ByPlace, InOrder
<1> HIDE DEF list, n, Place
<1>9. \A k \in 1..n : list[k] \in T /\ Place(list[k]) = k - 1
  BY <1>7, <1>8
<1>10. List(list) /\ Len(list) = n
  <2>1. list = [k \in 1..n |-> list[k]]
    BY <1>8
  <2> QED
    BY <1>7, <2>1, ListOf
<1>11. ASSUME NEW r \in T
       PROVE  \E k \in 1..n : list[k] = r
  <2> DEFINE k == Place(r) + 1
  <2>1. k \in 1..n /\ Place(r) = k - 1 /\ Place(r) \in Nat
    BY <1>7
  <2>2. list[k] \in T /\ Place(list[k]) = Place(r)
    BY <1>9, <2>1
  <2>3. ~(r.from < list[k].from) /\ ~(list[k].from < r.from)
    BY <1>7, <2>1, <2>2
  <2>4. list[k].from = r.from
    BY <1>2, <2>2, <2>3
  <2> QED
    BY <1>3, <2>1, <2>2, <2>4
<1>12. ASSUME NEW j \in 1..n, NEW k \in 1..n
       PROVE  j < k <=> list[j].from < list[k].from
  <2>1. j - 1 < k - 1 <=> j < k
    BY <1>7
  <2> QED
    BY <1>7, <1>9, <2>1
<1> QED
  BY <1>1, <1>7, <1>9, <1>10, <1>11, <1>12 DEF list, n

-----------------------------------------------------------------------------
(* The nodes and their edges.                                              *)

\* The edge slots of a node that are taken.
Taken(n, es) == {i \in 1..n.count : es[n.edges + i].child # None}

IsNode(n) ==
    /\ n = [edges |-> n.edges, count |-> n.count, hashed |-> n.hashed,
            branches |-> n.branches, route |-> n.route, kids |-> n.kids]
    /\ n.edges \in Nat /\ n.count \in Nat /\ n.hashed \in BOOLEAN

\* The nodes have edge slots of their own, one after another, and a hashed node
\* two for every edge.
LaidOut(ns, es) ==
    /\ List(ns) /\ List(es)
    /\ \A id \in 1..Len(ns) :
           /\ IsNode(ns[id])
           /\ ns[id].edges + ns[id].count <= Len(es)
           /\ ns[id].hashed => /\ ns[id].count > 0
                               /\ 2 * Cardinality(Taken(ns[id], es)) <= ns[id].count
    /\ \A a, b \in 1..Len(ns) : a < b => ns[a].edges + ns[a].count <= ns[b].edges

\* The literal children a call has not built, or not yet delivered.
Unbuilt(f) == IF f.next <= f.count THEN f.count - f.next + 1 ELSE 0

\* A call's node has room for them.
HasRoom(f, ns, es) ==
    LET n == ns[f.self]
    IN  /\ f.self \in 1..Len(ns) /\ f.next \in Nat \ {0} /\ f.count \in Nat
        /\ n.hashed => 2 * (Cardinality(Taken(n, es)) + Unbuilt(f)) <= n.count
        /\ ~n.hashed => /\ n.count = f.count
                        /\ \A i \in f.next..f.count : es[n.edges + i].child = None

\* A node added takes its slots after all others.
LEMMA NodeAdded ==
    ASSUME NEW ns, NEW es, LaidOut(ns, es), NEW n, IsNode(n), n.edges = Len(es),
           n.hashed => n.count > 0,
           NEW new, new = [k \in 1..n.count |-> NoEdge]
    PROVE  /\ LaidOut(Append(ns, n), es \o new)
           /\ Taken(n, es \o new) = {}
           /\ \A i \in 1..n.count : (es \o new)[n.edges + i] = NoEdge
           /\ \A f : HasRoom(f, ns, es) => HasRoom(f, Append(ns, n), es \o new)
<1> DEFINE ns1 == Append(ns, n)
           es1 == es \o new
<1>1. /\ List(ns) /\ List(es) /\ Len(ns) \in Nat /\ Len(es) \in Nat
      /\ n.count \in Nat /\ n.edges \in Nat
  BY DEF LaidOut, IsNode, List
<1>2. List(new) /\ Len(new) = n.count /\ \A k \in 1..n.count : new[k] = NoEdge
  <2>1. new = [k \in 1..n.count |-> new[k]]
    OBVIOUS
  <2> QED
    BY <1>1, <2>1, ListOf
<1>3. /\ List(ns1) /\ Len(ns1) = Len(ns) + 1
      /\ \A i \in 1..Len(ns) : ns1[i] = ns[i]
      /\ ns1[Len(ns) + 1] = n
  BY <1>1, ListAppend
<1>4. /\ List(es1) /\ Len(es1) = Len(es) + n.count
      /\ \A i \in 1..Len(es) : es1[i] = es[i]
      /\ \A i \in 1..n.count : es1[Len(es) + i] = NoEdge
  <2>1. /\ List(es1) /\ Len(es1) = Len(es) + Len(new)
        /\ \A i \in 1..Len(es) : es1[i] = es[i]
        /\ \A i \in 1..Len(new) : es1[Len(es) + i] = new[i]
    BY <1>1, <1>2, ListConcat
  <2> HIDE DEF es1
  <2> QED
    BY <1>2, <2>1
<1> HIDE DEF ns1, es1
<1>5. \A i \in 1..n.count : es1[n.edges + i] = NoEdge
  BY <1>4
<1>6. Taken(n, es1) = {}
  BY <1>5 DEF Taken, NoEdge
<1>7. ASSUME NEW id \in 1..Len(ns)
      PROVE  /\ ns1[id] = ns[id]
             /\ \A i \in 1..ns[id].count : es1[ns[id].edges + i] = es[ns[id].edges + i]
             /\ Taken(ns[id], es1) = Taken(ns[id], es)
  <2>1. ns[id].edges \in Nat /\ ns[id].count \in Nat /\ ns[id].edges + ns[id].count <= Len(es)
    BY DEF LaidOut, IsNode
  <2>2. \A i \in 1..ns[id].count : ns[id].edges + i \in 1..Len(es)
    BY <1>1, <2>1
  <2> QED
    BY <1>3, <1>4, <2>2 DEF Taken
<1>8. LaidOut(ns1, es1)
  <2>1. ASSUME NEW id \in 1..Len(ns1)
        PROVE  /\ IsNode(ns1[id])
               /\ ns1[id].edges + ns1[id].count <= Len(es1)
               /\ ns1[id].hashed => /\ ns1[id].count > 0
                                    /\ 2 * Cardinality(Taken(ns1[id], es1)) <= ns1[id].count
    <3>1. CASE id \in 1..Len(ns)
      <4>1. /\ IsNode(ns[id]) /\ ns[id].edges + ns[id].count <= Len(es)
            /\ ns[id].hashed => /\ ns[id].count > 0
                                /\ 2 * Cardinality(Taken(ns[id], es)) <= ns[id].count
            /\ ns[id].edges \in Nat /\ ns[id].count \in Nat
        BY <3>1 DEF LaidOut, IsNode
      <4> QED
        BY <1>1, <1>4, <1>7, <3>1, <4>1
    <3>2. CASE id = Len(ns) + 1
      <4>1. Cardinality(Taken(n, es1)) = 0
        BY <1>6, FS_EmptySet
      <4> QED
        BY <1>1, <1>3, <1>4, <3>2, <4>1
    <3> QED
      BY <1>1, <1>3, <3>1, <3>2
  <2>2. ASSUME NEW a \in 1..Len(ns1), NEW b \in 1..Len(ns1), a < b
        PROVE  ns1[a].edges + ns1[a].count <= ns1[b].edges
    <3>1. a \in 1..Len(ns)
      BY <1>1, <1>3, <2>2
    <3>2. CASE b \in 1..Len(ns)
      BY <1>3, <2>2, <3>1, <3>2 DEF LaidOut
    <3>3. CASE b = Len(ns) + 1
      BY <1>3, <3>1, <3>3 DEF LaidOut
    <3> QED
      BY <1>1, <1>3, <3>2, <3>3
  <2> QED
    BY <1>3, <1>4, <2>1, <2>2 DEF LaidOut
<1>9. ASSUME NEW f, HasRoom(f, ns, es)
      PROVE  HasRoom(f, ns1, es1)
  <2>1. f.self \in 1..Len(ns) /\ f.next \in Nat \ {0} /\ f.count \in Nat
    BY <1>9 DEF HasRoom
  <2>2. /\ f.self \in 1..Len(ns1) /\ ns1[f.self] = ns[f.self]
        /\ Taken(ns[f.self], es1) = Taken(ns[f.self], es)
        /\ \A i \in 1..ns[f.self].count : es1[ns[f.self].edges + i] = es[ns[f.self].edges + i]
    BY <1>1, <1>3, <1>7, <2>1
  <2>3. \A i \in f.next..f.count : i \in 1..f.count
    BY <2>1
  <2> QED
    BY <1>9, <2>1, <2>2, <2>3 DEF HasRoom
<1> QED
  BY <1>5, <1>6, <1>8, <1>9 DEF ns1, es1

\* Nodes that differ in no slot are laid out alike.
LEMMA SlotsKept ==
    ASSUME NEW ns, NEW es, LaidOut(ns, es), NEW ns1, List(ns1), Len(ns1) = Len(ns),
           \A id \in 1..Len(ns) :
               /\ IsNode(ns1[id])
               /\ ns1[id].edges = ns[id].edges /\ ns1[id].count = ns[id].count
               /\ ns1[id].hashed = ns[id].hashed
    PROVE  /\ LaidOut(ns1, es)
           /\ \A f : HasRoom(f, ns, es) => HasRoom(f, ns1, es)
<1>1. \A id \in 1..Len(ns) : Taken(ns1[id], es) = Taken(ns[id], es)
  BY DEF Taken
<1>2. LaidOut(ns1, es)
  <2>1. ASSUME NEW id \in 1..Len(ns)
        PROVE  /\ ns1[id].edges + ns1[id].count <= Len(es)
               /\ ns1[id].hashed => /\ ns1[id].count > 0
                                    /\ 2 * Cardinality(Taken(ns1[id], es)) <= ns1[id].count
    BY <1>1 DEF LaidOut
  <2>2. ASSUME NEW a \in 1..Len(ns), NEW b \in 1..Len(ns), a < b
        PROVE  ns1[a].edges + ns1[a].count <= ns1[b].edges
    BY <2>2 DEF LaidOut
  <2>3. List(es)
    BY DEF LaidOut
  <2> QED
    BY <2>1, <2>2, <2>3 DEF LaidOut
<1>3. ASSUME NEW f, HasRoom(f, ns, es)
      PROVE  HasRoom(f, ns1, es)
  <2>1. f.self \in 1..Len(ns)
    BY <1>3 DEF HasRoom
  <2> QED
    BY <1>1, <1>3, <2>1 DEF HasRoom
<1> QED
  BY <1>2, <1>3

\* An edge list with one edge put into a place of it.
Put(es, place, e, es1) ==
    /\ List(es1) /\ Len(es1) = Len(es)
    /\ \A i \in 1..Len(es) : es1[i] = IF i = place THEN e ELSE es[i]

\* A call, before and after one of its children is delivered.
Advanced(f, f1) ==
    /\ f1.lo = f.lo /\ f1.hi = f.hi /\ f1.depth = f.depth
    /\ f1.self = f.self /\ f1.base = f.base /\ f1.count = f.count
    /\ f1.next = f.next + 1

\* An edge put into a free slot of a call's own node leaves all other nodes as they
\* were, and the room the call still needs.
LEMMA EdgePut ==
    ASSUME NEW ns, NEW es, LaidOut(ns, es), NEW f, HasRoom(f, ns, es), f.next <= f.count,
           NEW place \in (ns[f.self].edges + 1)..(ns[f.self].edges + ns[f.self].count),
           ~ns[f.self].hashed => place = ns[f.self].edges + f.next,
           NEW e, NEW es1, Put(es, place, e, es1), NEW f1, Advanced(f, f1)
    PROVE  /\ LaidOut(ns, es1)
           /\ HasRoom(f1, ns, es1)
           /\ \A g : HasRoom(g, ns, es) /\ g.self # f.self => HasRoom(g, ns, es1)
<1> DEFINE n == ns[f.self]
<1>1. /\ List(ns) /\ List(es) /\ Len(ns) \in Nat /\ Len(es) \in Nat
      /\ f.self \in 1..Len(ns) /\ f.next \in Nat /\ f.next > 0 /\ f.count \in Nat
      /\ n.edges \in Nat /\ n.count \in Nat
  BY DEF LaidOut, IsNode, List, HasRoom
<1>2. place \in Nat /\ place > n.edges /\ place <= n.edges + n.count
  BY <1>1
<1>3. \A i \in 1..Len(es) : es1[i] = IF i = place THEN e ELSE es[i]
  BY DEF Put
<1>4. /\ List(es1) /\ Len(es1) = Len(es)
      /\ f1.self = f.self /\ f1.count = f.count /\ f1.next = f.next + 1
  BY DEF Put, Advanced
<1>5. ASSUME NEW id \in 1..Len(ns)
      PROVE  /\ ns[id].edges \in Nat /\ ns[id].count \in Nat
             /\ \A i \in 1..ns[id].count : ns[id].edges + i \in 1..Len(es)
  <2> DEFINE s == ns[id].edges
             c == ns[id].count
  <2>1. s \in Nat /\ c \in Nat /\ s + c <= Len(es)
    BY DEF LaidOut, IsNode
  <2> DEFINE room == Len(es)
  <2>2. room \in Nat
    BY <1>1
  <2> HIDE DEF s, c, room
  <2>3. \A i \in 1..c : s + i \in 1..room
    BY <2>1, <2>2 DEF room
  <2> QED
    BY <2>1, <2>3 DEF s, c, room
<1>6. ASSUME NEW id \in 1..Len(ns), id # f.self
      PROVE  /\ \A i \in 1..ns[id].count : es1[ns[id].edges + i] = es[ns[id].edges + i]
             /\ Taken(ns[id], es1) = Taken(ns[id], es)
  <2>1. id < f.self \/ f.self < id
    BY <1>1, <1>6
  <2>2. \/ ns[id].edges + ns[id].count <= n.edges
        \/ n.edges + n.count <= ns[id].edges
    BY <1>1, <2>1 DEF LaidOut
  <2>3. \A i \in 1..ns[id].count : ns[id].edges + i # place
    <3> DEFINE s == ns[id].edges
               c == ns[id].count
               t == n.edges
               d == n.count
    <3>1. /\ s \in Nat /\ c \in Nat /\ t \in Nat /\ d \in Nat
          /\ place > t /\ place <= t + d
          /\ s + c <= t \/ t + d <= s
      BY <1>1, <1>2, <1>5, <2>2
    <3> HIDE DEF s, c, t, d
    <3>2. \A i \in 1..c : s + i # place
      BY <1>2, <3>1
    <3> QED
      BY <3>2 DEF s, c
  <2>4. \A i \in 1..ns[id].count : es1[ns[id].edges + i] = es[ns[id].edges + i]
    BY <1>3, <1>5, <2>3
  <2> QED
    BY <2>4 DEF Taken
<1>7. /\ Cardinality(Taken(n, es)) \in Nat /\ Cardinality(Taken(n, es1)) \in Nat
      /\ Cardinality(Taken(n, es1)) <= Cardinality(Taken(n, es)) + 1
  <2>1. Taken(n, es) \in SUBSET (1..n.count)
    BY DEF Taken
  <2>2. Taken(n, es1) \in SUBSET (Taken(n, es) \cup {place - n.edges})
    <3>1. ASSUME NEW i \in 1..n.count, i # place - n.edges
          PROVE  es1[n.edges + i] = es[n.edges + i]
      <4>1. n.edges + i \in 1..Len(es) /\ n.edges + i # place
        <5> DEFINE s == n.edges
                   c == n.count
        <5>1. s \in Nat /\ place \in Nat /\ i \in 1..c /\ i # place - s /\ c \in Nat
          BY <1>1, <1>2, <3>1
        <5> HIDE DEF s, c
        <5>2. s + i # place
          BY ONLY <5>1
        <5>3. n.edges + i \in 1..Len(es)
          BY <1>1, <1>5
        <5> QED
          BY <5>2, <5>3 DEF s
      <4> QED
        BY <1>3, <4>1
    <3> QED
      BY <3>1 DEF Taken
  <2> QED
    BY <1>1, <2>1, <2>2, OneMoreTaken
<1>8. /\ Unbuilt(f) = f.count - f.next + 1 /\ Unbuilt(f1) = f.count - f.next
      /\ Unbuilt(f1) \in Nat /\ f1.next \in Nat \ {0} /\ f1.count \in Nat
  BY <1>1, <1>4 DEF Unbuilt
<1> HIDE DEF n
<1>9. n.hashed =>
          /\ 2 * (Cardinality(Taken(n, es1)) + Unbuilt(f1)) <= n.count
          /\ 2 * Cardinality(Taken(n, es1)) <= n.count
  <2> DEFINE c == Cardinality(Taken(n, es))
             d == Cardinality(Taken(n, es1))
             u == Unbuilt(f)
             v == Unbuilt(f1)
             k == n.count
  <2>1. n.hashed => 2 * (c + u) <= k
    BY DEF HasRoom, n
  <2>2. c \in Nat /\ d \in Nat /\ d <= c + 1
    BY <1>7
  <2>3. v \in Nat /\ u = v + 1 /\ k \in Nat
    BY <1>1, <1>8
  <2> HIDE DEF c, d, u, v, k
  <2>4. n.hashed => 2 * (d + v) <= k /\ 2 * d <= k
    BY <2>1, <2>2, <2>3
  <2> QED
    BY <2>4 DEF c, d, u, v, k
<1>10. LaidOut(ns, es1)
  <2>1. ASSUME NEW id \in 1..Len(ns), ns[id].hashed
        PROVE  /\ ns[id].count > 0
               /\ 2 * Cardinality(Taken(ns[id], es1)) <= ns[id].count
    <3>1. CASE id = f.self
      BY <1>9, <2>1, <3>1 DEF LaidOut, n
    <3>2. CASE id # f.self
      BY <1>6, <2>1, <3>2 DEF LaidOut
    <3> QED
      BY <3>1, <3>2
  <2> QED
    BY <1>4, <2>1 DEF LaidOut
<1>11. HasRoom(f1, ns, es1)
  <2>1. ~n.hashed => /\ n.count = f1.count
                     /\ \A i \in f1.next..f1.count : es1[n.edges + i].child = None
    <3>1. ASSUME ~n.hashed
          PROVE  /\ n.count = f1.count
                 /\ \A i \in f1.next..f1.count : es1[n.edges + i].child = None
      <4>1. n.count = f.count /\ \A i \in f.next..f.count : es[n.edges + i].child = None
        BY <3>1 DEF HasRoom, n
      <4>2. place = n.edges + f.next
        BY <3>1 DEF n
      <4>3. ASSUME NEW i \in f1.next..f1.count
            PROVE  es1[n.edges + i].child = None
        <5>1. i \in f.next..f.count /\ i \in 1..n.count /\ n.edges + i # place
          BY <1>1, <1>4, <4>1, <4>2
        <5>2. n.edges + i \in 1..Len(es)
          BY <1>1, <1>5, <5>1 DEF n
        <5> QED
          BY <1>3, <4>1, <5>1, <5>2
      <4> QED
        BY <1>4, <4>1, <4>3
    <3> QED
      BY <3>1
  <2> QED
    BY <1>1, <1>4, <1>8, <1>9, <2>1 DEF HasRoom, n
<1>12. ASSUME NEW g, HasRoom(g, ns, es), g.self # f.self
       PROVE  HasRoom(g, ns, es1)
  <2>1. g.self \in 1..Len(ns) /\ g.next \in Nat \ {0} /\ g.count \in Nat
    BY <1>12 DEF HasRoom
  <2>2. /\ Taken(ns[g.self], es1) = Taken(ns[g.self], es)
        /\ \A i \in 1..ns[g.self].count : es1[ns[g.self].edges + i] = es[ns[g.self].edges + i]
    BY <1>6, <1>12, <2>1
  <2>3. \A i \in g.next..g.count : i \in 1..g.count
    BY <2>1
  <2> QED
    BY <1>12, <2>1, <2>2, <2>3 DEF HasRoom
<1> QED
  BY <1>10, <1>11, <1>12

-----------------------------------------------------------------------------
(* The calls under way and their groups.                                   *)

IsFrame(f) ==
    /\ f = [method |-> f.method, lo |-> f.lo, hi |-> f.hi, depth |-> f.depth,
            self |-> f.self, base |-> f.base, count |-> f.count,
            others |-> f.others, next |-> f.next, kids |-> f.kids]
    /\ Shares(f.lo, f.hi, f.method, f.depth)
    /\ f.count = Len(LiteralRuns(f.lo, f.hi, f.depth)) /\ f.count \in Nat
    /\ f.others = OtherRuns(f.lo, f.hi, f.depth) /\ Len(f.others) \in Nat
    /\ f.base \in Nat /\ f.next \in Nat \ {0}

\* The groups a call still has on the stack: all, until its last is built.
Held(f) == IF f.next <= f.count THEN f.count ELSE 0

HasGroups(f, gs) ==
    f.next <= f.count =>
        /\ f.base + f.count <= Len(gs)
        /\ \A k \in 1..f.count : gs[f.base + k] = LiteralRuns(f.lo, f.hi, f.depth)[k]

\* Each call has its groups above those of its callers, and nothing is above the
\* last one's.
Stacked(fs, gs) ==
    /\ List(fs) /\ List(gs)
    /\ \A i \in 1..Len(fs) : IsFrame(fs[i]) /\ HasGroups(fs[i], gs)
    /\ \A i, j \in 1..Len(fs) :
           i < j => fs[i].self < fs[j].self /\ fs[i].base + Held(fs[i]) <= fs[j].base
    /\ \A i \in 1..(Len(fs) - 1) : fs[i + 1].base = fs[i].base + Held(fs[i])
    /\ Len(fs) > 0 => fs[1].base = 0 /\ Len(gs) = fs[Len(fs)].base + Held(fs[Len(fs)])
    /\ Len(fs) = 0 => Len(gs) = 0

\* What a call holds, as numbers.
LEMMA HeldIs ==
    ASSUME NEW f, IsFrame(f)
    PROVE  /\ Held(f) \in Nat /\ f.base \in Nat /\ f.count \in Nat /\ f.next \in Nat
           /\ f.next > 0
           /\ f.next <= f.count => Held(f) = f.count
           /\ f.next > f.count => Held(f) = 0
BY DEF IsFrame, Held

\* A call that begins puts its groups on top.
LEMMA CallBegins ==
    ASSUME NEW fs, NEW gs, Stacked(fs, gs), NEW f, IsFrame(f), f.base = Len(gs), f.next = 1,
           \A i \in 1..Len(fs) : fs[i].self < f.self,
           NEW lits, List(lits), Len(lits) = f.count,
           \A k \in 1..f.count : lits[k] = LiteralRuns(f.lo, f.hi, f.depth)[k]
    PROVE  Stacked(Append(fs, f), gs \o lits)
<1> DEFINE fs1 == Append(fs, f)
           gs1 == gs \o lits
           n == Len(fs)
           g == Len(gs)
<1>1. List(fs) /\ List(gs) /\ n \in Nat /\ g \in Nat /\ f.count \in Nat
  BY DEF Stacked, List, IsFrame
<1>2. /\ List(fs1) /\ Len(fs1) = n + 1
      /\ \A i \in 1..n : fs1[i] = fs[i]
      /\ fs1[n + 1] = f
  BY <1>1, ListAppend
<1>3. /\ List(gs1) /\ Len(gs1) = g + f.count
      /\ \A i \in 1..g : gs1[i] = gs[i]
      /\ \A k \in 1..f.count : gs1[g + k] = lits[k]
  <2>1. /\ List(gs1) /\ Len(gs1) = Len(gs) + Len(lits)
        /\ \A i \in 1..Len(gs) : gs1[i] = gs[i]
        /\ \A k \in 1..Len(lits) : gs1[Len(gs) + k] = lits[k]
    <3>1. List(gs) /\ List(lits)
      BY <1>1
    <3> QED
      BY ONLY <3>1, ListConcat
  <2> HIDE DEF gs1
  <2> QED
    BY <2>1
<1> HIDE DEF fs1, gs1, n, g
<1>4. Held(f) = f.count
  BY <1>1 DEF Held
<1>5. \A i \in 1..n :
          /\ IsFrame(fs[i]) /\ HasGroups(fs[i], gs)
          /\ Held(fs[i]) \in Nat /\ fs[i].base \in Nat /\ fs[i].count \in Nat
  BY HeldIs DEF Stacked, n
<1>6. ASSUME NEW i \in 1..n
      PROVE  HasGroups(fs[i], gs1)
  <2> DEFINE b == fs[i].base
             c == fs[i].count
  <2>1. ASSUME fs[i].next <= c
        PROVE  /\ b + c <= Len(gs1)
               /\ \A k \in 1..c : gs1[b + k] = LiteralRuns(fs[i].lo, fs[i].hi, fs[i].depth)[k]
    <3>1. /\ b + c <= g /\ b \in Nat /\ c \in Nat
          /\ \A k \in 1..c : gs[b + k] = LiteralRuns(fs[i].lo, fs[i].hi, fs[i].depth)[k]
      BY <1>5, <2>1 DEF HasGroups, g
    <3> HIDE DEF b, c
    <3>2. \A k \in 1..c : b + k \in 1..g
      BY <1>1, <3>1
    <3>3. b + c <= Len(gs1)
      BY <1>1, <1>3, <3>1
    <3> QED
      BY <1>3, <3>1, <3>2, <3>3
  <2> QED
    BY <2>1 DEF HasGroups
<1>7. HasGroups(f, gs1)
  BY <1>1, <1>3 DEF HasGroups, g
<1>8. n > 0 => g = fs[n].base + Held(fs[n])
  BY DEF Stacked, n, g
<1>9. n = 0 => g = 0
  BY DEF Stacked, n, g
<1>10. ASSUME NEW i \in 1..n
       PROVE  fs[i].base + Held(fs[i]) <= f.base
  <2> DEFINE a == fs[i].base
             x == Held(fs[i])
             b == fs[n].base
             y == Held(fs[n])
  <2>1. n \in 1..n /\ (i = n \/ i < n)
    BY <1>1
  <2>2. a \in Nat /\ x \in Nat /\ b \in Nat /\ y \in Nat /\ g = b + y
    BY <1>5, <1>8, <2>1, <1>1
  <2>3. i < n => a + x <= b
    BY <2>1 DEF Stacked, n
  <2>4. i = n => a = b /\ x = y
    OBVIOUS
  <2> HIDE DEF a, x, b, y
  <2>5. a + x <= g
    BY <2>1, <2>2, <2>3, <2>4
  <2> QED
    BY <2>5 DEF a, x, g
<1>11. ASSUME NEW i \in 1..(n + 1), NEW j \in 1..(n + 1), i < j
       PROVE  fs1[i].self < fs1[j].self /\ fs1[i].base + Held(fs1[i]) <= fs1[j].base
  <2>1. i \in 1..n
    BY <1>1, <1>11
  <2>2. CASE j \in 1..n
    <3>1. fs[i].self < fs[j].self /\ fs[i].base + Held(fs[i]) <= fs[j].base
      BY <1>11, <2>1, <2>2 DEF Stacked, n
    <3> QED
      BY <1>2, <2>1, <2>2, <3>1
  <2>3. CASE j = n + 1
    <3>1. fs1[j] = f /\ fs1[i] = fs[i]
      BY <1>2, <2>1, <2>3
    <3>2. fs[i].self < f.self
      BY <2>1 DEF n
    <3> QED
      BY <1>10, <2>1, <3>1, <3>2
  <2> QED
    BY <1>1, <2>2, <2>3
<1>12. ASSUME NEW i \in 1..n
       PROVE  fs1[i + 1].base = fs1[i].base + Held(fs1[i])
  <2>1. CASE i = n
    <3>1. fs1[i + 1] = f /\ fs1[i] = fs[n] /\ n > 0
      BY <1>1, <1>2, <2>1
    <3> QED
      BY <1>8, <3>1 DEF g
  <2>2. CASE i # n
    <3>1. i \in 1..(n - 1) /\ i + 1 \in 1..n
      BY <1>1, <2>2
    <3>2. fs1[i + 1] = fs[i + 1] /\ fs1[i] = fs[i]
      BY <1>2, <3>1
    <3>3. fs[i + 1].base = fs[i].base + Held(fs[i])
      BY <3>1 DEF Stacked, n
    <3> QED
      BY <3>2, <3>3
  <2> QED
    BY <2>1, <2>2
<1>13. fs1[1].base = 0 /\ Len(gs1) = fs1[n + 1].base + Held(fs1[n + 1])
  <2>1. Len(gs1) = fs1[n + 1].base + Held(fs1[n + 1])
    BY <1>2, <1>3, <1>4 DEF g
  <2>2. CASE n = 0
    <3>1. fs1[1] = f
      BY <1>2, <2>2
    <3> QED
      BY <1>9, <2>1, <2>2, <3>1 DEF g
  <2>3. CASE n # 0
    <3>1. 1 \in 1..n /\ n > 0
      BY <1>1, <2>3
    <3>2. fs[1].base = 0
      BY <3>1 DEF Stacked, n
    <3> QED
      BY <1>2, <2>1, <3>1, <3>2
  <2> QED
    BY <2>1, <2>2, <2>3
<1>14. \A i \in 1..(n + 1) : IsFrame(fs1[i]) /\ HasGroups(fs1[i], gs1)
  <2>1. \A i \in 1..(n + 1) : i \in 1..n \/ i = n + 1
    BY <1>1
  <2> QED
    BY <1>2, <1>5, <1>6, <1>7, <2>1
<1>15. (n + 1) - 1 = n /\ n + 1 > 0 /\ n + 1 # 0
  BY <1>1
<1> QED
  BY <1>2, <1>3, <1>11, <1>12, <1>13, <1>14, <1>15 DEF Stacked, fs1, gs1

\* The calls, and their groups, before and after the last one returns.
Left(fs, c1, fs1) ==
    /\ List(fs1) /\ Len(fs1) = Len(fs) - 1
    /\ \A i \in 1..(Len(fs) - 1) : fs1[i] = IF i = Len(fs) - 1 THEN c1 ELSE fs[i]

Dropped(c, gs, gs1) == gs1 = IF c.next = c.count THEN SubSeq(gs, 1, c.base) ELSE gs

\* A call that returns leaves its caller's groups on top, which the caller drops
\* when that child was its last literal one.
LEMMA CallReturns ==
    ASSUME NEW fs, NEW gs, Stacked(fs, gs), Len(fs) > 1, NEW c, c = fs[Len(fs) - 1],
           fs[Len(fs)].next > fs[Len(fs)].count,
           NEW c1, IsFrame(c1), Advanced(c, c1), NEW fs1, Left(fs, c1, fs1),
           NEW gs1, Dropped(c, gs, gs1)
    PROVE  Stacked(fs1, gs1)
<1>0. /\ c1.lo = c.lo /\ c1.hi = c.hi /\ c1.depth = c.depth
      /\ c1.self = c.self /\ c1.base = c.base /\ c1.count = c.count /\ c1.next = c.next + 1
      /\ List(fs1) /\ Len(fs1) = Len(fs) - 1
      /\ \A i \in 1..(Len(fs) - 1) : fs1[i] = IF i = Len(fs) - 1 THEN c1 ELSE fs[i]
      /\ c.next = c.count => gs1 = SubSeq(gs, 1, c.base)
      /\ c.next # c.count => gs1 = gs
  BY DEF Advanced, Left, Dropped
<1> USE <1>0
<1> DEFINE n == Len(fs) - 1
           g == Len(gs)
           top == fs[n + 1]
<1>1. /\ List(fs) /\ List(gs) /\ n \in Nat /\ n > 0 /\ g \in Nat /\ Len(fs) = n + 1
      /\ n \in 1..Len(fs) /\ n + 1 \in 1..Len(fs)
  BY DEF Stacked, List
<1>2. /\ IsFrame(c) /\ IsFrame(top) /\ HasGroups(c, gs)
      /\ top.base = c.base + Held(c) /\ g = top.base + Held(top)
  <2>1. n \in 1..(Len(fs) - 1) /\ Len(fs) > 0
    BY <1>1
  <2> QED
    BY <1>1, <2>1 DEF Stacked
<1>3. /\ Held(c) \in Nat /\ c.base \in Nat /\ c.count \in Nat /\ c.next \in Nat
      /\ c.next <= c.count => Held(c) = c.count
      /\ c.next > c.count => Held(c) = 0
      /\ Held(top) = 0
  BY <1>1, <1>2, HeldIs
<1>4. Held(c1) = IF c.next + 1 <= c.count THEN c.count ELSE 0
  BY DEF Held
<1>5. top.base \in Nat
  BY <1>2 DEF IsFrame
<1> HIDE DEF n, g, top
<1>6. g = c.base + Held(c)
  BY <1>2, <1>3, <1>5
<1>7. /\ List(gs1) /\ Len(gs1) = c.base + Held(c1) /\ Len(gs1) <= g
      /\ Len(gs1) \in Nat
      /\ \A i \in 1..Len(gs1) : gs1[i] = gs[i]
  <2>1. CASE c.next = c.count
    <3>1. c.base \in 0..g /\ Held(c1) = 0
      BY <1>1, <1>3, <1>4, <1>6, <2>1
    <3>2. gs1 = SubSeq(gs, 1, c.base) /\ List(gs) /\ c.base \in 0..Len(gs)
      BY <1>1, <2>1, <3>1 DEF g
    <3>3. /\ List(gs1) /\ Len(gs1) = c.base
          /\ \A i \in 1..c.base : gs1[i] = gs[i]
      BY ONLY <3>2, ListFirst
    <3> QED
      BY <1>1, <1>3, <3>1, <3>3
  <2>2. CASE c.next # c.count
    <3>1. gs1 = gs
      BY <2>2
    <3>2. Held(c1) = Held(c)
      BY <1>3, <1>4, <2>2
    <3>3. Len(gs1) = g /\ g = c.base + Held(c1) /\ g \in Nat
      BY <1>1, <1>6, <3>1, <3>2 DEF g
    <3>4. \A i \in 1..Len(gs1) : gs1[i] = gs[i]
      BY <3>1
    <3>5. List(gs1)
      <4>1. List(gs)
        BY <1>1
      <4> QED
        BY ONLY <3>1, <4>1
    <3>6. Len(gs1) \in Nat /\ Len(gs1) <= g
      BY ONLY <3>3
    <3> QED
      BY ONLY <3>3, <3>4, <3>5, <3>6
  <2> QED
    BY <2>1, <2>2
<1>8. \A i \in 1..n : fs1[i] = IF i = n THEN c1 ELSE fs[i]
  BY DEF n
<1>9. \A i \in 1..(n - 1) : fs1[i] = fs[i] /\ i \in 1..n /\ i < n
  BY <1>1, <1>8
<1>10. ASSUME NEW i \in 1..(n - 1)
       PROVE  /\ IsFrame(fs[i]) /\ HasGroups(fs[i], gs)
              /\ fs[i].self < c.self /\ fs[i].base + Held(fs[i]) <= c.base
              /\ Held(fs[i]) \in Nat /\ fs[i].base \in Nat /\ fs[i].count \in Nat
              /\ fs[i].next \in Nat
              /\ fs[i].next <= fs[i].count => Held(fs[i]) = fs[i].count
  <2>1. i \in 1..Len(fs) /\ i < n /\ c = fs[n]
    BY <1>1 DEF n
  <2>2. IsFrame(fs[i]) /\ HasGroups(fs[i], gs)
        /\ fs[i].self < c.self /\ fs[i].base + Held(fs[i]) <= c.base
    BY <1>1, <2>1 DEF Stacked
  <2> QED
    BY <2>2, HeldIs
<1>11. ASSUME NEW i \in 1..(n - 1)
       PROVE  HasGroups(fs[i], gs1)
  <2> DEFINE b == fs[i].base
             d == fs[i].count
  <2>1. ASSUME fs[i].next <= d
        PROVE  /\ b + d <= Len(gs1)
               /\ \A k \in 1..d : gs1[b + k] = LiteralRuns(fs[i].lo, fs[i].hi, fs[i].depth)[k]
    <3>1. /\ b + d <= c.base /\ b \in Nat /\ d \in Nat
          /\ \A k \in 1..d : gs[b + k] = LiteralRuns(fs[i].lo, fs[i].hi, fs[i].depth)[k]
      BY <1>10, <2>1 DEF HasGroups
    <3> HIDE DEF b, d
    <3>2. Held(c1) \in Nat
      BY <1>3, <1>4
    <3>3. b + d <= Len(gs1)
      BY <1>3, <1>7, <3>1, <3>2
    <3>4. \A k \in 1..d : b + k \in 1..Len(gs1)
      <4> DEFINE g1 == Len(gs1)
      <4>1. g1 \in Nat /\ b \in Nat /\ d \in Nat /\ b + d <= g1
        BY <1>7, <3>1, <3>3
      <4>2. \A k \in 1..d : b + k \in 1..g1
        BY ONLY <4>1
      <4> QED
        BY <4>2
    <3> QED
      BY <1>7, <3>1, <3>3, <3>4
  <2> QED
    BY <2>1 DEF HasGroups
<1>12. HasGroups(c1, gs1)
  <2>1. ASSUME c1.next <= c1.count
        PROVE  /\ c1.base + c1.count <= Len(gs1)
               /\ \A k \in 1..c1.count :
                      gs1[c1.base + k] = LiteralRuns(c1.lo, c1.hi, c1.depth)[k]
    <3>1. Held(c1) = c.count /\ c.next <= c.count
      BY <1>3, <1>4, <2>1
    <3>2. \A k \in 1..c.count : gs[c.base + k] = LiteralRuns(c.lo, c.hi, c.depth)[k]
      BY <1>2, <3>1 DEF HasGroups
    <3>3. \A k \in 1..c.count : c.base + k \in 1..Len(gs1)
      BY <1>3, <1>7, <3>1
    <3>4. c.base + c.count <= Len(gs1)
      BY <1>3, <1>7, <3>1
    <3> QED
      BY <1>7, <3>2, <3>3, <3>4
  <2> QED
    BY <2>1 DEF HasGroups
<1>13. ASSUME NEW i \in 1..n, NEW j \in 1..n, i < j
       PROVE  fs1[i].self < fs1[j].self /\ fs1[i].base + Held(fs1[i]) <= fs1[j].base
  <2>1. i \in 1..(n - 1) /\ fs1[i] = fs[i]
    BY <1>1, <1>9, <1>13
  <2>2. CASE j = n
    BY <1>8, <1>10, <2>1, <2>2
  <2>3. CASE j # n
    <3>1. fs1[j] = fs[j] /\ i \in 1..Len(fs) /\ j \in 1..Len(fs)
      BY <1>1, <1>8, <2>3
    <3>2. fs[i].self < fs[j].self /\ fs[i].base + Held(fs[i]) <= fs[j].base
      BY <1>13, <3>1 DEF Stacked
    <3> QED
      BY <2>1, <3>1, <3>2
  <2> QED
    BY <2>2, <2>3
<1>14. ASSUME NEW i \in 1..(n - 1)
       PROVE  fs1[i + 1].base = fs1[i].base + Held(fs1[i])
  <2>1. fs1[i] = fs[i] /\ i + 1 \in 1..n /\ i \in 1..(Len(fs) - 1)
    BY <1>1, <1>9
  <2>2. fs[i + 1].base = fs[i].base + Held(fs[i])
    BY <2>1 DEF Stacked
  <2>3. i + 1 = n => fs[i + 1] = c
    BY DEF n
  <2>4. fs1[i + 1].base = fs[i + 1].base
    BY <1>8, <2>1, <2>3
  <2> QED
    BY <2>1, <2>2, <2>4
<1>15. fs1[1].base = 0 /\ Len(gs1) = fs1[n].base + Held(fs1[n])
  <2>1. 1 \in 1..n /\ n \in 1..n
    BY <1>1
  <2>2. fs[1].base = 0
    BY <1>1 DEF Stacked
  <2>3. 1 = n => fs[1] = c
    BY DEF n
  <2>4. fs1[1].base = 0
    BY <1>8, <2>1, <2>2, <2>3
  <2>5. fs1[n] = c1
    BY <1>8, <2>1
  <2> QED
    BY <1>7, <2>4, <2>5
<1>16. \A i \in 1..n : IsFrame(fs1[i]) /\ HasGroups(fs1[i], gs1)
  <2>1. \A i \in 1..n : i \in 1..(n - 1) \/ i = n
    BY <1>1
  <2> QED
    BY <1>8, <1>9, <1>10, <1>11, <1>12, <2>1
<1>17. Len(fs1) = n /\ n > 0 /\ n # 0
  BY <1>1 DEF n
<1> QED
  BY <1>7, <1>13, <1>14, <1>15, <1>16, <1>17 DEF Stacked

\* What the calls rest on moves only with the routes and their order.
LEMMA CallsRest ==
    ASSUME UNCHANGED <<entries, order>>
    PROVE  /\ \A f : IsFrame(f)' <=> IsFrame(f)
           /\ \A fs, gs : Stacked(fs, gs)' <=> Stacked(fs, gs)
<1>1. \A l, h, m, depth : Shares(l, h, m, depth)' <=> Shares(l, h, m, depth)
  BY DEF Shares, Pattern
<1>2. \A l, h, depth : LiteralRuns(l, h, depth)' = LiteralRuns(l, h, depth)
  BY DEF LiteralRuns, ByPlace, InOrder, Runs, Longer, FirstFrom, Pattern
<1>3. \A l, h, depth : OtherRuns(l, h, depth)' = OtherRuns(l, h, depth)
  BY DEF OtherRuns, ByPlace, InOrder, Runs, Longer, FirstFrom, Pattern
<1>4. \A f : IsFrame(f)' <=> IsFrame(f)
  BY <1>1, <1>2, <1>3 DEF IsFrame
<1>5. \A f, gs : HasGroups(f, gs)' <=> HasGroups(f, gs)
  BY <1>2 DEF HasGroups
<1>6. \A fs, gs : Stacked(fs, gs)' <=> Stacked(fs, gs)
  BY <1>4, <1>5 DEF Stacked
<1> QED
  BY <1>4, <1>6

\* The build's nodes, edges, groups and calls, together.
Building ==
    /\ Divided
    /\ LaidOut(nodes, edges)
    /\ Stacked(frames, groups)
    /\ \A i \in 1..Len(frames) : HasRoom(frames[i], nodes, edges)
    /\ frames # << >> => pc = "tries"
    /\ lo \in Nat \ {0}

\* A call that begins keeps them, and every edge.
LEMMA EnterStep ==
    ASSUME Building, pc = "tries", Divided', UNCHANGED <<entries, order, pc>>,
           lo' \in Nat \ {0},
           NEW m, NEW l, NEW h, NEW depth, Shares(l, h, m, depth),
           Enter(frames, m, l, h, depth)
    PROVE  Building' /\ \A i \in DOMAIN edges : edges'[i] = edges[i]
<1> DEFINE rest == Longer(l, h, depth)
           lits == LiteralRuns(l, h, depth)
           others == OtherRuns(l, h, depth)
           hashed == Len(lits) > LinearEdges
           size == IF hashed THEN SlotsFor(Len(lits)) ELSE Len(lits)
           n == [edges |-> Len(edges), count |-> size, hashed |-> hashed,
                 branches |-> Len(others) + (IF lits = << >> THEN 0 ELSE 1),
                 route |-> IF rest > l THEN entries[order[rest - 1]].route ELSE None,
                 kids |-> NoKids]
           new == [k \in 1..size |-> NoEdge]
           f == [method |-> m, lo |-> l, hi |-> h, depth |-> depth,
                 self |-> NewNode, base |-> Len(groups), count |-> Len(lits),
                 others |-> others, next |-> 1, kids |-> NoKids]
<1>1. /\ nodes' = Append(nodes, n) /\ edges' = edges \o new
      /\ groups' = groups \o lits /\ frames' = Append(frames, f)
  BY DEF Enter
<1>2. /\ Divided /\ LaidOut(nodes, edges) /\ Stacked(frames, groups)
      /\ List(nodes) /\ List(edges) /\ List(groups) /\ List(frames)
      /\ Len(nodes) \in Nat /\ Len(edges) \in Nat /\ Len(groups) \in Nat
      /\ Len(frames) \in Nat
  BY DEF Building, LaidOut, Stacked, List
<1>3. List(lits) /\ Len(lits) \in Nat
  <2> DEFINE T == {r \in Runs(Longer(l, h, depth), h, depth) : r.kind = "literal"}
  <2>1. lits = ByPlace(T) /\ T \in SUBSET Runs(Longer(l, h, depth), h, depth)
    BY DEF LiteralRuns
  <2> HIDE DEF T
  <2>2. List(ByPlace(T))
    BY <1>2, <2>1, RunsListed
  <2> QED
    BY <2>1, <2>2 DEF List
<1>4. Len(others) \in Nat
  <2> DEFINE T == {r \in Runs(Longer(l, h, depth), h, depth) : r.kind # "literal"}
  <2>1. others = ByPlace(T) /\ T \in SUBSET Runs(Longer(l, h, depth), h, depth)
    BY DEF OtherRuns
  <2> HIDE DEF T
  <2>2. List(ByPlace(T))
    BY <1>2, <2>1, RunsListed
  <2> QED
    BY <2>1, <2>2 DEF List
<1> HIDE DEF lits, others, rest
<1>5. LinearEdges \in Nat
  BY TableAssumption
<1>6. /\ size \in Nat /\ hashed \in BOOLEAN
      /\ hashed => size >= 2 * Len(lits) /\ size > 0
      /\ ~hashed => size = Len(lits)
  BY <1>3, <1>5, SlotsAreEnough
<1> HIDE DEF size, hashed
<1>7. /\ IsNode(n) /\ n.edges = Len(edges) /\ n.count = size /\ n.hashed = hashed
      /\ n.hashed => n.count > 0
  BY <1>2, <1>6 DEF IsNode
<1>8. /\ f.lo = l /\ f.hi = h /\ f.depth = depth /\ f.method = m /\ f.self = Len(nodes) + 1
      /\ f.base = Len(groups) /\ f.count = Len(lits) /\ f.others = others /\ f.next = 1
  BY DEF NewNode
<1>9. IsFrame(f)
  BY <1>2, <1>3, <1>4 DEF IsFrame, lits, others
<1>10. new = [k \in 1..n.count |-> NoEdge]
  BY <1>7
<1> HIDE DEF n, f, new
<1>11. /\ LaidOut(nodes', edges')
       /\ Taken(n, edges') = {}
       /\ \A i \in 1..n.count : edges'[n.edges + i] = NoEdge
       /\ \A g : HasRoom(g, nodes, edges) => HasRoom(g, nodes', edges')
  BY <1>1, <1>2, <1>7, <1>10, NodeAdded
<1>12. \A i \in 1..Len(frames) :
           HasRoom(frames[i], nodes, edges) /\ frames[i].self \in 1..Len(nodes)
  BY DEF Building, HasRoom
<1>13. HasRoom(f, nodes', edges')
  <2>1. nodes'[f.self] = n /\ f.self \in 1..Len(nodes')
    <3>1. /\ Len(nodes') = Len(nodes) + 1
          /\ nodes'[Len(nodes) + 1] = n
      BY <1>1, <1>2, ListAppend
    <3> QED
      BY <1>2, <1>8, <3>1
  <2>2. Cardinality(Taken(n, edges')) = 0
    BY <1>11, FS_EmptySet
  <2>3. Unbuilt(f) <= Len(lits) /\ Unbuilt(f) \in Nat
    BY <1>3, <1>8 DEF Unbuilt
  <2>4. n.hashed => 2 * (Cardinality(Taken(n, edges')) + Unbuilt(f)) <= n.count
    BY <1>3, <1>6, <1>7, <2>2, <2>3
  <2>5. ~n.hashed => /\ n.count = f.count
                     /\ \A i \in f.next..f.count : edges'[n.edges + i].child = None
    <3>1. NoEdge.child = None
      BY DEF NoEdge
    <3>2. ~n.hashed => n.count = f.count
      BY <1>6, <1>7, <1>8
    <3>3. ~n.hashed => \A i \in f.next..f.count : i \in 1..n.count
      BY <1>8, <3>2
    <3> QED
      BY <1>11, <3>1, <3>2, <3>3
  <2> QED
    BY <1>3, <1>8, <2>1, <2>4, <2>5 DEF HasRoom
<1>14. Stacked(frames', groups')
  <2>1. \A i \in 1..Len(frames) : frames[i].self < f.self
    BY <1>2, <1>8, <1>12
  <2>2. \A k \in 1..f.count : lits[k] = LiteralRuns(f.lo, f.hi, f.depth)[k]
    BY <1>8 DEF lits
  <2> QED
    BY <1>1, <1>2, <1>3, <1>8, <1>9, <2>1, <2>2, CallBegins
<1>15. \A i \in 1..Len(frames') : HasRoom(frames'[i], nodes', edges')
  <2>1. /\ Len(frames') = Len(frames) + 1
        /\ \A i \in 1..Len(frames) : frames'[i] = frames[i]
        /\ frames'[Len(frames) + 1] = f
    BY <1>1, <1>2, ListAppend
  <2>2. \A i \in 1..Len(frames') : i \in 1..Len(frames) \/ i = Len(frames) + 1
    BY <1>2, <2>1
  <2> QED
    BY <1>11, <1>12, <1>13, <2>1, <2>2
<1>16. \A i \in DOMAIN edges : edges'[i] = edges[i]
  <2>1. List(new)
    <3>1. new = [k \in 1..n.count |-> new[k]] /\ n.count \in Nat
      BY <1>6, <1>7, <1>10
    <3> QED
      BY <3>1, ListOf
  <2>2. \A i \in 1..Len(edges) : (edges \o new)[i] = edges[i]
    BY <1>2, <2>1, ListConcat
  <2>3. DOMAIN edges = 1..Len(edges)
    BY <1>2 DEF List
  <2> QED
    BY <1>1, <2>2, <2>3
<1> QED
  BY <1>11, <1>14, <1>15, <1>16, CallsRest DEF Building

\* The run of a call's next child is one of its runs.
LEMMA NextRunIs ==
    ASSUME Building, NEW i \in 1..Len(frames), NEW f, f = frames[i],
           f.next <= f.count + Len(f.others)
    PROVE  /\ pc = "tries" /\ Divided /\ IsFrame(f)
           /\ NextRun(f) \in Runs(Longer(f.lo, f.hi, f.depth), f.hi, f.depth)
<1>1. /\ List(frames) /\ Len(frames) \in Nat /\ IsFrame(f) /\ HasGroups(f, groups)
      /\ Divided
  BY DEF Building, Stacked, List
<1>2. frames # << >>
  BY <1>1
<1>3. pc = "tries"
  BY <1>2 DEF Building
<1>4. /\ Shares(f.lo, f.hi, f.method, f.depth)
      /\ f.count = Len(LiteralRuns(f.lo, f.hi, f.depth)) /\ f.count \in Nat
      /\ f.others = OtherRuns(f.lo, f.hi, f.depth) /\ Len(f.others) \in Nat
      /\ f.next \in Nat /\ f.next > 0
  BY <1>1 DEF IsFrame
<1>5. CASE f.next <= f.count
  <2> DEFINE T == {r \in Runs(Longer(f.lo, f.hi, f.depth), f.hi, f.depth) : r.kind = "literal"}
  <2>1. /\ LiteralRuns(f.lo, f.hi, f.depth) = ByPlace(T)
        /\ T \in SUBSET Runs(Longer(f.lo, f.hi, f.depth), f.hi, f.depth)
    BY DEF LiteralRuns
  <2> HIDE DEF T
  <2>2. \A k \in 1..Len(ByPlace(T)) : ByPlace(T)[k] \in T
    BY <1>1, <1>3, <1>4, <2>1, RunsListed
  <2>3. f.next \in 1..f.count
    BY <1>4, <1>5
  <2>4. NextRun(f) = LiteralRuns(f.lo, f.hi, f.depth)[f.next]
    BY <1>1, <1>5, <2>3 DEF NextRun, HasGroups
  <2>5. NextRun(f) \in T
    BY <1>4, <2>1, <2>2, <2>3, <2>4
  <2> QED
    BY <1>1, <1>3, <2>1, <2>5
<1>6. CASE f.next > f.count
  <2> DEFINE T == {r \in Runs(Longer(f.lo, f.hi, f.depth), f.hi, f.depth) : r.kind # "literal"}
  <2>1. /\ OtherRuns(f.lo, f.hi, f.depth) = ByPlace(T)
        /\ T \in SUBSET Runs(Longer(f.lo, f.hi, f.depth), f.hi, f.depth)
    BY DEF OtherRuns
  <2> HIDE DEF T
  <2>2. \A k \in 1..Len(ByPlace(T)) : ByPlace(T)[k] \in T
    BY <1>1, <1>3, <1>4, <2>1, RunsListed
  <2> DEFINE k == f.next - f.count
  <2>3. k \in 1..Len(f.others) /\ ~(f.next <= f.count)
    BY <1>4, <1>6
  <2>4. NextRun(f) = f.others[k]
    BY <2>3 DEF NextRun
  <2> HIDE DEF k
  <2>5. NextRun(f) \in T
    BY <1>4, <2>1, <2>2, <2>3, <2>4
  <2> QED
    BY <1>1, <1>3, <2>1, <2>5
<1> QED
  BY <1>4, <1>5, <1>6

\* A trie begins with all the routes of a method.
LEMMA TrieBegins ==
    ASSUME Building, StartTrie
    PROVE  \E h \in (lo + 1)..(Len(order) + 1) :
               /\ Shares(lo, h, entries[order[lo]].method, 0)
               /\ h = Len(order) + 1 \/ entries[order[h]].method # entries[order[lo]].method
               /\ Enter(frames, entries[order[lo]].method, lo, h, 0) /\ lo' = h
<1> DEFINE m == entries[order[lo]].method
           N == Len(order)
           P(i) == /\ i = N + 1 \/ entries[order[i]].method # m
                   /\ \A j \in lo..(i - 1) : ~(entries[order[j]].method # m)
           hi == FirstFrom(lo, N + 1, LAMBDA i : entries[order[i]].method # m)
<1>1. /\ Divided /\ pc = "tries" /\ frames = << >> /\ lo \in Nat /\ lo > 0 /\ lo <= N
  BY DEF Building, StartTrie
<1>2. N \in Nat /\ \A i \in 1..N : Len(Pattern(i)) \in Nat
  BY <1>1, OrderIs
<1>3. Enter(frames, m, lo, hi, 0) /\ lo' = hi
  BY <1>1 DEF StartTrie
<1>4. hi \in lo..(N + 1) /\ P(hi)
  <2> DEFINE C == {i \in Nat : entries[order[i]].method # m}
  <2>1. PICK i \in lo..(N + 1) : (i = N + 1 \/ i \in C) /\ \A j \in lo..(i - 1) : j \notin C
    <3>1. lo \in Nat /\ N + 1 \in Nat /\ lo <= N + 1
      BY <1>1, <1>2
    <3> HIDE DEF C, N
    <3> QED
      BY <3>1, FirstPlace
  <2>2. \A j \in lo..(i - 1) : j \in Nat
    BY <1>1
  <2>3. P(i)
    BY <2>1, <2>2
  <2>4. hi = CHOOSE k \in lo..(N + 1) : P(k)
    BY DEF FirstFrom
  <2> HIDE DEF P, hi
  <2> QED
    BY <2>3, <2>4
<1> HIDE DEF hi
<1>5. hi # lo
  BY <1>1, <1>2, <1>4
<1>6. hi \in (lo + 1)..(N + 1)
  BY <1>1, <1>2, <1>4, <1>5
<1>7. Shares(lo, hi, m, 0)
  <2>1. lo \in 1..N
    BY <1>1, <1>2
  <2>2. ASSUME NEW i \in lo..(hi - 1)
        PROVE  /\ entries[order[i]].method = m /\ Len(Pattern(i)) >= 0
               /\ \A d \in 1..0 : SameSeg(Pattern(i)[d], Pattern(lo)[d])
    <3>1. i \in 1..N
      BY <1>1, <1>2, <1>6
    <3> QED
      BY <1>2, <1>4, <3>1
  <2> QED
    BY <1>6, <2>1, <2>2 DEF Shares
<1> QED
  BY <1>3, <1>4, <1>6, <1>7

\* The slot an edge is put into is one of its caller's node, and free.
LEMMA PlaceIsFree ==
    ASSUME Building, NEW i \in 1..Len(frames), NEW f, f = frames[i], f.next <= f.count,
           NEW place \in EdgePlaces(f, Pattern(NextRun(f).from)[f.depth + 1].text)
    PROVE  /\ place \in (nodes[f.self].edges + 1)..(nodes[f.self].edges + nodes[f.self].count)
           /\ ~nodes[f.self].hashed => place = nodes[f.self].edges + f.next
           /\ edges[place].child = None
<1> DEFINE n == nodes[f.self]
           r == NextRun(f)
           text == Pattern(r.from)[f.depth + 1].text
           At(j) == Slot(n.edges, n.count, edgeHash[text], j)
<1>1. /\ IsFrame(f) /\ HasRoom(f, nodes, edges) /\ LaidOut(nodes, edges)
  BY DEF Building, Stacked
<1>2. /\ f.next \in Nat /\ f.next > 0 /\ f.count \in Nat /\ Len(f.others) \in Nat
      /\ f.self \in 1..Len(nodes)
  BY <1>1 DEF IsFrame, HasRoom
<1>3. n.edges \in Nat /\ n.count \in Nat /\ (n.hashed => n.count > 0)
  BY <1>1, <1>2 DEF LaidOut, IsNode
<1>4. edgeHash[text] \in Nat
  <2>1. f.next <= f.count + Len(f.others)
    BY <1>2
  <2>2. /\ pc = "tries" /\ Divided /\ Shares(f.lo, f.hi, f.method, f.depth)
        /\ r \in Runs(Longer(f.lo, f.hi, f.depth), f.hi, f.depth)
    BY <2>1, NextRunIs DEF IsFrame
  <2> HIDE DEF r
  <2>3. Pattern(r.from)[f.depth + 1] \in Segments
    BY <2>2, RunsAre
  <2>4. text \in Texts \cup {Empty}
    BY <2>3, SegFields
  <2>5. edgeHash \in EdgeHashes
    BY <2>2 DEF Divided, Parsed
  <2> QED
    BY <2>4, <2>5, HashesAssumption
<1>5. place \in EdgePlaces(f, text)
  OBVIOUS
<1> HIDE DEF text, r
<1>6. CASE n.hashed
  <2>1. PICK j \in 0..(n.count - 1) : place = At(j) /\ edges[At(j)].child = None
    BY <1>5, <1>6 DEF EdgePlaces, Steps
  <2> DEFINE x == edgeHash[text]
             s == n.edges
             c == n.count
  <2>2. place = s + 1 + ((x + j) % c)
    BY <2>1 DEF Slot
  <2>3. s \in Nat /\ c \in Nat /\ c > 0 /\ x \in Nat /\ j \in Nat
    BY <1>3, <1>4, <1>6
  <2> HIDE DEF x, s, c
  <2>4. (x + j) % c \in 0..(c - 1)
    BY ONLY <2>3
  <2>5. place \in (s + 1)..(s + c)
    BY ONLY <2>2, <2>3, <2>4
  <2> QED
    BY <1>6, <2>1, <2>5 DEF s, c
<1>7. CASE ~n.hashed
  <2>1. place = n.edges + f.next
    BY <1>5, <1>7 DEF EdgePlaces
  <2>2. /\ n.count = f.count
        /\ \A k \in f.next..f.count : edges[n.edges + k].child = None
    BY <1>1, <1>7 DEF HasRoom
  <2>3. f.next \in f.next..f.count
    BY <1>2
  <2>4. place \in (n.edges + 1)..(n.edges + n.count)
    BY <1>2, <1>3, <2>1, <2>2
  <2> QED
    BY <1>7, <2>1, <2>2, <2>3, <2>4
<1> QED
  BY <1>6, <1>7

\* A call that returns keeps the nodes, edges, groups and calls right, and every
\* edge already there.
LEMMA ReturnStep ==
    ASSUME Building, Return, Divided'
    PROVE  Building' /\ \A i \in DOMAIN edges : edges[i].child # None => edges'[i] = edges[i]
<1> DEFINE n == Len(frames)
           top == frames[n]
<1>1. /\ List(frames) /\ n \in Nat /\ LaidOut(nodes, edges) /\ Stacked(frames, groups)
      /\ frames # << >> /\ pc = "tries" /\ lo \in Nat \ {0} /\ List(groups)
  BY DEF Building, Stacked, List, Return
<1>2. n > 0 /\ n \in 1..n
  <2>1. n = 0 => frames = << >>
    BY <1>1 DEF List
  <2> QED
    BY <1>1, <2>1
<1>3. /\ UNCHANGED <<entries, order, pc, lo>>
      /\ nodes' = [nodes EXCEPT ![top.self].kids = top.kids]
      /\ top.next > top.count + Len(top.others)
  BY DEF Return, Top
<1>4. /\ List(Callers) /\ Len(Callers) = n - 1
      /\ \A i \in 1..(n - 1) : Callers[i] = frames[i]
  <2>1. n - 1 \in 0..Len(frames) /\ Callers = SubSeq(frames, 1, n - 1)
    BY <1>2 DEF Callers
  <2> HIDE DEF n
  <2> QED
    BY <1>1, <2>1, ListFirst
<1>5. /\ IsFrame(top) /\ top.next > top.count
      /\ Held(top) = 0
  <2>1. IsFrame(top)
    BY <1>1, <1>2 DEF Stacked
  <2>2. top.next > top.count
    BY <1>3, <2>1 DEF IsFrame
  <2> QED
    BY <2>1, <2>2, HeldIs
<1>6. \A i \in 1..n : HasRoom(frames[i], nodes, edges) /\ IsFrame(frames[i])
  BY DEF Building, Stacked
<1>7. Len(edges) \in Nat /\ DOMAIN edges = 1..Len(edges)
  BY <1>1 DEF LaidOut, List
<1> DEFINE Kept(ns) ==
              /\ List(ns) /\ Len(ns) = Len(nodes)
              /\ \A id \in 1..Len(nodes) :
                     /\ IsNode(ns[id])
                     /\ ns[id].edges = nodes[id].edges /\ ns[id].count = nodes[id].count
                     /\ ns[id].hashed = nodes[id].hashed
<1>10. Kept(nodes')
  <2>1. List(nodes) /\ Len(nodes) \in Nat /\ nodes = [i \in 1..Len(nodes) |-> nodes[i]]
    BY <1>1 DEF LaidOut, List
  <2>2. /\ nodes' = [i \in 1..Len(nodes) |-> nodes'[i]]
        /\ \A id \in 1..Len(nodes) :
               nodes'[id] = IF id = top.self THEN [nodes[id] EXCEPT !.kids = top.kids]
                            ELSE nodes[id]
    BY <1>3, <2>1
  <2>3. List(nodes') /\ Len(nodes') = Len(nodes)
    BY <2>1, <2>2, ListOf
  <2>4. ASSUME NEW id \in 1..Len(nodes)
        PROVE  /\ IsNode(nodes'[id])
               /\ nodes'[id].edges = nodes[id].edges /\ nodes'[id].count = nodes[id].count
               /\ nodes'[id].hashed = nodes[id].hashed
    <3> DEFINE z == nodes[id]
    <3>1. IsNode(z)
      BY <1>1 DEF LaidOut
    <3>2. [z EXCEPT !.kids = top.kids] =
              [edges |-> z.edges, count |-> z.count, hashed |-> z.hashed,
               branches |-> z.branches, route |-> z.route, kids |-> top.kids]
      <4> HIDE DEF z
      <4> QED
        BY <3>1 DEF IsNode
    <3> QED
      BY <2>2, <3>1, <3>2 DEF IsNode
  <2> QED
    BY <2>3, <2>4
<1> HIDE DEF n, top
<1>8. CASE Callers = << >>
  <2>1. frames' = << >> /\ edges' = edges /\ groups' = groups
    BY <1>8 DEF Return
  <2>2. n = 1
    BY <1>1, <1>2, <1>4, <1>8
  <2>3. Len(groups) = 0
    <3>1. frames[1].base = 0 /\ Len(groups) = top.base + Held(top)
      BY <1>1, <1>2 DEF Stacked, n, top
    <3> QED
      BY <1>5, <2>2, <3>1 DEF top
  <2>4. Stacked(frames', groups')
    <3>1. List(frames') /\ Len(frames') = 0
      <4>1. frames' = [k \in 1..0 |-> frames'[k]]
        BY <2>1
      <4> QED
        BY <4>1, ListOf
    <3> QED
      BY <1>1, <2>1, <2>3, <3>1 DEF Stacked
  <2>5. LaidOut(nodes', edges')
    BY <1>1, <1>10, <2>1, SlotsKept
  <2>6. Len(frames') = 0
    BY <2>1
  <2> QED
    BY <1>1, <1>3, <2>1, <2>4, <2>5, <2>6, CallsRest DEF Building
<1>9. CASE Callers # << >>
  <2> DEFINE c == frames[n - 1]
  <2>1. n > 1 /\ n - 1 \in 1..n /\ n - 1 \in 1..(n - 1)
    <3>1. n = 1 => Callers = << >>
      BY <1>4 DEF List
    <3> QED
      BY <1>1, <1>2, <1>9, <3>1
  <2>2. Callers[Len(Callers)] = c
    BY <1>4, <2>1
  <2>3. Deliver(c, top.self)
    BY <1>9, <2>2 DEF Return, Top, top, n
  <2>4. IsFrame(c) /\ HasRoom(c, nodes, edges) /\ c.next \in Nat /\ c.next > 0
        /\ c.count \in Nat
    BY <1>6, <2>1, HeldIs
  <2>5. ASSUME NEW c1, IsFrame(c1), Advanced(c, c1),
               frames' = [Callers EXCEPT ![n - 1] = c1], Dropped(c, groups, groups'),
               LaidOut(nodes, edges'), HasRoom(c1, nodes, edges'),
               \A g : HasRoom(g, nodes, edges) /\ g.self # c.self => HasRoom(g, nodes, edges')
        PROVE  Building'
    <3>1. /\ List(frames') /\ Len(frames') = n - 1
          /\ \A i \in 1..(n - 1) : frames'[i] = IF i = n - 1 THEN c1 ELSE frames[i]
      <4>1. Callers = [i \in 1..(n - 1) |-> Callers[i]]
        BY <1>4 DEF List
      <4>2. /\ frames' = [i \in 1..(n - 1) |-> frames'[i]]
            /\ \A i \in 1..(n - 1) : frames'[i] = IF i = n - 1 THEN c1 ELSE frames[i]
        BY <1>4, <2>5, <4>1
      <4>3. n - 1 \in Nat
        BY <1>1, <2>1
      <4> QED
        BY <4>2, <4>3, ListOf
    <3> HIDE DEF c
    <3>2. Stacked(frames', groups')
      <4>1. Len(frames) = n /\ c = frames[Len(frames) - 1] /\ Len(frames) > 1
            /\ frames[Len(frames)].next > frames[Len(frames)].count
        BY <1>5, <2>1 DEF c, n, top
      <4>2. Left(frames, c1, frames')
        BY <3>1, <4>1 DEF Left
      <4> QED
        BY ONLY <1>1, <2>5, <3>1, <4>1, <4>2, CallReturns
    <3>3. /\ LaidOut(nodes', edges')
          /\ \A g : HasRoom(g, nodes, edges') => HasRoom(g, nodes', edges')
      BY ONLY <1>10, <2>5, SlotsKept
    <3>4. ASSUME NEW i \in 1..Len(frames')
          PROVE  HasRoom(frames'[i], nodes', edges')
      <4>1. CASE i = n - 1
        BY <2>5, <3>1, <3>3, <4>1
      <4>2. CASE i # n - 1
        <5>1. i \in 1..n /\ i \in 1..(n - 1) /\ i < n - 1 /\ frames'[i] = frames[i]
          BY <1>1, <3>1, <4>2
        <5>2. frames[i].self < c.self
          BY <1>1, <2>1, <5>1 DEF Stacked, c, n
        <5>3. frames[i].self \in Nat /\ c.self \in Nat
          BY <1>6, <2>4, <5>1 DEF HasRoom
        <5>4. frames[i].self # c.self
          BY <5>2, <5>3
        <5> QED
          BY <1>6, <2>5, <3>3, <5>1, <5>4
      <4> QED
        BY <4>1, <4>2
    <3> QED
      BY <1>1, <1>3, <3>2, <3>3, <3>4, CallsRest DEF Building
  <2>6. c = [method |-> c.method, lo |-> c.lo, hi |-> c.hi, depth |-> c.depth,
             self |-> c.self, base |-> c.base, count |-> c.count,
             others |-> c.others, next |-> c.next, kids |-> c.kids]
    BY <2>4 DEF IsFrame
  <2>7. CASE c.next <= c.count
    <3> DEFINE text == Pattern(NextRun(c).from)[c.depth + 1].text
               c1 == [method |-> c.method, lo |-> c.lo, hi |-> c.hi, depth |-> c.depth,
                      self |-> c.self, base |-> c.base, count |-> c.count,
                      others |-> c.others, next |-> c.next + 1, kids |-> c.kids]
    <3>1. PICK place \in EdgePlaces(c, text) :
              edges' = [edges EXCEPT ![place] = [text |-> text, child |-> top.self]]
      BY <2>3, <2>7 DEF Deliver
    <3>2. /\ Dropped(c, groups, groups')
          /\ frames' = [Callers EXCEPT ![Len(Callers)].next = @ + 1]
      BY <2>3, <2>7 DEF Deliver, Popped, Dropped
    <3>3. frames' = [Callers EXCEPT ![n - 1] = c1]
      <4>1. [c EXCEPT !.next = @ + 1] = c1
        <5> HIDE DEF c
        <5> QED
          BY <2>6
      <4>2. Len(Callers) = n - 1 /\ Callers[n - 1] = c
        BY <1>4, <2>2
      <4>3. frames' = [Callers EXCEPT ![n - 1] = [Callers[n - 1] EXCEPT !.next = @ + 1]]
        BY <3>2, <4>2
      <4> HIDE DEF c, c1
      <4> QED
        BY <4>1, <4>2, <4>3
    <3> HIDE DEF text
    <3>4. /\ place \in (nodes[c.self].edges + 1)..(nodes[c.self].edges + nodes[c.self].count)
          /\ ~nodes[c.self].hashed => place = nodes[c.self].edges + c.next
          /\ edges[place].child = None
      BY <2>1, <2>7, PlaceIsFree DEF text, n
    <3>5. Advanced(c, c1)
      BY DEF Advanced
    <3>6. IsFrame(c1)
      <4> HIDE DEF c
      <4> QED
        BY <2>4 DEF IsFrame
    <3> HIDE DEF c1, c
    <3>7. /\ LaidOut(nodes, edges') /\ HasRoom(c1, nodes, edges')
          /\ \A g : HasRoom(g, nodes, edges) /\ g.self # c.self => HasRoom(g, nodes, edges')
      <4>1. List(edges) /\ edges = [i \in 1..Len(edges) |-> edges[i]]
        BY <1>1 DEF LaidOut, List
      <4> DEFINE e == [text |-> text, child |-> top.self]
      <4>2. /\ edges' = [i \in 1..Len(edges) |-> edges'[i]]
            /\ \A i \in 1..Len(edges) : edges'[i] = IF i = place THEN e ELSE edges[i]
        BY <3>1, <4>1
      <4>3. List(edges') /\ Len(edges') = Len(edges)
        BY <1>7, <4>2, ListOf
      <4> HIDE DEF e
      <4>4. Put(edges, place, e, edges')
        BY <4>2, <4>3 DEF Put
      <4> QED
        BY ONLY <1>1, <2>4, <2>7, <3>4, <3>5, <4>4, EdgePut
    <3>8. Building'
      BY ONLY <2>5, <3>2, <3>3, <3>5, <3>6, <3>7
    <3> QED
      BY <3>1, <3>4, <3>8
  <2>8. CASE ~(c.next <= c.count)
    <3> DEFINE k == NextRun(c).kind
               c1 == [method |-> c.method, lo |-> c.lo, hi |-> c.hi, depth |-> c.depth,
                      self |-> c.self, base |-> c.base, count |-> c.count,
                      others |-> c.others, next |-> c.next + 1,
                      kids |-> [c.kids EXCEPT ![k] = top.self]]
    <3>1. /\ edges' = edges /\ groups' = groups
          /\ frames' = [Callers EXCEPT ![Len(Callers)] =
                            [c EXCEPT !.next = @ + 1, !.kids[NextRun(c).kind] = top.self]]
      BY <2>3, <2>8 DEF Deliver
    <3>2. frames' = [Callers EXCEPT ![n - 1] = c1]
      <4> DEFINE d == [c EXCEPT !.next = @ + 1]
                 e == [c EXCEPT !.next = @ + 1, !.kids[k] = top.self]
      <4>1. d = [method |-> c.method, lo |-> c.lo, hi |-> c.hi, depth |-> c.depth,
                 self |-> c.self, base |-> c.base, count |-> c.count,
                 others |-> c.others, next |-> c.next + 1, kids |-> c.kids]
        <5> HIDE DEF c
        <5> QED
          BY <2>6
      <4>2. e = [d EXCEPT !.kids[k] = top.self]
        OBVIOUS
      <4> HIDE DEF d
      <4>3. [d EXCEPT !.kids[k] = top.self] = c1
        <5> HIDE DEF c, k
        <5> QED
          BY <4>1
      <4>4. Len(Callers) = n - 1 /\ Callers[Len(Callers)] = c
        BY <1>4, <2>2
      <4>5. frames' = [Callers EXCEPT ![Len(Callers)] = e]
        <5> HIDE DEF c
        <5> QED
          BY ONLY <3>1 DEF e, k
      <4>6. frames' = [Callers EXCEPT ![n - 1] = e]
        <5> HIDE DEF k, n, e
        <5> QED
          BY ONLY <4>4, <4>5
      <4> HIDE DEF c, c1, e
      <4> QED
        BY <4>2, <4>3, <4>6
    <3>3. Advanced(c, c1)
      BY DEF Advanced
    <3>4. IsFrame(c1)
      <4> HIDE DEF c, k
      <4> QED
        BY <2>4 DEF IsFrame
    <3> HIDE DEF c1, c
    <3>5. Dropped(c, groups, groups')
      BY <2>4, <2>8, <3>1 DEF Dropped
    <3>6. HasRoom(c1, nodes, edges)
      <4>1. Unbuilt(c1) = Unbuilt(c) /\ c1.next \in Nat \ {0}
            /\ \A i \in c1.next..c1.count : i \in c.next..c.count
        BY <2>4, <2>8, <3>3 DEF Unbuilt, Advanced
      <4> QED
        BY <2>4, <3>3, <4>1 DEF HasRoom, Advanced
    <3>7. Building'
      BY ONLY <1>1, <1>6, <2>5, <3>1, <3>2, <3>3, <3>4, <3>5, <3>6
    <3> QED
      BY <3>1, <3>7
  <2> QED
    BY <2>7, <2>8
<1> QED
  BY <1>8, <1>9

\* Nothing is built, and no call is under way.
LEMMA BuildingInit == Init => Building
<1> SUFFICES ASSUME Init
             PROVE  Building
  OBVIOUS
<1>1. Parsed /\ pc = "parse"
  BY ParsedInit DEF Init
<1>2. Divided
  BY <1>1 DEF Divided
<1>3. List(<< >>) /\ Len(<< >>) = 0
  <2>1. << >> = [k \in 1..0 |-> << >>[k]]
    OBVIOUS
  <2> QED
    BY <2>1, ListOf
<1>4. frames = << >> /\ groups = << >> /\ nodes = << >> /\ edges = << >> /\ lo = 1
  BY DEF Init
<1>5. LaidOut(nodes, edges)
  BY <1>3, <1>4 DEF LaidOut
<1>6. Stacked(frames, groups)
  BY <1>3, <1>4 DEF Stacked
<1> QED
  BY <1>2, <1>3, <1>4, <1>5, <1>6 DEF Building

\* Every step keeps the nodes, edges, groups and calls right, and no edge once put
\* into a slot is replaced.
LEMMA BuildingStep ==
    Building /\ [Next]_vars =>
        Building' /\ \A i \in DOMAIN edges : edges[i].child # None => edges'[i] = edges[i]
<1> SUFFICES ASSUME Building, [Next]_vars
             PROVE  /\ Building'
                    /\ \A i \in DOMAIN edges : edges[i].child # None => edges'[i] = edges[i]
  OBVIOUS
<1>1. Divided' /\ lo \in Nat \ {0}
  BY DividedStep DEF Building
<1>2. CASE ParseSpec \/ Split \/ Finish
  <2>1. /\ frames = << >> /\ frames' = << >> /\ lo' = lo
        /\ UNCHANGED <<nodes, edges, groups>>
    BY <1>2 DEF ParseSpec, Split, Finish, Building
  <2>2. List(frames) /\ List(groups) /\ Len(frames) = 0 /\ Len(groups) = 0
    BY <2>1 DEF Building, Stacked
  <2>3. Stacked(frames, groups)'
    BY <2>1, <2>2 DEF Stacked, List
  <2>4. LaidOut(nodes, edges)'
    BY <2>1 DEF Building, LaidOut
  <2> QED
    BY <1>1, <2>1, <2>2, <2>3, <2>4 DEF Building
<1>3. CASE InsertLiteral \/ LiteralsDone \/ UNCHANGED vars
  <2>1. /\ UNCHANGED <<entries, order, nodes, edges, groups, frames, lo>>
        /\ pc' = pc \/ (pc = "literals" /\ pc' = "tries")
    BY <1>3 DEF InsertLiteral, LiteralsDone, vars
  <2> QED
    BY <1>1, <2>1, CallsRest DEF Building
<1>4. CASE StartTrie
  <2>1. PICK h \in (lo + 1)..(Len(order) + 1) :
            /\ Shares(lo, h, entries[order[lo]].method, 0)
            /\ Enter(frames, entries[order[lo]].method, lo, h, 0) /\ lo' = h
    BY <1>4, TrieBegins
  <2>2. pc = "tries" /\ UNCHANGED <<entries, order, pc>>
    BY <1>4 DEF StartTrie
  <2>3. lo' \in Nat \ {0}
    <3>1. h \in Nat /\ h > lo
      BY <1>1, <2>1
    <3> QED
      BY <1>1, <2>1, <3>1
  <2> QED
    BY <1>1, <2>1, <2>2, <2>3, EnterStep
<1>5. CASE BuildChild
  <2> DEFINE f == frames[Len(frames)]
             r == NextRun(f)
  <2>1. /\ f.next <= f.count + Len(f.others) /\ frames # << >>
        /\ Enter(frames, f.method, r.from, r.to, f.depth + 1)
        /\ UNCHANGED <<entries, order, pc, lo>>
    BY <1>5 DEF BuildChild, Top
  <2>2. Len(frames) \in 1..Len(frames)
    <3>1. Len(frames) \in Nat /\ List(frames)
      BY DEF Building, Stacked, List
    <3>2. Len(frames) = 0 => frames = << >>
      BY <3>1 DEF List
    <3> QED
      BY <2>1, <3>1, <3>2
  <2>3. /\ pc = "tries" /\ Divided /\ IsFrame(f)
        /\ r \in Runs(Longer(f.lo, f.hi, f.depth), f.hi, f.depth)
    <3> HIDE DEF r
    <3> QED
      BY <2>1, <2>2, NextRunIs DEF r
  <2>4. Shares(f.lo, f.hi, f.method, f.depth)
    BY <2>3 DEF IsFrame
  <2> HIDE DEF f, r
  <2>5. Shares(r.from, r.to, f.method, f.depth + 1)
    BY ONLY <2>3, <2>4, RunsAre
  <2> QED
    BY <1>1, <2>1, <2>3, <2>5, EnterStep
<1>6. CASE Return
  BY <1>1, <1>6, ReturnStep
<1> QED
  BY <1>2, <1>3, <1>4, <1>5, <1>6 DEF Next

-----------------------------------------------------------------------------
(* What follows at every moment of the build.                              *)

\* There are no slots before the routes are split.
LEMMA SlotsInit == Init => SlotsOK
<1> SUFFICES ASSUME Init
             PROVE  SlotsOK
  OBVIOUS
<1>1. Parsed /\ literal = << >> /\ slots = << >>
  BY ParsedInit DEF Init
<1>2. List(<< >>)
  <2>1. << >> = [k \in 1..0 |-> << >>[k]]
    OBVIOUS
  <2> QED
    BY <2>1, ListOf
<1> QED
  BY <1>1, <1>2 DEF SlotsOK

\* However the hashes collide, the exact-match table and every hashed node have an
\* empty slot at every moment of the build, for any number of routes: the probes
\* of the build and of lookups, which look for one, end.
THEOREM EveryProbeEnds == Spec => []ProbesEnd
<1>1. Init => Building /\ SlotsOK
  BY BuildingInit, SlotsInit
<1>2. Building /\ SlotsOK /\ [Next]_vars => (Building /\ SlotsOK)'
  BY BuildingStep, SlotsStep
<1>3. ASSUME Building, SlotsOK
      PROVE  ProbesEnd
  <2>1. slots # << >> => \E i \in DOMAIN slots : slots[i].route = None
    BY <1>3, SlotIsFree
  <2>2. ASSUME NEW id \in DOMAIN nodes, nodes[id].hashed
        PROVE  \E i \in 1..nodes[id].count : edges[nodes[id].edges + i].child = None
    <3> DEFINE n == nodes[id]
               S == Taken(n, edges)
    <3>1. LaidOut(nodes, edges) /\ DOMAIN nodes = 1..Len(nodes)
      BY <1>3 DEF Building, LaidOut, List
    <3>2. /\ IsNode(n) /\ n.count > 0
          /\ 2 * Cardinality(S) <= n.count
      BY <2>2, <3>1 DEF LaidOut
    <3>3. n.count \in Nat /\ S \in SUBSET (1..n.count)
      BY <3>2 DEF IsNode, Taken
    <3>4. PICK i \in 1..n.count : i \notin S
      <4> DEFINE k == n.count
      <4>1. k \in Nat /\ S \in SUBSET (1..k) /\ k > 0 /\ 2 * Cardinality(S) <= k
        BY <3>2, <3>3
      <4> HIDE DEF S, n, k
      <4>2. 2 * (Cardinality(S) + 0) <= k
        <5>1. Cardinality(S) \in Nat
          BY <4>1, OneMoreTaken
        <5> QED
          BY <4>1, <5>1
      <4>3. \E i \in 1..k : i \notin S
        BY <4>1, <4>2, RoomIsLeft
      <4> QED
        BY <4>3 DEF k
    <3> QED
      BY <3>4 DEF Taken
  <2> QED
    BY <2>1, <2>2 DEF ProbesEnd
<1> QED
  BY <1>1, <1>2, <1>3, PTL DEF Spec

\* The calls of build share one stack of literal groups: each finds its own there
\* after its children have pushed and popped theirs, and none is left on it.
THEOREM EveryCallKeepsItsGroups == Spec => []GroupsKept
<1>1. ASSUME Building
      PROVE  GroupsKept
  <2>1. /\ Stacked(frames, groups) /\ List(frames) /\ List(groups)
        /\ Len(frames) \in Nat /\ Len(groups) \in Nat /\ DOMAIN frames = 1..Len(frames)
    BY <1>1 DEF Building, Stacked, List
  <2>2. ASSUME NEW i \in DOMAIN frames
        PROVE  LET f == frames[i]
                   mine == LiteralRuns(f.lo, f.hi, f.depth)
               IN  /\ f.count = Len(mine)
                   /\ f.next <= f.count =>
                          /\ Len(groups) >= f.base + f.count
                          /\ SubSeq(groups, f.base + 1, f.base + f.count) = mine
                   /\ i = Len(frames) =>
                          Len(groups) = f.base + (IF f.next <= f.count THEN f.count ELSE 0)
    <3> DEFINE f == frames[i]
               mine == LiteralRuns(f.lo, f.hi, f.depth)
    <3>1. /\ IsFrame(f) /\ HasGroups(f, groups)
          /\ f.count = Len(mine) /\ f.count \in Nat /\ f.base \in Nat
          /\ Shares(f.lo, f.hi, f.method, f.depth)
      BY <2>1, <2>2 DEF Stacked, IsFrame
    <3>2. i = Len(frames) =>
              Len(groups) = f.base + (IF f.next <= f.count THEN f.count ELSE 0)
      BY <2>1, <2>2 DEF Stacked, Held
    <3>3. List(mine)
      <4> DEFINE T == {r \in Runs(Longer(f.lo, f.hi, f.depth), f.hi, f.depth) :
                           r.kind = "literal"}
      <4>1. /\ mine = ByPlace(T)
            /\ T \in SUBSET Runs(Longer(f.lo, f.hi, f.depth), f.hi, f.depth)
        BY DEF LiteralRuns
      <4>2. pc = "tries" /\ Divided
        <5>1. frames # << >>
          BY <2>1, <2>2
        <5> QED
          BY <1>1, <5>1 DEF Building
      <4> HIDE DEF T, mine, f
      <4>3. List(ByPlace(T))
        BY <3>1, <4>1, <4>2, RunsListed
      <4> QED
        BY <4>1, <4>3
    <3>4. ASSUME f.next <= f.count
          PROVE  /\ Len(groups) >= f.base + f.count
                 /\ SubSeq(groups, f.base + 1, f.base + f.count) = mine
      <4>1. /\ f.base + f.count <= Len(groups)
            /\ \A k \in 1..f.count : groups[f.base + k] = mine[k]
        BY <3>1, <3>4 DEF HasGroups
      <4> DEFINE b == f.base
                 c == f.count
                 g == Len(groups)
      <4>2. b \in Nat /\ c \in Nat /\ g \in Nat /\ b + c <= g
        BY <2>1, <3>1, <4>1
      <4>3. \A k \in 1..c : groups[b + k] = mine[k]
        BY <4>1
      <4>4. Len(mine) = c /\ mine = [k \in 1..c |-> mine[k]]
        BY <3>1, <3>3 DEF List
      <4> HIDE DEF b, c, g, mine, f
      <4>5. SubSeq(groups, b + 1, b + c) = mine
        BY <2>1, <4>2, <4>3, <4>4, SubList DEF g
      <4> QED
        BY <4>2, <4>5 DEF b, c, g
    <3> QED
      BY <3>1, <3>2, <3>4
  <2> QED
    BY <2>2 DEF GroupsKept
<1>2. Building /\ [Next]_vars => Building'
  BY BuildingStep
<1> QED
  BY <1>1, <1>2, BuildingInit, PTL DEF Spec

\* Neither an edge nor an exact-match slot, once taken, is ever overwritten.
THEOREM EverySlotTakenOnce == Spec => SlotsTakenOnce
<1>1. Init => Building /\ SlotsOK
  BY BuildingInit, SlotsInit
<1>2. Building /\ SlotsOK /\ [Next]_vars =>
          /\ (Building /\ SlotsOK)'
          /\ \A i \in DOMAIN edges : edges[i].child # None => edges'[i] = edges[i]
          /\ \A i \in DOMAIN slots : slots[i].route # None => slots'[i] = slots[i]
  BY BuildingStep, SlotsStep
<1> QED
  BY <1>1, <1>2, PTL DEF Spec, SlotsTakenOnce

-----------------------------------------------------------------------------
(* The slots a probe comes to.                                             *)

\* A positive multiple of a number is at least that number.
LEMMA TimesAtLeast ==
    ASSUME NEW c \in Nat, c > 0, NEW m \in Int, m >= 1
    PROVE  c * m >= c
BY Z3

\* The remainder of a multiple and a bit more is the bit.
LEMMA Rem ==
    ASSUME NEW c \in Nat, c > 0, NEW d \in Int, NEW r \in 0..(c - 1)
    PROVE  (c * d + r) % c = r
<1> DEFINE y == c * d + r
           q == y % c
           e == y \div c
<1>1. y \in Int
  OBVIOUS
<1> HIDE DEF y
<1>2. q \in 0..(c - 1) /\ e \in Int /\ y = c * e + q
  BY <1>1, Z3
<1> HIDE DEF q, e
<1>3. c * (d - e) = q - r
  <2>1. c * d + r = c * e + q
    BY <1>2 DEF y
  <2>2. c * (d - e) = c * d - c * e
    BY <1>2
  <2>3. c * d \in Int /\ c * e \in Int
    BY <1>2
  <2> QED
    BY <1>2, <2>1, <2>2, <2>3
<1>4. ~(d - e >= 1)
  <2> SUFFICES ASSUME d - e >= 1 PROVE FALSE
    OBVIOUS
  <2>1. c * (d - e) >= c
    BY <1>2, TimesAtLeast
  <2> QED
    BY <1>2, <1>3, <2>1
<1>5. ~(e - d >= 1)
  <2> SUFFICES ASSUME e - d >= 1 PROVE FALSE
    OBVIOUS
  <2>1. c * (e - d) >= c
    BY <1>2, TimesAtLeast
  <2>2. c * (e - d) = - (c * (d - e))
    BY <1>2
  <2> QED
    BY <1>2, <1>3, <2>1, <2>2
<1>6. d = e
  BY <1>2, <1>4, <1>5
<1>7. q = r
  BY <1>2, <1>3, <1>6
<1> QED
  BY <1>7 DEF q, y

\* A probe comes to every slot of its array.
LEMMA EveryPlaceProbed ==
    ASSUME NEW c \in Nat, c > 0, NEW x \in Nat, NEW i \in 1..c
    PROVE  \E j \in 0..(c - 1) : ((x + j) % c) + 1 = i
<1> DEFINE q == x % c
           d == x \div c
<1>1. q \in 0..(c - 1) /\ d \in Int /\ x = c * d + q
  BY Z3
<1> HIDE DEF q, d
<1>2. CASE i - 1 >= q
  <2> DEFINE j == i - 1 - q
  <2>1. j \in 0..(c - 1) /\ x + j = c * d + (i - 1)
    BY <1>1, <1>2
  <2>2. (c * d + (i - 1)) % c = i - 1
    <3>1. i - 1 \in 0..(c - 1)
      OBVIOUS
    <3> QED
      BY <1>1, <3>1, Rem
  <2>3. ((x + j) % c) + 1 = i
    BY <2>1, <2>2
  <2> QED
    BY <2>1, <2>3
<1>3. CASE ~(i - 1 >= q)
  <2> DEFINE j == i - 1 - q + c
  <2>1. j \in 0..(c - 1) /\ x + j = c * (d + 1) + (i - 1)
    BY <1>1, <1>3
  <2>2. (c * (d + 1) + (i - 1)) % c = i - 1
    <3>1. i - 1 \in 0..(c - 1) /\ d + 1 \in Int
      BY <1>1
    <3> QED
      BY <3>1, Rem
  <2>3. ((x + j) % c) + 1 = i
    BY <2>1, <2>2
  <2> QED
    BY <2>1, <2>3
<1> QED
  BY <1>2, <1>3

-----------------------------------------------------------------------------
(* The runs of a call, one by one.                                         *)

\* A call's numbers.
LEMMA SharesNumbers ==
    ASSUME Divided, pc = "tries", NEW l, NEW h, NEW m, NEW depth, Shares(l, h, m, depth)
    PROVE  /\ l \in Nat /\ h \in Nat /\ depth \in Nat /\ l < h /\ Len(order) \in Nat
           /\ l \in 1..Len(order) /\ l > 0
           /\ Longer(l, h, depth) \in l..h /\ Longer(l, h, depth) \in Nat
           /\ \A i \in l..(h - 1) : i \in 1..Len(order)
<1> DEFINE x == Longer(l, h, depth)
<1>1. /\ l \in 1..Len(order) /\ h \in (l + 1)..(Len(order) + 1) /\ depth \in Nat
      /\ Len(order) \in Nat
  BY OrderIs DEF Shares
<1>2. x \in l..h
  BY LongerIs
<1> HIDE DEF x
<1>3. l \in Nat /\ h \in Nat /\ l < h /\ x \in Nat /\ l > 0
      /\ \A i \in l..(h - 1) : i \in 1..Len(order)
  BY <1>1, <1>2
<1> QED
  BY <1>1, <1>2, <1>3 DEF x

\* Of entries that share their first segments and are longer, the next segment of
\* the one sorted first comes before the other's or matches the same texts.
LEMMA NextSegments ==
    ASSUME Divided, pc = "tries", NEW l, NEW h, NEW m, NEW depth, Shares(l, h, m, depth),
           NEW i \in Longer(l, h, depth)..(h - 1), NEW j \in Longer(l, h, depth)..(h - 1),
           i <= j
    PROVE  LET a == Pattern(i)[depth + 1]
               b == Pattern(j)[depth + 1]
           IN  a \in Segments /\ b \in Segments /\ (SegBefore(a, b) \/ SameSeg(a, b))
<1> DEFINE x == Longer(l, h, depth)
           p == Pattern(i)
           q == Pattern(j)
<1>1. /\ l \in 1..Len(order) /\ h \in (l + 1)..(Len(order) + 1) /\ depth \in Nat
      /\ l \in Nat /\ h \in Nat /\ Len(order) \in Nat
  BY OrderIs DEF Shares
<1>2. x \in l..h /\ \A k \in x..(h - 1) : Len(Pattern(k)) > depth
  BY LongerIs
<1> HIDE DEF x
<1>3. /\ i \in l..(h - 1) /\ j \in l..(h - 1) /\ i \in 1..Len(order) /\ j \in 1..Len(order)
      /\ Len(p) > depth /\ Len(q) > depth
  BY <1>1, <1>2 DEF x
<1>4. /\ p \in Seq(Segments) /\ q \in Seq(Segments) /\ Len(p) \in Nat /\ Len(q) \in Nat
      /\ Comparable(entries[order[i]]) /\ Comparable(entries[order[j]])
      /\ i < j => Before(entries[order[i]], entries[order[j]])
  BY <1>3, OrderIs
<1>5. /\ entries[order[i]].method = entries[order[j]].method
      /\ \A d \in 1..depth : SameSeg(p[d], q[d])
  <2>1. \A k \in l..(h - 1) :
            /\ entries[order[k]].method = m
            /\ \A d \in 1..depth : SameSeg(Pattern(k)[d], Pattern(l)[d])
    BY DEF Shares
  <2> QED
    BY <1>3, <2>1 DEF SameSeg
<1> HIDE DEF p, q
<1>6. depth + 1 \in 1..Len(p) /\ depth + 1 \in 1..Len(q) /\ depth + 1 \in Nat
      /\ p[depth + 1] \in Segments /\ q[depth + 1] \in Segments
  BY <1>1, <1>3, <1>4
<1>7. CASE i = j
  BY <1>6, <1>7 DEF SameSeg, p, q
<1>8. CASE i # j /\ ~SameSeg(p[depth + 1], q[depth + 1])
  <2>1. i < j
    BY <1>3, <1>8
  <2>2. DifferAt(p, q, depth + 1)
    <3>1. \A d \in 1..((depth + 1) - 1) : SameSeg(p[d], q[d])
      <4>1. depth \in Nat
        BY <1>1
      <4>2. (depth + 1) - 1 = depth
        BY ONLY <4>1
      <4> QED
        BY ONLY <1>5, <4>2
    <3> QED
      BY ONLY <1>6, <1>8, <3>1, Zenon DEF DifferAt
  <2>3. SegBefore(p[depth + 1], q[depth + 1])
    BY <1>4, <1>5, <1>6, <2>1, <2>2, BeforeDecided DEF p, q, Pattern
  <2> QED
    BY <1>6, <2>3 DEF p, q
<1> QED
  BY <1>6, <1>7, <1>8 DEF p, q

\* Where the runs of a call begin.
Starts(l, h, depth) ==
    {i \in Longer(l, h, depth)..(h - 1) :
        i = Longer(l, h, depth) \/ ~SameSeg(Pattern(i - 1)[depth + 1], Pattern(i)[depth + 1])}

\* Where a run that begins at a place ends, the runs beginning in a set.
EndOfRun(i, h, S) ==
    CHOOSE k \in (i + 1)..h : (k = h \/ k \in S) /\ \A j \in (i + 1)..(k - 1) : ~(j \in S)

\* Runs that start together are one; each starts at a start and ends before the next.
LEMMA RunFrom ==
    ASSUME NEW l, NEW h, NEW depth
    PROVE  /\ \A r \in Runs(Longer(l, h, depth), h, depth) :
                  /\ r.from \in Starts(l, h, depth)
                  /\ r.to = EndOfRun(r.from, h, Starts(l, h, depth))
           /\ \A i \in Starts(l, h, depth) :
                  \E r \in Runs(Longer(l, h, depth), h, depth) : r.from = i
           /\ \A r, s \in Runs(Longer(l, h, depth), h, depth) : r.from = s.from => r = s
<1> DEFINE x == Longer(l, h, depth)
           S == {i \in x..(h - 1) :
                    i = x \/ ~SameSeg(Pattern(i - 1)[depth + 1], Pattern(i)[depth + 1])}
           Run(i) == [kind |-> Pattern(i)[depth + 1].kind, from |-> i,
                      to |-> FirstFrom(i + 1, h, LAMBDA j : j \in S)]
<1>1. Runs(x, h, depth) = {Run(i) : i \in S}
  BY DEF Runs
<1>2. S = Starts(l, h, depth)
  BY DEF Starts
<1>3. \A i : Run(i).from = i /\ Run(i).to = EndOfRun(i, h, S)
  <2> HIDE DEF S
  <2> QED
    BY DEF FirstFrom, EndOfRun
<1> HIDE DEF Run, x
<1>4. \A r \in Runs(x, h, depth) : \E i \in S : r = Run(i)
  BY <1>1
<1> HIDE DEF S
<1>5. \A r \in Runs(x, h, depth) :
          /\ r.from \in Starts(l, h, depth)
          /\ r.to = EndOfRun(r.from, h, S)
  BY <1>2, <1>3, <1>4
<1>6. \A i \in S : \E r \in Runs(x, h, depth) : r.from = i
  BY <1>1, <1>3
<1>7. \A r, s \in Runs(x, h, depth) : r.from = s.from => r = s
  BY <1>3, <1>4
<1> QED
  BY <1>2, <1>5, <1>6, <1>7 DEF x

\* Every longer entry is in a run.
LEMMA RunOf ==
    ASSUME Divided, pc = "tries", NEW l, NEW h, NEW m, NEW depth, Shares(l, h, m, depth),
           NEW i \in Longer(l, h, depth)..(h - 1)
    PROVE  \E r \in Runs(Longer(l, h, depth), h, depth) : i \in r.from..(r.to - 1)
<1> DEFINE x == Longer(l, h, depth)
           S == Starts(l, h, depth)
           D == {n \in Nat : i - n \in S}
<1>1. x \in Nat /\ h \in Nat /\ l \in Nat /\ i \in Nat /\ x <= i /\ i < h
  <2>1. x \in l..h /\ l \in Nat /\ h \in Nat
    BY SharesNumbers
  <2> QED
    BY <2>1
<1>2. x \in S /\ \A s \in S : s \in x..(h - 1)
  BY <1>1 DEF Starts
<1> HIDE DEF x
<1>3. PICK n \in D : \A k \in D : n <= k
  <2>1. i - x \in D
    BY <1>1, <1>2
  <2>2. D \in SUBSET Nat /\ D # {}
    BY <2>1
  <2> HIDE DEF D
  <2> QED
    BY <2>2, LeastNumber
<1> DEFINE s == i - n
<1>4. s \in S /\ s \in Nat /\ s <= i /\ s \in x..(h - 1)
  BY <1>1, <1>2, <1>3
<1>5. \A j \in (s + 1)..i : j \notin S
  <2> SUFFICES ASSUME NEW j \in (s + 1)..i, j \in S
               PROVE  FALSE
    OBVIOUS
  <2>1. i - j \in Nat /\ i - (i - j) = j /\ i - j < n
    BY <1>1, <1>3, <1>4
  <2>2. i - j \in D
    BY <2>1
  <2> QED
    BY <1>3, <2>1, <2>2
<1> HIDE DEF D, s
<1>6. PICK r \in Runs(x, h, depth) : r.from = s
  BY <1>4, RunFrom DEF x
<1>7. r.to = EndOfRun(s, h, S)
  BY <1>6, RunFrom DEF x
<1>8. r.to \in (s + 1)..h /\ (r.to = h \/ r.to \in S)
  <2> DEFINE P(k) == (k = h \/ k \in S) /\ \A j \in (s + 1)..(k - 1) : ~(j \in S)
  <2> HIDE DEF S
  <2>1. s + 1 \in Nat /\ s + 1 <= h
    BY <1>1, <1>4
  <2>2. \E k \in (s + 1)..h : P(k)
    BY <1>1, <2>1, FirstPlace
  <2>3. r.to = CHOOSE k \in (s + 1)..h : P(k)
    BY <1>7 DEF EndOfRun
  <2> HIDE DEF P
  <2>4. r.to \in (s + 1)..h /\ P(r.to)
    BY <2>2, <2>3
  <2> QED
    BY <2>4 DEF P
<1>9. r.to > i
  <2>1. r.to \in Nat /\ r.to >= s + 1
    BY <1>4, <1>8
  <2>2. r.to \in S => r.to \notin (s + 1)..i
    BY <1>5
  <2> QED
    BY <1>1, <1>4, <1>8, <2>1, <2>2
<1> QED
  BY <1>1, <1>4, <1>6, <1>8, <1>9 DEF x

\* The entries of different runs differ in their next segment.
LEMMA RunsDiffer ==
    ASSUME Divided, pc = "tries", NEW l, NEW h, NEW m, NEW depth, Shares(l, h, m, depth),
           NEW r \in Runs(Longer(l, h, depth), h, depth),
           NEW s \in Runs(Longer(l, h, depth), h, depth),
           NEW i \in r.from..(r.to - 1), NEW j \in s.from..(s.to - 1),
           SameSeg(Pattern(i)[depth + 1], Pattern(j)[depth + 1])
    PROVE  r = s
<1> DEFINE x == Longer(l, h, depth)
           Seg(k) == Pattern(k)[depth + 1]
           R == Runs(x, h, depth)
<1>1. /\ x \in Nat /\ h \in Nat /\ depth \in Nat
  <2>1. x \in l..h /\ l \in Nat /\ h \in Nat /\ depth \in Nat
    BY SharesNumbers
  <2> QED
    BY <2>1
<1>2. ASSUME NEW q \in R, NEW k \in q.from..(q.to - 1)
      PROVE  /\ q.from \in x..(h - 1) /\ k \in x..(h - 1) /\ Seg(k) \in Segments
             /\ SameSeg(Seg(k), Seg(q.from))
  <2>1. /\ q.from \in x..(h - 1) /\ q.to \in (q.from + 1)..h
        /\ Shares(q.from, q.to, m, depth + 1)
    BY RunsAre
  <2> HIDE DEF x
  <2>2. k \in x..(h - 1)
    BY <1>1, <2>1
  <2>3. Seg(k) \in Segments
    BY <1>1, <2>2, NextSegments DEF x
  <2>4. SameSeg(Pattern(k)[depth + 1], Pattern(q.from)[depth + 1])
    <3>1. depth + 1 \in 1..(depth + 1)
      BY <1>1
    <3> QED
      BY <2>1, <3>1 DEF Shares
  <2> QED
    BY <2>1, <2>2, <2>3, <2>4
<1>3. ASSUME NEW a \in R, NEW b \in R, a.from < b.from
      PROVE  ~SameSeg(Seg(a.from), Seg(b.from))
  <2> DEFINE e == b.from - 1
  <2>1. a.from \in x..(h - 1) /\ b.from \in x..(h - 1) /\ b.from \in Starts(l, h, depth)
    BY RunFrom, RunsAre
  <2> HIDE DEF x, Seg
  <2>2. e \in x..(h - 1) /\ a.from <= e /\ e <= b.from /\ b.from # x
    BY <1>1, <1>3, <2>1
  <2>3. ~SameSeg(Seg(e), Seg(b.from))
    BY <2>1, <2>2 DEF Starts, Seg, x
  <2>4. /\ Seg(a.from) \in Segments /\ Seg(e) \in Segments /\ Seg(b.from) \in Segments
        /\ SegBefore(Seg(a.from), Seg(e)) \/ SameSeg(Seg(a.from), Seg(e))
        /\ SegBefore(Seg(e), Seg(b.from)) \/ SameSeg(Seg(e), Seg(b.from))
    BY <2>1, <2>2, NextSegments DEF Seg, x
  <2> HIDE DEF e, R
  <2>5. SegBefore(Seg(a.from), Seg(b.from))
    BY <2>3, <2>4, SegTransitive
  <2> QED
    BY <2>4, <2>5, SegTotal
<1>4. SameSeg(Seg(r.from), Seg(s.from))
  <2>1. SameSeg(Seg(i), Seg(r.from)) /\ SameSeg(Seg(j), Seg(s.from)) /\ SameSeg(Seg(i), Seg(j))
    BY <1>2
  <2> HIDE DEF Seg
  <2> QED
    BY <2>1 DEF SameSeg
<1>5. SameSeg(Seg(s.from), Seg(r.from))
  BY <1>4 DEF SameSeg
<1>6. r.from \in x..(h - 1) /\ s.from \in x..(h - 1)
  BY RunsAre
<1> HIDE DEF Seg, x
<1>7. ~(r.from < s.from) /\ ~(s.from < r.from)
  BY <1>3, <1>4, <1>5 DEF x
<1>8. r.from = s.from
  BY <1>1, <1>6, <1>7
<1> QED
  BY <1>8, RunFrom

-----------------------------------------------------------------------------
(* The calls of build, named by what they are called with.                 *)

CallOf(f) == [method |-> f.method, lo |-> f.lo, hi |-> f.hi, depth |-> f.depth]

\* All the entries of a method that share their first segments with one.
Whole(w) ==
    \A i \in 1..Len(order) :
        /\ entries[order[i]].method = w.method /\ Len(Pattern(i)) >= w.depth
        /\ \A d \in 1..w.depth : SameSeg(Pattern(i)[d], Pattern(w.lo)[d])
        => i \in w.lo..(w.hi - 1)

IsCall(w) == w = CallOf(w) /\ Shares(w.lo, w.hi, w.method, w.depth) /\ Whole(w)

\* A call's runs: the literal ones in their order, then the others.
RunsOf(w) == Runs(Longer(w.lo, w.hi, w.depth), w.hi, w.depth)

LitsOf(w) == LiteralRuns(w.lo, w.hi, w.depth)

OthersOf(w) == OtherRuns(w.lo, w.hi, w.depth)

RunCount(w) == Len(LitsOf(w)) + Len(OthersOf(w))

RunAt(w, k) ==
    IF k <= Len(LitsOf(w)) THEN LitsOf(w)[k] ELSE OthersOf(w)[k - Len(LitsOf(w))]

\* The segment a run's entries share, and the call for its child.
SegAt(w, k) == Pattern(RunAt(w, k).from)[w.depth + 1]

CallAt(w, k) ==
    [method |-> w.method, lo |-> RunAt(w, k).from, hi |-> RunAt(w, k).to,
     depth |-> w.depth + 1]

\* Every run of a call has one number.
LEMMA RunNumbers ==
    ASSUME Divided, pc = "tries", NEW w, IsCall(w)
    PROVE  /\ List(LitsOf(w)) /\ List(OthersOf(w))
           /\ Len(LitsOf(w)) \in Nat /\ Len(OthersOf(w)) \in Nat /\ RunCount(w) \in Nat
           /\ \A k \in 1..RunCount(w) :
                  /\ RunAt(w, k) \in RunsOf(w)
                  /\ RunAt(w, k).kind = "literal" <=> k <= Len(LitsOf(w))
           /\ \A r \in RunsOf(w) : \E k \in 1..RunCount(w) : RunAt(w, k) = r
           /\ \A j, k \in 1..RunCount(w) : RunAt(w, j) = RunAt(w, k) => j = k
<1> DEFINE R == RunsOf(w)
           L == {r \in R : r.kind = "literal"}
           O == {r \in R : r.kind # "literal"}
           a == Len(LitsOf(w))
           b == Len(OthersOf(w))
<1>1. Shares(w.lo, w.hi, w.method, w.depth)
  BY DEF IsCall
<1>2. LitsOf(w) = ByPlace(L) /\ OthersOf(w) = ByPlace(O)
  BY DEF LitsOf, OthersOf, LiteralRuns, OtherRuns, RunsOf
<1>3. ASSUME NEW T \in SUBSET R
      PROVE  /\ List(ByPlace(T)) /\ Len(ByPlace(T)) \in Nat
             /\ \A k \in 1..Len(ByPlace(T)) : ByPlace(T)[k] \in T
             /\ \A r \in T : \E k \in 1..Len(ByPlace(T)) : ByPlace(T)[k] = r
             /\ \A j, k \in 1..Len(ByPlace(T)) : ByPlace(T)[j] = ByPlace(T)[k] => j = k
  <2>1. T \in SUBSET Runs(Longer(w.lo, w.hi, w.depth), w.hi, w.depth)
    BY DEF RunsOf
  <2>2. /\ List(ByPlace(T)) /\ Len(ByPlace(T)) = Cardinality(T) /\ Cardinality(T) \in Nat
        /\ \A k \in 1..Len(ByPlace(T)) : ByPlace(T)[k] \in T
        /\ \A r \in T : \E k \in 1..Len(ByPlace(T)) : ByPlace(T)[k] = r
        /\ \A j, k \in 1..Len(ByPlace(T)) : j < k <=> ByPlace(T)[j].from < ByPlace(T)[k].from
    BY <1>1, <2>1, RunsListed
  <2>3. \A r \in T : r.from \in Nat
    BY <1>1, <2>1, RunsAre
  <2>4. ASSUME NEW j \in 1..Len(ByPlace(T)), NEW k \in 1..Len(ByPlace(T)),
               ByPlace(T)[j] = ByPlace(T)[k]
        PROVE  j = k
    <3>1. ~(j < k) /\ ~(k < j)
      BY <2>2, <2>3, <2>4
    <3> QED
      BY <3>1
  <2> QED
    BY <2>2, <2>4
<1>4. L \in SUBSET R /\ O \in SUBSET R /\ \A r \in R : r \in L \/ r \in O
  OBVIOUS
<1>5. \A r : (r \in L => r \in R /\ r.kind = "literal") /\ (r \in O => r \in R /\ r.kind # "literal")
  OBVIOUS
<1> HIDE DEF L, O, R
<1>6. /\ List(LitsOf(w)) /\ a \in Nat
      /\ \A k \in 1..a : LitsOf(w)[k] \in L
      /\ \A r \in L : \E k \in 1..a : LitsOf(w)[k] = r
      /\ \A j, k \in 1..a : LitsOf(w)[j] = LitsOf(w)[k] => j = k
  BY <1>2, <1>3, <1>4
<1>7. /\ List(OthersOf(w)) /\ b \in Nat
      /\ \A k \in 1..b : OthersOf(w)[k] \in O
      /\ \A r \in O : \E k \in 1..b : OthersOf(w)[k] = r
      /\ \A j, k \in 1..b : OthersOf(w)[j] = OthersOf(w)[k] => j = k
  BY <1>2, <1>3, <1>4
<1> HIDE DEF a, b
<1>8. RunCount(w) = a + b
  BY DEF RunCount, a, b
<1>9. \A k : /\ k <= a => RunAt(w, k) = LitsOf(w)[k]
             /\ ~(k <= a) => RunAt(w, k) = OthersOf(w)[k - a]
  BY DEF RunAt, a
<1>10. \A k \in 1..(a + b) : /\ k <= a => k \in 1..a
                             /\ ~(k <= a) => k - a \in 1..b
  BY <1>6, <1>7
<1>11. ASSUME NEW k \in 1..RunCount(w)
       PROVE  /\ RunAt(w, k) \in R
              /\ k <= a => RunAt(w, k) \in L
              /\ ~(k <= a) => RunAt(w, k) \in O
              /\ RunAt(w, k).kind = "literal" <=> k <= a
  BY <1>5, <1>6, <1>7, <1>8, <1>9, <1>10
<1>12. ASSUME NEW r \in R
       PROVE  \E k \in 1..RunCount(w) : RunAt(w, k) = r
  <2>1. CASE r \in L
    <3>1. PICK k \in 1..a : LitsOf(w)[k] = r
      BY <1>6, <2>1
    <3>2. k \in 1..(a + b) /\ k <= a
      BY <1>6, <1>7
    <3> QED
      BY <1>8, <1>9, <3>1, <3>2
  <2>2. CASE r \in O
    <3>1. PICK k \in 1..b : OthersOf(w)[k] = r
      BY <1>7, <2>2
    <3>2. a + k \in 1..(a + b) /\ ~(a + k <= a) /\ (a + k) - a = k
      BY <1>6, <1>7
    <3> QED
      BY <1>8, <1>9, <3>1, <3>2
  <2> QED
    BY <1>4, <2>1, <2>2
<1>13. ASSUME NEW j \in 1..RunCount(w), NEW k \in 1..RunCount(w), RunAt(w, j) = RunAt(w, k)
       PROVE  j = k
  <2>1. j <= a <=> k <= a
    BY <1>11, <1>13
  <2>2. CASE j <= a
    BY <1>6, <1>8, <1>9, <1>10, <1>13, <2>1, <2>2
  <2>3. CASE ~(j <= a)
    <3>1. j - a = k - a
      BY <1>7, <1>8, <1>9, <1>10, <1>13, <2>1, <2>3
    <3> QED
      BY <1>6, <3>1
  <2> QED
    BY <2>2, <2>3
<1>14. RunCount(w) \in Nat
  BY <1>6, <1>7, <1>8
<1> QED
  BY <1>6, <1>7, <1>11, <1>12, <1>13, <1>14 DEF a, b, R

\* What the entries of a run have in common, and that those of no other run have.
LEMMA RunSegments ==
    ASSUME Divided, pc = "tries", NEW w, IsCall(w), NEW k \in 1..RunCount(w)
    PROVE  /\ SegAt(w, k) \in Segments /\ SegAt(w, k).kind = RunAt(w, k).kind
           /\ \A i \in RunAt(w, k).from..(RunAt(w, k).to - 1) :
                  SameSeg(Pattern(i)[w.depth + 1], SegAt(w, k))
           /\ \A j \in 1..RunCount(w) : SameSeg(SegAt(w, j), SegAt(w, k)) => j = k
<1>1. Shares(w.lo, w.hi, w.method, w.depth)
  BY DEF IsCall
<1>2. \A j \in 1..RunCount(w) : RunAt(w, j) \in RunsOf(w)
  BY RunNumbers
<1>3. ASSUME NEW j \in 1..RunCount(w)
      PROVE  /\ RunAt(w, j).from \in RunAt(w, j).from..(RunAt(w, j).to - 1)
             /\ RunAt(w, j).kind = SegAt(w, j).kind
             /\ SegAt(w, j) \in Segments
             /\ Shares(RunAt(w, j).from, RunAt(w, j).to, w.method, w.depth + 1)
  <2> DEFINE r == RunAt(w, j)
  <2>1. r \in Runs(Longer(w.lo, w.hi, w.depth), w.hi, w.depth)
    BY <1>2 DEF RunsOf
  <2> HIDE DEF r
  <2>2. /\ r.from \in Nat /\ r.to \in (r.from + 1)..w.hi
        /\ r.kind = Pattern(r.from)[w.depth + 1].kind
        /\ Pattern(r.from)[w.depth + 1] \in Segments
        /\ Shares(r.from, r.to, w.method, w.depth + 1)
    BY <1>1, <2>1, RunsAre
  <2>3. r.from \in r.from..(r.to - 1)
    BY <2>2
  <2> QED
    BY <2>2, <2>3 DEF SegAt, r
<1>4. ASSUME NEW i \in RunAt(w, k).from..(RunAt(w, k).to - 1)
      PROVE  SameSeg(Pattern(i)[w.depth + 1], SegAt(w, k))
  <2>1. w.depth + 1 \in 1..(w.depth + 1)
    BY <1>1 DEF Shares
  <2> QED
    BY <1>3, <2>1 DEF Shares, SegAt
<1>5. ASSUME NEW j \in 1..RunCount(w), SameSeg(SegAt(w, j), SegAt(w, k))
      PROVE  j = k
  <2> DEFINE r == RunAt(w, j)
             s == RunAt(w, k)
  <2>1. /\ r \in Runs(Longer(w.lo, w.hi, w.depth), w.hi, w.depth)
        /\ s \in Runs(Longer(w.lo, w.hi, w.depth), w.hi, w.depth)
        /\ r.from \in r.from..(r.to - 1) /\ s.from \in s.from..(s.to - 1)
        /\ SameSeg(Pattern(r.from)[w.depth + 1], Pattern(s.from)[w.depth + 1])
    BY <1>2, <1>3, <1>5 DEF RunsOf, SegAt
  <2> HIDE DEF r, s
  <2>2. r = s
    BY <1>1, <2>1, RunsDiffer
  <2> QED
    BY <2>2, RunNumbers DEF r, s
<1> QED
  BY <1>3, <1>4, <1>5

\* Every entry of a call that is longer than its depth is in one of its runs.
LEMMA RunOfEntry ==
    ASSUME Divided, pc = "tries", NEW w, IsCall(w), NEW i \in w.lo..(w.hi - 1),
           Len(Pattern(i)) > w.depth
    PROVE  \E k \in 1..RunCount(w) : i \in RunAt(w, k).from..(RunAt(w, k).to - 1)
<1> DEFINE x == Longer(w.lo, w.hi, w.depth)
<1>1. Shares(w.lo, w.hi, w.method, w.depth)
  BY DEF IsCall
<1>2. /\ w.lo \in Nat /\ w.hi \in Nat /\ x \in Nat /\ w.depth \in Nat
  BY <1>1, SharesNumbers
<1>3. x \in {w.lo, w.lo + 1} /\ (x = w.lo + 1 <=> Len(Pattern(w.lo)) = w.depth)
  BY <1>1, LongerIs
<1>4. i \in x..(w.hi - 1)
  <2> HIDE DEF x
  <2>1. x = w.lo + 1 => i # w.lo
    BY <1>2, <1>3
  <2> QED
    BY <1>2, <1>3, <2>1
<1>5. PICK r \in RunsOf(w) : i \in r.from..(r.to - 1)
  BY <1>1, <1>4, RunOf DEF RunsOf
<1>6. PICK k \in 1..RunCount(w) : RunAt(w, k) = r
  BY RunNumbers
<1> QED
  BY <1>5, <1>6

\* A call's child is built by a call for entries of its own that share a segment
\* more.
LEMMA KidIsCall ==
    ASSUME Divided, pc = "tries", NEW w, IsCall(w), NEW k \in 1..RunCount(w)
    PROVE  /\ IsCall(CallAt(w, k))
           /\ CallAt(w, k).lo \in w.lo..(w.hi - 1) /\ CallAt(w, k).hi <= w.hi
           /\ CallAt(w, k).hi \in Nat /\ CallAt(w, k).lo \in Nat
           /\ CallAt(w, k).method = w.method /\ CallAt(w, k).depth = w.depth + 1
<1> DEFINE r == RunAt(w, k)
           v == CallAt(w, k)
<1>1. Shares(w.lo, w.hi, w.method, w.depth) /\ Whole(w)
  BY DEF IsCall
<1>2. r \in Runs(Longer(w.lo, w.hi, w.depth), w.hi, w.depth)
  BY RunNumbers DEF RunsOf
<1>3. /\ v.lo = r.from /\ v.hi = r.to /\ v.method = w.method /\ v.depth = w.depth + 1
      /\ v = CallOf(v)
  BY DEF CallAt, CallOf
<1> HIDE DEF v, r
<1>4. /\ r.from \in w.lo..(w.hi - 1) /\ r.from \in Nat /\ r.to \in (r.from + 1)..w.hi
      /\ Shares(r.from, r.to, w.method, w.depth + 1)
  BY <1>1, <1>2, RunsAre
<1>5. w.lo \in Nat /\ w.hi \in Nat /\ w.depth \in Nat /\ Len(order) \in Nat
  BY <1>1, SharesNumbers
<1>6. ASSUME NEW i \in 1..Len(order),
             entries[order[i]].method = w.method, Len(Pattern(i)) >= w.depth + 1,
             \A d \in 1..(w.depth + 1) : SameSeg(Pattern(i)[d], Pattern(r.from)[d])
      PROVE  i \in r.from..(r.to - 1)
  <2>1. Len(Pattern(i)) \in Nat
    BY OrderIs
  <2>2. \A d \in 1..w.depth : SameSeg(Pattern(r.from)[d], Pattern(w.lo)[d])
    BY <1>1, <1>4 DEF Shares
  <2>3. \A d \in 1..w.depth : SameSeg(Pattern(i)[d], Pattern(w.lo)[d])
    <3>1. \A d \in 1..w.depth : d \in 1..(w.depth + 1)
      BY <1>5
    <3> QED
      BY <1>6, <2>2, <3>1 DEF SameSeg
  <2>4. i \in w.lo..(w.hi - 1) /\ Len(Pattern(i)) > w.depth
    <3>1. Len(Pattern(i)) >= w.depth
      BY <1>5, <1>6, <2>1
    <3> QED
      BY <1>1, <1>5, <1>6, <2>1, <2>3, <3>1 DEF Whole
  <2>5. PICK j \in 1..RunCount(w) : i \in RunAt(w, j).from..(RunAt(w, j).to - 1)
    BY <2>4, RunOfEntry
  <2>6. SameSeg(Pattern(i)[w.depth + 1], SegAt(w, j))
    BY <2>5, RunSegments
  <2>7. SameSeg(SegAt(w, j), SegAt(w, k))
    <3>1. w.depth + 1 \in 1..(w.depth + 1)
      BY <1>5
    <3> QED
      BY <1>6, <2>6, <3>1 DEF SameSeg, SegAt, r
  <2>8. j = k
    BY <2>7, RunSegments
  <2> QED
    BY <2>5, <2>8 DEF r
<1>7. Whole(v)
  BY <1>3, <1>6 DEF Whole
<1>8. r.to \in Nat /\ r.to <= w.hi
  BY <1>4, <1>5
<1> QED
  BY <1>3, <1>4, <1>7, <1>8 DEF IsCall, v

\* A call's first entry is of its method.
LEMMA CallBegin ==
    ASSUME Divided, pc = "tries", NEW w, IsCall(w)
    PROVE  /\ w.lo \in 1..Len(order) /\ w.lo \in w.lo..(w.hi - 1)
           /\ w.lo \in Nat /\ w.hi \in Nat /\ w.depth \in Nat
           /\ entries[order[w.lo]].method = w.method /\ w.method \in Methods
           /\ Len(Pattern(w.lo)) >= w.depth
<1>1. Shares(w.lo, w.hi, w.method, w.depth)
  BY DEF IsCall
<1>2. w.lo \in Nat /\ w.hi \in Nat /\ w.depth \in Nat /\ w.lo < w.hi /\ w.lo \in 1..Len(order)
  BY <1>1, SharesNumbers
<1>3. w.lo \in w.lo..(w.hi - 1)
  BY <1>2
<1>4. entries[order[w.lo]].method = w.method /\ Len(Pattern(w.lo)) >= w.depth
  BY <1>1, <1>3 DEF Shares
<1>5. w.method \in Methods
  BY <1>2, <1>4, OrderIs
<1> QED
  BY <1>2, <1>3, <1>4, <1>5

\* A call is told by its method, its depth and what its entries begin with.
LEMMA SameCall ==
    ASSUME Divided, pc = "tries", NEW v, IsCall(v), NEW w, IsCall(w),
           v.method = w.method, v.depth = w.depth,
           \A d \in 1..w.depth : SameSeg(Pattern(v.lo)[d], Pattern(w.lo)[d])
    PROVE  v = w
<1>1. ASSUME NEW a, IsCall(a), NEW b, IsCall(b), a.method = b.method, a.depth = b.depth,
             \A d \in 1..b.depth : SameSeg(Pattern(a.lo)[d], Pattern(b.lo)[d])
      PROVE  \A i \in a.lo..(a.hi - 1) : i \in b.lo..(b.hi - 1)
  <2>1. Shares(a.lo, a.hi, a.method, a.depth) /\ Whole(b)
    BY <1>1 DEF IsCall
  <2>2. ASSUME NEW i \in a.lo..(a.hi - 1)
        PROVE  /\ entries[order[i]].method = b.method /\ Len(Pattern(i)) >= b.depth
               /\ \A d \in 1..b.depth : SameSeg(Pattern(i)[d], Pattern(b.lo)[d])
               /\ i \in 1..Len(order)
    <3>1. i \in 1..Len(order)
      BY <2>1, SharesNumbers
    <3>2. /\ entries[order[i]].method = a.method /\ Len(Pattern(i)) >= a.depth
          /\ \A d \in 1..a.depth : SameSeg(Pattern(i)[d], Pattern(a.lo)[d])
      BY <2>1 DEF Shares
    <3> QED
      BY <1>1, <3>1, <3>2 DEF SameSeg
  <2> QED
    BY <2>1, <2>2 DEF Whole
<1>2. \A d \in 1..v.depth : SameSeg(Pattern(w.lo)[d], Pattern(v.lo)[d])
  BY DEF SameSeg
<1>3. /\ \A i \in v.lo..(v.hi - 1) : i \in w.lo..(w.hi - 1)
      /\ \A i \in w.lo..(w.hi - 1) : i \in v.lo..(v.hi - 1)
  BY <1>1, <1>2
<1>4. /\ v.lo \in Nat /\ v.hi \in Nat /\ v.lo < v.hi
      /\ w.lo \in Nat /\ w.hi \in Nat /\ w.lo < w.hi
  BY SharesNumbers DEF IsCall
<1>5. v.lo = w.lo
  <2>1. v.lo \in v.lo..(v.hi - 1) /\ w.lo \in w.lo..(w.hi - 1)
    BY <1>4
  <2> QED
    BY <1>3, <1>4, <2>1
<1>6. v.hi = w.hi
  <2>1. v.hi - 1 \in v.lo..(v.hi - 1) /\ w.hi - 1 \in w.lo..(w.hi - 1)
    BY <1>4
  <2>2. v.hi - 1 \in w.lo..(w.hi - 1) /\ w.hi - 1 \in v.lo..(v.hi - 1)
    BY <1>3, <2>1
  <2> QED
    BY <1>4, <2>2
<1> QED
  BY <1>5, <1>6 DEF IsCall, CallOf

\* No child is of two calls, or of two runs of one.
LEMMA OneParent ==
    ASSUME Divided, pc = "tries", NEW v, IsCall(v), NEW w, IsCall(w),
           NEW j \in 1..RunCount(v), NEW k \in 1..RunCount(w), CallAt(v, j) = CallAt(w, k)
    PROVE  v = w /\ j = k
<1>1. /\ v.method = w.method /\ v.depth + 1 = w.depth + 1
      /\ RunAt(v, j).from = RunAt(w, k).from
  BY DEF CallAt
<1> DEFINE i == RunAt(v, j).from
<1>2. /\ Shares(v.lo, v.hi, v.method, v.depth) /\ Shares(w.lo, w.hi, w.method, w.depth)
  BY DEF IsCall
<1>3. v.depth \in Nat /\ w.depth \in Nat
  BY <1>2, SharesNumbers
<1>4. v.depth = w.depth
  BY <1>1, <1>3
<1>5. i \in v.lo..(v.hi - 1) /\ i \in w.lo..(w.hi - 1)
  BY <1>1, KidIsCall DEF CallAt
<1> HIDE DEF i
<1>6. \A d \in 1..w.depth : SameSeg(Pattern(v.lo)[d], Pattern(w.lo)[d])
  <2>1. \A d \in 1..v.depth : SameSeg(Pattern(i)[d], Pattern(v.lo)[d])
    BY <1>2, <1>5 DEF Shares
  <2>2. \A d \in 1..w.depth : SameSeg(Pattern(i)[d], Pattern(w.lo)[d])
    BY <1>2, <1>5 DEF Shares
  <2> QED
    BY <1>4, <2>1, <2>2 DEF SameSeg
<1>7. v = w
  BY <1>1, <1>4, <1>6, SameCall
<1>8. RunAt(w, j) \in RunsOf(w) /\ RunAt(w, k) \in RunsOf(w) /\ j \in 1..RunCount(w)
  BY <1>7, RunNumbers
<1>9. RunAt(w, j) = RunAt(w, k)
  BY <1>1, <1>7, <1>8, RunFrom DEF RunsOf
<1> QED
  BY <1>7, <1>8, <1>9, RunNumbers

-----------------------------------------------------------------------------
(* What a node holds of its children.                                      *)

IsKid(c, w, k, wh) == c \in 1..Len(wh) /\ wh[c] = CallAt(w, k)

EdgeAt(n, text, j, es) == es[Slot(n.edges, n.count, edgeHash[text], j)]

\* The node n of a call w has its k-th child, a literal one, where a search for its
\* text ends.
HoldsEdge(n, w, k, es, wh) ==
    LET text == SegAt(w, k).text
    IN  \E c \in 1..Len(wh) :
            /\ IsKid(c, w, k, wh)
            /\ IF n.hashed
               THEN \E j \in 0..(n.count - 1) :
                        /\ EdgeAt(n, text, j, es) = [text |-> text, child |-> c]
                        /\ \A i \in 0..(j - 1) : EdgeAt(n, text, i, es).child # None
               ELSE es[n.edges + k] = [text |-> text, child |-> c]

\* The i-th edge of the node is its k-th child's.
OwnEdge(n, w, k, i, es, wh) ==
    /\ es[n.edges + i].text = SegAt(w, k).text
    /\ IsKid(es[n.edges + i].child, w, k, wh)

\* Of its first `last` children, the node has the literal ones in its edges, and
\* no others there.
HoldsEdges(n, w, last, es, wh) ==
    /\ \A k \in 1..Len(LitsOf(w)) : k <= last => HoldsEdge(n, w, k, es, wh)
    /\ n.hashed =>
           \A i \in 1..n.count : es[n.edges + i].child # None =>
               \E k \in 1..Len(LitsOf(w)) : k <= last /\ OwnEdge(n, w, k, i, es, wh)

OtherKinds == {"u64", "i64", "param", "rest"}

OtherNumbers(w) == (Len(LitsOf(w)) + 1)..RunCount(w)

\* And the others by their kinds.
HoldsKids(w, last, kids, wh) ==
    /\ kids = [kind \in OtherKinds |-> kids[kind]]
    /\ \A kind \in OtherKinds : kids[kind] # None =>
           \E k \in OtherNumbers(w) :
               k <= last /\ RunAt(w, k).kind = kind /\ IsKid(kids[kind], w, k, wh)
    /\ \A k \in OtherNumbers(w) : k <= last => kids[RunAt(w, k).kind] # None

\* What else a node records of its call.
NodeIs(n, w) ==
    /\ n.route = IF Len(Pattern(w.lo)) = w.depth THEN entries[order[w.lo]].route ELSE None
    /\ n.branches = Len(OthersOf(w)) + (IF LitsOf(w) = << >> THEN 0 ELSE 1)
    /\ ~n.hashed => n.count = Len(LitsOf(w))

\* The nodes of wh go on in wh1.
Extends(wh1, wh) ==
    /\ Len(wh) \in Nat /\ Len(wh1) \in Nat /\ Len(wh) <= Len(wh1)
    /\ \A c \in 1..Len(wh) : wh1[c] = wh[c]

\* Two edge lists are the same at the places of a node.
SameEdges(n, es1, es) == \A i \in 1..n.count : es1[n.edges + i] = es[n.edges + i]

\* The slot a probe comes to is one of its array.
LEMMA SlotIsOne ==
    ASSUME NEW first \in Nat, NEW size \in Nat, size > 0, NEW hash \in Nat, NEW j \in Nat
    PROVE  \E i \in 1..size : Slot(first, size, hash, j) = first + i
<1>1. (hash + j) % size \in 0..(size - 1)
  BY Z3
<1> DEFINE q == (hash + j) % size
<1>2. q + 1 \in 1..size /\ Slot(first, size, hash, j) = first + (q + 1)
  <2>1. Slot(first, size, hash, j) = first + 1 + q
    BY DEF Slot
  <2> HIDE DEF q
  <2> QED
    BY <1>1, <2>1 DEF q
<1> QED
  BY <1>2

\* The text of a literal child's edge has a hash.
LEMMA EdgeTexts ==
    ASSUME Divided, pc = "tries", NEW w, IsCall(w), NEW k \in 1..Len(LitsOf(w))
    PROVE  /\ k \in 1..RunCount(w) /\ SegAt(w, k).text \in Texts \cup {Empty}
           /\ edgeHash[SegAt(w, k).text] \in Nat
           /\ SegAt(w, k) = Lit(SegAt(w, k).text)
<1>1. k \in 1..RunCount(w) /\ k <= Len(LitsOf(w))
  BY RunNumbers DEF RunCount
<1>2. SegAt(w, k) \in Segments /\ SegAt(w, k).kind = "literal"
  BY <1>1, RunSegments, RunNumbers
<1>3. SegAt(w, k).text \in Texts \cup {Empty}
  BY <1>2, SegFields
<1>4. edgeHash \in EdgeHashes
  BY DEF Divided, Parsed
<1>5. edgeHash[SegAt(w, k).text] \in Nat
  BY <1>3, <1>4, HashesAssumption
<1>6. SegAt(w, k) = Lit(SegAt(w, k).text)
  <2> DEFINE s == SegAt(w, k)
  <2> HIDE DEF s
  <2>1. s \in Segments /\ s.kind = "literal"
    BY <1>2 DEF s
  <2>2. s = Lit(s.text)
    BY <2>1 DEF Segments, Lit
  <2> QED
    BY <2>2 DEF s
<1> QED
  BY <1>1, <1>3, <1>5, <1>6

\* What a node holds it holds when nodes are added and the edges of others put in.
LEMMA HoldsKept ==
    ASSUME Divided, pc = "tries", NEW w, IsCall(w), NEW n, NodeIs(n, w),
           n.edges \in Nat, n.count \in Nat, n.hashed => n.count > 0,
           NEW last, NEW es, NEW wh, NEW kids,
           HoldsEdges(n, w, last, es, wh), HoldsKids(w, last, kids, wh),
           NEW n1, n1.edges = n.edges, n1.count = n.count, n1.hashed = n.hashed,
           NEW es1, SameEdges(n, es1, es), NEW wh1, Extends(wh1, wh)
    PROVE  HoldsEdges(n1, w, last, es1, wh1) /\ HoldsKids(w, last, kids, wh1)
<1>1. \A c, k : IsKid(c, w, k, wh) => IsKid(c, w, k, wh1)
  BY DEF IsKid, Extends
<1>2. HoldsKids(w, last, kids, wh1)
  BY <1>1 DEF HoldsKids
<1>3. \A i \in 1..n.count : es1[n.edges + i] = es[n.edges + i]
  BY DEF SameEdges
<1>4. ASSUME NEW k \in 1..Len(LitsOf(w)), HoldsEdge(n, w, k, es, wh)
      PROVE  HoldsEdge(n1, w, k, es1, wh1)
  <2> DEFINE text == SegAt(w, k).text
  <2>1. edgeHash[text] \in Nat
    BY EdgeTexts
  <2> HIDE DEF text
  <2>2. ASSUME n.hashed, NEW j \in 0..(n.count - 1)
        PROVE  EdgeAt(n1, text, j, es1) = EdgeAt(n, text, j, es)
    <3>0. n.edges \in Nat /\ n.count \in Nat /\ n.count > 0 /\ j \in Nat
      BY <2>2
    <3>1. PICK i \in 1..n.count : Slot(n.edges, n.count, edgeHash[text], j) = n.edges + i
      BY ONLY <2>1, <3>0, SlotIsOne, Zenon
    <3> QED
      BY <1>3, <3>1 DEF EdgeAt
  <2>3. PICK c \in 1..Len(wh) :
            /\ IsKid(c, w, k, wh)
            /\ IF n.hashed
               THEN \E j \in 0..(n.count - 1) :
                        /\ EdgeAt(n, text, j, es) = [text |-> text, child |-> c]
                        /\ \A i \in 0..(j - 1) : EdgeAt(n, text, i, es).child # None
               ELSE es[n.edges + k] = [text |-> text, child |-> c]
    BY <1>4 DEF HoldsEdge, text
  <2>4. c \in 1..Len(wh1) /\ IsKid(c, w, k, wh1)
    BY <1>1, <2>3 DEF IsKid
  <2>5. CASE n.hashed
    <3>1. PICK j \in 0..(n.count - 1) :
              /\ EdgeAt(n, text, j, es) = [text |-> text, child |-> c]
              /\ \A i \in 0..(j - 1) : EdgeAt(n, text, i, es).child # None
      BY <2>3, <2>5
    <3>2. \A i \in 0..(j - 1) : i \in 0..(n.count - 1)
      OBVIOUS
    <3>3. /\ EdgeAt(n1, text, j, es1) = [text |-> text, child |-> c]
          /\ \A i \in 0..(j - 1) : EdgeAt(n1, text, i, es1).child # None
      BY <2>2, <2>5, <3>1, <3>2
    <3> QED
      BY <2>4, <2>5, <3>3 DEF HoldsEdge, text
  <2>6. CASE ~n.hashed
    <3>1. es1[n.edges + k] = es[n.edges + k]
      BY <1>3, <2>6 DEF NodeIs
    <3> QED
      BY <2>3, <2>4, <2>6, <3>1 DEF HoldsEdge, text
  <2> QED
    BY <2>5, <2>6
<1>5. ASSUME n.hashed, NEW i \in 1..n.count, es1[n.edges + i].child # None
      PROVE  \E k \in 1..Len(LitsOf(w)) : k <= last /\ OwnEdge(n1, w, k, i, es1, wh1)
  <2>1. PICK k \in 1..Len(LitsOf(w)) : k <= last /\ OwnEdge(n, w, k, i, es, wh)
    BY <1>3, <1>5 DEF HoldsEdges
  <2>2. OwnEdge(n1, w, k, i, es1, wh1)
    BY <1>1, <1>3, <2>1 DEF OwnEdge
  <2> QED
    BY <2>1, <2>2
<1>6. HoldsEdges(n1, w, last, es1, wh1)
  BY <1>4, <1>5 DEF HoldsEdges
<1> QED
  BY <1>2, <1>6

\* A node just added holds none.
LEMMA HoldsNone ==
    ASSUME Divided, pc = "tries", NEW w, IsCall(w), NEW n, NEW es, NEW wh,
           \A i \in 1..n.count : es[n.edges + i] = NoEdge
    PROVE  HoldsEdges(n, w, 0, es, wh) /\ HoldsKids(w, 0, NoKids, wh)
<1>1. Len(LitsOf(w)) \in Nat
  BY RunNumbers
<1>2. \A k \in 1..Len(LitsOf(w)) : ~(k <= 0)
  BY <1>1
<1>3. \A k \in OtherNumbers(w) : ~(k <= 0)
  BY <1>1 DEF OtherNumbers
<1>4. \A i \in 1..n.count : es[n.edges + i].child = None
  BY DEF NoEdge
<1>5. /\ NoKids = [kind \in OtherKinds |-> NoKids[kind]]
      /\ \A kind \in OtherKinds : NoKids[kind] = None
  BY DEF NoKids, OtherKinds
<1>6. HoldsEdges(n, w, 0, es, wh)
  BY <1>2, <1>4 DEF HoldsEdges
<1>7. HoldsKids(w, 0, NoKids, wh)
  BY <1>3, <1>5 DEF HoldsKids
<1> QED
  BY <1>6, <1>7

\* The place of a node's k-th edge: its own, or the first free one of a probe.
FreePlace(n, text, k, place, es) ==
    IF n.hashed
    THEN \E j \in 0..(n.count - 1) :
             /\ place = Slot(n.edges, n.count, edgeHash[text], j)
             /\ EdgeAt(n, text, j, es).child = None
             /\ \A i \in 0..(j - 1) : EdgeAt(n, text, i, es).child # None
    ELSE place = n.edges + k

\* An edge put into one place of a node.
EdgeIn(n, place, e, es, es1) ==
    \A i \in 1..n.count :
        es1[n.edges + i] = IF n.edges + i = place THEN e ELSE es[n.edges + i]

\* The next child, a literal one, put into a place EdgePlaces allows.
LEMMA HoldsOneEdge ==
    ASSUME Divided, pc = "tries", NEW w, IsCall(w), NEW n, NodeIs(n, w),
           n.edges \in Nat, n.count \in Nat, n.hashed => n.count > 0,
           NEW k \in 1..Len(LitsOf(w)), NEW es, NEW wh, Len(wh) \in Nat, NEW kids,
           HoldsEdges(n, w, k - 1, es, wh), HoldsKids(w, k - 1, kids, wh),
           NEW c, IsKid(c, w, k, wh), NEW text, text = SegAt(w, k).text, NEW place,
           FreePlace(n, text, k, place, es),
           NEW es1, EdgeIn(n, place, [text |-> text, child |-> c], es, es1)
    PROVE  HoldsEdges(n, w, k, es1, wh) /\ HoldsKids(w, k, kids, wh)
<1>1. Len(LitsOf(w)) \in Nat /\ k \in Nat /\ c \in Nat /\ c # None
  <2>1. Len(LitsOf(w)) \in Nat
    BY RunNumbers
  <2>2. c \in Nat
    BY DEF IsKid
  <2> QED
    BY <2>1, <2>2, NoneAssumption
<1>2. \A l \in 1..Len(LitsOf(w)) : l <= k => l <= k - 1 \/ l = k
  BY <1>1
<1>3. \A l \in 1..Len(LitsOf(w)) : l <= k - 1 => l <= k
  BY <1>1
<1>4. HoldsKids(w, k, kids, wh)
  <2>1. \A l \in OtherNumbers(w) : ~(l <= k)
    BY <1>1 DEF OtherNumbers
  <2>2. \A l \in OtherNumbers(w) : ~(l <= k - 1)
    BY <1>1 DEF OtherNumbers
  <2> QED
    BY <2>1, <2>2 DEF HoldsKids
<1> DEFINE new == [text |-> text, child |-> c]
<1>5. new.text = text /\ new.child = c
  OBVIOUS
<1> HIDE DEF new
<1>6. \A i \in 1..n.count :
          es1[n.edges + i] = IF n.edges + i = place THEN new ELSE es[n.edges + i]
  BY DEF EdgeIn, new
<1>7. CASE n.hashed
  <2>1. PICK j \in 0..(n.count - 1) :
            /\ place = Slot(n.edges, n.count, edgeHash[text], j)
            /\ EdgeAt(n, text, j, es).child = None
            /\ \A i \in 0..(j - 1) : EdgeAt(n, text, i, es).child # None
    BY <1>7 DEF FreePlace
  <2>2. ASSUME NEW l \in 1..Len(LitsOf(w)), NEW i \in Nat
        PROVE  LET t == SegAt(w, l).text
               IN  EdgeAt(n, t, i, es1) =
                       IF Slot(n.edges, n.count, edgeHash[t], i) = place THEN new
                       ELSE EdgeAt(n, t, i, es)
    <3> DEFINE t == SegAt(w, l).text
    <3>1. edgeHash[t] \in Nat
      BY EdgeTexts
    <3> HIDE DEF t
    <3>0. n.edges \in Nat /\ n.count \in Nat /\ n.count > 0 /\ i \in Nat
      BY <1>7
    <3>2. PICK e \in 1..n.count : Slot(n.edges, n.count, edgeHash[t], i) = n.edges + e
      BY ONLY <3>0, <3>1, SlotIsOne, Zenon
    <3>3. EdgeAt(n, t, i, es1) =
              IF Slot(n.edges, n.count, edgeHash[t], i) = place THEN new
              ELSE EdgeAt(n, t, i, es)
      BY <1>6, <3>2 DEF EdgeAt
    <3> QED
      BY <3>3 DEF t
  <2>3. es[place].child = None
    BY <2>1 DEF EdgeAt
  <2>4. ASSUME NEW l \in 1..Len(LitsOf(w)), NEW i \in Nat,
               EdgeAt(n, SegAt(w, l).text, i, es).child # None
        PROVE  EdgeAt(n, SegAt(w, l).text, i, es1) = EdgeAt(n, SegAt(w, l).text, i, es)
    BY <2>2, <2>3, <2>4 DEF EdgeAt
  <2>5. ASSUME NEW l \in 1..Len(LitsOf(w)), l <= k
        PROVE  HoldsEdge(n, w, l, es1, wh)
    <3>1. CASE l <= k - 1
      <4> DEFINE t == SegAt(w, l).text
      <4>1. HoldsEdge(n, w, l, es, wh)
        BY <3>1 DEF HoldsEdges
      <4>2. PICK d \in 1..Len(wh), i \in 0..(n.count - 1) :
                /\ IsKid(d, w, l, wh)
                /\ EdgeAt(n, t, i, es) = [text |-> t, child |-> d]
                /\ \A e \in 0..(i - 1) : EdgeAt(n, t, e, es).child # None
        BY <1>7, <4>1 DEF HoldsEdge
      <4>3. d # None /\ i \in Nat /\ \A e \in 0..(i - 1) : e \in Nat
        BY NoneAssumption
      <4>4. EdgeAt(n, t, i, es).child = d
        BY <4>2
      <4>5. EdgeAt(n, t, i, es1) = EdgeAt(n, t, i, es)
        BY <2>4, <4>3, <4>4
      <4>6. \A e \in 0..(i - 1) : EdgeAt(n, t, e, es1).child # None
        BY <2>4, <4>2, <4>3
      <4> QED
        BY <1>7, <4>2, <4>5, <4>6 DEF HoldsEdge
    <3>2. CASE l = k
      <4>1. EdgeAt(n, text, j, es1) = new
        BY <2>1, <2>2
      <4>2. \A i \in 0..(j - 1) : EdgeAt(n, text, i, es1).child # None
        <5>1. \A i \in 0..(j - 1) : i \in Nat
          OBVIOUS
        <5> QED
          BY <2>1, <2>4, <5>1
      <4>3. c \in 1..Len(wh)
        BY DEF IsKid
      <4> QED
        BY <1>7, <3>2, <4>1, <4>2, <4>3 DEF HoldsEdge, new
    <3> QED
      BY <1>2, <2>5, <3>1, <3>2
  <2>6. ASSUME NEW i \in 1..n.count, es1[n.edges + i].child # None
        PROVE  \E l \in 1..Len(LitsOf(w)) : l <= k /\ OwnEdge(n, w, l, i, es1, wh)
    <3>1. CASE n.edges + i = place
      <4>1. es1[n.edges + i] = new
        BY <1>6, <3>1
      <4>2. OwnEdge(n, w, k, i, es1, wh)
        BY <1>5, <4>1 DEF OwnEdge
      <4> QED
        BY <1>1, <4>2
    <3>2. CASE n.edges + i # place
      <4>1. es1[n.edges + i] = es[n.edges + i]
        BY <1>6, <3>2
      <4>2. PICK l \in 1..Len(LitsOf(w)) : l <= k - 1 /\ OwnEdge(n, w, l, i, es, wh)
        BY <1>7, <2>6, <4>1 DEF HoldsEdges
      <4>3. OwnEdge(n, w, l, i, es1, wh)
        BY <4>1, <4>2 DEF OwnEdge
      <4> QED
        BY <1>3, <4>2, <4>3
    <3> QED
      BY <3>1, <3>2
  <2> QED
    BY <1>4, <2>5, <2>6 DEF HoldsEdges
<1>8. CASE ~n.hashed
  <2>1. n.count = Len(LitsOf(w)) /\ place = n.edges + k
    BY <1>8 DEF NodeIs, FreePlace
  <2>2. ASSUME NEW l \in 1..Len(LitsOf(w)), l <= k
        PROVE  HoldsEdge(n, w, l, es1, wh)
    <3>1. CASE l <= k - 1
      <4>1. n.edges + l # place
        BY <1>1, <2>1, <3>1
      <4>2. es1[n.edges + l] = es[n.edges + l]
        BY <1>6, <2>1, <4>1
      <4>3. HoldsEdge(n, w, l, es, wh)
        BY <3>1 DEF HoldsEdges
      <4> QED
        BY <1>8, <4>2, <4>3 DEF HoldsEdge
    <3>2. CASE l = k
      <4>1. es1[n.edges + k] = new
        BY <1>6, <2>1
      <4>2. c \in 1..Len(wh)
        BY DEF IsKid
      <4> QED
        BY <1>8, <3>2, <4>1, <4>2 DEF HoldsEdge, new
    <3> QED
      BY <1>2, <2>2, <3>1, <3>2
  <2> QED
    BY <1>4, <1>8, <2>2 DEF HoldsEdges
<1> QED
  BY <1>7, <1>8

\* The next child, not a literal one, recorded under its kind.
LEMMA HoldsOneKid ==
    ASSUME Divided, pc = "tries", NEW w, IsCall(w), NEW n,
           NEW k \in OtherNumbers(w), NEW es, NEW wh, NEW kids,
           HoldsEdges(n, w, k - 1, es, wh), HoldsKids(w, k - 1, kids, wh),
           NEW c, IsKid(c, w, k, wh)
    PROVE  /\ HoldsEdges(n, w, k, es, wh)
           /\ HoldsKids(w, k, [kids EXCEPT ![RunAt(w, k).kind] = c], wh)
<1>1. /\ Len(LitsOf(w)) \in Nat /\ RunCount(w) \in Nat /\ k \in 1..RunCount(w)
      /\ k \in Nat /\ k > Len(LitsOf(w))
  BY RunNumbers DEF OtherNumbers
<1>2. c \in Nat /\ c # None
  <2>1. c \in Nat
    BY DEF IsKid
  <2> QED
    BY <2>1, NoneAssumption
<1>3. RunAt(w, k).kind \in OtherKinds
  <2>1. RunAt(w, k).kind # "literal"
    BY <1>1, RunNumbers
  <2>2. SegAt(w, k) \in Segments /\ SegAt(w, k).kind = RunAt(w, k).kind
    BY <1>1, RunSegments
  <2>3. RunAt(w, k).kind \in Kinds
    BY <2>2, SegFields
  <2> QED
    BY <2>1, <2>3 DEF Kinds, OtherKinds
<1>4. HoldsEdges(n, w, k, es, wh)
  <2>1. \A l \in 1..Len(LitsOf(w)) : l <= k - 1 /\ l <= k
    BY <1>1
  <2> QED
    BY <2>1 DEF HoldsEdges
<1> DEFINE kind == RunAt(w, k).kind
           kids1 == [kids EXCEPT ![kind] = c]
<1> HIDE DEF kind
<1>5. /\ kids1 = [x \in OtherKinds |-> kids1[x]]
      /\ \A x \in OtherKinds : kids1[x] = IF x = kind THEN c ELSE kids[x]
  BY <1>3 DEF HoldsKids, kind
<1> HIDE DEF kids1
<1>6. ASSUME NEW x \in OtherKinds, kids1[x] # None
      PROVE  \E l \in OtherNumbers(w) :
                 l <= k /\ RunAt(w, l).kind = x /\ IsKid(kids1[x], w, l, wh)
  <2>1. CASE x = kind
    BY <1>1, <1>5, <2>1 DEF kind
  <2>2. CASE x # kind
    <3>1. kids1[x] = kids[x]
      BY <1>5, <2>2
    <3>2. PICK l \in OtherNumbers(w) :
              l <= k - 1 /\ RunAt(w, l).kind = x /\ IsKid(kids[x], w, l, wh)
      BY <1>6, <3>1 DEF HoldsKids
    <3>3. l \in Nat
      BY <1>1 DEF OtherNumbers
    <3>4. l <= k
      BY <1>1, <3>2, <3>3
    <3> QED
      BY <3>1, <3>2, <3>4
  <2> QED
    BY <2>1, <2>2
<1>7. ASSUME NEW l \in OtherNumbers(w), l <= k
      PROVE  kids1[RunAt(w, l).kind] # None
  <2>1. CASE RunAt(w, l).kind = kind
    BY <1>2, <1>3, <1>5, <2>1 DEF kind
  <2>2. CASE RunAt(w, l).kind # kind
    <3>1. l # k /\ l \in Nat
      BY <1>1, <2>2 DEF kind, OtherNumbers
    <3>2. l <= k - 1
      BY <1>1, <1>7, <3>1
    <3>3. kids[RunAt(w, l).kind] # None
      BY <3>2 DEF HoldsKids
    <3>4. RunAt(w, l).kind \in OtherKinds
      <4>1. l \in 1..RunCount(w) /\ ~(l <= Len(LitsOf(w)))
        BY <1>1 DEF OtherNumbers
      <4>2. RunAt(w, l).kind # "literal"
        BY <4>1, RunNumbers
      <4>3. SegAt(w, l) \in Segments /\ SegAt(w, l).kind = RunAt(w, l).kind
        BY <4>1, RunSegments
      <4>4. RunAt(w, l).kind \in Kinds
        BY <4>3, SegFields
      <4> QED
        BY <4>2, <4>4 DEF Kinds, OtherKinds
    <3> QED
      BY <1>5, <2>2, <3>3, <3>4
  <2> QED
    BY <2>1, <2>2
<1>8. HoldsKids(w, k, kids1, wh)
  BY <1>5, <1>6, <1>7 DEF HoldsKids
<1> QED
  BY <1>4, <1>8 DEF kids1, kind

\* A node that holds as many children as its call has runs holds all.
LEMMA HoldsAll ==
    ASSUME Divided, pc = "tries", NEW w, IsCall(w), NEW n, NEW last \in Nat,
           last >= RunCount(w), NEW es, NEW wh, NEW kids,
           HoldsEdges(n, w, last, es, wh), HoldsKids(w, last, kids, wh)
    PROVE  /\ HoldsEdges(n, w, RunCount(w), es, wh)
           /\ HoldsKids(w, RunCount(w), kids, wh)
<1>1. /\ Len(LitsOf(w)) \in Nat /\ RunCount(w) \in Nat
      /\ \A k \in 1..Len(LitsOf(w)) : k \in 1..RunCount(w)
  BY RunNumbers DEF RunCount
<1>2. \A k \in 1..RunCount(w) : k <= last /\ k <= RunCount(w)
  BY <1>1
<1>3. \A k \in OtherNumbers(w) : k \in 1..RunCount(w)
  BY <1>1 DEF OtherNumbers
<1>4. HoldsEdges(n, w, RunCount(w), es, wh)
  BY <1>1, <1>2 DEF HoldsEdges
<1>5. HoldsKids(w, RunCount(w), kids, wh)
  BY <1>2, <1>3 DEF HoldsKids
<1> QED
  BY <1>4, <1>5

-----------------------------------------------------------------------------
(* The tree of the calls.                                                  *)

\* Every node is of a call of its own.
Named(ns, wh, l) ==
    /\ List(wh) /\ Len(wh) = Len(ns)
    /\ \A id \in 1..Len(ns) : IsCall(wh[id]) /\ NodeIs(ns[id], wh[id]) /\ wh[id].hi <= l
    /\ \A a, b \in 1..Len(ns) : wh[a] = wh[b] => a = b

\* A call has begun its k-th child.
Begun(fs, p, k) ==
    \A i \in 1..Len(fs) : fs[i].self = p =>
        k < fs[i].next \/ (k = fs[i].next /\ i < Len(fs))

\* Every node but a trie's first is another's child.
Parented(fs, wh) ==
    \A id \in 1..Len(wh) :
        \/ wh[id].depth = 0
        \/ \E p \in 1..Len(wh) : \E k \in 1..RunCount(wh[p]) :
               wh[id] = CallAt(wh[p], k) /\ Begun(fs, p, k)

\* Each call under way is its caller's for the next child, and its node holds those
\* before.
UnderWay(ns, es, fs, wh) ==
    /\ \A i \in 1..Len(fs) :
           LET f == fs[i]
               w == CallOf(f)
           IN  /\ f.self \in 1..Len(ns) /\ wh[f.self] = w /\ f.depth = i - 1
               /\ HoldsEdges(ns[f.self], w, f.next - 1, es, wh)
               /\ HoldsKids(w, f.next - 1, f.kids, wh)
    /\ \A i \in 1..(Len(fs) - 1) :
           /\ fs[i].next \in 1..RunCount(CallOf(fs[i]))
           /\ CallOf(fs[i + 1]) = CallAt(CallOf(fs[i]), fs[i].next)

\* The node of any other call holds all of its children.
Finished(ns, es, fs, wh) ==
    \A id \in 1..Len(ns) :
        (\A i \in 1..Len(fs) : fs[i].self # id) =>
            /\ HoldsEdges(ns[id], wh[id], RunCount(wh[id]), es, wh)
            /\ HoldsKids(wh[id], RunCount(wh[id]), ns[id].kids, wh)

\* The tries finished are their methods' roots; every method of an entry before l
\* has one, finished or under way.
Rooted(fs, wh, rs, l) ==
    /\ rs = [m \in Methods |-> rs[m]]
    /\ \A m \in Methods : rs[m] # None =>
           rs[m] \in 1..Len(wh) /\ wh[rs[m]].method = m /\ wh[rs[m]].depth = 0
    /\ \A id \in 1..Len(wh) : wh[id].depth = 0 =>
           rs[wh[id].method] = id \/ (Len(fs) > 0 /\ fs[1].self = id)
    /\ \A i \in 1..Len(order) : i < l =>
           \E id \in 1..Len(wh) :
               wh[id].depth = 0 /\ wh[id].method = entries[order[i]].method

TreeOfCalls(ns, es, fs, wh, rs, l) ==
    /\ Named(ns, wh, l) /\ Parented(fs, wh)
    /\ UnderWay(ns, es, fs, wh) /\ Finished(ns, es, fs, wh)
    /\ Rooted(fs, wh, rs, l)

\* What is said of calls rests on the routes, their order and the hashes alone.
LEMMA TreeRests ==
    ASSUME UNCHANGED <<entries, order, edgeHash>>
    PROVE  \A ns, es, fs, wh, rs, l :
               TreeOfCalls(ns, es, fs, wh, rs, l)' <=> TreeOfCalls(ns, es, fs, wh, rs, l)
<1>1. \A w : LitsOf(w)' = LitsOf(w) /\ OthersOf(w)' = OthersOf(w)
  BY DEF LitsOf, OthersOf, LiteralRuns, OtherRuns, ByPlace, InOrder, Runs, Longer,
         FirstFrom, Pattern
<1>2. \A w : RunCount(w)' = RunCount(w) /\ OtherNumbers(w)' = OtherNumbers(w)
  BY <1>1 DEF RunCount, OtherNumbers
<1>3. \A w, k : RunAt(w, k)' = RunAt(w, k)
  BY <1>1 DEF RunAt
<1>4. \A w, k : SegAt(w, k)' = SegAt(w, k) /\ CallAt(w, k)' = CallAt(w, k)
  BY <1>3 DEF SegAt, CallAt, Pattern
<1>5. \A w : IsCall(w)' <=> IsCall(w)
  BY DEF IsCall, Whole, Shares, Pattern
<1>6. \A c, w, k, wh : IsKid(c, w, k, wh)' <=> IsKid(c, w, k, wh)
  BY <1>4 DEF IsKid
<1>7. \A n, t, j, es : EdgeAt(n, t, j, es)' = EdgeAt(n, t, j, es)
  BY DEF EdgeAt
<1>8. \A n, w, k, es, wh : HoldsEdge(n, w, k, es, wh)' <=> HoldsEdge(n, w, k, es, wh)
  BY <1>4, <1>6, <1>7 DEF HoldsEdge
<1>9. \A n, w, k, i, es, wh : OwnEdge(n, w, k, i, es, wh)' <=> OwnEdge(n, w, k, i, es, wh)
  BY <1>4, <1>6 DEF OwnEdge
<1>10. \A n, w, last, es, wh :
           HoldsEdges(n, w, last, es, wh)' <=> HoldsEdges(n, w, last, es, wh)
  BY <1>1, <1>8, <1>9 DEF HoldsEdges
<1>11. \A w, last, kids, wh : HoldsKids(w, last, kids, wh)' <=> HoldsKids(w, last, kids, wh)
  BY <1>2, <1>3, <1>6 DEF HoldsKids
<1>12. \A n, w : NodeIs(n, w)' <=> NodeIs(n, w)
  BY <1>1 DEF NodeIs, Pattern
<1>13. \A ns, wh, l : Named(ns, wh, l)' <=> Named(ns, wh, l)
  BY <1>5, <1>12 DEF Named
<1>14. \A fs, wh : Parented(fs, wh)' <=> Parented(fs, wh)
  BY <1>2, <1>4 DEF Parented
<1>15. \A ns, es, fs, wh : UnderWay(ns, es, fs, wh)' <=> UnderWay(ns, es, fs, wh)
  BY <1>2, <1>4, <1>10, <1>11 DEF UnderWay
<1>16. \A ns, es, fs, wh : Finished(ns, es, fs, wh)' <=> Finished(ns, es, fs, wh)
  BY <1>2, <1>10, <1>11 DEF Finished
<1>17. \A fs, wh, rs, l : Rooted(fs, wh, rs, l)' <=> Rooted(fs, wh, rs, l)
  BY DEF Rooted
<1> QED
  BY <1>13, <1>14, <1>15, <1>16, <1>17 DEF TreeOfCalls

\* What a call that begins adds.
LEMMA EnterAdds ==
    ASSUME Building, pc = "tries", NEW w, IsCall(w), List(where), Len(where) = Len(nodes),
           Enter(frames, w.method, w.lo, w.hi, w.depth)
    PROVE  LET N == Len(nodes) + 1
               n == nodes'[N]
               f == frames'[Len(frames) + 1]
           IN  /\ List(nodes') /\ Len(nodes') = N
               /\ \A id \in 1..Len(nodes) : nodes'[id] = nodes[id]
               /\ \A i \in 1..Len(edges) : edges'[i] = edges[i]
               /\ NodeIs(n, w)
               /\ \A i \in 1..n.count : edges'[n.edges + i] = NoEdge
               /\ List(where') /\ Len(where') = N /\ where'[N] = w
               /\ \A id \in 1..Len(nodes) : where'[id] = where[id]
               /\ List(frames') /\ Len(frames') = Len(frames) + 1
               /\ \A i \in 1..Len(frames) : frames'[i] = frames[i]
               /\ f.self = N /\ CallOf(f) = w /\ f.depth = w.depth /\ f.next = 1
               /\ f.kids = NoKids
<1> DEFINE rest == Longer(w.lo, w.hi, w.depth)
           lits == LitsOf(w)
           others == OthersOf(w)
           hashed == Len(lits) > LinearEdges
           size == IF hashed THEN SlotsFor(Len(lits)) ELSE Len(lits)
           n == [edges |-> Len(edges), count |-> size, hashed |-> hashed,
                 branches |-> Len(others) + (IF lits = << >> THEN 0 ELSE 1),
                 route |-> IF rest > w.lo THEN entries[order[rest - 1]].route ELSE None,
                 kids |-> NoKids]
           new == [k \in 1..size |-> NoEdge]
           f == [method |-> w.method, lo |-> w.lo, hi |-> w.hi, depth |-> w.depth,
                 self |-> NewNode, base |-> Len(groups), count |-> Len(lits),
                 others |-> others, next |-> 1, kids |-> NoKids]
           N == Len(nodes) + 1
<1>1. /\ nodes' = Append(nodes, n) /\ edges' = edges \o new
      /\ where' = Append(where, [method |-> w.method, lo |-> w.lo, hi |-> w.hi, depth |-> w.depth])
      /\ frames' = Append(frames, f)
  BY DEF Enter, LitsOf, OthersOf
<1>2. [method |-> w.method, lo |-> w.lo, hi |-> w.hi, depth |-> w.depth] = w
  BY DEF IsCall, CallOf
<1>3. /\ Divided /\ List(nodes) /\ List(edges) /\ List(frames)
      /\ Len(nodes) \in Nat /\ Len(edges) \in Nat /\ Len(frames) \in Nat
  BY DEF Building, LaidOut, Stacked, List
<1>4. Shares(w.lo, w.hi, w.method, w.depth)
  BY DEF IsCall
<1>5. /\ w.lo \in Nat /\ rest \in Nat /\ rest \in {w.lo, w.lo + 1}
      /\ rest = w.lo + 1 <=> Len(Pattern(w.lo)) = w.depth
  BY <1>3, <1>4, LongerIs, SharesNumbers
<1>6. Len(lits) \in Nat /\ Len(others) \in Nat
  BY <1>3, RunNumbers
<1> HIDE DEF lits, others, rest
<1>7. size \in Nat /\ (~hashed => size = Len(lits))
  BY <1>6, SlotsAreEnough
<1> HIDE DEF size, hashed
<1>8. /\ n.edges = Len(edges) /\ n.count = size /\ n.hashed = hashed
      /\ n.branches = Len(others) + (IF lits = << >> THEN 0 ELSE 1)
      /\ n.route = IF rest > w.lo THEN entries[order[rest - 1]].route ELSE None
  OBVIOUS
<1>9. f.self = N /\ f.next = 1 /\ f.kids = NoKids /\ CallOf(f) = w /\ f.depth = w.depth
  BY <1>2 DEF NewNode, CallOf
<1> HIDE DEF n, f
<1>10. NodeIs(n, w)
  <2>1. n.route = IF Len(Pattern(w.lo)) = w.depth THEN entries[order[w.lo]].route ELSE None
    <3>1. CASE rest = w.lo
      <4>1. ~(rest > w.lo) /\ Len(Pattern(w.lo)) # w.depth
        BY <1>5, <3>1
      <4> QED
        BY <1>8, <4>1
    <3>2. CASE rest = w.lo + 1
      <4>1. rest > w.lo /\ rest - 1 = w.lo /\ Len(Pattern(w.lo)) = w.depth
        BY <1>5, <3>2
      <4> QED
        BY <1>8, <4>1
    <3> QED
      BY <1>5, <3>1, <3>2
  <2> QED
    BY <1>7, <1>8, <2>1 DEF NodeIs, lits, others
<1>11. /\ List(nodes') /\ Len(nodes') = N /\ nodes'[N] = n
       /\ \A id \in 1..Len(nodes) : nodes'[id] = nodes[id]
  BY <1>1, <1>3, ListAppend
<1>12. /\ List(where') /\ Len(where') = N /\ where'[N] = w
       /\ \A id \in 1..Len(nodes) : where'[id] = where[id]
  BY <1>1, <1>2, <1>3, ListAppend
<1>13. /\ List(frames') /\ Len(frames') = Len(frames) + 1 /\ frames'[Len(frames) + 1] = f
       /\ \A i \in 1..Len(frames) : frames'[i] = frames[i]
  BY <1>1, <1>3, ListAppend
<1>14. List(new) /\ Len(new) = size /\ \A i \in 1..size : new[i] = NoEdge
  <2>1. new = [k \in 1..size |-> new[k]]
    OBVIOUS
  <2> QED
    BY <1>7, <2>1, ListOf
<1> HIDE DEF new
<1>15. /\ \A i \in 1..Len(edges) : edges'[i] = edges[i]
       /\ \A i \in 1..size : edges'[Len(edges) + i] = new[i]
  BY <1>1, <1>3, <1>14, ListConcat
<1>16. \A i \in 1..n.count : edges'[n.edges + i] = NoEdge
  BY <1>8, <1>14, <1>15
<1> QED
  BY <1>9, <1>10, <1>11, <1>12, <1>13, <1>15, <1>16 DEF N

\* A call that begins keeps the tree: its node is its caller's next child.
LEMMA EnterTree ==
    ASSUME Building, pc = "tries", TreeOfCalls(nodes, edges, frames, where, roots, lo),
           NEW w, IsCall(w), Enter(frames, w.method, w.lo, w.hi, w.depth),
           NEW l1 \in Nat, lo <= l1, w.hi <= l1, w.depth = Len(frames),
           \A id \in 1..Len(nodes) : where[id] # w,
           Len(frames) = 0 =>
               \A i \in 1..Len(order) : i < l1 => i < lo \/ entries[order[i]].method = w.method,
           Len(frames) > 0 =>
               /\ l1 = lo
               /\ frames[Len(frames)].next \in 1..RunCount(CallOf(frames[Len(frames)]))
               /\ w = CallAt(CallOf(frames[Len(frames)]), frames[Len(frames)].next)
    PROVE  TreeOfCalls(nodes', edges', frames', where', roots, l1)
<1> DEFINE N == Len(nodes) + 1
           n == nodes'[N]
           F == Len(frames)
           f == frames'[F + 1]
<1>1. /\ Named(nodes, where, lo) /\ Parented(frames, where)
      /\ UnderWay(nodes, edges, frames, where) /\ Finished(nodes, edges, frames, where)
      /\ Rooted(frames, where, roots, lo)
  BY DEF TreeOfCalls
<1>2. /\ Divided /\ Len(nodes) \in Nat /\ Len(edges) \in Nat /\ F \in Nat
      /\ List(where) /\ Len(where) = Len(nodes) /\ lo \in Nat
  BY <1>1 DEF Building, LaidOut, Stacked, List, Named
<1>3. /\ List(nodes') /\ Len(nodes') = N
      /\ \A id \in 1..Len(nodes) : nodes'[id] = nodes[id]
      /\ \A i \in 1..Len(edges) : edges'[i] = edges[i]
      /\ NodeIs(n, w)
      /\ \A i \in 1..n.count : edges'[n.edges + i] = NoEdge
      /\ List(where') /\ Len(where') = N /\ where'[N] = w
      /\ \A id \in 1..Len(nodes) : where'[id] = where[id]
      /\ List(frames') /\ Len(frames') = F + 1
      /\ \A i \in 1..F : frames'[i] = frames[i]
      /\ f.self = N /\ CallOf(f) = w /\ f.depth = w.depth /\ f.next = 1
      /\ f.kids = NoKids
  BY <1>2, EnterAdds
<1> HIDE DEF n, f
<1>4. /\ \A id \in 1..N : id \in 1..Len(nodes) \/ id = N
      /\ \A id \in 1..Len(nodes) : id \in 1..N /\ id # N
      /\ N \in 1..N
  BY <1>2
<1>5. /\ \A i \in 1..(F + 1) : i \in 1..F \/ i = F + 1
      /\ \A i \in 1..F : i \in 1..(F + 1)
  BY <1>2
<1> HIDE DEF N, F
<1>6. \A i \in 1..F : frames[i].self \in 1..Len(nodes)
  BY <1>1 DEF UnderWay, F
<1>7. \A id \in 1..Len(nodes) : IsCall(where[id]) /\ NodeIs(nodes[id], where[id])
                                /\ where[id].hi <= lo
  BY <1>1 DEF Named
<1>8. Named(nodes', where', l1)
  <2>1. ASSUME NEW id \in 1..N
        PROVE  IsCall(where'[id]) /\ NodeIs(nodes'[id], where'[id]) /\ where'[id].hi <= l1
    <3>1. CASE id \in 1..Len(nodes)
      <4>1. IsCall(where[id]) /\ where[id].hi <= lo
        BY <1>7, <3>1
      <4>2. where[id].hi \in Nat
        BY <1>2, <4>1, SharesNumbers DEF IsCall
      <4>3. where[id].hi <= l1
        BY <1>2, <4>1, <4>2
      <4> QED
        BY <1>3, <1>7, <3>1, <4>3
    <3>2. CASE id = N
      BY <1>3, <3>2 DEF n
    <3> QED
      BY <1>4, <3>1, <3>2
  <2>2. ASSUME NEW a \in 1..N, NEW b \in 1..N, where'[a] = where'[b]
        PROVE  a = b
    <3>1. a \in 1..Len(nodes) /\ b \in 1..Len(nodes) => a = b
      BY <1>1, <1>3, <2>2 DEF Named
    <3>2. \A id \in 1..Len(nodes) : where'[id] # where'[N]
      BY <1>3
    <3> QED
      BY <1>4, <2>2, <3>1, <3>2
  <2> QED
    BY <1>3, <2>1, <2>2 DEF Named
<1>9. Extends(where', where)
  BY <1>2, <1>3 DEF Extends, N
<1>10. ASSUME NEW id \in 1..Len(nodes), NEW last, NEW kids,
              HoldsEdges(nodes[id], where[id], last, edges, where),
              HoldsKids(where[id], last, kids, where)
       PROVE  /\ HoldsEdges(nodes'[id], where'[id], last, edges', where')
              /\ HoldsKids(where'[id], last, kids, where')
  <2> DEFINE z == nodes[id]
  <2>1. /\ IsNode(z) /\ z.edges + z.count <= Len(edges) /\ (z.hashed => z.count > 0)
    BY DEF Building, LaidOut
  <2>2. z.edges \in Nat /\ z.count \in Nat
    BY <2>1 DEF IsNode
  <2>3. SameEdges(z, edges', edges)
    <3>1. \A i \in 1..z.count : z.edges + i \in 1..Len(edges)
      <4> HIDE DEF z
      <4> QED
        BY <1>2, <2>1, <2>2
    <3> QED
      BY <1>3, <3>1 DEF SameEdges
  <2>4. IsCall(where[id]) /\ NodeIs(z, where[id])
    BY <1>7
  <2> HIDE DEF z
  <2>5. HoldsEdges(z, where[id], last, edges', where') /\ HoldsKids(where[id], last, kids, where')
    BY <1>2, <1>9, <1>10, <2>1, <2>2, <2>3, <2>4, HoldsKept DEF z
  <2> QED
    BY <1>3, <2>5 DEF z
<1>11. Parented(frames', where')
  <2>1. ASSUME NEW p \in 1..Len(nodes), NEW k \in Nat, Begun(frames, p, k)
        PROVE  Begun(frames', p, k)
    <3>1. ASSUME NEW i \in 1..(F + 1), frames'[i].self = p
          PROVE  k < frames'[i].next \/ (k = frames'[i].next /\ i < F + 1)
      <4>1. i # F + 1
        BY <1>3, <1>4, <3>1 DEF f
      <4>2. i \in 1..F /\ frames'[i] = frames[i]
        BY <1>3, <1>5, <4>1
      <4>3. k < frames[i].next \/ k = frames[i].next
        BY <2>1, <3>1, <4>2 DEF Begun, F
      <4>4. i < F + 1
        BY <1>2, <4>2
      <4> QED
        BY <4>2, <4>3, <4>4
    <3> QED
      BY <1>3, <3>1 DEF Begun
  <2>2. ASSUME NEW id \in 1..Len(nodes), where[id].depth # 0
        PROVE  \E p \in 1..N : \E k \in 1..RunCount(where'[p]) :
                   where'[id] = CallAt(where'[p], k) /\ Begun(frames', p, k)
    <3>1. PICK p \in 1..Len(nodes) : \E k \in 1..RunCount(where[p]) :
              where[id] = CallAt(where[p], k) /\ Begun(frames, p, k)
      BY <1>1, <1>2, <2>2 DEF Parented
    <3>2. PICK k \in 1..RunCount(where[p]) :
              where[id] = CallAt(where[p], k) /\ Begun(frames, p, k)
      BY <3>1
    <3>3. Begun(frames', p, k)
      BY <2>1, <3>2
    <3> QED
      BY <1>3, <1>4, <3>2, <3>3
  <2>3. ASSUME w.depth # 0
        PROVE  \E p \in 1..N : \E k \in 1..RunCount(where'[p]) :
                   where'[N] = CallAt(where'[p], k) /\ Begun(frames', p, k)
    <3> DEFINE g == frames[F]
               k == g.next
    <3>1. F > 0 /\ F \in 1..F
      BY <1>2, <2>3 DEF F
    <3>2. /\ k \in 1..RunCount(CallOf(g)) /\ w = CallAt(CallOf(g), k)
          /\ g.self \in 1..Len(nodes) /\ where[g.self] = CallOf(g)
      BY <1>1, <3>1 DEF UnderWay, F
    <3>3. Begun(frames', g.self, k)
      <4>1. ASSUME NEW i \in 1..(F + 1), frames'[i].self = g.self
            PROVE  k = frames'[i].next /\ i < F + 1
        <5>1. i \in 1..F /\ frames'[i] = frames[i]
          BY <1>3, <1>4, <1>5, <3>2, <4>1 DEF f
        <5>2. \A j \in 1..F : j < F => frames[j].self < g.self
          BY <3>1 DEF Building, Stacked, F
        <5>3. i = F
          BY <1>2, <3>2, <4>1, <5>1, <5>2
        <5> QED
          BY <1>2, <5>1, <5>3
      <4> QED
        BY <1>3, <4>1 DEF Begun
    <3> HIDE DEF g, k
    <3>4. /\ g.self \in 1..N /\ where'[g.self] = CallOf(g) /\ where'[N] = w
          /\ k \in 1..RunCount(where'[g.self])
      BY <1>3, <1>4, <3>2
    <3>5. where'[N] = CallAt(where'[g.self], k)
      BY <3>2, <3>4
    <3> QED
      BY <3>3, <3>4, <3>5
  <2>4. \A id \in 1..Len(nodes) : where'[id] = where[id]
    BY <1>3
  <2> QED
    BY <1>3, <1>4, <2>2, <2>3, <2>4 DEF Parented
<1>12. UnderWay(nodes', edges', frames', where')
  <2>1. ASSUME NEW i \in 1..(F + 1)
        PROVE  LET g == frames'[i]
                   v == CallOf(g)
               IN  /\ g.self \in 1..N /\ where'[g.self] = v /\ g.depth = i - 1
                   /\ HoldsEdges(nodes'[g.self], v, g.next - 1, edges', where')
                   /\ HoldsKids(v, g.next - 1, g.kids, where')
    <3>1. CASE i \in 1..F
      <4> DEFINE g == frames[i]
      <4>1. /\ frames'[i] = g /\ g.self \in 1..Len(nodes) /\ where[g.self] = CallOf(g)
            /\ g.depth = i - 1
            /\ HoldsEdges(nodes[g.self], where[g.self], g.next - 1, edges, where)
            /\ HoldsKids(where[g.self], g.next - 1, g.kids, where)
        BY <1>1, <1>3, <3>1 DEF UnderWay, F
      <4> HIDE DEF g
      <4>2. /\ HoldsEdges(nodes'[g.self], where'[g.self], g.next - 1, edges', where')
            /\ HoldsKids(where'[g.self], g.next - 1, g.kids, where')
        BY <1>10, <4>1
      <4>3. where'[g.self] = CallOf(g) /\ g.self \in 1..N
        BY <1>3, <1>4, <4>1
      <4> QED
        BY <4>1, <4>2, <4>3
    <3>2. CASE i = F + 1
      <4>1. HoldsEdges(n, w, 0, edges', where') /\ HoldsKids(w, 0, NoKids, where')
        BY <1>2, <1>3, HoldsNone
      <4>2. frames'[i] = f /\ f.self = N /\ CallOf(f) = w /\ f.next = 1 /\ f.kids = NoKids
            /\ f.depth = w.depth /\ f.next - 1 = 0 /\ i - 1 = F
        BY <1>2, <1>3, <3>2 DEF f
      <4>3. nodes'[N] = n /\ where'[N] = w
        BY <1>3 DEF n
      <4> QED
        BY <1>4, <4>1, <4>2, <4>3 DEF F
    <3> QED
      BY <1>5, <3>1, <3>2
  <2>2. ASSUME NEW i \in 1..((F + 1) - 1)
        PROVE  /\ frames'[i].next \in 1..RunCount(CallOf(frames'[i]))
               /\ CallOf(frames'[i + 1]) = CallAt(CallOf(frames'[i]), frames'[i].next)
    <3>1. i \in 1..F /\ frames'[i] = frames[i]
      BY <1>2, <1>3
    <3>2. CASE i = F
      <4>1. F > 0
        BY <1>2, <3>1
      <4> QED
        BY <1>3, <3>1, <3>2, <4>1 DEF f, F
    <3>3. CASE i # F
      <4>1. i \in 1..(F - 1) /\ i + 1 \in 1..F
        BY <1>2, <3>1, <3>3
      <4>2. frames'[i + 1] = frames[i + 1]
        BY <1>3, <4>1
      <4> QED
        BY <1>1, <3>1, <4>1, <4>2 DEF UnderWay, F
    <3> QED
      BY <3>2, <3>3
  <2> QED
    BY <1>3, <2>1, <2>2 DEF UnderWay
<1>13. Finished(nodes', edges', frames', where')
  <2> SUFFICES ASSUME NEW id \in 1..N, \A i \in 1..(F + 1) : frames'[i].self # id
               PROVE  /\ HoldsEdges(nodes'[id], where'[id], RunCount(where'[id]), edges', where')
                      /\ HoldsKids(where'[id], RunCount(where'[id]), nodes'[id].kids, where')
    BY <1>3 DEF Finished
  <2>1. id # N
    <3>1. F + 1 \in 1..(F + 1)
      BY <1>2
    <3> QED
      BY <1>3, <3>1 DEF f
  <2>2. id \in 1..Len(nodes) /\ \A i \in 1..F : frames[i].self # id
    BY <1>3, <1>4, <1>5, <2>1
  <2>3. /\ HoldsEdges(nodes[id], where[id], RunCount(where[id]), edges, where)
        /\ HoldsKids(where[id], RunCount(where[id]), nodes[id].kids, where)
    BY <1>1, <2>2 DEF Finished, F
  <2>4. nodes'[id] = nodes[id] /\ where'[id] = where[id]
    BY <1>3, <2>2
  <2> QED
    BY <1>10, <2>2, <2>3, <2>4
<1>14. Rooted(frames', where', roots, l1)
  <2>1. /\ roots = [m \in Methods |-> roots[m]]
        /\ \A m \in Methods : roots[m] # None =>
               /\ roots[m] \in 1..Len(nodes)
               /\ where[roots[m]].method = m /\ where[roots[m]].depth = 0
        /\ \A id \in 1..Len(nodes) : where[id].depth = 0 =>
               roots[where[id].method] = id \/ (F > 0 /\ frames[1].self = id)
        /\ \A i \in 1..Len(order) : i < lo =>
               \E id \in 1..Len(nodes) :
                   where[id].depth = 0 /\ where[id].method = entries[order[i]].method
    BY <1>1, <1>2 DEF Rooted, F
  <2>2. \A m \in Methods : roots[m] # None =>
            roots[m] \in 1..N /\ where'[roots[m]].method = m /\ where'[roots[m]].depth = 0
    BY <1>3, <1>4, <2>1
  <2>3. ASSUME NEW id \in 1..N, where'[id].depth = 0
        PROVE  roots[where'[id].method] = id \/ (F + 1 > 0 /\ frames'[1].self = id)
    <3>1. CASE id \in 1..Len(nodes)
      <4>1. where'[id] = where[id]
        BY <1>3, <3>1
      <4>2. F > 0 => frames'[1] = frames[1] /\ F + 1 > 0
        BY <1>2, <1>3
      <4> QED
        BY <2>1, <2>3, <3>1, <4>1, <4>2
    <3>2. CASE id = N
      <4>1. F = 0
        BY <1>3, <2>3, <3>2 DEF F
      <4> QED
        BY <1>3, <3>2, <4>1 DEF f
    <3> QED
      BY <1>4, <3>1, <3>2
  <2>4. ASSUME NEW i \in 1..Len(order), i < l1
        PROVE  \E id \in 1..N :
                   where'[id].depth = 0 /\ where'[id].method = entries[order[i]].method
    <3>1. CASE i < lo
      BY <1>3, <1>4, <2>1, <3>1
    <3>2. CASE ~(i < lo)
      <4>1. F = 0
        <5>1. ~(F > 0)
          BY <2>4, <3>2 DEF F
        <5> QED
          BY <1>2, <5>1
      <4>2. entries[order[i]].method = w.method /\ w.depth = 0
        BY <2>4, <3>2, <4>1 DEF F
      <4> QED
        BY <1>3, <1>4, <4>2
    <3> QED
      BY <3>1, <3>2
  <2> QED
    BY <1>3, <2>1, <2>2, <2>3, <2>4 DEF Rooted
<1> QED
  BY <1>8, <1>11, <1>12, <1>13, <1>14 DEF TreeOfCalls

\* The runs a call still remembers are its runs.
LEMMA FrameRuns ==
    ASSUME Building, NEW i \in 1..Len(frames), NEW f, f = frames[i]
    PROVE  /\ IsFrame(f) /\ f.count = Len(LitsOf(CallOf(f))) /\ f.count \in Nat
           /\ Len(f.others) \in Nat /\ f.others = OthersOf(CallOf(f))
           /\ RunCount(CallOf(f)) = f.count + Len(f.others)
           /\ f.next \in Nat /\ f.next > 0
           /\ f.next <= RunCount(CallOf(f)) => NextRun(f) = RunAt(CallOf(f), f.next)
<1>1. IsFrame(f) /\ HasGroups(f, groups)
  BY DEF Building, Stacked
<1>2. /\ CallOf(f).lo = f.lo /\ CallOf(f).hi = f.hi /\ CallOf(f).depth = f.depth
  BY DEF CallOf
<1>3. /\ f.count = Len(LitsOf(CallOf(f))) /\ f.count \in Nat
      /\ Len(f.others) \in Nat /\ f.others = OthersOf(CallOf(f))
      /\ f.next \in Nat /\ f.next > 0
  BY <1>1, <1>2 DEF IsFrame, LitsOf, OthersOf
<1>4. RunCount(CallOf(f)) = f.count + Len(f.others)
  BY <1>3 DEF RunCount
<1>5. ASSUME f.next <= f.count
      PROVE  NextRun(f) = RunAt(CallOf(f), f.next)
  <2>1. f.next \in 1..f.count
    BY <1>3, <1>5
  <2>2. groups[f.base + f.next] = LitsOf(CallOf(f))[f.next]
    BY <1>1, <1>2, <1>5, <2>1 DEF HasGroups, LitsOf
  <2> QED
    BY <1>3, <1>5, <2>2 DEF NextRun, RunAt
<1>6. ASSUME ~(f.next <= f.count)
      PROVE  NextRun(f) = RunAt(CallOf(f), f.next)
  BY <1>3, <1>6 DEF NextRun, RunAt
<1> QED
  BY <1>1, <1>3, <1>4, <1>5, <1>6

\* What a call that returns changes.
LEMMA ReturnDoes ==
    ASSUME Building, Return
    PROVE  LET F == Len(frames)
               top == frames[F]
               c == frames[F - 1]
               c1 == frames'[F - 1]
               text == Pattern(NextRun(c).from)[c.depth + 1].text
           IN  /\ pc = "tries" /\ F \in Nat /\ F > 0 /\ where' = where /\ lo' = lo
               /\ UNCHANGED <<entries, order, pc, edgeHash>>
               /\ top.next > top.count + Len(top.others)
               /\ List(nodes') /\ Len(nodes') = Len(nodes)
               /\ \A id \in 1..Len(nodes) :
                      /\ nodes'[id].edges = nodes[id].edges
                      /\ nodes'[id].count = nodes[id].count
                      /\ nodes'[id].hashed = nodes[id].hashed
                      /\ nodes'[id].route = nodes[id].route
                      /\ nodes'[id].branches = nodes[id].branches
                      /\ nodes'[id].kids = IF id = top.self THEN top.kids ELSE nodes[id].kids
               /\ F = 1 => /\ frames' = << >> /\ edges' = edges
                           /\ roots' = [roots EXCEPT ![top.method] = top.self]
               /\ F > 1 =>
                      /\ roots' = roots
                      /\ List(frames') /\ Len(frames') = F - 1
                      /\ \A i \in 1..(F - 1) : i # F - 1 => frames'[i] = frames[i]
                      /\ c1.self = c.self /\ CallOf(c1) = CallOf(c) /\ c1.depth = c.depth
                      /\ c1.next = c.next + 1
                      /\ c.next <= c.count =>
                             /\ c1.kids = c.kids
                             /\ \E place \in EdgePlaces(c, text) :
                                    edges' = [edges EXCEPT ![place] =
                                                 [text |-> text, child |-> top.self]]
                      /\ ~(c.next <= c.count) =>
                             /\ edges' = edges
                             /\ c1.kids = [c.kids EXCEPT ![NextRun(c).kind] = top.self]
<1> DEFINE F == Len(frames)
           top == frames[F]
           c == frames[F - 1]
           c1 == frames'[F - 1]
           text == Pattern(NextRun(c).from)[c.depth + 1].text
<1>1. /\ List(frames) /\ F \in Nat /\ LaidOut(nodes, edges) /\ frames # << >> /\ pc = "tries"
  BY DEF Building, Stacked, List, Return
<1>2. F > 0 /\ F \in 1..F
  <2>1. F = 0 => frames = << >>
    BY <1>1 DEF List
  <2> QED
    BY <1>1, <2>1
<1>3. /\ UNCHANGED <<entries, order, pc, lo, where, edgeHash>>
      /\ nodes' = [nodes EXCEPT ![top.self].kids = top.kids]
      /\ top.next > top.count + Len(top.others)
  BY DEF Return, Top
<1>4. /\ List(Callers) /\ Len(Callers) = F - 1
      /\ \A i \in 1..(F - 1) : Callers[i] = frames[i]
  <2>1. F - 1 \in 0..Len(frames) /\ Callers = SubSeq(frames, 1, F - 1)
    BY <1>2 DEF Callers
  <2> HIDE DEF F
  <2> QED
    BY <1>1, <2>1, ListFirst
<1> HIDE DEF F, top
<1>5. /\ List(nodes') /\ Len(nodes') = Len(nodes)
      /\ \A id \in 1..Len(nodes) :
             /\ nodes'[id].edges = nodes[id].edges
             /\ nodes'[id].count = nodes[id].count
             /\ nodes'[id].hashed = nodes[id].hashed
             /\ nodes'[id].route = nodes[id].route
             /\ nodes'[id].branches = nodes[id].branches
             /\ nodes'[id].kids = IF id = top.self THEN top.kids ELSE nodes[id].kids
  <2>1. List(nodes) /\ Len(nodes) \in Nat /\ nodes = [i \in 1..Len(nodes) |-> nodes[i]]
    BY <1>1 DEF LaidOut, List
  <2>2. /\ nodes' = [i \in 1..Len(nodes) |-> nodes'[i]]
        /\ \A id \in 1..Len(nodes) :
               nodes'[id] = IF id = top.self THEN [nodes[id] EXCEPT !.kids = top.kids]
                            ELSE nodes[id]
    BY <1>3, <2>1
  <2>3. List(nodes') /\ Len(nodes') = Len(nodes)
    BY <2>1, <2>2, ListOf
  <2>4. ASSUME NEW id \in 1..Len(nodes)
        PROVE  /\ nodes'[id].edges = nodes[id].edges
               /\ nodes'[id].count = nodes[id].count
               /\ nodes'[id].hashed = nodes[id].hashed
               /\ nodes'[id].route = nodes[id].route
               /\ nodes'[id].branches = nodes[id].branches
               /\ nodes'[id].kids = IF id = top.self THEN top.kids ELSE nodes[id].kids
    <3> DEFINE z == nodes[id]
    <3>1. IsNode(z)
      BY <1>1 DEF LaidOut
    <3>2. [z EXCEPT !.kids = top.kids] =
              [edges |-> z.edges, count |-> z.count, hashed |-> z.hashed,
               branches |-> z.branches, route |-> z.route, kids |-> top.kids]
      <4> HIDE DEF z
      <4> QED
        BY <3>1 DEF IsNode
    <3> QED
      BY <2>2, <3>2
  <2> QED
    BY <2>3, <2>4
<1>6. F = 1 => /\ frames' = << >> /\ edges' = edges
               /\ roots' = [roots EXCEPT ![top.method] = top.self]
  <2>1. F = 1 => Callers = << >>
    BY <1>4 DEF List
  <2> QED
    BY <2>1 DEF Return, Top, top, F
<1>7. ASSUME F > 1
      PROVE  /\ roots' = roots
             /\ List(frames') /\ Len(frames') = F - 1
             /\ \A i \in 1..(F - 1) : i # F - 1 => frames'[i] = frames[i]
             /\ c1.self = c.self /\ CallOf(c1) = CallOf(c) /\ c1.depth = c.depth
             /\ c1.next = c.next + 1
             /\ c.next <= c.count =>
                    /\ c1.kids = c.kids
                    /\ \E place \in EdgePlaces(c, text) :
                           edges' = [edges EXCEPT ![place] =
                                        [text |-> text, child |-> top.self]]
             /\ ~(c.next <= c.count) =>
                    /\ edges' = edges
                    /\ c1.kids = [c.kids EXCEPT ![NextRun(c).kind] = top.self]
  <2>1. F - 1 \in 1..F /\ F - 1 \in 1..(F - 1) /\ F - 1 \in Nat /\ F - 1 # 0
    BY <1>1, <1>7
  <2>2. Callers # << >> /\ Callers[Len(Callers)] = c /\ Callers[F - 1] = c
    <3>1. Callers = << >> => Len(Callers) = 0
      OBVIOUS
    <3> QED
      BY <1>4, <2>1, <3>1
  <2>3. Deliver(c, top.self) /\ roots' = roots
    BY <2>2 DEF Return, Top, top, F
  <2>4. IsFrame(c)
    BY <2>1 DEF Building, Stacked, F
  <2> HIDE DEF c, c1, text
  <2>5. c = [method |-> c.method, lo |-> c.lo, hi |-> c.hi, depth |-> c.depth,
             self |-> c.self, base |-> c.base, count |-> c.count,
             others |-> c.others, next |-> c.next, kids |-> c.kids]
    BY <2>4 DEF IsFrame
  <2>6. ASSUME NEW d, frames' = [Callers EXCEPT ![F - 1] = d]
        PROVE  /\ List(frames') /\ Len(frames') = F - 1
               /\ \A i \in 1..(F - 1) : i # F - 1 => frames'[i] = frames[i]
               /\ c1 = d
    <3>1. Callers = [i \in 1..(F - 1) |-> Callers[i]]
      BY <1>4 DEF List
    <3>2. /\ frames' = [i \in 1..(F - 1) |-> frames'[i]]
          /\ \A i \in 1..(F - 1) : frames'[i] = IF i = F - 1 THEN d ELSE frames[i]
      BY <1>4, <2>6, <3>1
    <3>3. List(frames') /\ Len(frames') = F - 1
      BY <2>1, <3>2, ListOf
    <3> QED
      BY <2>1, <3>2, <3>3 DEF c1
  <2>7. CASE c.next <= c.count
    <3> DEFINE d == [c EXCEPT !.next = @ + 1]
    <3>1. \E place \in EdgePlaces(c, text) :
              edges' = [edges EXCEPT ![place] = [text |-> text, child |-> top.self]]
      BY <2>3, <2>7 DEF Deliver, text
    <3>2. frames' = [Callers EXCEPT ![Len(Callers)].next = @ + 1]
      BY <2>3, <2>7 DEF Deliver
    <3>3. frames' = [Callers EXCEPT ![F - 1] = [Callers[F - 1] EXCEPT !.next = @ + 1]]
      BY <1>4, <3>2
    <3>4. frames' = [Callers EXCEPT ![F - 1] = d]
      <4> HIDE DEF F
      <4> QED
        BY <2>2, <3>3
    <3>5. d = [method |-> c.method, lo |-> c.lo, hi |-> c.hi, depth |-> c.depth,
               self |-> c.self, base |-> c.base, count |-> c.count,
               others |-> c.others, next |-> c.next + 1, kids |-> c.kids]
      BY <2>5
    <3> HIDE DEF d
    <3>6. /\ d.self = c.self /\ CallOf(d) = CallOf(c) /\ d.depth = c.depth
          /\ d.next = c.next + 1 /\ d.kids = c.kids
      BY <3>5 DEF CallOf
    <3>7. /\ List(frames') /\ Len(frames') = F - 1
          /\ \A i \in 1..(F - 1) : i # F - 1 => frames'[i] = frames[i]
          /\ c1 = d
      BY <2>6, <3>4
    <3> QED
      BY <2>3, <2>7, <3>1, <3>6, <3>7
  <2>8. CASE ~(c.next <= c.count)
    <3> DEFINE kids1 == [c.kids EXCEPT ![NextRun(c).kind] = top.self]
               d == [c EXCEPT !.next = @ + 1]
               e == [c EXCEPT !.next = @ + 1, !.kids[NextRun(c).kind] = top.self]
    <3>1. /\ edges' = edges
          /\ frames' = [Callers EXCEPT ![Len(Callers)] = e]
      BY <2>3, <2>8 DEF Deliver
    <3>2. d = [method |-> c.method, lo |-> c.lo, hi |-> c.hi, depth |-> c.depth,
               self |-> c.self, base |-> c.base, count |-> c.count,
               others |-> c.others, next |-> c.next + 1, kids |-> c.kids]
      BY <2>5
    <3>3. e = [d EXCEPT !.kids[NextRun(c).kind] = top.self]
      OBVIOUS
    <3> DEFINE kind == NextRun(c).kind
    <3> HIDE DEF d, kind
    <3>4. [d EXCEPT !.kids[kind] = top.self] =
              [method |-> c.method, lo |-> c.lo, hi |-> c.hi, depth |-> c.depth,
               self |-> c.self, base |-> c.base, count |-> c.count,
               others |-> c.others, next |-> c.next + 1,
               kids |-> [c.kids EXCEPT ![kind] = top.self]]
      BY <3>2
    <3>5. /\ e.self = c.self /\ CallOf(e) = CallOf(c) /\ e.depth = c.depth
          /\ e.next = c.next + 1 /\ e.kids = kids1
      <4>1. e = [method |-> c.method, lo |-> c.lo, hi |-> c.hi, depth |-> c.depth,
                 self |-> c.self, base |-> c.base, count |-> c.count,
                 others |-> c.others, next |-> c.next + 1, kids |-> kids1]
        BY <3>3, <3>4 DEF kind
      <4> HIDE DEF e, kids1
      <4> QED
        BY <4>1 DEF CallOf
    <3> HIDE DEF e, kids1
    <3>6. frames' = [Callers EXCEPT ![F - 1] = e]
      BY <1>4, <3>1
    <3>7. /\ List(frames') /\ Len(frames') = F - 1
          /\ \A i \in 1..(F - 1) : i # F - 1 => frames'[i] = frames[i]
          /\ c1 = e
      BY <2>6, <3>6
    <3> QED
      BY <2>3, <2>8, <3>1, <3>5, <3>7 DEF kids1
  <2> QED
    BY <2>7, <2>8
<1> QED
  BY <1>1, <1>2, <1>3, <1>5, <1>6, <1>7 DEF F, top

\* A place of one range is none of another's, before it or after.
LEMMA Apart ==
    ASSUME NEW a \in Nat, NEW m \in Nat, NEW b \in Nat, NEW k \in Nat,
           a + m <= b \/ b + k <= a, NEW place \in (b + 1)..(b + k), NEW i \in 1..m
    PROVE  a + i # place
BY SMT

\* A call that returns leaves the nodes of all calls but its caller's as they were.
LEMMA ReturnKeeps ==
    ASSUME Building, Return, TreeOfCalls(nodes, edges, frames, where, roots, lo),
           NEW id \in 1..Len(nodes), NEW last, NEW kids,
           Len(frames) > 1 => id # frames[Len(frames) - 1].self,
           HoldsEdges(nodes[id], where[id], last, edges, where),
           HoldsKids(where[id], last, kids, where)
    PROVE  /\ HoldsEdges(nodes'[id], where[id], last, edges', where)
           /\ HoldsKids(where[id], last, kids, where)
<1> DEFINE F == Len(frames)
           top == frames[F]
           c == frames[F - 1]
           n == nodes[id]
           n1 == nodes'[id]
           text == Pattern(NextRun(c).from)[c.depth + 1].text
<1>1. Named(nodes, where, lo) /\ UnderWay(nodes, edges, frames, where)
  BY DEF TreeOfCalls
<1>2. /\ F \in Nat /\ F > 0
      /\ n1.edges = n.edges /\ n1.count = n.count /\ n1.hashed = n.hashed
      /\ F = 1 => edges' = edges
      /\ F > 1 /\ ~(c.next <= c.count) => edges' = edges
      /\ F > 1 /\ c.next <= c.count =>
             \E place \in EdgePlaces(c, text) :
                 edges' = [edges EXCEPT ![place] = [text |-> text, child |-> top.self]]
      /\ pc = "tries"
  BY ReturnDoes
<1>10. F = 1 \/ F > 1
  <2>1. F \in Nat /\ F > 0
    BY ReturnDoes
  <2> HIDE DEF F
  <2> QED
    BY <2>1
<1>3. /\ Divided /\ LaidOut(nodes, edges) /\ List(edges) /\ Len(edges) \in Nat
      /\ List(where) /\ Len(where) \in Nat /\ Len(nodes) \in Nat
  BY <1>1 DEF Building, LaidOut, List, Named
<1>4. /\ n.edges \in Nat /\ n.count \in Nat /\ (n.hashed => n.count > 0)
      /\ n.edges + n.count <= Len(edges)
  BY <1>3 DEF LaidOut, IsNode
<1>5. IsCall(where[id]) /\ NodeIs(n, where[id])
  BY <1>1 DEF Named
<1>6. Extends(where, where)
  BY <1>3 DEF Extends
<1>7. SameEdges(n, edges', edges)
  <2>1. CASE edges' = edges
    BY <2>1 DEF SameEdges
  <2>2. CASE F > 1 /\ c.next <= c.count
    <3>1. F - 1 \in 1..Len(frames)
      BY <1>2, <2>2
    <3>2. PICK place \in EdgePlaces(c, text) :
              edges' = [edges EXCEPT ![place] = [text |-> text, child |-> top.self]]
      BY <1>2, <2>2
    <3>3. place \in (nodes[c.self].edges + 1)..(nodes[c.self].edges + nodes[c.self].count)
      BY <2>2, <3>1, <3>2, PlaceIsFree
    <3> DEFINE p == c.self
               b == nodes[p]
    <3>4. p \in 1..Len(nodes) /\ p # id
      BY <1>1, <2>2, <3>1 DEF UnderWay
    <3>5. /\ b.edges \in Nat /\ b.count \in Nat
          /\ id < p => n.edges + n.count <= b.edges
          /\ p < id => b.edges + b.count <= n.edges
      BY <1>3, <3>4 DEF LaidOut, IsNode
    <3>6. id < p \/ p < id
      BY <1>3, <3>4
    <3>7. place \in (b.edges + 1)..(b.edges + b.count)
      BY <3>3
    <3> HIDE DEF b, p, n
    <3>10. n.edges + n.count <= b.edges \/ b.edges + b.count <= n.edges
      BY <3>5, <3>6
    <3>8. ASSUME NEW i \in 1..n.count
          PROVE  n.edges + i # place /\ n.edges + i \in 1..Len(edges)
      <4>1. n.edges + i # place
        BY ONLY <1>4, <3>5, <3>7, <3>10, Apart
      <4>2. n.edges + i \in 1..Len(edges)
        BY ONLY <1>3, <1>4
      <4> QED
        BY <4>1, <4>2
    <3>9. \A i \in 1..n.count : edges'[n.edges + i] = edges[n.edges + i]
      <4>1. edges = [i \in 1..Len(edges) |-> edges[i]]
        BY <1>3 DEF List
      <4> QED
        BY <3>2, <3>8, <4>1
    <3> QED
      BY <3>9 DEF SameEdges
  <2>4. F = 1 => edges' = edges
    BY <1>2
  <2>5. F > 1 /\ ~(c.next <= c.count) => edges' = edges
    BY <1>2
  <2> HIDE DEF F, c, n
  <2> QED
    BY <1>10, <2>1, <2>2, <2>4, <2>5
<1> HIDE DEF n, n1
<1>8. /\ HoldsEdges(n, where[id], last, edges, where)
      /\ HoldsKids(where[id], last, kids, where)
  BY DEF n
<1>9. /\ HoldsEdges(n1, where[id], last, edges', where)
      /\ HoldsKids(where[id], last, kids, where)
  BY <1>2, <1>3, <1>4, <1>5, <1>6, <1>7, <1>8, HoldsKept
<1> QED
  BY <1>9 DEF n1

\* A call whose child returned holds one child more.
LEMMA ReturnHolds ==
    ASSUME Building, Return, TreeOfCalls(nodes, edges, frames, where, roots, lo),
           Len(frames) > 1
    PROVE  LET c1 == frames'[Len(frames) - 1]
           IN  /\ HoldsEdges(nodes'[c1.self], CallOf(c1), c1.next - 1, edges', where)
               /\ HoldsKids(CallOf(c1), c1.next - 1, c1.kids, where)
<1> DEFINE F == Len(frames)
           top == frames[F]
           c == frames[F - 1]
           c1 == frames'[F - 1]
           w == CallOf(c)
           n == nodes[c.self]
           n1 == nodes'[c.self]
           text == Pattern(NextRun(c).from)[c.depth + 1].text
           k == c.next
<1>1. Named(nodes, where, lo) /\ UnderWay(nodes, edges, frames, where)
  BY DEF TreeOfCalls
<1>2. /\ F \in Nat /\ F > 0 /\ pc = "tries"
      /\ c1.self = c.self /\ CallOf(c1) = w /\ c1.next = k + 1
      /\ k <= c.count =>
             /\ c1.kids = c.kids
             /\ \E place \in EdgePlaces(c, text) :
                    edges' = [edges EXCEPT ![place] = [text |-> text, child |-> top.self]]
      /\ ~(k <= c.count) =>
             /\ edges' = edges
             /\ c1.kids = [c.kids EXCEPT ![NextRun(c).kind] = top.self]
      /\ \A id \in 1..Len(nodes) :
             /\ nodes'[id].edges = nodes[id].edges
             /\ nodes'[id].count = nodes[id].count
             /\ nodes'[id].hashed = nodes[id].hashed
  BY ReturnDoes
<1>3. F - 1 \in 1..F /\ F \in 1..F /\ F - 1 \in 1..(F - 1) /\ (F - 1) + 1 = F
  BY <1>2
<1>4. /\ c.self \in 1..Len(nodes) /\ where[c.self] = w
      /\ HoldsEdges(n, w, k - 1, edges, where) /\ HoldsKids(w, k - 1, c.kids, where)
      /\ top.self \in 1..Len(nodes) /\ where[top.self] = CallOf(top)
      /\ k \in 1..RunCount(w) /\ CallOf(top) = CallAt(w, k)
  BY <1>1, <1>3 DEF UnderWay
<1>5. /\ Divided /\ LaidOut(nodes, edges) /\ List(edges) /\ Len(edges) \in Nat
      /\ List(where) /\ Len(where) \in Nat /\ Len(where) = Len(nodes)
  BY <1>1 DEF Building, LaidOut, List, Named
<1>6. IsCall(w) /\ NodeIs(n, w)
  BY <1>1, <1>4 DEF Named
<1>7. /\ n.edges \in Nat /\ n.count \in Nat /\ (n.hashed => n.count > 0)
      /\ n.edges + n.count <= Len(edges)
      /\ n1.edges = n.edges /\ n1.count = n.count /\ n1.hashed = n.hashed
  BY <1>2, <1>4, <1>5 DEF LaidOut, IsNode
<1>8. IsKid(top.self, w, k, where)
  BY <1>4, <1>5 DEF IsKid
<1>9. /\ c.count = Len(LitsOf(w)) /\ c.count \in Nat /\ k \in Nat /\ k > 0
      /\ NextRun(c) = RunAt(w, k) /\ RunCount(w) \in Nat
  BY <1>3, <1>4, <1>5, <1>2, <1>6, FrameRuns, RunNumbers
<1>10. text = SegAt(w, k).text
  BY <1>9 DEF SegAt, CallOf
<1>11. k + 1 - 1 = k
  BY <1>9
<1>12. Extends(where, where)
  BY <1>5 DEF Extends
<1>15. c1.self = c.self /\ CallOf(c1) = w /\ c1.next = k + 1
  BY <1>2
<1>18. c1.next - 1 = k
  BY <1>9, <1>15
<1>16. pc = "tries"
  BY <1>2
<1>17. edges = [i \in 1..Len(edges) |-> edges[i]]
  BY <1>5 DEF List
<1> SUFFICES /\ HoldsEdges(nodes'[c1.self], CallOf(c1), c1.next - 1, edges', where)
             /\ HoldsKids(CallOf(c1), c1.next - 1, c1.kids, where)
  OBVIOUS
<1> HIDE DEF c1, F
<1>13. CASE k <= c.count
  <2>1. PICK place \in EdgePlaces(c, text) :
            edges' = [edges EXCEPT ![place] = [text |-> text, child |-> top.self]]
    BY <1>2, <1>13
  <2>2. k \in 1..Len(LitsOf(w))
    BY <1>9, <1>13
  <2>3. FreePlace(n, text, k, place, edges)
    <3>1. CASE n.hashed
      <4>1. PICK j \in 0..(n.count - 1) :
                /\ place = Slot(n.edges, n.count, edgeHash[text], j)
                /\ edges[Slot(n.edges, n.count, edgeHash[text], j)].child = None
                /\ \A i \in 0..(j - 1) :
                       ~(edges[Slot(n.edges, n.count, edgeHash[text], i)].child = None)
        BY <2>1, <3>1 DEF EdgePlaces, Steps
      <4> HIDE DEF text
      <4> QED
        BY <3>1, <4>1 DEF EdgeAt, FreePlace
    <3>2. CASE ~n.hashed
      BY <2>1, <3>2 DEF EdgePlaces, FreePlace
    <3> QED
      BY <3>1, <3>2
  <2>4. EdgeIn(n, place, [text |-> text, child |-> top.self], edges, edges')
    <3> HIDE DEF n, text, top, c
    <3>2. ASSUME NEW i \in 1..n.count
          PROVE  n.edges + i \in 1..Len(edges)
      BY ONLY <1>5, <1>7
    <3>3. \A i \in 1..Len(edges) : edges'[i] =
              IF i = place THEN [text |-> text, child |-> top.self] ELSE edges[i]
      BY <1>17, <2>1
    <3> QED
      BY <3>2, <3>3 DEF EdgeIn
  <2> HIDE DEF n, text, top, w, k
  <2>5. /\ HoldsEdges(n, w, k - 1, edges, where) /\ HoldsKids(w, k - 1, c.kids, where)
    BY <1>4
  <2> HIDE DEF c
  <2>6. HoldsEdges(n, w, k, edges', where) /\ HoldsKids(w, k, c.kids, where)
    BY <1>5, <1>16, <1>6, <1>7, <1>8, <1>10, <2>2, <2>3, <2>4, <2>5, HoldsOneEdge
  <2>7. SameEdges(n, edges', edges')
    BY DEF SameEdges
  <2> HIDE DEF n1
  <2>8. HoldsEdges(n1, w, k, edges', where) /\ HoldsKids(w, k, c.kids, where)
    BY <1>16, <1>5, <1>6, <1>7, <1>12, <2>6, <2>7, HoldsKept
  <2>9. c1.kids = c.kids
    BY <1>2, <1>13
  <2> QED
    BY <1>15, <1>18, <2>8, <2>9 DEF n1
<1>14. CASE ~(k <= c.count)
  <2>1. k \in OtherNumbers(w)
    BY <1>4, <1>9, <1>14 DEF OtherNumbers
  <2> HIDE DEF n, text, top, w, k
  <2>2. /\ HoldsEdges(n, w, k - 1, edges, where) /\ HoldsKids(w, k - 1, c.kids, where)
    BY <1>4
  <2> HIDE DEF c
  <2>3. /\ HoldsEdges(n, w, k, edges, where)
        /\ HoldsKids(w, k, [c.kids EXCEPT ![RunAt(w, k).kind] = top.self], where)
    BY <1>16, <1>5, <1>6, <1>8, <2>1, <2>2, HoldsOneKid
  <2>4. SameEdges(n, edges, edges)
    BY DEF SameEdges
  <2> HIDE DEF n1
  <2>5. /\ HoldsEdges(n1, w, k, edges, where)
        /\ HoldsKids(w, k, [c.kids EXCEPT ![RunAt(w, k).kind] = top.self], where)
    BY <1>16, <1>5, <1>6, <1>7, <1>12, <2>3, <2>4, HoldsKept
  <2>6. c1.kids = [c.kids EXCEPT ![RunAt(w, k).kind] = top.self] /\ edges' = edges
    BY <1>2, <1>9, <1>14
  <2> QED
    BY <1>15, <1>18, <2>5, <2>6 DEF n1
<1> QED
  BY <1>13, <1>14

\* A call that returns keeps the tree.
LEMMA ReturnTree ==
    ASSUME Building, Return, TreeOfCalls(nodes, edges, frames, where, roots, lo)
    PROVE  TreeOfCalls(nodes', edges', frames', where, roots', lo)
<1> DEFINE N == Len(nodes)
           F == Len(frames)
           top == frames[F]
           c == frames[F - 1]
           c1 == frames'[F - 1]
<1>1. /\ Named(nodes, where, lo) /\ Parented(frames, where)
      /\ UnderWay(nodes, edges, frames, where) /\ Finished(nodes, edges, frames, where)
      /\ Rooted(frames, where, roots, lo)
  BY DEF TreeOfCalls
<1>2. /\ Divided /\ pc = "tries" /\ N \in Nat /\ F \in Nat /\ F > 0
      /\ List(frames) /\ Len(where) = N /\ List(where)
  <2>1. pc = "tries" /\ F \in Nat /\ F > 0
    BY ReturnDoes
  <2> QED
    BY <1>1, <2>1 DEF Building, LaidOut, Stacked, List, Named
<1>3. F = 1 \/ F > 1
  <2> HIDE DEF F
  <2> QED
    BY <1>2
<1>4. /\ List(nodes') /\ Len(nodes') = N
      /\ \A id \in 1..N :
             /\ nodes'[id].hashed = nodes[id].hashed
             /\ nodes'[id].count = nodes[id].count
             /\ nodes'[id].route = nodes[id].route
             /\ nodes'[id].branches = nodes[id].branches
             /\ nodes'[id].kids = IF id = top.self THEN top.kids ELSE nodes[id].kids
      /\ top.next > top.count + Len(top.others)
  BY ReturnDoes
<1>5. F = 1 => frames' = << >> /\ roots' = [roots EXCEPT ![top.method] = top.self]
  BY ReturnDoes
<1>6. F > 1 => /\ roots' = roots /\ Len(frames') = F - 1
               /\ \A i \in 1..(F - 1) : i # F - 1 => frames'[i] = frames[i]
               /\ c1.self = c.self /\ CallOf(c1) = CallOf(c) /\ c1.depth = c.depth
               /\ c1.next = c.next + 1
  BY ReturnDoes
<1>7. Len(frames') = F - 1
  BY <1>3, <1>5, <1>6
<1> HIDE DEF F, N, c1
<1>8. /\ F - 1 \in Nat /\ \A i \in 1..(F - 1) : i \in 1..F /\ i # F /\ i < F
      /\ F \in 1..F
      /\ \A i \in 1..F : i = F \/ i \in 1..(F - 1)
      /\ F > 1 <=> \E i \in 1..(F - 1) : TRUE
  BY <1>2
<1>9. ASSUME NEW i \in 1..(F - 1)
      PROVE  /\ frames'[i].self = frames[i].self /\ CallOf(frames'[i]) = CallOf(frames[i])
             /\ frames'[i].depth = frames[i].depth
             /\ i # F - 1 => frames'[i] = frames[i]
             /\ i = F - 1 => frames'[i].next = frames[i].next + 1
  BY <1>6, <1>8 DEF c1
<1>10. /\ \A i \in 1..F : frames[i].next \in Nat
       /\ \A i, j \in 1..F : i < j => frames[i].self < frames[j].self
       /\ \A i \in 1..F : /\ frames[i].self \in 1..N
                          /\ where[frames[i].self] = CallOf(frames[i])
                          /\ frames[i].depth = i - 1
  <2>1. \A i \in 1..F : frames[i].next \in Nat
    BY FrameRuns DEF F
  <2> QED
    BY <1>1, <2>1 DEF Building, Stacked, UnderWay, F, N
<1>11. \A i, j \in 1..F : frames[i].self = frames[j].self => i = j
  <2> SUFFICES ASSUME NEW i \in 1..F, NEW j \in 1..F, frames[i].self = frames[j].self
               PROVE  i = j
    OBVIOUS
  <2>1. frames[i].self \in Nat /\ ~(frames[i].self < frames[i].self)
    BY <1>10
  <2>2. ~(i < j) /\ ~(j < i)
    BY <1>10, <2>1
  <2> QED
    BY <1>2, <2>2
<1>12. Named(nodes', where, lo)
  <2>1. ASSUME NEW id \in 1..N
        PROVE  NodeIs(nodes'[id], where[id])
    <3>1. NodeIs(nodes[id], where[id])
      BY <1>1 DEF Named, N
    <3>2. nodes'[id].hashed = nodes[id].hashed /\ nodes'[id].count = nodes[id].count
          /\ nodes'[id].route = nodes[id].route /\ nodes'[id].branches = nodes[id].branches
      BY <1>4
    <3> DEFINE a == nodes[id]
               b == nodes'[id]
    <3> HIDE DEF a, b
    <3>3. NodeIs(a, where[id]) => NodeIs(b, where[id])
      BY <3>2 DEF NodeIs, a, b
    <3> QED
      BY <3>1, <3>3 DEF a, b
  <2> QED
    BY <1>1, <1>4, <2>1 DEF Named, N
<1>13. Parented(frames', where)
  <2>1. ASSUME NEW p, NEW k \in Nat, Begun(frames, p, k)
        PROVE  Begun(frames', p, k)
    <3>1. ASSUME NEW i \in 1..(F - 1), frames'[i].self = p
          PROVE  k < frames'[i].next \/ (k = frames'[i].next /\ i < F - 1)
      <4>1. frames[i].self = p /\ i \in 1..F
        BY <1>8, <1>9, <3>1
      <4>2. k < frames[i].next \/ k = frames[i].next
        BY <2>1, <4>1 DEF Begun, F
      <4>3. frames[i].next \in Nat
        BY <1>10, <4>1
      <4>4. CASE i = F - 1
        BY <1>9, <4>2, <4>3, <4>4
      <4>5. CASE i # F - 1
        BY <1>2, <1>9, <4>2, <4>5
      <4> QED
        BY <4>4, <4>5
    <3> QED
      BY <1>7, <3>1 DEF Begun
  <2>2. ASSUME NEW id \in 1..Len(where), where[id].depth # 0
        PROVE  \E p \in 1..Len(where) : \E k \in 1..RunCount(where[p]) :
                   where[id] = CallAt(where[p], k) /\ Begun(frames', p, k)
    <3>1. PICK p \in 1..Len(where) : \E k \in 1..RunCount(where[p]) :
              where[id] = CallAt(where[p], k) /\ Begun(frames, p, k)
      BY <1>1, <2>2 DEF Parented
    <3>2. PICK k \in 1..RunCount(where[p]) :
              where[id] = CallAt(where[p], k) /\ Begun(frames, p, k)
      BY <3>1
    <3>3. Begun(frames', p, k)
      BY <2>1, <3>2
    <3> QED
      BY <3>2, <3>3
  <2> QED
    BY <2>2 DEF Parented
<1>14. UnderWay(nodes', edges', frames', where)
  <2>1. ASSUME NEW i \in 1..(F - 1)
        PROVE  LET g == frames'[i]
                   v == CallOf(g)
               IN  /\ g.self \in 1..N /\ where[g.self] = v /\ g.depth = i - 1
                   /\ HoldsEdges(nodes'[g.self], v, g.next - 1, edges', where)
                   /\ HoldsKids(v, g.next - 1, g.kids, where)
    <3>1. /\ frames'[i].self \in 1..N /\ where[frames'[i].self] = CallOf(frames'[i])
          /\ frames'[i].depth = i - 1
      BY <1>8, <1>9, <1>10
    <3>2. CASE i = F - 1
      <4>1. Len(frames) > 1
        BY <1>8 DEF F
      <4>2. /\ HoldsEdges(nodes'[c1.self], CallOf(c1), c1.next - 1, edges', where)
            /\ HoldsKids(CallOf(c1), c1.next - 1, c1.kids, where)
        BY <4>1, ReturnHolds DEF c1, F
      <4> QED
        BY <3>1, <3>2, <4>2 DEF c1
    <3>3. CASE i # F - 1
      <4> DEFINE g == frames[i]
      <4>1. frames'[i] = g /\ i \in 1..F
        BY <1>8, <1>9, <3>3
      <4>2. /\ g.self \in 1..N /\ where[g.self] = CallOf(g)
            /\ HoldsEdges(nodes[g.self], where[g.self], g.next - 1, edges, where)
            /\ HoldsKids(where[g.self], g.next - 1, g.kids, where)
        BY <1>1, <4>1 DEF UnderWay, F, N
      <4>3. F > 1 => g.self # frames[F - 1].self
        BY <1>8, <1>11, <3>3, <4>1
      <4> HIDE DEF g
      <4>4. /\ HoldsEdges(nodes'[g.self], where[g.self], g.next - 1, edges', where)
            /\ HoldsKids(where[g.self], g.next - 1, g.kids, where)
        BY <4>2, <4>3, ReturnKeeps DEF F, N
      <4> QED
        BY <3>1, <4>1, <4>2, <4>4
    <3> QED
      BY <3>2, <3>3
  <2>2. ASSUME NEW i \in 1..((F - 1) - 1)
        PROVE  /\ frames'[i].next \in 1..RunCount(CallOf(frames'[i]))
               /\ CallOf(frames'[i + 1]) = CallAt(CallOf(frames'[i]), frames'[i].next)
    <3>1. i \in 1..(F - 1) /\ i # F - 1 /\ i + 1 \in 1..(F - 1)
      BY <1>2
    <3>2. frames'[i] = frames[i] /\ CallOf(frames'[i + 1]) = CallOf(frames[i + 1])
      BY <1>9, <3>1
    <3> QED
      BY <1>1, <3>1, <3>2 DEF UnderWay, F
  <2> QED
    BY <1>4, <1>7, <2>1, <2>2 DEF UnderWay
<1>15. Finished(nodes', edges', frames', where)
  <2> SUFFICES ASSUME NEW id \in 1..N, \A i \in 1..(F - 1) : frames'[i].self # id
               PROVE  /\ HoldsEdges(nodes'[id], where[id], RunCount(where[id]), edges', where)
                      /\ HoldsKids(where[id], RunCount(where[id]), nodes'[id].kids, where)
    BY <1>4, <1>7 DEF Finished
  <2>1. \A i \in 1..(F - 1) : frames[i].self # id
    BY <1>9
  <2>2. F > 1 => id # frames[F - 1].self
    BY <1>8, <2>1
  <2>3. /\ HoldsEdges(nodes[id], where[id], RunCount(where[id]), edges, where)
        /\ HoldsKids(where[id], RunCount(where[id]), nodes'[id].kids, where)
    <3>1. CASE id = top.self
      <4>1. /\ CallOf(top) = where[id] /\ top.next \in Nat
        BY <1>8, <1>10, <3>1
      <4>2. /\ HoldsEdges(nodes[id], where[id], top.next - 1, edges, where)
            /\ HoldsKids(where[id], top.next - 1, top.kids, where)
        BY <1>1, <1>8, <3>1, <4>1 DEF UnderWay, F
      <4>3. top.next - 1 \in Nat /\ top.next - 1 >= RunCount(where[id])
        <5>1. /\ top.count \in Nat /\ Len(top.others) \in Nat
              /\ RunCount(CallOf(top)) = top.count + Len(top.others)
          BY <1>8, FrameRuns DEF F
        <5> HIDE DEF top
        <5> QED
          BY <1>4, <4>1, <5>1
      <4>4. IsCall(where[id])
        BY <1>1 DEF Named, N
      <4>5. nodes'[id].kids = top.kids
        BY <1>4, <3>1
      <4> HIDE DEF top
      <4> QED
        BY <1>2, <4>2, <4>3, <4>4, <4>5, HoldsAll
    <3>2. CASE id # top.self
      <4>1. \A i \in 1..F : frames[i].self # id
        BY <1>8, <2>1, <3>2
      <4>2. nodes'[id].kids = nodes[id].kids
        BY <1>4, <3>2
      <4>3. /\ HoldsEdges(nodes[id], where[id], RunCount(where[id]), edges, where)
            /\ HoldsKids(where[id], RunCount(where[id]), nodes[id].kids, where)
        BY <1>1, <4>1 DEF Finished, F, N
      <4> QED
        BY <4>2, <4>3
    <3> QED
      BY <3>1, <3>2
  <2> QED
    BY <2>2, <2>3, ReturnKeeps DEF F, N
<1>16. Rooted(frames', where, roots', lo)
  <2>1. /\ roots = [m \in Methods |-> roots[m]]
        /\ \A m \in Methods : roots[m] # None =>
               roots[m] \in 1..N /\ where[roots[m]].method = m /\ where[roots[m]].depth = 0
        /\ \A id \in 1..N : where[id].depth = 0 =>
               roots[where[id].method] = id \/ (F > 0 /\ frames[1].self = id)
        /\ \A i \in 1..Len(order) : i < lo =>
               \E id \in 1..N :
                   where[id].depth = 0 /\ where[id].method = entries[order[i]].method
    BY <1>1, <1>2 DEF Rooted, F, N
  <2>2. CASE F > 1
    <3>1. F - 1 > 0 /\ 1 \in 1..(F - 1)
      BY <1>2, <2>2
    <3>2. roots' = roots /\ frames'[1].self = frames[1].self
      BY <1>6, <1>9, <2>2, <3>1
    <3> QED
      BY <1>2, <1>7, <2>1, <3>1, <3>2 DEF Rooted
  <2>3. CASE F = 1
    <3>1. /\ top = frames[1] /\ top.self \in 1..N /\ where[top.self] = CallOf(top)
          /\ top.depth = 0
      <4>1. 1 - 1 = 0 /\ 1 \in 1..F
        BY <2>3
      <4> QED
        BY <1>10, <2>3, <4>1
    <3>2. where[top.self].method = top.method /\ where[top.self].depth = 0
      BY <3>1 DEF CallOf
    <3>3. top.method \in Methods
      <4>1. IsCall(where[top.self])
        BY <1>1, <3>1 DEF Named, N
      <4> QED
        BY <1>2, <3>2, <4>1, CallBegin
    <3>4. frames' = << >> /\ Len(frames') = 0
          /\ roots' = [roots EXCEPT ![top.method] = top.self]
      BY <1>5, <1>7, <2>3
    <3> HIDE DEF top
    <3>5. /\ roots' = [m \in Methods |-> roots'[m]]
          /\ \A m \in Methods :
                 roots'[m] = IF m = top.method THEN top.self ELSE roots[m]
      BY <2>1, <3>3, <3>4
    <3>6. \A m \in Methods : roots'[m] # None =>
              roots'[m] \in 1..N /\ where[roots'[m]].method = m /\ where[roots'[m]].depth = 0
      BY <2>1, <3>1, <3>2, <3>5
    <3>7. ASSUME NEW id \in 1..N, where[id].depth = 0
          PROVE  roots'[where[id].method] = id
      <4>1. CASE id = top.self
        BY <3>2, <3>3, <3>5, <4>1
      <4>2. CASE id # top.self
        <5>1. roots[where[id].method] = id
          BY <2>1, <3>1, <3>7, <4>2
        <5>2. where[id].method # top.method
          <6> SUFFICES ASSUME where[id].method = top.method
                       PROVE  FALSE
            OBVIOUS
          <6> DEFINE v == where[id]
                     w == where[top.self]
          <6>1. IsCall(v) /\ IsCall(w)
            BY <1>1, <3>1 DEF Named, N
          <6>2. v.method = w.method /\ v.depth = w.depth /\ w.depth = 0
            BY <3>2, <3>7
          <6> HIDE DEF v, w
          <6>3. \A d \in 1..w.depth : SameSeg(Pattern(v.lo)[d], Pattern(w.lo)[d])
            BY <6>2
          <6>4. v = w
            BY <1>2, <6>1, <6>2, <6>3, SameCall
          <6> QED
            BY <1>1, <3>1, <4>2, <6>4 DEF Named, N, v, w
        <5>3. where[id].method \in Methods
          <6>1. IsCall(where[id])
            BY <1>1 DEF Named, N
          <6> QED
            BY <1>2, <6>1, CallBegin
        <5> QED
          BY <3>5, <5>1, <5>2, <5>3
      <4> QED
        BY <4>1, <4>2
    <3> QED
      BY <1>2, <2>1, <3>5, <3>6, <3>7 DEF Rooted
  <2> QED
    BY <1>3, <2>2, <2>3
<1> QED
  BY <1>12, <1>13, <1>14, <1>15, <1>16 DEF TreeOfCalls

\* The call that begins a trie is one for all its method's entries.
LEMMA StartTree ==
    ASSUME Building, StartTrie, TreeOfCalls(nodes, edges, frames, where, roots, lo)
    PROVE  TreeOfCalls(nodes', edges', frames', where', roots, lo')
<1> DEFINE m == entries[order[lo]].method
<1>1. PICK h \in (lo + 1)..(Len(order) + 1) :
          /\ Shares(lo, h, m, 0)
          /\ h = Len(order) + 1 \/ entries[order[h]].method # m
          /\ Enter(frames, m, lo, h, 0) /\ lo' = h
  BY TrieBegins
<1>2. /\ Divided /\ pc = "tries" /\ frames = << >> /\ lo \in Nat /\ lo <= Len(order)
      /\ Len(frames) = 0 /\ lo > 0
  BY DEF Building, StartTrie
<1>3. Len(order) \in Nat /\ h \in Nat /\ lo < h /\ lo \in 1..Len(order) /\ h <= Len(order) + 1
  <2>1. Len(order) \in Nat
    BY <1>2, OrderIs
  <2> QED
    BY <1>1, <1>2, <2>1
<1>4. Named(nodes, where, lo) /\ Rooted(frames, where, roots, lo)
  BY DEF TreeOfCalls
<1> DEFINE w == [method |-> m, lo |-> lo, hi |-> h, depth |-> 0]
<1>5. w.method = m /\ w.lo = lo /\ w.hi = h /\ w.depth = 0 /\ w = CallOf(w)
  BY DEF CallOf
<1>6. \A i \in 1..Len(order) : /\ entries[order[i]].method \in Nat
                              /\ Len(Pattern(i)) \in Nat /\ Len(Pattern(i)) >= 0
  BY <1>2, OrderIs DEF Comparable
<1>7. ASSUME NEW i \in 1..Len(order), entries[order[i]].method = m
      PROVE  i \in lo..(h - 1)
  <2>1. ~(i < lo)
    <3> SUFFICES ASSUME i < lo PROVE FALSE
      OBVIOUS
    <3>1. PICK id \in 1..Len(where) :
              where[id].depth = 0 /\ where[id].method = entries[order[i]].method
      BY <1>4 DEF Rooted
    <3> DEFINE v == where[id]
    <3>2. IsCall(v) /\ v.hi <= lo /\ v.depth = 0 /\ v.method = m
      BY <1>4, <1>7, <3>1 DEF Named
    <3> HIDE DEF v, m
    <3>3. lo \in v.lo..(v.hi - 1)
      <4>1. \A d \in 1..v.depth : SameSeg(Pattern(lo)[d], Pattern(v.lo)[d])
        BY <3>2
      <4> QED
        BY <1>3, <1>6, <3>2, <4>1 DEF IsCall, Whole, m
    <3>4. v.lo \in Nat /\ v.hi \in Nat
      BY <1>2, <3>2, CallBegin
    <3> QED
      BY <1>2, <3>2, <3>3, <3>4
  <2>2. ~(i >= h)
    <3> SUFFICES ASSUME i >= h PROVE FALSE
      OBVIOUS
    <3>1. h \in 1..Len(order) /\ entries[order[h]].method # m /\ i # h
      BY <1>1, <1>3, <1>7
    <3>2. lo < h /\ h < i
      BY <1>3, <3>1
    <3>3. Before(entries[order[lo]], entries[order[h]]) /\ Before(entries[order[h]], entries[order[i]])
      BY <1>2, <1>3, <3>1, <3>2, OrderIs
    <3> DEFINE a == entries[order[lo]].method
               b == entries[order[h]].method
               c == entries[order[i]].method
    <3>4. (a < b \/ a = b) /\ (b < c \/ b = c)
      BY <3>3 DEF Before
    <3>5. a \in Nat /\ b \in Nat /\ c \in Nat /\ a = c /\ b # a
      BY <1>3, <1>6, <1>7, <3>1
    <3> HIDE DEF a, b, c
    <3> QED
      BY <3>4, <3>5
  <2> QED
    BY <1>2, <1>3, <2>1, <2>2
<1> HIDE DEF w, m
<1>8. IsCall(w)
  <2>1. Whole(w)
    BY <1>5, <1>7 DEF Whole
  <2> QED
    BY <1>1, <1>5, <2>1 DEF IsCall
<1>9. \A id \in 1..Len(nodes) : where[id] # w
  <2> SUFFICES ASSUME NEW id \in 1..Len(nodes), where[id] = w
               PROVE  FALSE
    OBVIOUS
  <2>1. w.hi <= lo
    BY <1>4 DEF Named
  <2> QED
    BY <1>2, <1>3, <1>5, <2>1
<1>10. \A i \in 1..Len(order) : i < h => i < lo \/ entries[order[i]].method = w.method
  <2> SUFFICES ASSUME NEW i \in 1..Len(order), i < h, ~(i < lo)
               PROVE  entries[order[i]].method = m
    BY <1>5
  <2>1. i \in lo..(h - 1)
    BY <1>2, <1>3
  <2> QED
    BY <1>1, <2>1 DEF Shares
<1>11. TreeOfCalls(nodes', edges', frames', where', roots, h)
  <2>1. Enter(frames, w.method, w.lo, w.hi, w.depth)
    BY <1>1, <1>5
  <2>2. lo <= h /\ w.hi <= h /\ w.depth = Len(frames) /\ ~(Len(frames) > 0)
    BY <1>2, <1>3, <1>5
  <2> QED
    BY <1>2, <1>3, <1>8, <1>9, <1>10, <2>1, <2>2, EnterTree
<1> QED
  BY <1>1, <1>11

\* The call for a child is its caller's for its next run.
LEMMA BuildTree ==
    ASSUME Building, BuildChild, TreeOfCalls(nodes, edges, frames, where, roots, lo)
    PROVE  TreeOfCalls(nodes', edges', frames', where', roots, lo)
<1> DEFINE F == Len(frames)
           top == frames[F]
           v == CallOf(top)
           k == top.next
           w == CallAt(v, k)
<1>1. /\ Named(nodes, where, lo) /\ Parented(frames, where)
      /\ UnderWay(nodes, edges, frames, where)
  BY DEF TreeOfCalls
<1>2. /\ Divided /\ pc = "tries" /\ frames # << >> /\ List(frames) /\ F \in Nat /\ lo \in Nat
      /\ Len(nodes) \in Nat /\ Len(where) = Len(nodes)
  BY <1>1 DEF Building, BuildChild, Stacked, List, LaidOut, Named
<1>3. F > 0 /\ F \in 1..F
  <2>1. F = 0 => frames = << >>
    BY <1>2 DEF List
  <2> HIDE DEF F
  <2> QED
    BY <1>2, <2>1
<1>4. /\ k <= top.count + Len(top.others)
      /\ Enter(frames, top.method, NextRun(top).from, NextRun(top).to, top.depth + 1)
  BY DEF BuildChild, Top
<1>5. /\ RunCount(v) = top.count + Len(top.others) /\ k \in Nat /\ k > 0
      /\ top.count \in Nat /\ Len(top.others) \in Nat
      /\ k <= RunCount(v) => NextRun(top) = RunAt(v, k)
  BY <1>3, FrameRuns
<1>6. top.self \in 1..Len(nodes) /\ where[top.self] = v /\ top.depth = F - 1
  BY <1>1, <1>3 DEF UnderWay
<1>7. IsCall(v) /\ v.hi <= lo
  BY <1>1, <1>6 DEF Named
<1>8. v.method = top.method /\ v.depth = top.depth
  BY DEF CallOf
<1> HIDE DEF v, k, F, top
<1>9. k \in 1..RunCount(v) /\ NextRun(top) = RunAt(v, k)
  BY <1>4, <1>5
<1>10. /\ IsCall(w) /\ w.hi <= v.hi /\ w.hi \in Nat /\ w.method = v.method
       /\ w.depth = v.depth + 1
  BY <1>2, <1>7, <1>9, KidIsCall
<1>11. w.hi <= lo /\ w.depth = F
  <2>1. v.hi \in Nat
    BY <1>2, <1>7, CallBegin
  <2> HIDE DEF w
  <2> QED
    BY <1>2, <1>6, <1>7, <1>8, <1>10, <2>1
<1>12. w.lo = NextRun(top).from /\ w.hi = NextRun(top).to
  BY <1>9 DEF CallAt
<1>13. \A id \in 1..Len(nodes) : where[id] # w
  <2> SUFFICES ASSUME NEW id \in 1..Len(nodes), where[id] = w
               PROVE  FALSE
    OBVIOUS
  <2>1. where[id].depth # 0
    BY <1>3, <1>11
  <2>2. PICK p \in 1..Len(where) : \E j \in 1..RunCount(where[p]) :
            where[id] = CallAt(where[p], j) /\ Begun(frames, p, j)
    BY <1>1, <1>2, <2>1 DEF Parented
  <2>3. PICK j \in 1..RunCount(where[p]) :
            where[id] = CallAt(where[p], j) /\ Begun(frames, p, j)
    BY <2>2
  <2>4. IsCall(where[p])
    BY <1>1, <1>2 DEF Named
  <2>8. CallAt(where[p], j) = CallAt(v, k)
    BY <2>3
  <2> DEFINE u == where[p]
  <2> HIDE DEF u
  <2>9. IsCall(u) /\ j \in 1..RunCount(u) /\ CallAt(u, j) = CallAt(v, k)
    BY <2>3, <2>4, <2>8 DEF u
  <2>10. u = v /\ j = k
    BY <1>2, <1>7, <1>9, <2>9, OneParent
  <2>5. where[p] = v /\ j = k
    BY <2>10 DEF u
  <2>6. p = top.self
    BY <1>1, <1>2, <1>6, <2>5 DEF Named
  <2>7. k < top.next \/ (k = top.next /\ F < F)
    BY <1>3, <2>3, <2>5, <2>6 DEF Begun, F, top
  <2> QED
    BY <1>2, <1>5, <2>7 DEF k
<1>14. Enter(frames, w.method, w.lo, w.hi, w.depth)
  <2> HIDE DEF w
  <2> QED
    BY <1>4, <1>8, <1>10, <1>12
<1>15. /\ frames[Len(frames)].next \in 1..RunCount(CallOf(frames[Len(frames)]))
       /\ w = CallAt(CallOf(frames[Len(frames)]), frames[Len(frames)].next)
  BY <1>9 DEF v, k, top, F
<1>16. lo <= lo /\ ~(Len(frames) = 0) /\ w.depth = Len(frames)
  BY <1>2, <1>3, <1>11 DEF F
<1> HIDE DEF w
<1> QED
  BY <1>2, <1>10, <1>11, <1>13, <1>14, <1>15, <1>16, EnterTree

\* Until the tries are begun there is none of it; then there is the tree.
Tree ==
    /\ Building
    /\ pc \in {"parse", "literals"} =>
           /\ nodes = << >> /\ where = << >> /\ frames = << >> /\ lo = 1
           /\ roots = [m \in Methods |-> None]
    /\ pc = "tries" => TreeOfCalls(nodes, edges, frames, where, roots, lo)

\* There is no tree of calls at first.
LEMMA TreeInit == Init => Tree
<1> SUFFICES ASSUME Init
             PROVE  Tree
  OBVIOUS
<1>1. Building
  BY BuildingInit
<1> QED
  BY <1>1 DEF Init, Tree

\* The tree before the first call.
LEMMA TreeOfNone ==
    ASSUME NEW es
    PROVE  TreeOfCalls(<< >>, es, << >>, << >>, [m \in Methods |-> None], 1)
<1>1. List(<< >>) /\ Len(<< >>) = 0
  <2>1. << >> = [k \in 1..0 |-> << >>[k]]
    OBVIOUS
  <2> QED
    BY <2>1, ListOf
<1>2. 1..0 = {} /\ 1..(0 - 1) = {}
  OBVIOUS
<1>3. Named(<< >>, << >>, 1)
  BY <1>1, <1>2 DEF Named
<1>4. Parented(<< >>, << >>)
  BY <1>1, <1>2 DEF Parented
<1>5. UnderWay(<< >>, es, << >>, << >>)
  BY <1>1, <1>2 DEF UnderWay
<1>6. Finished(<< >>, es, << >>, << >>)
  BY <1>1, <1>2 DEF Finished
<1>7. Rooted(<< >>, << >>, [m \in Methods |-> None], 1)
  <2>1. \A i \in 1..Len(order) : ~(i < 1)
    OBVIOUS
  <2> DEFINE rs == [m \in Methods |-> None]
  <2>2. rs = [m \in Methods |-> rs[m]] /\ \A m \in Methods : rs[m] = None
    OBVIOUS
  <2> HIDE DEF rs
  <2>3. Rooted(<< >>, << >>, rs, 1)
    BY <1>1, <1>2, <2>1, <2>2 DEF Rooted
  <2> QED
    BY <2>3 DEF rs
<1> QED
  BY <1>3, <1>4, <1>5, <1>6, <1>7 DEF TreeOfCalls

\* Every step of the build keeps the tree.
LEMMA TreeStep == Tree /\ [Next]_vars => Tree'
<1> SUFFICES ASSUME Tree, [Next]_vars
             PROVE  Tree'
  OBVIOUS
<1>1. Building /\ Building'
  BY BuildingStep DEF Tree
<1>2. CASE ParseSpec \/ Split
  <2>1. /\ pc = "parse" /\ pc' \in {"parse", "literals", "done"}
        /\ UNCHANGED <<nodes, where, frames, lo, roots>>
    BY <1>2 DEF ParseSpec, Split, Fail
  <2> QED
    BY <1>1, <2>1 DEF Tree, Methods
<1>3. CASE InsertLiteral
  <2>1. pc = "literals" /\ pc' = pc /\ UNCHANGED <<nodes, where, frames, lo, roots>>
    BY <1>3 DEF InsertLiteral
  <2> QED
    BY <1>1, <2>1 DEF Tree, Methods
<1>4. CASE LiteralsDone
  <2>1. /\ pc = "literals" /\ pc' = "tries"
        /\ UNCHANGED <<entries, order, edgeHash, nodes, edges, where, frames, lo, roots>>
    BY <1>4 DEF LiteralsDone
  <2>2. TreeOfCalls(nodes, edges, frames, where, roots, lo)
    BY <2>1, TreeOfNone DEF Tree
  <2>3. TreeOfCalls(nodes, edges, frames, where, roots, lo)'
    BY <2>1, <2>2, TreeRests
  <2> QED
    BY <1>1, <2>1, <2>3 DEF Tree
<1>5. CASE StartTrie
  <2>1. /\ pc = "tries" /\ pc' = pc /\ UNCHANGED <<entries, order, edgeHash, roots>>
    BY <1>5 DEF StartTrie
  <2>2. TreeOfCalls(nodes', edges', frames', where', roots, lo')
    BY <1>1, <1>5, <2>1, StartTree DEF Tree
  <2>3. TreeOfCalls(nodes, edges, frames, where, roots, lo)'
    BY <2>1, <2>2, TreeRests
  <2> QED
    BY <1>1, <2>1, <2>3 DEF Tree
<1>6. CASE BuildChild
  <2>1. pc = "tries"
    BY <1>1, <1>6 DEF BuildChild, Building
  <2>2. /\ pc' = pc /\ UNCHANGED <<entries, order, edgeHash, roots, lo>>
    BY <1>6 DEF BuildChild
  <2>3. TreeOfCalls(nodes', edges', frames', where', roots, lo)
    BY <1>1, <1>6, <2>1, BuildTree DEF Tree
  <2>4. TreeOfCalls(nodes, edges, frames, where, roots, lo)'
    BY <2>2, <2>3, TreeRests
  <2> QED
    BY <1>1, <2>1, <2>2, <2>4 DEF Tree
<1>7. CASE Return
  <2>1. pc = "tries"
    BY <1>1, <1>7 DEF Return, Building
  <2>2. /\ pc' = pc /\ UNCHANGED <<entries, order, edgeHash, where, lo>>
    BY <1>7 DEF Return
  <2>3. TreeOfCalls(nodes', edges', frames', where, roots', lo)
    BY <1>1, <1>7, <2>1, ReturnTree DEF Tree
  <2>4. TreeOfCalls(nodes, edges, frames, where, roots, lo)'
    BY <2>2, <2>3, TreeRests
  <2> QED
    BY <1>1, <2>1, <2>2, <2>4 DEF Tree
<1>8. CASE Finish
  <2>1. pc' = "done"
    BY <1>8 DEF Finish, Fail
  <2> QED
    BY <1>1, <2>1 DEF Tree
<1>9. CASE UNCHANGED vars
  <2>1. /\ pc' = pc
        /\ UNCHANGED <<entries, order, edgeHash, nodes, edges, where, frames, lo, roots>>
    BY <1>9 DEF vars
  <2>2. pc = "tries" => TreeOfCalls(nodes, edges, frames, where, roots, lo)'
    BY <2>1, TreeRests DEF Tree
  <2> QED
    BY <1>1, <2>1, <2>2 DEF Tree, Methods
<1> QED
  BY <1>2, <1>3, <1>4, <1>5, <1>6, <1>7, <1>8, <1>9 DEF Next

-----------------------------------------------------------------------------
(* The exact routes.                                                       *)

\* An exact route's slot, its hash, and the slots a probe for it passes.
SlotOf(x) ==
    [method |-> entries[x].method, path |-> PathOf(entries[x].pattern),
     route |-> entries[x].route]

HashOf(x) == pathHash[entries[x].method, PathOf(entries[x].pattern)]

SlotAt(x, j) == slots[Slot(0, Len(slots), HashOf(x), j)]

\* A route is in a slot, and a probe for it meets no empty one before.
Placed(x) ==
    \E j \in 0..(Len(slots) - 1) :
        SlotAt(x, j) = SlotOf(x) /\ \A i \in 0..(j - 1) : SlotAt(x, i).route # None

\* Every exact route is in its slot or still to be put there, and nothing else is.
Exacts ==
    /\ SlotsOK
    /\ pc \in {"literals", "tries"} =>
           /\ \A k \in 1..Len(literal) : literal[k] \in DOMAIN entries /\ Exact(literal[k])
           /\ slots = << >> => \A x \in DOMAIN entries : ~Exact(x)
           /\ \A i \in 1..Len(slots) : slots[i].route # None =>
                  \E x \in DOMAIN entries : Exact(x) /\ slots[i] = SlotOf(x)
           /\ \A x \in DOMAIN entries : Exact(x) =>
                  (\E k \in 1..Len(literal) : literal[k] = x) \/ Placed(x)
    /\ pc = "tries" => literal = << >>

\* An exact route has no parameter, and its path has a hash.
LEMMA ExactIs ==
    ASSUME Parsed, NEW x \in DOMAIN entries, Exact(x)
    PROVE  /\ IsLiteral(entries[x].pattern) /\ HashOf(x) \in Nat
           /\ entries[x].route # None /\ SlotOf(x).route # None
           /\ x \in 1..Len(specs) /\ entries[x] = EntryOf(x)
<1>1. /\ x \in 1..Len(entries) /\ entries[x] = EntryOf(x) /\ Accepted(x)
      /\ specs \in SpecLists /\ pathHash \in PathHashes
  <2>1. DOMAIN entries = 1..Len(entries)
    BY EntriesComparable
  <2> QED
    BY <2>1, EntriesComparable DEF Parsed
<1>2. x \in 1..Len(specs) /\ x \in DOMAIN specs
  <2>1. Len(specs) \in Nat /\ DOMAIN specs = 1..Len(specs)
    BY <1>1, SpecsAssumption
  <2>2. Len(entries) \in Nat /\ Len(entries) <= Len(specs)
    BY DEF Parsed
  <2> QED
    BY <1>1, <2>1, <2>2
<1>3. IsLiteral(entries[x].pattern)
  BY DEF Exact, ParamMethods
<1>4. /\ entries[x].method = specs[x].method /\ entries[x].pattern = specs[x].pattern
      /\ entries[x].route = specs[x].route
  BY <1>1 DEF EntryOf
<1>5. specs[x].method < MethodSlots /\ specs[x].pattern # Malformed
  BY <1>1 DEF Accepted
<1>6. <<specs[x].method, PathOf(specs[x].pattern)>> \in DOMAIN pathHash
  BY <1>1, <1>2, <1>3, <1>4, <1>5, HashesAssumption
<1>7. pathHash[<<specs[x].method, PathOf(specs[x].pattern)>>] \in Nat
  BY <1>1, <1>6, HashesAssumption
<1>8. specs[x].route # None
  BY <1>1, <1>2, SpecsAssumption
<1> QED
  BY <1>1, <1>2, <1>3, <1>4, <1>7, <1>8 DEF HashOf, SlotOf

\* Nor any exact route.
LEMMA ExactsInit == Init => Exacts
<1> SUFFICES ASSUME Init
             PROVE  Exacts
  OBVIOUS
<1>1. SlotsOK
  BY SlotsInit
<1> QED
  BY <1>1 DEF Init, Exacts

\* The split lists the exact routes, and makes slots if there are any.
LEMMA SplitExacts ==
    ASSUME Exacts, Split, SlotsOK'
    PROVE  Exacts'
<1> DEFINE T == {i \in DOMAIN entries : Exact(i)}
           exact == Sorted(T)
<1>1. /\ literal' = exact /\ entries' = entries
      /\ \/ pc' = "done"
         \/ /\ pc' = "literals"
            /\ slots' = IF exact = << >> THEN << >>
                        ELSE [k \in 1..SlotsFor(Len(exact)) |-> NoSlot]
  BY DEF Split, Fail
<1>2. Parsed
  BY DEF Exacts, SlotsOK
<1>3. /\ exact \in Seq(T) /\ \A k \in 1..Len(exact) : exact[k] \in T
      /\ \A x \in T : \E k \in 1..Len(exact) : exact[k] = x
  BY <1>2, SortedList
<1>4. \A x : (x \in T <=> x \in DOMAIN entries /\ Exact(x)) /\ (Exact(x)' <=> Exact(x))
  BY <1>1 DEF Exact, ParamMethods
<1> HIDE DEF T, exact
<1>5. CASE pc' = "done"
  BY <1>5 DEF Exacts
<1>6. CASE pc' = "literals"
  <2>1. slots' = << >> => exact = << >>
    <3> SUFFICES ASSUME exact # << >> PROVE slots' # << >>
      OBVIOUS
    <3>1. Len(exact) \in Nat
      BY <1>3, LenProperties
    <3> DEFINE n == SlotsFor(Len(exact))
    <3>2. n \in Nat /\ n > 0
      BY <3>1, SlotsAreEnough
    <3>3. slots' = [k \in 1..n |-> NoSlot]
      BY <1>1, <1>6
    <3> HIDE DEF n
    <3>4. Len(slots') = n
      BY <3>2, <3>3, SlotsBegin
    <3> QED
      BY <3>2, <3>4
  <2>2. exact = << >> => \A x \in DOMAIN entries : ~Exact(x)
    <3>1. exact = << >> => Len(exact) = 0
      OBVIOUS
    <3>2. exact = << >> => \A k \in 1..Len(exact) : FALSE
      BY <3>1
    <3> QED
      BY <1>3, <1>4, <3>2
  <2>3. ASSUME NEW i \in 1..Len(slots')
        PROVE  slots'[i].route = None
    <3>1. CASE exact = << >>
      <4>1. slots' = << >>
        BY <1>1, <1>6, <3>1
      <4> QED
        BY <2>3, <4>1
    <3>2. CASE exact # << >>
      <4>1. Len(exact) \in Nat
        BY <1>3, LenProperties
      <4> DEFINE n == SlotsFor(Len(exact))
      <4>2. n \in Nat /\ slots' = [k \in 1..n |-> NoSlot]
        BY <1>1, <1>6, <3>2, <4>1, SlotsAreEnough
      <4> HIDE DEF n
      <4>3. Len(slots') = n
        BY <4>2, SlotsBegin
      <4> QED
        BY <4>2, <4>3 DEF NoSlot
    <3> QED
      BY <3>1, <3>2
  <2>4. pc' # "tries"
    BY <1>6
  <2> QED
    BY <1>1, <1>3, <1>4, <2>1, <2>2, <2>3, <2>4 DEF Exacts
<1> QED
  BY <1>1, <1>5, <1>6

\* A route put into its slot leaves those before it where they are.
LEMMA InsertExacts ==
    ASSUME Exacts, InsertLiteral, SlotsOK'
    PROVE  Exacts'
<1>0. PICK x : x = literal[1]
  OBVIOUS
<1> DEFINE size == Len(slots)
           At(y, j) == Slot(0, size, HashOf(y), j)
<1>1. /\ pc = "literals" /\ pc' = pc /\ literal # << >> /\ literal' = Tail(literal)
      /\ UNCHANGED <<entries, pathHash>>
  BY DEF InsertLiteral
<1>2. /\ Parsed /\ List(literal) /\ Len(literal) \in Nat
      /\ slots # << >> => List(slots) /\ Len(slots) > 0 /\ Len(slots) \in Nat
  BY DEF Exacts, SlotsOK, List
<1>3. /\ Len(literal) > 0 /\ Head(literal) = x
      /\ Len(literal') = Len(literal) - 1
      /\ \A k \in 1..(Len(literal) - 1) : literal'[k] = literal[k + 1]
  <2> DEFINE S == {literal[i] : i \in 1..Len(literal)}
  <2>1. literal \in Seq(S)
    BY <1>2, ListIsSeq
  <2> HIDE DEF S
  <2>2. /\ Len(Tail(literal)) = Len(literal) - 1
        /\ \A k \in 1..Len(Tail(literal)) : Tail(literal)[k] = literal[k + 1]
    BY <1>1, <2>1, HeadTailProperties
  <2>3. Head(literal) = literal[1] /\ Len(literal) # 0
    BY <1>1, <2>1
  <2> QED
    BY <1>0, <1>1, <1>2, <2>2, <2>3
<1>4. x \in DOMAIN entries /\ Exact(x)
  BY <1>0, <1>1, <1>2, <1>3 DEF Exacts
<1>5. slots # << >> /\ size \in Nat /\ size > 0 /\ slots = [i \in 1..size |-> slots[i]]
  BY <1>1, <1>2, <1>4 DEF Exacts, List
<1>6. PICK j \in 0..(size - 1) :
          /\ slots[At(x, j)].route = None
          /\ \A k \in 0..(j - 1) : slots[At(x, k)].route # None
          /\ slots' = [slots EXCEPT ![At(x, j)] = SlotOf(x)]
  BY <1>3 DEF InsertLiteral, Steps, HashOf, SlotOf
<1>7. ASSUME NEW y \in DOMAIN entries, Exact(y), NEW k \in Nat
      PROVE  At(y, k) \in 1..size
  <2>1. HashOf(y) \in Nat
    BY <1>2, <1>7, ExactIs
  <2> HIDE DEF size
  <2>2. PICK i \in 1..size : Slot(0, size, HashOf(y), k) = 0 + i
    BY <1>5, <2>1, SlotIsOne
  <2> QED
    BY <2>2
<1> DEFINE place == At(x, j)
<1>8. place \in 1..size
  <2>1. j \in Nat
    OBVIOUS
  <2> QED
    BY <1>4, <1>7, <2>1
<1>9. /\ Len(slots') = size
      /\ \A i \in 1..size : slots'[i] = IF i = place THEN SlotOf(x) ELSE slots[i]
  <2> HIDE DEF place, size
  <2>1. /\ slots' = [i \in 1..size |-> slots'[i]]
        /\ \A i \in 1..size : slots'[i] = IF i = place THEN SlotOf(x) ELSE slots[i]
    BY <1>5, <1>6 DEF place
  <2>2. Len(slots') = size
    BY <1>5, <2>1, ListOf
  <2> QED
    BY <2>1, <2>2
<1>10. \A y : (Exact(y)' <=> Exact(y)) /\ SlotOf(y)' = SlotOf(y) /\ HashOf(y)' = HashOf(y)
  BY <1>1 DEF Exact, ParamMethods, SlotOf, HashOf
<1>11. \A y, k : SlotAt(y, k) = slots[At(y, k)] /\ SlotAt(y, k)' = slots'[At(y, k)]
  BY <1>9, <1>10 DEF SlotAt
<1> HIDE DEF At, size
<1>12. slots[place].route = None
  BY <1>6
<1> HIDE DEF place
<1>13. ASSUME NEW y \in DOMAIN entries, Exact(y), NEW k \in Nat, slots[At(y, k)].route # None
       PROVE  slots'[At(y, k)] = slots[At(y, k)]
  BY <1>7, <1>9, <1>12, <1>13
<1>14. ASSUME NEW y \in DOMAIN entries, Exact(y), Placed(y)
       PROVE  Placed(y)'
  <2>1. PICK k \in 0..(size - 1) :
            /\ slots[At(y, k)] = SlotOf(y)
            /\ \A i \in 0..(k - 1) : slots[At(y, i)].route # None
    BY <1>11, <1>14 DEF Placed, size
  <2>2. SlotOf(y).route # None
    BY <1>2, <1>14, ExactIs
  <2>3. slots'[At(y, k)] = SlotOf(y)
    BY <1>13, <1>14, <2>1, <2>2
  <2>4. \A i \in 0..(k - 1) : slots'[At(y, i)].route # None
    BY <1>13, <1>14, <2>1
  <2> QED
    BY <1>9, <1>10, <1>11, <2>1, <2>3, <2>4 DEF Placed
<1>15. Placed(x)'
  <2>1. slots'[At(x, j)] = SlotOf(x)
    BY <1>8, <1>9 DEF place
  <2>2. \A i \in 0..(j - 1) : slots'[At(x, i)].route # None
    BY <1>4, <1>6, <1>13
  <2> QED
    BY <1>9, <1>10, <1>11, <2>1, <2>2 DEF Placed
<1>16. ASSUME NEW y \in DOMAIN entries, Exact(y)
       PROVE  (\E k \in 1..Len(literal') : literal'[k] = y) \/ Placed(y)'
  <2>1. CASE Placed(y)
    BY <1>14, <1>16, <2>1
  <2>2. CASE y = x
    BY <1>15, <2>2
  <2>3. CASE y # x /\ \E k \in 1..Len(literal) : literal[k] = y
    <3>1. PICK k \in 1..Len(literal) : literal[k] = y
      BY <2>3
    <3>2. k # 1
      BY <1>0, <2>3, <3>1
    <3>3. k - 1 \in 1..(Len(literal) - 1) /\ (k - 1) + 1 = k
      BY <1>2, <3>2
    <3> QED
      BY <1>3, <3>1, <3>3
  <2> QED
    BY <1>1, <1>16, <2>1, <2>2, <2>3 DEF Exacts
<1>17. ASSUME NEW k \in 1..Len(literal')
       PROVE  literal'[k] \in DOMAIN entries /\ Exact(literal'[k])
  <2>1. k + 1 \in 1..Len(literal) /\ k \in 1..(Len(literal) - 1)
    BY <1>2, <1>3
  <2> QED
    BY <1>1, <1>3, <2>1 DEF Exacts
<1>18. ASSUME NEW i \in 1..Len(slots'), slots'[i].route # None
       PROVE  \E y \in DOMAIN entries : Exact(y) /\ slots'[i] = SlotOf(y)
  <2>1. CASE i = place
    BY <1>4, <1>8, <1>9, <2>1
  <2>2. CASE i # place
    <3>1. slots'[i] = slots[i] /\ i \in 1..Len(slots)
      BY <1>9, <2>2 DEF size
    <3> QED
      BY <1>1, <1>18, <3>1 DEF Exacts
  <2> QED
    BY <2>1, <2>2
<1>19. slots' # << >>
  BY <1>5, <1>9
<1>20. pc' # "tries"
  BY <1>1
<1> QED
  BY <1>1, <1>10, <1>16, <1>17, <1>18, <1>19, <1>20 DEF Exacts

\* Every step of the build keeps the exact routes placed.
LEMMA ExactsStep == Exacts /\ [Next]_vars => Exacts'
<1> SUFFICES ASSUME Exacts, [Next]_vars
             PROVE  Exacts'
  OBVIOUS
<1>1. SlotsOK'
  BY SlotsStep DEF Exacts
<1>2. CASE ParseSpec
  <2>1. pc = "parse" /\ pc' \in {"parse", "done"}
    BY <1>2 DEF ParseSpec, Fail
  <2> QED
    BY <1>1, <2>1 DEF Exacts
<1>3. CASE Split
  BY <1>1, <1>3, SplitExacts
<1>4. CASE InsertLiteral
  BY <1>1, <1>4, InsertExacts
<1>5. CASE LiteralsDone \/ StartTrie \/ BuildChild \/ Return \/ UNCHANGED vars
  <2>1. /\ UNCHANGED <<entries, slots, literal, pathHash>>
        /\ pc' = pc \/ (pc = "literals" /\ pc' = "tries" /\ literal = << >>)
    BY <1>5 DEF LiteralsDone, StartTrie, BuildChild, Return, vars
  <2>2. \A y : /\ Exact(y)' <=> Exact(y)
               /\ SlotOf(y)' = SlotOf(y)
               /\ \A k : SlotAt(y, k)' = SlotAt(y, k)
    BY <2>1 DEF Exact, ParamMethods, SlotOf, SlotAt, HashOf
  <2>3. \A y : Placed(y)' <=> Placed(y)
    BY <2>1, <2>2 DEF Placed
  <2> QED
    BY <1>1, <2>1, <2>2, <2>3 DEF Exacts
<1>6. CASE Finish
  <2>1. pc' = "done"
    BY <1>6 DEF Finish, Fail
  <2> QED
    BY <1>1, <2>1 DEF Exacts
<1> QED
  BY <1>2, <1>3, <1>4, <1>5, <1>6 DEF Next

-----------------------------------------------------------------------------
(* The finished tries.                                                     *)

\* The tries are all built.
Ended == Tree /\ pc = "tries" /\ frames = << >> /\ lo > Len(order)

\* Every node is its call's, and holds all of its children.
LEMMA NodesEnd ==
    ASSUME Ended
    PROVE  /\ Divided /\ List(nodes) /\ List(edges) /\ Len(where) = Len(nodes)
           /\ Len(nodes) \in Nat /\ edgeHash \in EdgeHashes
           /\ \A id \in 1..Len(nodes) :
                  /\ IsCall(where[id]) /\ NodeIs(nodes[id], where[id]) /\ IsNode(nodes[id])
                  /\ nodes[id].hashed =>
                         /\ nodes[id].count > 0
                         /\ 2 * Cardinality(Taken(nodes[id], edges)) <= nodes[id].count
                  /\ HoldsEdges(nodes[id], where[id], RunCount(where[id]), edges, where)
                  /\ HoldsKids(where[id], RunCount(where[id]), nodes[id].kids, where)
           /\ \A a, b \in 1..Len(nodes) : where[a] = where[b] => a = b
           /\ Parented(frames, where) /\ Rooted(frames, where, roots, lo)
<1>1. /\ Building /\ Named(nodes, where, lo) /\ Finished(nodes, edges, frames, where)
      /\ Parented(frames, where) /\ Rooted(frames, where, roots, lo)
  BY DEF Ended, Tree, TreeOfCalls
<1>2. \A i \in 1..Len(frames) : FALSE
  <2>1. Len(frames) = 0 /\ 1..0 = {}
    BY DEF Ended
  <2> QED
    BY <2>1
<1>3. Divided /\ LaidOut(nodes, edges)
  BY <1>1 DEF Building
<1>4. edgeHash \in EdgeHashes
  BY <1>3 DEF Divided, Parsed
<1>5. List(nodes) /\ List(edges) /\ Len(nodes) \in Nat
  BY <1>3 DEF LaidOut, List
<1>6. \A id \in 1..Len(nodes) :
          /\ HoldsEdges(nodes[id], where[id], RunCount(where[id]), edges, where)
          /\ HoldsKids(where[id], RunCount(where[id]), nodes[id].kids, where)
  BY <1>1, <1>2 DEF Finished
<1>7. /\ Len(where) = Len(nodes)
      /\ \A id \in 1..Len(nodes) : IsCall(where[id]) /\ NodeIs(nodes[id], where[id])
      /\ \A a, b \in 1..Len(nodes) : where[a] = where[b] => a = b
  BY <1>1 DEF Named
<1>8. \A id \in 1..Len(nodes) :
          /\ IsNode(nodes[id])
          /\ nodes[id].hashed =>
                 /\ nodes[id].count > 0
                 /\ 2 * Cardinality(Taken(nodes[id], edges)) <= nodes[id].count
  BY <1>3 DEF LaidOut
<1> QED
  BY <1>1, <1>3, <1>4, <1>5, <1>6, <1>7, <1>8

\* Of the numbers below a bound that have a property, one is the first.
LEMMA FirstBelow ==
    ASSUME NEW size \in Nat, NEW C, NEW i \in 0..(size - 1), i \in C
    PROVE  \E j \in 0..(size - 1) : j <= i /\ j \in C /\ \A k \in 0..(j - 1) : k \notin C
<1> DEFINE T == {k \in 0..(size - 1) : k \in C}
<1>1. T \in SUBSET Nat /\ i \in T
  OBVIOUS
<1>2. PICK j \in T : \A k \in T : j <= k
  BY <1>1, LeastNumber
<1>3. j \in 0..(size - 1) /\ j <= i /\ j \in C
  BY <1>1, <1>2
<1>4. \A k \in 0..(j - 1) : k \notin C
  <2> TAKE k \in 0..(j - 1)
  <2>1. k \in 0..(size - 1) /\ ~(j <= k)
    BY <1>3
  <2> QED
    BY <1>2, <2>1
<1> QED
  BY <1>3, <1>4

\* A probe for a text stops at an empty edge or one of the text.
StopsAt(n, t, j) ==
    EdgeAt(n, t, j, edges).child = None \/ EdgeAt(n, t, j, edges).text = t

FirstStop(n, t, j) ==
    /\ j \in 0..(n.count - 1) /\ StopsAt(n, t, j)
    /\ \A k \in 0..(j - 1) : ~StopsAt(n, t, k)

\* A probe of a hashed node always comes to a stop.
LEMMA ProbeStops ==
    ASSUME Ended, NEW id \in 1..Len(nodes), NEW n, n = nodes[id], n.hashed,
           NEW t \in Texts \cup {Empty}
    PROVE  \E j : FirstStop(n, t, j) /\ FindEdge(n, t) = EdgeAt(n, t, j, edges).child
<1>1. /\ n.count \in Nat /\ n.count > 0 /\ n.edges \in Nat
      /\ 2 * Cardinality(Taken(n, edges)) <= n.count
  BY NodesEnd DEF IsNode
<1>2. edgeHash[t] \in Nat
  BY NodesEnd, HashesAssumption
<1>3. PICK i \in 1..n.count : i \notin Taken(n, edges)
  <2>1. Taken(n, edges) \in SUBSET (1..n.count)
    BY DEF Taken
  <2>2. Cardinality(Taken(n, edges)) \in Nat
    <3>1. IsFiniteSet(1..n.count)
      <4>1. n.count \in Int /\ 1 \in Int
        BY <1>1
      <4> QED
        BY <4>1, FS_Interval
    <3>2. IsFiniteSet(Taken(n, edges))
      BY <2>1, <3>1, FS_Subset
    <3> QED
      BY <3>2, FS_CardinalityType
  <2>3. 2 * (Cardinality(Taken(n, edges)) + 0) <= n.count
    BY <1>1, <2>2
  <2> QED
    BY <1>1, <2>1, <2>3, RoomIsLeft
<1>4. edges[n.edges + i].child = None
  BY <1>3 DEF Taken
<1>5. PICK j0 \in 0..(n.count - 1) : ((edgeHash[t] + j0) % n.count) + 1 = i
  BY <1>1, <1>2, EveryPlaceProbed, Zenon
<1>6. Slot(n.edges, n.count, edgeHash[t], j0) = n.edges + i
  <2> DEFINE q == (edgeHash[t] + j0) % n.count
  <2>1. q \in Int
    BY <1>1, <1>2, <1>5, Z3
  <2>2. q + 1 = i
    BY <1>5
  <2>3. Slot(n.edges, n.count, edgeHash[t], j0) = n.edges + 1 + q
    BY DEF Slot
  <2> HIDE DEF q
  <2> QED
    BY <1>1, <2>1, <2>2, <2>3
<1>7. StopsAt(n, t, j0)
  BY <1>4, <1>6 DEF StopsAt, EdgeAt
<1> DEFINE C == {j \in 0..(n.count - 1) : StopsAt(n, t, j)}
<1>8. j0 \in C
  BY <1>7
<1>9. PICK j1 \in 0..(n.count - 1) : j1 \in C /\ \A k \in 0..(j1 - 1) : k \notin C
  <2> HIDE DEF C
  <2>1. PICK c \in Nat : c = n.count
    BY <1>1
  <2>2. \E j \in 0..(c - 1) : j <= j0 /\ j \in C /\ \A k \in 0..(j - 1) : k \notin C
    BY <1>8, <2>1, FirstBelow
  <2> QED
    BY <2>1, <2>2
<1>10. FirstStop(n, t, j1)
  <2>1. \A k \in 0..(j1 - 1) : k \in 0..(n.count - 1)
    BY <1>1, <1>9
  <2> QED
    BY <1>9, <2>1 DEF FirstStop
<1> DEFINE J == {j \in 0..(n.count - 1) : StopsAt(n, t, j) /\ \A k \in 0..(j - 1) : ~StopsAt(n, t, k)}
           j == CHOOSE k \in J : TRUE
<1>11. j \in J
  BY <1>10 DEF FirstStop
<1>12. FindEdge(n, t) = edges[Slot(n.edges, n.count, edgeHash[t], j)].child
  BY DEF FindEdge, Steps, StopsAt, EdgeAt
<1>13. FirstStop(n, t, j)
  BY <1>11 DEF FirstStop
<1> HIDE DEF j
<1> QED
  BY <1>12, <1>13 DEF EdgeAt

\* What each edge of a finished node is for: a hashed one's, if it has a child, is
\* one of the call's literal runs'.
LEMMA EdgesOwned ==
    ASSUME Ended, NEW id \in 1..Len(nodes), NEW n, n = nodes[id], NEW w, w = where[id],
           n.hashed, NEW t \in Texts \cup {Empty}, NEW j \in 0..(n.count - 1),
           EdgeAt(n, t, j, edges).child # None
    PROVE  \E k \in 1..Len(LitsOf(w)) :
               /\ EdgeAt(n, t, j, edges).text = SegAt(w, k).text
               /\ IsKid(EdgeAt(n, t, j, edges).child, w, k, where)
<1>1. n.count \in Nat /\ n.count > 0 /\ n.edges \in Nat /\ j \in Nat
  <2>1. IsNode(n) /\ n.count > 0
    BY NodesEnd
  <2>2. n.count \in Nat /\ n.edges \in Nat
    BY <2>1 DEF IsNode
  <2> QED
    BY <2>1, <2>2
<1>2. edgeHash[t] \in Nat
  BY NodesEnd, HashesAssumption
<1>3. PICK i \in 1..n.count : Slot(n.edges, n.count, edgeHash[t], j) = n.edges + i
  BY ONLY <1>1, <1>2, SlotIsOne, Zenon
<1>4. EdgeAt(n, t, j, edges) = edges[n.edges + i]
  BY <1>3 DEF EdgeAt
<1>5. HoldsEdges(n, w, RunCount(w), edges, where)
  BY NodesEnd
<1>6. PICK k \in 1..Len(LitsOf(w)) : OwnEdge(n, w, k, i, edges, where)
  BY <1>4, <1>5 DEF HoldsEdges
<1> QED
  BY <1>4, <1>6 DEF OwnEdge

\* Literal runs of one text are one.
LEMMA LiteralRunIs ==
    ASSUME Divided, pc = "tries", NEW w, IsCall(w), NEW k \in 1..Len(LitsOf(w)),
           NEW j \in 1..Len(LitsOf(w)), SegAt(w, j).text = SegAt(w, k).text
    PROVE  j = k
<1>1. SegAt(w, j) = Lit(SegAt(w, j).text) /\ SegAt(w, k) = Lit(SegAt(w, k).text)
  BY EdgeTexts
<1>2. SameSeg(SegAt(w, j), SegAt(w, k))
  BY <1>1 DEF SameSeg
<1>3. j \in 1..RunCount(w) /\ k \in 1..RunCount(w)
  BY EdgeTexts
<1> QED
  BY <1>2, <1>3, RunSegments

\* A child's number is none of the arrays' None.
LEMMA KidIsNode ==
    ASSUME Ended, NEW w, NEW k, NEW c, IsKid(c, w, k, where)
    PROVE  /\ c \in 1..Len(nodes) /\ c # None /\ where[c] = CallAt(w, k)
           /\ \A d : IsKid(d, w, k, where) => d = c
<1>1. c \in 1..Len(nodes) /\ where[c] = CallAt(w, k)
  BY NodesEnd DEF IsKid
<1>2. c # None
  BY <1>1, NoneAssumption, NodesEnd
<1>3. ASSUME NEW d, IsKid(d, w, k, where)
      PROVE  d = c
  <2>1. d \in 1..Len(nodes) /\ where[d] = CallAt(w, k)
    BY <1>3, NodesEnd DEF IsKid
  <2> QED
    BY <1>1, <2>1, NodesEnd
<1> QED
  BY <1>1, <1>2, <1>3

\* A search of a node for a text finds the child of the run of that text, if there
\* is one, and otherwise nothing.
LEMMA EdgeFound ==
    ASSUME Ended, NEW id \in 1..Len(nodes), NEW n, n = nodes[id], NEW w, w = where[id]
    PROVE  /\ \A k \in 1..Len(LitsOf(w)) : IsKid(FindEdge(n, SegAt(w, k).text), w, k, where)
           /\ \A t \in Texts \cup {Empty} : FindEdge(n, t) # None =>
                  \E k \in 1..Len(LitsOf(w)) : t = SegAt(w, k).text
<1>1. /\ Divided /\ pc = "tries" /\ IsCall(w) /\ IsNode(n) /\ NodeIs(n, w)
      /\ HoldsEdges(n, w, RunCount(w), edges, where)
  BY NodesEnd DEF Ended
<1>2. \A k \in 1..Len(LitsOf(w)) :
          /\ k \in 1..RunCount(w) /\ SegAt(w, k).text \in Texts \cup {Empty}
          /\ HoldsEdge(n, w, k, edges, where)
  <2> TAKE k \in 1..Len(LitsOf(w))
  <2>1. k \in 1..RunCount(w) /\ SegAt(w, k).text \in Texts \cup {Empty}
    BY <1>1, EdgeTexts
  <2>2. k <= RunCount(w)
    BY <2>1
  <2> QED
    BY <1>1, <2>1, <2>2 DEF HoldsEdges
<1>3. CASE n.hashed
  <2>1. ASSUME NEW t \in Texts \cup {Empty}, FindEdge(n, t) # None
        PROVE  \E k \in 1..Len(LitsOf(w)) :
                   t = SegAt(w, k).text /\ IsKid(FindEdge(n, t), w, k, where)
    <3>1. PICK j : FirstStop(n, t, j) /\ FindEdge(n, t) = EdgeAt(n, t, j, edges).child
      BY <1>3, ProbeStops
    <3>2. j \in 0..(n.count - 1) /\ EdgeAt(n, t, j, edges).text = t
      BY <2>1, <3>1 DEF FirstStop, StopsAt
    <3>3. EdgeAt(n, t, j, edges).child # None
      BY <2>1, <3>1
    <3>4. PICK k \in 1..Len(LitsOf(w)) :
              /\ EdgeAt(n, t, j, edges).text = SegAt(w, k).text
              /\ IsKid(EdgeAt(n, t, j, edges).child, w, k, where)
      BY <1>3, <3>2, <3>3, EdgesOwned
    <3> QED
      BY <3>1, <3>2, <3>4
  <2>2. ASSUME NEW k \in 1..Len(LitsOf(w))
        PROVE  IsKid(FindEdge(n, SegAt(w, k).text), w, k, where)
    <3> DEFINE t == SegAt(w, k).text
    <3>1. t \in Texts \cup {Empty} /\ HoldsEdge(n, w, k, edges, where)
      BY <1>2
    <3> HIDE DEF t
    <3>2. PICK c \in 1..Len(where) :
              /\ IsKid(c, w, k, where)
              /\ \E j \in 0..(n.count - 1) :
                     /\ EdgeAt(n, t, j, edges) = [text |-> t, child |-> c]
                     /\ \A i \in 0..(j - 1) : EdgeAt(n, t, i, edges).child # None
      BY <1>3, <3>1 DEF HoldsEdge, t
    <3>3. PICK j0 \in 0..(n.count - 1) :
              /\ EdgeAt(n, t, j0, edges) = [text |-> t, child |-> c]
              /\ \A i \in 0..(j0 - 1) : EdgeAt(n, t, i, edges).child # None
      BY <3>2
    <3>4. PICK j : FirstStop(n, t, j) /\ FindEdge(n, t) = EdgeAt(n, t, j, edges).child
      BY <1>3, <3>1, ProbeStops
    <3>5. StopsAt(n, t, j0)
      BY <3>3 DEF StopsAt
    <3>6. n.count \in Nat /\ j \in 0..(n.count - 1) /\ \A i \in 0..(j - 1) : ~StopsAt(n, t, i)
      BY <1>1, <3>4 DEF FirstStop, IsNode
    <3>7. ~(j0 \in 0..(j - 1))
      BY <3>5, <3>6
    <3>8. j = j0 \/ j \in 0..(j0 - 1)
      BY <3>6, <3>7
    <3>9. EdgeAt(n, t, j, edges).child # None
      <4>1. c # None
        BY <3>2, KidIsNode
      <4> QED
        BY <3>3, <3>8, <4>1
    <3>10. PICK k1 \in 1..Len(LitsOf(w)) :
               t = SegAt(w, k1).text /\ IsKid(FindEdge(n, t), w, k1, where)
      BY <2>1, <3>1, <3>4, <3>9
    <3>11. k1 = k
      BY <1>1, <3>10, LiteralRunIs DEF t
    <3> QED
      BY <3>10, <3>11 DEF t
  <2> QED
    BY <2>1, <2>2
<1>4. CASE ~n.hashed
  <2>1. n.count = Len(LitsOf(w)) /\ Len(LitsOf(w)) \in Nat
    BY <1>1, <1>4, RunNumbers DEF NodeIs
  <2>2. \A k \in 1..n.count :
            /\ edges[n.edges + k].text = SegAt(w, k).text
            /\ IsKid(edges[n.edges + k].child, w, k, where)
    <3> TAKE k \in 1..n.count
    <3>1. PICK c \in 1..Len(where) :
              IsKid(c, w, k, where) /\ edges[n.edges + k] = [text |-> SegAt(w, k).text, child |-> c]
      BY <1>2, <1>4, <2>1 DEF HoldsEdge
    <3> QED
      BY <3>1
  <2>3. ASSUME NEW k \in 1..Len(LitsOf(w))
        PROVE  IsKid(FindEdge(n, SegAt(w, k).text), w, k, where)
    <3> DEFINE t == SegAt(w, k).text
               hits == {i \in 1..n.count : edges[n.edges + i].text = t}
               i0 == CHOOSE i \in hits : \A j \in hits : i <= j
    <3>1. k \in hits
      BY <2>1, <2>2
    <3>2. \A i \in hits : i = k
      <4> TAKE i \in hits
      <4>1. i \in 1..Len(LitsOf(w)) /\ SegAt(w, i).text = SegAt(w, k).text
        BY <2>1, <2>2
      <4> QED
        BY <1>1, <4>1, LiteralRunIs
    <3>3. i0 = k
      <4>1. \A j \in hits : k <= j
        BY <2>1, <3>2
      <4> HIDE DEF hits
      <4> QED
        BY <3>1, <3>2, <4>1
    <3>4. FindEdge(n, t) = edges[n.edges + i0].child
      <4>1. hits # {}
        BY <3>1
      <4> QED
        BY <1>4, <4>1 DEF FindEdge
    <3> HIDE DEF i0
    <3> QED
      BY <2>1, <2>2, <3>3, <3>4
  <2>4. ASSUME NEW t \in Texts \cup {Empty}, FindEdge(n, t) # None
        PROVE  \E k \in 1..Len(LitsOf(w)) : t = SegAt(w, k).text
    <3> DEFINE hits == {i \in 1..n.count : edges[n.edges + i].text = t}
    <3>1. hits # {}
      BY <1>4, <2>4 DEF FindEdge
    <3> QED
      BY <2>1, <2>2, <3>1
  <2> QED
    BY <2>3, <2>4
<1> QED
  BY <1>3, <1>4

\* The segments spelled on the way to a call.
PrefixOf(w) == Keys(SubSeq(Pattern(w.lo), 1, w.depth))

\* A key is a segment of the same kind, without a parameter's name.
LEMMA KeyIs ==
    ASSUME NEW s \in Segments
    PROVE  /\ Key(s) \in Segments /\ Key(Key(s)) = Key(s) /\ Key(s).kind = s.kind
           /\ Key(s) = IF s.kind = "literal" THEN Lit(s.text)
                       ELSE [kind |-> s.kind, text |-> Empty]
<1>1. s = [kind |-> s.kind, text |-> s.text] /\ s.kind \in Kinds
  BY DEF Segments
<1> QED
  BY <1>1 DEF Key, Lit, Segments, Kinds

\* A prefix is as long as its call is deep, and names its first entry's segments.
LEMMA PrefixIs ==
    ASSUME Divided, pc = "tries", NEW w, IsCall(w)
    PROVE  /\ PrefixOf(w) \in Seq(Segments) /\ Len(PrefixOf(w)) = w.depth /\ w.depth \in Nat
           /\ \A i \in 1..w.depth :
                  /\ PrefixOf(w)[i] = Key(Pattern(w.lo)[i])
                  /\ Pattern(w.lo)[i] \in Segments /\ i \in 1..Len(Pattern(w.lo))
<1> DEFINE p == Pattern(w.lo)
           d == w.depth
           s == SubSeq(p, 1, d)
<1>1. /\ w.lo \in 1..Len(order) /\ d \in Nat /\ Len(p) >= d
      /\ p \in Seq(Segments) /\ Len(p) \in Nat
  BY CallBegin, OrderIs
<1> HIDE DEF p, d
<1>2. \A i \in 1..d : i \in 1..Len(p) /\ p[i] \in Segments
  BY <1>1
<1>3. Len(s) = d /\ \A i \in 1..d : s[i] = p[i]
  BY <1>1
<1>4. Keys(s) = [i \in 1..d |-> Key(p[i])]
  BY <1>3 DEF Keys
<1>5. [i \in 1..d |-> Key(p[i])] \in Seq(Segments) /\ Len([i \in 1..d |-> Key(p[i])]) = d
  <2>1. \A i \in 1..d : Key(p[i]) \in Segments
    BY <1>2, KeyIs
  <2> QED
    BY <1>1, <2>1
<1> QED
  BY <1>1, <1>2, <1>4, <1>5 DEF PrefixOf, p, d

\* A child's prefix is its parent's and the segment it is under.
LEMMA PrefixOfKid ==
    ASSUME Divided, pc = "tries", NEW w, IsCall(w), NEW k \in 1..RunCount(w)
    PROVE  PrefixOf(CallAt(w, k)) = Append(PrefixOf(w), Key(SegAt(w, k)))
<1> DEFINE v == CallAt(w, k)
           a == PrefixOf(v)
           b == PrefixOf(w)
           d == w.depth
<1>1. /\ IsCall(v) /\ v.lo \in w.lo..(w.hi - 1) /\ v.depth = d + 1
      /\ v.lo = RunAt(w, k).from
  BY KidIsCall DEF CallAt
<1> HIDE DEF v
<1>2. /\ a \in Seq(Segments) /\ Len(a) = d + 1 /\ d \in Nat
      /\ \A i \in 1..(d + 1) : a[i] = Key(Pattern(v.lo)[i])
  BY <1>1, PrefixIs
<1>3. /\ b \in Seq(Segments) /\ Len(b) = d
      /\ \A i \in 1..d : b[i] = Key(Pattern(w.lo)[i])
  BY PrefixIs
<1>4. \A i \in 1..d : Key(Pattern(v.lo)[i]) = Key(Pattern(w.lo)[i])
  BY <1>1 DEF IsCall, Shares, SameSeg
<1>5. Pattern(v.lo)[d + 1] = SegAt(w, k)
  BY <1>1 DEF SegAt
<1>6. Key(SegAt(w, k)) \in Segments
  BY RunSegments, KeyIs
<1> HIDE DEF a, b, d
<1> DEFINE c == Append(b, Key(SegAt(w, k)))
<1>7. /\ c \in Seq(Segments) /\ Len(c) = d + 1
      /\ \A i \in 1..d : c[i] = b[i]
      /\ c[d + 1] = Key(SegAt(w, k))
  BY <1>2, <1>3, <1>6
<1>8. \A i \in 1..(d + 1) : a[i] = c[i]
  <2> TAKE i \in 1..(d + 1)
  <2>1. CASE i = d + 1
    BY <1>2, <1>5, <1>7, <2>1
  <2>2. CASE i \in 1..d
    BY <1>2, <1>3, <1>4, <1>7, <2>2
  <2>3. i = d + 1 \/ i \in 1..d
    BY <1>2
  <2> QED
    BY <2>1, <2>2, <2>3
<1>9. a = c
  <2> HIDE DEF c
  <2>1. a = [i \in 1..(d + 1) |-> a[i]] /\ c = [i \in 1..(d + 1) |-> c[i]]
    BY <1>2, <1>7
  <2> QED
    BY <1>8, <2>1
<1> QED
  BY <1>9 DEF a, b, v

\* Two calls of a method with one prefix are one.
LEMMA OneCallOfPrefix ==
    ASSUME Divided, pc = "tries", NEW v, IsCall(v), NEW w, IsCall(w),
           v.method = w.method, PrefixOf(v) = PrefixOf(w)
    PROVE  v = w
<1>1. v.depth = w.depth
  BY PrefixIs
<1>2. \A d \in 1..w.depth : SameSeg(Pattern(v.lo)[d], Pattern(w.lo)[d])
  BY <1>1, PrefixIs DEF SameSeg
<1> QED
  BY <1>1, <1>2, SameCall

\* A call's prefix is one that routes have.
LEMMA PrefixesOK ==
    ASSUME Divided, pc = "tries", NEW w, IsCall(w)
    PROVE  PrefixOK(PrefixOf(w))
<1> DEFINE p == Pattern(w.lo)
           d == w.depth
           x == PrefixOf(w)
<1>1. /\ w.lo \in 1..Len(order) /\ d \in Nat /\ Len(p) >= d
      /\ p \in Seq(Segments) /\ Len(p) \in Nat /\ IsPattern(p)
  BY CallBegin, OrderIs
<1>2. /\ Len(x) = d
      /\ \A i \in 1..d : x[i] = Key(p[i]) /\ p[i] \in Segments /\ i \in 1..Len(p)
  BY PrefixIs
<1> HIDE DEF p, d, x
<1>3. \A i \in 1..d : x[i].kind = p[i].kind /\ x[i] = Key(x[i])
  BY <1>2, KeyIs
<1>4. Len(x) <= MaxSegments
  BY <1>1, <1>2, LimitsAssumption DEF IsPattern
<1>5. NumParams(x) <= MaxParams
  <2>1. ParamIndices(x) \subseteq ParamIndices(p)
    BY <1>2, <1>3 DEF ParamIndices
  <2>2. IsFiniteSet(ParamIndices(p))
    <3>1. ParamIndices(p) \subseteq 1..Len(p)
      BY DEF ParamIndices
    <3>2. IsFiniteSet(1..Len(p))
      BY <1>1, FS_Interval
    <3> QED
      BY <3>1, <3>2, FS_Subset
  <2>3. /\ IsFiniteSet(ParamIndices(x))
        /\ Cardinality(ParamIndices(x)) <= Cardinality(ParamIndices(p))
    BY <2>1, <2>2, FS_Subset
  <2>4. Cardinality(ParamIndices(x)) \in Nat /\ Cardinality(ParamIndices(p)) \in Nat
    BY <2>2, <2>3, FS_CardinalityType
  <2>5. Cardinality(ParamIndices(p)) <= MaxParams
    BY <1>1 DEF IsPattern, NumParams
  <2> QED
    BY <2>3, <2>4, <2>5, LimitsAssumption DEF NumParams
<1>6. \A i \in 1..Len(x) : x[i].kind = "rest" => i = Len(x)
  <2> SUFFICES ASSUME NEW i \in 1..Len(x), x[i].kind = "rest"
               PROVE  i = Len(x)
    OBVIOUS
  <2>1. i = Len(p)
    BY <1>1, <1>2, <1>3 DEF IsPattern
  <2> QED
    BY <1>1, <1>2, <2>1
<1> QED
  BY <1>2, <1>3, <1>4, <1>5, <1>6 DEF PrefixOK, x

\* What a walk sees of the node of a call.
Viewed(v, w) ==
    /\ DOMAIN v.lit \subseteq Texts \cup {Empty}
    /\ \A x \in DOMAIN v.lit :
           \E k \in 1..Len(LitsOf(w)) :
               x = SegAt(w, k).text /\ IsKid(v.lit[x], w, k, where)
    /\ \A k \in 1..Len(LitsOf(w)) : SegAt(w, k).text \in DOMAIN v.lit
    /\ \A kind \in OtherKinds : v[kind] # None =>
           \E k \in OtherNumbers(w) :
               RunAt(w, k).kind = kind /\ IsKid(v[kind], w, k, where)
    /\ \A k \in OtherNumbers(w) : v[RunAt(w, k).kind] # None
    /\ v.branches = Len(OthersOf(w)) + (IF LitsOf(w) = << >> THEN 0 ELSE 1)
    /\ v.route = IF Len(Pattern(w.lo)) = w.depth THEN entries[order[w.lo]].route ELSE None

\* The runs that are not literal are of the other kinds, each of its own.
LEMMA OtherRunIs ==
    ASSUME Divided, pc = "tries", NEW w, IsCall(w), NEW k \in OtherNumbers(w)
    PROVE  /\ k \in 1..RunCount(w) /\ RunAt(w, k).kind \in OtherKinds
           /\ SegAt(w, k) \in Segments /\ SegAt(w, k).kind = RunAt(w, k).kind
           /\ Key(SegAt(w, k)) = [kind |-> RunAt(w, k).kind, text |-> Empty]
           /\ \A j \in OtherNumbers(w) : RunAt(w, j).kind = RunAt(w, k).kind => j = k
<1>1. ASSUME NEW j \in OtherNumbers(w)
      PROVE  /\ j \in 1..RunCount(w) /\ RunAt(w, j).kind # "literal"
             /\ SegAt(w, j) \in Segments /\ SegAt(w, j).kind = RunAt(w, j).kind
  <2>1. /\ Len(LitsOf(w)) \in Nat /\ RunCount(w) \in Nat
        /\ \A i \in 1..RunCount(w) : RunAt(w, i).kind = "literal" <=> i <= Len(LitsOf(w))
    BY RunNumbers
  <2>2. j \in 1..RunCount(w) /\ ~(j <= Len(LitsOf(w)))
    BY <1>1, <2>1 DEF OtherNumbers
  <2> QED
    BY <2>1, <2>2, RunSegments
<1>2. RunAt(w, k).kind \in OtherKinds
  BY <1>1, SegFields DEF OtherKinds, Kinds
<1>3. ASSUME NEW j \in OtherNumbers(w), RunAt(w, j).kind = RunAt(w, k).kind
      PROVE  j = k
  <2>1. /\ SegAt(w, j) \in Segments /\ SegAt(w, k) \in Segments
        /\ SegAt(w, j).kind = SegAt(w, k).kind /\ SegAt(w, j).kind # "literal"
        /\ j \in 1..RunCount(w) /\ k \in 1..RunCount(w)
    BY <1>1, <1>3
  <2>2. SameSeg(SegAt(w, j), SegAt(w, k))
    BY <2>1, SameSegIs
  <2> QED
    BY <2>1, <2>2, RunSegments
<1>4. Key(SegAt(w, k)) = [kind |-> RunAt(w, k).kind, text |-> Empty]
  BY <1>1 DEF Key
<1> QED
  BY <1>1, <1>2, <1>3, <1>4

\* The fields of a view.
LEMMA ViewFields ==
    ASSUME NEW n, NEW kids, n.kids = kids, kids = [kind \in OtherKinds |-> kids[kind]]
    PROVE  /\ \A kind \in OtherKinds : NodeView(n)[kind] = kids[kind]
           /\ NodeView(n).lit =
                  [t \in {t \in Texts \cup {Empty} : FindEdge(n, t) # None} |-> FindEdge(n, t)]
           /\ NodeView(n).branches = n.branches /\ NodeView(n).route = n.route
BY DEF NodeView, OtherKinds

\* A walk sees each finished node as its call made it.
LEMMA NodesViewed ==
    ASSUME Ended, NEW id \in 1..Len(nodes)
    PROVE  Viewed(NodeView(nodes[id]), where[id])
<1> DEFINE n == nodes[id]
           w == where[id]
           v == NodeView(n)
           texts == {t \in Texts \cup {Empty} : FindEdge(n, t) # None}
<1>1. /\ Divided /\ pc = "tries" /\ IsCall(w) /\ NodeIs(n, w)
      /\ HoldsKids(w, RunCount(w), n.kids, where)
  BY NodesEnd DEF Ended
<1>2. /\ \A kind \in OtherKinds : v[kind] = n.kids[kind]
      /\ v.lit = [t \in texts |-> FindEdge(n, t)]
      /\ v.branches = n.branches /\ v.route = n.route
  BY <1>1, ViewFields DEF HoldsKids
<1>3. /\ \A k \in 1..Len(LitsOf(w)) : IsKid(FindEdge(n, SegAt(w, k).text), w, k, where)
      /\ \A t \in Texts \cup {Empty} : FindEdge(n, t) # None =>
             \E k \in 1..Len(LitsOf(w)) : t = SegAt(w, k).text
  <2>1. n = nodes[id] /\ w = where[id]
    OBVIOUS
  <2> HIDE DEF n, w
  <2> QED
    BY <2>1, EdgeFound
<1>4. DOMAIN v.lit = texts /\ \A x \in texts : v.lit[x] = FindEdge(n, x)
  <2> HIDE DEF v, texts
  <2> QED
    BY <1>2
<1>5. \A x \in DOMAIN v.lit :
          \E k \in 1..Len(LitsOf(w)) :
              x = SegAt(w, k).text /\ IsKid(v.lit[x], w, k, where)
  <2> HIDE DEF v, n, w
  <2> QED
    BY <1>3, <1>4
<1>6. \A k \in 1..Len(LitsOf(w)) : SegAt(w, k).text \in DOMAIN v.lit
  <2> TAKE k \in 1..Len(LitsOf(w))
  <2>1. IsKid(FindEdge(n, SegAt(w, k).text), w, k, where)
    BY <1>3
  <2>2. FindEdge(n, SegAt(w, k).text) # None
    BY <2>1, KidIsNode
  <2>3. SegAt(w, k).text \in Texts \cup {Empty}
    BY <1>1, EdgeTexts
  <2> QED
    BY <1>4, <2>2, <2>3
<1>7. \A kind \in OtherKinds : v[kind] # None =>
          \E k \in OtherNumbers(w) : RunAt(w, k).kind = kind /\ IsKid(v[kind], w, k, where)
  <2> HIDE DEF v, n, w
  <2> QED
    BY <1>1, <1>2 DEF HoldsKids
<1>8. \A k \in OtherNumbers(w) : v[RunAt(w, k).kind] # None
  <2> TAKE k \in OtherNumbers(w)
  <2>1. RunAt(w, k).kind \in OtherKinds /\ k \in 1..RunCount(w) /\ RunCount(w) \in Nat
    BY <1>1, OtherRunIs, RunNumbers
  <2>2. k <= RunCount(w)
    BY <2>1
  <2> HIDE DEF v, n, w
  <2> QED
    BY <1>1, <1>2, <2>1, <2>2 DEF HoldsKids
<1>9. /\ v.branches = Len(OthersOf(w)) + (IF LitsOf(w) = << >> THEN 0 ELSE 1)
      /\ v.route = IF Len(Pattern(w.lo)) = w.depth THEN entries[order[w.lo]].route ELSE None
  <2> HIDE DEF v, n, w
  <2> QED
    BY <1>1, <1>2 DEF NodeIs
<1> HIDE DEF v, n, w
<1>10. Viewed(v, w)
  BY <1>4, <1>5, <1>6, <1>7, <1>8, <1>9 DEF Viewed
<1> QED
  BY <1>10 DEF v, n, w

\* The kinds of a call's children, counted.
LEMMA BranchesCounted ==
    ASSUME Ended, NEW w, IsCall(w), NEW v, Viewed(v, w)
    PROVE  v.branches = Branches(v)
<1>1. /\ Divided /\ pc = "tries"
      /\ List(LitsOf(w)) /\ Len(LitsOf(w)) \in Nat /\ Len(OthersOf(w)) \in Nat
      /\ RunCount(w) = Len(LitsOf(w)) + Len(OthersOf(w))
  BY NodesEnd, RunNumbers DEF Ended, RunCount
<1> DEFINE lits == Len(LitsOf(w))
           c == Len(OthersOf(w))
           N == OtherNumbers(w)
           O == {kind \in OtherKinds : v[kind] # None}
           B == {k \in Kinds : IF k = "literal" THEN DOMAIN v.lit # {} ELSE v[k] # None}
           f == [k \in N |-> RunAt(w, k).kind]
<1>2. N = (lits + 1)..(lits + c)
  BY <1>1 DEF OtherNumbers
<1>3. IsFiniteSet(N) /\ Cardinality(N) = c
  <2> HIDE DEF N, lits, c
  <2>1. lits + 1 \in Int /\ lits + c \in Int /\ c \in Nat /\ lits \in Nat
    BY <1>1 DEF lits, c
  <2>2. /\ IsFiniteSet((lits + 1)..(lits + c))
        /\ Cardinality((lits + 1)..(lits + c)) =
               IF lits + 1 > lits + c THEN 0 ELSE (lits + c) - (lits + 1) + 1
    BY <2>1, FS_Interval
  <2> QED
    BY <1>2, <2>1, <2>2
<1>4. f \in Bijection(N, O)
  <2>1. \A k \in N : RunAt(w, k).kind \in O
    BY <1>1, OtherRunIs DEF Viewed
  <2>2. \A j, k \in N : RunAt(w, j).kind = RunAt(w, k).kind => j = k
    BY <1>1, OtherRunIs
  <2>3. \A kind \in O : \E k \in N : RunAt(w, k).kind = kind
    BY DEF Viewed
  <2> HIDE DEF N, O
  <2>4. f \in [N -> O]
    BY <2>1
  <2>5. f \in Injection(N, O)
    BY <2>2, <2>4 DEF Injection, IsInjective
  <2>6. f \in Surjection(N, O)
    BY <2>3, <2>4 DEF Surjection
  <2> QED
    BY <2>5, <2>6 DEF Bijection
<1>5. IsFiniteSet(O) /\ Cardinality(O) = c
  <2> HIDE DEF f, N, O, c
  <2>1. ExistsBijection(N, O)
    BY <1>4 DEF ExistsBijection
  <2> QED
    BY <1>3, <2>1, FS_Bijection
<1>6. LitsOf(w) = << >> <=> lits = 0
  BY <1>1 DEF List
<1>7. CASE lits = 0
  <2>1. DOMAIN v.lit = {}
    <3>1. 1..lits = {}
      BY <1>7
    <3> QED
      BY <3>1 DEF Viewed
  <2>2. B = O
    BY <2>1 DEF Kinds, OtherKinds
  <2>3. v.branches = c + 0
    BY <1>6, <1>7 DEF Viewed
  <2> HIDE DEF B, O, c
  <2>4. v.branches = Cardinality(B)
    BY <1>1, <1>5, <2>2, <2>3 DEF c
  <2> QED
    BY <2>4 DEF Branches, B
<1>8. CASE lits # 0
  <2>1. DOMAIN v.lit # {}
    <3>1. 1 \in 1..lits
      BY <1>1, <1>8
    <3> QED
      BY <3>1 DEF Viewed
  <2>2. B = O \cup {"literal"} /\ "literal" \notin O
    BY <2>1 DEF Kinds, OtherKinds
  <2>3. v.branches = c + 1
    BY <1>6, <1>8 DEF Viewed
  <2> HIDE DEF B, O, c
  <2>4. Cardinality(B) = Cardinality(O) + 1
    BY <1>5, <2>2, FS_AddElement
  <2>5. v.branches = Cardinality(B)
    BY <1>5, <2>3, <2>4
  <2> QED
    BY <2>5 DEF Branches, B
<1> QED
  BY <1>7, <1>8

\* The nodes of a method, and the parts of its trie.
NodesOf(m) == {id \in 1..Len(nodes) : where[id].method = m}

\* A method's trie is its root and, of each of its nodes, the view and the prefix.
LEMMA TrieParts ==
    ASSUME Ended, NEW m
    PROVE  /\ Nodes(TrieOf(m)) = NodesOf(m)
           /\ TrieOf(m).root = roots[m]
           /\ TrieOf(m).pre = [id \in NodesOf(m) |-> PrefixOf(where[id])]
           /\ \A id \in NodesOf(m) :
                  /\ TrieOf(m).node[id] = NodeView(nodes[id])
                  /\ TrieOf(m).pre[id] = PrefixOf(where[id])
                  /\ Viewed(NodeView(nodes[id]), where[id])
                  /\ IsCall(where[id])
<1>1. DOMAIN nodes = 1..Len(nodes)
  BY NodesEnd DEF List
<1>2. NodesOf(m) = {id \in DOMAIN nodes : where[id].method = m}
  BY <1>1 DEF NodesOf
<1> DEFINE view == [id \in NodesOf(m) |-> NodeView(nodes[id])]
           pre == [id \in NodesOf(m) |-> PrefixOf(where[id])]
<1>3. TrieOf(m) = [root |-> roots[m], node |-> view, pre |-> pre]
  BY <1>2 DEF TrieOf, Prefix, PrefixOf
<1>4. \A id \in NodesOf(m) : Viewed(NodeView(nodes[id]), where[id]) /\ IsCall(where[id])
  BY NodesViewed, NodesEnd DEF NodesOf
<1>5. /\ DOMAIN view = NodesOf(m) /\ \A id \in NodesOf(m) : view[id] = NodeView(nodes[id])
      /\ \A id \in NodesOf(m) : pre[id] = PrefixOf(where[id])
  OBVIOUS
<1> HIDE DEF view
<1>6. TrieOf(m).root = roots[m] /\ TrieOf(m).node = view /\ TrieOf(m).pre = pre
  BY <1>3
<1> QED
  BY <1>4, <1>5, <1>6 DEF Nodes

\* A node's child is a node of the method, under the segment of its run.
LEMMA KidOfNode ==
    ASSUME Ended, NEW m, NEW id \in NodesOf(m), NEW w, w = where[id],
           NEW k \in 1..RunCount(w), NEW c, IsKid(c, w, k, where)
    PROVE  /\ c \in NodesOf(m)
           /\ PrefixOf(where[c]) = Append(PrefixOf(w), Key(SegAt(w, k)))
<1>1. Divided /\ pc = "tries" /\ IsCall(w) /\ w.method = m
  BY NodesEnd DEF Ended, NodesOf
<1>2. c \in 1..Len(nodes) /\ where[c] = CallAt(w, k)
  BY KidIsNode
<1>3. CallAt(w, k).method = m
  BY <1>1, KidIsCall
<1>4. c \in NodesOf(m)
  BY <1>1, <1>2, <1>3 DEF NodesOf
<1> QED
  BY <1>1, <1>2, <1>4, PrefixOfKid

\* The node of a call that some entry ends at has a route, which is that entry's.
LEMMA RouteOfNode ==
    ASSUME Divided, pc = "tries", NEW w, IsCall(w)
    PROVE  /\ order[w.lo] \in TrieEntries /\ order[w.lo] \in DOMAIN specs
           /\ entries[order[w.lo]].route = specs[order[w.lo]].route
           /\ specs[order[w.lo]].route # None
           /\ specs[order[w.lo]].method = w.method
           /\ specs[order[w.lo]].pattern = Pattern(w.lo)
<1> DEFINE x == order[w.lo]
<1>1. x \in TrieEntries /\ entries[x].method = w.method
  BY CallBegin, OrderIs
<1>2. Parsed
  BY DEF Divided
<1>3. x \in 1..Len(entries) /\ entries[x] = EntryOf(x)
  BY <1>1, <1>2, EntriesComparable DEF TrieEntries
<1>4. /\ specs \in SpecLists /\ Len(specs) \in Nat /\ DOMAIN specs = 1..Len(specs)
      /\ Len(entries) \in Nat /\ Len(entries) <= Len(specs)
  BY <1>2, SpecsAssumption DEF Parsed
<1>5. x \in DOMAIN specs /\ x \in 1..Len(specs)
  BY <1>3, <1>4
<1>6. specs[x].route # None
  BY <1>4, <1>5, SpecsAssumption
<1>7. /\ entries[x].route = specs[x].route /\ entries[x].method = specs[x].method
      /\ entries[x].pattern = specs[x].pattern
  BY <1>3 DEF EntryOf
<1> QED
  BY <1>1, <1>5, <1>6, <1>7 DEF Pattern

\* Every node of a trie is well formed.
LEMMA NodesWellFormed ==
    ASSUME Ended, NEW m, NEW id \in NodesOf(m)
    PROVE  NodeOK(TrieOf(m), id)
<1> DEFINE t == TrieOf(m)
           w == where[id]
           v == NodeView(nodes[id])
<1>1. /\ t.node[id] = v /\ Nodes(t) = NodesOf(m) /\ t.pre[id] = PrefixOf(w)
      /\ \A c \in NodesOf(m) : t.pre[c] = PrefixOf(where[c]) /\ t.node[c] = NodeView(nodes[c])
      /\ Viewed(v, w) /\ IsCall(w)
  BY TrieParts
<1>2. Divided /\ pc = "tries" /\ v.branches = Branches(v)
  BY <1>1, BranchesCounted, NodesEnd DEF Ended
<1>3. ASSUME NEW k \in 1..RunCount(w), NEW c, IsKid(c, w, k, where)
      PROVE  c \in Nodes(t) /\ t.pre[c] = Append(t.pre[id], Key(SegAt(w, k)))
  <2>1. w = where[id]
    OBVIOUS
  <2> HIDE DEF w
  <2>2. c \in NodesOf(m) /\ PrefixOf(where[c]) = Append(PrefixOf(w), Key(SegAt(w, k)))
    BY <1>3, <2>1, KidOfNode
  <2> HIDE DEF t
  <2> QED
    BY <1>1, <2>2
<1> HIDE DEF t, w, v
<1>4. \A x \in DOMAIN v.lit :
          v.lit[x] \in Nodes(t) /\ t.pre[v.lit[x]] = Append(t.pre[id], Lit(x))
  <2> TAKE x \in DOMAIN v.lit
  <2>1. PICK k \in 1..Len(LitsOf(w)) : x = SegAt(w, k).text /\ IsKid(v.lit[x], w, k, where)
    BY <1>1 DEF Viewed
  <2>2. k \in 1..RunCount(w) /\ SegAt(w, k) = Lit(x)
    BY <1>1, <1>2, <2>1, EdgeTexts
  <2>3. Key(SegAt(w, k)) = Lit(x)
    BY <2>2 DEF Key, Lit
  <2> QED
    BY <1>3, <2>1, <2>2, <2>3
<1>5. \A k \in OtherKinds : v[k] # None =>
          \E j \in OtherNumbers(w) :
              /\ RunAt(w, j).kind = k /\ j \in 1..RunCount(w) /\ v[k] \in Nodes(t)
              /\ IsKid(v[k], w, j, where)
              /\ t.pre[v[k]] = Append(t.pre[id], [kind |-> k, text |-> Empty])
  <2> SUFFICES ASSUME NEW k \in OtherKinds, v[k] # None
               PROVE  \E j \in OtherNumbers(w) :
                          /\ RunAt(w, j).kind = k /\ j \in 1..RunCount(w) /\ v[k] \in Nodes(t)
                          /\ IsKid(v[k], w, j, where)
                          /\ t.pre[v[k]] = Append(t.pre[id], [kind |-> k, text |-> Empty])
    OBVIOUS
  <2>1. PICK j \in OtherNumbers(w) : RunAt(w, j).kind = k /\ IsKid(v[k], w, j, where)
    BY <1>1 DEF Viewed
  <2>2. j \in 1..RunCount(w) /\ Key(SegAt(w, j)) = [kind |-> k, text |-> Empty]
    BY <1>1, <1>2, <2>1, OtherRunIs
  <2>3. v[k] \in Nodes(t) /\ t.pre[v[k]] = Append(t.pre[id], [kind |-> k, text |-> Empty])
    BY <1>3, <2>1, <2>2
  <2> QED
    BY <2>1, <2>2, <2>3
<1>6. ASSUME v.rest # None
      PROVE  t.node[v.rest].route # None
  <2> DEFINE c == v["rest"]
  <2>0. v.rest = c /\ "rest" \in OtherKinds
    BY DEF OtherKinds
  <2>1. PICK j \in OtherNumbers(w) :
            /\ RunAt(w, j).kind = "rest" /\ j \in 1..RunCount(w) /\ c \in Nodes(t)
            /\ IsKid(c, w, j, where)
    BY <1>5, <1>6, <2>0
  <2> HIDE DEF c
  <2>2. c \in NodesOf(m) /\ t.node[c] = NodeView(nodes[c]) /\ where[c] = CallAt(w, j)
    BY <1>1, <2>1, KidIsNode
  <2> DEFINE u == CallAt(w, j)
  <2>3. IsCall(u) /\ u.lo = RunAt(w, j).from /\ u.depth = w.depth + 1
    BY <1>1, <1>2, <2>1, KidIsCall DEF CallAt
  <2>4. SegAt(w, j).kind = "rest"
    BY <1>1, <1>2, <2>1, OtherRunIs
  <2>5. /\ Pattern(u.lo)[w.depth + 1].kind = "rest"
        /\ u.lo \in 1..Len(order) /\ u.depth \in Nat /\ Len(Pattern(u.lo)) >= u.depth
    BY <1>2, <2>3, <2>4, CallBegin DEF SegAt
  <2>6. Len(Pattern(u.lo)) = u.depth
    <3>1. IsPattern(Pattern(u.lo)) /\ Len(Pattern(u.lo)) \in Nat /\ w.depth \in Nat
      BY <1>1, <1>2, <2>5, OrderIs, CallBegin
    <3>2. w.depth + 1 \in 1..Len(Pattern(u.lo))
      BY <2>3, <2>5, <3>1
    <3> QED
      BY <2>3, <2>5, <3>1, <3>2 DEF IsPattern
  <2>7. Viewed(NodeView(nodes[c]), u)
    BY <2>2, TrieParts
  <2> HIDE DEF u
  <2>8. NodeView(nodes[c]).route = specs[order[u.lo]].route /\ specs[order[u.lo]].route # None
    BY <1>2, <2>3, <2>6, <2>7, RouteOfNode DEF Viewed
  <2> QED
    BY <2>0, <2>2, <2>8
<1>7. Kinds \ {"literal"} = OtherKinds
  BY DEF Kinds, OtherKinds
<1>8. NodeOK(t, id)
  <2>1. DOMAIN v.lit \subseteq Texts \cup {Empty}
    BY <1>1 DEF Viewed
  <2>2. \A k \in Kinds \ {"literal"} : v[k] # None =>
            /\ v[k] \in Nodes(t)
            /\ t.pre[v[k]] = Append(t.pre[id], [kind |-> k, text |-> Empty])
    BY <1>5, <1>7
  <2> QED
    BY <1>1, <1>2, <1>4, <1>6, <2>1, <2>2 DEF NodeOK
<1> QED
  BY <1>8 DEF t

\* The node of a call that is a run of another is among that other's children.
LEMMA KidSeen ==
    ASSUME Ended, NEW p \in 1..Len(nodes), NEW w, w = where[p], NEW k \in 1..RunCount(w),
           NEW id \in 1..Len(nodes), where[id] = CallAt(w, k)
    PROVE  id \in Children(NodeView(nodes[p]))
<1> DEFINE v == NodeView(nodes[p])
<1>1. Divided /\ pc = "tries" /\ IsCall(w) /\ Viewed(v, w) /\ Len(where) = Len(nodes)
  BY NodesEnd, NodesViewed DEF Ended
<1>2. IsKid(id, w, k, where)
  BY <1>1 DEF IsKid
<1> HIDE DEF v
<1>3. k \in 1..Len(LitsOf(w)) \/ k \in OtherNumbers(w)
  <2>1. RunCount(w) \in Nat /\ Len(LitsOf(w)) \in Nat
    BY <1>1, RunNumbers
  <2> QED
    BY <2>1 DEF OtherNumbers
<1>4. CASE k \in 1..Len(LitsOf(w))
  <2> DEFINE x == SegAt(w, k).text
  <2>1. x \in DOMAIN v.lit
    BY <1>1, <1>4 DEF Viewed
  <2>2. PICK j \in 1..Len(LitsOf(w)) : x = SegAt(w, j).text /\ IsKid(v.lit[x], w, j, where)
    BY <1>1, <2>1 DEF Viewed
  <2>3. j = k
    BY <1>1, <1>4, <2>2, LiteralRunIs
  <2>4. v.lit[x] = id
    BY <1>2, <2>2, <2>3, KidIsNode
  <2> HIDE DEF x
  <2>5. id \in Children(v)
    BY <2>1, <2>4 DEF Children
  <2> QED
    BY <2>5 DEF v
<1>5. CASE k \in OtherNumbers(w)
  <2> DEFINE kind == RunAt(w, k).kind
  <2>1. kind \in OtherKinds /\ v[kind] # None
    BY <1>1, <1>5, OtherRunIs DEF Viewed
  <2>2. PICK j \in OtherNumbers(w) : RunAt(w, j).kind = kind /\ IsKid(v[kind], w, j, where)
    BY <1>1, <2>1 DEF Viewed
  <2>3. j = k
    BY <1>1, <1>5, <2>2, OtherRunIs
  <2>4. v[kind] = id
    BY <1>2, <2>2, <2>3, KidIsNode
  <2> HIDE DEF kind
  <2>5. id \in Children(v)
    BY <2>1, <2>4 DEF Children, Kinds, OtherKinds
  <2> QED
    BY <2>5 DEF v
<1> QED
  BY <1>3, <1>4, <1>5

\* A method's root is a call's of depth 0, and the only one of its own.
LEMMA RootIs ==
    ASSUME Ended, NEW m \in Methods
    PROVE  /\ roots[m] # None => roots[m] \in NodesOf(m) /\ where[roots[m]].depth = 0
           /\ \A id \in NodesOf(m) : where[id].depth = 0 => id = roots[m] /\ roots[m] # None
           /\ \A i \in 1..Len(order) : entries[order[i]].method = m => roots[m] # None
<1>1. /\ Rooted(frames, where, roots, lo) /\ Len(where) = Len(nodes)
      /\ Divided /\ pc = "tries" /\ frames = << >> /\ lo > Len(order)
  BY NodesEnd DEF Ended
<1>2. ~(Len(frames) > 0)
  BY <1>1
<1>3. ASSUME roots[m] # None
      PROVE  roots[m] \in NodesOf(m) /\ where[roots[m]].depth = 0
  BY <1>1, <1>3 DEF Rooted, NodesOf
<1>4. ASSUME NEW id \in NodesOf(m), where[id].depth = 0
      PROVE  id = roots[m] /\ roots[m] # None
  <2>1. id \in 1..Len(where) /\ where[id].method = m
    BY <1>1 DEF NodesOf
  <2>2. roots[m] = id
    BY <1>1, <1>2, <1>4, <2>1 DEF Rooted
  <2>3. id \in Nat
    BY <2>1
  <2> QED
    BY <2>2, <2>3, NoneAssumption
<1>5. ASSUME NEW i \in 1..Len(order), entries[order[i]].method = m
      PROVE  roots[m] # None
  <2>1. i < lo
    <3>1. Len(order) \in Nat /\ lo \in Nat
      BY <1>1, OrderIs DEF Ended, Tree, Building
    <3> QED
      BY <1>1, <3>1
  <2>2. PICK id \in 1..Len(where) : where[id].depth = 0 /\ where[id].method = m
    BY <1>1, <1>5, <2>1 DEF Rooted
  <2>3. id \in NodesOf(m)
    BY <1>1, <2>2 DEF NodesOf
  <2> QED
    BY <1>4, <2>2, <2>3
<1> QED
  BY <1>3, <1>4, <1>5

\* A method's trie is well formed, once all are built.
LEMMA TriesWellFormed ==
    ASSUME Ended, NEW m \in Methods, roots[m] # None
    PROVE  TrieOK(TrieOf(m))
<1> DEFINE t == TrieOf(m)
<1>1. /\ Nodes(t) = NodesOf(m) /\ t.root = roots[m]
      /\ t.pre = [id \in NodesOf(m) |-> PrefixOf(where[id])]
      /\ \A id \in NodesOf(m) :
             /\ t.node[id] = NodeView(nodes[id]) /\ t.pre[id] = PrefixOf(where[id])
             /\ IsCall(where[id])
  BY TrieParts
<1>2. /\ Divided /\ pc = "tries" /\ Len(where) = Len(nodes) /\ Parented(frames, where)
      /\ \A a, b \in 1..Len(nodes) : where[a] = where[b] => a = b
  BY NodesEnd DEF Ended
<1>3. \A id \in NodesOf(m) : NodeOK(t, id)
  BY NodesWellFormed
<1>4. NodesOf(m) \subseteq 1..Len(nodes) /\ \A id \in NodesOf(m) : where[id].method = m
  BY DEF NodesOf
<1> HIDE DEF t
<1>5. None \notin Nodes(t)
  BY <1>1, <1>4, NoneAssumption
<1>6. t.root \in Nodes(t) /\ where[t.root].depth = 0
  BY <1>1, RootIs
<1>7. t.pre \in [Nodes(t) -> Seq(Segments)]
  <2>1. \A id \in NodesOf(m) : PrefixOf(where[id]) \in Seq(Segments)
    BY <1>1, <1>2, PrefixIs
  <2> QED
    BY <1>1, <2>1
<1>8. t.pre[t.root] = << >>
  <2>1. PrefixOf(where[t.root]) \in Seq(Segments) /\ Len(PrefixOf(where[t.root])) = 0
    BY <1>1, <1>2, <1>6, PrefixIs
  <2>2. PrefixOf(where[t.root]) = << >>
    BY <2>1
  <2> QED
    BY <1>1, <1>6, <2>2
<1>9. \A id \in Nodes(t) : NodeOK(t, id) /\ PrefixOK(t.pre[id])
  BY <1>1, <1>2, <1>3, PrefixesOK
<1>10. \A a, b \in Nodes(t) : t.pre[a] = t.pre[b] => a = b
  <2> SUFFICES ASSUME NEW a \in Nodes(t), NEW b \in Nodes(t), t.pre[a] = t.pre[b]
               PROVE  a = b
    OBVIOUS
  <2>1. /\ IsCall(where[a]) /\ IsCall(where[b]) /\ where[a].method = where[b].method
        /\ PrefixOf(where[a]) = PrefixOf(where[b])
    BY <1>1, <1>4
  <2>2. where[a] = where[b]
    BY <1>2, <2>1, OneCallOfPrefix
  <2> QED
    BY <1>1, <1>2, <1>4, <2>2
<1>11. NoneLost(t)
  <2> SUFFICES ASSUME NEW id \in Nodes(t) \ {t.root}
               PROVE  \E up \in Nodes(t) : id \in Children(t.node[up])
    BY DEF NoneLost
  <2>1. id \in NodesOf(m) /\ id \in 1..Len(where) /\ id \in 1..Len(nodes)
        /\ where[id].depth # 0
    BY <1>1, <1>2, <1>4, RootIs
  <2>0. PICK p \in 1..Len(where) : \E k \in 1..RunCount(where[p]) : where[id] = CallAt(where[p], k)
    BY <1>2, <2>1 DEF Parented
  <2>2. PICK k \in 1..RunCount(where[p]) : where[id] = CallAt(where[p], k)
    BY <2>0
  <2>3. p \in 1..Len(nodes) /\ IsCall(where[p])
    BY <1>2, NodesEnd
  <2>4. p \in NodesOf(m)
    <3>1. where[p].method = m
      BY <1>2, <1>4, <2>1, <2>2, <2>3, KidIsCall
    <3> QED
      BY <2>3, <3>1 DEF NodesOf
  <2>5. id \in Children(NodeView(nodes[p]))
    <3>1. PICK w : w = where[p]
      OBVIOUS
    <3>2. k \in 1..RunCount(w) /\ where[id] = CallAt(w, k)
      BY <2>2, <3>1
    <3> QED
      BY <2>1, <2>3, <3>1, <3>2, KidSeen
  <2> QED
    BY <1>1, <2>4, <2>5
<1>12. TrieOK(t)
  BY <1>5, <1>6, <1>7, <1>8, <1>9, <1>10, <1>11 DEF TrieOK
<1> QED
  BY <1>12 DEF t

\* A finished node has every child.
LEMMA EveryKidBuilt ==
    ASSUME Ended, NEW p \in 1..Len(nodes), NEW w, w = where[p], NEW k \in 1..RunCount(w)
    PROVE  \E c : IsKid(c, w, k, where)
<1> DEFINE v == NodeView(nodes[p])
<1>1. Divided /\ pc = "tries" /\ IsCall(w) /\ Viewed(v, w)
  BY NodesEnd, NodesViewed DEF Ended
<1> HIDE DEF v
<1>2. k \in 1..Len(LitsOf(w)) \/ k \in OtherNumbers(w)
  <2>1. RunCount(w) \in Nat /\ Len(LitsOf(w)) \in Nat
    BY <1>1, RunNumbers
  <2> QED
    BY <2>1 DEF OtherNumbers
<1>3. CASE k \in 1..Len(LitsOf(w))
  <2>1. PICK n : n = nodes[p]
    OBVIOUS
  <2> QED
    BY <1>3, <2>1, EdgeFound
<1>4. CASE k \in OtherNumbers(w)
  <2> DEFINE kind == RunAt(w, k).kind
  <2>1. kind \in OtherKinds /\ v[kind] # None
    BY <1>1, <1>4, OtherRunIs DEF Viewed
  <2>2. PICK j \in OtherNumbers(w) : RunAt(w, j).kind = kind /\ IsKid(v[kind], w, j, where)
    BY <1>1, <2>1 DEF Viewed
  <2>3. j = k
    BY <1>1, <1>4, <2>2, OtherRunIs
  <2> QED
    BY <2>2, <2>3
<1> QED
  BY <1>2, <1>3, <1>4

\* At every depth up to its own, an entry is among those of a node.
LEMMA EntryReached ==
    ASSUME Ended, NEW j \in 1..Len(order), NEW m, m = entries[order[j]].method
    PROVE  \E id \in NodesOf(m) :
               where[id].depth = Len(Pattern(j)) /\ j \in where[id].lo..(where[id].hi - 1)
<1> DEFINE At(d) == \E id \in NodesOf(m) :
                        where[id].depth = d /\ j \in where[id].lo..(where[id].hi - 1)
           S == {d \in Nat : d <= Len(Pattern(j)) /\ ~At(d)}
<1>1. /\ Divided /\ pc = "tries" /\ m \in Methods /\ Len(Pattern(j)) \in Nat
      /\ Len(where) = Len(nodes)
  BY NodesEnd, OrderIs DEF Ended
<1>2. \A id \in NodesOf(m) : /\ id \in 1..Len(nodes) /\ IsCall(where[id])
                             /\ where[id].method = m
  BY NodesEnd DEF NodesOf
<1>3. At(0)
  <2> DEFINE r == roots[m]
             w == where[r]
  <2>1. r \in NodesOf(m) /\ w.depth = 0
    BY <1>1, RootIs
  <2>2. IsCall(w) /\ w.method = m
    BY <1>2, <2>1
  <2>3. j \in w.lo..(w.hi - 1)
    <3>1. Whole(w)
      BY <2>2 DEF IsCall
    <3>2. \A d \in 1..w.depth : SameSeg(Pattern(j)[d], Pattern(w.lo)[d])
      <4>1. 1..w.depth = {}
        BY <2>1
      <4> QED
        BY <4>1
    <3>3. Len(Pattern(j)) >= w.depth
      BY <1>1, <2>1
    <3> HIDE DEF w
    <3> QED
      BY <2>2, <3>1, <3>2, <3>3 DEF Whole
  <2> QED
    BY <2>1, <2>3
<1>4. ASSUME NEW d \in Nat, d + 1 <= Len(Pattern(j)), At(d)
      PROVE  At(d + 1)
  <2>1. PICK p \in NodesOf(m) : where[p].depth = d /\ j \in where[p].lo..(where[p].hi - 1)
    BY <1>4
  <2>2. PICK w : w = where[p]
    OBVIOUS
  <2>3. IsCall(w) /\ w.depth = d /\ j \in w.lo..(w.hi - 1) /\ p \in 1..Len(nodes)
    BY <1>2, <2>1, <2>2
  <2>4. Len(Pattern(j)) > w.depth
    BY <1>1, <1>4, <2>3
  <2>5. PICK k \in 1..RunCount(w) : j \in RunAt(w, k).from..(RunAt(w, k).to - 1)
    BY <1>1, <2>3, <2>4, RunOfEntry
  <2>6. PICK c : IsKid(c, w, k, where)
    BY <2>2, <2>3, EveryKidBuilt
  <2>7. where[c] = CallAt(w, k)
    BY <2>6 DEF IsKid
  <2>8. c \in NodesOf(m)
    BY <2>1, <2>2, <2>6, KidOfNode
  <2>9. /\ where[c].depth = d + 1 /\ where[c].lo = RunAt(w, k).from
        /\ where[c].hi = RunAt(w, k).to
    BY <2>3, <2>7 DEF CallAt
  <2> QED
    BY <2>5, <2>8, <2>9
<1>5. At(Len(Pattern(j)))
  <2> SUFFICES ASSUME ~At(Len(Pattern(j)))
               PROVE  FALSE
    OBVIOUS
  <2> HIDE DEF At
  <2>1. S \in SUBSET Nat /\ Len(Pattern(j)) \in S
    BY <1>1
  <2>2. PICK d \in S : \A e \in S : d <= e
    BY <2>1, LeastNumber
  <2>3. d \in Nat /\ d # 0 /\ d <= Len(Pattern(j)) /\ ~At(d)
    BY <1>3, <2>2
  <2> DEFINE e == d - 1
  <2>4. e \in Nat /\ e + 1 = d /\ e < d /\ e <= Len(Pattern(j))
    BY <1>1, <2>3
  <2> HIDE DEF e
  <2>5. At(e)
    BY <2>2, <2>3, <2>4
  <2>6. At(e + 1)
    BY <1>4, <2>3, <2>4, <2>5
  <2> QED
    BY <2>3, <2>4, <2>6
<1> QED
  BY <1>5

\* Every entry has a node where its pattern ends.
LEMMA EntryEnds ==
    ASSUME Ended, NEW j \in 1..Len(order), NEW m, m = entries[order[j]].method
    PROVE  \E id \in NodesOf(m) :
               where[id].depth = Len(Pattern(j)) /\ where[id].lo = j
<1>1. PICK id \in NodesOf(m) :
          where[id].depth = Len(Pattern(j)) /\ j \in where[id].lo..(where[id].hi - 1)
  BY EntryReached
<1> DEFINE w == where[id]
<1>2. Divided /\ pc = "tries" /\ IsCall(w)
  BY NodesEnd DEF Ended, NodesOf
<1>3. w.depth = Len(Pattern(j)) /\ j \in w.lo..(w.hi - 1)
  BY <1>1
<1> HIDE DEF w
<1>4. Shares(w.lo, w.hi, w.method, w.depth) /\ w.lo \in Nat /\ w.hi \in Nat
  BY <1>2, CallBegin DEF IsCall
<1>5. /\ Longer(w.lo, w.hi, w.depth) \in {w.lo, w.lo + 1}
      /\ \A i \in Longer(w.lo, w.hi, w.depth)..(w.hi - 1) : Len(Pattern(i)) > w.depth
  BY <1>2, <1>4, LongerIs
<1>6. ~(j \in Longer(w.lo, w.hi, w.depth)..(w.hi - 1))
  <2>1. Len(Pattern(j)) \in Nat
    BY <1>2, OrderIs
  <2> QED
    BY <1>3, <1>5, <2>1
<1>7. j = w.lo
  <2>1. PICK x : x = Longer(w.lo, w.hi, w.depth)
    OBVIOUS
  <2> QED
    BY <1>3, <1>4, <1>5, <1>6, <2>1
<1> QED
  BY <1>1, <1>7 DEF w

\* The routes and the entries, one for one, no two of a method alike.
LEMMA RoutesAre ==
    ASSUME Divided, pc \in {"literals", "tries"}
    PROVE  /\ DOMAIN specs = DOMAIN entries /\ DOMAIN entries = 1..Len(entries)
           /\ \A i \in DOMAIN specs :
                  /\ specs[i].method = entries[i].method
                  /\ specs[i].pattern = entries[i].pattern
                  /\ specs[i].route = entries[i].route
                  /\ specs[i].route # None /\ specs[i].method \in Methods
                  /\ specs[i].pattern \in Seq(Segments) /\ IsPattern(specs[i].pattern)
           /\ \A i, j \in DOMAIN specs :
                  /\ specs[i].method = specs[j].method
                  /\ Keys(specs[i].pattern) = Keys(specs[j].pattern)
                  => i = j
<1>1. /\ Parsed /\ Len(entries) = Len(specs) /\ specs \in SpecLists /\ NoneAlike
  <2>1. Parsed /\ Len(entries) = Len(specs) /\ specs \in SpecLists /\ error = NoError
    BY DEF Divided, Parsed
  <2>2. error.kind = "none" /\ pc # "parse"
    BY <2>1 DEF NoError
  <2>3. NoneAlike
    BY <2>2 DEF Divided
  <2> QED
    BY <2>1, <2>3
<1>2. DOMAIN specs = 1..Len(specs) /\ DOMAIN entries = 1..Len(entries)
  BY <1>1, SpecsAssumption, EntriesComparable
<1>3. \A i \in DOMAIN specs :
          /\ specs[i].method = entries[i].method
          /\ specs[i].pattern = entries[i].pattern
          /\ specs[i].route = entries[i].route
          /\ specs[i].route # None /\ specs[i].method \in Methods
          /\ specs[i].pattern \in Seq(Segments) /\ IsPattern(specs[i].pattern)
  <2> TAKE i \in DOMAIN specs
  <2>1. i \in 1..Len(entries) /\ i \in 1..Len(specs)
    BY <1>1, <1>2
  <2>2. entries[i] = EntryOf(i) /\ IsPattern(entries[i].pattern) /\ entries[i].method \in Methods
    BY <1>1, <2>1, EntriesComparable
  <2>3. specs[i].route # None
    BY <1>1, <2>1, SpecsAssumption
  <2> QED
    BY <2>2, <2>3 DEF EntryOf, IsPattern
<1>4. ASSUME NEW i \in DOMAIN specs, NEW j \in DOMAIN specs,
             specs[i].method = specs[j].method,
             Keys(specs[i].pattern) = Keys(specs[j].pattern)
      PROVE  i = j
  <2>1. /\ Len(specs[i].pattern) = Len(specs[j].pattern)
        /\ \A d \in 1..Len(specs[i].pattern) : SameSeg(specs[i].pattern[d], specs[j].pattern[d])
    BY <1>3, <1>4, SameKeysAlike
  <2>2. Alike(entries[i], entries[j])
    BY <1>3, <1>4, <2>1 DEF Alike
  <2>3. i \in 1..Len(entries) /\ j \in 1..Len(entries)
    BY <1>1, <1>2
  <2> QED
    BY <1>1, <2>2, <2>3 DEF NoneAlike
<1> QED
  BY <1>1, <1>2, <1>3, <1>4

\* The routes of a method by their patterns.
LEMMA RoutesForIs ==
    ASSUME Divided, pc \in {"literals", "tries"}, NEW m
    PROVE  /\ DOMAIN RoutesFor(m) =
                  {Keys(specs[i].pattern) : i \in {j \in DOMAIN specs : specs[j].method = m}}
           /\ RoutesFor(m) = [p \in DOMAIN RoutesFor(m) |-> RoutesFor(m)[p]]
           /\ \A i \in DOMAIN specs : specs[i].method = m =>
                  RoutesFor(m)[Keys(specs[i].pattern)] = specs[i].route
<1> DEFINE mine == {j \in DOMAIN specs : specs[j].method = m}
           D == {Keys(specs[i].pattern) : i \in mine}
           F == [p \in D |-> specs[CHOOSE i \in mine : Keys(specs[i].pattern) = p].route]
<1>1. RoutesFor(m) = F
  BY DEF RoutesFor
<1>2. DOMAIN F = D /\ F = [p \in D |-> F[p]]
  OBVIOUS
<1>3. ASSUME NEW i \in DOMAIN specs, specs[i].method = m
      PROVE  F[Keys(specs[i].pattern)] = specs[i].route
  <2> DEFINE p == Keys(specs[i].pattern)
             c == CHOOSE j \in mine : Keys(specs[j].pattern) = p
  <2>1. i \in mine
    BY <1>3
  <2>2. c \in mine /\ Keys(specs[c].pattern) = p
    BY <2>1
  <2>3. c \in DOMAIN specs /\ specs[c].method = m
    BY <2>2
  <2>4. c = i
    BY <1>3, <2>2, <2>3, RoutesAre
  <2>5. p \in D
    BY <2>1
  <2>6. F[p] = specs[c].route
    BY <2>5
  <2> QED
    BY <2>4, <2>6
<1> QED
  BY <1>1, <1>2, <1>3

\* A method has a trie unless it has no route, or none with a parameter.
LEMMA RootsRight ==
    ASSUME Ended, NEW m \in Methods
    PROVE  roots[m] = None <=> m \in MethodsSeen \ ParamMethods \/ DOMAIN RoutesFor(m) = {}
<1>1. /\ Divided /\ pc = "tries" /\ DOMAIN specs = DOMAIN entries
      /\ DOMAIN entries = 1..Len(entries)
      /\ \A i \in DOMAIN specs : specs[i].method = entries[i].method
  BY NodesEnd, RoutesAre DEF Ended
<1>2. DOMAIN RoutesFor(m) =
          {Keys(specs[i].pattern) : i \in {j \in DOMAIN specs : specs[j].method = m}}
  BY <1>1, RoutesForIs
<1>3. ASSUME roots[m] # None
      PROVE  m \in ParamMethods /\ DOMAIN RoutesFor(m) # {}
  <2>1. roots[m] \in NodesOf(m)
    BY <1>3, RootIs
  <2>2. PICK w : w = where[roots[m]]
    OBVIOUS
  <2>3. IsCall(w) /\ w.method = m
    BY <2>1, <2>2, NodesEnd DEF NodesOf
  <2>4. PICK x : x = order[w.lo]
    OBVIOUS
  <2>5. x \in TrieEntries /\ x \in DOMAIN specs /\ specs[x].method = m
    BY <1>1, <2>3, <2>4, RouteOfNode
  <2>6. entries[x].method \in ParamMethods
    BY <2>5 DEF TrieEntries, Exact
  <2> QED
    BY <1>1, <1>2, <2>5, <2>6
<1>4. ASSUME m \notin MethodsSeen \ ParamMethods, DOMAIN RoutesFor(m) # {}
      PROVE  roots[m] # None
  <2>1. PICK i \in DOMAIN specs : specs[i].method = m
    BY <1>2, <1>4
  <2>2. i \in DOMAIN entries /\ entries[i].method = m
    BY <1>1, <2>1
  <2>3. m \in ParamMethods
    BY <1>4, <2>2 DEF MethodsSeen
  <2>4. i \in TrieEntries
    BY <2>2, <2>3 DEF TrieEntries, Exact
  <2>5. PICK j \in 1..Len(order) : order[j] = i
    BY <1>1, <2>4, OrderIs
  <2> QED
    BY <2>2, <2>5, RootIs
<1> QED
  BY <1>3, <1>4

\* The trie of a method holds its routes.
LEMMA TriesComplete ==
    ASSUME Ended, NEW m \in Methods, roots[m] # None
    PROVE  RoutesOf(TrieOf(m)) = RoutesFor(m)
<1> DEFINE t == TrieOf(m)
           ends == {id \in Nodes(t) : t.node[id].route # None}
           D == {t.pre[id] : id \in ends}
           G == [p \in D |-> t.node[CHOOSE id \in ends : t.pre[id] = p].route]
           R == RoutesFor(m)
<1>1. /\ Nodes(t) = NodesOf(m)
      /\ \A id \in NodesOf(m) :
             /\ t.node[id] = NodeView(nodes[id]) /\ t.pre[id] = PrefixOf(where[id])
             /\ Viewed(NodeView(nodes[id]), where[id]) /\ IsCall(where[id])
             /\ where[id].method = m
  BY TrieParts DEF NodesOf
<1>2. \A a, b \in Nodes(t) : t.pre[a] = t.pre[b] => a = b
  BY TriesWellFormed DEF TrieOK
<1>3. /\ Divided /\ pc = "tries"
      /\ DOMAIN R = {Keys(specs[i].pattern) : i \in {j \in DOMAIN specs : specs[j].method = m}}
      /\ R = [p \in DOMAIN R |-> R[p]]
      /\ \A i \in DOMAIN specs : specs[i].method = m => R[Keys(specs[i].pattern)] = specs[i].route
  BY NodesEnd, RoutesForIs DEF Ended
<1>4. RoutesOf(t) = G
  BY DEF RoutesOf
<1> HIDE DEF t, R
<1>5. ASSUME NEW id \in NodesOf(m), Len(Pattern(where[id].lo)) = where[id].depth
      PROVE  /\ order[where[id].lo] \in DOMAIN specs
             /\ specs[order[where[id].lo]].method = m
             /\ t.pre[id] = Keys(specs[order[where[id].lo]].pattern)
             /\ t.node[id].route = specs[order[where[id].lo]].route /\ id \in ends
  <2> DEFINE w == where[id]
             p == Pattern(w.lo)
             x == order[w.lo]
  <2>1. /\ IsCall(w) /\ Viewed(NodeView(nodes[id]), w) /\ w.method = m /\ Len(p) = w.depth
        /\ t.node[id] = NodeView(nodes[id]) /\ t.pre[id] = PrefixOf(w)
    BY <1>1, <1>5
  <2> HIDE DEF w
  <2>2. /\ x \in DOMAIN specs /\ specs[x].method = m /\ specs[x].route # None
        /\ entries[x].route = specs[x].route /\ specs[x].pattern = p
    BY <1>3, <2>1, RouteOfNode
  <2>3. t.node[id].route = specs[x].route
    BY <2>1, <2>2 DEF Viewed
  <2>4. PrefixOf(w) = Keys(p)
    <3>1. /\ PrefixOf(w) \in Seq(Segments) /\ Len(PrefixOf(w)) = w.depth
          /\ \A i \in 1..w.depth : PrefixOf(w)[i] = Key(p[i])
      BY <1>3, <2>1, PrefixIs
    <3>2. PrefixOf(w) = [i \in 1..Len(p) |-> PrefixOf(w)[i]]
      BY <2>1, <3>1
    <3> HIDE DEF p
    <3>3. PrefixOf(w) = [i \in 1..Len(p) |-> Key(p[i])]
      BY <2>1, <3>1, <3>2
    <3> QED
      BY <3>3 DEF Keys
  <2>5. id \in ends
    BY <1>1, <2>2, <2>3
  <2> QED
    BY <2>1, <2>2, <2>3, <2>4, <2>5 DEF w
<1>6. ASSUME NEW id \in ends
      PROVE  id \in NodesOf(m) /\ Len(Pattern(where[id].lo)) = where[id].depth
  <2>1. id \in NodesOf(m) /\ NodeView(nodes[id]).route # None
    BY <1>1, <1>6
  <2>2. Viewed(NodeView(nodes[id]), where[id])
    BY <1>1, <2>1
  <2> QED
    BY <2>1, <2>2 DEF Viewed
<1>7. ASSUME NEW i \in DOMAIN specs, specs[i].method = m
      PROVE  \E id \in ends : t.pre[id] = Keys(specs[i].pattern) /\ t.node[id].route = specs[i].route
  <2>1. m \in ParamMethods
    <3>1. i \in DOMAIN entries /\ entries[i].method = m
      BY <1>3, <1>7, RoutesAre
    <3>2. m \in MethodsSeen
      BY <3>1 DEF MethodsSeen
    <3> QED
      BY <3>2, RootsRight
  <2>2. i \in DOMAIN entries /\ entries[i].method = m
    BY <1>3, <1>7, RoutesAre
  <2>3. i \in TrieEntries
    BY <2>1, <2>2 DEF TrieEntries, Exact
  <2>4. PICK j \in 1..Len(order) : order[j] = i
    BY <1>3, <2>3, OrderIs
  <2>5. PICK id \in NodesOf(m) : where[id].depth = Len(Pattern(j)) /\ where[id].lo = j
    BY <2>2, <2>4, EntryEnds
  <2>6. Len(Pattern(where[id].lo)) = where[id].depth /\ order[where[id].lo] = i
    BY <2>4, <2>5
  <2> QED
    BY <1>5, <2>6
<1>8. D = DOMAIN R
  <2>1. \A id \in ends : t.pre[id] \in DOMAIN R
    <3> TAKE id \in ends
    <3>1. PICK x \in DOMAIN specs : specs[x].method = m /\ t.pre[id] = Keys(specs[x].pattern)
      BY <1>5, <1>6
    <3> QED
      BY <1>3, <3>1
  <2>2. \A p \in DOMAIN R : p \in D
    <3> TAKE p \in DOMAIN R
    <3>1. PICK i \in DOMAIN specs : specs[i].method = m /\ p = Keys(specs[i].pattern)
      BY <1>3
    <3>2. PICK id \in ends : t.pre[id] = p
      BY <1>7, <3>1
    <3> QED
      BY <3>2
  <2> QED
    BY <2>1, <2>2
<1>9. \A p \in D : G[p] = R[p]
  <2> TAKE p \in D
  <2>1. PICK id \in ends : t.pre[id] = p
    OBVIOUS
  <2> DEFINE c == CHOOSE i \in ends : t.pre[i] = p
  <2>2. c \in ends /\ t.pre[c] = p
    BY <2>1
  <2>3. G[p] = t.node[c].route
    OBVIOUS
  <2> HIDE DEF c
  <2>4. PICK x \in DOMAIN specs : /\ specs[x].method = m /\ t.pre[c] = Keys(specs[x].pattern)
                                  /\ t.node[c].route = specs[x].route
    BY <1>5, <1>6, <2>2
  <2> QED
    BY <1>3, <2>2, <2>3, <2>4
<1>10. G = R
  <2>1. G = [p \in D |-> G[p]]
    OBVIOUS
  <2> HIDE DEF G, D
  <2> QED
    BY <1>3, <1>8, <1>9, <2>1
<1> QED
  BY <1>4, <1>10 DEF t, R

-----------------------------------------------------------------------------
(* The finished exact-match table.                                         *)

\* A pattern without parameters matches its own path alone.
LEMMA LiteralMatches ==
    ASSUME NEW p \in Seq(Segments), IsLiteral(p), NEW path \in Seq(Texts \cup {Empty})
    PROVE  /\ Keys(p) = p
           /\ Matches(p, path) <=> path = PathOf(p)
<1> DEFINE n == Len(p)
<1>1. n \in Nat /\ \A i \in 1..n : p[i] \in Segments /\ p[i].kind = "literal"
  BY DEF IsLiteral, ParamIndices
<1>2. Keys(p) = p
  <2>1. \A i \in 1..n : Key(p[i]) = p[i]
    BY <1>1 DEF Key
  <2>2. p = [i \in 1..n |-> p[i]]
    OBVIOUS
  <2>3. Keys(p) = [i \in 1..n |-> Key(p[i])]
    BY DEF Keys
  <2>4. [i \in 1..n |-> Key(p[i])] = [i \in 1..n |-> p[i]]
    BY <2>1
  <2> QED
    BY <2>2, <2>3, <2>4
<1>3. ~EndsInRest(p)
  <2>1. p # << >> => n \in 1..n
    BY <1>1
  <2> QED
    BY <1>1, <2>1 DEF EndsInRest
<1>4. Matches(p, path) <=> n = Len(path) /\ \A i \in 1..n : path[i] = p[i].text
  <2>1. \A i \in 1..n : SegMatches(p[i], path[i]) <=> path[i] = p[i].text
    BY <1>1 DEF SegMatches
  <2> QED
    BY <1>3, <2>1 DEF Matches
<1>5. path = [i \in 1..Len(path) |-> path[i]] /\ Len(path) \in Nat
  OBVIOUS
<1>6. PathOf(p) = [i \in 1..n |-> p[i].text]
  BY DEF PathOf
<1>7. ASSUME n = Len(path), \A i \in 1..n : path[i] = p[i].text
      PROVE  path = PathOf(p)
  BY <1>5, <1>6, <1>7
<1>8. ASSUME path = PathOf(p)
      PROVE  n = Len(path) /\ \A i \in 1..n : path[i] = p[i].text
  <2>1. DOMAIN path = 1..n /\ DOMAIN path = 1..Len(path)
    BY <1>5, <1>6, <1>8
  <2>2. n = Len(path)
    BY <1>1, <1>5, <2>1
  <2> QED
    BY <1>6, <1>8, <2>2
<1> QED
  BY <1>2, <1>4, <1>7, <1>8

\* The slots of a method's literal paths: a probe for a path stops at an empty slot
\* or at the path's.
LitAt(m, path, j) == slots[Slot(0, Len(slots), pathHash[m, path], j)]

LitStops(m, path, j) ==
    \/ LitAt(m, path, j).route = None
    \/ LitAt(m, path, j).method = m /\ LitAt(m, path, j).path = path

FirstLit(m, path, j) ==
    /\ j \in 0..(Len(slots) - 1) /\ LitStops(m, path, j)
    /\ \A k \in 0..(j - 1) : ~LitStops(m, path, k)

\* A probe for a path of a method always comes to a stop.
LEMMA LiteralProbeStops ==
    ASSUME Exacts, Divided, pc = "tries", NEW m \in MethodsSeen \ ParamMethods, NEW path,
           <<m, path>> \in DOMAIN pathHash
    PROVE  /\ List(slots) /\ Len(slots) > 0 /\ pathHash[m, path] \in Nat
           /\ \E j : FirstLit(m, path, j) /\ FindLiteral(m, path) = LitAt(m, path, j).route
<1> DEFINE size == Len(slots)
           hash == pathHash[m, path]
<1>1. slots # << >>
  <2>1. PICK x \in DOMAIN entries : entries[x].method = m
    BY DEF MethodsSeen
  <2>2. Exact(x)
    BY <2>1 DEF Exact
  <2> QED
    BY <2>1, <2>2 DEF Exacts
<1>2. SlotsOK /\ List(slots) /\ size > 0 /\ size \in Nat
  BY <1>1 DEF Exacts, SlotsOK, List
<1>3. hash \in Nat
  <2>1. pathHash \in PathHashes
    BY DEF Divided, Parsed
  <2>2. pathHash[<<m, path>>] \in Nat
    BY <2>1, HashesAssumption
  <2> QED
    BY <2>2
<1>4. PICK i \in 1..size : slots[i].route = None
  <2>1. DOMAIN slots = 1..size
    BY <1>2 DEF List
  <2> QED
    BY <1>1, <1>2, <2>1, SlotIsFree
<1> HIDE DEF hash
<1>5. PICK j0 \in 0..(size - 1) : ((hash + j0) % size) + 1 = i
  BY <1>2, <1>3, EveryPlaceProbed
<1>6. Slot(0, size, hash, j0) = i
  <2> DEFINE q == (hash + j0) % size
  <2>1. q \in Int
    BY <1>2, <1>3, <1>5, Z3
  <2>2. q + 1 = i
    BY <1>5
  <2>3. Slot(0, size, hash, j0) = 0 + 1 + q
    BY DEF Slot
  <2> HIDE DEF q
  <2> QED
    BY <2>1, <2>2, <2>3
<1>7. LitStops(m, path, j0)
  BY <1>4, <1>6 DEF LitStops, LitAt, hash
<1> DEFINE C == {j \in 0..(size - 1) : LitStops(m, path, j)}
<1>8. PICK j1 \in 0..(size - 1) : j1 \in C /\ \A k \in 0..(j1 - 1) : k \notin C
  <2>1. j0 \in C
    BY <1>7
  <2>2. PICK c \in Nat : c = size
    BY <1>2
  <2> HIDE DEF C
  <2>3. \E j \in 0..(c - 1) : j <= j0 /\ j \in C /\ \A k \in 0..(j - 1) : k \notin C
    BY <2>1, <2>2, FirstBelow
  <2> QED
    BY <2>2, <2>3
<1>9. FirstLit(m, path, j1)
  <2>1. \A k \in 0..(j1 - 1) : k \in 0..(size - 1)
    BY <1>2, <1>8
  <2> QED
    BY <1>8, <2>1 DEF FirstLit
<1> DEFINE J == {j \in 0..(size - 1) : LitStops(m, path, j)
                     /\ \A k \in 0..(j - 1) : ~LitStops(m, path, k)}
           j == CHOOSE k \in J : TRUE
<1>10. j \in J
  BY <1>9 DEF FirstLit
<1>11. FindLiteral(m, path) = slots[Slot(0, Len(slots), pathHash[m, path], j)].route
  BY <1>1 DEF FindLiteral, Steps, LitStops, LitAt
<1>12. FirstLit(m, path, j)
  BY <1>10 DEF FirstLit
<1> HIDE DEF j
<1>13. \E k : FirstLit(m, path, k) /\ FindLiteral(m, path) = LitAt(m, path, k).route
  BY <1>11, <1>12 DEF LitAt
<1> QED
  BY <1>2, <1>3, <1>13 DEF hash

\* The probe finds the route whose path it is, or nothing.
LEMMA LiteralFound ==
    ASSUME Exacts, Divided, pc = "tries", NEW m \in MethodsSeen \ ParamMethods, NEW path,
           <<m, path>> \in DOMAIN pathHash
    PROVE  /\ \A x \in DOMAIN entries :
                  entries[x].method = m /\ PathOf(entries[x].pattern) = path =>
                      FindLiteral(m, path) = entries[x].route
           /\ FindLiteral(m, path) # None =>
                  \E x \in DOMAIN entries :
                      entries[x].method = m /\ PathOf(entries[x].pattern) = path
<1>1. /\ List(slots) /\ Len(slots) > 0 /\ pathHash[m, path] \in Nat /\ Len(slots) \in Nat
      /\ Parsed
  BY LiteralProbeStops DEF List, Divided
<1>2. PICK j : FirstLit(m, path, j) /\ FindLiteral(m, path) = LitAt(m, path, j).route
  BY LiteralProbeStops
<1>3. /\ j \in 0..(Len(slots) - 1) /\ LitStops(m, path, j)
      /\ \A k \in 0..(j - 1) : ~LitStops(m, path, k)
  BY <1>2 DEF FirstLit
<1>4. PICK i \in 1..Len(slots) : LitAt(m, path, j) = slots[i]
  <2> DEFINE hash == pathHash[m, path]
             size == Len(slots)
             at == Slot(0, size, hash, j)
  <2>1. size \in Nat /\ size > 0 /\ hash \in Nat /\ j \in 0..(size - 1)
    BY <1>1, <1>3
  <2>2. LitAt(m, path, j) = slots[at]
    BY DEF LitAt
  <2> SUFFICES \E i \in 1..size : LitAt(m, path, j) = slots[i]
    OBVIOUS
  <2> HIDE DEF hash, size
  <2>3. 0 \in Nat /\ j \in Nat
    BY <2>1
  <2>4. PICK i \in 1..size : at = 0 + i
    BY <2>1, <2>3, SlotIsOne, Zenon
  <2>5. at = i
    BY <2>4
  <2> QED
    BY <2>2, <2>5
<1>5. ASSUME FindLiteral(m, path) # None
      PROVE  \E x \in DOMAIN entries :
                 /\ Exact(x) /\ slots[i] = SlotOf(x)
                 /\ entries[x].method = m /\ PathOf(entries[x].pattern) = path
                 /\ FindLiteral(m, path) = entries[x].route
  <2>1. slots[i].route # None /\ slots[i].method = m /\ slots[i].path = path
    BY <1>2, <1>3, <1>4, <1>5 DEF LitStops
  <2>2. PICK x \in DOMAIN entries : Exact(x) /\ slots[i] = SlotOf(x)
    BY <2>1 DEF Exacts
  <2> QED
    BY <1>2, <1>4, <2>1, <2>2 DEF SlotOf
<1>6. ASSUME NEW x \in DOMAIN entries, entries[x].method = m,
             PathOf(entries[x].pattern) = path
      PROVE  FindLiteral(m, path) = entries[x].route
  <2>1. Exact(x)
    BY <1>6 DEF Exact
  <2>2. HashOf(x) = pathHash[m, path]
    BY <1>6 DEF HashOf
  <2>3. \A k : SlotAt(x, k) = LitAt(m, path, k)
    BY <2>2 DEF SlotAt, LitAt
  <2>4. Placed(x)
    <3>1. ~\E k \in 1..Len(literal) : literal[k] = x
      <4>1. Len(literal) = 0 /\ 1..0 = {}
        BY DEF Exacts
      <4> QED
        BY <4>1
    <3> QED
      BY <2>1, <3>1 DEF Exacts
  <2>5. PICK j0 \in 0..(Len(slots) - 1) :
            /\ LitAt(m, path, j0) = SlotOf(x)
            /\ \A k \in 0..(j0 - 1) : LitAt(m, path, k).route # None
    BY <2>3, <2>4 DEF Placed
  <2>6. LitStops(m, path, j0)
    BY <1>6, <2>5 DEF LitStops, SlotOf
  <2>7. ~(j0 \in 0..(j - 1))
    BY <1>3, <2>6
  <2>8. j = j0 \/ j \in 0..(j0 - 1)
    <3>1. j \in Nat /\ j0 \in Nat
      <4>1. \A c \in Nat : \A n \in 0..(c - 1) : n \in Nat
        OBVIOUS
      <4> QED
        BY <1>1, <1>3, <2>5, <4>1
    <3> QED
      BY <2>7, <3>1
  <2>9. LitAt(m, path, j).route # None
    <3>1. SlotOf(x).route # None
      BY <1>1, <2>1, ExactIs
    <3> QED
      BY <2>5, <2>8, <3>1
  <2>10. PICK y \in DOMAIN entries :
             /\ Exact(y) /\ entries[y].method = m /\ PathOf(entries[y].pattern) = path
             /\ FindLiteral(m, path) = entries[y].route
    BY <1>2, <1>5, <2>9
  <2>11. x = y
    <3>1. /\ x \in DOMAIN specs /\ y \in DOMAIN specs
          /\ specs[x].method = m /\ specs[y].method = m
          /\ specs[x].pattern = entries[x].pattern /\ specs[y].pattern = entries[y].pattern
          /\ specs[x].pattern \in Seq(Segments) /\ specs[y].pattern \in Seq(Segments)
      BY <1>6, <2>10, RoutesAre
    <3>2. IsLiteral(specs[x].pattern) /\ IsLiteral(specs[y].pattern)
      BY <1>1, <2>1, <2>10, <3>1, ExactIs
    <3>3. specs[x].pattern = specs[y].pattern
      <4> DEFINE p == specs[x].pattern
                 q == specs[y].pattern
      <4>1. /\ p \in Seq(Segments) /\ q \in Seq(Segments) /\ IsLiteral(p) /\ IsLiteral(q)
            /\ PathOf(p) = PathOf(q)
        BY <1>6, <2>10, <3>1, <3>2
      <4> HIDE DEF p, q
      <4>2. Len(p) = Len(q)
        <5>1. DOMAIN PathOf(p) = 1..Len(p) /\ DOMAIN PathOf(q) = 1..Len(q)
          BY DEF PathOf
        <5> QED
          BY <4>1, <5>1
      <4>3. \A d \in 1..Len(p) : p[d] = q[d]
        <5> TAKE d \in 1..Len(p)
        <5>1. p[d].text = q[d].text
          <6>1. PathOf(p)[d] = p[d].text /\ PathOf(q)[d] = q[d].text
            BY <4>2 DEF PathOf
          <6> QED
            BY <4>1, <6>1
        <5>2. /\ p[d] \in Segments /\ q[d] \in Segments
              /\ p[d].kind = "literal" /\ q[d].kind = "literal"
          BY <4>1, <4>2 DEF IsLiteral, ParamIndices
        <5> QED
          BY <5>1, <5>2 DEF Segments
      <4>4. p = [d \in 1..Len(p) |-> p[d]] /\ q = [d \in 1..Len(q) |-> q[d]]
        BY <4>1
      <4>5. p = q
        BY <4>2, <4>3, <4>4
      <4> QED
        BY <4>5 DEF p, q
    <3> QED
      BY <3>1, <3>3, RoutesAre
  <2> QED
    BY <2>10, <2>11
<1> QED
  BY <1>5, <1>6

-----------------------------------------------------------------------------
(* The finished table.                                                     *)

\* What TableComplete says of a method.
MethodComplete(m) ==
    LET rs == RoutesFor(m)
        exact == m \in MethodsSeen \ ParamMethods
    IN  /\ roots[m] = None <=> exact \/ DOMAIN rs = {}
        /\ roots[m] # None =>
               /\ TrieOK(TrieOf(m))
               /\ RoutesOf(TrieOf(m)) = rs
        /\ LET literals == IF exact THEN DOMAIN rs ELSE {}
           IN  \A path \in {p \in DOMAIN pathHash : p[1] = m} :
                   FindLiteral(m, path[2]) =
                       IF \E p \in literals : Matches(p, path[2])
                       THEN rs[CHOOSE p \in literals : Matches(p, path[2])]
                       ELSE None

\* The route of the pattern of a set that matches a path.
RouteAmong(m, literals, path) ==
    IF \E p \in literals : Matches(p, path)
    THEN RoutesFor(m)[CHOOSE p \in literals : Matches(p, path)]
    ELSE None

\* The exact-match table of a method answers for its routes, or for none.
LEMMA LiteralsRight ==
    ASSUME Ended, Exacts, NEW m \in Methods, NEW literals,
           literals = IF m \in MethodsSeen \ ParamMethods THEN DOMAIN RoutesFor(m) ELSE {},
           NEW path \in Seq(Texts \cup {Empty}), <<m, path>> \in DOMAIN pathHash
    PROVE  FindLiteral(m, path) = RouteAmong(m, literals, path)
<1>1. Divided /\ Parsed /\ pc = "tries"
  BY NodesEnd DEF Ended, Divided
<1>2. CASE m \notin MethodsSeen \ ParamMethods
  <2>1. FindLiteral(m, path) = None
    BY <1>2 DEF FindLiteral, Steps
  <2>2. literals = {}
    BY <1>2
  <2> QED
    BY <2>1, <2>2 DEF RouteAmong
<1>3. CASE m \in MethodsSeen \ ParamMethods
  <2>1. /\ literals = {Keys(specs[i].pattern) : i \in {j \in DOMAIN specs : specs[j].method = m}}
        /\ \A i \in DOMAIN specs : specs[i].method = m =>
               RoutesFor(m)[Keys(specs[i].pattern)] = specs[i].route
    BY <1>1, <1>3, RoutesForIs
  <2>2. ASSUME NEW i \in DOMAIN specs, specs[i].method = m
        PROVE  /\ Keys(specs[i].pattern) = specs[i].pattern
               /\ Matches(specs[i].pattern, path) <=> path = PathOf(specs[i].pattern)
    <3>1. /\ i \in DOMAIN entries /\ entries[i].method = m
          /\ specs[i].pattern = entries[i].pattern /\ specs[i].pattern \in Seq(Segments)
      BY <1>1, <2>2, RoutesAre
    <3>2. Exact(i)
      BY <1>3, <3>1 DEF Exact
    <3>3. IsLiteral(specs[i].pattern)
      BY <1>1, <3>1, <3>2, ExactIs
    <3> QED
      BY <3>1, <3>3, LiteralMatches
  <2>3. CASE \E p \in literals : Matches(p, path)
    <3> DEFINE c == CHOOSE p \in literals : Matches(p, path)
    <3>1. c \in literals /\ Matches(c, path)
      BY <2>3
    <3> HIDE DEF c
    <3>2. PICK i \in DOMAIN specs : specs[i].method = m /\ c = Keys(specs[i].pattern)
      BY <2>1, <3>1
    <3>3. path = PathOf(specs[i].pattern)
      BY <2>2, <3>1, <3>2
    <3>4. /\ i \in DOMAIN entries /\ entries[i].method = m
          /\ PathOf(entries[i].pattern) = path /\ entries[i].route = specs[i].route
      BY <1>1, <3>2, <3>3, RoutesAre
    <3>5. FindLiteral(m, path) = specs[i].route
      BY <1>1, <1>3, <3>4, LiteralFound
    <3>6. RoutesFor(m)[c] = specs[i].route
      BY <2>1, <3>2
    <3> QED
      BY <2>3, <3>5, <3>6 DEF c, RouteAmong
  <2>4. CASE ~\E p \in literals : Matches(p, path)
    <3>1. FindLiteral(m, path) = None
      <4> SUFFICES ASSUME FindLiteral(m, path) # None
                   PROVE  FALSE
        OBVIOUS
      <4>1. PICK x \in DOMAIN entries :
                entries[x].method = m /\ PathOf(entries[x].pattern) = path
        BY <1>1, <1>3, LiteralFound
      <4>2. /\ x \in DOMAIN specs /\ specs[x].method = m
            /\ specs[x].pattern = entries[x].pattern
        BY <1>1, <4>1, RoutesAre
      <4>3. Keys(specs[x].pattern) \in literals /\ Matches(Keys(specs[x].pattern), path)
        <5>1. Keys(specs[x].pattern) \in literals
          BY <2>1, <4>2
        <5>2. Matches(specs[x].pattern, path) /\ Keys(specs[x].pattern) = specs[x].pattern
          BY <2>2, <4>1, <4>2
        <5> QED
          BY <5>1, <5>2
      <4> QED
        BY <2>4, <4>3
    <3> QED
      BY <2>4, <3>1 DEF RouteAmong
  <2> QED
    BY <2>3, <2>4
<1> QED
  BY <1>2, <1>3

\* When all is built, each method's answers are its routes'.
LEMMA MethodsComplete ==
    ASSUME Ended, Exacts, NEW m \in Methods
    PROVE  MethodComplete(m)
<1>1. roots[m] = None <=> m \in MethodsSeen \ ParamMethods \/ DOMAIN RoutesFor(m) = {}
  BY RootsRight
<1>2. roots[m] # None => TrieOK(TrieOf(m)) /\ RoutesOf(TrieOf(m)) = RoutesFor(m)
  BY TriesWellFormed, TriesComplete
<1>3. pathHash \in PathHashes
  BY NodesEnd DEF Divided, Parsed
<1> DEFINE literals == IF m \in MethodsSeen \ ParamMethods THEN DOMAIN RoutesFor(m) ELSE {}
<1>4. ASSUME NEW x \in DOMAIN pathHash, x[1] = m
      PROVE  FindLiteral(m, x[2]) = RouteAmong(m, literals, x[2])
  <2>1. x \in Nat \X Seq(Texts \cup {Empty})
    BY <1>3, HashesAssumption
  <2>2. PICK path \in Seq(Texts \cup {Empty}) : x = <<m, path>>
    BY <1>4, <2>1
  <2>3. x[2] = path /\ <<m, path>> \in DOMAIN pathHash
    BY <2>2
  <2> QED
    BY <2>3, LiteralsRight
<1> QED
  BY <1>1, <1>2, <1>4 DEF MethodComplete, RouteAmong

\* The last step changes nothing that the answers rest on.
LEMMA CompleteRests ==
    ASSUME UNCHANGED <<specs, edgeHash, pathHash, entries, order, slots, nodes, edges,
                       roots, where>>, NEW m, MethodComplete(m)
    PROVE  MethodComplete(m)'
<1>1. RoutesFor(m)' = RoutesFor(m)
  BY DEF RoutesFor
<1>2. MethodsSeen' = MethodsSeen /\ ParamMethods' = ParamMethods
  BY DEF MethodsSeen, ParamMethods
<1>3. \A path : FindLiteral(m, path)' = FindLiteral(m, path)
  BY <1>2 DEF FindLiteral, Steps
<1>4. \A n, text : FindEdge(n, text)' = FindEdge(n, text)
  BY DEF FindEdge, Steps
<1>5. \A n : NodeView(n)' = NodeView(n)
  BY <1>4 DEF NodeView
<1>6. \A id : Prefix(id)' = Prefix(id)
  BY DEF Prefix, Pattern
<1>7. TrieOf(m)' = TrieOf(m)
  BY <1>5, <1>6 DEF TrieOf
<1> QED
  BY <1>1, <1>2, <1>3, <1>7 DEF MethodComplete

\* A finished table answers for exactly the routes it was given: find_edge and
\* find_literal, the roots and the nodes that build_table lays out.
THEOREM EveryTableIsComplete == Spec => []TableComplete
<1> DEFINE Inv == Tree /\ Exacts /\ TableComplete
<1>1. TableComplete <=> (Built => \A m \in Methods : MethodComplete(m))
  BY DEF TableComplete, MethodComplete
<1>2. Init => Inv
  <2> SUFFICES ASSUME Init
               PROVE  Inv
    OBVIOUS
  <2>1. ~Built
    BY DEF Init, Built, Done
  <2> QED
    BY <2>1, TreeInit, ExactsInit DEF TableComplete
<1>3. Inv /\ [Next]_vars => Inv'
  <2> SUFFICES ASSUME Inv, [Next]_vars
               PROVE  Inv'
    OBVIOUS
  <2>1. Tree' /\ Exacts'
    BY TreeStep, ExactsStep
  <2>2. CASE UNCHANGED vars
    <3>1. /\ UNCHANGED <<specs, edgeHash, pathHash, entries, order, slots, nodes, edges,
                         roots, where>>
          /\ UNCHANGED <<pc, error>>
      BY <2>2 DEF vars
    <3>2. Built' <=> Built
      BY <3>1 DEF Built, Done
    <3>3. Built' => \A m \in Methods : MethodComplete(m)'
      BY <1>1, <3>1, <3>2, CompleteRests
    <3>4. TableComplete'
      BY <3>3 DEF TableComplete, MethodComplete, Methods
    <3> QED
      BY <2>1, <3>4
  <2>3. CASE Finish
    <3>1. CASE UNCHANGED error
      <4>1. /\ UNCHANGED <<specs, edgeHash, pathHash, entries, order, slots, nodes, edges,
                           roots, where>>
            /\ Ended
        BY <2>3 DEF Finish, Ended
      <4>2. \A m \in Methods : MethodComplete(m)'
        BY <4>1, MethodsComplete, CompleteRests
      <4>3. TableComplete'
        BY <4>2 DEF TableComplete, MethodComplete, Methods
      <4> QED
        BY <2>1, <4>3
    <3>2. CASE error'.kind = "size"
      BY <2>1, <3>2 DEF TableComplete, Built
    <3> QED
      BY <2>3, <3>1, <3>2 DEF Finish, Fail
  <2>4. CASE ParseSpec \/ Split
    <3>1. ~Built'
      <4>1. CASE ParseSpec
        <5>1. pc' # "done" \/ error'.kind = "method" \/ error'.kind = "pattern"
          BY <4>1 DEF ParseSpec, Fail
        <5> QED
          BY <5>1 DEF Built, Done
      <4>2. CASE Split
        <5>1. Parsed
          BY DEF Tree, Building, Divided
        <5>2. pc' # "done" \/ error'.kind = "duplicate"
          BY <4>2, <5>1, SplitFinds
        <5> QED
          BY <5>2 DEF Built, Done
      <4> QED
        BY <2>4, <4>1, <4>2
    <3> QED
      BY <2>1, <3>1 DEF TableComplete
  <2>5. CASE InsertLiteral \/ LiteralsDone \/ StartTrie \/ BuildChild \/ Return
    <3>1. pc' # "done"
      <4>1. Building
        BY DEF Tree
      <4> QED
        BY <2>5, <4>1 DEF InsertLiteral, LiteralsDone, StartTrie, BuildChild, Return, Building
    <3> QED
      BY <2>1, <3>1 DEF TableComplete, Built, Done
  <2> QED
    BY <2>2, <2>3, <2>4, <2>5 DEF Next
<1>4. Inv => TableComplete
  OBVIOUS
<1> HIDE DEF Inv
<1> QED
  BY <1>2, <1>3, <1>4, PTL DEF Spec
=============================================================================

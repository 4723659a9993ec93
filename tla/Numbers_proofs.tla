--------------------------- MODULE Numbers_proofs ---------------------------
(***************************************************************************)
(* Induction on numbers, in the form the proofs of this project use it;    *)
(* the places of the members of an ordered finite set; and the values of   *)
(* texts of digits.                                                        *)
(***************************************************************************)
EXTENDS DecimalTexts, FiniteSets, Functions, WellFoundedInduction, FiniteSetTheorems, TLAPS

SmallerFirst == {p \in Nat \X Nat : p[1] < p[2]}

\* A set of numbers has a least one: how the other modules reason by induction.
LEMMA LeastNumber ==
    ASSUME NEW T \in SUBSET Nat, T # {}
    PROVE  \E x \in T : \A y \in T : x <= y
<1>1. IsWellFoundedOn(SmallerFirst, Nat)
  BY ONLY NatLessThanWellFounded, Zenon DEF OpToRel, SmallerFirst
<1>2. PICK x \in T : \A y \in T : <<y, x>> \notin SmallerFirst
  BY <1>1, WFMin
<1>3. ASSUME NEW y \in T
      PROVE  x <= y
  <2>1. x \in Nat /\ y \in Nat /\ <<y, x>> \notin SmallerFirst
    BY <1>2
  <2>2. ~(y < x)
    BY <2>1 DEF SmallerFirst
  <2> QED
    BY <2>1, <2>2
<1> QED
  BY <1>3

\* The members of S that an order R, a set of pairs, has before x.
Preceding(S, R, x) == {y \in S : <<y, x>> \in R}

\* R orders S: each two members one way only, and transitively.
IsOrder(R, S) ==
    /\ \A x \in S : <<x, x>> \notin R
    /\ \A x, y \in S : x # y => <<x, y>> \in R \/ <<y, x>> \in R
    /\ \A x, y, z \in S : <<x, y>> \in R /\ <<y, z>> \in R => <<x, z>> \in R

\* In an ordered finite set every place is some member's, by the number of those
\* before it.
LEMMA Places ==
    ASSUME NEW S, IsFiniteSet(S), NEW R, IsOrder(R, S)
    PROVE  /\ Cardinality(S) \in Nat
           /\ \A x \in S : Cardinality(Preceding(S, R, x)) \in 0..(Cardinality(S) - 1)
           /\ \A x, y \in S :
                  <<x, y>> \in R <=> Cardinality(Preceding(S, R, x)) < Cardinality(Preceding(S, R, y))
           /\ \A k \in 1..Cardinality(S) : \E x \in S : Cardinality(Preceding(S, R, x)) = k - 1
<1> DEFINE n == Cardinality(S)
           Place(x) == Cardinality(Preceding(S, R, x))
<1>1. n \in Nat
  BY FS_CardinalityType
<1>2. ASSUME NEW x \in S
      PROVE  /\ IsFiniteSet(Preceding(S, R, x)) /\ Place(x) \in Nat
             /\ Place(x) \in 0..(n - 1)
  <2>1. Preceding(S, R, x) \in SUBSET S
    BY DEF Preceding
  <2>2. IsFiniteSet(Preceding(S, R, x)) /\ Place(x) <= n /\ (n = Place(x) => S = Preceding(S, R, x))
    BY <2>1, FS_Subset
  <2>3. Place(x) \in Nat
    BY <2>2, FS_CardinalityType
  <2>4. x \notin Preceding(S, R, x)
    BY DEF Preceding, IsOrder
  <2>5. Place(x) # n
    BY <2>2, <2>4
  <2> HIDE DEF Place, n
  <2> QED
    BY <1>1, <2>2, <2>3, <2>5
<1>3. ASSUME NEW x \in S, NEW y \in S, <<x, y>> \in R
      PROVE  Place(x) < Place(y)
  <2>1. Preceding(S, R, x) \in SUBSET Preceding(S, R, y)
    BY <1>3 DEF Preceding, IsOrder
  <2>2. x \in Preceding(S, R, y) /\ x \notin Preceding(S, R, x)
    BY <1>3 DEF Preceding, IsOrder
  <2>3. /\ Place(x) <= Place(y)
        /\ Place(y) = Place(x) => Preceding(S, R, y) = Preceding(S, R, x)
    BY <1>2, <2>1, FS_Subset
  <2>4. Place(y) # Place(x)
    BY <2>2, <2>3
  <2>5. Place(x) \in Nat /\ Place(y) \in Nat
    BY <1>2
  <2> HIDE DEF Place
  <2> QED
    BY <2>3, <2>4, <2>5
<1>4. ASSUME NEW x \in S, NEW y \in S, <<x, y>> \notin R
      PROVE  ~(Place(x) < Place(y))
  <2>1. CASE x = y
    <3>1. Place(x) \in Nat
      BY <1>2
    <3> QED
      BY <2>1, <3>1
  <2>2. CASE x # y
    <3>1. Place(y) < Place(x)
      BY <1>3, <1>4, <2>2 DEF IsOrder
    <3>2. Place(x) \in Nat /\ Place(y) \in Nat
      BY <1>2
    <3> HIDE DEF Place
    <3> QED
      BY <3>1, <3>2
  <2> QED
    BY <2>1, <2>2
<1>5. \A k \in 1..n : \E x \in S : Place(x) = k - 1
  <2> DEFINE f == [x \in S |-> Place(x) + 1]
  <2>1. f \in Injection(S, 1..n)
    <3>1. ASSUME NEW x \in S
          PROVE  Place(x) + 1 \in 1..n
      <4>1. Place(x) \in 0..(n - 1)
        BY <1>2
      <4> HIDE DEF Place, n
      <4> QED
        BY <1>1, <4>1
    <3>2. ASSUME NEW x \in S, NEW y \in S, x # y
          PROVE  Place(x) + 1 # Place(y) + 1
      <4>1. Place(x) \in Nat /\ Place(y) \in Nat
        BY <1>2
      <4>2. Place(x) < Place(y) \/ Place(y) < Place(x)
        BY <1>3, <3>2 DEF IsOrder
      <4> HIDE DEF Place
      <4> QED
        BY <4>1, <4>2
    <3> HIDE DEF Place, n
    <3> QED
      BY <3>1, <3>2 DEF Injection, IsInjective
  <2>2. IsFiniteSet(1..n) /\ Cardinality(1..n) = n
    <3> HIDE DEF n
    <3>1. 1 \in Int /\ n \in Int
      BY <1>1
    <3>2. IsFiniteSet(1..n) /\ Cardinality(1..n) = IF 1 > n THEN 0 ELSE n - 1 + 1
      BY <3>1, FS_Interval
    <3> QED
      BY <1>1, <3>2
  <2>3. f \in Surjection(S, 1..n)
    BY <2>1, <2>2, FS_Injection
  <2>4. ASSUME NEW k \in 1..n
        PROVE  \E x \in S : Place(x) = k - 1
    <3>1. PICK x \in S : f[x] = k
      BY <2>3 DEF Surjection
    <3>2. Place(x) \in Nat /\ Place(x) + 1 = k
      BY <1>2, <3>1
    <3> HIDE DEF Place
    <3> QED
      BY <3>2
  <2> QED
    BY <2>4
<1> QED
  BY <1>1, <1>2, <1>3, <1>4, <1>5

-----------------------------------------------------------------------------
(* Texts of digits.                                                        *)

\* What the first k digits of a text are worth, for each k.
DigitsRead(v, s, n) ==
    /\ v \in [0..n -> Int]
    /\ v[0] = 0
    /\ \A k \in 1..n : v[k] = 10 * v[k - 1] + s[k] - 48

\* A text has a value: the recursion that defines it has a solution.
LEMMA ValueIs ==
    ASSUME NEW s \in Seq(Int)
    PROVE  \E v : DigitsRead(v, s, Len(s)) /\ ValueOf(s) = v[Len(s)]
<1> DEFINE n == Len(s)
           T == {m \in 0..n : ~\E v : DigitsRead(v, s, m)}
<1>1. n \in Nat /\ \A k \in 1..n : s[k] \in Int
  OBVIOUS
<1> HIDE DEF n
<1>2. \E v : DigitsRead(v, s, 0)
  <2>1. DigitsRead([k \in 0..0 |-> 0], s, 0)
    BY DEF DigitsRead
  <2> QED
    BY <2>1
<1>3. ASSUME NEW m \in 1..n, NEW v, DigitsRead(v, s, m - 1)
      PROVE  \E w : DigitsRead(w, s, m)
  <2> DEFINE x == 10 * v[m - 1] + s[m] - 48
             w == [k \in 0..m |-> IF k = m THEN x ELSE v[k]]
  <2>1. m \in Nat /\ m - 1 \in 0..(m - 1)
    BY <1>1
  <2>2. v[m - 1] \in Int /\ s[m] \in Int
    BY <1>1, <1>3, <2>1 DEF DigitsRead
  <2>3. x \in Int
    BY <2>2
  <2> HIDE DEF x
  <2>4. \A k \in 0..m : w[k] = IF k = m THEN x ELSE v[k]
    OBVIOUS
  <2>5. w \in [0..m -> Int]
    <3>1. \A k \in 0..m : k # m => k \in 0..(m - 1)
      BY <2>1
    <3> QED
      BY <1>3, <2>3, <3>1 DEF DigitsRead
  <2> HIDE DEF w
  <2>6. w[0] = 0
    BY <1>3, <2>1, <2>4 DEF DigitsRead
  <2>7. ASSUME NEW k \in 1..m
        PROVE  w[k] = 10 * w[k - 1] + s[k] - 48
    <3>1. k \in 0..m /\ k - 1 \in 0..m /\ k - 1 # m
      BY <2>1
    <3>2. w[k - 1] = v[k - 1]
      BY <2>4, <3>1
    <3>3. CASE k = m
      BY <2>4, <3>1, <3>2, <3>3 DEF x
    <3>4. CASE k # m
      <4>1. k \in 1..(m - 1)
        BY <2>1, <3>4
      <4> QED
        BY <1>3, <2>4, <3>1, <3>2, <3>4, <4>1 DEF DigitsRead
    <3> QED
      BY <3>3, <3>4
  <2> QED
    BY <2>5, <2>6, <2>7 DEF DigitsRead
<1>4. \A m \in 0..n : \E v : DigitsRead(v, s, m)
  <2>1. SUFFICES ASSUME T # {} PROVE FALSE
    OBVIOUS
  <2>2. T \in SUBSET Nat
    BY <1>1
  <2>3. PICK m \in T : \A k \in T : m <= k
    BY <2>1, <2>2, LeastNumber
  <2>4. m # 0
    BY <1>2, <2>3
  <2>5. m \in 1..n /\ m - 1 \in 0..n /\ ~(m <= m - 1)
    BY <1>1, <2>3, <2>4
  <2>6. PICK v : DigitsRead(v, s, m - 1)
    BY <2>3, <2>5
  <2>7. \E w : DigitsRead(w, s, m)
    BY <1>3, <2>5, <2>6
  <2> QED
    BY <2>3, <2>7
<1> DEFINE Eq(u) == u = [k \in 0..n |-> IF k = 0 THEN 0 ELSE 10 * u[k - 1] + s[k] - 48]
           upTo == CHOOSE u : Eq(u)
<1>5. PICK v : DigitsRead(v, s, n)
  BY <1>1, <1>4
<1>6. Eq(v)
  <2>1. ASSUME NEW k \in 0..n
        PROVE  v[k] = IF k = 0 THEN 0 ELSE 10 * v[k - 1] + s[k] - 48
    <3>1. k = 0 \/ k \in 1..n
      BY <1>1
    <3> QED
      BY <1>5, <3>1 DEF DigitsRead
  <2> QED
    BY <1>5, <2>1 DEF DigitsRead
<1>7. Eq(upTo)
  BY <1>6
<1>8. ValueOf(s) = upTo[n]
  BY DEF ValueOf, n
<1> HIDE DEF upTo
<1>9. \A k \in 0..n : upTo[k] = IF k = 0 THEN 0 ELSE 10 * upTo[k - 1] + s[k] - 48
  BY <1>7
<1> DEFINE u == [k \in 0..n |-> v[k]]
<1>10. ASSUME NEW k \in 0..n
       PROVE  upTo[k] = v[k]
  <2> DEFINE D == {j \in 0..n : upTo[j] # v[j]}
  <2>1. SUFFICES ASSUME D # {} PROVE FALSE
    OBVIOUS
  <2>2. D \in SUBSET Nat
    BY <1>1
  <2>3. PICK j \in D : \A i \in D : j <= i
    BY <2>1, <2>2, LeastNumber
  <2>4. j # 0
    BY <1>5, <1>9, <2>3 DEF DigitsRead
  <2>5. j \in 1..n /\ j - 1 \in 0..n /\ ~(j <= j - 1)
    BY <1>1, <2>3, <2>4
  <2>6. upTo[j - 1] = v[j - 1]
    BY <2>3, <2>5
  <2>7. upTo[j] = v[j]
    BY <1>5, <1>9, <2>3, <2>4, <2>5, <2>6 DEF DigitsRead
  <2> QED
    BY <2>3, <2>7
<1>11. n \in 0..n
  BY <1>1
<1> QED
  BY <1>5, <1>8, <1>10, <1>11 DEF n

\* A text of digits is worth a natural number, as are its first digits.
LEMMA ReadsNat ==
    ASSUME NEW n \in Nat, NEW s, NEW v, DigitsRead(v, s, n),
           \A k \in 1..n : s[k] \in DigitBytes
    PROVE  \A k \in 0..n : v[k] \in Nat
<1> DEFINE T == {k \in 0..n : v[k] \notin Nat}
<1>1. SUFFICES ASSUME T # {} PROVE FALSE
  OBVIOUS
<1>2. PICK j \in T : \A i \in T : j <= i
  <2>1. T \in SUBSET Nat
    OBVIOUS
  <2> QED
    BY <1>1, <2>1, LeastNumber
<1>3. j # 0
  BY <1>2 DEF DigitsRead
<1>4. j \in 1..n /\ j - 1 \in 0..n /\ ~(j <= j - 1)
  BY <1>2, <1>3
<1>5. v[j - 1] \in Nat /\ s[j] \in 48..57
  BY <1>2, <1>4 DEF DigitBytes
<1>6. v[j] = 10 * v[j - 1] + s[j] - 48
  BY <1>4 DEF DigitsRead
<1>7. v[j] \in Nat
  BY <1>5, <1>6
<1> QED
  BY <1>2, <1>7

\* Texts of one length are in the order of what they are worth.
LEMMA OrderOfValues ==
    ASSUME NEW n \in Nat, NEW s, NEW t, NEW v, NEW w, DigitsRead(v, s, n), DigitsRead(w, t, n),
           \A k \in 1..n : s[k] \in DigitBytes /\ t[k] \in DigitBytes
    PROVE  /\ v[n] < w[n] <=> \E i \in 1..n : s[i] < t[i] /\ \A j \in 1..(i - 1) : s[j] = t[j]
           /\ v[n] = w[n] <=> \A i \in 1..n : s[i] = t[i]
<1> DEFINE Below(k) == \E i \in 1..k : s[i] < t[i] /\ \A j \in 1..(i - 1) : s[j] = t[j]
           Same(k) == \A i \in 1..k : s[i] = t[i]
           T == {k \in 0..n : ~((v[k] < w[k] <=> Below(k)) /\ (v[k] = w[k] <=> Same(k)))}
<1>1. \A k \in 0..n : v[k] \in Nat /\ w[k] \in Nat
  BY ReadsNat
<1>2. ASSUME NEW k \in 1..n,
             v[k - 1] < w[k - 1] <=> Below(k - 1),
             v[k - 1] = w[k - 1] <=> Same(k - 1)
      PROVE  /\ v[k] < w[k] <=> Below(k)
             /\ v[k] = w[k] <=> Same(k)
  <2> DEFINE a == v[k - 1]
             b == w[k - 1]
  <2>1. a \in Nat /\ b \in Nat
    <3>1. k - 1 \in 0..n
      OBVIOUS
    <3> QED
      BY <1>1, <3>1
  <2>2. v[k] = 10 * a + s[k] - 48 /\ w[k] = 10 * b + t[k] - 48
    BY DEF DigitsRead
  <2>3. s[k] \in 48..57 /\ t[k] \in 48..57
    BY DEF DigitBytes
  <2>4. Below(k) <=> Below(k - 1) \/ (s[k] < t[k] /\ Same(k - 1))
    <3>1. \A i \in 1..k : i = k \/ i \in 1..(k - 1)
      OBVIOUS
    <3>2. k \in 1..k /\ \A i \in 1..(k - 1) : i \in 1..k
      OBVIOUS
    <3> QED
      BY <3>1, <3>2
  <2>5. Same(k) <=> Same(k - 1) /\ s[k] = t[k]
    <3>1. \A i \in 1..k : i = k \/ i \in 1..(k - 1)
      OBVIOUS
    <3>2. k \in 1..k /\ \A i \in 1..(k - 1) : i \in 1..k
      OBVIOUS
    <3> QED
      BY <3>1, <3>2
  <2> HIDE DEF Below, Same
  <2>6. a < b <=> Below(k - 1)
    BY <1>2
  <2>7. a = b <=> Same(k - 1)
    BY <1>2
  <2> HIDE DEF a, b
  <2>8. v[k] < w[k] <=> a < b \/ (a = b /\ s[k] < t[k])
    BY <2>1, <2>2, <2>3
  <2>9. v[k] = w[k] <=> a = b /\ s[k] = t[k]
    BY <2>1, <2>2, <2>3
  <2> QED
    BY <2>4, <2>5, <2>6, <2>7, <2>8, <2>9
<1>3. v[0] = 0 /\ w[0] = 0
  BY DEF DigitsRead
<1>4. T = {}
  <2>1. SUFFICES ASSUME T # {} PROVE FALSE
    OBVIOUS
  <2>2. PICK j \in T : \A i \in T : j <= i
    <3>1. T \in SUBSET Nat
      OBVIOUS
    <3> QED
      BY <2>1, <3>1, LeastNumber
  <2>3. j # 0
    BY <1>3, <2>2
  <2>4. j \in 1..n /\ j - 1 \in 0..n /\ ~(j <= j - 1)
    BY <2>2, <2>3
  <2> HIDE DEF Below, Same
  <2>5. (v[j - 1] < w[j - 1] <=> Below(j - 1)) /\ (v[j - 1] = w[j - 1] <=> Same(j - 1))
    BY <2>2, <2>4
  <2>6. (v[j] < w[j] <=> Below(j)) /\ (v[j] = w[j] <=> Same(j))
    BY <1>2, <2>4, <2>5
  <2> QED
    BY <2>2, <2>6
<1>5. n \in 0..n
  OBVIOUS
<1> HIDE DEF Below, Same
<1>6. (v[n] < w[n] <=> Below(n)) /\ (v[n] = w[n] <=> Same(n))
  BY <1>4, <1>5
<1> QED
  BY <1>6 DEF Below, Same

\* A text that is shorter than one with no zero in front is worth less.
LEMMA ShorterIsLess ==
    ASSUME NEW m \in Nat, NEW n \in Nat, m < n, NEW s, NEW t, NEW v, NEW w,
           DigitsRead(v, s, m), DigitsRead(w, t, n), t[1] # 48,
           \A k \in 1..m : s[k] \in DigitBytes,
           \A k \in 1..n : t[k] \in DigitBytes
    PROVE  v[m] < w[n]
<1> DEFINE r == n - m
           P == {k \in 1..n : w[k] < 1}
           Q == {k \in 0..m : ~(v[k] < w[k + r])}
<1>1. r \in 1..n /\ m + r = n
  OBVIOUS
<1>2. /\ \A k \in 0..m : v[k] \in Nat
      /\ \A k \in 0..n : w[k] \in Nat
  BY ReadsNat
<1> HIDE DEF r
<1>3. \A k \in 1..n : 1 <= w[k]
  <2>1. SUFFICES ASSUME P # {} PROVE FALSE
    BY <1>2
  <2>2. PICK j \in P : \A i \in P : j <= i
    <3>1. P \in SUBSET Nat
      OBVIOUS
    <3> QED
      BY <2>1, <3>1, LeastNumber
  <2>3. w[j] = 10 * w[j - 1] + t[j] - 48 /\ t[j] \in 48..57 /\ w[j - 1] \in Nat
    <3>1. j \in 1..n /\ j - 1 \in 0..n
      BY <2>2
    <3> QED
      BY <1>2, <3>1 DEF DigitsRead, DigitBytes
  <2>4. CASE j = 1
    BY <2>2, <2>3, <2>4
  <2>5. CASE j # 1
    <3>1. j - 1 \in 1..n /\ ~(j <= j - 1)
      BY <2>2, <2>5
    <3>2. ~(w[j - 1] < 1)
      BY <2>2, <3>1
    <3> QED
      BY <2>2, <2>3, <3>2
  <2> QED
    BY <2>4, <2>5
<1>4. Q = {}
  <2>1. SUFFICES ASSUME Q # {} PROVE FALSE
    OBVIOUS
  <2>2. PICK j \in Q : \A i \in Q : j <= i
    <3>1. Q \in SUBSET Nat
      OBVIOUS
    <3> QED
      BY <2>1, <3>1, LeastNumber
  <2>3. j \in 0..m /\ j + r \in 1..n
    BY <1>1, <2>2
  <2>4. w[j + r] \in Nat /\ 1 <= w[j + r]
    BY <1>2, <1>3, <2>3
  <2>5. CASE j = 0
    <3>1. v[j] = 0
      BY <2>5 DEF DigitsRead
    <3> QED
      BY <2>2, <2>4, <3>1
  <2>6. CASE j # 0
    <3>1. j \in 1..m /\ j - 1 \in 0..m /\ ~(j <= j - 1) /\ j + r - 1 = (j - 1) + r /\ j - 1 + r \in 0..n
      BY <1>1, <2>3, <2>6
    <3>2. v[j - 1] < w[(j - 1) + r]
      BY <2>2, <3>1
    <3>3. v[j] = 10 * v[j - 1] + s[j] - 48 /\ s[j] \in 48..57
      BY <3>1 DEF DigitsRead, DigitBytes
    <3>4. w[j + r] = 10 * w[(j - 1) + r] + t[j + r] - 48 /\ t[j + r] \in 48..57
      <4>0. \A k \in 1..n : w[k] = 10 * w[k - 1] + t[k] - 48
        BY DEF DigitsRead
      <4>3. PICK q \in 1..n : q = j + r
        BY <2>3
      <4>4. w[q] = 10 * w[q - 1] + t[q] - 48
        BY ONLY <4>0
      <4>1. w[j + r] = 10 * w[j + r - 1] + t[j + r] - 48
        BY <1>1, <2>3, <4>3, <4>4
      <4>2. t[j + r] \in 48..57
        BY <2>3 DEF DigitBytes
      <4> QED
        BY <3>1, <4>1, <4>2
    <3>5. v[j - 1] \in Nat /\ w[(j - 1) + r] \in Nat
      BY <1>2, <3>1
    <3>6. v[j] < w[j + r]
      BY <3>2, <3>3, <3>4, <3>5
    <3> QED
      BY <2>2, <3>6
  <2> QED
    BY <2>5, <2>6
<1>5. v[m] < w[m + r]
  <2>1. m \in 0..m
    OBVIOUS
  <2> QED
    BY <1>4, <2>1
<1> QED
  BY <1>1, <1>5

\* The tests of matches_u64 and matches_i64 on lengths and texts are one on
\* values, for texts no longer than the limit.
LEMMA DigitsUpToIs ==
    ASSUME NEW s \in Seq(Int), NEW limit \in Seq(DigitBytes), limit # << >>, limit[1] # 48
    PROVE  /\ AllDigits(s) => ValueOf(s) \in Nat
           /\ DigitsUpTo(s, limit) <=>
                  /\ s # << >> /\ AllDigits(s) /\ Len(s) <= Len(limit)
                  /\ ValueOf(s) <= ValueOf(limit)
<1> DEFINE m == Len(s)
           n == Len(limit)
<1>1. m \in Nat /\ n \in Nat /\ (s # << >> <=> m # 0) /\ n # 0
  OBVIOUS
<1>2. limit \in Seq(Int) /\ \A k \in 1..n : limit[k] \in DigitBytes
  <2>1. DigitBytes \subseteq Int
    BY DEF DigitBytes
  <2>2. limit \in [1..n -> DigitBytes]
    OBVIOUS
  <2>3. \A k \in 1..n : limit[k] \in DigitBytes /\ limit[k] \in Int
    BY <2>1, <2>2
  <2> HIDE DEF n
  <2>4. limit \in [1..n -> Int]
    BY <2>2, <2>3
  <2> QED
    BY <1>1, <2>3, <2>4
<1>3. PICK v : DigitsRead(v, s, m) /\ ValueOf(s) = v[m]
  BY ValueIs
<1>4. PICK w : DigitsRead(w, limit, n) /\ ValueOf(limit) = w[n]
  BY <1>2, ValueIs
<1>5. s = limit <=> m = n /\ \A k \in 1..m : s[k] = limit[k]
  OBVIOUS
<1>6. m \in 0..m /\ n \in 0..n
  BY <1>1
<1> HIDE DEF m, n
<1>7. AllDigits(s) => v[m] \in Nat
  BY <1>1, <1>3, <1>6, ReadsNat DEF AllDigits, m
<1>8. w[n] \in Nat
  BY <1>1, <1>2, <1>4, <1>6, ReadsNat
<1>9. ASSUME AllDigits(s), m < n
      PROVE  v[m] <= w[n]
  <2>1. v[m] < w[n]
    BY <1>1, <1>2, <1>3, <1>4, <1>9, ShorterIsLess DEF AllDigits, m
  <2> QED
    BY <1>7, <1>8, <1>9, <2>1
<1>10. ASSUME AllDigits(s), m = n
       PROVE  TextLeq(s, limit) <=> v[m] <= w[n]
  <2>1. \A k \in 1..n : s[k] \in DigitBytes /\ limit[k] \in DigitBytes
    BY <1>2, <1>10 DEF AllDigits, m
  <2>2. DigitsRead(v, s, n)
    BY <1>3, <1>10
  <2>3. /\ v[n] < w[n] <=> \E i \in 1..n : s[i] < limit[i] /\ \A j \in 1..(i - 1) : s[j] = limit[j]
        /\ v[n] = w[n] <=> \A i \in 1..n : s[i] = limit[i]
    BY ONLY <1>1, <1>4, <2>1, <2>2, OrderOfValues
  <2>4. v[m] <= w[n] <=> v[n] < w[n] \/ v[n] = w[n]
    BY <1>7, <1>8, <1>10
  <2>5. s = limit <=> \A i \in 1..n : s[i] = limit[i]
    BY <1>5, <1>10
  <2> QED
    BY <1>10, <2>3, <2>4, <2>5 DEF TextLeq, m
<1>11. m \in 1..n <=> m # 0 /\ m <= n
  BY <1>1
<1>12. m <= n <=> m < n \/ m = n
  BY <1>1
<1>13. DigitsUpTo(s, limit) <=> m \in 1..n /\ AllDigits(s) /\ (m < n \/ TextLeq(s, limit))
  BY DEF DigitsUpTo, m, n
<1>14. ASSUME m < n
       PROVE  m # n
  BY <1>1, <1>14
<1> QED
  BY <1>1, <1>3, <1>4, <1>7, <1>9, <1>10, <1>11, <1>12, <1>13, <1>14 DEF m, n

\* A text of digits is worth a natural number.
LEMMA LimitIsNat ==
    ASSUME NEW s \in Seq(DigitBytes)
    PROVE  ValueOf(s) \in Nat
<1>1. \A k \in 1..Len(s) : s[k] \in DigitBytes
  OBVIOUS
<1>2. s \in Seq(Int)
  <2>1. \A k \in 1..Len(s) : s[k] \in Int
    BY <1>1 DEF DigitBytes
  <2>2. s \in [1..Len(s) -> Int] /\ Len(s) \in Nat
    BY <2>1
  <2> QED
    BY <2>2
<1>3. PICK v : DigitsRead(v, s, Len(s)) /\ ValueOf(s) = v[Len(s)]
  BY <1>2, ValueIs
<1>4. Len(s) \in Nat /\ Len(s) \in 0..Len(s)
  OBVIOUS
<1> QED
  BY <1>1, <1>3, <1>4, ReadsNat

\* std::from_chars reads a number that is digits only and fits.
LEMMA FromCharsIs ==
    ASSUME NEW s \in Seq(Int), NEW signed \in BOOLEAN, NEW range,
           ~Negative(s) \/ signed,
           DigitsOf(s) # << >>, AllDigits(DigitsOf(s)), NumberOf(s) \in range
    PROVE  FromChars(s, signed, range) = NumberOf(s)
<1> DEFINE d     == DigitsOf(s)
           n     == Len(d)
           isEnd == {i \in 0..n : AllDigits(SubSeq(d, 1, i))}
           end   == CHOOSE i \in isEnd : \A j \in isEnd : j <= i
<1>1. d \in Seq(Int) /\ n \in Nat /\ n > 0
  BY DEF DigitsOf, Negative
<1>2. d = IF signed THEN DigitsOf(s) ELSE s
  BY DEF DigitsOf
<1> HIDE DEF d
<1>3. SubSeq(d, 1, n) = d
  BY <1>1
<1>4. n \in isEnd /\ \A j \in isEnd : j <= n
  <2>1. AllDigits(d)
    BY DEF d
  <2> HIDE DEF n
  <2>2. n \in 0..n /\ AllDigits(SubSeq(d, 1, n))
    <3>1. n \in 0..n
      BY <1>1
    <3>2. AllDigits(SubSeq(d, 1, n))
      BY <1>3, <2>1, Zenon
    <3> QED
      BY <3>1, <3>2, Zenon
  <2>3. \A j \in 0..n : j <= n
    BY <1>1
  <2> QED
    BY <2>2, <2>3, Zenon
<1>5. \A i \in isEnd : (\A j \in isEnd : j <= i) => i = n
  <2>1. \A i \in isEnd : i \in Nat
    OBVIOUS
  <2> QED
    BY <1>1, <1>4, <2>1
<1> HIDE DEF isEnd
<1>6. end = n
  BY <1>4, <1>5
<1>7. FromChars(s, signed, range) =
          LET v     == ValueOf(SubSeq(d, 1, end))
              value == IF signed /\ Negative(s) THEN -v ELSE v
          IN  IF end > 0 /\ value \in range THEN value ELSE 0
  BY <1>2 DEF FromChars, isEnd
<1>8. NumberOf(s) = IF signed /\ Negative(s) THEN -ValueOf(d) ELSE ValueOf(d)
  BY DEF NumberOf, d
<1> QED
  BY <1>1, <1>3, <1>6, <1>7, <1>8

\* The texts an unsigned limit lets pass are those of the numbers up to it, and
\* are converted to them.
LEMMA UnsignedText ==
    ASSUME NEW s \in Seq(Int), NEW last \in Seq(DigitBytes), last # << >>, last[1] # 48
    PROVE  LET d == DigitsOf(s)
               range == 0..ValueOf(last)
           IN  /\ DigitsUpTo(s, last) <=>
                      /\ d # << >> /\ AllDigits(d) /\ ~Negative(s)
                      /\ NumberOf(s) \in range /\ Len(d) <= Len(last)
               /\ DigitsUpTo(s, last) => FromChars(s, FALSE, range) = NumberOf(s)
<1> DEFINE d == DigitsOf(s)
           range == 0..ValueOf(last)
<1>1. ASSUME ~Negative(s)
      PROVE  d = s /\ NumberOf(s) = ValueOf(s)
  BY <1>1 DEF DigitsOf, NumberOf
<1>2. ASSUME Negative(s)
      PROVE  ~AllDigits(s)
  <2>1. s # << >> /\ s[1] = 45
    BY <1>2 DEF Negative, Minus
  <2>2. 1 \in 1..Len(s)
    BY <2>1
  <2>3. s[1] \notin DigitBytes
    BY <2>1 DEF DigitBytes
  <2> QED
    BY <2>2, <2>3, Zenon DEF AllDigits
<1>3. ValueOf(last) \in Nat
  BY LimitIsNat
<1>4. /\ AllDigits(s) => ValueOf(s) \in Nat
      /\ DigitsUpTo(s, last) <=>
             s # << >> /\ AllDigits(s) /\ Len(s) <= Len(last) /\ ValueOf(s) <= ValueOf(last)
  BY DigitsUpToIs
<1>5. AllDigits(s) => (ValueOf(s) <= ValueOf(last) <=> ValueOf(s) \in range)
  BY <1>3, <1>4
<1> HIDE DEF d, range
<1>6. DigitsUpTo(s, last) <=>
          /\ d # << >> /\ AllDigits(d) /\ ~Negative(s)
          /\ NumberOf(s) \in range /\ Len(d) <= Len(last)
  BY <1>1, <1>2, <1>4, <1>5, Zenon
<1>7. ASSUME DigitsUpTo(s, last)
      PROVE  FromChars(s, FALSE, range) = NumberOf(s)
  BY <1>6, <1>7, FromCharsIs DEF d
<1> QED
  BY <1>6, <1>7, Zenon DEF d, range

\* The same of a signed limit: there is one number more below zero.
LEMMA SignedText ==
    ASSUME NEW s \in Seq(Int),
           NEW last \in Seq(DigitBytes), last # << >>, last[1] # 48,
           NEW lowest \in Seq(DigitBytes), lowest # << >>, lowest[1] # 48,
           ValueOf(lowest) = ValueOf(last) + 1
    PROVE  LET d == DigitsOf(s)
               limit == IF Negative(s) THEN lowest ELSE last
               range == (-ValueOf(last) - 1)..ValueOf(last)
           IN  /\ DigitsUpTo(d, limit) <=>
                      /\ d # << >> /\ AllDigits(d)
                      /\ NumberOf(s) \in range /\ Len(d) <= Len(limit)
               /\ DigitsUpTo(d, limit) => FromChars(s, TRUE, range) = NumberOf(s)
<1> DEFINE d == DigitsOf(s)
           limit == IF Negative(s) THEN lowest ELSE last
           range == (-ValueOf(last) - 1)..ValueOf(last)
<1>1. d \in Seq(Int)
  BY DEF DigitsOf, Negative
<1>2. limit \in Seq(DigitBytes) /\ limit # << >> /\ limit[1] # 48
  OBVIOUS
<1>3. ValueOf(last) \in Nat
  BY LimitIsNat
<1>4. ValueOf(limit) = IF Negative(s) THEN ValueOf(last) + 1 ELSE ValueOf(last)
  OBVIOUS
<1> HIDE DEF d, limit
<1>5. /\ AllDigits(d) => ValueOf(d) \in Nat
      /\ DigitsUpTo(d, limit) <=>
             d # << >> /\ AllDigits(d) /\ Len(d) <= Len(limit) /\ ValueOf(d) <= ValueOf(limit)
  BY <1>1, <1>2, DigitsUpToIs
<1>6. NumberOf(s) = IF Negative(s) THEN -ValueOf(d) ELSE ValueOf(d)
  BY DEF NumberOf, d
<1>7. ASSUME AllDigits(d)
      PROVE  ValueOf(d) <= ValueOf(limit) <=> NumberOf(s) \in range
  <2>1. ValueOf(d) \in Nat
    BY <1>5, <1>7
  <2>2. CASE Negative(s)
    BY <1>3, <1>4, <1>6, <2>1, <2>2
  <2>3. CASE ~Negative(s)
    BY <1>3, <1>4, <1>6, <2>1, <2>3
  <2> QED
    BY <2>2, <2>3
<1> HIDE DEF range
<1>8. DigitsUpTo(d, limit) <=>
          /\ d # << >> /\ AllDigits(d)
          /\ NumberOf(s) \in range /\ Len(d) <= Len(limit)
  BY <1>5, <1>7, Zenon
<1>9. ASSUME DigitsUpTo(d, limit)
      PROVE  FromChars(s, TRUE, range) = NumberOf(s)
  BY <1>8, <1>9, FromCharsIs DEF d
<1> QED
  BY <1>8, <1>9, Zenon DEF d, limit, range
=============================================================================

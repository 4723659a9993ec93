------------------------- MODULE RouteSegment_proofs -------------------------
(***************************************************************************)
(* For every path of bytes and every width of a word: the walk cuts it at  *)
(* its slashes although it looks for them a word at a time, reads nothing  *)
(* outside it, and tells a label from any other text.                      *)
(*                                                                         *)
(* The lemmas say what the operators of RouteWords return: the loads the   *)
(* bytes of the text and zeros after them, first_slash the first slash,    *)
(* same_from whether the bytes from an offset on are the same.             *)
(***************************************************************************)
EXTENDS RouteSegment, Numbers_proofs, SequenceTheorems, TLAPS

\* The least of a set of numbers is one of them.
LEMMA MinLeast ==
    ASSUME NEW S \in SUBSET Nat, S # {}
    PROVE  Min(S) \in S /\ \A x \in S : Min(S) <= x
BY LeastNumber DEF Min

-----------------------------------------------------------------------------
(* Loads.                                                                  *)

\* load_at (words.hpp) reads bytes of the text only, and those it keeps are the
\* ones from the offset on: the shift drops the bytes before it.
LEMMA AccessInside ==
    ASSUME NEW m \in Modes, NEW s \in Seq(Bytes), NEW i \in 0..Len(s)
    PROVE  LET a == Access(m, s, i)
           IN  /\ a.from \in Nat /\ a.n \in Nat /\ a.down \in Nat
               /\ a.from + a.n <= Len(s)
               /\ a.from + a.down = i
               /\ \A k \in 0..(W - 1) : k + a.down < a.n <=> i + k < Len(s)
<1> DEFINE left == Len(s) - i
<1>1. left \in Nat /\ Len(s) \in Nat
  OBVIOUS
<1>2. Min({left, W}) \in {left, W} /\ Min({left, W}) <= left /\ Min({left, W}) <= W
  BY <1>1, MinLeast, WordAssumption
<1> DEFINE least == Min({left, W})
<1>3. least \in Nat /\ (least = left \/ least = W) /\ least <= left /\ least <= W
  BY <1>1, <1>2, WordAssumption
<1> HIDE DEF least
<1>4. CASE left = 0
  <2>1. ~(left >= W) /\ left \notin 1..(W - 1)
    BY <1>1, <1>4, WordAssumption
  <2>2. Access(m, s, i) = [from |-> i, n |-> 0, down |-> 0]
    BY <2>1, <1>4 DEF Access
  <2> QED
    BY <2>2, <1>4, <1>1, WordAssumption
<1>5. CASE left # 0 /\ m = "run" /\ left >= W
  <2>1. left \notin 1..(W - 1)
    BY <1>1, <1>5, WordAssumption
  <2>2. Access(m, s, i) = [from |-> i, n |-> W, down |-> 0]
    BY <2>1, <1>5 DEF Access
  <2> QED
    BY <2>2, <1>5, <1>1, WordAssumption
<1>6. CASE left # 0 /\ m = "run" /\ left < W /\ Len(s) >= W
  <2>1. left \in 1..(W - 1) /\ ~(left >= W)
    BY <1>1, <1>6, WordAssumption
  <2>2. Access(m, s, i) = [from |-> Len(s) - W, n |-> W, down |-> W - left]
    BY <2>1, <1>6 DEF Access
  <2> QED
    BY <2>1, <2>2, <1>6, <1>1, WordAssumption
<1>7. CASE left # 0 /\ ~(m = "run" /\ left >= W) /\ ~(m = "run" /\ left < W /\ Len(s) >= W)
  <2>1. ~(m = "run" /\ left \in 1..(W - 1) /\ Len(s) >= W)
    BY <1>1, <1>7, WordAssumption
  <2>2. Access(m, s, i) = [from |-> i, n |-> least, down |-> 0]
    BY <2>1, <1>7 DEF Access, least
  <2> QED
    BY <2>2, <1>1, <1>3, WordAssumption
<1> QED
  BY <1>4, <1>5, <1>6, <1>7, <1>1, WordAssumption

\* A load gives the bytes from its offset on and zeros after the text, whenever
\* it is made.
LEMMA LoadIs ==
    ASSUME NEW m \in Modes, NEW s \in Seq(Bytes), NEW i \in 0..Len(s)
    PROVE  LoadAt(m, s, i) =
               [k \in 0..(W - 1) |-> IF i + k < Len(s) THEN s[i + k + 1] ELSE 0]
<1> DEFINE a == Access(m, s, i)
<1>1. /\ a.from \in Nat /\ a.n \in Nat /\ a.down \in Nat
      /\ a.from + a.n <= Len(s)
      /\ a.from + a.down = i
      /\ \A k \in 0..(W - 1) : k + a.down < a.n <=> i + k < Len(s)
  BY AccessInside
<1> HIDE DEF a
<1>2. LoadAt(m, s, i) =
          [k \in 0..(W - 1) |-> IF k + a.down < a.n THEN Byte(s, a.from + k + a.down) ELSE 0]
  BY DEF LoadAt, a
<1>3. ASSUME NEW k \in 0..(W - 1), i + k < Len(s)
      PROVE  Byte(s, a.from + k + a.down) = s[i + k + 1]
  <2>1. k \in Nat /\ i \in Nat /\ Len(s) \in Nat
    BY WordAssumption
  <2>2. a.from + k + a.down = i + k
    <3>1. a.from \in Nat /\ a.down \in Nat /\ a.from + a.down = i
      BY <1>1
    <3> QED
      BY <2>1, <3>1
  <2>3. i + k \in 0..(Len(s) - 1)
    BY <2>1, <1>3
  <2> QED
    BY <2>2, <2>3 DEF Byte
<1> QED
  BY <1>1, <1>2, <1>3

\* What a load gives is a word of bytes.
LEMMA LoadWord ==
    ASSUME NEW m \in Modes, NEW s \in Seq(Bytes), NEW i \in 0..Len(s)
    PROVE  LoadAt(m, s, i) \in [0..(W - 1) -> Bytes]
<1>1. ASSUME NEW k \in 0..(W - 1), i + k < Len(s)
      PROVE  s[i + k + 1] \in Bytes
  <2>1. i + k + 1 \in 1..Len(s)
    BY <1>1, WordAssumption
  <2> QED
    BY <2>1
<1>2. 0 \in Bytes
  BY DEF Bytes
<1> QED
  BY <1>1, <1>2, LoadIs

-----------------------------------------------------------------------------
(* The first slash of a word.                                              *)

\* A byte xored with a slash is a byte, and 0 exactly for a slash.
LEMMA XoredZero == \A b \in Bytes : Xored[b] \in Bytes /\ (Xored[b] = 0 <=> b = Slash)
<1> SUFFICES ASSUME NEW b \in Bytes
             PROVE  Xored[b] \in Bytes /\ (Xored[b] = 0 <=> b = Slash)
  OBVIOUS
<1> DEFINE Of(x, p) == (x \div p) % 2
           Down(p) == b \div p
           Bit(p) == IF Of(b, p) = Of(Slash, p) THEN 0 ELSE p
<1>1. b \in 0..255 /\ Slash = 47
  BY DEF Bytes, Slash
<1>2. Xored[b] = Bit(1) + Bit(2) + Bit(4) + Bit(8) + Bit(16) + Bit(32) + Bit(64) + Bit(128)
  BY DEF Xored
<1>3. /\ Of(Slash, 1) = 1 /\ Of(Slash, 2) = 1 /\ Of(Slash, 4) = 1 /\ Of(Slash, 8) = 1
      /\ Of(Slash, 16) = 0 /\ Of(Slash, 32) = 1 /\ Of(Slash, 64) = 0 /\ Of(Slash, 128) = 0
  BY <1>1
<1>4. b = Of(b, 1) + 2 * (Down(2))
  BY <1>1
<1>5. Down(2) = Of(b, 2) + 2 * (Down(4))
  BY <1>1
<1>6. Down(4) = Of(b, 4) + 2 * (Down(8))
  BY <1>1
<1>7. Down(8) = Of(b, 8) + 2 * (Down(16))
  BY <1>1
<1>8. Down(16) = Of(b, 16) + 2 * (Down(32))
  BY <1>1
<1>9. Down(32) = Of(b, 32) + 2 * (Down(64))
  BY <1>1
<1>10. Down(64) = Of(b, 64) + 2 * (Down(128))
  BY <1>1
<1>11. Down(128) = Of(b, 128)
  BY <1>1
<1>12. /\ Down(2) \in Int /\ Down(4) \in Int /\ Down(8) \in Int /\ Down(16) \in Int
      /\ Down(32) \in Int /\ Down(64) \in Int /\ Down(128) \in Int
  BY <1>1
<1>13. \A p \in {1, 2, 4, 8, 16, 32, 64, 128} : Of(b, p) \in {0, 1}
  BY <1>1
<1> HIDE DEF Of, Down
<1>14. \A p \in {1, 2, 4, 8, 16, 32, 64, 128} : Bit(p) \in {0, p} /\ (Bit(p) = 0 <=> Of(b, p) = Of(Slash, p))
  OBVIOUS
<1> HIDE DEF Bit
<1>15. Xored[b] \in Bytes /\ (Xored[b] = 0 <=> \A p \in {1, 2, 4, 8, 16, 32, 64, 128} : Bit(p) = 0)
  BY <1>2, <1>14 DEF Bytes
<1>16. b = Of(b, 1) + 2 * Of(b, 2) + 4 * Of(b, 4) + 8 * Of(b, 8) + 16 * Of(b, 16)
             + 32 * Of(b, 32) + 64 * Of(b, 64) + 128 * Of(b, 128)
  <2>1. /\ Of(b, 1) \in Int /\ Of(b, 2) \in Int /\ Of(b, 4) \in Int /\ Of(b, 8) \in Int
        /\ Of(b, 16) \in Int /\ Of(b, 32) \in Int /\ Of(b, 64) \in Int /\ Of(b, 128) \in Int
    BY <1>13
  <2>2. Down(16) = Of(b, 16) + 2 * Of(b, 32) + 4 * Of(b, 64) + 8 * Of(b, 128)
    BY <2>1, <1>8, <1>9, <1>10, <1>11, <1>12
  <2>3. b = Of(b, 1) + 2 * Of(b, 2) + 4 * Of(b, 4) + 8 * Of(b, 8) + 16 * (Down(16))
    BY <2>1, <1>1, <1>4, <1>5, <1>6, <1>7, <1>12
  <2> QED
    BY <2>1, <2>2, <2>3, <1>1, <1>12
<1>17. (\A p \in {1, 2, 4, 8, 16, 32, 64, 128} : Of(b, p) = Of(Slash, p)) <=> b = Slash
  BY <1>1, <1>3, <1>13, <1>16
<1> QED
  BY <1>14, <1>15, <1>17

\* The borrow of a byte in closed form: a lower byte is 0 and none between them
\* is above 1.  So the recursion of Borrow has a solution.
LEMMA BorrowIs ==
    ASSUME NEW x \in [0..(W - 1) -> Bytes]
    PROVE  Borrow(x) = [k \in 0..W |->
               IF k > 0 /\ x[k - 1] < 1 + Borrow(x)[k - 1] THEN 1 ELSE 0]
<1> DEFINE Of(f) == [k \in 0..W |-> IF k > 0 /\ x[k - 1] < 1 + f[k - 1] THEN 1 ELSE 0]
           Borrowed(k) == \E j \in 0..(k - 1) : x[j] = 0 /\ \A i \in (j + 1)..(k - 1) : x[i] <= 1
           f == [k \in 0..W |-> IF Borrowed(k) THEN 1 ELSE 0]
<1>1. Borrow(x) = CHOOSE g : g = Of(g)
  BY Zenon DEF Borrow
<1>2. ASSUME NEW k \in 0..W, k > 0
      PROVE  Borrowed(k) <=> x[k - 1] < 1 + f[k - 1]
  <2>1. k - 1 \in 0..W /\ k - 1 \in 0..(W - 1) /\ k \in Nat
    BY <1>2, WordAssumption
  <2>2. x[k - 1] \in 0..255
    BY <2>1 DEF Bytes
  <2>3. CASE x[k - 1] = 0
    <3>1. Borrowed(k)
      BY <2>1, <2>3
    <3>2. f[k - 1] \in {0, 1}
      BY <2>1
    <3> QED
      BY <3>1, <3>2, <2>3
  <2>4. CASE x[k - 1] = 1
    <3>1. ASSUME Borrowed(k)
          PROVE  Borrowed(k - 1)
      <4>1. PICK j \in 0..(k - 1) : x[j] = 0 /\ \A i \in (j + 1)..(k - 1) : x[i] <= 1
        BY <3>1
      <4>2. j # k - 1
        BY <2>4, <4>1
      <4>3. j \in 0..((k - 1) - 1) /\ \A i \in (j + 1)..((k - 1) - 1) : i \in (j + 1)..(k - 1)
        BY <4>1, <4>2, <2>1
      <4> QED
        BY <4>1, <4>3
    <3>2. ASSUME Borrowed(k - 1)
          PROVE  Borrowed(k)
      <4>1. PICK j \in 0..((k - 1) - 1) :
                x[j] = 0 /\ \A i \in (j + 1)..((k - 1) - 1) : x[i] <= 1
        BY <3>2
      <4>2. ASSUME NEW i \in (j + 1)..(k - 1)
            PROVE  x[i] <= 1
        BY <4>1, <2>1, <2>4
      <4>3. j \in 0..(k - 1)
        BY <4>1, <2>1
      <4> QED
        BY <4>1, <4>2, <4>3
    <3>3. f[k - 1] = IF Borrowed(k - 1) THEN 1 ELSE 0
      BY <2>1
    <3> HIDE DEF Borrowed, f
    <3> QED
      BY <3>1, <3>2, <3>3, <2>4
  <2>5. CASE x[k - 1] \in 2..255
    <3>1. ~Borrowed(k)
      <4>1. ASSUME NEW j \in 0..(k - 1), x[j] = 0, \A i \in (j + 1)..(k - 1) : x[i] <= 1
            PROVE  FALSE
        <5>1. j # k - 1
          <6>1. 0 \notin 2..255
            OBVIOUS
          <6> QED
            BY <2>5, <4>1, <6>1
        <5>2. k - 1 \in (j + 1)..(k - 1)
          BY <5>1, <2>1
        <5>3. x[k - 1] <= 1
          BY <5>2, <4>1
        <5>4. \A c \in 2..255 : ~(c <= 1)
          OBVIOUS
        <5> QED
          BY <5>3, <5>4, <2>5
      <4> QED
        BY <4>1
    <3>2. f[k - 1] \in {0, 1}
      BY <2>1
    <3> HIDE DEF Borrowed, f
    <3>3. \A c \in 2..255, d \in {0, 1} : ~(c < 1 + d)
      OBVIOUS
    <3> QED
      BY <3>1, <3>2, <3>3, <2>5
  <2>6. x[k - 1] = 0 \/ x[k - 1] = 1 \/ x[k - 1] \in 2..255
    <3>1. \A c \in 0..255 : c = 0 \/ c = 1 \/ c \in 2..255
      OBVIOUS
    <3> QED
      BY <2>2, <3>1
  <2> HIDE DEF Borrowed, f
  <2> QED
    BY <2>3, <2>4, <2>5, <2>6
<1>3. f = Of(f)
  <2>1. ASSUME NEW k \in 0..W
        PROVE  f[k] = Of(f)[k]
    <3>1. CASE k > 0
      <4>1. f[k] = IF Borrowed(k) THEN 1 ELSE 0
        OBVIOUS
      <4>2. Of(f)[k] = IF x[k - 1] < 1 + f[k - 1] THEN 1 ELSE 0
        BY <3>1
      <4> HIDE DEF Borrowed, f, Of
      <4> QED
        BY <1>2, <3>1, <4>1, <4>2
    <3>2. CASE ~(k > 0)
      <4>1. ~Borrowed(k)
        BY <3>2, WordAssumption
      <4> QED
        BY <4>1, <3>2
    <3> QED
      BY <3>1, <3>2
  <2>2. f = [k \in 0..W |-> f[k]] /\ Of(f) = [k \in 0..W |-> Of(f)[k]]
    OBVIOUS
  <2> HIDE DEF f, Of
  <2> QED
    BY <2>1, <2>2
<1> HIDE DEF f
<1>4. Borrow(x) = Of(Borrow(x))
  <2> HIDE DEF Of
  <2> QED
    BY <1>1, <1>3
<1> QED
  BY <1>4

\* Of the bytes up to the first slash, only a slash is flagged: none of them is
\* borrowed from.  Those after it may be flagged without being slashes.
LEMMA FlagIsSlash ==
    ASSUME NEW w \in [0..(W - 1) -> Bytes], NEW k \in 0..(W - 1),
           \A j \in 0..(k - 1) : w[j] # Slash
    PROVE  k \in Flags(w) <=> w[k] = Slash
<1> DEFINE x == [j \in DOMAIN w |-> Xored[w[j]]]
           b == Borrow(x)
<1>1. x \in [0..(W - 1) -> Bytes] /\ \A j \in 0..(W - 1) : x[j] = 0 <=> w[j] = Slash
  BY XoredZero
<1>2. k \in Flags(w) <=> (x[k] - 1 - b[k]) % 256 >= 128 /\ x[k] < 128
  BY DEF Flags
<1> HIDE DEF x
<1>3. b = [j \in 0..W |-> IF j > 0 /\ x[j - 1] < 1 + b[j - 1] THEN 1 ELSE 0]
  BY <1>1, BorrowIs
<1> HIDE DEF b
<1>4. b[k] = 0
  <2> DEFINE wrong == {j \in Nat : j <= k /\ b[j] # 0}
  <2>1. ASSUME wrong # {}
        PROVE  FALSE
    <3>1. PICK j \in wrong : \A i \in wrong : j <= i
      BY <2>1, LeastNumber
    <3>2. j \in 0..W /\ j <= k
      BY <3>1, WordAssumption
    <3>3. j > 0 /\ x[j - 1] < 1 + b[j - 1]
      BY <3>1, <3>2, <1>3
    <3>4. j - 1 \in Nat /\ j - 1 \notin wrong /\ j - 1 \in 0..(k - 1) /\ j - 1 \in 0..(W - 1)
      BY <3>1, <3>2, <3>3, WordAssumption
    <3>5. b[j - 1] = 0
      BY <3>2, <3>4
    <3>6. x[j - 1] # 0 /\ x[j - 1] \in 0..255
      BY <3>4, <1>1 DEF Bytes
    <3>7. \A c \in 0..255 : c < 1 + 0 => c = 0
      OBVIOUS
    <3> QED
      BY <3>3, <3>5, <3>6, <3>7
  <2>2. k \in Nat
    BY WordAssumption
  <2> QED
    BY <2>1, <2>2
<1>5. x[k] \in 0..255
  BY <1>1 DEF Bytes
<1>6. (x[k] - 1 - b[k]) % 256 >= 128 /\ x[k] < 128 <=> x[k] = 0
  <2>1. \A c \in 0..255 : (c - 1 - 0) % 256 >= 128 /\ c < 128 <=> c = 0
    OBVIOUS
  <2> QED
    BY <2>1, <1>4, <1>5
<1> QED
  BY <1>1, <1>2, <1>6

\* first_slash (words.hpp) gives the place of a word's first slash if it is among
\* the first n bytes, and otherwise the width of a word.
LEMMA FirstSlashIs ==
    ASSUME NEW w \in [0..(W - 1) -> Bytes], NEW n \in Nat
    PROVE  LET k == FirstSlash(w, n)
           IN  /\ k \in Nat /\ k <= W
               /\ k < W => k < n /\ w[k] = Slash
               /\ \A j \in 0..(W - 1) : j < k /\ j < n => w[j] # Slash
<1> DEFINE slashes == {j \in 0..(W - 1) : w[j] = Slash}
           k == IF Flags(w) = {} THEN W ELSE Min(Flags(w))
<1>1. Flags(w) \subseteq 0..(W - 1) /\ Flags(w) \in SUBSET Nat /\ slashes \in SUBSET Nat
  BY WordAssumption DEF Flags
<1>2. ASSUME slashes # {}
      PROVE  \E z \in Flags(w) : z \in slashes /\ \A j \in slashes : z <= j
  <2>1. PICK z \in slashes : \A j \in slashes : z <= j
    BY <1>1, <1>2, LeastNumber
  <2>2. \A j \in 0..(z - 1) : w[j] # Slash
    BY <2>1, WordAssumption
  <2>3. z \in Flags(w)
    BY <2>1, <2>2, FlagIsSlash
  <2> QED
    BY <2>1, <2>3
<1>3. CASE Flags(w) = {}
  <2>1. k = W /\ \A j \in 0..(W - 1) : w[j] # Slash
    BY <1>2, <1>3
  <2> QED
    BY <2>1, WordAssumption DEF FirstSlash
<1>4. CASE Flags(w) # {}
  <2>1. k \in Flags(w) /\ \A j \in Flags(w) : k <= j
    BY <1>1, <1>4, MinLeast
  <2> HIDE DEF k
  <2>2. k \in 0..(W - 1) /\ k \in Nat
    BY <2>1, <1>1, WordAssumption
  <2>3. \A j \in 0..(k - 1) : w[j] # Slash
    <3>1. ASSUME NEW j \in 0..(k - 1), w[j] = Slash
          PROVE  FALSE
      <4>1. j \in slashes
        BY <3>1, <2>2, WordAssumption
      <4>2. PICK z \in Flags(w) : z \in slashes /\ z <= j
        BY <4>1, <1>2
      <4>3. k <= z /\ z \in Nat
        BY <4>2, <2>1, <1>1
      <4> QED
        BY <4>2, <4>3, <2>2, <3>1
    <3> QED
      BY <3>1
  <2>4. w[k] = Slash
    BY <2>1, <2>2, <2>3, FlagIsSlash
  <2>5. FirstSlash(w, n) = IF k < n THEN k ELSE W
    BY DEF FirstSlash, k
  <2>6. \A j \in 0..(W - 1) : j < k => w[j] # Slash
    BY <2>2, <2>3
  <2>7. CASE k < n
    BY <2>2, <2>4, <2>5, <2>6, <2>7, WordAssumption
  <2>8. CASE ~(k < n)
    BY <2>2, <2>5, <2>6, <2>8, WordAssumption
  <2> QED
    BY <2>7, <2>8
<1> QED
  BY <1>3, <1>4

-----------------------------------------------------------------------------
(* Comparisons.                                                            *)

\* A loop that goes on by words from an offset passes the word every later byte
\* is in.
LEMMA StepHolds ==
    ASSUME NEW from \in Nat, NEW n \in Nat, NEW i \in from..(n - 1)
    PROVE  \E t \in Steps(from, n) : t \in Nat /\ from <= t /\ t <= i /\ i < t + W
<1> DEFINE beyond == {q \in Nat : from + q * W > i}
<1>1. i \in Nat /\ W \in Nat /\ W >= 1
  BY WordAssumption
<1>2. i + 1 \in beyond
  <2>1. PICK v \in Nat : W = 1 + v
    <3>1. W - 1 \in Nat /\ W = 1 + (W - 1)
      BY <1>1
    <3> QED
      BY <3>1
  <2>2. (i + 1) * v \in Nat
    BY <1>1, <2>1
  <2>3. (i + 1) * W = (i + 1) + (i + 1) * v
    BY <1>1, <2>1
  <2> QED
    BY <1>1, <2>2, <2>3
<1>3. PICK q \in beyond : \A r \in beyond : q <= r
  BY <1>2, LeastNumber
<1>4. q # 0
  BY <1>1, <1>3
<1> DEFINE t == from + (q - 1) * W
<1>5. q - 1 \in Nat /\ q - 1 \notin beyond
  BY <1>3, <1>4
<1>6. (q - 1) * W \in Nat /\ q * W = (q - 1) * W + W
  BY <1>1, <1>3, <1>5
<1>7. t \in Nat /\ from <= t /\ t <= i /\ i < t + W
  BY <1>1, <1>3, <1>5, <1>6
<1>8. q - 1 \in 0..n
  <2>1. q <= i + 1
    BY <1>2, <1>3
  <2>2. i <= n - 1
    OBVIOUS
  <2> QED
    BY <1>1, <1>5, <2>1, <2>2
<1>9. t \in Steps(from, n)
  <2>1. t \in from..(n - 1)
    BY <1>1, <1>7
  <2> QED
    BY <1>8, <2>1 DEF Steps
<1> QED
  BY <1>7, <1>9

\* same_from (words.hpp) of two texts of one length says that their bytes from an
\* offset on are the same, in each mode.
LEMMA SameFromAgrees ==
    ASSUME NEW m \in Modes, NEW a \in Seq(Bytes), NEW b \in Seq(Bytes), Len(a) = Len(b),
           NEW from \in Nat, SameFrom(m, a, b, Len(a), from)
    PROVE  \A i \in (from + 1)..Len(a) : a[i] = b[i]
<1> DEFINE n == Len(a)
<1>1. n \in Nat /\ W \in Nat /\ W >= 1
  BY WordAssumption
<1> SUFFICES ASSUME NEW i \in (from + 1)..n
             PROVE  a[i] = b[i]
  OBVIOUS
<1>2. PICK t \in Steps(from, n) : t \in Nat /\ from <= t /\ t <= i - 1 /\ i - 1 < t + W
  <2>1. i - 1 \in from..(n - 1)
    BY <1>1
  <2> QED
    BY <2>1, <1>1, StepHolds
<1>3. ASSUME NEW j \in Nat, j <= i - 1, i - 1 < j + W, j + W <= n, Word(a, j) = Word(b, j)
      PROVE  a[i] = b[i]
  <2>1. (i - 1) - j \in 0..(W - 1) /\ i - 1 \in 0..(n - 1) /\ j + ((i - 1) - j) = i - 1
    BY <1>1, <1>3
  <2>2. Byte(a, i - 1) = Byte(b, i - 1)
    <3>1. Word(a, j)[(i - 1) - j] = Word(b, j)[(i - 1) - j]
      BY <1>3
    <3> QED
      BY <2>1, <3>1 DEF Word
  <2> QED
    BY <2>1, <2>2 DEF Byte
<1>4. CASE m = "run" /\ n >= W
  <2>1. CASE t + W < n
    BY <1>2, <1>3, <1>4, <2>1, <1>1 DEF SameFrom, WordStarts
  <2>2. CASE ~(t + W < n)
    <3>1. Word(a, n - W) = Word(b, n - W)
      BY <1>4 DEF SameFrom, WordStarts
    <3>2. n - W \in Nat /\ n - W <= i - 1 /\ i - 1 < (n - W) + W /\ (n - W) + W <= n
      BY <1>1, <1>2, <1>4, <2>2
    <3> QED
      BY <1>3, <3>1, <3>2
  <2> QED
    BY <2>1, <2>2
<1>5. CASE ~(m = "run" /\ n >= W)
  <2>1. LoadAt(m, a, t) = LoadAt(m, b, t)
    BY <1>2, <1>5 DEF SameFrom
  <2>2. (i - 1) - t \in 0..(W - 1) /\ t + ((i - 1) - t) = i - 1 /\ i - 1 < n /\ t \in 0..n
    BY <1>1, <1>2
  <2>3. LoadAt(m, a, t) = [k \in 0..(W - 1) |-> IF t + k < n THEN a[t + k + 1] ELSE 0]
    BY <2>2, LoadIs
  <2>4. LoadAt(m, b, t) = [k \in 0..(W - 1) |-> IF t + k < n THEN b[t + k + 1] ELSE 0]
    BY <2>2, LoadIs
  <2>5. /\ LoadAt(m, a, t)[(i - 1) - t] = a[(t + ((i - 1) - t)) + 1]
        /\ LoadAt(m, b, t)[(i - 1) - t] = b[(t + ((i - 1) - t)) + 1]
    BY <2>2, <2>3, <2>4
  <2>6. (t + ((i - 1) - t)) + 1 = i
    BY <2>2
  <2> QED
    BY <2>1, <2>5, <2>6
<1> QED
  BY <1>4, <1>5

\* A text's first word.
LEMMA FirstWordIs ==
    ASSUME NEW m \in Modes, NEW s \in Seq(Bytes)
    PROVE  LoadAt(m, s, 0) = [k \in 0..(W - 1) |-> IF k < Len(s) THEN s[k + 1] ELSE 0]
<1>1. LoadAt(m, s, 0) =
          [k \in 0..(W - 1) |-> IF 0 + k < Len(s) THEN s[0 + k + 1] ELSE 0]
  BY LoadIs
<1>2. \A k \in 0..(W - 1) : 0 + k = k
  BY WordAssumption
<1> QED
  BY <1>1, <1>2

\* The segment at hand, as a part of the path.
SegmentIs ==
    /\ mode \in Modes /\ path \in Seq(Bytes) /\ pos \in Nat
    /\ seg \in Seq(Bytes) /\ Len(seg) = seglen
    /\ pos + Len(seg) <= Len(path)
    /\ \A i \in 1..Len(seg) : seg[i] = path[pos + i]

\* The word the edges are compared with is the segment's first, whatever follows
\* the segment in the path.
LEMMA EdgeWordIs ==
    ASSUME SegmentIs
    PROVE  EdgeWord = [k \in 0..(W - 1) |-> IF k < Len(seg) THEN seg[k + 1] ELSE 0]
<1>1. Len(seg) \in Nat /\ Len(path) \in Nat /\ W \in Nat /\ pos \in 0..Len(path)
  BY WordAssumption DEF SegmentIs
<1>2. LoadAt(mode, path, pos) =
          [k \in 0..(W - 1) |-> IF pos + k < Len(path) THEN path[pos + k + 1] ELSE 0]
  BY <1>1, LoadIs DEF SegmentIs
<1>3. EdgeWord = [k \in 0..(W - 1) |-> IF k < Len(seg) THEN LoadAt(mode, path, pos)[k] ELSE 0]
  BY <1>2 DEF EdgeWord, MaskLow, first, SegmentIs
<1>4. ASSUME NEW k \in 0..(W - 1), k < Len(seg)
      PROVE  LoadAt(mode, path, pos)[k] = seg[k + 1]
  <2>1. k + 1 \in 1..Len(seg) /\ pos + k < Len(path) /\ pos + (k + 1) = pos + k + 1
    BY <1>1, <1>4 DEF SegmentIs
  <2> QED
    BY <1>2, <2>1 DEF SegmentIs
<1> QED
  BY <1>3, <1>4

\* find_edge's test holds of the segment itself and of no other label, in
\* whichever mode the label's word was loaded.
LEMMA EdgeMatchesLabel ==
    ASSUME SegmentIs, NEW built \in Modes, NEW label \in Seq(Bytes)
    PROVE  EdgeMatches(built, label) <=> label = seg
<1>1. Len(seg) \in Nat /\ Len(label) \in Nat /\ W \in Nat /\ seg \in Seq(Bytes) /\ mode \in Modes
  BY WordAssumption DEF SegmentIs
<1>2. EdgeWord = [k \in 0..(W - 1) |-> IF k < Len(seg) THEN seg[k + 1] ELSE 0]
  BY EdgeWordIs
<1>3. LoadAt(built, label, 0) = [k \in 0..(W - 1) |-> IF k < Len(label) THEN label[k + 1] ELSE 0]
  BY FirstWordIs
<1>4. ASSUME EdgeMatches(built, label)
      PROVE  label = seg
  <2>1. /\ LoadAt(built, label, 0) = EdgeWord
        /\ Len(label) = Len(seg)
        /\ Len(seg) <= W \/ SameFrom(mode, label, seg, Len(seg), W)
    BY <1>4 DEF EdgeMatches
  <2>2. ASSUME NEW i \in 1..Len(seg)
        PROVE  label[i] = seg[i]
    <3>1. CASE i <= W
      <4>1. i - 1 \in 0..(W - 1) /\ i - 1 < Len(seg) /\ (i - 1) + 1 = i
        BY <1>1, <3>1
      <4>2. LoadAt(built, label, 0)[i - 1] = label[(i - 1) + 1] /\ EdgeWord[i - 1] = seg[(i - 1) + 1]
        BY <1>2, <1>3, <2>1, <4>1
      <4> QED
        BY <2>1, <4>1, <4>2
    <3>2. CASE i > W
      <4>1. SameFrom(mode, label, seg, Len(label), W)
        BY <1>1, <2>1, <3>2
      <4>2. i \in (W + 1)..Len(label)
        BY <1>1, <2>1, <3>2
      <4> QED
        BY <1>1, <2>1, <4>1, <4>2, SameFromAgrees
    <3> QED
      BY <1>1, <3>1, <3>2
  <2> QED
    BY <1>1, <2>1, <2>2, SeqEqual
<1>5. ASSUME label = seg
      PROVE  EdgeMatches(built, label)
  <2>1. LoadAt(built, label, 0) = EdgeWord
    BY <1>2, <1>3, <1>5
  <2>2. SameFrom(mode, label, seg, Len(seg), W)
    BY <1>5 DEF SameFrom
  <2> QED
    BY <1>5, <2>1, <2>2 DEF EdgeMatches
<1> QED
  BY <1>4, <1>5

\* find_literal's test holds of the path itself and of no other literal.
LEMMA SlotMatchesPath ==
    ASSUME mode \in Modes, path \in Seq(Bytes), NEW literal \in Seq(Bytes)
    PROVE  SlotMatches(literal) <=> literal = path
<1>1. ASSUME SlotMatches(literal)
      PROVE  literal = path
  <2>1. Len(literal) = Len(path) /\ SameFrom(mode, literal, path, Len(literal), 0)
    BY <1>1 DEF SlotMatches
  <2>2. \A i \in (0 + 1)..Len(literal) : literal[i] = path[i]
    BY <2>1, SameFromAgrees
  <2>3. \A i \in 1..Len(literal) : literal[i] = path[i]
    BY <2>2
  <2> QED
    BY <2>1, <2>3, SeqEqual
<1>2. ASSUME literal = path
      PROVE  SlotMatches(literal)
  BY <1>2 DEF SlotMatches, SameFrom
<1> QED
  BY <1>1, <1>2

\* The hash of a label is computed of the same words whenever they are loaded;
\* so is a segment's, whose first word is masked out of the path.
LEMMA EdgeHashedSame ==
    ASSUME SegmentIs, NEW built \in Modes
    PROVE  EdgeHashed(built, LoadAt(built, seg, 0), seg) = EdgeHashed(mode, EdgeWord, seg)
<1>1. Len(seg) \in Nat /\ W \in Nat /\ seg \in Seq(Bytes) /\ mode \in Modes
  BY WordAssumption DEF SegmentIs
<1>2. LoadAt(built, seg, 0) = EdgeWord
  BY <1>1, FirstWordIs, EdgeWordIs
<1>3. ASSUME Len(seg) > W
      PROVE  LoadAt(built, seg, Len(seg) - W) = LoadAt(mode, seg, Len(seg) - W)
  <2> DEFINE at == Len(seg) - W
  <2>1. at \in 0..Len(seg)
    BY <1>1, <1>3
  <2> HIDE DEF at
  <2>2. /\ LoadAt(built, seg, at) =
               [k \in 0..(W - 1) |-> IF at + k < Len(seg) THEN seg[at + k + 1] ELSE 0]
        /\ LoadAt(mode, seg, at) =
               [k \in 0..(W - 1) |-> IF at + k < Len(seg) THEN seg[at + k + 1] ELSE 0]
    BY <1>1, <2>1, LoadIs
  <2> QED
    BY <2>2 DEF at
<1> QED
  BY <1>2, <1>3 DEF EdgeHashed

\* The hash of a whole path is computed of the same words, at build time and at
\* a lookup.
LEMMA PathHashedSame ==
    ASSUME NEW m \in Modes, NEW built \in Modes, NEW s \in Seq(Bytes)
    PROVE  PathHashed(built, s) = PathHashed(m, s)
<1>1. \A i \in Steps(0, Len(s)) : i \in 0..Len(s)
  BY DEF Steps
<1>2. ASSUME NEW i \in Steps(0, Len(s))
      PROVE  LoadAt(built, s, i) = LoadAt(m, s, i)
  <2>1. i \in 0..Len(s)
    BY <1>1
  <2>2. /\ LoadAt(built, s, i) = [k \in 0..(W - 1) |-> IF i + k < Len(s) THEN s[i + k + 1] ELSE 0]
        /\ LoadAt(m, s, i) = [k \in 0..(W - 1) |-> IF i + k < Len(s) THEN s[i + k + 1] ELSE 0]
    BY <2>1, LoadIs
  <2> QED
    BY <2>2
<1> QED
  BY <1>2 DEF PathHashed

-----------------------------------------------------------------------------
(* The walk over a path.                                                   *)

Types ==
    /\ path \in Paths /\ mode \in Modes
    /\ pos \in Nat /\ seglen \in Nat /\ pos <= Len(path) + 1
    /\ pc \in {"read", "scan", "cut", "done"}
    /\ pc = "read" => seglen = 0
    /\ pc \in {"scan", "cut"} => pos + seglen <= Len(path)

\* The bytes passed over, as bytes of the path.
PassedOver ==
    pc \in {"scan", "cut"} => \A i \in (pos + 1)..(pos + seglen) : path[i] # Slash

\* A segment is cut off by the end of the path or by a slash.
CutOff ==
    pc = "cut" => pos + seglen = Len(path) \/ path[pos + seglen + 1] = Slash

SegmentInv == Types /\ PassedOver /\ CutOff

\* The walk begins at the first byte, with no byte of a segment passed over.
LEMMA SegmentInit == Init => SegmentInv
<1> SUFFICES ASSUME Init
             PROVE  SegmentInv
  OBVIOUS
<1>1. path \in Seq(Bytes) /\ Len(path) > 0
  BY PathsAssumption DEF Init
<1> QED
  BY <1>1 DEF Init, SegmentInv, Types, PassedOver, CutOff

\* One word of the path read and searched: the bytes before the slash found, or
\* all of them, are no slashes.
LEMMA WordSearched ==
    ASSUME mode \in Modes, path \in Seq(Bytes), NEW at \in 0..Len(path),
           NEW n \in Nat, n = Len(path) - at
    PROVE  LET k == FirstSlash(LoadAt(mode, path, at), n)
           IN  /\ k \in Nat /\ k <= W
               /\ k < W => k < n /\ path[at + k + 1] = Slash
               /\ \A i \in (at + 1)..Len(path) : i <= at + k => path[i] # Slash
<1> DEFINE w == LoadAt(mode, path, at)
           k == FirstSlash(w, n)
<1>1. w \in [0..(W - 1) -> Bytes]
  BY LoadWord
<1>2. w = [j \in 0..(W - 1) |-> IF at + j < Len(path) THEN path[at + j + 1] ELSE 0]
  BY LoadIs
<1> HIDE DEF w
<1>3. /\ k \in Nat /\ k <= W
      /\ k < W => k < n /\ w[k] = Slash
      /\ \A j \in 0..(W - 1) : j < k /\ j < n => w[j] # Slash
  BY <1>1, FirstSlashIs
<1> HIDE DEF k
<1>4. W \in Nat /\ at \in Nat /\ Len(path) \in Nat
  BY WordAssumption
<1>5. k < W => path[at + k + 1] = Slash
  <2>1. k < W => k \in 0..(W - 1) /\ at + k < Len(path)
    BY <1>3, <1>4
  <2> QED
    BY <1>2, <1>3, <2>1
<1>6. ASSUME NEW i \in (at + 1)..Len(path), i <= at + k
      PROVE  path[i] # Slash
  <2>1. /\ (i - at) - 1 \in 0..(W - 1) /\ (i - at) - 1 < k /\ (i - at) - 1 < n
        /\ at + ((i - at) - 1) < Len(path) /\ (at + ((i - at) - 1)) + 1 = i
    BY <1>3, <1>4, <1>6
  <2>2. w[(i - at) - 1] = path[(at + ((i - at) - 1)) + 1]
    BY <1>2, <2>1
  <2> QED
    BY <1>3, <2>1, <2>2
<1> QED
  BY <1>3, <1>5, <1>6 DEF w, k

\* Every step of the walk over a path keeps the invariant.
LEMMA SegmentStep == SegmentInv /\ [Next]_vars => SegmentInv'
<1> SUFFICES ASSUME SegmentInv, [Next]_vars
             PROVE  SegmentInv'
  OBVIOUS
<1>1. path \in Seq(Bytes) /\ Len(path) \in Nat /\ W \in Nat /\ W > 0 /\ pos \in Nat /\ seglen \in Nat
  BY WordAssumption, PathsAssumption DEF SegmentInv, Types
<1>2. CASE Finish
  BY <1>2 DEF Finish, SegmentInv, Types, PassedOver, CutOff
<1>3. CASE Read
  <2> DEFINE k == FirstSlash(LoadAt(mode, path, pos), rem)
  <2>1. /\ pc = "read" /\ rem >= 0 /\ rem = Len(path) - pos /\ rem \in Nat /\ pos \in 0..Len(path)
        /\ path' = path /\ mode' = mode /\ pos' = pos /\ mode \in Modes /\ path \in Paths
    BY <1>1, <1>3 DEF Read, rem, SegmentInv, Types
  <2>2. /\ k \in Nat /\ k <= W
        /\ k < W => k < rem /\ path[pos + k + 1] = Slash
        /\ \A i \in (pos + 1)..Len(path) : i <= pos + k => path[i] # Slash
    BY <1>1, <2>1, WordSearched
  <2>3. \/ k < W /\ seglen' = k /\ pc' = "cut"
        \/ k = W /\ seglen' = Min({rem, W}) /\ pc' = "scan"
    <3>1. IF k < W THEN seglen' = k /\ pc' = "cut" ELSE seglen' = Min({rem, W}) /\ pc' = "scan"
      BY <1>3 DEF Read, first
    <3> QED
      BY <3>1, <2>2, <1>1
  <2> HIDE DEF k
  <2>4. CASE k < W /\ seglen' = k /\ pc' = "cut"
    BY <1>1, <2>1, <2>2, <2>4 DEF SegmentInv, Types, PassedOver, CutOff
  <2>5. CASE k = W /\ seglen' = Min({rem, W}) /\ pc' = "scan"
    <3>1. seglen' \in Nat /\ seglen' <= rem /\ seglen' <= W
      BY <1>1, <2>1, <2>5, MinLeast
    <3>2. Types' /\ CutOff'
      BY <1>1, <2>1, <2>5, <3>1 DEF SegmentInv, Types, CutOff
    <3>3. \A i \in (pos + 1)..(pos + seglen') : path[i] # Slash
      BY <1>1, <2>1, <2>2, <2>5, <3>1
    <3>4. PassedOver'
      BY <2>1, <3>3 DEF PassedOver
    <3> QED
      BY <3>2, <3>4 DEF SegmentInv
  <2> QED
    BY <2>3, <2>4, <2>5
<1>4. CASE Scan
  <2> DEFINE at == pos + seglen
             k == FirstSlash(LoadAt(mode, path, pos + seglen), rem - seglen)
  <2>1. /\ pc = "scan" /\ seglen < rem /\ rem = Len(path) - pos
        /\ at \in 0..Len(path) /\ rem - seglen = Len(path) - at /\ rem - seglen \in Nat
        /\ path' = path /\ mode' = mode /\ pos' = pos /\ mode \in Modes /\ path \in Paths
        /\ \A i \in (pos + 1)..at : path[i] # Slash
    BY <1>1, <1>4 DEF Scan, rem, SegmentInv, Types, PassedOver
  <2>2. /\ k \in Nat /\ k <= W
        /\ k < W => k < rem - seglen /\ path[at + k + 1] = Slash
        /\ \A i \in (at + 1)..Len(path) : i <= at + k => path[i] # Slash
    BY <1>1, <2>1, WordSearched
  <2>3. \/ k < W /\ seglen' = seglen + k /\ pc' = "cut"
        \/ k = W /\ seglen' = Onwards /\ pc' = "scan"
    <3>1. IF k < W THEN seglen' = seglen + k /\ pc' = "cut" ELSE seglen' = Onwards /\ pc' = pc
      BY <1>4 DEF Scan
    <3> QED
      BY <3>1, <2>1, <2>2, <1>1
  <2> HIDE DEF k
  <2>4. CASE k < W /\ seglen' = seglen + k /\ pc' = "cut"
    BY <1>1, <2>1, <2>2, <2>4 DEF SegmentInv, Types, PassedOver, CutOff
  <2>5. CASE k = W /\ seglen' = Onwards /\ pc' = "scan"
    <3>1. seglen' \in Nat /\ seglen' <= rem /\ seglen' <= seglen + W
      BY <1>1, <2>1, <2>5 DEF Onwards
    <3>2. Types' /\ CutOff'
      BY <1>1, <2>1, <2>5, <3>1 DEF SegmentInv, Types, CutOff
    <3>3. ASSUME NEW i \in (pos + 1)..(pos + seglen')
          PROVE  path[i] # Slash
      <4>1. CASE i <= at
        BY <1>1, <2>1, <3>1, <4>1
      <4>2. CASE i > at
        <5>1. i \in (at + 1)..Len(path) /\ i <= at + k
          BY <1>1, <2>1, <2>5, <3>1, <4>2
        <5> QED
          BY <2>2, <5>1
      <4> QED
        BY <1>1, <3>1, <4>1, <4>2
    <3>4. PassedOver'
      BY <2>1, <3>3 DEF PassedOver
    <3> QED
      BY <3>2, <3>4 DEF SegmentInv
  <2> QED
    BY <2>3, <2>4, <2>5
<1>5. CASE ScanToEnd
  BY <1>1, <1>5 DEF ScanToEnd, rem, SegmentInv, Types, PassedOver, CutOff
<1>6. CASE NextPos
  BY <1>1, <1>6 DEF NextPos, NextStart, SegmentInv, Types, PassedOver, CutOff
<1>7. CASE Done \/ UNCHANGED vars
  BY <1>7 DEF Done, vars, SegmentInv, Types, PassedOver, CutOff
<1> QED
  BY <1>2, <1>3, <1>4, <1>5, <1>6, <1>7 DEF Next

\* The walk over a path (walk and next_slash in route/lookup.hpp) stays inside it,
\* passes over no slash inside a segment and cuts one only where the path or a
\* slash ends it.
THEOREM SegmentInvariant == Spec => []SegmentInv
BY SegmentInit, SegmentStep, PTL DEF Spec

\* What is known of the segment at hand.
LEMMA InvSegment ==
    ASSUME SegmentInv, pc \in {"scan", "cut"}
    PROVE  SegmentIs /\ \A i \in 1..Len(seg) : seg[i] # Slash
<1>1. /\ path \in Seq(Bytes) /\ mode \in Modes /\ pos \in Nat /\ seglen \in Nat
      /\ Len(path) \in Nat /\ pos + seglen <= Len(path)
      /\ \A i \in (pos + 1)..(pos + seglen) : path[i] # Slash
  BY PathsAssumption DEF SegmentInv, Types, PassedOver
<1> DEFINE lo == pos + 1
           hi == pos + seglen
<1>2. \A i \in lo..hi : path[i] \in Bytes
  BY <1>1
<1>3. lo \in Int /\ hi \in Int /\ seg = SubSeq(path, lo, hi)
  BY <1>1 DEF seg
<1> HIDE DEF lo, hi
<1>4. /\ seg \in Seq(Bytes)
      /\ Len(seg) = IF lo <= hi THEN hi - lo + 1 ELSE 0
      /\ \A i \in 1..(hi - lo + 1) : seg[i] = path[lo + i - 1]
  BY <1>2, <1>3, SubSeqProperties
<1>5. Len(seg) = seglen
  BY <1>1, <1>4 DEF lo, hi
<1>6. ASSUME NEW i \in 1..Len(seg)
      PROVE  seg[i] = path[pos + i] /\ pos + i \in (pos + 1)..(pos + seglen)
  <2>1. i \in 1..(hi - lo + 1) /\ lo + i - 1 = pos + i
    BY <1>1, <1>5 DEF lo, hi
  <2> QED
    BY <1>1, <1>4, <1>5, <2>1
<1> QED
  BY <1>1, <1>4, <1>5, <1>6 DEF SegmentIs

\* For every path and width of a word: a segment is cut at the first slash after
\* its start, or at the path's end, though its length is found by arithmetic on
\* whole words that flags other bytes too (walk, lookup.hpp; first_slash,
\* words.hpp).
THEOREM SegmentsCutAtSlashes == Spec => []CutAtSlashes
<1>1. ASSUME SegmentInv
      PROVE  CutAtSlashes
  <2>1. path \in Seq(Bytes) /\ pos \in Nat /\ seglen \in Nat /\ Len(path) \in Nat
    BY <1>1, PathsAssumption DEF SegmentInv, Types
  <2>2. pc \in {"scan", "cut"} => seglen <= rem /\ \A i \in 1..Len(seg) : seg[i] # Slash
    <3>1. pc \in {"scan", "cut"} => pos + seglen <= Len(path)
      BY <1>1 DEF SegmentInv, Types
    <3>2. pc \in {"scan", "cut"} => seglen <= rem
      BY <2>1, <3>1 DEF rem
    <3> QED
      BY <1>1, <3>2, InvSegment
  <2>3. pc = "cut" => seglen = rem \/ Byte(path, pos + seglen) = Slash
    <3>1. pc = "cut" => /\ pos + seglen <= Len(path)
                        /\ pos + seglen = Len(path) \/ path[pos + seglen + 1] = Slash
      BY <1>1 DEF SegmentInv, Types, CutOff
    <3>2. CASE pos + seglen = Len(path)
      BY <2>1, <3>2 DEF rem
    <3>3. CASE pos + seglen < Len(path)
      <4>1. pos + seglen \in 0..(Len(path) - 1)
        BY <2>1, <3>3
      <4> QED
        BY <2>1, <3>1, <3>3, <4>1 DEF Byte
    <3> QED
      BY <2>1, <3>1, <3>2, <3>3
  <2> QED
    BY <2>2, <2>3 DEF CutAtSlashes
<1> QED
  BY <1>1, SegmentInvariant, PTL

\* No word same_from reads is outside the n bytes of its texts.
LEMMA WordsInside ==
    ASSUME NEW n \in Nat, n >= W, NEW from \in Nat, NEW i \in WordStarts(n, from)
    PROVE  i >= 0 /\ i + W <= n
<1>1. W \in Nat
  BY WordAssumption
<1>2. CASE i = n - W
  BY <1>1, <1>2
<1>3. CASE i \in from..(n - 1) /\ i + W < n
  BY <1>1, <1>3
<1> QED
  BY <1>2, <1>3 DEF WordStarts, Steps

\* "Never reads outside s" (words.hpp:26), of the path and of every segment, at
\* every offset a loop may load from, and of the words same_from reads.
THEOREM LoadsStayInside == Spec => []LoadsInside
<1>1. ASSUME SegmentInv
      PROVE  LoadsInside
  <2>1. path \in Seq(Bytes) /\ mode \in Modes
    BY <1>1, PathsAssumption DEF SegmentInv, Types
  <2>2. pc = "cut" => seg \in Seq(Bytes)
    BY <1>1, InvSegment DEF SegmentIs
  <2>3. ASSUME NEW s \in Seq(Bytes), NEW i \in 0..Len(s)
        PROVE  LET a == Access(mode, s, i) IN a.from >= 0 /\ a.from + a.n <= Len(s)
    <3> DEFINE a == Access(mode, s, i)
    <3>1. a.from \in Nat /\ a.from + a.n <= Len(s)
      BY <2>1, AccessInside
    <3> HIDE DEF a
    <3>2. a.from >= 0
      BY <3>1
    <3> QED
      BY <3>1, <3>2 DEF a
  <2>4. ASSUME NEW s \in Seq(Bytes), Len(s) >= W, NEW from \in {0, W},
               NEW i \in WordStarts(Len(s), from)
        PROVE  i >= 0 /\ i + W <= Len(s)
    <3>1. Len(s) \in Nat /\ from \in Nat
      BY WordAssumption
    <3> QED
      BY <2>4, <3>1, WordsInside
  <2>5. {path} \cup (IF pc = "cut" THEN {seg} ELSE {}) \subseteq Seq(Bytes)
    BY <2>1, <2>2
  <2> QED
    BY <2>3, <2>4, <2>5 DEF LoadsInside
<1> QED
  BY <1>1, SegmentInvariant, PTL

\* A text that differs from one by a byte is a text.
LEMMA NearTexts ==
    ASSUME NEW s \in Seq(Bytes)
    PROVE  {s} \cup Near(s) \subseteq Seq(Bytes)
<1>1. ASSUME NEW i \in 1..Len(s), NEW b \in Changes
      PROVE  [s EXCEPT ![i] = b] \in Seq(Bytes)
  BY PathsAssumption, ExceptSeq
<1>2. ASSUME NEW i \in {Len(s) - 1} \cap Nat
      PROVE  SubSeq(s, 1, i) \in Seq(Bytes)
  <2>1. 1 \in Int /\ i \in Int /\ \A j \in 1..i : s[j] \in Bytes
    OBVIOUS
  <2> QED
    BY <2>1, SubSeqProperties
<1>3. ASSUME NEW b \in Changes
      PROVE  Append(s, b) \in Seq(Bytes)
  BY PathsAssumption
<1>4. Near(s) = {[s EXCEPT ![i] = b] : i \in 1..Len(s), b \in Changes}
                   \cup {SubSeq(s, 1, i) : i \in {Len(s) - 1} \cap Nat}
                   \cup {Append(s, b) : b \in Changes}
  BY DEF Near
<1>5. {[s EXCEPT ![i] = b] : i \in 1..Len(s), b \in Changes} \subseteq Seq(Bytes)
  BY <1>1
<1>6. {SubSeq(s, 1, i) : i \in {Len(s) - 1} \cap Nat} \subseteq Seq(Bytes)
  BY <1>2
<1>7. {Append(s, b) : b \in Changes} \subseteq Seq(Bytes)
  BY <1>3
<1> QED
  BY <1>4, <1>5, <1>6, <1>7

\* Whatever the lengths of the texts and the width of a word, an edge's label
\* and an exact-match slot's path are compared with no mistake, and hashed to the
\* same number where they are to match, across the modes (find_edge and
\* find_literal, lookup.hpp).
THEOREM LabelsComparedRight == Spec => []LabelsCompared
<1>1. ASSUME SegmentInv
      PROVE  LabelsCompared
  <2>1. path \in Seq(Bytes) /\ mode \in Modes
    BY <1>1, PathsAssumption DEF SegmentInv, Types
  <2>2. ASSUME pc = "cut", NEW built \in Modes
        PROVE  /\ \A label \in {seg} \cup Near(seg) : EdgeMatches(built, label) <=> label = seg
               /\ EdgeHashed(built, LoadAt(built, seg, 0), seg) = EdgeHashed(mode, EdgeWord, seg)
    <3>1. SegmentIs
      BY <1>1, <2>2, InvSegment
    <3>2. \A label \in {seg} \cup Near(seg) : label \in Seq(Bytes)
      BY <3>1, NearTexts DEF SegmentIs
    <3> QED
      BY <3>1, <3>2, EdgeMatchesLabel, EdgeHashedSame
  <2>3. /\ \A literal \in {path} \cup Near(path) : SlotMatches(literal) <=> literal = path
        /\ \A built \in Modes : PathHashed(built, path) = PathHashed(mode, path)
    <3>1. \A literal \in {path} \cup Near(path) : literal \in Seq(Bytes)
      BY <2>1, NearTexts
    <3> QED
      BY <2>1, <3>1, SlotMatchesPath, PathHashedSame
  <2> QED
    BY <2>2, <2>3 DEF LabelsCompared
<1> QED
  BY <1>1, SegmentInvariant, PTL

\* For numbers of any width: a typed segment takes the decimal numbers of its type
\* and no others, up to as many digits as the last one has, and the conversion
\* gives the handler the number taken (matches_u64 and matches_i64, pattern.hpp;
\* convert, checked.hpp).
THEOREM NumbersTakenRight == Spec => []NumbersExact
<1>1. ASSUME SegmentInv, pc = "cut"
      PROVE  seg \in Seq(Int)
  <2>1. seg \in Seq(Bytes)
    BY <1>1, InvSegment DEF SegmentIs
  <2>2. \A k \in 1..Len(seg) : seg[k] \in Int
    <3>1. \A k \in 1..Len(seg) : seg[k] \in Bytes
      BY <2>1
    <3>2. Bytes \subseteq Int
      BY DEF Bytes
    <3> QED
      BY <3>1, <3>2, Zenon
  <2>3. seg \in [1..Len(seg) -> Int] /\ Len(seg) \in Nat
    BY <2>1, <2>2
  <2> QED
    BY <2>3
<1>2. ASSUME SegmentInv
      PROVE  NumbersExact
  <2> SUFFICES ASSUME pc = "cut" PROVE NumbersExact
    BY DEF NumbersExact
  <2>1. seg \in Seq(Int)
    BY <1>1, <1>2
  <2>2. /\ \A limit \in {U64Last, I64Last, I64First} :
               limit \in Seq(DigitBytes) /\ limit # << >> /\ limit[1] # 48
        /\ U64 = 0..ValueOf(U64Last)
        /\ I64 = (-ValueOf(I64Last) - 1)..ValueOf(I64Last)
        /\ ValueOf(I64First) = ValueOf(I64Last) + 1
    BY LiteralsAssumption DEF U64, I64
  <2> DEFINE d == DigitsOf(seg)
             v == NumberOf(seg)
             limit == IF Negative(seg) THEN I64First ELSE I64Last
  <2>3. /\ MatchesU64(seg) <=>
               d # << >> /\ AllDigits(d) /\ ~Negative(seg) /\ v \in U64 /\ Len(d) <= Len(U64Last)
        /\ MatchesU64(seg) => FromChars(seg, FALSE, U64) = v
    BY <2>1, <2>2, UnsignedText DEF MatchesU64
  <2>4. /\ MatchesI64(seg) <=>
               d # << >> /\ AllDigits(d) /\ v \in I64 /\ Len(d) <= Len(limit)
        /\ MatchesI64(seg) => FromChars(seg, TRUE, I64) = v
    BY <2>1, <2>2, SignedText DEF MatchesI64
  <2>5. Convert("u64", seg) = FromChars(seg, FALSE, U64) /\ Convert("i64", seg) = FromChars(seg, TRUE, I64)
    BY DEF Convert
  <2> QED
    BY <2>3, <2>4, <2>5, Zenon DEF NumbersExact
<1> QED
  BY <1>2, SegmentInvariant, PTL
=============================================================================

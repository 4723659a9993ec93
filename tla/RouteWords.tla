----------------------------- MODULE RouteWords -----------------------------
(***************************************************************************)
(* Reading a text a word at a time (route/detail/words.hpp), while the     *)
(* program is compiled (mode "constant") and when it runs (mode "run").    *)
(*                                                                         *)
(* A text is a sequence of bytes and offsets in it count from 0.  A word   *)
(* is a function from 0..W-1 to bytes, the low byte first, as a            *)
(* little-endian load leaves it; W is 8 in the code.                       *)
(***************************************************************************)
EXTENDS Integers, SequencesExt

CONSTANT W

ASSUME WordAssumption == W \in Nat \ {0}

Modes == {"constant", "run"}

Bytes == 0..255

\* What is read outside a text is no byte of it.
Outside == -1

Byte(s, i) == IF i \in 0..(Len(s) - 1) THEN s[i + 1] ELSE Outside

ZeroWord == [k \in 0..(W - 1) |-> 0]

Word(s, i) == [k \in 0..(W - 1) |-> Byte(s, i + k)]

\* Mutants of Access: shorter than a word it still loads one at run time; the
\* shift counts the bytes that remain.
AccessShort(mode, s, pos) ==
    LET rem == Len(s) - pos
    IN  IF mode = "run" /\ rem > 0 THEN [from |-> Len(s) - Max({W, rem}), n |-> W, down |-> Max({0, W - rem})]
        ELSE [from |-> pos, n |-> Min({rem, W}), down |-> 0]
AccessByRest(mode, s, pos) ==
    LET rem == Len(s) - pos
    IN  CASE rem = 0 -> [from |-> pos, n |-> 0, down |-> 0]
          [] mode = "run" /\ rem >= W -> [from |-> pos, n |-> W, down |-> 0]
          [] mode = "run" /\ rem \in 1..(W - 1) /\ Len(s) >= W ->
                 [from |-> Len(s) - W, n |-> W, down |-> rem]
          [] OTHER -> [from |-> pos, n |-> Min({rem, W}), down |-> 0]

\* How load_at reads: n bytes from an offset on, shifted down by some of them.
Access(mode, s, pos) ==
    LET rem == Len(s) - pos
    IN  CASE rem = 0 -> [from |-> pos, n |-> 0, down |-> 0]
          [] mode = "run" /\ rem >= W -> [from |-> pos, n |-> W, down |-> 0]
          [] mode = "run" /\ rem \in 1..(W - 1) /\ Len(s) >= W ->
                 [from |-> Len(s) - W, n |-> W, down |-> W - rem]
          [] OTHER -> [from |-> pos, n |-> Min({rem, W}), down |-> 0]

LoadAt(mode, s, pos) ==
    LET a == Access(mode, s, pos)
    IN  [k \in 0..(W - 1) |->
            IF k + a.down < a.n THEN Byte(s, a.from + k + a.down) ELSE 0]

\* Where a loop that starts at an offset and goes on by words is.
Steps(from, n) == {from + q * W : q \in 0..n} \cap (from..(n - 1))

\* Mutant of WordStarts: the loop ends where its last word starts.
AllStarts(n, from) == Steps(from, n) \cup {n - W}

\* Where same_from reads words, not through load_at: one after the other, and
\* one that ends at n.
WordStarts(n, from) == {i \in Steps(from, n) : i + W < n} \cup {n - W}

\* Mutant of SameFrom: without the word that ends at n.
SameWords(mode, a, b, n, from) ==
    IF mode = "run" /\ n >= W
    THEN \A i \in WordStarts(n, from) \ {n - W} : Word(a, i) = Word(b, i)
    ELSE \A i \in Steps(from, n) : LoadAt(mode, a, i) = LoadAt(mode, b, i)

\* same_from(a, b, n, from)
SameFrom(mode, a, b, n, from) ==
    IF mode = "run" /\ n >= W
    THEN \A i \in WordStarts(n, from) : Word(a, i) = Word(b, i)
    ELSE \A i \in Steps(from, n) : LoadAt(mode, a, i) = LoadAt(mode, b, i)

Slash == 47  \* "/", each byte of kSlashes

\* b ^ Slash: the bits in which they differ, each given by its power of two.
Xored ==
    [b \in Bytes |->
        LET Bit(p) == IF (b \div p) % 2 = (Slash \div p) % 2 THEN 0 ELSE p
        IN  Bit(1) + Bit(2) + Bit(4) + Bit(8) + Bit(16) + Bit(32) + Bit(64) + Bit(128)]

\* What the subtraction of 1 from each byte of x borrows from each.
Borrow(x) ==
    LET borrow[k \in 0..W] ==
            IF k > 0 /\ x[k - 1] < 1 + borrow[k - 1] THEN 1 ELSE 0
    IN  borrow

\* The bits kHigh leaves of (x - kLow) & ~x.
Flags(w) ==
    LET x == [k \in DOMAIN w |-> Xored[w[k]]]
    IN  {k \in DOMAIN w : (x[k] - 1 - Borrow(x)[k]) % 256 >= 128 /\ x[k] < 128}

\* Mutant of FirstSlash: the highest flag.
LastFlag(w, n) == LET i == IF Flags(w) = {} THEN W ELSE Max(Flags(w)) IN IF i < n THEN i ELSE W

\* first_slash(w, n)
FirstSlash(w, n) == LET i == IF Flags(w) = {} THEN W ELSE Min(Flags(w)) IN IF i < n THEN i ELSE W

\* w & mask_low(n)
MaskLow(w, n) == [k \in DOMAIN w |-> IF k < n THEN w[k] ELSE 0]

\* What the hashes are computed of: an edge's, of its first word, its length and
\* its last word; a path's, of its length and its words.
EdgeHashed(mode, first, s) ==
    <<first, Len(s), IF Len(s) > W THEN LoadAt(mode, s, Len(s) - W) ELSE ZeroWord>>

PathHashed(mode, s) == <<Len(s), [i \in Steps(0, Len(s)) |-> LoadAt(mode, s, i)]>>
=============================================================================

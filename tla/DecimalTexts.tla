---------------------------- MODULE DecimalTexts ----------------------------
(***************************************************************************)
(* Numbers as texts, that is as sequences of bytes: what the typed         *)
(* segments of route/pattern.hpp compare, and what std::from_chars reads.  *)
(***************************************************************************)
EXTENDS Integers, Sequences

Minus == 45
DigitBytes == 48..57

AllDigits(s) == \A i \in 1..Len(s) : s[i] \in DigitBytes

Negative(s) == s # << >> /\ s[1] = Minus

DigitsOf(s) == IF Negative(s) THEN Tail(s) ELSE s

\* s <= t, for texts of one length.
TextLeq(s, t) ==
    \/ s = t
    \/ \E i \in 1..Len(s) : s[i] < t[i] /\ \A j \in 1..(i - 1) : s[j] = t[j]

\* A text of digits that is not above a limit, told by the limit's digits.
DigitsUpTo(s, limit) ==
    /\ Len(s) \in 1..Len(limit)
    /\ AllDigits(s)
    /\ Len(s) < Len(limit) \/ TextLeq(s, limit)

\* The value of a text of digits.
ValueOf(s) ==
    LET upTo[k \in 0..Len(s)] == IF k = 0 THEN 0 ELSE 10 * upTo[k - 1] + s[k] - 48
    IN  upTo[Len(s)]

\* The number a text of digits with a sign says.
NumberOf(s) == IF Negative(s) THEN -ValueOf(DigitsOf(s)) ELSE ValueOf(DigitsOf(s))

\* std::from_chars for a type of a range: it reads the digits there are, after a
\* minus for a signed type, and gives their value if it fits the type; otherwise
\* it leaves what was there, here 0.
FromChars(s, signed, range) ==
    LET d      == IF signed THEN DigitsOf(s) ELSE s
        isEnd  == {i \in 0..Len(d) : AllDigits(SubSeq(d, 1, i))}
        end    == CHOOSE i \in isEnd : \A j \in isEnd : j <= i
        v      == ValueOf(SubSeq(d, 1, end))
        value  == IF signed /\ Negative(s) THEN -v ELSE v
    IN  IF end > 0 /\ value \in range THEN value ELSE 0
=============================================================================

---------------------------- MODULE RouteNumbers ----------------------------
(***************************************************************************)
(* Typed segments: which texts matches_u64 and matches_i64 accept          *)
(* (route/pattern.hpp), and the value a handler is called with             *)
(* (detail::convert of route/checked.hpp).  Numbers have a given number of *)
(* bits, 64 in the code.                                                   *)
(***************************************************************************)
EXTENDS DecimalTexts

CONSTANTS
    Bits,
    U64Last,   \* the text of the last unsigned number, a literal in the code
    I64Last,   \* of the last signed one
    I64First   \* of the first signed one, without its minus

U64Max == 2 ^ Bits - 1
I64Max == 2 ^ (Bits - 1) - 1

\* The literals are the digits of the limits.
ASSUME LiteralsAssumption ==
    /\ Bits \in Nat \ {0}
    /\ \A limit \in {U64Last, I64Last, I64First} :
           limit \in Seq(DigitBytes) /\ limit # << >> /\ limit[1] # 48
    /\ ValueOf(U64Last) = U64Max
    /\ ValueOf(I64Last) = I64Max
    /\ ValueOf(I64First) = I64Max + 1

U64 == 0..U64Max
I64 == (-I64Max - 1)..I64Max

\* Mutant of MatchesU64: by the number of digits alone.
MatchesU64Long(s) == Len(s) \in 1..Len(U64Last) /\ AllDigits(s)

MatchesU64(s) == DigitsUpTo(s, U64Last)

\* Mutant of MatchesI64: one limit for both signs.
MatchesI64Even(s) == DigitsUpTo(DigitsOf(s), I64Last)

MatchesI64(s) == DigitsUpTo(DigitsOf(s), IF Negative(s) THEN I64First ELSE I64Last)

\* Mutant of Convert: a signed number read as an unsigned one.
ConvertUnsigned(type, s) == IF type = "string" THEN s ELSE FromChars(s, FALSE, U64)

\* detail::convert, to the type of a parameter.
Convert(type, s) ==
    CASE type = "u64" -> FromChars(s, FALSE, U64)
      [] type = "i64" -> FromChars(s, TRUE, I64)
      [] OTHER        -> s
=============================================================================

--------------------------- MODULE MCRouteSegment ---------------------------
(***************************************************************************)
(* Every path up to a length over "/", "." (0x2E, which the arithmetic of  *)
(* a word mistakes for a slash when it follows one) and a letter; up to    *)
(* two bytes less with 0xAF too (a slash with its high bit set); and paths *)
(* of one segment over the digits, "-" and a letter.                       *)
(***************************************************************************)
EXTENDS RouteSegment

CONSTANTS MaxPath, MaxDigits

Over(bytes, n) == UNION {[1..k -> bytes] : k \in 0..n}

MCPaths ==
    {<<Slash>> \o s : s \in Over({Slash, 46, 97}, MaxPath - 1)
                          \cup Over({Slash, 46, 175, 97}, MaxPath - 3)
                          \cup Over(DigitBytes \cup {Minus, 97}, MaxDigits)}

MCChanges == {46, 98}

\* The limits of numbers of 4 bits.
Fifteen == <<49, 53>>
Seven == <<55>>
Eight == <<56>>
=============================================================================

---------------------------- MODULE MCRouteParse ----------------------------
(***************************************************************************)
(* Texts of up to three segments from a list of the ways to write one well *)
(* and wrong, the one in the middle from a shorter list, and of four and   *)
(* five from the shortest: one and two more than fit.                      *)
(***************************************************************************)
EXTENDS RouteParse

MCAlphabet ==
    {"/", "{", "}", "*", ":", "%", "_", "a", "z", "4", "-", " ", "u64", "i64", "string"}

MCLetters == {"a", "z", "u64", "i64", "string"}
MCDigits == {"4"}
MCHex == {"4", "a"}
MCPchars == MCLetters \cup MCDigits \cup {"_", "*", ":", "-"}

Few == {<< >>, <<"a">>, <<"{", "a", "}">>, <<"{", "*", "z", "}">>}

Literals ==
    {<<"z", ":", "-">>, <<"%", "4", "a", "z">>, <<"a", "%", "4">>, <<"%", "a", "z">>,
     <<"%">>, <<"a", " ">>, <<"a", "{", "z", "}">>, <<"}">>}

Parameters ==
    {<<"{", "z", ":", "u64", "}">>, <<"{", "a", ":", "i64", "}">>,
     <<"{", "_", "4", ":", "string", "}">>, <<"{", "u64", "}">>,
     <<"{", "a", ":", "}">>, <<"{", "a", ":", "z", "}">>,
     <<"{", "a", ":", "u64", ":", "u64", "}">>, <<"{", ":", "u64", "}">>,
     <<"{", "}">>, <<"{">>, <<"{", "a">>, <<"{", "4", "a", "}">>,
     <<"{", "a", "-", "}">>, <<"{", "a", "{", "z", "}", "}">>,
     <<"{", "*", "}">>, <<"{", "*", "a", ":", "u64", "}">>, <<"{", "*", "*", "a", "}">>}

Middle == Few \cup {<<"{", "a", ":", "i64", "}">>, <<"a", " ">>, <<"{", "}">>}

All == Few \cup Literals \cup Parameters

After(pieces, texts) == {t \o <<"/">> \o s : t \in texts, s \in pieces}

One == After(All, {<< >>})
Two == After(All, One)
Three == After(All, After(Middle, One))
Four == After(Few, After(Few, After(Few, After(Few, {<< >>}))))

Five == After(Few, Four)

MCInputs == {<< >>, <<"a">>, <<"{", "a", "}">>} \cup One \cup Two \cup Three \cup Four \cup Five

MCContinuations == {<< >>} \cup After(Few, {<< >>}) \cup After(Few, After(Few, {<< >>}))
=============================================================================

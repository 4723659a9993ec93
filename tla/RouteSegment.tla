---------------------------- MODULE RouteSegment ----------------------------
(***************************************************************************)
(* How walk (route/lookup.hpp) takes a path apart: one segment after the   *)
(* other, its length found a word at a time, and what it does with each:   *)
(* the comparison with an edge's label (find_edge), with the numbers a     *)
(* typed child takes, and, of the whole path, with an exact-match slot's   *)
(* (find_literal).                                                         *)
(*                                                                         *)
(* The tables' words and hashes may have been made in the other mode: a    *)
(* table built by the compiler is searched at run time.                    *)
(***************************************************************************)
EXTENDS RouteWords, RouteNumbers

CONSTANTS
    Paths,    \* the paths: not empty, the first byte a slash
    Changes   \* the bytes a label may have where the segment has another

ASSUME PathsAssumption ==
    /\ \A p \in Paths : p \in Seq(Bytes) /\ Len(p) > 0 /\ p[1] = Slash
    /\ Changes \subseteq Bytes

VARIABLES
    path,    \* the request's: never changed
    mode,    \* how the lookup is evaluated: never changed
    pos,     \* where the segment at hand starts
    seglen,  \* how many of its bytes are known to be no slash
    pc       \* "read", "scan", "cut" or "done"

vars == <<path, mode, pos, seglen, pc>>

rem == Len(path) - pos

first == LoadAt(mode, path, pos)

Init ==
    /\ path \in Paths
    /\ mode \in Modes
    /\ pos = IF Len(path) = 1 THEN 2 ELSE 1
    /\ seglen = 0
    /\ pc = "read"

Finish ==
    /\ pc = "read" /\ rem < 0
    /\ pc' = "done"
    /\ UNCHANGED <<path, mode, pos, seglen>>

\* The first word of the segment.
Read ==
    /\ pc = "read" /\ rem >= 0
    /\ LET k == FirstSlash(first, rem)
       IN  IF k < W THEN seglen' = k /\ pc' = "cut"
           ELSE seglen' = Min({rem, W}) /\ pc' = "scan"
    /\ UNCHANGED <<path, mode, pos>>

\* Mutant of Onwards: a last word that is not whole is not read.
WholeOnly == IF seglen + W <= rem THEN seglen + W ELSE seglen

Onwards == IF seglen + W < rem THEN seglen + W ELSE rem

\* Each word after it, until a slash or the end of the path.
Scan ==
    /\ pc = "scan" /\ seglen < rem
    /\ LET k == FirstSlash(LoadAt(mode, path, pos + seglen), rem - seglen)
       IN  IF k < W THEN seglen' = seglen + k /\ pc' = "cut"
           ELSE seglen' = Onwards /\ UNCHANGED pc
    /\ UNCHANGED <<path, mode, pos>>

ScanToEnd ==
    /\ pc = "scan" /\ seglen >= rem
    /\ pc' = "cut"
    /\ UNCHANGED <<path, mode, pos, seglen>>

\* After the segment and its slash.
NextStart == pos + seglen + 1

NextPos ==
    /\ pc = "cut"
    /\ pos' = NextStart
    /\ seglen' = 0
    /\ pc' = "read"
    /\ UNCHANGED <<path, mode>>

\* The walk is over.
Done == pc = "done" /\ UNCHANGED vars

Next == Finish \/ Read \/ Scan \/ ScanToEnd \/ NextPos \/ Done

Spec == Init /\ [][Next]_vars /\ WF_vars(Next)

-----------------------------------------------------------------------------
seg == SubSeq(path, pos + 1, pos + seglen)

\* Mutant of EdgeWord: the bytes after the segment are left in.
UnmaskedWord == first

EdgeWord == MaskLow(first, seglen)

\* find_edge's test of an edge, whose word was loaded from its label.
EdgeMatches(built, label) ==
    /\ LoadAt(built, label, 0) = EdgeWord
    /\ Len(label) = Len(seg)
    /\ Len(seg) <= W \/ SameFrom(mode, label, seg, Len(seg), W)

\* Mutant of SlotMatches: without the length.
SlotBegins(literal) == SameFrom(mode, literal, path, Len(literal), 0)

\* find_literal's test of a slot, its hash being the path's.
SlotMatches(literal) ==
    /\ Len(literal) = Len(path)
    /\ SameFrom(mode, literal, path, Len(literal), 0)

-----------------------------------------------------------------------------
(* Properties.                                                             *)

\* The bytes passed over are no slashes, also where a byte 0x2E after a slash or
\* a byte above 0x7F makes the word's arithmetic borrow; a segment ends at a
\* slash or at the end of the path.
CutAtSlashes ==
    /\ pc \in {"scan", "cut"} =>
           seglen <= rem /\ \A i \in 1..Len(seg) : seg[i] # Slash
    /\ pc = "cut" => seglen = rem \/ Byte(path, pos + seglen) = Slash

\* "Never reads outside s" (words.hpp:26): none of the loads does, of the path
\* or of the segment, at any offset the callers use; nor does a word same_from
\* reads of the n bytes of either text, from the first one on (find_literal) or
\* behind the first word (find_edge).
LoadsInside ==
    \A s \in {path} \cup (IF pc = "cut" THEN {seg} ELSE {}) :
        /\ \A i \in 0..Len(s) :
               LET a == Access(mode, s, i) IN a.from >= 0 /\ a.from + a.n <= Len(s)
        /\ mode = "run" /\ Len(s) >= W =>
               \A from \in {0, W} : \A i \in WordStarts(Len(s), from) :
                   i >= 0 /\ i + W <= Len(s)

\* The texts that differ from s by one byte, changed, missing or added.
Near(s) ==
    {[s EXCEPT ![i] = b] : i \in 1..Len(s), b \in Changes}
        \cup {SubSeq(s, 1, i) : i \in {Len(s) - 1} \cap Nat}
        \cup {Append(s, b) : b \in Changes}

\* An edge matches a segment exactly if its label is the segment, and then their
\* hashes are computed of the same words, whether the label's were loaded by the
\* compiler or by the program.  The same of a whole literal path and its slot:
\* the test after that of the hash tells the paths apart that have one hash.
LabelsCompared ==
    /\ pc = "cut" => \A built \in Modes :
           /\ \A label \in {seg} \cup Near(seg) : EdgeMatches(built, label) <=> label = seg
           /\ EdgeHashed(built, LoadAt(built, seg, 0), seg) = EdgeHashed(mode, EdgeWord, seg)
    /\ pc = "done" =>
           /\ \A literal \in {path} \cup Near(path) : SlotMatches(literal) <=> literal = path
           /\ \A built \in Modes : PathHashed(built, path) = PathHashed(mode, path)

\* A typed child takes the decimal numbers of its type, up to the last one, and
\* the handler gets the number the segment says: from_chars cannot fail on a
\* segment that matched (checked.hpp:159-160).  Of zeros in front, as many are
\* taken as the largest number has digits.
NumbersExact ==
    pc = "cut" =>
        LET d == DigitsOf(seg)
            v == NumberOf(seg)
            decimal == d # << >> /\ AllDigits(d)
        IN  /\ MatchesU64(seg) <=>
                   decimal /\ ~Negative(seg) /\ v \in U64 /\ Len(d) <= Len(U64Last)
            /\ MatchesI64(seg) <=>
                   /\ decimal /\ v \in I64
                   /\ Len(d) <= Len(IF Negative(seg) THEN I64First ELSE I64Last)
            /\ MatchesU64(seg) => Convert("u64", seg) = v
            /\ MatchesI64(seg) => Convert("i64", seg) = v

\* The path is taken apart to its end.
TakenApart == <>(pc = "done")
=============================================================================

---------------------------- MODULE RouteDispatch ----------------------------
(***************************************************************************)
(* The checked front end (route/checked.hpp) on top of the lookup: route   *)
(* declarations with their handlers, a table of them made by the compiler, *)
(* and the call of the handler a lookup found, its arguments converted     *)
(* from the captures:                                                      *)
(*     kTable.routes[match.route].handler(match.values(), request)         *)
(*                                                                         *)
(* A table is the sequence of its declarations, each the method and the    *)
(* pattern it was declared with; its handler is known by its place.        *)
(***************************************************************************)
EXTENDS RouteLookup, RouteNumbers

CONSTANT TextOf   \* the bytes of each segment text

\* route_specs: a route's value is the index of its declaration.
RouteSpecs(decls) ==
    [o \in Methods |->
        LET mine == {i \in 1..Len(decls) : decls[i].method = o}
        IN  [p \in {decls[i].pattern : i \in mine} |->
                (CHOOSE i \in mine : decls[i].pattern = p) - 1]]

\* make_static_table stops the compilation at a pattern that is none, at a bad
\* method and at two routes of one method that match the same paths.
ASSUME TablesAssumption ==
    \A decls \in Tables :
        /\ RoutesIn[decls] = RouteSpecs(decls)
        /\ \A i \in 1..Len(decls) : IsPattern(decls[i].pattern) /\ decls[i].method \in Methods
        /\ \A i, j \in 1..Len(decls) :
               /\ decls[i].method = decls[j].method
               /\ Keys(decls[i].pattern) = Keys(decls[j].pattern)
               => i = j

ASSUME TextsMatch ==
    /\ U64Texts = {t \in Texts : MatchesU64(TextOf[t])}
    /\ I64Texts = {t \in Texts : MatchesI64(TextOf[t])}
    /\ \A t \in Texts : TextOf[t] \in Seq(0..255)
    /\ TextOf[Empty] = << >>

VARIABLE called   \* the handler called with the answer and its arguments, or None

allVars == <<vars, called>>

DispatchInit == Init /\ called = None

\* Mutant of ParamType: counts the literals too.
SegmentType(pattern, k) ==
    LET kind == pattern[k].kind IN IF kind \in {"u64", "i64"} THEN kind ELSE "string"

\* Pattern::param_type
ParamType(pattern, k) ==
    LET i == CHOOSE i \in ParamIndices(pattern) : ParamPlace(pattern, i) = k
    IN  IF pattern[i].kind \in {"u64", "i64"} THEN pattern[i].kind ELSE "string"

\* A capture is a view of the path, of one segment when its parameter is typed;
\* an argument is a value of its parameter's type.
Argument(type, capture) ==
    <<type, IF type = "string" THEN capture ELSE Convert(type, TextOf[path[capture[1]]])>>

\* The caller handles an answer before it asks again.
Ask ==
    /\ m.status = "Found" => called # None
    /\ Call
    /\ called' = None

Answer == Lookup /\ UNCHANGED called

\* The thunk of the declaration found takes as many of the values as its pattern
\* has parameters.
Dispatch ==
    /\ pc = "idle" /\ m.status = "Found" /\ called = None
    /\ LET decl   == table[m.route + 1]
           values == SubSeq(params, 1, m.count)
       IN  called' = [handler |-> m.route,
                      args |-> [k \in 1..NumParams(decl.pattern) |->
                                   Argument(ParamType(decl.pattern, k), values[k])]]
    /\ UNCHANGED vars

DispatchNext == Ask \/ Answer \/ Dispatch

DispatchSpec == DispatchInit /\ [][DispatchNext]_allVars /\ WF_allVars(Answer)

-----------------------------------------------------------------------------
\* What a segment of the path says, read as a parameter of a pattern.
Said(pattern, i) ==
    CASE pattern[i].kind = "u64" -> <<"u64", NumberOf(TextOf[path[i]])>>
      [] pattern[i].kind = "i64" -> <<"i64", NumberOf(TextOf[path[i]])>>
      [] OTHER                   -> <<"string", CaptureAt(pattern, path, i)>>

\* A request reaches the handler declared for the most specific pattern of its
\* method that matches, whatever the order of the declarations and whatever the
\* Match held before, and each argument is what the path says at the place of
\* its parameter: the number for a typed one, which cannot fail to convert
\* (checked.hpp:159-160), the text for another.
HandlerRight ==
    called # None =>
        LET decl == table[called.handler + 1]
            p    == decl.pattern
        IN  /\ decl.method = method
            /\ p = Best({table[i].pattern : i \in {j \in 1..Len(table) : table[j].method = method}},
                        path)
            /\ Len(called.args) = NumParams(p)
            /\ \A i \in ParamIndices(p) : called.args[ParamPlace(p, i)] = Said(p, i)
=============================================================================

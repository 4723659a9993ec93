--------------------------- MODULE RouteSemantics ---------------------------
(***************************************************************************)
(* What one method's routes promise of one path: the most specific pattern *)
(* that matches it, and the values that pattern captures, in one step.     *)
(***************************************************************************)
EXTENDS RoutePatterns

CONSTANTS
    None,     \* kNone: no route
    Pending   \* no answer yet

VARIABLES
    routes,   \* the method's routes: a function from patterns to values
    path,     \* the path looked up
    answer    \* Pending, or the route found and its captures

vars == <<routes, path, answer>>

Answer(rs, p) ==
    IF Found(DOMAIN rs, p)
    THEN LET best == Best(DOMAIN rs, p)
         IN  [route |-> rs[best], captures |-> Captures(best, p)]
    ELSE [route |-> None, captures |-> << >>]

Init == answer = Pending

Find ==
    /\ answer = Pending
    /\ answer' = Answer(routes, path)
    /\ UNCHANGED <<routes, path>>

Next == Find

Spec == Init /\ [][Next]_vars /\ WF_vars(Next)
=============================================================================

---------------------------- MODULE RouteService ----------------------------
(***************************************************************************)
(* What a table of routes promises of a request, in one step: the answer   *)
(* depends on the request and on the table's routes, and on nothing that   *)
(* was asked before (docs/route-semantics.md, rules 5 and 6).              *)
(***************************************************************************)
EXTENDS RoutePatterns

CONSTANTS
    None,      \* kNone: no route
    Pending,   \* the request is not answered yet
    Methods,   \* 0..kMethodSlots-1
    BadPath    \* a path that is empty or does not start with a slash

VARIABLES
    routes,    \* by method: a function from patterns to routes
    method, path,
    answer     \* Pending, or the answer to the last request

vars == <<routes, method, path, answer>>

NotFound == [status |-> "NotFound", route |-> None, captures |-> << >>, allowed |-> {}]

Finds(rs, m, p) == Found(DOMAIN rs[m], p)

Answer(rs, m, p) ==
    IF m \notin Methods \/ p = BadPath THEN NotFound
    ELSE IF Finds(rs, m, p)
         THEN LET best == Best(DOMAIN rs[m], p)
              IN  [status |-> "Found", route |-> rs[m][best],
                   captures |-> Captures(best, p), allowed |-> {}]
         ELSE LET others == {o \in Methods : Finds(rs, o, p)}
              IN  [NotFound EXCEPT
                      !.status = IF others = {} THEN @ ELSE "MethodNotAllowed",
                      !.allowed = others]

\* A Match nobody has looked into yet reads as not found.
Init == answer = NotFound

Request ==
    /\ answer # Pending
    /\ answer' = Pending
    /\ UNCHANGED routes

Reply ==
    /\ answer = Pending
    /\ answer' = Answer(routes, method, path)
    /\ UNCHANGED <<routes, method, path>>

Next == Request \/ Reply

Spec == Init /\ [][Next]_vars /\ WF_vars(Reply)
=============================================================================

----------------------------- MODULE RouteLookup -----------------------------
(***************************************************************************)
(* One caller's lookups in a table of routes (find_into and what it calls  *)
(* in route/lookup.hpp), one after the other into the same Match.  The     *)
(* walk of a trie is RouteWalk's, run on the Match's captures for the      *)
(* method asked for, and on a scratch array for the other methods a 405    *)
(* answer names.                                                           *)
(***************************************************************************)
EXTENDS RouteTries, FiniteSetsExt

CONSTANTS
    Pending,       \* no answer yet
    Stale,         \* a capture an array holds from before
    BadPath,       \* a path that is empty or does not start with a slash
    MethodSlots,   \* kMethodSlots: methods are 0..MethodSlots-1
    Tables,        \* the tables looked up in
    RoutesIn,      \* the routes of each, by method: functions from patterns
    Roots, TrieAt, \* a table's trie of a method is the one at <<table, method>>
    Paths,         \* the paths asked for
    BadMethod      \* an index past the methods

ASSUME LookupAssumption ==
    /\ MethodSlots \in Nat \ {0}
    /\ BadMethod \in Nat /\ BadMethod >= MethodSlots
    /\ BadPath \notin Paths

\* The paths and the tries are those RouteWalk is about.
ASSUME PathsAssumption ==
    \A p \in Paths : p \in Seq(Texts \cup {Empty}) /\ IsPath(p)

ASSUME TriesAssumption == \A r \in Roots : TrieOK(TrieAt[r])

Methods == 0..(MethodSlots - 1)

\* The routes of a method by what their patterns match, as a trie holds them.
ByKeys(rs) ==
    [k \in {Keys(p) : p \in DOMAIN rs} |-> rs[CHOOSE p \in DOMAIN rs : Keys(p) = k]]

\* What a build without an error leaves (RouteTable.DuplicatesRejected and
\* TableComplete): patterns that parse, no two of a method matching the same
\* paths, and for a method some route of which has a parameter the trie of all
\* of its routes.  No route has the value that stands for none.
ASSUME BuildAssumption ==
    \A t \in Tables, o \in Methods :
        LET rs == RoutesIn[t][o]
        IN  /\ \A p \in DOMAIN rs : IsPattern(p) /\ rs[p] # None
            /\ \A p, q \in DOMAIN rs : Keys(p) = Keys(q) => p = q
            /\ \A p \in DOMAIN rs :
                   ~IsLiteral(p) =>
                       /\ <<t, o>> \in Roots
                       /\ RoutesOf(TrieAt[<<t, o>>]) = ByKeys(rs)

\* The answers a Match can give; "no answer yet" is none of them.
RouteValues ==
    {None} \cup UNION {{RoutesIn[t][o][p] : p \in DOMAIN RoutesIn[t][o]} :
                          t \in Tables, o \in Methods}

Answers ==
    [status : {"NotFound", "Found", "MethodNotAllowed"},
     route : RouteValues,
     captures : Seq({Stale} \cup (Nat \X Nat)),
     allowed : SUBSET Methods]

ASSUME PendingAssumption == Pending \notin Answers

VARIABLES
    table,         \* the table: never changed
    method, path,  \* the request: find_into's arguments
    m,             \* the Match, without its captures
    params,        \* the Match's captures
    pc,            \* "idle", "called", "finding", "walking" or "others"
    target,        \* the method find_in was called for
    others,        \* the methods allowed_methods has still to try
    allowed,       \* those it found a route under
    scratch,       \* its captures
    root, node, pos, stage, stack, nv, wpc, result  \* the walk (RouteWalk)

walkVars == <<root, node, pos, stage, stack, nv, wpc, result>>

vars == <<table, method, path, m, params, pc, target, others, allowed, scratch,
          walkVars>>

routes == RoutesIn[table]

Walk(values) == INSTANCE RouteWalk WITH pc <- wpc

\* The methods with a route, and those whose routes are all literal: the
\* exact-match table answers for them, and they have no trie.
MethodsIn == {o \in Methods : DOMAIN routes[o] # {}}

IsExact(o) == \A p \in DOMAIN routes[o] : IsLiteral(p)

\* find_literal, as a lookup in what build_table put there (RouteTable).
FindLiteral(o) ==
    LET hits == {p \in DOMAIN routes[o] : Matches(p, path)}
    IN  IF IsExact(o) /\ hits # {} THEN routes[o][CHOOSE p \in hits : TRUE] ELSE None

HasTrie(o) == o \in MethodsIn /\ ~IsExact(o)

-----------------------------------------------------------------------------
\* What an array holds that was never written.
Unwritten == [k \in 1..MaxParams |-> Stale]

NoMatch == [status |-> "NotFound", route |-> None, count |-> 0, allowed |-> {}]

Init ==
    /\ table \in Tables
    /\ method = 0 /\ path = BadPath
    /\ m = NoMatch
    /\ params = Unwritten
    /\ pc = "idle"
    /\ target = 0 /\ others = {} /\ allowed = {}
    /\ scratch = Unwritten
    /\ root = None /\ node = None /\ pos = 0 /\ stage = 0 /\ stack = << >>
    /\ nv = 0 /\ wpc = "returned" /\ result = [route |-> None, count |-> 0]

\* The walk's locals at its start, and when none is under way.
SetWalk(r, n, state) ==
    /\ root' = r /\ node' = n /\ wpc' = state
    /\ pos' = 0 /\ stage' = 0 /\ stack' = << >> /\ nv' = 0
    /\ result' = [route |-> None, count |-> 0]

\* The caller asks, with a Match that holds the answer before.
Call ==
    /\ pc = "idle"
    /\ method' \in Methods \cup {BadMethod}
    /\ path' \in Paths \cup {BadPath}
    /\ pc' = "called"
    /\ UNCHANGED <<table, m, params, target, others, allowed, scratch, walkVars>>

\* Mutant of Reset: leaves the methods allowed before.
ResetPart == [NoMatch EXCEPT !.allowed = m.allowed]

Reset == NoMatch

\* find_into sets the Match back, and returns at once for a method out of range
\* or a path without a leading slash.
Begin ==
    /\ pc = "called"
    /\ m' = Reset
    /\ IF method \notin Methods \/ path = BadPath
       THEN pc' = "idle" /\ UNCHANGED target
       ELSE pc' = "finding" /\ target' = method
    /\ UNCHANGED <<table, method, path, params, others, allowed, scratch, walkVars>>

\* Mutant of Others: none past the method asked for.
OthersUpTo == {o \in MethodsIn : o < method}

\* The methods allowed_methods tries.
Others == MethodsIn \ {method}

\* find_in returned a route, or None, to find_into or to allowed_methods.
Deliver(route, count) ==
    /\ SetWalk(None, None, "returned")
    /\ IF target # method
       THEN /\ allowed' = IF route # None THEN allowed \cup {target} ELSE allowed
            /\ pc' = "others"
            /\ UNCHANGED <<m, others>>
       ELSE IF route # None
            THEN /\ m' = [m EXCEPT !.status = "Found", !.route = route, !.count = count]
                 /\ pc' = "idle"
                 /\ UNCHANGED <<others, allowed>>
            ELSE /\ m' = [m EXCEPT !.count = 0]
                 /\ pc' = "others"
                 /\ others' = Others
                 /\ allowed' = {}

\* The exact-match table answers, or there is no trie.
FindExact ==
    /\ pc = "finding"
    /\ FindLiteral(target) # None \/ ~HasTrie(target)
    /\ Deliver(FindLiteral(target), 0)
    /\ UNCHANGED <<table, method, path, params, target, scratch>>

StartWalk ==
    /\ pc = "finding"
    /\ FindLiteral(target) = None
    /\ HasTrie(target)
    /\ pc' = "walking"
    /\ SetWalk(<<table, target>>, TrieAt[<<table, target>>].root, "walking")
    /\ UNCHANGED <<table, method, path, m, params, target, others, allowed, scratch>>

\* A step of the walk, on the array its caller gave it.
WalkStep ==
    /\ pc = "walking"
    /\ \/ /\ target = method
          /\ Walk(params)!Next
          /\ UNCHANGED scratch
       \/ /\ target # method
          /\ Walk(scratch)!Next
          /\ UNCHANGED params
    /\ UNCHANGED <<table, method, m, pc, target, others, allowed>>

WalkDone ==
    /\ pc = "walking"
    /\ wpc = "returned"
    /\ Deliver(result.route, result.count)
    /\ UNCHANGED <<table, method, path, params, target, scratch>>

\* Mutant of LeftAfter: the method is tried again.
LeftAll(o) == others

LeftAfter(o) == others \ {o}

\* allowed_methods takes the next method, the lowest, in the one scratch array.
NextOther ==
    /\ pc = "others"
    /\ others # {}
    /\ target' = Min(others)
    /\ others' = LeftAfter(Min(others))
    /\ pc' = "finding"
    /\ UNCHANGED <<table, method, path, m, params, allowed, scratch, walkVars>>

NoMoreOthers ==
    /\ pc = "others"
    /\ others = {}
    /\ m' = [m EXCEPT !.allowed = allowed,
                      !.status = IF allowed # {} THEN "MethodNotAllowed" ELSE @]
    /\ pc' = "idle"
    /\ target' = method
    /\ allowed' = {}
    /\ scratch' = Unwritten
    /\ UNCHANGED <<table, method, path, params, others, walkVars>>

Lookup ==
    Begin \/ FindExact \/ StartWalk \/ WalkStep \/ WalkDone \/ NextOther \/ NoMoreOthers

Next == Call \/ Lookup

\* A call of find_into runs to its end; nobody has to call it.
Spec == Init /\ [][Next]_vars /\ WF_vars(Lookup)
-----------------------------------------------------------------------------
(* Properties.                                                             *)

Service ==
    INSTANCE RouteService WITH
        answer <- IF pc # "idle" THEN Pending
                  ELSE [status |-> m.status, route |-> m.route,
                        captures |-> SubSeq(params, 1, m.count),
                        allowed |-> m.allowed]

\* What the 405 search has found so far is right: of the methods it is done
\* with, those whose routes match the path are allowed and no others are,
\* though they all walked in one scratch array nobody clears.
AllowedSoFar ==
    LET trying == IF pc = "others" THEN {} ELSE {target}
    IN  pc = "others" \/ (pc \in {"finding", "walking"} /\ target # method) =>
            /\ method \notin others \cup trying
            /\ \A o \in MethodsIn \ ({method} \cup others \cup trying) :
                   o \in allowed <=> Service!Finds(routes, o, path)
            /\ allowed \cap (others \cup trying) = {}

\* The lookup implements the service: into a Match that holds any earlier
\* answer it writes the answer to this request, with nothing left over of the
\* one before: the most specific route of the method and its captures, or the
\* exact set of methods that do match, or nothing
\* (docs/route-semantics.md, rules 5 and 6).
ImplementsService == Service!Spec

\* Every call returns.
Returns == pc # "idle" ~> pc = "idle"
=============================================================================

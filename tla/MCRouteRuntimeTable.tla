------------------------- MODULE MCRouteRuntimeTable -------------------------
(***************************************************************************)
(* Three objects, two blocks (so that an allocation can fail, and a block  *)
(* is used again) and two readers.  Of the tables, one has all arrays, one *)
(* is of literal routes only and one of none.                              *)
(***************************************************************************)
EXTENDS RouteRuntimeTable

MCBuilts ==
    {[nodes |-> 3, edges |-> 5, literals |-> 2, arena |-> 9],
     [nodes |-> 0, edges |-> 0, literals |-> 4, arena |-> 7],
     [nodes |-> 0, edges |-> 0, literals |-> 0, arena |-> 0]}
=============================================================================

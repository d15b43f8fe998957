-------------------------- MODULE MCCallDispatcher --------------------------
(* An instance of CallDispatcher for TLC: three signals of one call and one  *)
(* of another, whose instance may hang.                                      *)
EXTENDS CallDispatcherRefinement, TLC

CONSTANTS j1, j2, j3, j4, k1, k2

MCKeyOf == (j1 :> k1) @@ (j2 :> k1) @@ (j3 :> k1) @@ (j4 :> k2)
=============================================================================

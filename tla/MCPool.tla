------------------------------- MODULE MCPool -------------------------------
(***************************************************************************)
(* A small instance of Pool.                                               *)
(***************************************************************************)
EXTENDS Pool

CONSTANTS n1, n2, n3, e1, e2

MCNodes == {n1, n2, n3}
MCElements == {e1, e2}

=============================================================================

---------------------------- MODULE MCWorkQueue ----------------------------
(***************************************************************************)
(* A small instance of QueueLife: two pushers and two poppers contending   *)
(* for one queue.                                                          *)
(***************************************************************************)
EXTENDS QueueLife

CONSTANTS p1, p2, c1, c2, n0, n1, n2, d1, d2

MCPushers == {p1, p2}
MCPoppers == {c1, c2}
MCNodes   == {n0, n1, n2}
MCData    == {d1, d2}

=============================================================================

---------------------------- MODULE MCRunControl ----------------------------
(* RunControl on a small instance.                                         *)
EXTENDS RunControl

CONSTANTS c1, c2, q1, q2
=============================================================================

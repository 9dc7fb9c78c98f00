------------------------------ MODULE MCRunLog ------------------------------
(* RunLog on a small instance.  Participants may be exchanged.             *)
EXTENDS RunLog, TLC

CONSTANTS u1, u2

MCSymmetry == Permutations(Users)
=============================================================================

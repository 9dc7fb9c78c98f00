------------------------------ MODULE MCJudging ------------------------------
(* Judging on small instances; the .cfg files choose the servers, the      *)
(* bounds, and which of the runs are output-only or only compiled.         *)
EXTENDS Judging, TLC

CONSTANTS s1, s2, s3, c1, c2, t1, t2
=============================================================================

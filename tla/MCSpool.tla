------------------------------- MODULE MCSpool -------------------------------
(* Spool on a small instance: p1 and p2 share a file name, as two replies  *)
(* about one run do; p3 has a name of its own that scan_dir prefers.       *)
EXTENDS Spool, TLC

CONSTANTS w1, w2, r1, r2, p1, p2, p3, n1, n2

MCNameOf == p1 :> n1 @@ p2 :> n1 @@ p3 :> n2
MCRank == n1 :> 2 @@ n2 :> 1
=============================================================================

--------------------------- MODULE MCTestingQueue ---------------------------
(* The testing queue with a server that tests everything and one that      *)
(* leaves p1 to others; three priorities stand for the 32 of the code.     *)
EXTENDS TestingQueue, TLC

CONSTANTS p1, p2, s1, s2

MCSupports == s1 :> {p1, p2} @@ s2 :> {p2}
MCRank == p1 :> 1 @@ p2 :> 2
=============================================================================

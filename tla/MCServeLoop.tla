---------------------------- MODULE MCServeLoop ----------------------------
(* The server loop with two contests and a batch of two instead of ten.    *)
EXTENDS ServeLoop
=============================================================================

------------------------------- MODULE JudgeAbs ------------------------------
(***************************************************************************)
(* What judging promises for each submit: its judging may be requested     *)
(* again and again, at any time; a verdict is only ever given for the      *)
(* latest request, and at most once.  Judging implements this as long as   *)
(* the contest stays loaded.                                               *)
(***************************************************************************)
EXTENDS Naturals

CONSTANTS
    Runs,        \* submits
    Numbers      \* numbers of requests

VARIABLES
    asked,       \* number of the latest request for each run, 0 for none
    open,        \* runs whose latest request awaits its verdict
    answered     \* number of the request that gave the verdict shown, or 0

vars == <<asked, open, answered>>

Init ==
    /\ asked = [r \in Runs |-> 0]
    /\ open = {}
    /\ answered = [r \in Runs |-> 0]

\* A judging is requested, and the run is sent off.
Ask(r) ==
    /\ \E n \in Numbers : n > asked[r] /\ asked' = [asked EXCEPT ![r] = n]
    /\ open' = open \cup {r}
    /\ UNCHANGED answered

\* A judging is requested and fails at once; the user sees that.
AskFails(r) ==
    /\ \E n \in Numbers :
          /\ n > asked[r]
          /\ asked' = [asked EXCEPT ![r] = n]
          /\ answered' = [answered EXCEPT ![r] = n]
    /\ open' = open \ {r}

\* A judging is refused before it becomes a request; the user sees that.
Refuse(r) ==
    /\ answered' = [answered EXCEPT ![r] = 0]
    /\ open' = open \ {r}
    /\ UNCHANGED asked

\* The verdict of the latest request.
Answer(r) ==
    /\ r \in open
    /\ answered' = [answered EXCEPT ![r] = asked[r]]
    /\ open' = open \ {r}
    /\ UNCHANGED asked

\* A judge decides instead: the request will not be answered.
Close(r) ==
    /\ r \in open
    /\ open' = open \ {r}
    /\ UNCHANGED <<asked, answered>>

Next == \E r \in Runs :
    Ask(r) \/ AskFails(r) \/ Refuse(r) \/ Answer(r) \/ Close(r)

Spec == Init /\ [][Next]_vars
=============================================================================

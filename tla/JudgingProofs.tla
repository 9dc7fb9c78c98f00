---------------------------- MODULE JudgingProofs ----------------------------
(***************************************************************************)
(* Proofs about Judging: its type invariant, that replies of earlier       *)
(* judgings are ignored (VerdictIsCurrent), and that it implements         *)
(* JudgeAbs while the contest stays loaded, for any number of submits,     *)
(* requests and servers, in any order, with crashes and lost replies.      *)
(* Then that a verdict is of its own build and its own report, and that a  *)
(* run in a transient status is held by some queue, server or reply: with  *)
(* one compile and one testing server, or with any number of them if no    *)
(* run is rejudged in the middle of a judging; and that a judging never    *)
(* goes back on its way from the compile queue to the reply.               *)
(***************************************************************************)
EXTENDS Judging, TLAPS

-----------------------------------------------------------------------------
(* Every request that waits somewhere carries the judge_id of its number,  *)
(* counted from the last load, and its run was not asked about earlier.    *)
Good(q) ==
    /\ q.n \in 1 .. asked
    /\ q.n > loadFrom => q.judge = q.n - loadFrom /\ q.n <= cur[q.run]

QueuesGood ==
    /\ \A q \in compq : Good(q)
    /\ \A q \in runq : Good(q)

ServersGood ==
    /\ \A c \in Compilers : comp[c] # None => Good(comp[c].req)
    /\ \A t \in Testers : test[t] # None => Good(test[t].req)

RepliesGood ==
    /\ \A r \in Runs : compst[r] # None =>
          Good(compst[r].req) /\ compst[r].req.run = r
    /\ \A r \in Runs : runst[r] # None =>
          Good(runst[r].req) /\ runst[r].req.run = r

\* The stored judge_id is that of the latest request.
StoredId ==
    \A r \in Runs :
        /\ cur[r] <= asked
        /\ status[r] \in Transient /\ cur[r] > loadFrom =>
              judge[r] = cur[r] - loadFrom

\* compile_request_id counts the requests since the last load.
Counter ==
    /\ loadFrom <= asked
    /\ loads = 0 => loadFrom = 0
    /\ \/ asked = MaxRequests
       \/ asked = loadFrom /\ reqId = 0
       \/ asked > loadFrom /\ reqId = asked - loadFrom + 1

IInv ==
    /\ TypeOK
    /\ QueuesGood /\ ServersGood /\ RepliesGood /\ StoredId /\ Counter

-----------------------------------------------------------------------------

LEMMA TypeInit == Init => TypeOK
  BY JudgingAssumption
     DEF Init, TypeOK, Statuses, Transient, Shown, Numbers, JudgeIds

\* What SetFinal and Show store is of the type of the run database and of
\* what users see.
LEMMA SetFinalType ==
  ASSUME TypeOK, NEW r \in Runs, NEW s \in Statuses, SetFinal(r, s)
  PROVE  status' \in [Runs -> Statuses] /\ judge' \in [Runs -> JudgeIds]
<1>1. status' \in [Runs -> Statuses]
  BY DEF TypeOK, SetFinal
<1>2. 0 \in JudgeIds
  BY JudgingAssumption DEF JudgeIds
<1> QED
  BY <1>1, <1>2 DEF TypeOK, SetFinal

LEMMA ShowType ==
  ASSUME TypeOK, NEW r \in Runs, NEW by \in Numbers, NEW exe \in Numbers,
         NEW report \in Numbers, Show(r, by, exe, report)
  PROVE  shown' \in [Runs -> Shown]
  BY DEF TypeOK, Show, Shown

LEMMA TypeStep == TypeOK /\ [Next]_vars => TypeOK'
<1> USE JudgingAssumption DEF TypeOK, Statuses, Transient, Judged, Requests,
        RunRequests, CompOuts, TestOuts, CompWork, TestWork,
        CompReplies, TestReplies, Shown, Numbers, JudgeIds, dbVars, compVars,
        runVars, ghosts
<1> SUFFICES ASSUME TypeOK, [Next]_vars PROVE TypeOK'
  OBVIOUS
<1>1. ASSUME NEW r \in Runs, Ask(r) PROVE TypeOK'
  BY <1>1 DEF Ask, Number, IdAfter, NextId, Queue, Request, RunRequest
<1>2. ASSUME NEW r \in Runs, AskFails(r) PROVE TypeOK'
  BY <1>2 DEF AskFails, Number, IdAfter, NextId, Request
<1>3. ASSUME NEW r \in Runs, AskRefused(r) PROVE TypeOK'
  BY <1>3 DEF AskRefused
<1>4. ASSUME NEW r \in Runs, AskIgnored(r) PROVE TypeOK'
  BY <1>4 DEF AskIgnored, Number, IdAfter, NextId
<1>5. ASSUME NEW r \in Runs, Suspend(r) PROVE TypeOK'
  BY <1>5 DEF Suspend
<1>6. ASSUME NEW r \in Runs, SetStatus(r) PROVE TypeOK'
  BY <1>6 DEF SetStatus
<1>7. ASSUME NEW r \in Runs, DropCompileReply(r) PROVE TypeOK'
  BY <1>7 DEF DropCompileReply, RemoveCompileReply
<1>8. ASSUME NEW r \in Runs, CompileFailed(r) PROVE TypeOK'
  BY <1>8 DEF CompileFailed, RemoveCompileReply, SetFinal, Show
<1>9. ASSUME NEW r \in Runs, Accept(r) PROVE TypeOK'
  BY <1>9 DEF Accept, RemoveCompileReply, SetFinal, Show
<1>10. ASSUME NEW r \in Runs, Forward(r) PROVE TypeOK'
  BY <1>10 DEF Forward, RemoveCompileReply, RunRequest, KeptJudge
<1>11. ASSUME NEW r \in Runs, ForwardFails(r) PROVE TypeOK'
  <2>1. compst[r] \in CompReplies
    BY <1>11 DEF ForwardFails, RemoveCompileReply
  <2>2. shown' \in [Runs -> Shown]
    BY <1>11, <2>1 DEF ForwardFails, Show
  <2>3. status' \in [Runs -> Statuses] /\ judge' \in [Runs -> JudgeIds]
    BY <1>11 DEF ForwardFails, SetFinal
  <2>4. cfile' \in [Runs -> Numbers]
    BY <1>11 DEF ForwardFails
  <2> QED
    BY <1>11, <2>2, <2>3, <2>4 DEF ForwardFails, RemoveCompileReply
<1>12. ASSUME NEW r \in Runs, DropRunReply(r) PROVE TypeOK'
  BY <1>12 DEF DropRunReply, RemoveRunReply
<1>13. ASSUME NEW r \in Runs, Judge(r) PROVE TypeOK'
  <2>1. runst[r] \in TestReplies
    BY <1>13 DEF Judge, RemoveRunReply
  <2>2. /\ runst[r].req.n \in Numbers /\ runst[r].req.exe \in Numbers
        /\ runst[r].out # "bad" => runst[r].out \in Statuses
    BY <2>1
  <2>3. status' \in [Runs -> Statuses] /\ judge' \in [Runs -> JudgeIds]
    BY <1>13, <2>2 DEF Judge, SetFinal
  <2>5. runst' \in [Runs -> TestReplies \cup {None}]
    BY <1>13 DEF Judge, RemoveRunReply
  <2>4. shown' \in [Runs -> Shown]
    BY <1>13, <2>2 DEF Judge, Show
  <2>6. rfile' \in [Runs -> Numbers]
    BY <1>13 DEF Judge
  <2> QED
    BY <1>13, <2>3, <2>4, <2>5, <2>6 DEF Judge
<1>14. ASSUME NEW r \in Runs, DieAsking(r) PROVE TypeOK'
  <2>1. asked < MaxRequests /\ asked' = asked + 1 /\ asked' \in Numbers
    BY <1>14 DEF DieAsking
  <2>2. NextId \in JudgeIds
    BY DEF NextId
  <2>3. Request(r) \in Requests
    BY <2>1, <2>2 DEF Request
  <2>4. RunRequest(Request(r), asked + 1) \in RunRequests
    BY <2>1, <2>2 DEF Request, RunRequest
  <2>5. Queue(r) \/ UNCHANGED <<compq, runq>>
    BY <1>14 DEF DieAsking
  <2>6. compq' \subseteq Requests /\ runq' \subseteq RunRequests
    BY <2>3, <2>4, <2>5 DEF Queue
  <2>7. status' \in [Runs -> Statuses] /\ reqId' \in JudgeIds
    BY <1>14 DEF DieAsking
  <2>8. loadFrom' \in Numbers /\ loads' \in 0 .. MaxLoads
    BY <1>14, <2>1 DEF DieAsking, Restart
  <2> QED
    BY <1>14, <2>1, <2>6, <2>7, <2>8 DEF DieAsking
<1>15. ASSUME NEW r \in Runs, DieReadingCompile(r) PROVE TypeOK'
  <2>1. compst[r] \in CompReplies
    BY <1>15 DEF DieReadingCompile, RemoveCompileReply
  <2>2. compst[r].req \in Requests
    BY <2>1
  <2>3. status' \in [Runs -> Statuses] /\ judge' \in [Runs -> JudgeIds]
    <3>1. CASE UNCHANGED dbVars
      BY <3>1
    <3>2. CASE SetFinal(r, IF compst[r].out = "ce" /\ cfile[r] # 0
                           THEN "COMPILE_ERR" ELSE "CHECK_FAILED")
      BY <3>2, SetFinalType
    <3> QED
      BY <1>15, <3>1, <3>2 DEF DieReadingCompile
  <2>4. shown' \in [Runs -> Shown]
    BY <1>15, <2>2 DEF DieReadingCompile, Show
  <2>5. /\ cfile[r] \in Numbers
        /\ RunRequest(compst[r].req, cfile[r]) \in RunRequests
    BY <2>2 DEF RunRequest
  <2>6. cfile' \in [Runs -> Numbers]
    BY <1>15 DEF DieReadingCompile
  <2>7. runq' \subseteq RunRequests
    BY <1>15, <2>5 DEF DieReadingCompile
  <2>8. compst' \in [Runs -> CompReplies \cup {None}]
    BY <1>15 DEF DieReadingCompile, RemoveCompileReply
  <2> QED
    BY <1>15, <2>3, <2>4, <2>6, <2>7, <2>8 DEF DieReadingCompile, Restart
<1>16. ASSUME NEW r \in Runs, DieReadingRun(r) PROVE TypeOK'
  <2>1. runst[r] \in TestReplies
    BY <1>16 DEF DieReadingRun, RemoveRunReply
  <2>2. /\ runst[r].req.n \in Numbers /\ runst[r].req.exe \in Numbers
        /\ runst[r].out # "bad" => runst[r].out \in Statuses
    BY <2>1
  <2>3. status' \in [Runs -> Statuses] /\ judge' \in [Runs -> JudgeIds]
    <3>1. CASE UNCHANGED dbVars
      BY <3>1
    <3>2. CASE SetFinal(r, runst[r].out) /\ runst[r].out # "bad"
      BY <2>2, <3>2, SetFinalType
    <3> QED
      BY <1>16, <3>1, <3>2 DEF DieReadingRun
  <2>5. runst' \in [Runs -> TestReplies \cup {None}]
    BY <1>16 DEF DieReadingRun, RemoveRunReply
  <2>4. shown' \in [Runs -> Shown]
    BY <1>16, <2>2 DEF DieReadingRun, Show
  <2> QED
    BY <1>16, <2>3, <2>4, <2>5 DEF DieReadingRun, Restart
<1>17. ASSUME NEW c \in Compilers, TakeCompile(c) PROVE TypeOK'
  BY <1>17 DEF TakeCompile
<1>18. ASSUME NEW c \in Compilers, Build(c) PROVE TypeOK'
  BY <1>18 DEF Build
<1>19. ASSUME NEW c \in Compilers, ReplyCompile(c) PROVE TypeOK'
  BY <1>19 DEF ReplyCompile
<1>20. ASSUME NEW c \in Compilers, LoseCompile(c) PROVE TypeOK'
  BY <1>20 DEF LoseCompile
<1>21. ASSUME NEW t \in Testers, TakeRun(t) PROVE TypeOK'
  BY <1>21 DEF TakeRun
<1>22. ASSUME NEW t \in Testers, Test(t) PROVE TypeOK'
  BY <1>22 DEF Test
<1>23. ASSUME NEW t \in Testers, TestBadly(t) PROVE TypeOK'
  BY <1>23 DEF TestBadly
<1>24. ASSUME NEW t \in Testers, ReplyRun(t) PROVE TypeOK'
  BY <1>24 DEF ReplyRun
<1>25. ASSUME NEW t \in Testers, LoseRun(t) PROVE TypeOK'
  BY <1>25 DEF LoseRun
<1>26. CASE Reload
  BY <1>26 DEF Reload, Restart
<1>27. CASE UNCHANGED vars
  BY <1>27 DEF vars
<1> QED
  BY <1>1, <1>2, <1>3, <1>4, <1>5, <1>6, <1>7, <1>8, <1>9, <1>10, <1>11,
     <1>12, <1>13, <1>14, <1>15, <1>16, <1>17, <1>18, <1>19, <1>20, <1>21,
     <1>22, <1>23, <1>24, <1>25, <1>26, <1>27
     DEF Next, Server, Die, CompileServer, TestingServer, ReadCompileReply,
        ReadRunReply

(***************************************************************************)
(* The variables never leave their types.                                  *)
(***************************************************************************)
THEOREM TypeCorrect == Spec => []TypeOK
  BY TypeInit, TypeStep, PTL DEF Spec

-----------------------------------------------------------------------------
LEMMA ModSmall == \A a, m \in Nat : a < m => a % m = a
  OBVIOUS

LEMMA GoodInit == Init => IInv
  BY TypeInit, JudgingAssumption DEF Init, IInv, QueuesGood, ServersGood,
     RepliesGood, StoredId, Counter, Transient

LEMMA Numbering ==
  ASSUME MaxRequests < JudgeMod, TypeOK, Counter, asked < MaxRequests
  PROVE  /\ NextId = asked - loadFrom + 1
         /\ asked + 1 < MaxRequests => IdAfter = NextId + 1
<1> USE JudgingAssumption DEF TypeOK, Numbers, JudgeIds
<1>1. NextId = asked - loadFrom + 1
  BY DEF Counter, NextId
<1>2. ASSUME asked + 1 < MaxRequests PROVE IdAfter = NextId + 1
  <2>1. NextId + 1 \in Nat /\ NextId + 1 < JudgeMod
    BY <1>1, <1>2 DEF Counter
  <2> QED
    BY <2>1, ModSmall DEF IdAfter
<1> QED
  BY <1>1, <1>2

\* Taking a judge_id keeps the counter beside the number of requests.
LEMMA CounterStep ==
  ASSUME MaxRequests < JudgeMod, TypeOK, Counter, Number,
         UNCHANGED <<loadFrom, loads>>
  PROVE  Counter'
<1>1. /\ asked \in Nat /\ loadFrom \in Nat /\ MaxRequests \in Nat
      /\ asked < MaxRequests /\ asked' = asked + 1 /\ reqId' = IdAfter
  BY JudgingAssumption DEF TypeOK, Numbers, Number
<1>2. /\ NextId = asked - loadFrom + 1
      /\ asked + 1 < MaxRequests => IdAfter = NextId + 1
  BY <1>1, Numbering
<1>3. loadFrom <= asked /\ (loads = 0 => loadFrom = 0)
  BY DEF Counter
<1>4. CASE asked + 1 = MaxRequests
  BY <1>1, <1>3, <1>4 DEF Counter
<1>5. CASE asked + 1 < MaxRequests
  BY <1>1, <1>2, <1>3, <1>5 DEF Counter
<1> QED
  BY <1>1, <1>4, <1>5

LEMMA GoodStep ==
  ASSUME MaxRequests < JudgeMod, IInv, [Next]_vars
  PROVE  IInv'
<1>1. TypeOK'
  BY TypeStep DEF IInv
<1> DEFINE Parts ==
      QueuesGood /\ ServersGood /\ RepliesGood /\ StoredId /\ Counter
<1> SUFFICES Parts'
  BY <1>1 DEF IInv
<1> USE DEF IInv, Good, QueuesGood, ServersGood, RepliesGood, StoredId,
        Counter, Transient, dbVars, compVars, runVars, ghosts, TypeOK, Numbers,
        JudgeIds, Requests, RunRequests, CompWork, TestWork, CompReplies,
        TestReplies
<1>2. ASSUME NEW r \in Runs, Ask(r) PROVE Parts'
  <2>1. /\ asked < MaxRequests /\ asked' = asked + 1 /\ reqId' = IdAfter
        /\ cur' = [cur EXCEPT ![r] = asked + 1]
        /\ UNCHANGED <<loadFrom, loads>>
    BY <1>2 DEF Ask, Number
  <2>2. NextId = asked - loadFrom + 1
    BY <2>1, Numbering
  <2>3. Counter'
    BY <1>2, <2>1, CounterStep DEF Ask
  <2>4. \A q : q.run \in Runs /\ Good(q) => Good(q)'
    BY <2>1
  <2>5. \A q : q = Request(r) => Good(q)'
    BY <2>1, <2>2 DEF Request
  <2>6. StoredId'
    BY <1>2, <2>1, <2>2 DEF Ask
  <2>7. ServersGood' /\ RepliesGood'
    BY <1>2, <2>4 DEF Ask
  <2>8. QueuesGood'
    BY <1>2, <2>1, <2>2, <2>4, <2>5 DEF Ask, Queue, Request, RunRequest
  <2> QED
    BY <2>3, <2>6, <2>7, <2>8
<1>3. ASSUME NEW r \in Runs, AskFails(r) PROVE Parts'
  <2>1. /\ asked < MaxRequests /\ asked' = asked + 1 /\ reqId' = IdAfter
        /\ cur' = [cur EXCEPT ![r] = asked + 1]
        /\ UNCHANGED <<loadFrom, loads>>
    BY <1>3 DEF AskFails, Number
  <2>2. NextId = asked - loadFrom + 1
    BY <2>1, Numbering
  <2>3. Counter'
    BY <1>3, <2>1, CounterStep DEF AskFails
  <2>4. \A q : q.run \in Runs /\ Good(q) => Good(q)'
    BY <2>1
  <2>5. \A q : q = Request(r) => Good(q)'
    BY <2>1, <2>2 DEF Request
  <2>6. StoredId'
    BY <1>3, <2>1, <2>2 DEF AskFails
  <2>7. ServersGood' /\ RepliesGood'
    BY <1>3, <2>4 DEF AskFails
  <2>8. QueuesGood'
    BY <1>3, <2>1, <2>2, <2>4, <2>5 DEF AskFails, Request
  <2> QED
    BY <2>3, <2>6, <2>7, <2>8
<1>4. ASSUME NEW r \in Runs, AskRefused(r) PROVE Parts'
  BY <1>4 DEF AskRefused
<1>5. ASSUME NEW r \in Runs, AskIgnored(r) PROVE Parts'
  <2>1. /\ asked < MaxRequests /\ asked' = asked + 1 /\ reqId' = IdAfter
        /\ UNCHANGED <<status, judge, cur, loadFrom, loads>>
    BY <1>5 DEF AskIgnored, Number
  <2>2. NextId = asked - loadFrom + 1
    BY <2>1, Numbering
  <2>3. Counter'
    BY <1>5, <2>1, CounterStep DEF AskIgnored
  <2>4. \A q : q.run \in Runs /\ Good(q) => Good(q)'
    BY <2>1
  <2>5. StoredId'
    BY <2>1
  <2>6. QueuesGood' /\ ServersGood' /\ RepliesGood'
    BY <1>5, <2>4 DEF AskIgnored
  <2> QED
    BY <2>3, <2>5, <2>6
<1>6. ASSUME NEW r \in Runs, Suspend(r) PROVE Parts'
  BY <1>6 DEF Suspend
<1>7. ASSUME NEW r \in Runs, SetStatus(r) PROVE Parts'
  BY <1>7 DEF SetStatus
<1>8. ASSUME NEW r \in Runs, DropCompileReply(r) PROVE Parts'
  BY <1>8 DEF DropCompileReply, RemoveCompileReply
<1>9. ASSUME NEW r \in Runs, CompileFailed(r) PROVE Parts'
  BY <1>9 DEF CompileFailed, RemoveCompileReply, SetFinal, Show
<1>10. ASSUME NEW r \in Runs, Accept(r) PROVE Parts'
  BY <1>10 DEF Accept, RemoveCompileReply, SetFinal, Show
<1>11. ASSUME NEW r \in Runs, Forward(r) PROVE Parts'
  BY <1>11 DEF Forward, RemoveCompileReply, RunRequest, KeptJudge,
     AwaitsCompile
<1>12. ASSUME NEW r \in Runs, ForwardFails(r) PROVE Parts'
  BY <1>12 DEF ForwardFails, RemoveCompileReply, SetFinal, Show
<1>13. ASSUME NEW r \in Runs, DropRunReply(r) PROVE Parts'
  BY <1>13 DEF DropRunReply, RemoveRunReply
<1>14. ASSUME NEW r \in Runs, Judge(r) PROVE Parts'
  <2>1. QueuesGood' /\ ServersGood' /\ Counter'
    BY <1>14 DEF Judge
  <2>2. RepliesGood'
    BY <1>14 DEF Judge, RemoveRunReply
  <2>3. runst[r].out \notin Transient
    BY <1>14 DEF Judge, RemoveRunReply, TestOuts
  <2>4. StoredId'
    BY <1>14, <2>3 DEF Judge, SetFinal
  <2> QED
    BY <2>1, <2>2, <2>4
<1>15. ASSUME NEW r \in Runs, DieAsking(r) PROVE Parts'
  BY <1>15 DEF DieAsking, Queue, NextId, Request, RunRequest, Restart
<1>16. ASSUME NEW r \in Runs, DieReadingCompile(r) PROVE Parts'
  BY <1>16 DEF DieReadingCompile, RemoveCompileReply, SetFinal, Show,
     AwaitsCompile, RunRequest, Restart
<1>17. ASSUME NEW r \in Runs, DieReadingRun(r) PROVE Parts'
  BY <1>17 DEF DieReadingRun, RemoveRunReply, SetFinal, Show, AwaitsRun,
     Restart
<1>18. ASSUME NEW c \in Compilers, TakeCompile(c) PROVE Parts'
  BY <1>18 DEF TakeCompile
<1>19. ASSUME NEW c \in Compilers, Build(c) PROVE Parts'
  BY <1>19 DEF Build
<1>20. ASSUME NEW c \in Compilers, ReplyCompile(c) PROVE Parts'
  BY <1>20 DEF ReplyCompile
<1>21. ASSUME NEW c \in Compilers, LoseCompile(c) PROVE Parts'
  BY <1>21 DEF LoseCompile
<1>22. ASSUME NEW t \in Testers, TakeRun(t) PROVE Parts'
  BY <1>22 DEF TakeRun
<1>23. ASSUME NEW t \in Testers, Test(t) PROVE Parts'
  BY <1>23 DEF Test
<1>24. ASSUME NEW t \in Testers, TestBadly(t) PROVE Parts'
  BY <1>24 DEF TestBadly
<1>25. ASSUME NEW t \in Testers, ReplyRun(t) PROVE Parts'
  BY <1>25 DEF ReplyRun
<1>26. ASSUME NEW t \in Testers, LoseRun(t) PROVE Parts'
  BY <1>26 DEF LoseRun
<1>27. CASE Reload
  BY <1>27 DEF Reload, Restart
<1>28. CASE UNCHANGED vars
  BY <1>28 DEF vars
<1> QED
  BY <1>2, <1>3, <1>4, <1>5, <1>6, <1>7, <1>8, <1>9, <1>10, <1>11, <1>12,
     <1>13, <1>14, <1>15, <1>16, <1>17, <1>18, <1>19, <1>20, <1>21, <1>22,
     <1>23, <1>24, <1>25, <1>26, <1>27, <1>28
     DEF Next, Server, Die, CompileServer, TestingServer, ReadCompileReply,
        ReadRunReply

LEMMA Invariance ==
  ASSUME MaxRequests < JudgeMod
  PROVE  Spec => []IInv
<1>1. Init => IInv
  BY GoodInit
<1>2. IInv /\ [Next]_vars => IInv'
  BY GoodStep
<1> QED
  BY <1>1, <1>2, PTL DEF Spec

-----------------------------------------------------------------------------
(* The judge_id tells the latest request from all others of this load.     *)
LEMMA MatchIsCurrent ==
  ASSUME IInv, NEW r \in Runs, status[r] \in Transient,
         NEW q \in Requests \cup RunRequests, Good(q), q.run = r,
         q.judge = judge[r]
  PROVE  q.n = cur[r] \/ q.n <= loadFrom
  BY DEF IInv, StoredId, Good, TypeOK, Numbers, JudgeIds, Requests, RunRequests

LEMMA CompileMatch ==
  ASSUME IInv, NEW r \in Runs, RemoveCompileReply(r),
         AwaitsCompile(r, compst[r].req.judge)
  PROVE  compst[r].req.n = cur[r] \/ compst[r].req.n <= loadFrom
<1>1. compst[r].req \in Requests
  BY DEF IInv, TypeOK, CompReplies, RemoveCompileReply
<1>2. Good(compst[r].req) /\ compst[r].req.run = r
  BY DEF IInv, RepliesGood, RemoveCompileReply
<1> QED
  BY <1>1, <1>2, MatchIsCurrent DEF AwaitsCompile, Transient

LEMMA RunMatch ==
  ASSUME IInv, NEW r \in Runs, RemoveRunReply(r),
         AwaitsRun(r, runst[r].req.judge)
  PROVE  runst[r].req.n = cur[r] \/ runst[r].req.n <= loadFrom
<1>1. runst[r].req \in RunRequests
  BY DEF IInv, TypeOK, TestReplies, RemoveRunReply
<1>2. Good(runst[r].req) /\ runst[r].req.run = r
  BY DEF IInv, RepliesGood, RemoveRunReply
<1> QED
  BY <1>1, <1>2, MatchIsCurrent DEF AwaitsRun, Transient

CurrentStep ==
    \A r \in Runs : shown'[r].by # shown[r].by =>
        shown'[r].by = cur'[r] \/ shown'[r].by <= loadFrom

LEMMA VerdictStep ==
  ASSUME IInv, [Next]_vars
  PROVE  CurrentStep
<1> USE DEF CurrentStep, ghosts
<1>1. /\ shown \in [Runs -> Shown] /\ cur \in [Runs -> Numbers]
      /\ 0 <= loadFrom
  BY DEF IInv, TypeOK, Numbers
<1>2. ASSUME NEW r \in Runs, Ask(r) PROVE CurrentStep
  BY <1>2 DEF Ask
<1>3. ASSUME NEW r \in Runs, AskFails(r) PROVE CurrentStep
  BY <1>3, <1>1 DEF AskFails
<1>4. ASSUME NEW r \in Runs, AskRefused(r) PROVE CurrentStep
  BY <1>4, <1>1 DEF AskRefused
<1>5. ASSUME NEW r \in Runs, AskIgnored(r) PROVE CurrentStep
  BY <1>5 DEF AskIgnored
<1>6. ASSUME NEW r \in Runs, Suspend(r) PROVE CurrentStep
  BY <1>6 DEF Suspend
<1>7. ASSUME NEW r \in Runs, SetStatus(r) PROVE CurrentStep
  BY <1>7 DEF SetStatus
<1>8. ASSUME NEW r \in Runs, DropCompileReply(r) PROVE CurrentStep
  BY <1>8 DEF DropCompileReply
<1>9. ASSUME NEW r \in Runs, CompileFailed(r) PROVE CurrentStep
  <2>1. RemoveCompileReply(r) /\ AwaitsCompile(r, compst[r].req.judge)
    BY <1>9 DEF CompileFailed
  <2> QED
    BY <1>9, <2>1, <1>1, CompileMatch DEF CompileFailed, Show
<1>10. ASSUME NEW r \in Runs, Accept(r) PROVE CurrentStep
  <2>1. RemoveCompileReply(r) /\ AwaitsCompile(r, compst[r].req.judge)
    BY <1>10 DEF Accept
  <2> QED
    BY <1>10, <2>1, <1>1, CompileMatch DEF Accept, Show
<1>11. ASSUME NEW r \in Runs, Forward(r) PROVE CurrentStep
  BY <1>11 DEF Forward
<1>12. ASSUME NEW r \in Runs, ForwardFails(r) PROVE CurrentStep
  <2>1. RemoveCompileReply(r) /\ AwaitsCompile(r, compst[r].req.judge)
    BY <1>12 DEF ForwardFails
  <2> QED
    BY <1>12, <2>1, <1>1, CompileMatch DEF ForwardFails, Show
<1>13. ASSUME NEW r \in Runs, DropRunReply(r) PROVE CurrentStep
  BY <1>13 DEF DropRunReply
<1>14. ASSUME NEW r \in Runs, Judge(r) PROVE CurrentStep
  <2>1. RemoveRunReply(r) /\ AwaitsRun(r, runst[r].req.judge)
    BY <1>14 DEF Judge
  <2> QED
    BY <1>14, <2>1, <1>1, RunMatch DEF Judge, Show
<1>15. ASSUME NEW r \in Runs, DieAsking(r) PROVE CurrentStep
  BY <1>15 DEF DieAsking
<1>16. ASSUME NEW r \in Runs, DieReadingCompile(r) PROVE CurrentStep
  <2>1. RemoveCompileReply(r) /\ AwaitsCompile(r, compst[r].req.judge)
    BY <1>16 DEF DieReadingCompile
  <2> QED
    BY <1>16, <2>1, <1>1, CompileMatch DEF DieReadingCompile, Show
<1>17. ASSUME NEW r \in Runs, DieReadingRun(r) PROVE CurrentStep
  <2>1. RemoveRunReply(r) /\ AwaitsRun(r, runst[r].req.judge)
    BY <1>17 DEF DieReadingRun
  <2> QED
    BY <1>17, <2>1, <1>1, RunMatch DEF DieReadingRun, Show
<1>18. ASSUME NEW c \in Compilers, TakeCompile(c) PROVE CurrentStep
  BY <1>18 DEF TakeCompile
<1>19. ASSUME NEW c \in Compilers, Build(c) PROVE CurrentStep
  BY <1>19 DEF Build
<1>20. ASSUME NEW c \in Compilers, ReplyCompile(c) PROVE CurrentStep
  BY <1>20 DEF ReplyCompile
<1>21. ASSUME NEW c \in Compilers, LoseCompile(c) PROVE CurrentStep
  BY <1>21 DEF LoseCompile
<1>22. ASSUME NEW t \in Testers, TakeRun(t) PROVE CurrentStep
  BY <1>22 DEF TakeRun
<1>23. ASSUME NEW t \in Testers, Test(t) PROVE CurrentStep
  BY <1>23 DEF Test
<1>24. ASSUME NEW t \in Testers, TestBadly(t) PROVE CurrentStep
  BY <1>24 DEF TestBadly
<1>25. ASSUME NEW t \in Testers, ReplyRun(t) PROVE CurrentStep
  BY <1>25 DEF ReplyRun
<1>26. ASSUME NEW t \in Testers, LoseRun(t) PROVE CurrentStep
  BY <1>26 DEF LoseRun
<1>27. CASE Reload
  BY <1>27 DEF Reload
<1>28. CASE UNCHANGED vars
  BY <1>28 DEF vars
<1> QED
  BY <1>2, <1>3, <1>4, <1>5, <1>6, <1>7, <1>8, <1>9, <1>10, <1>11, <1>12,
     <1>13, <1>14, <1>15, <1>16, <1>17, <1>18, <1>19, <1>20, <1>21, <1>22,
     <1>23, <1>24, <1>25, <1>26, <1>27, <1>28
     DEF Next, Server, Die, CompileServer, TestingServer, ReadCompileReply,
        ReadRunReply

(***************************************************************************)
(* Replies of earlier judgings are ignored: a new verdict comes from the   *)
(* latest request, or from one made before the contest was last loaded.    *)
(* It is assumed that judge_ids do not repeat.                             *)
(***************************************************************************)
THEOREM EarlierJudgingsIgnored ==
  ASSUME MaxRequests < JudgeMod
  PROVE  Spec => VerdictIsCurrent
<1>1. IInv /\ [Next]_vars => [CurrentStep]_vars
  BY VerdictStep
<1> QED
  BY <1>1, Invariance, PTL DEF Spec, VerdictIsCurrent, CurrentStep

OlderStep ==
    \A r \in Runs :
        shown'[r].by # shown[r].by => shown'[r].by \in {0, cur'[r]}

(***************************************************************************)
(* The documented promise holds while the contest stays loaded and         *)
(* judge_ids do not repeat: only a reload lets older results in.           *)
(***************************************************************************)
THEOREM OlderIgnoredWhileLoaded ==
  ASSUME MaxRequests < JudgeMod, MaxLoads = 0
  PROVE  Spec => OlderResultsIgnored
<1>1. ASSUME IInv, IInv', [Next]_vars PROVE [OlderStep]_vars
  <2>1. loadFrom = 0
    BY <1>1 DEF IInv, TypeOK, Counter
  <2>2. CurrentStep
    BY <1>1, VerdictStep
  <2>3. \A r \in Runs : shown'[r].by \in Nat
    BY <1>1 DEF IInv, TypeOK, Shown, Numbers
  <2> QED
    BY <2>1, <2>2, <2>3 DEF CurrentStep, OlderStep
<1> QED
  BY <1>1, Invariance, PTL DEF Spec, OlderResultsIgnored, OlderStep

-----------------------------------------------------------------------------
(* The steps of JudgeAbs that the steps of Judging are.                    *)

Open == {r \in Runs : status[r] \in Transient}
Answered == [r \in Runs |-> shown[r].by]

LEMMA StutterIsAbs ==
  ASSUME UNCHANGED <<cur, shown>>, Open' = Open
  PROVE  [Abs!Next]_(Abs!vars)
  BY DEF Abs!vars, Open

LEMMA AnswerIsAbs ==
  ASSUME IInv, loadFrom = 0, NEW r \in Runs, status[r] \in Transient,
         NEW n \in Numbers, n = cur[r] \/ n <= loadFrom, n # 0,
         NEW s \in Statuses \ Transient, SetFinal(r, s),
         NEW exe, NEW report, Show(r, n, exe, report), UNCHANGED cur
  PROVE  [Abs!Next]_(Abs!vars)
<1>1. n = cur[r]
  BY DEF Numbers
<1>2. r \in Open /\ Open' = Open \ {r}
  BY DEF Open, SetFinal, IInv, TypeOK
<1>3. Answered' = [Answered EXCEPT ![r] = cur[r]]
  BY <1>1 DEF Answered, Show, IInv, TypeOK
<1> QED
  BY <1>1, <1>2, <1>3 DEF Abs!Next, Abs!Answer, Open, Answered

LEMMA AbsInit == Init => Abs!Init
  BY DEF Init, Abs!Init, Transient

LEMMA AbsStep ==
  ASSUME MaxLoads = 0, IInv, [Next]_vars
  PROVE  [Abs!Next]_(Abs!vars)
<1>1. /\ cur \in [Runs -> Numbers] /\ status \in [Runs -> Statuses]
      /\ shown \in [Runs -> Shown] /\ loads = 0 /\ loadFrom = 0
  BY DEF IInv, TypeOK, Counter
<1> USE DEF ghosts, dbVars
<1>2. ASSUME NEW r \in Runs, Ask(r) PROVE [Abs!Next]_(Abs!vars)
  <2>1. Open' = Open \cup {r}
    BY <1>2, <1>1 DEF Ask, Open, Transient
  <2>2. asked + 1 \in Numbers /\ asked + 1 > cur[r]
    <3>1. /\ asked \in 0 .. MaxRequests /\ asked < MaxRequests
          /\ cur[r] \in 0 .. MaxRequests
      BY <1>2, <1>1 DEF Ask, Number, IInv, TypeOK, Numbers
    <3>2. cur[r] <= asked
      BY DEF IInv, StoredId
    <3> QED
      BY <3>1, <3>2, JudgingAssumption DEF JudgingAssumption, Numbers
  <2>3. UNCHANGED shown /\ cur' = [cur EXCEPT ![r] = asked + 1]
    BY <1>2 DEF Ask
  <2> QED
    BY <2>1, <2>2, <2>3 DEF Abs!Next, Abs!Ask, Open
<1>3. ASSUME NEW r \in Runs, AskFails(r) PROVE [Abs!Next]_(Abs!vars)
  <2>1. Open' = Open \ {r}
    BY <1>3, <1>1 DEF AskFails, Open, Transient
  <2>2. asked + 1 \in Numbers /\ asked + 1 > cur[r]
    <3>1. /\ asked \in 0 .. MaxRequests /\ asked < MaxRequests
          /\ cur[r] \in 0 .. MaxRequests
      BY <1>3, <1>1 DEF AskFails, Number, IInv, TypeOK, Numbers
    <3>2. cur[r] <= asked
      BY DEF IInv, StoredId
    <3> QED
      BY <3>1, <3>2, JudgingAssumption DEF JudgingAssumption, Numbers
  <2>3. /\ Answered' = [Answered EXCEPT ![r] = asked + 1]
        /\ cur' = [cur EXCEPT ![r] = asked + 1]
    BY <1>3, <1>1 DEF AskFails, Answered
  <2> QED
    BY <2>1, <2>2, <2>3 DEF Abs!Next, Abs!AskFails, Open, Answered
<1>4. ASSUME NEW r \in Runs, AskRefused(r) PROVE [Abs!Next]_(Abs!vars)
  <2>1. Open' = Open \ {r}
    BY <1>4, <1>1 DEF AskRefused, Open, Transient
  <2>2. Answered' = [Answered EXCEPT ![r] = 0] /\ UNCHANGED cur
    BY <1>4, <1>1 DEF AskRefused, Answered
  <2> QED
    BY <2>1, <2>2 DEF Abs!Next, Abs!Refuse, Open, Answered
<1>5. ASSUME NEW r \in Runs, AskIgnored(r) PROVE [Abs!Next]_(Abs!vars)
  BY <1>5, StutterIsAbs DEF AskIgnored, Open
<1>6. ASSUME NEW r \in Runs, Suspend(r) PROVE [Abs!Next]_(Abs!vars)
  <2>1. Open' = Open /\ UNCHANGED <<cur, shown>>
    BY <1>6, <1>1 DEF Suspend, Open, Transient
  <2> QED
    BY <2>1, StutterIsAbs
<1>7. ASSUME NEW r \in Runs, SetStatus(r) PROVE [Abs!Next]_(Abs!vars)
  <2>1. Open' = Open \ {r} /\ UNCHANGED <<cur, shown>>
    BY <1>7, <1>1 DEF SetStatus, Open, Transient
  <2>2. CASE r \in Open
    BY <2>1, <2>2 DEF Abs!Next, Abs!Close, Open
  <2>3. CASE r \notin Open
    BY <2>1, <2>3, StutterIsAbs
  <2> QED
    BY <2>2, <2>3
<1>8. ASSUME NEW r \in Runs, DropCompileReply(r) PROVE [Abs!Next]_(Abs!vars)
  BY <1>8, StutterIsAbs DEF DropCompileReply, Open
<1>9. ASSUME NEW r \in Runs, CompileFailed(r) PROVE [Abs!Next]_(Abs!vars)
  <2>1. RemoveCompileReply(r) /\ AwaitsCompile(r, compst[r].req.judge)
    BY <1>9 DEF CompileFailed
  <2>2. compst[r].req.n = cur[r] \/ compst[r].req.n <= loadFrom
    BY <2>1, CompileMatch
  <2>3. compst[r].req.n \in Numbers /\ compst[r].req.n # 0
    BY <2>1 DEF IInv, TypeOK, CompReplies, Requests, RepliesGood, Good,
                RemoveCompileReply, Numbers
  <2>4. status[r] \in Transient
    BY <2>1 DEF AwaitsCompile, Transient
  <2> QED
    BY <1>9, <2>2, <2>3, <2>4, <1>1, AnswerIsAbs
       DEF CompileFailed, Statuses, Judged, Transient
<1>10. ASSUME NEW r \in Runs, Accept(r) PROVE [Abs!Next]_(Abs!vars)
  <2>1. RemoveCompileReply(r) /\ AwaitsCompile(r, compst[r].req.judge)
    BY <1>10 DEF Accept
  <2>2. compst[r].req.n = cur[r] \/ compst[r].req.n <= loadFrom
    BY <2>1, CompileMatch
  <2>3. compst[r].req.n \in Numbers /\ compst[r].req.n # 0
    BY <2>1 DEF IInv, TypeOK, CompReplies, Requests, RepliesGood, Good,
                RemoveCompileReply, Numbers
  <2>4. status[r] \in Transient
    BY <2>1 DEF AwaitsCompile, Transient
  <2> QED
    BY <1>10, <2>2, <2>3, <2>4, <1>1, AnswerIsAbs
       DEF Accept, Statuses, Judged, Transient
<1>11. ASSUME NEW r \in Runs, Forward(r) PROVE [Abs!Next]_(Abs!vars)
  <2>1. Open' = Open /\ UNCHANGED <<cur, shown>>
    BY <1>11, <1>1 DEF Forward, AwaitsCompile, Open, Transient
  <2> QED
    BY <2>1, StutterIsAbs
<1>12. ASSUME NEW r \in Runs, ForwardFails(r) PROVE [Abs!Next]_(Abs!vars)
  <2>1. RemoveCompileReply(r) /\ AwaitsCompile(r, compst[r].req.judge)
    BY <1>12 DEF ForwardFails
  <2>2. compst[r].req.n = cur[r] \/ compst[r].req.n <= loadFrom
    BY <2>1, CompileMatch
  <2>3. compst[r].req.n \in Numbers /\ compst[r].req.n # 0
    BY <2>1 DEF IInv, TypeOK, CompReplies, Requests, RepliesGood, Good,
                RemoveCompileReply, Numbers
  <2>4. status[r] \in Transient
    BY <2>1 DEF AwaitsCompile, Transient
  <2> QED
    BY <1>12, <2>2, <2>3, <2>4, <1>1, AnswerIsAbs
       DEF ForwardFails, Statuses, Judged, Transient
<1>13. ASSUME NEW r \in Runs, DropRunReply(r) PROVE [Abs!Next]_(Abs!vars)
  BY <1>13, StutterIsAbs DEF DropRunReply, Open
<1>14. ASSUME NEW r \in Runs, Judge(r) PROVE [Abs!Next]_(Abs!vars)
  <2>1. RemoveRunReply(r) /\ AwaitsRun(r, runst[r].req.judge)
    BY <1>14 DEF Judge
  <2>2. runst[r].req.n = cur[r] \/ runst[r].req.n <= loadFrom
    BY <2>1, RunMatch
  <2>3. runst[r].req.n \in Numbers /\ runst[r].req.n # 0
    BY <2>1 DEF IInv, TypeOK, TestReplies, RunRequests, RepliesGood, Good,
                RemoveRunReply, Numbers
  <2>4. status[r] \in Transient
    BY <2>1 DEF AwaitsRun, Transient
  <2>5. runst[r].out \in Statuses \ Transient
    BY <1>14, <2>1 DEF Judge, IInv, TypeOK, TestReplies, TestOuts,
                    RemoveRunReply, Statuses, Judged, Transient
  <2> QED
    BY <1>14, <2>2, <2>3, <2>4, <2>5, <1>1, AnswerIsAbs DEF Judge
<1>15. ASSUME NEW r \in Runs, DieAsking(r) PROVE [Abs!Next]_(Abs!vars)
  BY <1>15, <1>1 DEF DieAsking, Restart
<1>16. ASSUME NEW r \in Runs, DieReadingCompile(r) PROVE [Abs!Next]_(Abs!vars)
  BY <1>16, <1>1 DEF DieReadingCompile, Restart
<1>17. ASSUME NEW r \in Runs, DieReadingRun(r) PROVE [Abs!Next]_(Abs!vars)
  BY <1>17, <1>1 DEF DieReadingRun, Restart
<1>18. ASSUME NEW c \in Compilers, TakeCompile(c) PROVE [Abs!Next]_(Abs!vars)
  BY <1>18, StutterIsAbs DEF TakeCompile, Open
<1>19. ASSUME NEW c \in Compilers, Build(c) PROVE [Abs!Next]_(Abs!vars)
  BY <1>19, StutterIsAbs DEF Build, Open
<1>20. ASSUME NEW c \in Compilers, ReplyCompile(c) PROVE [Abs!Next]_(Abs!vars)
  BY <1>20, StutterIsAbs DEF ReplyCompile, Open
<1>21. ASSUME NEW c \in Compilers, LoseCompile(c) PROVE [Abs!Next]_(Abs!vars)
  BY <1>21, StutterIsAbs DEF LoseCompile, Open
<1>22. ASSUME NEW t \in Testers, TakeRun(t) PROVE [Abs!Next]_(Abs!vars)
  BY <1>22, StutterIsAbs DEF TakeRun, Open
<1>23. ASSUME NEW t \in Testers, Test(t) PROVE [Abs!Next]_(Abs!vars)
  BY <1>23, StutterIsAbs DEF Test, Open
<1>24. ASSUME NEW t \in Testers, TestBadly(t) PROVE [Abs!Next]_(Abs!vars)
  BY <1>24, StutterIsAbs DEF TestBadly, Open
<1>25. ASSUME NEW t \in Testers, ReplyRun(t) PROVE [Abs!Next]_(Abs!vars)
  BY <1>25, StutterIsAbs DEF ReplyRun, Open
<1>26. ASSUME NEW t \in Testers, LoseRun(t) PROVE [Abs!Next]_(Abs!vars)
  BY <1>26, StutterIsAbs DEF LoseRun, Open
<1>27. CASE Reload
  BY <1>27, <1>1 DEF Reload, Restart
<1>28. CASE UNCHANGED vars
  BY <1>28, StutterIsAbs DEF vars, Open
<1> QED
  BY <1>2, <1>3, <1>4, <1>5, <1>6, <1>7, <1>8, <1>9, <1>10, <1>11, <1>12,
     <1>13, <1>14, <1>15, <1>16, <1>17, <1>18, <1>19, <1>20, <1>21, <1>22,
     <1>23, <1>24, <1>25, <1>26, <1>27, <1>28
     DEF Next, Server, Die, CompileServer, TestingServer, ReadCompileReply,
        ReadRunReply

(***************************************************************************)
(* While the contest stays loaded, judging is what JudgeAbs promises: each *)
(* verdict answers the latest request, and each request once at most.      *)
(***************************************************************************)
THEOREM JudgingImplementsJudgeAbs ==
  ASSUME MaxRequests < JudgeMod, MaxLoads = 0
  PROVE  Spec => IsJudgeAbs
<1>1. Init => Abs!Init
  BY AbsInit
<1>2. IInv /\ [Next]_vars => [Abs!Next]_(Abs!vars)
  BY AbsStep
<1> QED
  BY <1>1, <1>2, Invariance, PTL DEF Spec, IsJudgeAbs, Abs!Spec

-----------------------------------------------------------------------------
(* Which requests the files and the servers know, while the contest stays  *)
(* loaded and judge_ids do not repeat.                                     *)

StaysLoaded == MaxRequests < JudgeMod /\ MaxLoads = 0

\* The reply that is read with the stored judge_id is about the latest
\* request.
LEMMA AwaitedCompile ==
  ASSUME IInv, MaxLoads = 0, NEW r \in Runs, RemoveCompileReply(r),
         AwaitsCompile(r, compst[r].req.judge)
  PROVE  compst[r].req.n = cur[r] /\ cur[r] > 0 /\ compst[r].req.run = r
<1>1. compst[r].req.n = cur[r] \/ compst[r].req.n <= loadFrom
  BY CompileMatch
<1>2. compst[r].req.n \in 1 .. asked /\ compst[r].req.run = r
  BY DEF IInv, RepliesGood, Good, RemoveCompileReply
<1>3. loadFrom = 0
  BY DEF IInv, Counter, TypeOK
<1> QED
  BY <1>1, <1>2, <1>3

LEMMA AwaitedRun ==
  ASSUME IInv, MaxLoads = 0, NEW r \in Runs, RemoveRunReply(r),
         AwaitsRun(r, runst[r].req.judge)
  PROVE  runst[r].req.n = cur[r] /\ cur[r] > 0 /\ runst[r].req.run = r
<1>1. runst[r].req.n = cur[r] \/ runst[r].req.n <= loadFrom
  BY RunMatch
<1>2. runst[r].req.n \in 1 .. asked /\ runst[r].req.run = r
  BY DEF IInv, RepliesGood, Good, RemoveRunReply
<1>3. loadFrom = 0
  BY DEF IInv, Counter, TypeOK
<1> QED
  BY <1>1, <1>2, <1>3

\* While the contest stays loaded, a request is as old as its judge_id says,
\* so two requests about one run differ in their numbers.
Known(q) == q.n \in 1 .. asked /\ q.judge = q.n /\ q.n <= cur[q.run]

AllKnown ==
    /\ \A q \in compq : Known(q)
    /\ \A q \in runq : Known(q)
    /\ \A c \in Compilers : comp[c] # None => Known(comp[c].req)
    /\ \A t \in Testers : test[t] # None => Known(test[t].req)
    /\ \A r \in Runs : compst[r] # None =>
          Known(compst[r].req) /\ compst[r].req.run = r
    /\ \A r \in Runs : runst[r] # None =>
          Known(runst[r].req) /\ runst[r].req.run = r
    /\ \A r \in Runs : cur[r] <= asked

LEMMA RequestsKnown ==
  ASSUME IInv, MaxLoads = 0
  PROVE  AllKnown /\ loadFrom = 0 /\ loads = 0
<1>1. loadFrom = 0 /\ loads = 0
  BY DEF IInv, Counter, TypeOK
<1> QED
  BY <1>1 DEF IInv, TypeOK, QueuesGood, ServersGood, RepliesGood, Good, Known,
              AllKnown, StoredId, Numbers, Requests, RunRequests

\* A testing request carries the executable of its own judging.
OwnExe ==
    /\ \A q \in runq : q.exe = q.n
    /\ \A t \in Testers : test[t] # None => test[t].req.exe = test[t].req.n
    /\ \A r \in Runs : runst[r] # None => runst[r].req.exe = runst[r].req.n

OwnBuild == OwnExe /\ VerdictOfOwnBuild

\* When the awaited reply is read, the file beside it is its own.
FileOfReply(file, reply) ==
    \A r \in Runs :
        reply[r] # None /\ reply[r].req.n = cur[r] => file[r] = cur[r]

LEMMA OwnBuildStep ==
  ASSUME StaysLoaded, IInv, FileOfReply(cfile, compst), OwnBuild, [Next]_vars
  PROVE  OwnBuild'
<1>1. AllKnown /\ loadFrom = 0 /\ loads = 0 /\ TypeOK /\ MaxLoads = 0
  BY RequestsKnown DEF StaysLoaded, IInv
<1> USE <1>1 DEF TypeOK, dbVars, compVars, runVars, ghosts, AllKnown, Known,
        OwnBuild, OwnExe, VerdictOfOwnBuild, FileOfReply, Numbers, JudgeIds,
        Requests, RunRequests, CompWork, TestWork, CompReplies, TestReplies,
        Shown
<1>2. ASSUME NEW r \in Runs, Ask(r) PROVE OwnBuild'
  BY <1>2 DEF Ask, Number, Queue, Request, RunRequest
<1>3. ASSUME NEW r \in Runs, AskFails(r) PROVE OwnBuild'
  BY <1>3 DEF AskFails, Number, Request
<1>4. ASSUME NEW r \in Runs, AskRefused(r) PROVE OwnBuild'
  BY <1>4 DEF AskRefused
<1>5. ASSUME NEW r \in Runs, CompileFailed(r) PROVE OwnBuild'
  <2>1. compst[r].req.n = cur[r] /\ cur[r] > 0 /\ compst[r].req.run = r
    BY <1>5, AwaitedCompile DEF CompileFailed
  <2> QED
    BY <1>5, <2>1 DEF CompileFailed, RemoveCompileReply, SetFinal, Show
<1>6. ASSUME NEW r \in Runs, Accept(r) PROVE OwnBuild'
  BY <1>6 DEF Accept, RemoveCompileReply, SetFinal, Show
<1>7. ASSUME NEW r \in Runs, Forward(r) PROVE OwnBuild'
  <2>1. compst[r].req.n = cur[r] /\ cur[r] > 0 /\ compst[r].req.run = r
    BY <1>7, AwaitedCompile DEF Forward
  <2> QED
    BY <1>7, <2>1 DEF Forward, RemoveCompileReply, RunRequest
<1>8. ASSUME NEW r \in Runs, ForwardFails(r) PROVE OwnBuild'
  <2>1. compst[r].req.n = cur[r] /\ cur[r] > 0 /\ compst[r].req.run = r
    BY <1>8, AwaitedCompile DEF ForwardFails
  <2> QED
    BY <1>8, <2>1 DEF ForwardFails, RemoveCompileReply, SetFinal, Show
<1>9. ASSUME NEW r \in Runs, DropRunReply(r) PROVE OwnBuild'
  BY <1>9 DEF DropRunReply, RemoveRunReply
<1>10. ASSUME NEW r \in Runs, Judge(r) PROVE OwnBuild'
  BY <1>10 DEF Judge, RemoveRunReply, SetFinal, Show
<1>11. ASSUME NEW r \in Runs, Die(r) PROVE OwnBuild'
  BY <1>11 DEF Die, DieAsking, DieReadingCompile, DieReadingRun, Restart
<1>12. ASSUME NEW r \in Runs,
             AskIgnored(r) \/ Suspend(r) \/ SetStatus(r) \/
             DropCompileReply(r)
      PROVE  OwnBuild'
  BY <1>12 DEF AskIgnored, DropCompileReply, SetStatus, Suspend
<1>13. ASSUME NEW c \in Compilers,
             TakeCompile(c) \/ Build(c) \/ ReplyCompile(c) \/
             LoseCompile(c)
      PROVE  OwnBuild'
  BY <1>13 DEF Build, LoseCompile, ReplyCompile, TakeCompile
<1>14. ASSUME NEW t \in Testers, TakeRun(t) PROVE OwnBuild'
  BY <1>14 DEF TakeRun
<1>15. ASSUME NEW t \in Testers, Test(t) PROVE OwnBuild'
  BY <1>15 DEF Test
<1>16. ASSUME NEW t \in Testers, TestBadly(t) PROVE OwnBuild'
  BY <1>16 DEF TestBadly
<1>17. ASSUME NEW t \in Testers, ReplyRun(t) PROVE OwnBuild'
  BY <1>17 DEF ReplyRun
<1>18. ASSUME NEW t \in Testers, LoseRun(t) PROVE OwnBuild'
  BY <1>18 DEF LoseRun
<1>19. CASE Reload \/ UNCHANGED vars
  BY <1>19 DEF Reload, Restart, vars
<1> HIDE DEF OwnBuild, AllKnown, TypeOK
<1> QED
  BY <1>2, <1>3, <1>4, <1>5, <1>6, <1>7, <1>8, <1>9, <1>10, <1>11,
     <1>12, <1>13, <1>14, <1>15, <1>16, <1>17, <1>18, <1>19
     DEF Next, Server, CompileServer, TestingServer, ReadCompileReply,
        ReadRunReply

LEMMA ReportStep ==
  ASSUME StaysLoaded, IInv, FileOfReply(cfile, compst),
         FileOfReply(rfile, runst), ReportOfVerdict, [Next]_vars
  PROVE  ReportOfVerdict'
<1>1. AllKnown /\ loadFrom = 0 /\ loads = 0 /\ TypeOK /\ MaxLoads = 0
  BY RequestsKnown DEF StaysLoaded, IInv
<1> USE <1>1 DEF TypeOK, compVars, runVars, ghosts, AllKnown, Known,
        ReportOfVerdict, FileOfReply, Numbers, JudgeIds, Requests,
        RunRequests, CompReplies, TestReplies, Shown
<1>2. ASSUME NEW r \in Runs, AskFails(r) PROVE ReportOfVerdict'
  BY <1>2 DEF AskFails, Number, Request
<1>3. ASSUME NEW r \in Runs, AskRefused(r) PROVE ReportOfVerdict'
  BY <1>3 DEF AskRefused
<1>4. ASSUME NEW r \in Runs, CompileFailed(r) PROVE ReportOfVerdict'
  <2>1. compst[r].req.n = cur[r] /\ cur[r] > 0 /\ compst[r].req.run = r
    BY <1>4, AwaitedCompile DEF CompileFailed
  <2> QED
    BY <1>4, <2>1 DEF CompileFailed, RemoveCompileReply, SetFinal, Show
<1>5. ASSUME NEW r \in Runs, Accept(r) PROVE ReportOfVerdict'
  <2>1. compst[r].req.n = cur[r] /\ cur[r] > 0 /\ compst[r].req.run = r
    BY <1>5, AwaitedCompile DEF Accept
  <2> QED
    BY <1>5, <2>1 DEF Accept, RemoveCompileReply, SetFinal, Show
<1>6. ASSUME NEW r \in Runs, ForwardFails(r) PROVE ReportOfVerdict'
  <2>1. compst[r].req.n = cur[r] /\ cur[r] > 0 /\ compst[r].req.run = r
    BY <1>6, AwaitedCompile DEF ForwardFails
  <2> QED
    BY <1>6, <2>1 DEF ForwardFails, RemoveCompileReply, SetFinal, Show
<1>7. ASSUME NEW r \in Runs, Judge(r) PROVE ReportOfVerdict'
  <2>1. runst[r].req.n = cur[r] /\ cur[r] > 0 /\ runst[r].req.run = r
    BY <1>7, AwaitedRun DEF Judge
  <2> QED
    BY <1>7, <2>1 DEF Judge, RemoveRunReply, SetFinal, Show
<1>8. ASSUME NEW r \in Runs, Die(r) PROVE ReportOfVerdict'
  BY <1>8 DEF Die, DieAsking, DieReadingCompile, DieReadingRun, Restart
<1>9. ASSUME NEW r \in Runs,
             Ask(r) \/ AskIgnored(r) \/ Suspend(r) \/ SetStatus(r) \/
             DropCompileReply(r) \/ Forward(r) \/ DropRunReply(r)
      PROVE  ReportOfVerdict'
  BY <1>9 DEF Ask, AskIgnored, DropCompileReply, DropRunReply, Forward,
     SetStatus, Suspend
<1>10. ASSUME NEW c \in Compilers,
             TakeCompile(c) \/ Build(c) \/ ReplyCompile(c) \/
             LoseCompile(c)
      PROVE  ReportOfVerdict'
  BY <1>10 DEF Build, LoseCompile, ReplyCompile, TakeCompile
<1>11. ASSUME NEW t \in Testers,
             TakeRun(t) \/ Test(t) \/ TestBadly(t) \/ ReplyRun(t) \/
             LoseRun(t)
      PROVE  ReportOfVerdict'
  BY <1>11 DEF LoseRun, ReplyRun, TakeRun, Test, TestBadly
<1>12. CASE Reload \/ UNCHANGED vars
  BY <1>12 DEF Reload, Restart, vars
<1> HIDE DEF ReportOfVerdict, AllKnown, TypeOK
<1> QED
  BY <1>2, <1>3, <1>4, <1>5, <1>6, <1>7, <1>8, <1>9, <1>10, <1>11, <1>12
     DEF Next, Server, CompileServer, TestingServer, ReadCompileReply,
        ReadRunReply

-----------------------------------------------------------------------------
(* One server that takes the requests of a run in order: whatever waits is *)
(* newer than what is done, so the file of the latest request is its own.  *)
(* Q is a queue, work[s] the packet at server s, file the report directory *)
(* and reply the status spool behind the queue.                            *)
InTurn(Q, S, work, file, reply) ==
    /\ \A q \in Q :
          /\ q.n > file[q.run]
          /\ reply[q.run] # None => q.n > reply[q.run].req.n
    /\ \A s \in S : work[s] # None =>
          /\ \A p \in Q : p.run = work[s].req.run => p.n > work[s].req.n
          /\ reply[work[s].req.run] # None =>
                work[s].req.n > reply[work[s].req.run].req.n
          /\ work[s].out = "todo" => work[s].req.n > file[work[s].req.run]
          /\ work[s].out # "todo" => work[s].req.n = file[work[s].req.run]
    /\ \A r \in Runs :
          /\ file[r] <= cur[r]
          /\ reply[r] # None /\ reply[r].req.n = cur[r] => file[r] = cur[r]

BuildsInTurn == InTurn(compq, Compilers, comp, cfile, compst)
TestsInTurn == InTurn(runq, Testers, test, rfile, runst)

\* All requests have one priority, and one server serves them.
OneCompiler == InOrder /\ \A c, d \in Compilers : c = d
OneTester == InOrder /\ \A t, u \in Testers : t = u

LEMMA BuildsInTurnStep ==
  ASSUME StaysLoaded, OneCompiler, IInv, BuildsInTurn, [Next]_vars
  PROVE  BuildsInTurn'
<1>1. AllKnown /\ loadFrom = 0 /\ loads = 0 /\ TypeOK /\ MaxLoads = 0
  BY RequestsKnown DEF StaysLoaded, IInv
<1> USE <1>1 DEF TypeOK, compVars, ghosts, AllKnown, Known, BuildsInTurn,
        InTurn, Numbers, JudgeIds, Requests, CompWork, CompReplies
<1>2. ASSUME NEW r \in Runs, Ask(r) PROVE BuildsInTurn'
  BY <1>2 DEF Ask, Number, Queue, Request, RunRequest
<1>3. ASSUME NEW r \in Runs, AskFails(r) PROVE BuildsInTurn'
  BY <1>3 DEF AskFails, Number, Request
<1>4. ASSUME NEW r \in Runs, DropCompileReply(r) PROVE BuildsInTurn'
  BY <1>4 DEF DropCompileReply, RemoveCompileReply
<1>5. ASSUME NEW r \in Runs, CompileFailed(r) PROVE BuildsInTurn'
  <2>1. compst[r].req.n = cur[r] /\ cur[r] > 0 /\ compst[r].req.run = r
    BY <1>5, AwaitedCompile DEF CompileFailed
  <2> QED
    BY <1>5, <2>1 DEF CompileFailed, RemoveCompileReply, SetFinal, Show
<1>6. ASSUME NEW r \in Runs, Accept(r) PROVE BuildsInTurn'
  <2>1. compst[r].req.n = cur[r] /\ cur[r] > 0 /\ compst[r].req.run = r
    BY <1>6, AwaitedCompile DEF Accept
  <2> QED
    BY <1>6, <2>1 DEF Accept, RemoveCompileReply, SetFinal, Show
<1>7. ASSUME NEW r \in Runs, Forward(r) PROVE BuildsInTurn'
  <2>1. compst[r].req.n = cur[r] /\ cur[r] > 0 /\ compst[r].req.run = r
    BY <1>7, AwaitedCompile DEF Forward
  <2> QED
    BY <1>7, <2>1 DEF Forward, RemoveCompileReply, RunRequest
<1>8. ASSUME NEW r \in Runs, ForwardFails(r) PROVE BuildsInTurn'
  <2>1. compst[r].req.n = cur[r] /\ cur[r] > 0 /\ compst[r].req.run = r
    BY <1>8, AwaitedCompile DEF ForwardFails
  <2> QED
    BY <1>8, <2>1 DEF ForwardFails, RemoveCompileReply, SetFinal, Show
<1>9. ASSUME NEW r \in Runs, Die(r) PROVE BuildsInTurn'
  BY <1>9 DEF Die, DieAsking, DieReadingCompile, DieReadingRun, Restart
<1>10. ASSUME NEW r \in Runs,
             AskRefused(r) \/ AskIgnored(r) \/ Suspend(r) \/
             SetStatus(r) \/ DropRunReply(r) \/ Judge(r)
      PROVE  BuildsInTurn'
  BY <1>10 DEF AskIgnored, AskRefused, DropRunReply, Judge, SetStatus,
     Suspend
<1>11. ASSUME NEW c \in Compilers, TakeCompile(c) PROVE BuildsInTurn'
  <2>1. PICK q \in compq :
           /\ \A p \in compq : p.run = q.run => q.n <= p.n
           /\ compq' = compq \ {q}
           /\ comp' = [comp EXCEPT ![c] = [req |-> q, out |-> "todo"]]
    BY <1>11 DEF TakeCompile, MayTake, OneCompiler
  <2>2. \A p \in compq' : p.run = q.run => p.n > q.n
    BY <2>1
  <2>3. \A d \in Compilers : d = c
    BY DEF OneCompiler
  <2>4. UNCHANGED <<cfile, compst, cur>>
    BY <1>11 DEF TakeCompile
  <2> QED
    BY <2>1, <2>2, <2>3, <2>4
<1>12. ASSUME NEW c \in Compilers, Build(c) PROVE BuildsInTurn'
  BY <1>12 DEF Build, OneCompiler
<1>13. ASSUME NEW c \in Compilers, ReplyCompile(c) PROVE BuildsInTurn'
  BY <1>13 DEF ReplyCompile, OneCompiler
<1>14. ASSUME NEW c \in Compilers, LoseCompile(c) PROVE BuildsInTurn'
  BY <1>14 DEF LoseCompile
<1>15. ASSUME NEW t \in Testers,
             TakeRun(t) \/ Test(t) \/ TestBadly(t) \/ ReplyRun(t) \/
             LoseRun(t)
      PROVE  BuildsInTurn'
  BY <1>15 DEF LoseRun, ReplyRun, TakeRun, Test, TestBadly
<1>16. CASE Reload \/ UNCHANGED vars
  BY <1>16 DEF Reload, Restart, vars
<1> HIDE DEF BuildsInTurn, AllKnown, TypeOK
<1> QED
  BY <1>2, <1>3, <1>4, <1>5, <1>6, <1>7, <1>8, <1>9, <1>10, <1>11,
     <1>12, <1>13, <1>14, <1>15, <1>16
     DEF Next, Server, CompileServer, TestingServer, ReadCompileReply,
        ReadRunReply

(***************************************************************************)
(* A verdict is of the tests of what its own judging built, as long as one *)
(* compile server takes requests in their order: with any number of        *)
(* testing servers, and whatever crashes, is lost or comes out badly.      *)
(***************************************************************************)
THEOREM TestedOwnBuild ==
  ASSUME StaysLoaded, OneCompiler
  PROVE  Spec => []VerdictOfOwnBuild
<1>1. Init => BuildsInTurn /\ OwnBuild
  BY DEF Init, BuildsInTurn, InTurn, OwnBuild, OwnExe, VerdictOfOwnBuild
<1>2. BuildsInTurn => FileOfReply(cfile, compst)
  BY DEF BuildsInTurn, InTurn, FileOfReply
<1>3. IInv /\ BuildsInTurn /\ OwnBuild /\ [Next]_vars
        => BuildsInTurn' /\ OwnBuild'
  BY <1>2, BuildsInTurnStep, OwnBuildStep
<1>4. OwnBuild => VerdictOfOwnBuild
  BY DEF OwnBuild
<1>5. Spec => []IInv
  BY Invariance DEF StaysLoaded
<1> QED
  BY <1>1, <1>3, <1>4, <1>5, PTL DEF Spec

-----------------------------------------------------------------------------
\* A run that waits for its compilation is ahead of all that is tested.
Unseen ==
    \A r \in Runs : status[r] = "COMPILING" =>
        /\ \A q \in runq : q.run = r => q.n < cur[r]
        /\ \A t \in Testers : test[t] # None /\ test[t].req.run = r =>
              test[t].req.n < cur[r]
        /\ runst[r] # None => runst[r].req.n < cur[r]
        /\ rfile[r] < cur[r]

\* No two requests in the run queue have the same number.
LEMMA TestsDiffer ==
  ASSUME TypeOK, AllKnown, OwnExe, NEW p \in runq, NEW q \in runq,
         p.run = q.run, p.n = q.n
  PROVE  p = q
<1>1. p \in RunRequests /\ q \in RunRequests
  BY DEF TypeOK
<1>2. /\ p = [run |-> p.run, judge |-> p.judge, n |-> p.n, exe |-> p.exe]
      /\ q = [run |-> q.run, judge |-> q.judge, n |-> q.n, exe |-> q.exe]
  BY <1>1 DEF RunRequests
<1>3. p.judge = q.judge /\ p.exe = q.exe
  BY DEF AllKnown, Known, OwnExe
<1> QED
  BY <1>2, <1>3

\* A testing server takes the oldest request of its run.
LEMMA OldestTest ==
  ASSUME TypeOK, AllKnown, OwnExe, InOrder, NEW t \in Testers, TakeRun(t)
  PROVE  \E q \in runq :
            /\ runq' = runq \ {q}
            /\ test' = [test EXCEPT ![t] = [req |-> q, out |-> "todo"]]
            /\ \A p \in runq' : p.run = q.run => p.n > q.n
<1>1. PICK q \in runq :
         /\ \A p \in runq : p.run = q.run => q.n <= p.n
         /\ runq' = runq \ {q}
         /\ test' = [test EXCEPT ![t] = [req |-> q, out |-> "todo"]]
  BY DEF TakeRun, MayTake
<1>2. \A p \in runq : p.run = q.run /\ p.n = q.n => p = q
  BY TestsDiffer
<1>3. \A p \in runq : p.n \in Nat
  BY DEF TypeOK, RunRequests, Numbers
<1>4. \A p \in runq' : p.run = q.run => p.n > q.n
  BY <1>1, <1>2, <1>3
<1> QED
  BY <1>1, <1>4

LEMMA TestsInTurnStep ==
  ASSUME StaysLoaded, OneTester, IInv, OwnExe, TestsInTurn, Unseen, [Next]_vars
  PROVE  TestsInTurn' /\ Unseen'
<1>1. AllKnown /\ loadFrom = 0 /\ loads = 0 /\ TypeOK /\ MaxLoads = 0
  BY RequestsKnown DEF StaysLoaded, IInv
<1>2. ASSUME NEW t \in Testers, TakeRun(t)
      PROVE  \E q \in runq :
                /\ runq' = runq \ {q}
                /\ test' = [test EXCEPT ![t] = [req |-> q, out |-> "todo"]]
                /\ \A p \in runq' : p.run = q.run => p.n > q.n
  BY <1>1, <1>2, OldestTest DEF OneTester
<1> DEFINE Kept == TestsInTurn /\ Unseen
<1> SUFFICES Kept'
  OBVIOUS
<1> USE <1>1 DEF TypeOK, dbVars, compVars, runVars, ghosts, AllKnown, Known,
        TestsInTurn, InTurn, Unseen, Numbers, JudgeIds, Requests, RunRequests,
        TestWork, CompReplies, TestReplies, TestOuts
<1>3. ASSUME NEW r \in Runs, Ask(r) PROVE Kept'
  BY <1>3 DEF Ask, Number, Queue, Request, RunRequest
<1>4. ASSUME NEW r \in Runs, AskFails(r) PROVE Kept'
  BY <1>4 DEF AskFails, Number, Request
<1>5. ASSUME NEW r \in Runs, AskRefused(r) PROVE Kept'
  BY <1>5 DEF AskRefused
<1>6. ASSUME NEW r \in Runs, Suspend(r) PROVE Kept'
  BY <1>6 DEF Suspend
<1>7. ASSUME NEW r \in Runs, SetStatus(r) PROVE Kept'
  BY <1>7 DEF SetStatus
<1>8. ASSUME NEW r \in Runs, CompileFailed(r) PROVE Kept'
  BY <1>8 DEF CompileFailed, RemoveCompileReply, SetFinal, Show
<1>9. ASSUME NEW r \in Runs, Accept(r) PROVE Kept'
  BY <1>9 DEF Accept, RemoveCompileReply, SetFinal, Show
<1>10. ASSUME NEW r \in Runs, Forward(r) PROVE Kept'
  <2>1. /\ compst[r].req.n = cur[r] /\ cur[r] > 0 /\ compst[r].req.run = r
        /\ status[r] = "COMPILING"
    BY <1>10, AwaitedCompile DEF Forward, AwaitsCompile
  <2> QED
    BY <1>10, <2>1 DEF Forward, RemoveCompileReply, RunRequest
<1>11. ASSUME NEW r \in Runs, ForwardFails(r) PROVE Kept'
  BY <1>11 DEF ForwardFails, RemoveCompileReply, SetFinal, Show
<1>12. ASSUME NEW r \in Runs, DropRunReply(r) PROVE Kept'
  BY <1>12 DEF DropRunReply, RemoveRunReply
<1>13. ASSUME NEW r \in Runs, Judge(r) PROVE Kept'
  <2>1. runst[r].req.n = cur[r] /\ cur[r] > 0 /\ runst[r].req.run = r
    BY <1>13, AwaitedRun DEF Judge
  <2> QED
    BY <1>13, <2>1 DEF Judge, RemoveRunReply, SetFinal, Show
<1>14. ASSUME NEW r \in Runs, Die(r) PROVE Kept'
  BY <1>14 DEF Die, DieAsking, DieReadingCompile, DieReadingRun, Restart
<1>15. ASSUME NEW r \in Runs, AskIgnored(r) \/ DropCompileReply(r)
      PROVE  Kept'
  BY <1>15 DEF AskIgnored, DropCompileReply
<1>16. ASSUME NEW c \in Compilers,
             TakeCompile(c) \/ Build(c) \/ ReplyCompile(c) \/
             LoseCompile(c)
      PROVE  Kept'
  BY <1>16 DEF Build, LoseCompile, ReplyCompile, TakeCompile
<1>17. ASSUME NEW t \in Testers, TakeRun(t) PROVE Kept'
  <2>1. PICK q \in runq :
           /\ runq' = runq \ {q}
           /\ test' = [test EXCEPT ![t] = [req |-> q, out |-> "todo"]]
           /\ \A p \in runq' : p.run = q.run => p.n > q.n
    BY <1>2, <1>17
  <2>2. \A u \in Testers : u = t
    BY DEF OneTester
  <2>3. UNCHANGED <<rfile, runst, cur, status>>
    BY <1>17 DEF TakeRun
  <2>4. TestsInTurn'
    BY <2>1, <2>2, <2>3
  <2>5. Unseen'
    BY <2>1, <2>3
  <2> QED
    BY <2>4, <2>5
<1>18. ASSUME NEW t \in Testers, Test(t) PROVE Kept'
  BY <1>18 DEF Test, OneTester
<1>19. ASSUME NEW t \in Testers, TestBadly(t) PROVE Kept'
  BY <1>19 DEF TestBadly, OneTester
<1>20. ASSUME NEW t \in Testers, ReplyRun(t) PROVE Kept'
  BY <1>20 DEF ReplyRun, OneTester
<1>21. ASSUME NEW t \in Testers, LoseRun(t) PROVE Kept'
  BY <1>21 DEF LoseRun
<1>22. CASE Reload \/ UNCHANGED vars
  BY <1>22 DEF Reload, Restart, vars
<1> HIDE DEF Kept, AllKnown, TypeOK
<1> QED
  BY <1>3, <1>4, <1>5, <1>6, <1>7, <1>8, <1>9, <1>10, <1>11, <1>12,
     <1>13, <1>14, <1>15, <1>16, <1>17, <1>18, <1>19, <1>20, <1>21,
     <1>22
     DEF Next, Server, CompileServer, TestingServer, ReadCompileReply,
        ReadRunReply

InTurnInv ==
    /\ BuildsInTurn /\ OwnBuild
    /\ TestsInTurn /\ Unseen /\ ReportOfVerdict

LEMMA InTurnInit == Init => InTurnInv
  BY DEF Init, InTurnInv, BuildsInTurn, TestsInTurn, InTurn, OwnBuild, OwnExe,
     VerdictOfOwnBuild, Unseen, ReportOfVerdict

LEMMA InTurnStep ==
  ASSUME StaysLoaded, OneCompiler, OneTester, IInv, InTurnInv, [Next]_vars
  PROVE  InTurnInv'
<1>1. FileOfReply(cfile, compst) /\ FileOfReply(rfile, runst)
  BY DEF InTurnInv, BuildsInTurn, TestsInTurn, InTurn, FileOfReply
<1> QED
  BY <1>1, BuildsInTurnStep, OwnBuildStep, TestsInTurnStep, ReportStep
     DEF InTurnInv, OwnBuild

(***************************************************************************)
(* The report beside a verdict was written by the judging that gave the    *)
(* verdict, as long as there is one server of each kind: whatever crashes, *)
(* is lost or comes out badly, and however often the run is rejudged.      *)
(***************************************************************************)
THEOREM ReportIsOfVerdict ==
  ASSUME StaysLoaded, OneCompiler, OneTester
  PROVE  Spec => []ReportOfVerdict
<1>1. IInv /\ InTurnInv /\ [Next]_vars => InTurnInv'
  BY InTurnStep
<1>2. InTurnInv => ReportOfVerdict
  BY DEF InTurnInv
<1>3. Spec => []IInv
  BY Invariance DEF StaysLoaded
<1> QED
  BY InTurnInit, <1>1, <1>2, <1>3, PTL DEF Spec

-----------------------------------------------------------------------------
\* Without bad replies a reply with the stored judge_id is never dropped.
NoBadReply ==
    /\ \A t \in Testers : test[t] # None => test[t].out # "bad"
    /\ \A r \in Runs : runst[r] # None => runst[r].out # "bad"

HeldInv == NoBadReply /\ TransientIsHeld

\* Where the latest request of a run is, before and after its compilation.
CompileHeld(r) ==
    \/ \E q \in compq : q.run = r /\ q.n = cur[r]
    \/ HeldBy(comp, Compilers, r)
    \/ HeldBy(compst, Runs, r)

TestHeld(r) ==
    \/ \E q \in runq : q.run = r /\ q.n = cur[r]
    \/ HeldBy(test, Testers, r)
    \/ HeldBy(runst, Runs, r)

\* A step of a server on a request moves it along and moves no other.
LEMMA TakeHolds ==
  ASSUME NEW c \in Compilers, TypeOK, TakeCompile(c), NEW s \in Runs,
         CompileHeld(s)
  PROVE  CompileHeld(s)'
<1>1. PICK q \in compq :
         /\ compq' = compq \ {q}
         /\ comp' = [comp EXCEPT ![c] = [req |-> q, out |-> "todo"]]
  BY DEF TakeCompile
<1>2. /\ comp[c] = None /\ UNCHANGED <<compst, cur>>
      /\ comp \in [Compilers -> CompWork \cup {None}]
      /\ [req |-> q, out |-> "todo"] # None
  BY NoneAssumption DEF TakeCompile, TypeOK, ghosts, CompWork, CompOuts
<1> QED
  BY <1>1, <1>2 DEF CompileHeld, HeldBy

LEMMA BuildHolds ==
  ASSUME NEW c \in Compilers, TypeOK, Build(c), NEW s \in Runs,
         CompileHeld(s)
  PROVE  CompileHeld(s)'
<1>1. PICK o \in CompOuts :
         comp' = [comp EXCEPT ![c] = [req |-> comp[c].req, out |-> o]]
  BY DEF Build
<1>2. /\ comp[c] # None /\ UNCHANGED <<compq, compst, cur>>
      /\ comp \in [Compilers -> CompWork \cup {None}]
      /\ [req |-> comp[c].req, out |-> o] # None
  BY NoneAssumption DEF Build, TypeOK, ghosts, CompWork
<1> QED
  BY <1>1, <1>2 DEF CompileHeld, HeldBy

LEMMA TakeRunHolds ==
  ASSUME NEW t \in Testers, TypeOK, TakeRun(t), NEW s \in Runs, TestHeld(s)
  PROVE  TestHeld(s)'
<1>1. PICK q \in runq :
         /\ runq' = runq \ {q}
         /\ test' = [test EXCEPT ![t] = [req |-> q, out |-> "todo"]]
  BY DEF TakeRun
<1>2. /\ test[t] = None /\ UNCHANGED <<runst, cur>>
      /\ test \in [Testers -> TestWork \cup {None}]
      /\ [req |-> q, out |-> "todo"] # None
  BY NoneAssumption DEF TakeRun, TypeOK, ghosts, TestWork, TestOuts
<1> QED
  BY <1>1, <1>2 DEF TestHeld, HeldBy

LEMMA TestHolds ==
  ASSUME NEW t \in Testers, TypeOK, Test(t), NEW s \in Runs, TestHeld(s)
  PROVE  TestHeld(s)'
<1>1. PICK o \in TestOuts :
         test' = [test EXCEPT ![t] = [req |-> test[t].req, out |-> o]]
  BY DEF Test, TestOuts
<1>2. /\ test[t] # None /\ UNCHANGED <<runq, runst, cur>>
      /\ test \in [Testers -> TestWork \cup {None}]
      /\ [req |-> test[t].req, out |-> o] # None
  BY NoneAssumption DEF Test, TypeOK, ghosts, TestWork
<1> QED
  BY <1>1, <1>2 DEF TestHeld, HeldBy

\* Reading the reply about one run, or one that is not about its latest
\* request, takes nothing from another.
LEMMA RemoveHolds ==
  ASSUME NEW r \in Runs, TypeOK, AllKnown, RemoveCompileReply(r),
         UNCHANGED <<compq, comp, cur>>, NEW s \in Runs, CompileHeld(s),
         s # r \/ compst[r].req.n # cur[r]
  PROVE  CompileHeld(s)'
<1>1. compst' = [compst EXCEPT ![r] = None]
  BY DEF RemoveCompileReply
<1>2. /\ compst \in [Runs -> CompReplies \cup {None}]
      /\ \A d \in Runs : compst[d] # None => compst[d].req.run = d
  BY DEF TypeOK, AllKnown
<1>3. \A d \in Runs : compst[d] # None /\ compst[d].req.run = s
                      /\ compst[d].req.n = cur[s] => d # r
  BY <1>2
<1> QED
  BY <1>1, <1>2, <1>3 DEF CompileHeld, HeldBy

LEMMA RemoveRunHolds ==
  ASSUME NEW r \in Runs, TypeOK, AllKnown, RemoveRunReply(r),
         UNCHANGED <<runq, test, cur>>, NEW s \in Runs, TestHeld(s),
         s # r \/ runst[r].req.n # cur[r]
  PROVE  TestHeld(s)'
<1>1. runst' = [runst EXCEPT ![r] = None]
  BY DEF RemoveRunReply
<1>2. /\ runst \in [Runs -> TestReplies \cup {None}]
      /\ \A d \in Runs : runst[d] # None => runst[d].req.run = d
  BY DEF TypeOK, AllKnown
<1>3. \A d \in Runs : runst[d] # None /\ runst[d].req.run = s
                      /\ runst[d].req.n = cur[s] => d # r
  BY <1>2
<1> QED
  BY <1>1, <1>2, <1>3 DEF TestHeld, HeldBy

\* No reply is about to take the place of an awaited one.
NotOvertaken(S, work, reply) ==
    \A s \in S : work[s] # None /\ reply[work[s].req.run] # None =>
        reply[work[s].req.run].req.n # cur[work[s].req.run]

LEMMA HeldStep ==
  ASSUME StaysLoaded, MaxFaults = 0, IInv, HeldInv,
         NotOvertaken(Compilers, comp, compst),
         NotOvertaken(Testers, test, runst), [Next]_vars
  PROVE  HeldInv'
<1>1. /\ AllKnown /\ loadFrom = 0 /\ loads = 0 /\ TypeOK /\ MaxLoads = 0
      /\ faults = 0
      /\ \A r \in Runs : status[r] \in Transient /\ cur[r] > 0 =>
            judge[r] = cur[r]
  BY RequestsKnown DEF StaysLoaded, IInv, TypeOK, StoredId, Numbers
<1> USE <1>1 DEF TypeOK, dbVars, compVars, runVars, ghosts, AllKnown, Known,
        HeldInv, NoBadReply, TransientIsHeld, HeldBy,
        NotOvertaken, Transient, Numbers, JudgeIds, Requests, RunRequests,
        CompWork, TestWork, CompReplies, TestReplies, CompOuts, TestOuts
<1>2. ASSUME NEW r \in Runs, Ask(r) PROVE HeldInv'
  <2>1. NoBadReply'
    BY <1>2 DEF Ask
  <2>2. /\ cur' = [cur EXCEPT ![r] = asked + 1]
        /\ status' = [status EXCEPT ![r] =
                         IF r \in Direct THEN "RUNNING" ELSE "COMPILING"]
        /\ compq \subseteq compq' /\ runq \subseteq runq'
        /\ UNCHANGED <<comp, compst, test, runst>>
    BY <1>2 DEF Ask, Queue
  <2>3. /\ r \notin Direct => Request(r) \in compq'
        /\ r \in Direct => RunRequest(Request(r), asked + 1) \in runq'
    BY <1>2 DEF Ask, Queue
  <2>4. /\ Request(r).run = r /\ Request(r).n = cur'[r]
        /\ RunRequest(Request(r), asked + 1).run = r
        /\ RunRequest(Request(r), asked + 1).n = cur'[r]
    BY <2>2 DEF Request, RunRequest
  <2>5. ASSUME NEW s \in Runs PROVE
           /\ status'[s] = "COMPILING" => CompileHeld(s)'
           /\ status'[s] = "RUNNING" => TestHeld(s)'
    <3>1. CASE s = r
      BY <2>2, <2>3, <2>4, <3>1 DEF CompileHeld, TestHeld
    <3>2. CASE s # r
      BY <2>2, <3>2 DEF CompileHeld, TestHeld
    <3> QED
      BY <3>1, <3>2
  <2> QED
    BY <2>1, <2>5 DEF CompileHeld, TestHeld
<1>3. ASSUME NEW r \in Runs, AskFails(r) PROVE HeldInv'
  <2>1. NoBadReply'
    BY <1>3 DEF AskFails
  <2>2. /\ cur' = [cur EXCEPT ![r] = asked + 1]
        /\ status' = [status EXCEPT ![r] = "CHECK_FAILED"]
        /\ compq \subseteq compq'
        /\ UNCHANGED <<comp, compst, runq, test, runst>>
    BY <1>3 DEF AskFails
  <2>3. ASSUME NEW s \in Runs PROVE
           /\ status'[s] = "COMPILING" => CompileHeld(s)'
           /\ status'[s] = "RUNNING" => TestHeld(s)'
    <3>1. CASE s = r
      BY <2>2, <3>1
    <3>2. CASE s # r
      BY <2>2, <3>2 DEF CompileHeld, TestHeld
    <3> QED
      BY <3>1, <3>2
  <2> QED
    BY <2>1, <2>3 DEF CompileHeld, TestHeld
<1>4. ASSUME NEW r \in Runs, AskRefused(r) PROVE HeldInv'
  BY <1>4 DEF AskRefused
<1>5. ASSUME NEW r \in Runs, AskIgnored(r) PROVE HeldInv'
  BY <1>5 DEF AskIgnored, Number
<1>6. ASSUME NEW r \in Runs, Suspend(r) PROVE HeldInv'
  BY <1>6 DEF Suspend
<1>7. ASSUME NEW r \in Runs, SetStatus(r) PROVE HeldInv'
  BY <1>7 DEF SetStatus
<1>8. ASSUME NEW r \in Runs, DropCompileReply(r) PROVE HeldInv'
  <2>1. /\ RemoveCompileReply(r)
        /\ UNCHANGED <<status, compq, comp, runq, test, runst, cur>>
    BY <1>8 DEF DropCompileReply
  <2>2. status[r] = "COMPILING" => compst[r].req.n # cur[r]
    BY <1>8 DEF DropCompileReply, RemoveCompileReply, AwaitsCompile
  <2>3. \A s \in Runs : status[s] = "COMPILING" /\ CompileHeld(s)
                          => CompileHeld(s)'
    BY <2>1, <2>2, RemoveHolds
  <2> QED
    BY <2>1, <2>3 DEF CompileHeld
<1>9. ASSUME NEW r \in Runs, CompileFailed(r) PROVE HeldInv'
  <2>1. /\ RemoveCompileReply(r)
        /\ status'[r] \notin Transient
        /\ \A s \in Runs : s # r => status'[s] = status[s]
        /\ UNCHANGED <<compq, comp, runq, test, runst, cur>>
    BY <1>9 DEF CompileFailed, SetFinal
  <2>2. \A s \in Runs : s # r /\ CompileHeld(s) => CompileHeld(s)'
    BY <2>1, RemoveHolds
  <2> QED
    BY <2>1, <2>2 DEF CompileHeld
<1>10. ASSUME NEW r \in Runs, Accept(r) PROVE HeldInv'
  <2>1. /\ RemoveCompileReply(r)
        /\ status'[r] \notin Transient
        /\ \A s \in Runs : s # r => status'[s] = status[s]
        /\ UNCHANGED <<compq, comp, runq, test, runst, cur>>
    BY <1>10 DEF Accept, SetFinal
  <2>2. \A s \in Runs : s # r /\ CompileHeld(s) => CompileHeld(s)'
    BY <2>1, RemoveHolds
  <2> QED
    BY <2>1, <2>2 DEF CompileHeld
<1>11. ASSUME NEW r \in Runs, Forward(r) PROVE HeldInv'
  <2>1. /\ compst[r].req.n = cur[r] /\ compst[r].req.run = r
        /\ status[r] = "COMPILING"
    BY <1>11, AwaitedCompile DEF Forward, AwaitsCompile
  <2>2. /\ compst' = [compst EXCEPT ![r] = None]
        /\ status' = [status EXCEPT ![r] = "RUNNING"]
        /\ runq' = runq \cup {RunRequest(compst[r].req, cfile[r])}
        /\ UNCHANGED <<compq, comp, test, runst, cur>>
    BY <1>11 DEF Forward, RemoveCompileReply
  <2>3. /\ RunRequest(compst[r].req, cfile[r]).run = r
        /\ RunRequest(compst[r].req, cfile[r]).n = cur[r]
    BY <2>1 DEF RunRequest
  <2>4. ASSUME NEW s \in Runs PROVE
           /\ status'[s] = "COMPILING" => CompileHeld(s)'
           /\ status'[s] = "RUNNING" => TestHeld(s)'
    <3>1. CASE s = r
      BY <2>2, <2>3, <3>1 DEF TestHeld
    <3>2. CASE s # r
      BY <2>2, <3>2 DEF CompileHeld, TestHeld
    <3> QED
      BY <3>1, <3>2
  <2> QED
    BY <2>2, <2>4 DEF CompileHeld, TestHeld
<1>12. ASSUME NEW r \in Runs, ForwardFails(r) PROVE HeldInv'
  <2>1. /\ RemoveCompileReply(r)
        /\ status'[r] \notin Transient
        /\ \A s \in Runs : s # r => status'[s] = status[s]
        /\ UNCHANGED <<compq, comp, runq, test, runst, cur>>
    BY <1>12 DEF ForwardFails, SetFinal
  <2>2. \A s \in Runs : s # r /\ CompileHeld(s) => CompileHeld(s)'
    BY <2>1, RemoveHolds
  <2> QED
    BY <2>1, <2>2 DEF CompileHeld
<1>13. ASSUME NEW r \in Runs, DropRunReply(r) PROVE HeldInv'
  <2>1. /\ RemoveRunReply(r) /\ NoBadReply'
        /\ UNCHANGED <<status, compq, comp, compst, runq, test, cur>>
    BY <1>13 DEF DropRunReply, RemoveRunReply
  <2>2. status[r] = "RUNNING" => runst[r].req.n # cur[r]
    BY <1>13 DEF DropRunReply, RemoveRunReply, AwaitsRun
  <2>3. \A s \in Runs : status[s] = "RUNNING" /\ TestHeld(s) => TestHeld(s)'
    BY <2>1, <2>2, RemoveRunHolds
  <2> QED
    BY <2>1, <2>3 DEF TestHeld
<1>14. ASSUME NEW r \in Runs, Judge(r) PROVE HeldInv'
  <2>1. /\ status' = [status EXCEPT ![r] = runst[r].out]
        /\ runst[r].out \notin Transient
        /\ runst' = [runst EXCEPT ![r] = None]
        /\ UNCHANGED <<compq, comp, compst, runq, test, cur>>
    BY <1>14 DEF Judge, SetFinal, RemoveRunReply
  <2>2. \A t \in Runs : runst[t] # None => runst[t].req.run = t
    OBVIOUS
  <2> QED
    BY <2>1, <2>2
<1>15. ASSUME NEW r \in Runs, Die(r) PROVE HeldInv'
  BY <1>15 DEF Die, DieAsking, DieReadingCompile, DieReadingRun, Restart
<1>16. ASSUME NEW c \in Compilers, TakeCompile(c) PROVE HeldInv'
  <2>1. NoBadReply' /\ UNCHANGED <<status, runq, test, runst, cur>>
    BY <1>16 DEF TakeCompile
  <2>2. \A s \in Runs : CompileHeld(s) => CompileHeld(s)'
    BY <1>16, TakeHolds
  <2> QED
    BY <2>1, <2>2 DEF CompileHeld
<1>17. ASSUME NEW c \in Compilers, Build(c) PROVE HeldInv'
  <2>1. NoBadReply' /\ UNCHANGED <<status, runq, test, runst, cur>>
    BY <1>17 DEF Build
  <2>2. \A s \in Runs : CompileHeld(s) => CompileHeld(s)'
    BY <1>17, BuildHolds
  <2> QED
    BY <2>1, <2>2 DEF CompileHeld
<1>18. ASSUME NEW c \in Compilers, ReplyCompile(c) PROVE HeldInv'
  BY <1>18 DEF ReplyCompile
<1>19. ASSUME NEW c \in Compilers, LoseCompile(c) PROVE HeldInv'
  BY <1>19 DEF LoseCompile
<1>20. ASSUME NEW t \in Testers, TakeRun(t) PROVE HeldInv'
  <2>1. NoBadReply' /\ UNCHANGED <<status, compq, comp, compst, cur>>
    BY <1>20 DEF TakeRun
  <2>2. \A s \in Runs : TestHeld(s) => TestHeld(s)'
    BY <1>20, TakeRunHolds
  <2> QED
    BY <2>1, <2>2 DEF TestHeld
<1>21. ASSUME NEW t \in Testers, Test(t) PROVE HeldInv'
  <2>1. NoBadReply' /\ UNCHANGED <<status, compq, comp, compst, cur>>
    BY <1>21 DEF Test
  <2>2. \A s \in Runs : TestHeld(s) => TestHeld(s)'
    BY <1>21, TestHolds
  <2> QED
    BY <2>1, <2>2 DEF TestHeld
<1>22. ASSUME NEW t \in Testers, TestBadly(t) PROVE HeldInv'
  BY <1>22 DEF TestBadly
<1>23. ASSUME NEW t \in Testers, ReplyRun(t) PROVE HeldInv'
  BY <1>23 DEF ReplyRun
<1>24. ASSUME NEW t \in Testers, LoseRun(t) PROVE HeldInv'
  BY <1>24 DEF LoseRun
<1>25. CASE Reload
  BY <1>25 DEF Reload, Restart
<1>26. CASE UNCHANGED vars
  BY <1>26 DEF vars
<1> HIDE DEF HeldInv, AllKnown, TypeOK
<1> QED
  BY <1>2, <1>3, <1>4, <1>5, <1>6, <1>7, <1>8, <1>9, <1>10, <1>11,
     <1>12, <1>13, <1>14, <1>15, <1>16, <1>17, <1>18, <1>19, <1>20,
     <1>21, <1>22, <1>23, <1>24, <1>25, <1>26
     DEF Next, Server, CompileServer, TestingServer, ReadCompileReply,
        ReadRunReply

(***************************************************************************)
(* A run in a transient status is always held by a file or a server, as    *)
(* long as nothing crashes and there is one server of each kind.  Nothing  *)
(* looks for a run that is not held, so each hypothesis matters: a second  *)
(* server suffices to put a stale reply in the place of the awaited one.   *)
(***************************************************************************)
THEOREM TransientRunIsHeld ==
  ASSUME StaysLoaded, OneCompiler, OneTester, MaxFaults = 0
  PROVE  Spec => []TransientIsHeld
<1>1. Init => HeldInv
  BY DEF Init, HeldInv, NoBadReply, TransientIsHeld
<1>2. ASSUME IInv, InTurnInv
      PROVE  /\ NotOvertaken(Compilers, comp, compst)
             /\ NotOvertaken(Testers, test, runst)
  <2>1. AllKnown /\ TypeOK
    BY <1>2, RequestsKnown DEF StaysLoaded, IInv
  <2>2. BuildsInTurn /\ TestsInTurn
    BY <1>2 DEF InTurnInv
  <2>3. NotOvertaken(Compilers, comp, compst)
    BY <2>1, <2>2 DEF NotOvertaken, BuildsInTurn, InTurn, AllKnown, Known,
       TypeOK, CompWork, CompReplies, Requests, Numbers
  <2>4. NotOvertaken(Testers, test, runst)
    BY <2>1, <2>2 DEF NotOvertaken, TestsInTurn, InTurn, AllKnown, Known,
       TypeOK, TestWork, TestReplies, RunRequests, Numbers
  <2> QED
    BY <2>3, <2>4
<1>3. IInv /\ InTurnInv /\ HeldInv /\ [Next]_vars => InTurnInv' /\ HeldInv'
  BY <1>2, InTurnStep, HeldStep
<1>4. HeldInv => TransientIsHeld
  BY DEF HeldInv
<1>5. Spec => []IInv
  BY Invariance DEF StaysLoaded
<1> QED
  BY InTurnInit, <1>1, <1>3, <1>4, <1>5, PTL DEF Spec

-----------------------------------------------------------------------------
(* Several servers.  They may serve a run out of turn only when there are  *)
(* two requests about it, that is, when it is rejudged in the middle of a  *)
(* judging, which the code allows.                                         *)

Nowhere(r, Q, S, work, reply) ==
    /\ \A q \in Q : q.run # r
    /\ \A s \in S : work[s] # None => work[s].req.run # r
    /\ reply[r] = None

\* No file and no server has a request about the run.
Quiet(r) ==
    /\ Nowhere(r, compq, Compilers, comp, compst)
    /\ Nowhere(r, runq, Testers, test, runst)

QuietStep == \A r \in Runs : cur'[r] # cur[r] => Quiet(r)

\* Judges rejudge a run when its judging is over, or lost.
OneAtATime == [][QuietStep]_vars

\* There is one request about a run at most, and it is the latest one.
Alone(Q, S, work, file, reply) ==
    /\ \A q \in Q : q.n = cur[q.run] /\ reply[q.run] = None
    /\ \A s \in S : work[s] # None =>
          /\ work[s].req.n = cur[work[s].req.run]
          /\ reply[work[s].req.run] = None
          /\ \A q \in Q : q.run # work[s].req.run
          /\ \A u \in S : work[u] # None /\ work[u].req.run = work[s].req.run
                             => u = s
          /\ work[s].out # "todo" => file[work[s].req.run] = work[s].req.n
    /\ \A r \in Runs : reply[r] # None =>
          reply[r].req.n = cur[r] /\ file[r] = cur[r]

BuildsAlone == Alone(compq, Compilers, comp, cfile, compst)
TestsAlone == Alone(runq, Testers, test, rfile, runst)

NotTested ==
    \A r \in Runs : status[r] = "COMPILING" =>
        Nowhere(r, runq, Testers, test, runst)

LEMMA BuildsAloneStep ==
  ASSUME StaysLoaded, IInv, BuildsAlone, [Next]_vars, [QuietStep]_vars
  PROVE  BuildsAlone'
<1>1. AllKnown /\ loadFrom = 0 /\ loads = 0 /\ TypeOK /\ MaxLoads = 0
  BY RequestsKnown DEF StaysLoaded, IInv
<1>2. \A r \in Runs : cur'[r] # cur[r] =>
         Nowhere(r, compq, Compilers, comp, compst)
  BY DEF QuietStep, Quiet, vars, ghosts
<1> USE <1>1, <1>2 DEF TypeOK, compVars, ghosts, AllKnown, Known, BuildsAlone,
        Alone, Nowhere, Numbers, JudgeIds, Requests, CompWork, CompReplies
<1>3. ASSUME NEW r \in Runs, Ask(r) PROVE BuildsAlone'
  BY <1>3 DEF Ask, Number, Queue, Request, RunRequest
<1>4. ASSUME NEW r \in Runs, AskFails(r) PROVE BuildsAlone'
  BY <1>4 DEF AskFails, Number, Request
<1>5. ASSUME NEW r \in Runs, DropCompileReply(r) PROVE BuildsAlone'
  BY <1>5 DEF DropCompileReply, RemoveCompileReply
<1>6. ASSUME NEW r \in Runs, CompileFailed(r) PROVE BuildsAlone'
  <2>1. compst[r].req.n = cur[r] /\ cur[r] > 0 /\ compst[r].req.run = r
    BY <1>6, AwaitedCompile DEF CompileFailed
  <2> QED
    BY <1>6, <2>1 DEF CompileFailed, RemoveCompileReply, SetFinal, Show
<1>7. ASSUME NEW r \in Runs, Accept(r) PROVE BuildsAlone'
  <2>1. compst[r].req.n = cur[r] /\ cur[r] > 0 /\ compst[r].req.run = r
    BY <1>7, AwaitedCompile DEF Accept
  <2> QED
    BY <1>7, <2>1 DEF Accept, RemoveCompileReply, SetFinal, Show
<1>8. ASSUME NEW r \in Runs, Forward(r) PROVE BuildsAlone'
  <2>1. compst[r].req.n = cur[r] /\ cur[r] > 0 /\ compst[r].req.run = r
    BY <1>8, AwaitedCompile DEF Forward
  <2> QED
    BY <1>8, <2>1 DEF Forward, RemoveCompileReply, RunRequest
<1>9. ASSUME NEW r \in Runs, ForwardFails(r) PROVE BuildsAlone'
  <2>1. compst[r].req.n = cur[r] /\ cur[r] > 0 /\ compst[r].req.run = r
    BY <1>9, AwaitedCompile DEF ForwardFails
  <2> QED
    BY <1>9, <2>1 DEF ForwardFails, RemoveCompileReply, SetFinal, Show
<1>10. ASSUME NEW r \in Runs, Die(r) PROVE BuildsAlone'
  BY <1>10 DEF Die, DieAsking, DieReadingCompile, DieReadingRun, Restart
<1>11. ASSUME NEW r \in Runs,
             AskRefused(r) \/ AskIgnored(r) \/ Suspend(r) \/
             SetStatus(r) \/ DropRunReply(r) \/ Judge(r)
      PROVE  BuildsAlone'
  BY <1>11 DEF AskIgnored, AskRefused, DropRunReply, Judge, SetStatus,
     Suspend
<1>12. ASSUME NEW c \in Compilers, TakeCompile(c) PROVE BuildsAlone'
  BY <1>12 DEF TakeCompile
<1>13. ASSUME NEW c \in Compilers, Build(c) PROVE BuildsAlone'
  BY <1>13 DEF Build
<1>14. ASSUME NEW c \in Compilers, ReplyCompile(c) PROVE BuildsAlone'
  BY <1>14 DEF ReplyCompile
<1>15. ASSUME NEW c \in Compilers, LoseCompile(c) PROVE BuildsAlone'
  BY <1>15 DEF LoseCompile
<1>16. ASSUME NEW t \in Testers,
             TakeRun(t) \/ Test(t) \/ TestBadly(t) \/ ReplyRun(t) \/
             LoseRun(t)
      PROVE  BuildsAlone'
  BY <1>16 DEF LoseRun, ReplyRun, TakeRun, Test, TestBadly
<1>17. CASE Reload \/ UNCHANGED vars
  BY <1>17 DEF Reload, Restart, vars
<1> HIDE DEF BuildsAlone, AllKnown, TypeOK
<1> QED
  BY <1>3, <1>4, <1>5, <1>6, <1>7, <1>8, <1>9, <1>10, <1>11, <1>12,
     <1>13, <1>14, <1>15, <1>16, <1>17
     DEF Next, Server, CompileServer, TestingServer, ReadCompileReply,
        ReadRunReply

LEMMA TestsAloneStep ==
  ASSUME StaysLoaded, IInv, OwnExe, TestsAlone, NotTested, [Next]_vars,
         [QuietStep]_vars
  PROVE  TestsAlone' /\ NotTested'
<1>1. AllKnown /\ loadFrom = 0 /\ loads = 0 /\ TypeOK /\ MaxLoads = 0
  BY RequestsKnown DEF StaysLoaded, IInv
<1>2. \A r \in Runs : cur'[r] # cur[r] =>
         Nowhere(r, runq, Testers, test, runst)
  BY DEF QuietStep, Quiet, vars, ghosts
<1>3. \A p, q \in runq : p.run = q.run /\ p.n = q.n => p = q
  BY <1>1, TestsDiffer
<1> DEFINE Kept == TestsAlone /\ NotTested
<1> SUFFICES Kept'
  OBVIOUS
<1> USE <1>1, <1>2 DEF TypeOK, dbVars, compVars, runVars, ghosts, AllKnown,
        Known, TestsAlone, Alone, NotTested, Nowhere, Numbers, JudgeIds,
        Requests, RunRequests, TestWork, CompReplies, TestReplies, TestOuts
<1>4. ASSUME NEW r \in Runs, Ask(r) PROVE Kept'
  BY <1>4 DEF Ask, Number, Queue, Request, RunRequest
<1>5. ASSUME NEW r \in Runs, AskFails(r) PROVE Kept'
  BY <1>5 DEF AskFails, Number, Request
<1>6. ASSUME NEW r \in Runs, AskRefused(r) PROVE Kept'
  BY <1>6 DEF AskRefused
<1>7. ASSUME NEW r \in Runs, Suspend(r) PROVE Kept'
  BY <1>7 DEF Suspend
<1>8. ASSUME NEW r \in Runs, SetStatus(r) PROVE Kept'
  BY <1>8 DEF SetStatus
<1>9. ASSUME NEW r \in Runs, CompileFailed(r) PROVE Kept'
  BY <1>9 DEF CompileFailed, RemoveCompileReply, SetFinal, Show
<1>10. ASSUME NEW r \in Runs, Accept(r) PROVE Kept'
  BY <1>10 DEF Accept, RemoveCompileReply, SetFinal, Show
<1>11. ASSUME NEW r \in Runs, Forward(r) PROVE Kept'
  <2>1. /\ compst[r].req.n = cur[r] /\ cur[r] > 0 /\ compst[r].req.run = r
        /\ status[r] = "COMPILING"
    BY <1>11, AwaitedCompile DEF Forward, AwaitsCompile
  <2> QED
    BY <1>11, <2>1 DEF Forward, RemoveCompileReply, RunRequest
<1>12. ASSUME NEW r \in Runs, ForwardFails(r) PROVE Kept'
  BY <1>12 DEF ForwardFails, RemoveCompileReply, SetFinal, Show
<1>13. ASSUME NEW r \in Runs, DropRunReply(r) PROVE Kept'
  BY <1>13 DEF DropRunReply, RemoveRunReply
<1>14. ASSUME NEW r \in Runs, Judge(r) PROVE Kept'
  <2>1. runst[r].req.n = cur[r] /\ cur[r] > 0 /\ runst[r].req.run = r
    BY <1>14, AwaitedRun DEF Judge
  <2> QED
    BY <1>14, <2>1 DEF Judge, RemoveRunReply, SetFinal, Show
<1>15. ASSUME NEW r \in Runs, Die(r) PROVE Kept'
  BY <1>15 DEF Die, DieAsking, DieReadingCompile, DieReadingRun, Restart
<1>16. ASSUME NEW r \in Runs, AskIgnored(r) \/ DropCompileReply(r)
      PROVE  Kept'
  BY <1>16 DEF AskIgnored, DropCompileReply
<1>17. ASSUME NEW c \in Compilers,
             TakeCompile(c) \/ Build(c) \/ ReplyCompile(c) \/
             LoseCompile(c)
      PROVE  Kept'
  BY <1>17 DEF Build, LoseCompile, ReplyCompile, TakeCompile
<1>18. ASSUME NEW t \in Testers, TakeRun(t) PROVE Kept'
  <2>1. PICK q \in runq :
           /\ runq' = runq \ {q}
           /\ test' = [test EXCEPT ![t] = [req |-> q, out |-> "todo"]]
    BY <1>18 DEF TakeRun
  <2>2. \A p \in runq' : p.run # q.run
    BY <1>3, <2>1
  <2>3. test[t] = None /\ UNCHANGED <<rfile, runst, cur, status>>
    BY <1>18 DEF TakeRun
  <2>4. TestsAlone'
    BY <2>1, <2>2, <2>3
  <2>5. NotTested'
    BY <2>1, <2>3
  <2> QED
    BY <2>4, <2>5
<1>19. ASSUME NEW t \in Testers, Test(t) PROVE Kept'
  BY <1>19 DEF Test
<1>20. ASSUME NEW t \in Testers, TestBadly(t) PROVE Kept'
  BY <1>20 DEF TestBadly
<1>21. ASSUME NEW t \in Testers, ReplyRun(t) PROVE Kept'
  BY <1>21 DEF ReplyRun
<1>22. ASSUME NEW t \in Testers, LoseRun(t) PROVE Kept'
  BY <1>22 DEF LoseRun
<1>23. CASE Reload \/ UNCHANGED vars
  BY <1>23 DEF Reload, Restart, vars
<1> HIDE DEF Kept, AllKnown, TypeOK
<1> QED
  BY <1>4, <1>5, <1>6, <1>7, <1>8, <1>9, <1>10, <1>11, <1>12, <1>13,
     <1>14, <1>15, <1>16, <1>17, <1>18, <1>19, <1>20, <1>21, <1>22,
     <1>23
     DEF Next, Server, CompileServer, TestingServer, ReadCompileReply,
        ReadRunReply

AloneInv ==
    /\ BuildsAlone /\ OwnBuild
    /\ TestsAlone /\ NotTested /\ ReportOfVerdict

LEMMA AloneInit == Init => AloneInv
  BY DEF Init, AloneInv, BuildsAlone, TestsAlone, Alone, OwnBuild, OwnExe,
     VerdictOfOwnBuild, NotTested, ReportOfVerdict

LEMMA AloneStep ==
  ASSUME StaysLoaded, IInv, AloneInv, [Next]_vars, [QuietStep]_vars
  PROVE  AloneInv'
<1>1. FileOfReply(cfile, compst) /\ FileOfReply(rfile, runst)
  BY DEF AloneInv, BuildsAlone, TestsAlone, Alone, FileOfReply
<1> QED
  BY <1>1, BuildsAloneStep, OwnBuildStep, TestsAloneStep, ReportStep
     DEF AloneInv, OwnBuild

(***************************************************************************)
(* With any number of servers, in any order: if no run is rejudged in the  *)
(* middle of a judging, verdicts are of their own build and report.        *)
(***************************************************************************)
THEOREM OwnFilesOneAtATime ==
  ASSUME StaysLoaded
  PROVE  Spec /\ OneAtATime => [](VerdictOfOwnBuild /\ ReportOfVerdict)
<1>1. IInv /\ AloneInv /\ [Next]_vars /\ [QuietStep]_vars => AloneInv'
  BY AloneStep
<1>2. AloneInv => VerdictOfOwnBuild /\ ReportOfVerdict
  BY DEF AloneInv, OwnBuild
<1>3. Spec => []IInv
  BY Invariance DEF StaysLoaded
<1> QED
  BY AloneInit, <1>1, <1>2, <1>3, PTL DEF Spec, OneAtATime

(***************************************************************************)
(* And, if nothing crashes, each run in a transient status is held.        *)
(***************************************************************************)
THEOREM HeldOneAtATime ==
  ASSUME StaysLoaded, MaxFaults = 0
  PROVE  Spec /\ OneAtATime => []TransientIsHeld
<1>1. Init => HeldInv
  BY DEF Init, HeldInv, NoBadReply, TransientIsHeld
<1>2. AloneInv => /\ NotOvertaken(Compilers, comp, compst)
                  /\ NotOvertaken(Testers, test, runst)
  BY DEF AloneInv, BuildsAlone, TestsAlone, Alone, NotOvertaken
<1>3. IInv /\ AloneInv /\ HeldInv /\ [Next]_vars /\ [QuietStep]_vars
        => AloneInv' /\ HeldInv'
  BY <1>2, AloneStep, HeldStep
<1>4. HeldInv => TransientIsHeld
  BY DEF HeldInv
<1>5. Spec => []IInv
  BY Invariance DEF StaysLoaded
<1> QED
  BY AloneInit, <1>1, <1>3, <1>4, <1>5, PTL DEF Spec, OneAtATime
-----------------------------------------------------------------------------
(* The way of a judging through spools and servers.                        *)

Waits(Q, r) == \E q \in Q : q.run = r /\ q.n = cur[r]

Works(S, work, r) ==
    \E s \in S : /\ work[s] # None /\ work[s].out = "todo"
                 /\ work[s].req.run = r /\ work[s].req.n = cur[r]

Done(S, work, r) ==
    \E s \in S : /\ work[s] # None /\ work[s].out # "todo"
                 /\ work[s].req.run = r /\ work[s].req.n = cur[r]

Replied(reply, r) == reply[r] # None /\ reply[r].req.n = cur[r]

\* The latest request of a run is at station k.
At(r, k) ==
    \/ k = 1 /\ Waits(compq, r)
    \/ k = 2 /\ Works(Compilers, comp, r)
    \/ k = 3 /\ Done(Compilers, comp, r)
    \/ k = 4 /\ Replied(compst, r)
    \/ k = 5 /\ Waits(runq, r)
    \/ k = 6 /\ Works(Testers, test, r)
    \/ k = 7 /\ Done(Testers, test, r)
    \/ k = 8 /\ Replied(runst, r)

\* It is at one station, and the status says in which half of the way.
OneStation ==
    \A r \in Runs : status[r] \in Transient =>
        \E k \in IF status[r] = "COMPILING" THEN 1 .. 4 ELSE 5 .. 8 :
            \A j \in 1 .. 8 : At(r, j) <=> j = k

\* It stays there or goes to the next one, until the run is judged or a new
\* request takes its place.
StationStep ==
    \A r \in Runs :
        {status[r], status'[r]} \subseteq Transient /\ cur'[r] = cur[r] =>
            \A k \in 1 .. 8 : At(r, k) => At(r, k)' \/ At(r, k + 1)'

\* The latest request is at one of the four stations of its half at most.
Apart(Q, S, work, reply) ==
    \A r \in Runs :
        /\ Waits(Q, r) => ~(Works(S, work, r) \/ Done(S, work, r)
                              \/ Replied(reply, r))
        /\ Works(S, work, r) => ~(Done(S, work, r) \/ Replied(reply, r))
        /\ Done(S, work, r) => ~Replied(reply, r)

AwayFrom(Q, S, work, reply, r) ==
    ~(Waits(Q, r) \/ Works(S, work, r) \/ Done(S, work, r)
        \/ Replied(reply, r))

\* A run that waits for one half has nothing in the other.
NotInTest ==
    \A r \in Runs : status[r] = "COMPILING" =>
        AwayFrom(runq, Testers, test, runst, r)

NotInCompile ==
    \A r \in Runs : status[r] = "RUNNING" =>
        AwayFrom(compq, Compilers, comp, compst, r)

LEMMA NotInCompileStep ==
  ASSUME StaysLoaded, IInv, NotInCompile,
         Apart(compq, Compilers, comp, compst), [Next]_vars
  PROVE  NotInCompile'
<1>1. /\ AllKnown /\ loadFrom = 0 /\ loads = 0 /\ TypeOK /\ MaxLoads = 0
  BY RequestsKnown DEF StaysLoaded, IInv
<1> USE <1>1 DEF TypeOK, compVars, ghosts, AllKnown, Known, NotInCompile,
        AwayFrom, Waits, Works, Done, Replied, Transient, Numbers, JudgeIds,
        Requests, CompWork, CompReplies
<1>2. ASSUME NEW r \in Runs, Ask(r) PROVE NotInCompile'
  <2>1. /\ cur' = [cur EXCEPT ![r] = asked + 1]
        /\ status' = [status EXCEPT ![r] =
                         IF r \in Direct THEN "RUNNING" ELSE "COMPILING"]
        /\ compq' = IF r \in Direct THEN compq ELSE compq \cup {Request(r)}
        /\ Request(r).run = r
        /\ UNCHANGED <<comp, compst>>
    BY <1>2 DEF Ask, Queue, Request
  <2>2. ASSUME NEW s \in Runs, status'[s] = "RUNNING"
        PROVE  AwayFrom(compq, Compilers, comp, compst, s)'
    <3>1. CASE s # r
      BY <2>1, <2>2, <3>1
    <3>2. CASE s = r
      <4>1. r \in Direct /\ compq' = compq /\ cur'[r] = asked + 1
        BY <2>1, <2>2, <3>2
      <4>2. \A n \in 1 .. asked : n # asked + 1
        OBVIOUS
      <4> QED
        BY <2>1, <3>2, <4>1, <4>2
    <3> QED
      BY <3>1, <3>2
  <2> QED
    BY <2>2
<1>3. ASSUME NEW r \in Runs, AskFails(r) PROVE NotInCompile'
  <2>1. /\ cur' = [cur EXCEPT ![r] = asked + 1]
        /\ status' = [status EXCEPT ![r] = "CHECK_FAILED"]
        /\ compq' \subseteq compq \cup {Request(r)}
        /\ Request(r).run = r
        /\ UNCHANGED <<comp, compst>>
    BY <1>3 DEF AskFails, Request
  <2>2. ASSUME NEW s \in Runs, status'[s] = "RUNNING" PROVE s # r
    BY <2>1, <2>2
  <2> QED
    BY <2>1, <2>2
<1>4. ASSUME NEW r \in Runs, Forward(r) PROVE NotInCompile'
  <2>1. /\ compst[r].req.n = cur[r] /\ compst[r].req.run = r
        /\ compst[r] # None
    BY <1>4, AwaitedCompile DEF Forward, RemoveCompileReply
  <2>2. ~Waits(compq, r) /\ ~Works(Compilers, comp, r)
        /\ ~Done(Compilers, comp, r)
    BY <2>1 DEF Apart
  <2>3. /\ compst' = [compst EXCEPT ![r] = None]
        /\ status' = [status EXCEPT ![r] = "RUNNING"]
        /\ UNCHANGED <<compq, comp, cur>>
    BY <1>4 DEF Forward, RemoveCompileReply
  <2>4. ASSUME NEW s \in Runs, status'[s] = "RUNNING"
        PROVE  AwayFrom(compq, Compilers, comp, compst, s)'
    <3>1. CASE s # r
      BY <2>3, <2>4, <3>1
    <3>2. CASE s = r
      BY <2>2, <2>3, <3>2
    <3> QED
      BY <3>1, <3>2
  <2> QED
    BY <2>4
<1>5. ASSUME NEW r \in Runs,
             AskRefused(r) \/ AskIgnored(r) \/ Suspend(r) \/ SetStatus(r)
      PROVE  NotInCompile'
  BY <1>5 DEF AskRefused, AskIgnored, Number, Suspend, SetStatus, dbVars
<1>6. ASSUME NEW r \in Runs, DropCompileReply(r) PROVE NotInCompile'
  BY <1>6 DEF DropCompileReply, RemoveCompileReply, dbVars
<1>7. ASSUME NEW r \in Runs,
             CompileFailed(r) \/ Accept(r) \/ ForwardFails(r)
      PROVE  NotInCompile'
  <2>1. /\ status'[r] # "RUNNING"
        /\ \A s \in Runs : s # r => status'[s] = status[s]
        /\ compst' = [compst EXCEPT ![r] = None]
        /\ UNCHANGED <<compq, comp, cur>>
    BY <1>7 DEF CompileFailed, Accept, ForwardFails, RemoveCompileReply,
       SetFinal
  <2> QED
    BY <2>1
<1>8. ASSUME NEW r \in Runs, DropRunReply(r) PROVE NotInCompile'
  BY <1>8 DEF DropRunReply, dbVars
<1>9. ASSUME NEW r \in Runs, Judge(r) PROVE NotInCompile'
  <2>1. /\ status' = [status EXCEPT ![r] = runst[r].out]
        /\ runst[r].out # "RUNNING"
        /\ UNCHANGED <<compq, comp, compst, cur>>
    BY <1>9 DEF Judge, SetFinal, RemoveRunReply, TestReplies, TestOuts
  <2> QED
    BY <2>1
<1>10. ASSUME NEW r \in Runs, Die(r) PROVE NotInCompile'
  BY <1>10 DEF Die, DieAsking, DieReadingCompile, DieReadingRun, Restart
<1>11. ASSUME NEW c \in Compilers, TakeCompile(c) PROVE NotInCompile'
  BY <1>11 DEF TakeCompile, dbVars
<1>12. ASSUME NEW c \in Compilers, Build(c) PROVE NotInCompile'
  BY <1>12 DEF Build, dbVars
<1>13. ASSUME NEW c \in Compilers, ReplyCompile(c) PROVE NotInCompile'
  BY <1>13 DEF ReplyCompile, dbVars
<1>14. ASSUME NEW c \in Compilers, LoseCompile(c) PROVE NotInCompile'
  BY <1>14 DEF LoseCompile, dbVars
<1>15. ASSUME NEW t \in Testers, TestingServer(t) PROVE NotInCompile'
  BY <1>15 DEF TestingServer, TakeRun, Test, TestBadly, ReplyRun, LoseRun,
     dbVars
<1>16. CASE Reload \/ UNCHANGED vars
  BY <1>16 DEF Reload, Restart, vars, dbVars
<1> HIDE DEF NotInCompile, AllKnown, TypeOK
<1> QED
  BY <1>2, <1>3, <1>4, <1>5, <1>6, <1>7, <1>8, <1>9, <1>10, <1>11, <1>12,
     <1>13, <1>14, <1>15, <1>16
     DEF Next, Server, CompileServer, ReadCompileReply, ReadRunReply

LEMMA HeldAtOneStation ==
  ASSUME TypeOK, AllKnown, HeldInv,
         Apart(compq, Compilers, comp, compst),
         Apart(runq, Testers, test, runst), NotInTest, NotInCompile
  PROVE  OneStation
<1> SUFFICES ASSUME NEW r \in Runs, status[r] \in Transient
             PROVE  \E k \in IF status[r] = "COMPILING" THEN 1 .. 4 ELSE 5 .. 8 :
                       \A j \in 1 .. 8 : At(r, j) <=> j = k
  BY DEF OneStation
<1>1. CASE status[r] = "COMPILING"
  <2>1. Waits(compq, r) \/ HeldBy(comp, Compilers, r) \/ HeldBy(compst, Runs, r)
    BY <1>1 DEF HeldInv, TransientIsHeld, Waits
  <2>2. HeldBy(comp, Compilers, r) =>
           Works(Compilers, comp, r) \/ Done(Compilers, comp, r)
    BY DEF HeldBy, Works, Done
  <2>3. HeldBy(compst, Runs, r) => Replied(compst, r)
    BY DEF HeldBy, Replied, AllKnown
  <2>4. AwayFrom(runq, Testers, test, runst, r)
    BY <1>1 DEF NotInTest
  <2>5. /\ ~At(r, 5) /\ ~At(r, 6) /\ ~At(r, 7) /\ ~At(r, 8)
        /\ At(r, 1) => ~At(r, 2) /\ ~At(r, 3) /\ ~At(r, 4)
        /\ At(r, 2) => ~At(r, 3) /\ ~At(r, 4)
        /\ At(r, 3) => ~At(r, 4)
        /\ At(r, 1) \/ At(r, 2) \/ At(r, 3) \/ At(r, 4)
    BY <2>1, <2>2, <2>3, <2>4 DEF At, AwayFrom, Apart
  <2>6. \A j \in 1 .. 8 : j \in {1, 2, 3, 4, 5, 6, 7, 8}
    OBVIOUS
  <2>7. \E k \in {1, 2, 3, 4} : \A j \in 1 .. 8 : At(r, j) <=> j = k
    BY <2>5, <2>6
  <2> QED
    BY <1>1, <2>7
<1>2. CASE status[r] = "RUNNING"
  <2>1. Waits(runq, r) \/ HeldBy(test, Testers, r) \/ HeldBy(runst, Runs, r)
    BY <1>2 DEF HeldInv, TransientIsHeld, Waits
  <2>2. HeldBy(test, Testers, r) =>
           Works(Testers, test, r) \/ Done(Testers, test, r)
    BY DEF HeldBy, Works, Done
  <2>3. HeldBy(runst, Runs, r) => Replied(runst, r)
    BY DEF HeldBy, Replied, AllKnown
  <2>4. AwayFrom(compq, Compilers, comp, compst, r)
    BY <1>2 DEF NotInCompile
  <2>5. /\ ~At(r, 1) /\ ~At(r, 2) /\ ~At(r, 3) /\ ~At(r, 4)
        /\ At(r, 5) => ~At(r, 6) /\ ~At(r, 7) /\ ~At(r, 8)
        /\ At(r, 6) => ~At(r, 7) /\ ~At(r, 8)
        /\ At(r, 7) => ~At(r, 8)
        /\ At(r, 5) \/ At(r, 6) \/ At(r, 7) \/ At(r, 8)
    BY <2>1, <2>2, <2>3, <2>4 DEF At, AwayFrom, Apart
  <2>6. \A j \in 1 .. 8 : j \in {1, 2, 3, 4, 5, 6, 7, 8}
    OBVIOUS
  <2>7. \E k \in {5, 6, 7, 8} : \A j \in 1 .. 8 : At(r, j) <=> j = k
    BY <2>5, <2>6
  <2> QED
    BY <1>2, <2>7
<1> QED
  BY <1>1, <1>2 DEF Transient

\* A request goes on through one half of its way, up to the reply.
Onward(Q, S, work, reply, r) ==
    /\ Waits(Q, r) => (Waits(Q, r) \/ Works(S, work, r))'
    /\ Works(S, work, r) => (Works(S, work, r) \/ Done(S, work, r))'
    /\ Done(S, work, r) => (Done(S, work, r) \/ Replied(reply, r))'

LEMMA CompileMoves ==
  ASSUME StaysLoaded, MaxFaults = 0, IInv,
         NotOvertaken(Compilers, comp, compst), [Next]_vars,
         NEW r \in Runs, status[r] = "COMPILING", status'[r] \in Transient,
         cur'[r] = cur[r]
  PROVE  /\ Onward(compq, Compilers, comp, compst, r)
         /\ Replied(compst, r) => Replied(compst, r)' \/ Waits(runq, r)'
<1> DEFINE Goal == /\ Onward(compq, Compilers, comp, compst, r)
                   /\ Replied(compst, r) => Replied(compst, r)' \/ Waits(runq, r)'
<1>1. /\ AllKnown /\ loadFrom = 0 /\ loads = 0 /\ TypeOK /\ MaxLoads = 0
      /\ faults = 0
      /\ cur[r] > 0 => judge[r] = cur[r]
  BY RequestsKnown DEF StaysLoaded, IInv, TypeOK, StoredId, Numbers, Transient
<1> USE <1>1 DEF TypeOK, compVars, ghosts, AllKnown, Known, Onward, Waits,
        Works, Done, Replied, Transient
<1>2. ASSUME compq \subseteq compq' /\ UNCHANGED <<comp, compst>> PROVE Goal
  BY <1>2
<1>3. ASSUME NEW s \in Runs, Ask(s) \/ AskFails(s) PROVE Goal
  BY <1>2, <1>3 DEF Ask, AskFails, Queue
<1>4. ASSUME NEW s \in Runs,
             AskRefused(s) \/ AskIgnored(s) \/ Suspend(s) \/ SetStatus(s) \/
             DropRunReply(s) \/ Judge(s)
      PROVE  Goal
  BY <1>2, <1>4 DEF AskRefused, AskIgnored, Suspend, SetStatus, DropRunReply,
     Judge
<1>5. ASSUME NEW s \in Runs, ReadCompileReply(s), s # r PROVE Goal
  <2>1. compst' = [compst EXCEPT ![s] = None] /\ UNCHANGED <<compq, comp>>
    BY <1>5 DEF ReadCompileReply, DropCompileReply, CompileFailed, Accept,
       Forward, ForwardFails, RemoveCompileReply
  <2> QED
    BY <1>5, <2>1
<1>6. ASSUME DropCompileReply(r) PROVE Goal
  <2>1. compst[r].req.n # cur[r]
    BY <1>6 DEF DropCompileReply, RemoveCompileReply, AwaitsCompile, Numbers,
       CompReplies, Requests
  <2>2. compst' = [compst EXCEPT ![r] = None] /\ UNCHANGED <<compq, comp>>
    BY <1>6 DEF DropCompileReply, RemoveCompileReply
  <2> QED
    BY <2>1, <2>2
<1>7. ASSUME CompileFailed(r) \/ Accept(r) \/ ForwardFails(r) PROVE Goal
  <2>1. status'[r] \notin Transient
    BY <1>7 DEF CompileFailed, Accept, ForwardFails, SetFinal
  <2> QED
    BY <2>1
<1>8. ASSUME Forward(r) PROVE Goal
  <2>1. compst[r].req.n = cur[r] /\ compst[r].req.run = r
    BY <1>8, AwaitedCompile DEF Forward
  <2>2. /\ RunRequest(compst[r].req, cfile[r]).run = r
        /\ RunRequest(compst[r].req, cfile[r]).n = cur[r]
    BY <2>1 DEF RunRequest
  <2>3. /\ runq' = runq \cup {RunRequest(compst[r].req, cfile[r])}
        /\ UNCHANGED <<compq, comp>>
    BY <1>8 DEF Forward
  <2> QED
    BY <2>2, <2>3
<1>9. ASSUME NEW s \in Runs, Die(s) PROVE Goal
  BY <1>9 DEF Die, DieAsking, DieReadingCompile, DieReadingRun, Restart
<1>10. ASSUME NEW c \in Compilers, TakeCompile(c) PROVE Goal
  <2>1. PICK q \in compq :
           /\ compq' = compq \ {q}
           /\ comp' = [comp EXCEPT ![c] = [req |-> q, out |-> "todo"]]
    BY <1>10 DEF TakeCompile
  <2>2. /\ comp[c] = None /\ UNCHANGED compst
        /\ comp \in [Compilers -> CompWork \cup {None}]
        /\ [req |-> q, out |-> "todo"] # None
    BY <1>10, NoneAssumption DEF TakeCompile, CompWork, CompOuts
  <2> QED
    BY <2>1, <2>2
<1>11. ASSUME NEW c \in Compilers, Build(c) PROVE Goal
  <2>1. PICK o \in CompOuts \ {"todo"} :
           comp' = [comp EXCEPT ![c] = [req |-> comp[c].req, out |-> o]]
    BY <1>11 DEF Build
  <2>2. /\ comp[c] # None /\ comp[c].out = "todo" /\ UNCHANGED <<compq, compst>>
        /\ comp \in [Compilers -> CompWork \cup {None}]
        /\ [req |-> comp[c].req, out |-> o] # None
    BY <1>11, <2>1, NoneAssumption DEF Build, CompWork
  <2> QED
    BY <2>1, <2>2
<1>12. ASSUME NEW c \in Compilers, ReplyCompile(c) PROVE Goal
  <2>1. /\ comp[c] # None /\ comp[c].out # "todo" /\ UNCHANGED compq
        /\ compst' = [compst EXCEPT ![comp[c].req.run] = comp[c]]
        /\ comp' = [comp EXCEPT ![c] = None]
    BY <1>12 DEF ReplyCompile
  <2>2. /\ comp[c] \in CompWork /\ comp[c].req.run \in Runs
        /\ compst[comp[c].req.run] # None =>
              compst[comp[c].req.run].req.n # cur[comp[c].req.run]
    BY <2>1 DEF NotOvertaken, CompWork, Requests
  <2> QED
    BY <2>1, <2>2
<1>13. ASSUME NEW c \in Compilers, LoseCompile(c) PROVE Goal
  BY <1>13 DEF LoseCompile
<1>14. ASSUME NEW t \in Testers, TestingServer(t) PROVE Goal
  BY <1>2, <1>14 DEF TestingServer, TakeRun, Test, TestBadly, ReplyRun, LoseRun
<1>15. ASSUME Reload \/ UNCHANGED vars PROVE Goal
  BY <1>2, <1>15 DEF Reload, Restart, vars
<1> HIDE DEF Goal, AllKnown, TypeOK
<1>16. ASSUME NEW s \in Runs, ReadCompileReply(s) PROVE Goal
  BY <1>5, <1>6, <1>7, <1>8, <1>16 DEF ReadCompileReply
<1>17. ASSUME NEW s \in Runs, Server(s) PROVE Goal
  BY <1>3, <1>4, <1>16, <1>17 DEF Server, ReadRunReply
<1>18. ASSUME NEW c \in Compilers, CompileServer(c) PROVE Goal
  BY <1>10, <1>11, <1>12, <1>13, <1>18 DEF CompileServer
<1>19. Goal
  BY <1>9, <1>14, <1>15, <1>17, <1>18 DEF Next
<1> QED
  BY <1>19 DEF Goal

LEMMA TestMoves ==
  ASSUME StaysLoaded, MaxFaults = 0, IInv, NoBadReply,
         NotOvertaken(Testers, test, runst), [Next]_vars,
         NEW r \in Runs, status[r] = "RUNNING", status'[r] \in Transient,
         cur'[r] = cur[r]
  PROVE  /\ Onward(runq, Testers, test, runst, r)
         /\ Replied(runst, r) => Replied(runst, r)'
<1> DEFINE Goal == /\ Onward(runq, Testers, test, runst, r)
                   /\ Replied(runst, r) => Replied(runst, r)'
<1>1. /\ AllKnown /\ loadFrom = 0 /\ loads = 0 /\ TypeOK /\ MaxLoads = 0
      /\ faults = 0
      /\ cur[r] > 0 => judge[r] = cur[r]
  BY RequestsKnown DEF StaysLoaded, IInv, TypeOK, StoredId, Numbers, Transient
<1> USE <1>1 DEF TypeOK, runVars, ghosts, AllKnown, Known, Onward, Waits,
        Works, Done, Replied, Transient
<1>2. ASSUME runq \subseteq runq' /\ UNCHANGED <<test, runst>> PROVE Goal
  BY <1>2
<1>3. ASSUME NEW s \in Runs, Ask(s) \/ AskFails(s) PROVE Goal
  BY <1>2, <1>3 DEF Ask, AskFails, Queue
<1>4. ASSUME NEW s \in Runs,
             AskRefused(s) \/ AskIgnored(s) \/ Suspend(s) \/ SetStatus(s) \/
             ReadCompileReply(s)
      PROVE  Goal
  BY <1>2, <1>4 DEF AskRefused, AskIgnored, Suspend, SetStatus,
     ReadCompileReply, DropCompileReply, CompileFailed, Accept, Forward,
     ForwardFails
<1>5. ASSUME NEW s \in Runs, ReadRunReply(s), s # r PROVE Goal
  <2>1. runst' = [runst EXCEPT ![s] = None] /\ UNCHANGED <<runq, test>>
    BY <1>5 DEF ReadRunReply, DropRunReply, Judge, RemoveRunReply
  <2> QED
    BY <1>5, <2>1
<1>6. ASSUME DropRunReply(r) PROVE Goal
  <2>1. runst[r].req.n # cur[r]
    BY <1>6 DEF DropRunReply, RemoveRunReply, AwaitsRun, Numbers, NoBadReply,
       TestReplies, RunRequests
  <2>2. runst' = [runst EXCEPT ![r] = None] /\ UNCHANGED <<runq, test>>
    BY <1>6 DEF DropRunReply, RemoveRunReply
  <2> QED
    BY <2>1, <2>2
<1>7. ASSUME Judge(r) PROVE Goal
  <2>1. status'[r] = runst[r].out /\ runst[r] \in TestReplies
    BY <1>7 DEF Judge, SetFinal, RemoveRunReply
  <2>2. status'[r] \notin Transient
    BY <2>1 DEF TestReplies, TestOuts
  <2> QED
    BY <2>2
<1>8. ASSUME NEW s \in Runs, Die(s) PROVE Goal
  BY <1>8 DEF Die, DieAsking, DieReadingCompile, DieReadingRun, Restart
<1>9. ASSUME NEW t \in Testers, TakeRun(t) PROVE Goal
  <2>1. PICK q \in runq :
           /\ runq' = runq \ {q}
           /\ test' = [test EXCEPT ![t] = [req |-> q, out |-> "todo"]]
    BY <1>9 DEF TakeRun
  <2>2. /\ test[t] = None /\ UNCHANGED runst
        /\ test \in [Testers -> TestWork \cup {None}]
        /\ [req |-> q, out |-> "todo"] # None
    BY <1>9, NoneAssumption DEF TakeRun, TestWork, TestOuts
  <2> QED
    BY <2>1, <2>2
<1>10. ASSUME NEW t \in Testers, Test(t) PROVE Goal
  <2>1. PICK o \in {"OK", "CHECK_FAILED"} :
           test' = [test EXCEPT ![t] = [req |-> test[t].req, out |-> o]]
    BY <1>10 DEF Test
  <2>2. /\ test[t] # None /\ test[t].out = "todo" /\ UNCHANGED <<runq, runst>>
        /\ test \in [Testers -> TestWork \cup {None}]
        /\ [req |-> test[t].req, out |-> o] # None
    BY <1>10, <2>1, NoneAssumption DEF Test, TestWork, TestOuts
  <2> QED
    BY <2>1, <2>2
<1>11. ASSUME NEW t \in Testers, ReplyRun(t) PROVE Goal
  <2>1. /\ test[t] # None /\ test[t].out # "todo" /\ UNCHANGED runq
        /\ runst' = [runst EXCEPT ![test[t].req.run] = test[t]]
        /\ test' = [test EXCEPT ![t] = None]
    BY <1>11 DEF ReplyRun
  <2>2. /\ test[t] \in TestWork /\ test[t].req.run \in Runs
        /\ runst[test[t].req.run] # None =>
              runst[test[t].req.run].req.n # cur[test[t].req.run]
    BY <2>1 DEF NotOvertaken, TestWork, RunRequests
  <2> QED
    BY <2>1, <2>2
<1>12. ASSUME NEW t \in Testers, TestBadly(t) \/ LoseRun(t) PROVE Goal
  BY <1>12 DEF TestBadly, LoseRun
<1>13. ASSUME NEW c \in Compilers, CompileServer(c) PROVE Goal
  BY <1>2, <1>13 DEF CompileServer, TakeCompile, Build, ReplyCompile,
     LoseCompile
<1>14. ASSUME Reload \/ UNCHANGED vars PROVE Goal
  BY <1>2, <1>14 DEF Reload, Restart, vars
<1> HIDE DEF Goal, AllKnown, TypeOK
<1>15. ASSUME NEW s \in Runs, ReadRunReply(s) PROVE Goal
  BY <1>5, <1>6, <1>7, <1>15 DEF ReadRunReply
<1>16. ASSUME NEW s \in Runs, Server(s) PROVE Goal
  BY <1>3, <1>4, <1>15, <1>16 DEF Server
<1>17. ASSUME NEW t \in Testers, TestingServer(t) PROVE Goal
  BY <1>9, <1>10, <1>11, <1>12, <1>17 DEF TestingServer
<1>18. Goal
  BY <1>8, <1>13, <1>14, <1>16, <1>17 DEF Next
<1> QED
  BY <1>18 DEF Goal

LEMMA StationStepHolds ==
  ASSUME StaysLoaded, MaxFaults = 0, IInv, NoBadReply, OneStation,
         NotOvertaken(Compilers, comp, compst),
         NotOvertaken(Testers, test, runst), [Next]_vars
  PROVE  StationStep
<1> SUFFICES ASSUME NEW r \in Runs, status[r] \in Transient,
                    status'[r] \in Transient, cur'[r] = cur[r],
                    NEW k \in 1 .. 8, At(r, k)
             PROVE  At(r, k)' \/ At(r, k + 1)'
  BY DEF StationStep
<1>1. CASE status[r] = "COMPILING"
  <2>1. k \in 1 .. 4
    BY <1>1 DEF OneStation
  <2>2. /\ Onward(compq, Compilers, comp, compst, r)
        /\ Replied(compst, r) => Replied(compst, r)' \/ Waits(runq, r)'
    BY <1>1, CompileMoves
  <2>3. k = 1 \/ k = 2 \/ k = 3 \/ k = 4
    BY <2>1
  <2> QED
    BY <2>2, <2>3 DEF At, Onward
<1>2. CASE status[r] = "RUNNING"
  <2>1. k \in 5 .. 8
    BY <1>2 DEF OneStation
  <2>2. /\ Onward(runq, Testers, test, runst, r)
        /\ Replied(runst, r) => Replied(runst, r)'
    BY <1>2, TestMoves
  <2>3. k = 5 \/ k = 6 \/ k = 7 \/ k = 8
    BY <2>1
  <2> QED
    BY <2>2, <2>3 DEF At, Onward
<1> QED
  BY <1>1, <1>2 DEF Transient

\* All that says where the latest request of a run is.
WayInv == HeldInv /\ NotInCompile

LEMMA WayInit == Init => WayInv
  BY DEF Init, WayInv, HeldInv, NoBadReply, TransientIsHeld, NotInCompile

\* In turn: the requests of a run are at different stations.
LEMMA InTurnApart ==
  ASSUME TypeOK, AllKnown, OneCompiler, OneTester, InTurnInv
  PROVE  /\ Apart(compq, Compilers, comp, compst)
         /\ Apart(runq, Testers, test, runst)
         /\ NotInTest
         /\ NotOvertaken(Compilers, comp, compst)
         /\ NotOvertaken(Testers, test, runst)
<1>1. BuildsInTurn /\ TestsInTurn /\ Unseen
  BY DEF InTurnInv
<1> USE DEF InTurn, AllKnown, Known, TypeOK, Requests, RunRequests, Numbers,
        CompWork, TestWork, CompReplies, TestReplies, Waits, Works, Done,
        Replied
<1>2. Apart(compq, Compilers, comp, compst)
  BY <1>1 DEF Apart, BuildsInTurn, OneCompiler
<1>3. Apart(runq, Testers, test, runst)
  BY <1>1 DEF Apart, TestsInTurn, OneTester
<1>4. NotInTest
  BY <1>1 DEF NotInTest, AwayFrom, Unseen
<1>5. NotOvertaken(Compilers, comp, compst)
  BY <1>1 DEF NotOvertaken, BuildsInTurn
<1>6. NotOvertaken(Testers, test, runst)
  BY <1>1 DEF NotOvertaken, TestsInTurn
<1> QED
  BY <1>2, <1>3, <1>4, <1>5, <1>6

\* One at a time: there is one request about a run.
LEMMA AloneApart ==
  ASSUME TypeOK, AllKnown, AloneInv
  PROVE  /\ Apart(compq, Compilers, comp, compst)
         /\ Apart(runq, Testers, test, runst)
         /\ NotInTest
         /\ NotOvertaken(Compilers, comp, compst)
         /\ NotOvertaken(Testers, test, runst)
<1>1. BuildsAlone /\ TestsAlone /\ NotTested
  BY DEF AloneInv
<1> USE DEF Alone, AllKnown, Waits, Works, Done, Replied
<1>2. Apart(compq, Compilers, comp, compst)
  BY <1>1 DEF Apart, BuildsAlone
<1>3. Apart(runq, Testers, test, runst)
  BY <1>1 DEF Apart, TestsAlone
<1>4. NotInTest
  BY <1>1 DEF NotInTest, AwayFrom, NotTested, Nowhere
<1>5. NotOvertaken(Compilers, comp, compst)
  BY <1>1 DEF NotOvertaken, BuildsAlone
<1>6. NotOvertaken(Testers, test, runst)
  BY <1>1 DEF NotOvertaken, TestsAlone
<1> QED
  BY <1>2, <1>3, <1>4, <1>5, <1>6

\* Either of the two lemmas gives what the way of a request needs.
LEMMA WayStep ==
  ASSUME StaysLoaded, MaxFaults = 0, IInv, WayInv,
         Apart(compq, Compilers, comp, compst),
         Apart(runq, Testers, test, runst), NotInTest,
         NotOvertaken(Compilers, comp, compst),
         NotOvertaken(Testers, test, runst)
  PROVE  OneStation /\ ([Next]_vars => WayInv' /\ [StationStep]_vars)
<1>1. AllKnown /\ TypeOK
  BY RequestsKnown DEF StaysLoaded, IInv
<1>2. OneStation
  BY <1>1, HeldAtOneStation DEF WayInv
<1>3. ASSUME [Next]_vars PROVE WayInv'
  BY <1>3, HeldStep, NotInCompileStep DEF WayInv
<1>4. ASSUME [Next]_vars PROVE StationStep
  BY <1>2, <1>4, StationStepHolds DEF WayInv, HeldInv
<1> QED
  BY <1>2, <1>3, <1>4

(***************************************************************************)
(* The safety half of EventuallyJudged: a run in a transient status is at  *)
(* one of the eight stations of its way and never goes back, whatever the  *)
(* servers do for other runs, and however often these are rejudged.        *)
(***************************************************************************)
THEOREM JudgingGoesOn ==
  ASSUME StaysLoaded, OneCompiler, OneTester, MaxFaults = 0
  PROVE  Spec => []OneStation /\ [][StationStep]_vars
<1>1. IInv /\ InTurnInv /\ WayInv =>
         OneStation /\ ([Next]_vars => WayInv' /\ [StationStep]_vars)
  BY RequestsKnown, InTurnApart, WayStep DEF StaysLoaded, IInv
<1>2. IInv /\ InTurnInv /\ [Next]_vars => InTurnInv'
  BY InTurnStep
<1>3. Spec => []IInv
  BY Invariance DEF StaysLoaded
<1> QED
  BY InTurnInit, WayInit, <1>1, <1>2, <1>3, PTL DEF Spec

(***************************************************************************)
(* The same with any number of servers, in any order, if no run is         *)
(* rejudged in the middle of a judging.                                    *)
(***************************************************************************)
THEOREM JudgingGoesOnOneAtATime ==
  ASSUME StaysLoaded, MaxFaults = 0
  PROVE  Spec /\ OneAtATime => []OneStation /\ [][StationStep]_vars
<1>1. IInv /\ AloneInv /\ WayInv =>
         OneStation /\ ([Next]_vars => WayInv' /\ [StationStep]_vars)
  BY RequestsKnown, AloneApart, WayStep DEF StaysLoaded, IInv
<1>2. IInv /\ AloneInv /\ [Next]_vars /\ [QuietStep]_vars => AloneInv'
  BY AloneStep
<1>3. Spec => []IInv
  BY Invariance DEF StaysLoaded
<1> QED
  BY AloneInit, WayInit, <1>1, <1>2, <1>3, PTL DEF Spec, OneAtATime
=============================================================================

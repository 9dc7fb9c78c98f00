------------------------------- MODULE Judging -------------------------------
(***************************************************************************)
(* How a submit gets its verdict: the contest server (serve_2.c), the      *)
(* compile servers (compile.c), the testing servers (ej-super-run.c) and   *)
(* the files they exchange.                                                *)
(*                                                                         *)
(* Each request to judge a run carries a 16-bit judge_id, which the        *)
(* contest server also stores in the run database; a reply whose judge_id  *)
(* is not the stored one is dropped.  The counter judge_ids are taken from *)
(* lives in memory only.  All replies about one run have the same file     *)
(* name, the run's uuid, in the report directory and in the status spool.  *)
(*                                                                         *)
(* Requests are numbered here (n, asked, cur) to say which request a file  *)
(* or a verdict comes from: the program does not have these numbers.       *)
(* A spool is a set of packets: module Spool shows that a packet is taken  *)
(* by one reader, and reply spools keep the last reply of each run.        *)
(***************************************************************************)
EXTENDS Naturals, FiniteSets

CONSTANTS
    Runs,         \* submits
    Direct,       \* output-only submits, which are not compiled
    CompileOnly,  \* submits of problems with disable_testing
    Compilers, Testers,
    None,
    JudgeMod,     \* judge_id is an unsigned short: 65536 values
    InOrder,      \* equal priorities: a run's requests are served in order
    MaxRequests,  \* bound: judging requests
    MaxFaults,    \* bound: crashes, lost replies and bad replies
    MaxLoads      \* bound: times the contest is unloaded and loaded again

ASSUME JudgingAssumption ==
    /\ Direct \subseteq Runs /\ CompileOnly \subseteq Runs
    /\ JudgeMod \in Nat /\ JudgeMod > 1
    /\ InOrder \in BOOLEAN
    /\ MaxRequests \in Nat /\ MaxFaults \in Nat /\ MaxLoads \in Nat


VARIABLES
    status,       \* run database: the status of each run
    judge,        \* run database: the judge_id of each run
    reqId,        \* compile_request_id, in memory
    compq,        \* compile queue
    comp,         \* the packet each compile server works on, or None
    cfile,        \* compile report directory: the request that made the file
    compst,       \* compile status spool: the reply about each run, or None
    runq,         \* run queue: packets with their own copy of the executable
    test,         \* the packet each testing server works on, or None
    rfile,        \* run report directory
    runst,        \* run status spool
    shown,        \* who gave the verdict and the report that a user sees
    asked,        \* requests so far
    cur,          \* the latest request for each run, 0 for none
    loadFrom,     \* requests made before the contest was last loaded
    faults, loads

dbVars == <<status, judge>>
compVars == <<compq, comp, cfile, compst>>
runVars == <<runq, test, rfile, runst>>
ghosts == <<asked, cur>>
vars == <<dbVars, reqId, compVars, runVars, shown, ghosts, loadFrom, faults,
          loads>>

Numbers == 0 .. MaxRequests
JudgeIds == 0 .. JudgeMod - 1
Transient == {"COMPILING", "RUNNING"}
Judged == {"OK", "COMPILE_ERR", "ACCEPTED", "CHECK_FAILED"}
Statuses == Transient \cup Judged
              \cup {"none", "AVAILABLE", "PENDING", "IGNORED"}

Requests == [run : Runs, judge : JudgeIds, n : Numbers]
RunRequests == [run : Runs, judge : JudgeIds, n : Numbers, exe : Numbers]
CompOuts == {"todo", "ok", "ce", "cf"}
TestOuts == {"todo", "OK", "CHECK_FAILED", "bad"}
CompWork == [req : Requests, out : CompOuts]
TestWork == [req : RunRequests, out : TestOuts]
CompReplies == [req : Requests, out : CompOuts \ {"todo"}]
TestReplies == [req : RunRequests, out : TestOuts \ {"todo"}]

ASSUME NoneAssumption == None \notin CompWork \cup TestWork

\* by: the request that gave the verdict, 0 for none; exe: the request whose
\* build was tested; report: the request whose report or log is archived.
Shown == [by : Numbers, exe : Numbers, report : Numbers]

TypeOK ==
    /\ status \in [Runs -> Statuses]
    /\ judge \in [Runs -> JudgeIds]
    /\ reqId \in JudgeIds
    /\ compq \subseteq Requests
    /\ comp \in [Compilers -> CompWork \cup {None}]
    /\ cfile \in [Runs -> Numbers]
    /\ compst \in [Runs -> CompReplies \cup {None}]
    /\ runq \subseteq RunRequests
    /\ test \in [Testers -> TestWork \cup {None}]
    /\ rfile \in [Runs -> Numbers]
    /\ runst \in [Runs -> TestReplies \cup {None}]
    /\ shown \in [Runs -> Shown]
    /\ asked \in Numbers
    /\ cur \in [Runs -> Numbers]
    /\ loadFrom \in Numbers
    /\ faults \in 0 .. MaxFaults
    /\ loads \in 0 .. MaxLoads

Init ==
    /\ status = [r \in Runs |-> "none"]
    /\ judge = [r \in Runs |-> 0]
    /\ reqId = 0
    /\ compq = {}
    /\ comp = [c \in Compilers |-> None]
    /\ cfile = [r \in Runs |-> 0]
    /\ compst = [r \in Runs |-> None]
    /\ runq = {}
    /\ test = [t \in Testers |-> None]
    /\ rfile = [r \in Runs |-> 0]
    /\ runst = [r \in Runs |-> None]
    /\ shown = [r \in Runs |-> [by |-> 0, exe |-> 0, report |-> 0]]
    /\ asked = 0
    /\ cur = [r \in Runs |-> 0]
    /\ loadFrom = 0
    /\ faults = 0
    /\ loads = 0

-----------------------------------------------------------------------------
(* The contest server sends a run to judging                               *)

\* compile_request_id is never handed out as 0.
NextId == IF reqId = 0 THEN 1 ELSE reqId

\* Mutant: the counter is wider than the 16 bits of judge_id.
Mut_IdAfter == NextId + 1

IdAfter == (NextId + 1) % JudgeMod

\* A request is numbered and takes a judge_id.
Number ==
    /\ asked < MaxRequests
    /\ asked' = asked + 1
    /\ reqId' = IdAfter

\* serve_rejudge_run does nothing for problems with disable_testing.
MayAsk(r) == r \in CompileOnly => status[r] = "none"

Request(r) == [run |-> r, judge |-> NextId, n |-> asked + 1]

\* An output-only submit is its own executable.
RunRequest(q, e) == [run |-> q.run, judge |-> q.judge, n |-> q.n, exe |-> e]

\* The packet is put into the queue of the compile or the testing servers.
Queue(r) ==
    /\ compq' = IF r \in Direct THEN compq ELSE compq \cup {Request(r)}
    /\ runq' = IF r \in Direct
               THEN runq \cup {RunRequest(Request(r), asked + 1)}
               ELSE runq

\* A submit, or a rejudge whatever the status of the run.
Ask(r) ==
    /\ MayAsk(r)
    /\ Number
    /\ cur' = [cur EXCEPT ![r] = asked + 1]
    /\ Queue(r)
    /\ status' = [status EXCEPT ![r] =
                     IF r \in Direct THEN "RUNNING" ELSE "COMPILING"]
    /\ judge' = [judge EXCEPT ![r] = NextId]
    /\ UNCHANGED <<comp, cfile, compst, test, rfile, runst, shown, loadFrom,
                   faults, loads>>

\* A failure is reported, except when an output-only submit is rejudged.
Reports(r) == MayAsk(r) /\ (r \in Direct => status[r] = "none")

\* serve_compile_request or serve_run_request fails after it took a judge_id,
\* maybe with the compile packet written; serve_report_check_failed replaces
\* the report.
AskFails(r) ==
    /\ Reports(r)
    /\ Number
    /\ cur' = [cur EXCEPT ![r] = asked + 1]
    /\ \/ UNCHANGED compq
       \/ r \notin Direct /\ compq' = compq \cup {Request(r)}
    /\ status' = [status EXCEPT ![r] = "CHECK_FAILED"]
    /\ judge' = [judge EXCEPT ![r] = 0]
    /\ shown' = [shown EXCEPT ![r] =
                    [by |-> asked + 1, exe |-> 0, report |-> asked + 1]]
    /\ UNCHANGED <<comp, cfile, compst, runVars, loadFrom, faults, loads>>

\* They fail before that (no variant, no header file).
AskRefused(r) ==
    /\ Reports(r)
    /\ status' = [status EXCEPT ![r] = "CHECK_FAILED"]
    /\ judge' = [judge EXCEPT ![r] = 0]
    /\ shown' = [shown EXCEPT ![r] = [by |-> 0, exe |-> 0, report |-> 0]]
    /\ UNCHANGED <<reqId, compVars, runVars, ghosts, loadFrom, faults, loads>>

\* serve_rejudge_run does not look at the result of serve_run_request.
AskIgnored(r) ==
    /\ r \in Direct /\ status[r] # "none"
    /\ Number
    /\ UNCHANGED <<dbVars, compVars, runVars, shown, cur, loadFrom, faults,
                   loads>>

\* While testing is suspended a submit only gets a status.
Suspend(r) ==
    /\ status[r] = "none"
    /\ status' = [status EXCEPT ![r] = "PENDING"]
    /\ UNCHANGED <<judge, reqId, compVars, runVars, shown, ghosts, loadFrom,
                   faults, loads>>

\* A judge sets the status by hand; judge_id stays.
SetStatus(r) ==
    /\ status[r] \notin {"none", "IGNORED"}
    /\ status' = [status EXCEPT ![r] = "IGNORED"]
    /\ UNCHANGED <<judge, reqId, compVars, runVars, shown, ghosts, loadFrom,
                   faults, loads>>

-----------------------------------------------------------------------------
(* A compile server (do_loop of compile.c)                                 *)

\* scan_dir prefers the lower priority value, then the older request.
MayTake(q, Q) == InOrder => \A p \in Q : p.run = q.run => q.n <= p.n

TakeCompile(c) ==
    /\ comp[c] = None
    /\ \E q \in compq :
          /\ MayTake(q, compq)
          /\ compq' = compq \ {q}
          /\ comp' = [comp EXCEPT ![c] = [req |-> q, out |-> "todo"]]
    /\ UNCHANGED <<dbVars, reqId, cfile, compst, runVars, shown, ghosts,
                   loadFrom, faults, loads>>

\* The executable or the log is copied to the report directory.
Build(c) ==
    /\ comp[c] # None /\ comp[c].out = "todo"
    /\ \E o \in CompOuts \ {"todo"} :
          comp' = [comp EXCEPT ![c] = [req |-> comp[c].req, out |-> o]]
    /\ cfile' = [cfile EXCEPT ![comp[c].req.run] = comp[c].req.n]
    /\ UNCHANGED <<dbVars, reqId, compq, compst, runVars, shown, ghosts,
                   loadFrom, faults, loads>>

\* The reply takes the place of an unread reply about the same run.
ReplyCompile(c) ==
    /\ comp[c] # None /\ comp[c].out # "todo"
    /\ compst' = [compst EXCEPT ![comp[c].req.run] = comp[c]]
    /\ comp' = [comp EXCEPT ![c] = None]
    /\ UNCHANGED <<dbVars, reqId, compq, cfile, runVars, shown, ghosts,
                   loadFrom, faults, loads>>

\* The server dies, or cannot write the reply: nothing remembers the packet.
LoseCompile(c) ==
    /\ comp[c] # None /\ faults < MaxFaults
    /\ faults' = faults + 1
    /\ comp' = [comp EXCEPT ![c] = None]
    /\ UNCHANGED <<dbVars, reqId, compq, cfile, compst, runVars, shown, ghosts,
                   loadFrom, loads>>

-----------------------------------------------------------------------------
(* The contest server reads a compile reply (serve_read_compile_packet)    *)

\* Mutant: the judge_id of the reply is not compared.
Mut_AwaitsCompile(r, id) == status[r] = "COMPILING"

AwaitsCompile(r, id) == status[r] = "COMPILING" /\ judge[r] = id

\* The reply file is gone before it is looked at.
RemoveCompileReply(r) ==
    /\ compst[r] # None
    /\ compst' = [compst EXCEPT ![r] = None]

\* run_change_status_4 forgets the judge_id.
SetFinal(r, s) ==
    /\ status' = [status EXCEPT ![r] = s]
    /\ judge' = [judge EXCEPT ![r] = 0]

Show(r, by, exe, report) ==
    shown' = [shown EXCEPT ![r] = [by |-> by, exe |-> exe, report |-> report]]

DropCompileReply(r) ==
    /\ RemoveCompileReply(r)
    /\ ~AwaitsCompile(r, compst[r].req.judge)
    /\ UNCHANGED <<dbVars, reqId, compq, comp, cfile, runVars, shown, ghosts,
                   loadFrom, faults, loads>>

\* A compile error or a failure of the compile server; the log is moved to
\* the archive.  Without the log the run fails with an error text.
CompileFailed(r) ==
    LET q == compst[r].req
    IN  /\ RemoveCompileReply(r)
        /\ AwaitsCompile(r, q.judge)
        /\ compst[r].out \in {"ce", "cf"}
        /\ SetFinal(r, IF compst[r].out = "ce" /\ cfile[r] # 0
                       THEN "COMPILE_ERR" ELSE "CHECK_FAILED")
        /\ Show(r, q.n, 0, IF cfile[r] # 0 THEN cfile[r] ELSE q.n)
        /\ cfile' = [cfile EXCEPT ![r] = 0]
        /\ UNCHANGED <<reqId, compq, comp, runVars, ghosts, loadFrom, faults,
                       loads>>

Accept(r) ==
    LET q == compst[r].req
    IN  /\ RemoveCompileReply(r)
        /\ AwaitsCompile(r, q.judge)
        /\ compst[r].out = "ok" /\ r \in CompileOnly
        /\ SetFinal(r, "ACCEPTED")
        /\ Show(r, q.n, 0, shown[r].report)
        /\ UNCHANGED <<reqId, compq, comp, cfile, runVars, ghosts, loadFrom,
                       faults, loads>>

\* Mutant: the judge_id is reset with the status.
Mut_KeptJudge(q) == 0

KeptJudge(q) == q.judge

\* serve_run_request: the executable is moved to the queue, the run waits.
Forward(r) ==
    LET q == compst[r].req
    IN  /\ RemoveCompileReply(r)
        /\ AwaitsCompile(r, q.judge)
        /\ compst[r].out = "ok" /\ r \notin CompileOnly /\ cfile[r] # 0
        /\ runq' = runq \cup {RunRequest(q, cfile[r])}
        /\ cfile' = [cfile EXCEPT ![r] = 0]
        /\ status' = [status EXCEPT ![r] = "RUNNING"]
        /\ judge' = [judge EXCEPT ![r] = KeptJudge(q)]
        /\ UNCHANGED <<reqId, compq, comp, test, rfile, runst, shown, ghosts,
                       loadFrom, faults, loads>>

\* serve_run_request fails, with or without the executable moved.
ForwardFails(r) ==
    LET q == compst[r].req
    IN  /\ RemoveCompileReply(r)
        /\ AwaitsCompile(r, q.judge)
        /\ compst[r].out = "ok" /\ r \notin CompileOnly
        /\ cfile' \in {cfile, [cfile EXCEPT ![r] = 0]}
        /\ SetFinal(r, "CHECK_FAILED")
        /\ Show(r, q.n, 0, q.n)
        /\ UNCHANGED <<reqId, compq, comp, runVars, ghosts, loadFrom, faults,
                       loads>>

ReadCompileReply(r) ==
    \/ DropCompileReply(r) \/ CompileFailed(r) \/ Accept(r) \/ Forward(r)
    \/ ForwardFails(r)

-----------------------------------------------------------------------------
(* A testing server (handle_packet of ej-super-run.c)                      *)

TakeRun(t) ==
    /\ test[t] = None
    /\ \E q \in runq :
          /\ MayTake(q, runq)
          /\ runq' = runq \ {q}
          /\ test' = [test EXCEPT ![t] = [req |-> q, out |-> "todo"]]
    /\ UNCHANGED <<dbVars, reqId, compVars, rfile, runst, shown, ghosts,
                   loadFrom, faults, loads>>

\* The tests are run and the report is copied to the report directory.
Test(t) ==
    /\ test[t] # None /\ test[t].out = "todo"
    /\ \E o \in {"OK", "CHECK_FAILED"} :
          test' = [test EXCEPT ![t] = [req |-> test[t].req, out |-> o]]
    /\ rfile' = [rfile EXCEPT ![test[t].req.run] = test[t].req.n]
    /\ UNCHANGED <<dbVars, reqId, compVars, runq, runst, shown, ghosts,
                   loadFrom, faults, loads>>

\* A checker gives a status or a score that the contest server rejects.
TestBadly(t) ==
    /\ test[t] # None /\ test[t].out = "todo" /\ faults < MaxFaults
    /\ faults' = faults + 1
    /\ test' = [test EXCEPT ![t] = [req |-> test[t].req, out |-> "bad"]]
    /\ rfile' = [rfile EXCEPT ![test[t].req.run] = test[t].req.n]
    /\ UNCHANGED <<dbVars, reqId, compVars, runq, runst, shown, ghosts,
                   loadFrom, loads>>

ReplyRun(t) ==
    /\ test[t] # None /\ test[t].out # "todo"
    /\ runst' = [runst EXCEPT ![test[t].req.run] = test[t]]
    /\ test' = [test EXCEPT ![t] = None]
    /\ UNCHANGED <<dbVars, reqId, compVars, runq, rfile, shown, ghosts,
                   loadFrom, faults, loads>>

LoseRun(t) ==
    /\ test[t] # None /\ faults < MaxFaults
    /\ faults' = faults + 1
    /\ test' = [test EXCEPT ![t] = None]
    /\ UNCHANGED <<dbVars, reqId, compVars, runq, rfile, runst, shown, ghosts,
                   loadFrom, loads>>

-----------------------------------------------------------------------------
(* The contest server reads a testing reply (serve_read_run_packet)        *)

\* Mutant: the judge_id of the reply is not compared.
Mut_AwaitsRun(r, id) == status[r] = "RUNNING"

\* Mutant: only the judge_id is compared, not the status.
Mut_AwaitsRunId(r, id) == judge[r] = id

AwaitsRun(r, id) == status[r] = "RUNNING" /\ judge[r] = id

RemoveRunReply(r) ==
    /\ runst[r] # None
    /\ runst' = [runst EXCEPT ![r] = None]

\* A reply with the wrong judge_id, or one with a status or a score that is
\* not allowed, changes nothing.
DropRunReply(r) ==
    /\ RemoveRunReply(r)
    /\ ~AwaitsRun(r, runst[r].req.judge) \/ runst[r].out = "bad"
    /\ UNCHANGED <<dbVars, reqId, compVars, runq, test, rfile, shown, ghosts,
                   loadFrom, faults, loads>>

\* The verdict is stored, then the report is moved to the archive; when
\* there is no report the old one stays.
Judge(r) ==
    LET q == runst[r].req
    IN  /\ RemoveRunReply(r)
        /\ AwaitsRun(r, q.judge)
        /\ runst[r].out # "bad"
        /\ SetFinal(r, runst[r].out)
        /\ Show(r, q.n, q.exe, IF rfile[r] # 0 THEN rfile[r]
                                               ELSE shown[r].report)
        /\ rfile' = [rfile EXCEPT ![r] = 0]
        /\ UNCHANGED <<reqId, compVars, runq, test, ghosts, loadFrom, faults,
                       loads>>

ReadRunReply(r) == DropRunReply(r) \/ Judge(r)

-----------------------------------------------------------------------------
(* The contest is unloaded when nobody uses it, or the contest server dies *)
(* in the middle of a handler; serve_state comes back with                 *)
(* compile_request_id = 0.  The run database and the spools stay.          *)

Restart ==
    /\ loads < MaxLoads
    /\ loads' = loads + 1
    /\ loadFrom' = asked'

Reload ==
    /\ UNCHANGED <<dbVars, compVars, runVars, shown, ghosts, faults>>
    /\ reqId' = 0
    /\ Restart

\* Death in serve_compile_request or serve_run_request: the packet may be
\* queued already, the run database does not say so.
DieAsking(r) ==
    /\ MayAsk(r)
    /\ asked < MaxRequests
    /\ asked' = asked + 1
    /\ Queue(r) \/ UNCHANGED <<compq, runq>>
    /\ status' = [status EXCEPT ![r] =
                     IF status[r] = "none" THEN "AVAILABLE" ELSE status[r]]
    /\ reqId' = 0
    /\ UNCHANGED <<judge, comp, cfile, compst, test, rfile, runst, shown, cur,
                   faults>>
    /\ Restart

\* Death after the compile reply was removed: nothing is done, or the run
\* packet is queued, or the status is set and the log still unread.
DieReadingCompile(r) ==
    LET q == compst[r].req
    IN  /\ RemoveCompileReply(r)
        /\ AwaitsCompile(r, q.judge)
        /\ \/ UNCHANGED <<dbVars, cfile, runq, shown>>
           \/ /\ compst[r].out = "ok" /\ r \notin CompileOnly /\ cfile[r] # 0
              /\ runq' = runq \cup {RunRequest(q, cfile[r])}
              /\ cfile' = [cfile EXCEPT ![r] = 0]
              /\ UNCHANGED <<dbVars, shown>>
           \/ /\ compst[r].out \in {"ce", "cf"}
              /\ SetFinal(r, IF compst[r].out = "ce" /\ cfile[r] # 0
                             THEN "COMPILE_ERR" ELSE "CHECK_FAILED")
              /\ Show(r, q.n, 0, shown[r].report)
              /\ UNCHANGED <<cfile, runq>>
        /\ reqId' = 0
        /\ UNCHANGED <<compq, comp, test, rfile, runst, ghosts, faults>>
        /\ Restart

\* Death after the testing reply was removed, or after the status was set.
DieReadingRun(r) ==
    LET q == runst[r].req
    IN  /\ RemoveRunReply(r)
        /\ AwaitsRun(r, q.judge) /\ runst[r].out # "bad"
        /\ \/ UNCHANGED <<dbVars, shown>>
           \/ /\ SetFinal(r, runst[r].out)
              /\ Show(r, q.n, q.exe, shown[r].report)
        /\ reqId' = 0
        /\ UNCHANGED <<compVars, runq, test, rfile, ghosts, faults>>
        /\ Restart

-----------------------------------------------------------------------------
Server(r) ==
    \/ Ask(r) \/ AskFails(r) \/ AskRefused(r) \/ AskIgnored(r)
    \/ Suspend(r) \/ SetStatus(r)
    \/ ReadCompileReply(r) \/ ReadRunReply(r)

Die(r) == DieAsking(r) \/ DieReadingCompile(r) \/ DieReadingRun(r)

CompileServer(c) ==
    TakeCompile(c) \/ Build(c) \/ ReplyCompile(c) \/ LoseCompile(c)

TestingServer(t) ==
    TakeRun(t) \/ Test(t) \/ TestBadly(t) \/ ReplyRun(t) \/ LoseRun(t)

Next ==
    \/ \E r \in Runs : Server(r) \/ Die(r)
    \/ \E c \in Compilers : CompileServer(c)
    \/ \E t \in Testers : TestingServer(t)
    \/ Reload

Spec == Init /\ [][Next]_vars

(***************************************************************************)
(* The compile and testing servers loop over their queues; the contest     *)
(* server reads every file of the status spools of a loaded contest        *)
(* (ns_loop_callback), each file in its turn.                              *)
(***************************************************************************)
Fairness ==
    /\ \A r \in Runs :
          WF_vars(ReadCompileReply(r)) /\ WF_vars(ReadRunReply(r))
    /\ \A c \in Compilers :
          WF_vars(TakeCompile(c) \/ Build(c) \/ ReplyCompile(c))
    /\ \A t \in Testers : WF_vars(TakeRun(t) \/ Test(t) \/ ReplyRun(t))

FairSpec == Spec /\ Fairness

-----------------------------------------------------------------------------
(***************************************************************************)
(* Replies of earlier judgings are ignored, in any order, with any number  *)
(* of servers and whatever is lost, as long as judge_ids do not repeat:    *)
(* a verdict comes from the latest request for the run, or from a request  *)
(* made before the contest was last loaded.                                *)
(***************************************************************************)
VerdictIsCurrent ==
    [][\A r \in Runs : shown'[r].by # shown[r].by =>
          shown'[r].by = cur'[r] \/ shown'[r].by <= loadFrom]_vars

(***************************************************************************)
(* The documented promise: the results of the older judging are ignored.   *)
(* Where a new verdict comes from a request, it is the latest one.         *)
(***************************************************************************)
OlderResultsIgnored ==
    [][\A r \in Runs :
          shown'[r].by # shown[r].by => shown'[r].by \in {0, cur'[r]}]_vars

(***************************************************************************)
(* The tests were run on the executable built by the judging that gave     *)
(* the verdict, although all builds of a run have one file name.           *)
(***************************************************************************)
VerdictOfOwnBuild ==
    \A r \in Runs : shown[r].exe # 0 => shown[r].exe = shown[r].by

(***************************************************************************)
(* The report a user sees beside a verdict was written by the same judging,*)
(* although all reports of a run have one file name.                       *)
(***************************************************************************)
ReportOfVerdict ==
    \A r \in Runs \ CompileOnly :
        shown[r].by # 0 => shown[r].report = shown[r].by

(***************************************************************************)
(* A run in a transient status is being worked on: some file or some       *)
(* server holds its current request.  Nothing in the contest server looks  *)
(* for a run for which this fails; it stays so until a judge notices.      *)
(***************************************************************************)
HeldBy(f, D, r) == \E d \in D : f[d] # None /\ f[d].req.run = r
                                            /\ f[d].req.n = cur[r]

TransientIsHeld ==
    \A r \in Runs :
        /\ status[r] = "COMPILING" =>
              \/ \E q \in compq : q.run = r /\ q.n = cur[r]
              \/ HeldBy(comp, Compilers, r) \/ HeldBy(compst, Runs, r)
        /\ status[r] = "RUNNING" =>
              \/ \E q \in runq : q.run = r /\ q.n = cur[r]
              \/ HeldBy(test, Testers, r) \/ HeldBy(runst, Runs, r)

(***************************************************************************)
(* Every judging ends.                                                     *)
(***************************************************************************)
EventuallyJudged ==
    \A r \in Runs : status[r] \in Transient ~> status[r] \notin Transient

(***************************************************************************)
(* Judging is what JudgeAbs promises, while the contest stays loaded.      *)
(***************************************************************************)
Abs == INSTANCE JudgeAbs WITH
    asked <- cur,
    open <- {r \in Runs : status[r] \in Transient},
    answered <- [r \in Runs |-> shown[r].by]

IsJudgeAbs == Abs!Spec
=============================================================================

----------------------------- MODULE ServeLoop -----------------------------
(***************************************************************************)
(* The main loop of the contest server (nsf_main_loop of                   *)
(* server_framework.c, ns_loop_callback of new_server_html.c).  One        *)
(* process serves all contests.  Each pass of the loop runs the first      *)
(* background job, reads replies of the compile and testing servers for    *)
(* the contests that are loaded, and unloads contests nobody used for 300  *)
(* seconds; a pass does at most MAX_WORK_BATCH units of work.  Between the *)
(* passes come requests of clients.  A job keeps a pointer to the state of *)
(* its contest (struct rejudge_all_job), which unloading frees.            *)
(***************************************************************************)
EXTENDS Naturals, Sequences, FiniteSets

CONSTANTS
    Contests,     \* contest_ids: natural numbers, extras[] is sorted by them
    JobContests,  \* contests with runs and background jobs
    JobKinds,     \* "all" and "bare", see AddJob
    Batch,        \* MAX_WORK_BATCH
    Expire,       \* CONTEST_EXPIRE_TIME, in units of Tick
    MaxRuns,      \* bound: runs of a contest
    MaxReplies,   \* bound: replies written
    MaxJobs,      \* bound: jobs added
    MaxLoads      \* bound: loads of a contest

ASSUME LoopAssumption ==
    /\ Contests \subseteq Nat /\ IsFiniteSet(Contests)
    /\ JobContests \subseteq Contests
    /\ JobKinds \subseteq {"all", "bare"}
    /\ Batch \in Nat \ {0} /\ Expire \in Nat
    /\ MaxRuns \in Nat /\ MaxReplies \in Nat
    /\ MaxJobs \in Nat /\ MaxLoads \in Nat

VARIABLES
    up,           \* the process lives
    loaded,       \* contests with a serve_state
    inc,          \* which serve_state it is: loads of the contest so far
    age,          \* current time less last_access_time, up to Expire + 1
    total,        \* run_get_total of each contest
    replies,      \* reply files waiting in the spools of each contest
    jobs,         \* the list from job_first to job_last
    written,      \* replies written so far
    serial        \* job_serial

vars == <<up, loaded, inc, age, total, replies, jobs, written, serial>>

Job == [id : 1 .. MaxJobs, contest : JobContests, inc : 1 .. MaxLoads,
        kind : JobKinds, cur : 0 .. MaxRuns]

TypeOK ==
    /\ up \in BOOLEAN
    /\ loaded \subseteq Contests
    /\ inc \in [Contests -> 0 .. MaxLoads]
    /\ age \in [Contests -> 0 .. Expire + 1]
    /\ total \in [Contests -> 0 .. MaxRuns]
    /\ replies \in [Contests -> 0 .. MaxReplies]
    /\ jobs \in Seq(Job)
    /\ written \in 0 .. MaxReplies
    /\ serial \in 0 .. MaxJobs

Init ==
    /\ up = TRUE
    /\ loaded = {}
    /\ inc = [c \in Contests |-> 0]
    /\ age = [c \in Contests |-> 0]
    /\ total = [c \in Contests |-> 0]
    /\ replies = [c \in Contests |-> 0]
    /\ jobs = << >>
    /\ written = 0
    /\ serial = 0

-----------------------------------------------------------------------------
(* Requests                                                                *)

\* ns_get_contest_extra and serve_state_load_contest, at the start of every
\* request for a contest.
Loads(c) == c \in loaded \/ inc[c] < MaxLoads
IncAfter(c) == IF c \in loaded THEN inc[c] ELSE inc[c] + 1

Access(c, a) ==
    /\ up /\ Loads(c)
    /\ loaded' = loaded \cup {c}
    /\ inc' = [inc EXCEPT ![c] = IncAfter(c)]
    /\ age' = [age EXCEPT ![c] = a]

\* A page, or a submit, which appends a run.
View(c) ==
    /\ Access(c, 0)
    /\ UNCHANGED <<up, total, replies, jobs, written, serial>>

Submit(c) ==
    /\ Access(c, 0)
    /\ total[c] < MaxRuns
    /\ total' = [total EXCEPT ![c] = @ + 1]
    /\ UNCHANGED <<up, replies, jobs, written, serial>>

\* RELOAD_SERVER, RESET, the upsolving modes, the unload command: the last
\* access is dated back, for the end of the pass to unload the contest.
Reload(c) ==
    /\ Access(c, Expire + 1)
    /\ UNCHANGED <<up, total, replies, jobs, written, serial>>

\* ns_add_job.  Rejudging everything and judging pending runs make a job
\* "all"; rejudging by mask and by problem make one that has neither vt nor
\* contest_id, "bare".
AddJob(c, k) ==
    /\ Access(c, 0)
    /\ serial < MaxJobs
    /\ serial' = serial + 1
    /\ jobs' = Append(jobs, [id |-> serial + 1, contest |-> c,
                             inc |-> IncAfter(c), kind |-> k, cur |-> 0])
    /\ UNCHANGED <<up, total, replies, written>>

\* The job's pointer is to the serve_state that is loaded.
Sound(j) == j.contest \in loaded /\ inc[j.contest] = j.inc

\* The judge's main page shows the progress of every job of the server: it
\* reads through the pointers of all of them.
ShowJobs(c) ==
    /\ Access(c, 0)
    /\ up' \in IF \E i \in DOMAIN jobs : jobs[i].kind = "bare" THEN {FALSE}
               ELSE IF \A i \in DOMAIN jobs : Sound(jobs[i]) THEN {TRUE}
               ELSE BOOLEAN
    /\ UNCHANGED <<total, replies, jobs, written, serial>>

-----------------------------------------------------------------------------
(* The servers behind the spools, and the clock, while the process lives   *)

Arrive(c) ==
    /\ up /\ written < MaxReplies
    /\ written' = written + 1
    /\ replies' = [replies EXCEPT ![c] = @ + 1]
    /\ UNCHANGED <<up, loaded, inc, age, total, jobs, serial>>

Tick ==
    /\ up
    /\ age' = [c \in Contests |->
                  IF c \in loaded /\ age[c] <= Expire THEN age[c] + 1 ELSE age[c]]
    /\ age' # age
    /\ UNCHANGED <<up, loaded, inc, total, replies, jobs, written, serial>>

-----------------------------------------------------------------------------
(* One pass of ns_loop_callback                                            *)

Least(m, n) == IF m < n THEN m ELSE n

\* The replies that are read before those of c: contests come in the order
\* of their numbers.
Ahead(c) ==
    {f \in loaded \X (1 .. MaxReplies) : f[1] < c /\ f[2] <= replies[f[1]]}

\* Mutant: the inner loop does not look at files.u.
Mut_Read(c, n) ==
    LET before == Cardinality(Ahead(c))
    IN  IF c \notin loaded \/ before >= n THEN 0 ELSE n - before

\* Replies of c that are read when n units of the batch are left.
Read(c, n) ==
    LET before == Cardinality(Ahead(c))
    IN  IF c \notin loaded \/ before >= n THEN 0 ELSE Least(replies[c], n - before)

\* Mutant: only a contest one of whose replies was read counts as accessed.
Mut_Accessed(n) == {c \in loaded : Read(c, n) > 0}

\* last_access_time is set when there are replies, read or not.
Accessed(n) == {c \in loaded : replies[c] > 0}

\* The contests' part, with n units of the batch left and the contests busy
\* accessed for a job; then ns_unload_expired_contests.
Serve(n, busy) ==
    LET fresh == busy \cup Accessed(n)
        kept == {c \in loaded : c \in fresh \/ age[c] <= Expire}
    IN  /\ replies' = [c \in Contests |-> replies[c] - Read(c, n)]
        /\ loaded' = kept
        /\ age' = [c \in Contests |-> IF c \in kept \ fresh THEN age[c] ELSE 0]
        /\ UNCHANGED <<inc, total, written, serial>>

PassWithoutJob ==
    /\ up /\ jobs = << >>
    /\ Serve(Batch, {})
    /\ UNCHANGED <<up, jobs>>

First == Head(jobs)

\* Mutant: the contest of the job is not accessed.
Mut_Busy == {}

Busy == {First.contest}

\* Runs that the job looks at in this pass.
Work == Least(Batch, total[First.contest] - First.cur)

\* Mutant: the result that rejudge_problem_run_func has.
Mut_Ended == Work >= Batch

Ended == First.cur + Work >= total[First.contest]

JobAfter == [First EXCEPT !.cur = @ + Work]

PassWithJob ==
    /\ up /\ jobs # << >>
    /\ First.kind = "all" /\ Sound(First)
    /\ Serve(Batch - Work, Busy)
    /\ jobs' = (IF Ended THEN << >> ELSE <<JobAfter>>) \o Tail(jobs)
    /\ UNCHANGED up

\* The contest was loaded again, the job works on freed memory: it dies of
\* it, or does and returns anything.
PassWithStaleJob ==
    /\ up /\ jobs # << >>
    /\ First.kind = "all" /\ First.contest \in loaded /\ ~Sound(First)
    /\ \/ up' = FALSE
          /\ UNCHANGED <<loaded, inc, age, total, replies, jobs, written, serial>>
       \/ \E n \in 0 .. Batch, rest \in {jobs, Tail(jobs)} :
             /\ Serve(n, Busy)
             /\ jobs' = rest
             /\ UNCHANGED up

\* ns_try_contest_extra returns 0, or there is no vt.
PassCrashes ==
    /\ up /\ jobs # << >>
    /\ First.kind = "bare" \/ First.contest \notin loaded
    /\ up' = FALSE
    /\ UNCHANGED <<loaded, inc, age, total, replies, jobs, written, serial>>

Pass == PassWithoutJob \/ PassWithJob \/ PassWithStaleJob \/ PassCrashes

-----------------------------------------------------------------------------
Next ==
    \/ \E c \in Contests : View(c) \/ Reload(c) \/ ShowJobs(c) \/ Arrive(c)
    \/ \E c \in JobContests : Submit(c)
    \/ \E c \in JobContests, k \in JobKinds : AddJob(c, k)
    \/ Tick
    \/ Pass

Spec == Init /\ [][Next]_vars

\* nsf_main_loop is endless, and select waits for some seconds at most.
FairSpec == Spec /\ WF_vars(Pass)

-----------------------------------------------------------------------------
(***************************************************************************)
(* A job that has begun keeps its pointer good: neither expiry nor a       *)
(* forced reload frees the contest a job is at work on.                    *)
(***************************************************************************)
BegunJobSound ==
    up /\ jobs # << >> /\ First.cur > 0 => Sound(First)

\* The process died, or a job that waited lost its contest.
Damaged == ~up \/ \E i \in DOMAIN jobs : ~Sound(jobs[i])

(***************************************************************************)
(* Every job ends, though runs are submitted while it works and every pass *)
(* gives it one batch at most, unless one loses its contest.               *)
(***************************************************************************)
Waiting(i) == \E k \in DOMAIN jobs : jobs[k].id = i

SoundJobEnds ==
    \A i \in 1 .. MaxJobs : Waiting(i) ~> (~Waiting(i) \/ Damaged)

(***************************************************************************)
(* Replies of a loaded contest are read at last: jobs and contests of      *)
(* lower numbers go first, but a contest that waits for its turn is not    *)
(* unloaded.                                                               *)
(***************************************************************************)
ReplyRead ==
    \A c \in Contests :
        (c \in loaded /\ replies[c] > 0) ~> (replies[c] = 0 \/ Damaged)

(***************************************************************************)
(* ChangeLog:49-57: rejudging runs as a background job, so the job of any  *)
(* contest runs to its end.                                                *)
(***************************************************************************)
EveryJobEnds == \A i \in 1 .. MaxJobs : Waiting(i) ~> ~Waiting(i)
=============================================================================

-------------------------- MODULE ServeLoopProofs --------------------------
(***************************************************************************)
(* A background job at work keeps its contest, for every number of         *)
(* contests and jobs and every batch.  The proof needs that only the first *)
(* job of the list has begun: the job behind it becomes the first one, and *)
(* nothing has held its contest so far.                                    *)
(***************************************************************************)
EXTENDS ServeLoop, FiniteSetTheorems, SequenceTheorems, WellFoundedInduction,
        TLAPS

\* What the proofs need of TypeOK; the batch's arithmetic is left out.
JobRecord == [id : Nat, contest : JobContests, inc : Nat,
              kind : JobKinds, cur : Int]

Typed ==
    /\ inc \in [Contests -> Nat]
    /\ total \in [Contests -> Nat]
    /\ jobs \in Seq(JobRecord)
    /\ serial \in Nat

OnlyFirstBegun == \A i \in DOMAIN jobs : i # 1 => jobs[i].cur = 0

IInv ==
    /\ Typed
    /\ OnlyFirstBegun
    /\ jobs # << >> /\ First.cur > 0 => Sound(First)

-----------------------------------------------------------------------------
(***************************************************************************)
(* What a pass with work for the first job leaves of the list.             *)
(***************************************************************************)
LEMMA JobAfterTyped ==
    ASSUME Typed, jobs # << >>
    PROVE  /\ Work \in Int
           /\ JobAfter \in JobRecord
           /\ JobAfter.contest = First.contest
           /\ JobAfter.inc = First.inc
<1>1. First \in JobRecord
  BY HeadTailProperties DEF Typed, First
<1>2. First.contest \in Contests /\ First.cur \in Int
  BY <1>1, LoopAssumption DEF JobRecord
<1>3. Work \in Int
  BY <1>2, LoopAssumption DEF Typed, Work, Least
<1> QED
  BY <1>1, <1>2, <1>3 DEF JobAfter, JobRecord

(***************************************************************************)
(* Requests load contests and never unload them, and a contest that is     *)
(* loaded keeps its serve_state.                                           *)
(***************************************************************************)
LEMMA AccessKeeps ==
    ASSUME Typed, NEW c \in Contests, NEW a, Access(c, a)
    PROVE  /\ inc' \in [Contests -> Nat]
           /\ \A d \in loaded : d \in loaded' /\ (d \in Contests => inc'[d] = inc[d])
BY DEF Typed, Access, IncAfter

\* The end of a pass: the contests in busy stay if they are loaded.
LEMMA ServeKeeps ==
    ASSUME NEW n, NEW busy, Serve(n, busy)
    PROVE  /\ inc' = inc /\ total' = total /\ serial' = serial
           /\ \A d \in busy \cap loaded : d \in loaded'
BY DEF Serve

-----------------------------------------------------------------------------
(***************************************************************************)
(* The invariant holds at first and is kept by every step.                 *)
(***************************************************************************)
LEMMA InitIInv == Init => IInv
BY LoopAssumption, EmptySeq DEF Init, IInv, Typed, OnlyFirstBegun

LEMMA NextIInv == IInv /\ [Next]_vars => IInv'
<1> USE LoopAssumption
<1> SUFFICES ASSUME IInv, [Next]_vars
             PROVE  IInv'
  OBVIOUS
<1>0. /\ Typed /\ OnlyFirstBegun
      /\ jobs # << >> => First \in JobRecord
      /\ jobs # << >> => First.contest \in Contests
  <2>1. Typed /\ OnlyFirstBegun
    BY DEF IInv
  <2>2. jobs # << >> => First \in JobRecord
    BY <2>1, HeadTailProperties DEF Typed, First
  <2> QED
    BY <2>1, <2>2 DEF JobRecord
<1>1. ASSUME NEW c \in Contests, NEW a, Access(c, a), UNCHANGED <<jobs, serial>>,
             total' \in [Contests -> Nat]
      PROVE  IInv'
  BY <1>0, <1>1, AccessKeeps DEF IInv, Typed, OnlyFirstBegun, First, Sound
<1>2. ASSUME NEW c \in Contests, View(c) \/ Reload(c) \/ ShowJobs(c)
      PROVE  IInv'
  BY <1>0, <1>1, <1>2 DEF View, Reload, ShowJobs, Typed
<1>3. ASSUME NEW c \in JobContests, Submit(c)
      PROVE  IInv'
  BY <1>0, <1>1, <1>3 DEF Submit, Typed
<1>4. ASSUME NEW c \in JobContests, NEW k \in JobKinds, AddJob(c, k)
      PROVE  IInv'
  <2> DEFINE new == [id |-> serial + 1, contest |-> c,
                     inc |-> IncAfter(c), kind |-> k, cur |-> 0]
  <2>1. Access(c, 0) /\ jobs' = Append(jobs, new) /\ total' = total
        /\ serial' = serial + 1
    BY <1>4 DEF AddJob
  <2>2. new \in JobRecord
    BY <1>0 DEF IncAfter, Typed, JobRecord
  <2>3. Typed'
    BY <1>0, <2>1, <2>2, AccessKeeps DEF Typed
  <2>4. /\ OnlyFirstBegun'
        /\ jobs # << >> => First' = First
        /\ jobs = << >> => First'.cur = 0
    BY <1>0, <2>1, <2>2 DEF OnlyFirstBegun, First, Typed
  <2>5. ASSUME jobs # << >>, First.cur > 0
        PROVE  Sound(First)'
    BY <1>0, <2>1, <2>4, <2>5, AccessKeeps DEF IInv, Sound
  <2> QED
    BY <2>3, <2>4, <2>5 DEF IInv
<1>5. ASSUME NEW c \in Contests, Arrive(c)
      PROVE  IInv'
  BY <1>5 DEF Arrive, IInv, Typed, OnlyFirstBegun, First, Sound
<1>6. CASE Tick \/ PassCrashes
  BY <1>6 DEF Tick, PassCrashes, IInv, Typed, OnlyFirstBegun, First, Sound
<1>7. CASE PassWithoutJob
  BY <1>7, ServeKeeps DEF PassWithoutJob, IInv, Typed, OnlyFirstBegun
<1>8. CASE PassWithJob
  <2>1. /\ Serve(Batch - Work, Busy) /\ Sound(First) /\ jobs # << >>
        /\ jobs' = (IF Ended THEN << >> ELSE <<JobAfter>>) \o Tail(jobs)
    BY <1>8 DEF PassWithJob
  <2>2. JobAfter \in JobRecord /\ JobAfter.contest = First.contest
        /\ JobAfter.inc = First.inc
    BY <1>0, <2>1, JobAfterTyped
  <2>3. CASE Ended
    <3>1. jobs' = Tail(jobs)
      BY <1>0, <2>1, <2>3 DEF Typed
    <3>2. /\ jobs' \in Seq(JobRecord)
          /\ OnlyFirstBegun'
          /\ jobs' # << >> => First'.cur = 0
      BY <1>0, <2>1, <3>1 DEF Typed, OnlyFirstBegun, First
    <3>3. Typed'
      BY <1>0, <2>1, <3>2, ServeKeeps DEF Typed
    <3> QED
      BY <3>2, <3>3 DEF IInv
  <2>4. CASE ~Ended
    <3>1. jobs' = <<JobAfter>> \o Tail(jobs)
      BY <2>1, <2>4
    <3>2. /\ jobs' \in Seq(JobRecord) /\ First' = JobAfter
          /\ \A i \in DOMAIN jobs' : i # 1 => jobs'[i] = jobs[i] /\ i \in DOMAIN jobs
      BY <1>0, <2>1, <2>2, <3>1 DEF Typed, First
    <3>3. Sound(First)'
      BY <1>0, <2>1, <2>2, <3>2, ServeKeeps DEF Sound, Busy
    <3> QED
      BY <1>0, <2>1, <3>2, <3>3, ServeKeeps DEF IInv, Typed, OnlyFirstBegun
  <2> QED
    BY <2>3, <2>4
<1>9. CASE PassWithStaleJob
  <2>1. jobs # << >> /\ First.cur <= 0
    BY <1>0, <1>9 DEF PassWithStaleJob, IInv, JobRecord
  <2>2. /\ jobs' \in {jobs, Tail(jobs)}
        /\ inc' = inc /\ total' = total /\ serial' = serial
    BY <1>9, ServeKeeps DEF PassWithStaleJob
  <2>3. CASE jobs' = jobs
    BY <1>0, <2>1, <2>2, <2>3 DEF IInv, Typed, OnlyFirstBegun, First, JobRecord
  <2>4. CASE jobs' = Tail(jobs)
    BY <1>0, <2>1, <2>2, <2>4 DEF IInv, Typed, OnlyFirstBegun, First
  <2> QED
    BY <2>2, <2>3, <2>4
<1>10. CASE UNCHANGED vars
  BY <1>10 DEF vars, IInv, Typed, OnlyFirstBegun, First, Sound
<1> QED
  BY <1>2, <1>3, <1>4, <1>5, <1>6, <1>7, <1>8, <1>9, <1>10 DEF Next, Pass

(***************************************************************************)
(* ns_loop_callback never frees the contest of a job that has begun,       *)
(* whatever expires, is reloaded or is added meanwhile.                    *)
(***************************************************************************)
THEOREM BegunJobKeepsContest == Spec => []BegunJobSound
<1>1. IInv => BegunJobSound
  BY DEF IInv, BegunJobSound
<1> QED
  BY InitIInv, NextIInv, <1>1, PTL DEF Spec

(***************************************************************************)
(* When the jobs of the server all belong to one contest, none of them     *)
(* ever loses it: what breaks EveryJobEnds takes two contests.             *)
(***************************************************************************)
AllSound == up => \A i \in DOMAIN jobs : Sound(jobs[i])

THEOREM JobsOfOneContest ==
    ASSUME \A c, d \in JobContests : c = d
    PROVE  Spec => []AllSound
<1> USE LoopAssumption
<1>1. Init => AllSound
  BY DEF Init, AllSound
<1>2. IInv /\ AllSound /\ [Next]_vars => AllSound'
  <2> DEFINE StaysSound(j) == j.contest \in loaded' /\ inc'[j.contest] = j.inc
  <2> SUFFICES ASSUME IInv, AllSound, [Next]_vars, up'
               PROVE  \A i \in DOMAIN jobs' : StaysSound(jobs'[i])
    BY DEF AllSound, Sound
  <2>0. /\ Typed
        /\ \A i \in DOMAIN jobs : jobs[i] \in JobRecord
        /\ \A i \in DOMAIN jobs : jobs[i].contest \in Contests
        /\ jobs # << >> => 1 \in DOMAIN jobs /\ First = jobs[1]
    <3>1. Typed /\ \A i \in DOMAIN jobs : jobs[i] \in JobRecord
      BY ElementOfSeq, LenProperties DEF IInv, Typed
    <3>2. jobs # << >> => 1 \in DOMAIN jobs /\ First = jobs[1]
      BY <3>1, EmptySeq, LenProperties DEF Typed, First
    <3> QED
      BY <3>1, <3>2 DEF JobRecord
  <2>1. ASSUME NEW c \in Contests, NEW a, Access(c, a), up, UNCHANGED jobs
        PROVE  \A i \in DOMAIN jobs' : StaysSound(jobs'[i])
    BY <2>0, <2>1, AccessKeeps DEF AllSound, Sound
  <2>2. ASSUME NEW c \in Contests,
               View(c) \/ Submit(c) \/ Reload(c) \/ ShowJobs(c)
        PROVE  \A i \in DOMAIN jobs' : StaysSound(jobs'[i])
    BY <2>1, <2>2 DEF View, Submit, Reload, ShowJobs, Access
  <2>3. ASSUME NEW c \in JobContests, NEW k \in JobKinds, AddJob(c, k)
        PROVE  \A i \in DOMAIN jobs' : StaysSound(jobs'[i])
    <3> DEFINE new == [id |-> serial + 1, contest |-> c,
                       inc |-> IncAfter(c), kind |-> k, cur |-> 0]
    <3>1. Access(c, 0) /\ up /\ jobs' = Append(jobs, new)
      BY <2>3 DEF AddJob, Access
    <3>2. \A i \in DOMAIN jobs' :
              \/ jobs'[i] = new
              \/ i \in DOMAIN jobs /\ jobs'[i] = jobs[i]
      BY <2>0, <3>1 DEF Typed
    <3>3. StaysSound(new)
      BY <2>0, <3>1 DEF Sound, Access, Typed
    <3>4. \A i \in DOMAIN jobs : StaysSound(jobs[i])
      BY <2>0, <3>1, AccessKeeps DEF AllSound, Sound
    <3> QED
      BY <3>2, <3>3, <3>4
  <2>4. CASE Tick \/ PassCrashes \/ UNCHANGED vars \/ \E c \in Contests : Arrive(c)
    BY <2>4 DEF Tick, PassCrashes, Arrive, vars, AllSound, Sound
  <2>5. CASE PassWithoutJob
    BY <2>5 DEF PassWithoutJob
  <2>6. CASE PassWithJob
    <3>1. /\ Serve(Batch - Work, Busy) /\ Sound(First) /\ jobs # << >> /\ up
          /\ jobs' = (IF Ended THEN << >> ELSE <<JobAfter>>) \o Tail(jobs)
      BY <2>6 DEF PassWithJob
    <3>2. JobAfter \in JobRecord /\ JobAfter.contest = First.contest
          /\ JobAfter.inc = First.inc
      BY <2>0, <3>1, JobAfterTyped
    <3>3. \A i \in DOMAIN jobs : StaysSound(jobs[i])
      <4>1. First \in JobRecord
        BY <2>0, <3>1, HeadTailProperties DEF Typed, First
      <4>2. \A i \in DOMAIN jobs : jobs[i].contest = First.contest
        BY <2>0, <4>1 DEF JobRecord
      <4> QED
        BY <3>1, <4>2, ServeKeeps DEF AllSound, Sound, Busy
    <3>4. StaysSound(JobAfter)
      BY <3>1, <3>2, ServeKeeps DEF Sound, Busy
    <3>5. \A i \in DOMAIN jobs' :
              jobs'[i] = JobAfter \/ \E k \in DOMAIN jobs : jobs'[i] = jobs[k]
      <4>1. CASE Ended
        BY <2>0, <3>1, <4>1 DEF Typed
      <4>2. CASE ~Ended
        BY <2>0, <3>1, <3>2, <4>2 DEF Typed
      <4> QED
        BY <4>1, <4>2
    <3> QED
      BY <3>3, <3>4, <3>5
  <2>7. ~PassWithStaleJob
    BY <2>0 DEF PassWithStaleJob, AllSound
  <2> QED
    BY <2>2, <2>3, <2>4, <2>5, <2>6, <2>7 DEF Next, Pass
<1> QED
  BY InitIInv, NextIInv, <1>1, <1>2, PTL DEF Spec

-----------------------------------------------------------------------------
(* The type invariant.  A batch is taken from what is left of the log and  *)
(* of the spools: it must not be taken from less than nothing.             *)

\* A loaded contest was loaded.
LoadedOnce == \A c \in loaded : inc[c] > 0

RepliesWritten == \A c \in Contests : replies[c] <= written

\* No job is past the end of the log, which may only grow.
JobsInLog == \A i \in DOMAIN jobs : jobs[i].cur <= total[jobs[i].contest]

LoopInv == TypeOK /\ LoadedOnce /\ RepliesWritten /\ JobsInLog

\* Nothing is read that is not there.
LEMMA ReadBounded ==
    ASSUME TypeOK, NEW c \in Contests, NEW n \in Nat
    PROVE  Read(c, n) \in 0 .. replies[c]
<1>1. IsFiniteSet(Ahead(c))
  <2>1. IsFiniteSet(loaded)
    BY LoopAssumption, FS_Subset DEF TypeOK
  <2>2. IsFiniteSet(1 .. MaxReplies)
    BY LoopAssumption, FS_Interval
  <2>3. IsFiniteSet(loaded \X (1 .. MaxReplies))
    BY <2>1, <2>2, FS_Product
  <2>4. Ahead(c) \subseteq loaded \X (1 .. MaxReplies)
    BY DEF Ahead
  <2> QED
    BY <2>3, <2>4, FS_Subset
<1>2. PICK before \in Nat : before = Cardinality(Ahead(c))
  BY <1>1, FS_CardinalityType
<1>3. replies[c] \in Nat
  BY LoopAssumption DEF TypeOK
<1> QED
  BY <1>2, <1>3 DEF Read, Least

\* What a pass with n units left does to the contests.
LEMMA ServeTyped ==
    ASSUME LoopInv, NEW n \in Nat, NEW busy, Serve(n, busy)
    PROVE  /\ loaded' \subseteq loaded
           /\ age' \in [Contests -> 0 .. Expire + 1]
           /\ replies' \in [Contests -> 0 .. MaxReplies]
           /\ LoadedOnce' /\ RepliesWritten'
           /\ UNCHANGED <<inc, total, written, serial>>
<1> USE LoopAssumption
<1>1. loaded' \subseteq loaded /\ UNCHANGED <<inc, total, written, serial>>
  BY DEF Serve
<1>2. age' \in [Contests -> 0 .. Expire + 1]
  BY DEF Serve, LoopInv, TypeOK
<1>3. \A c \in Contests : replies'[c] \in 0 .. replies[c]
  <2> SUFFICES ASSUME NEW c \in Contests
               PROVE  replies'[c] \in 0 .. replies[c]
    OBVIOUS
  <2>1. Read(c, n) \in 0 .. replies[c]
    BY ReadBounded DEF LoopInv
  <2>2. replies[c] \in Nat
    BY DEF LoopInv, TypeOK
  <2>3. replies'[c] = replies[c] - Read(c, n)
    BY DEF Serve
  <2> QED
    BY <2>1, <2>2, <2>3
<1>4. replies' = [c \in Contests |-> replies'[c]]
  BY DEF Serve
<1>5. \A c \in Contests : replies[c] \in 0 .. MaxReplies /\ replies[c] <= written
  BY DEF LoopInv, TypeOK, RepliesWritten
<1>6. written \in Nat
  BY DEF LoopInv, TypeOK
<1>7. \A c \in Contests : replies'[c] \in 0 .. MaxReplies /\ replies'[c] <= written
  BY <1>3, <1>5, <1>6
<1>8. replies' \in [Contests -> 0 .. MaxReplies]
  BY <1>4, <1>7
<1>9. RepliesWritten'
  BY <1>1, <1>7 DEF RepliesWritten
<1>10. LoadedOnce'
  BY <1>1 DEF LoopInv, LoadedOnce
<1> QED
  BY <1>1, <1>2, <1>8, <1>9, <1>10

\* A request for a contest loads it if need be.
LEMMA AccessTyped ==
    ASSUME LoopInv, NEW c \in Contests, NEW a \in 0 .. Expire + 1, Access(c, a)
    PROVE  /\ loaded' \subseteq Contests
           /\ inc' \in [Contests -> 0 .. MaxLoads]
           /\ age' \in [Contests -> 0 .. Expire + 1]
           /\ IncAfter(c) \in 1 .. MaxLoads
           /\ LoadedOnce'
<1>1. IncAfter(c) \in 1 .. MaxLoads
  BY LoopAssumption DEF LoopInv, TypeOK, LoadedOnce, Access, Loads, IncAfter
<1>2. loaded' = loaded \cup {c} /\ inc' = [inc EXCEPT ![c] = IncAfter(c)]
      /\ age' = [age EXCEPT ![c] = a]
  BY DEF Access
<1>3. /\ loaded \subseteq Contests /\ inc \in [Contests -> 0 .. MaxLoads]
      /\ age \in [Contests -> 0 .. Expire + 1]
  BY DEF LoopInv, TypeOK
<1>4. inc' \in [Contests -> 0 .. MaxLoads] /\ inc'[c] > 0
  BY <1>1, <1>2, <1>3
<1>5. LoadedOnce'
  BY <1>2, <1>3, <1>4 DEF LoopInv, LoadedOnce
<1> QED
  BY <1>1, <1>2, <1>3, <1>4, <1>5

\* What the first job does in a pass stays within the batch and the log.
LEMMA WorkBounded ==
    ASSUME LoopInv, jobs # << >>
    PROVE  /\ First \in Job /\ First.contest \in Contests
           /\ Work \in 0 .. Batch
           /\ First.cur + Work <= total[First.contest]
           /\ JobAfter \in Job
           /\ JobAfter.cur <= total[JobAfter.contest]
<1> USE LoopAssumption
<1>1. First \in Job /\ First = jobs[1] /\ 1 \in DOMAIN jobs
  BY HeadTailProperties, EmptySeq DEF LoopInv, TypeOK, First
<1>2. First.contest \in Contests /\ First.cur \in 0 .. MaxRuns
  BY <1>1 DEF Job
<1>3. First.cur <= total[First.contest]
  BY <1>1 DEF LoopInv, JobsInLog
<1>4. total[First.contest] \in 0 .. MaxRuns
  BY <1>2 DEF LoopInv, TypeOK
<1>5. Work \in 0 .. Batch /\ First.cur + Work <= total[First.contest]
  BY <1>2, <1>3, <1>4 DEF Work, Least
<1>6. First.cur + Work \in 0 .. MaxRuns
  BY <1>2, <1>4, <1>5
<1>7. JobAfter \in Job /\ JobAfter.contest = First.contest
      /\ JobAfter.cur = First.cur + Work
  BY <1>1, <1>6 DEF JobAfter, Job
<1> QED
  BY <1>1, <1>2, <1>5, <1>7

\* The jobs behind the first one stay in the list.
LEMMA TailOfJobs ==
    ASSUME NEW s \in Seq(Job), s # << >>
    PROVE  /\ Tail(s) \in Seq(Job)
           /\ \A i \in DOMAIN Tail(s) : \E k \in DOMAIN s : Tail(s)[i] = s[k]
<1>1. /\ Tail(s) \in Seq(Job) /\ Len(Tail(s)) = Len(s) - 1
      /\ \A i \in 1 .. Len(Tail(s)) : Tail(s)[i] = s[i + 1]
  BY HeadTailProperties
<1>2. DOMAIN Tail(s) = 1 .. Len(s) - 1 /\ DOMAIN s = 1 .. Len(s) /\ Len(s) \in Nat
  BY <1>1, LenProperties
<1>3. \A i \in 1 .. Len(s) - 1 : i + 1 \in 1 .. Len(s)
  BY <1>2
<1> QED
  BY <1>1, <1>2, <1>3

\* What is known of a job of the list.
LEMMA JobFields ==
    ASSUME NEW j \in Job
    PROVE  j.contest \in Contests /\ j.cur \in Nat
<1>1. j.contest \in JobContests /\ j.cur \in 0 .. MaxRuns
  BY DEF Job
<1>2. JobContests \subseteq Contests /\ MaxRuns \in Nat
  BY LoopAssumption
<1>3. j.cur \in Nat
  BY <1>1, <1>2
<1> QED
  BY <1>1, <1>2, <1>3

LEMMA NextLoopInv == LoopInv /\ [Next]_vars => LoopInv'
<1> USE LoopAssumption
<1> SUFFICES ASSUME LoopInv, [Next]_vars
             PROVE  LoopInv'
  OBVIOUS
<1>t. /\ total \in [Contests -> 0 .. MaxRuns]
      /\ replies \in [Contests -> 0 .. MaxReplies] /\ written \in 0 .. MaxReplies
      /\ age \in [Contests -> 0 .. Expire + 1] /\ serial \in 0 .. MaxJobs
      /\ jobs \in Seq(Job)
  BY DEF LoopInv, TypeOK
<1>0. /\ TypeOK /\ LoadedOnce /\ RepliesWritten /\ JobsInLog
      /\ \A i \in DOMAIN jobs : jobs[i] \in Job /\ jobs[i].contest \in Contests
      /\ \A i \in DOMAIN jobs : jobs[i].cur \in Nat
      /\ 0 \in 0 .. Expire + 1 /\ Expire + 1 \in 0 .. Expire + 1
  <2>1. \A i \in DOMAIN jobs : jobs[i] \in Job
    BY ElementOfSeq, LenProperties DEF LoopInv, TypeOK
  <2>2. \A j \in Job : j.contest \in Contests /\ j.cur \in Nat
    BY JobFields
  <2>3. 0 \in 0 .. Expire + 1 /\ Expire + 1 \in 0 .. Expire + 1
    OBVIOUS
  <2> QED
    BY <2>1, <2>2, <2>3 DEF LoopInv
<1>1. ASSUME NEW c \in Contests, NEW a \in 0 .. Expire + 1, Access(c, a),
             up' \in BOOLEAN, UNCHANGED <<total, replies, jobs, written, serial>>
      PROVE  LoopInv'
  BY <1>0, <1>1, AccessTyped DEF LoopInv, TypeOK, RepliesWritten, JobsInLog
<1>2. ASSUME NEW c \in Contests, View(c) \/ Reload(c) \/ ShowJobs(c)
      PROVE  LoopInv'
  BY <1>0, <1>1, <1>2 DEF View, Reload, ShowJobs, TypeOK
<1>3. ASSUME NEW c \in JobContests, Submit(c)
      PROVE  LoopInv'
  <2>1. /\ Access(c, 0) /\ total[c] < MaxRuns
        /\ total' = [total EXCEPT ![c] = @ + 1]
        /\ UNCHANGED <<up, replies, jobs, written, serial>>
    BY <1>3 DEF Submit
  <2>2. /\ total' \in [Contests -> 0 .. MaxRuns]
        /\ \A d \in Contests : total[d] <= total'[d]
    BY <1>t, <2>1
  <2>3. JobsInLog'
    <3>1. \A d \in Contests : total[d] \in Nat /\ total'[d] \in Nat
      BY <1>t, <2>2
    <3> QED
      BY <1>0, <2>1, <2>2, <3>1 DEF JobsInLog
  <2> QED
    BY <1>0, <2>1, <2>2, <2>3, AccessTyped DEF LoopInv, TypeOK, RepliesWritten
<1>4. ASSUME NEW c \in JobContests, NEW k \in JobKinds, AddJob(c, k)
      PROVE  LoopInv'
  <2> DEFINE new == [id |-> serial + 1, contest |-> c,
                     inc |-> IncAfter(c), kind |-> k, cur |-> 0]
  <2>1. /\ Access(c, 0) /\ jobs' = Append(jobs, new) /\ serial < MaxJobs
        /\ serial' = serial + 1
        /\ UNCHANGED <<up, total, replies, written>>
    BY <1>4 DEF AddJob
  <2>2. new \in Job /\ serial' \in 0 .. MaxJobs
    <3>1. IncAfter(c) \in 1 .. MaxLoads
      BY <1>0, <2>1, AccessTyped
    <3>2. serial + 1 \in 1 .. MaxJobs /\ 0 \in 0 .. MaxRuns
      BY <1>t, <2>1
    <3>3. serial' \in 0 .. MaxJobs
      BY <2>1, <3>2
    <3> QED
      BY <3>1, <3>2, <3>3 DEF Job
  <2>3. jobs' \in Seq(Job)
    BY <1>0, <2>1, <2>2 DEF TypeOK
  <2>4. \A i \in DOMAIN jobs' :
            \/ jobs'[i] = new
            \/ i \in DOMAIN jobs /\ jobs'[i] = jobs[i]
    BY <1>0, <2>1 DEF TypeOK
  <2>5. new.cur <= total[new.contest]
    BY <1>0 DEF TypeOK
  <2>6. JobsInLog'
    BY <1>0, <2>1, <2>4, <2>5 DEF JobsInLog
  <2> QED
    BY <1>0, <2>1, <2>2, <2>3, <2>6, AccessTyped DEF LoopInv, TypeOK, RepliesWritten
<1>5. ASSUME NEW c \in Contests, Arrive(c)
      PROVE  LoopInv'
  <2>1. /\ written' = written + 1 /\ written < MaxReplies
        /\ replies' = [replies EXCEPT ![c] = @ + 1]
        /\ UNCHANGED <<up, loaded, inc, age, total, jobs, serial>>
    BY <1>5 DEF Arrive
  <2>2. \A d \in Contests : replies[d] \in Nat /\ replies[d] <= written
    BY <1>0, <1>t DEF RepliesWritten
  <2>3. \A d \in Contests : replies'[d] \in 0 .. written'
    BY <1>t, <2>1, <2>2
  <2>4. replies' \in [Contests -> 0 .. MaxReplies] /\ written' \in 0 .. MaxReplies
    BY <1>t, <2>1, <2>3
  <2>5. RepliesWritten'
    BY <2>3 DEF RepliesWritten
  <2>6. LoadedOnce' /\ JobsInLog'
    BY <1>0, <2>1 DEF LoadedOnce, JobsInLog
  <2> QED
    BY <1>0, <2>1, <2>4, <2>5, <2>6 DEF LoopInv, TypeOK
<1>6. CASE Tick
  <2>1. age' \in [Contests -> 0 .. Expire + 1]
    <3>1. age' = [c \in Contests |-> IF c \in loaded /\ age[c] <= Expire
                                     THEN age[c] + 1 ELSE age[c]]
      BY <1>6 DEF Tick
    <3>2. \A c \in Contests : age'[c] \in 0 .. Expire + 1
      BY <1>t, <3>1
    <3> QED
      BY <3>1, <3>2
  <2>2. UNCHANGED <<up, loaded, inc, total, replies, jobs, written, serial>>
    BY <1>6 DEF Tick
  <2> QED
    BY <1>0, <2>1, <2>2 DEF LoopInv, TypeOK, LoadedOnce, RepliesWritten, JobsInLog
<1>7. ASSUME NEW n \in Nat, NEW busy, Serve(n, busy), up' \in BOOLEAN,
             jobs' \in Seq(Job), JobsInLog'
      PROVE  LoopInv'
  BY <1>0, <1>7, ServeTyped DEF LoopInv, TypeOK
<1>8. CASE PassWithoutJob
  <2>1. jobs' \in Seq(Job) /\ JobsInLog' /\ up' \in BOOLEAN /\ Serve(Batch, {})
    BY <1>0, <1>8 DEF PassWithoutJob, TypeOK, JobsInLog, Serve
  <2> QED
    BY <1>7, <2>1
<1>9. jobs # << >> =>
        /\ Tail(jobs) \in Seq(Job)
        /\ \A i \in DOMAIN Tail(jobs) :
              \E k \in DOMAIN jobs : Tail(jobs)[i] = jobs[k]
  BY <1>t, TailOfJobs
<1>10. CASE PassWithJob
  <2>1. /\ Serve(Batch - Work, Busy) /\ jobs # << >> /\ up' \in BOOLEAN
        /\ jobs' = (IF Ended THEN << >> ELSE <<JobAfter>>) \o Tail(jobs)
        /\ total' = total
    BY <1>0, <1>10 DEF PassWithJob, TypeOK, Serve
  <2>2. /\ JobAfter \in Job /\ JobAfter.cur <= total[JobAfter.contest]
        /\ Batch - Work \in Nat
    BY <2>1, WorkBounded
  <2>3. /\ jobs' \in Seq(Job)
        /\ \A i \in DOMAIN jobs' :
              jobs'[i] = JobAfter \/ \E k \in DOMAIN jobs : jobs'[i] = jobs[k]
    <3>1. CASE Ended
      BY <1>0, <2>1, <3>1 DEF TypeOK
    <3>2. CASE ~Ended
      BY <1>0, <2>1, <2>2, <3>2 DEF TypeOK
    <3> QED
      BY <3>1, <3>2
  <2>4. JobsInLog'
    BY <1>0, <2>1, <2>2, <2>3 DEF JobsInLog
  <2> QED
    BY <1>7, <2>1, <2>2, <2>3, <2>4
<1>11. CASE PassWithStaleJob
  <2>1. CASE UNCHANGED <<loaded, inc, age, total, replies, jobs, written, serial>>
             /\ up' = FALSE
    BY <1>0, <2>1 DEF LoopInv, TypeOK, LoadedOnce, RepliesWritten, JobsInLog
  <2>2. ASSUME NEW n \in 0 .. Batch, NEW rest \in {jobs, Tail(jobs)},
               Serve(n, Busy), jobs' = rest, UNCHANGED up
        PROVE  LoopInv'
    <3>1. jobs # << >> /\ total' = total /\ n \in Nat
      BY <1>11, <2>2 DEF PassWithStaleJob, Serve
    <3>2. jobs' \in Seq(Job)
      BY <1>t, <1>9, <2>2, <3>1
    <3>3. CASE jobs' = jobs
      <4>1. JobsInLog'
        BY <1>0, <3>1, <3>3 DEF JobsInLog
      <4> QED
        BY <1>0, <1>7, <2>2, <3>1, <3>2, <4>1 DEF TypeOK
    <3>4. CASE jobs' = Tail(jobs)
      <4>1. JobsInLog'
        BY <1>0, <1>9, <3>1, <3>4 DEF JobsInLog
      <4> QED
        BY <1>0, <1>7, <2>2, <3>1, <3>2, <4>1 DEF TypeOK
    <3> QED
      BY <2>2, <3>3, <3>4
  <2> QED
    BY <1>11, <2>1, <2>2 DEF PassWithStaleJob
<1>12. CASE PassCrashes
  BY <1>0, <1>12
     DEF PassCrashes, LoopInv, TypeOK, LoadedOnce, RepliesWritten, JobsInLog
<1>13. CASE UNCHANGED vars
  BY <1>0, <1>13
     DEF vars, LoopInv, TypeOK, LoadedOnce, RepliesWritten, JobsInLog
<1> QED
  BY <1>2, <1>3, <1>4, <1>5, <1>6, <1>8, <1>10, <1>11, <1>12, <1>13
     DEF Next, Pass

LEMMA InitLoopInv == Init => LoopInv
  BY LoopAssumption, EmptySeq
     DEF Init, LoopInv, TypeOK, LoadedOnce, RepliesWritten, JobsInLog

(***************************************************************************)
(* The variables never leave their types: no pass takes more replies than  *)
(* there are, and no job goes past the end of its log.                     *)
(***************************************************************************)
THEOREM LoopTypes == Spec => []TypeOK
<1>1. LoopInv => TypeOK
  BY DEF LoopInv
<1> QED
  BY <1>1, InitLoopInv, NextLoopInv, PTL DEF Spec

-----------------------------------------------------------------------------
(* What each pass gets done, whatever clients do between passes.           *)

\* A pass takes the first job a whole batch further, or to the end of the
\* log as it is then.
JobStep ==
    PassWithJob =>
        IF jobs' = Tail(jobs) THEN First.cur + Work = total[First.contest]
        ELSE /\ jobs' = <<JobAfter>> \o Tail(jobs)
             /\ JobAfter.cur = First.cur + Batch
             /\ JobAfter.cur < total[First.contest]

LEMMA JobStepHolds ==
    ASSUME LoopInv
    PROVE  JobStep
<1> SUFFICES ASSUME PassWithJob PROVE JobStep
  BY DEF JobStep
<1>1. jobs # << >> /\ jobs' = (IF Ended THEN << >> ELSE <<JobAfter>>) \o Tail(jobs)
  BY DEF PassWithJob
<1>2. /\ First \in Job /\ First.contest \in Contests /\ JobAfter \in Job
      /\ Work \in 0 .. Batch /\ First.cur + Work <= total[First.contest]
  BY <1>1, WorkBounded
<1>3. /\ First.cur \in Nat /\ total[First.contest] \in Nat /\ Batch \in Nat
      /\ JobAfter.cur = First.cur + Work
  BY <1>2, LoopAssumption, JobFields DEF LoopInv, TypeOK, JobAfter, Job
<1>4. Tail(jobs) \in Seq(Job)
  BY <1>1, HeadTailProperties DEF LoopInv, TypeOK
<1>5. CASE Ended
  <2>1. jobs' = Tail(jobs)
    BY <1>1, <1>4, <1>5, ConcatEmptySeq
  <2>2. First.cur + Work = total[First.contest]
    BY <1>2, <1>3, <1>5 DEF Ended
  <2> QED
    BY <2>1, <2>2 DEF JobStep
<1>6. CASE ~Ended
  <2>1. jobs' = <<JobAfter>> \o Tail(jobs)
    BY <1>1, <1>6
  <2>2. Len(jobs') = Len(Tail(jobs)) + 1
    BY <1>2, <1>4, <2>1
  <2>3. jobs' # Tail(jobs)
    BY <1>4, <2>2, LenProperties
  <2>4. Work = Batch /\ First.cur + Work < total[First.contest]
    BY <1>2, <1>3, <1>6 DEF Ended, Work, Least
  <2> QED
    BY <1>3, <2>1, <2>3, <2>4 DEF JobStep
<1> QED
  BY <1>5, <1>6

(***************************************************************************)
(* The safety half of SoundJobEnds: no pass of a sound job is for nothing. *)
(* It ends only when it has looked at every run of the log, those          *)
(* submitted meanwhile included; else it is Batch runs nearer to the end.  *)
(***************************************************************************)
THEOREM JobsAdvance == Spec => [][JobStep]_vars
<1>1. LoopInv /\ [Next]_vars => [JobStep]_vars
  BY JobStepHolds
<1> QED
  BY <1>1, InitLoopInv, NextLoopInv, PTL DEF Spec

\* A pass that has something of the batch left for the contests.
PassServes == PassWithoutJob \/ (PassWithJob /\ Work < Batch)

\* Loaded contests with replies.
Wanting == {c \in loaded : replies[c] > 0}

ReplyStep ==
    /\ PassServes /\ Wanting # {} => \E c \in Wanting : replies'[c] < replies[c]
    /\ Wanting \subseteq loaded'

\* One of some contests has the smallest number.
LEMMA Smallest ==
    ASSUME NEW S \in SUBSET Nat, S # {}
    PROVE  \E c \in S : \A d \in S : ~(d < c)
<1>1. PICK c \in S : \A d \in S : <<d, c>> \notin OpToRel(<, Nat)
  BY WFMin, NatLessThanWellFounded
<1> QED
  BY <1>1 DEF OpToRel

\* The first of the wanting contests gets what is left.
LEMMA FirstIsServed ==
    ASSUME LoopInv, NEW n \in Nat \ {0}, NEW busy, Serve(n, busy), Wanting # {}
    PROVE  \E c \in Wanting : replies'[c] < replies[c]
<1>1. Wanting \subseteq Contests /\ Contests \subseteq Nat
  BY LoopAssumption DEF LoopInv, TypeOK, Wanting
<1>2. PICK c \in Wanting : \A d \in Wanting : ~(d < c)
  BY <1>1, Smallest
<1>3. Ahead(c) = {}
  <2>1. \A f \in Ahead(c) : f[1] \in Wanting /\ f[1] < c
    <3> SUFFICES ASSUME NEW f \in Ahead(c) PROVE f[1] \in Wanting /\ f[1] < c
      OBVIOUS
    <3>1. /\ f[1] \in loaded /\ f[2] \in 1 .. MaxReplies /\ f[1] < c
          /\ f[2] <= replies[f[1]]
      BY DEF Ahead
    <3>2. replies[f[1]] \in 0 .. MaxReplies
      BY <3>1 DEF LoopInv, TypeOK
    <3>3. replies[f[1]] > 0
      BY <3>1, <3>2
    <3> QED
      BY <3>1, <3>3 DEF Wanting
  <2> QED
    BY <1>2, <2>1
<1>4. Cardinality(Ahead(c)) = 0
  BY <1>3, FS_EmptySet
<1>5. c \in loaded /\ c \in Contests /\ replies[c] \in Nat \ {0}
  BY <1>1, LoopAssumption DEF Wanting, LoopInv, TypeOK
<1>6. Read(c, n) = Least(replies[c], n)
  BY <1>4, <1>5 DEF Read
<1>7. replies'[c] = replies[c] - Read(c, n)
  BY <1>5 DEF Serve
<1> QED
  BY <1>5, <1>6, <1>7 DEF Least

LEMMA ReplyStepHolds ==
    ASSUME LoopInv, Next
    PROVE  ReplyStep
<1>1. PassServes /\ Wanting # {} => \E c \in Wanting : replies'[c] < replies[c]
  <2>1. CASE PassWithoutJob
    BY <2>1, FirstIsServed, LoopAssumption DEF PassWithoutJob
  <2>2. CASE PassWithJob /\ Work < Batch
    <3>1. jobs # << >> /\ Serve(Batch - Work, Busy)
      BY <2>2 DEF PassWithJob
    <3>2. Batch - Work \in Nat \ {0}
      BY <2>2, <3>1, WorkBounded, LoopAssumption
    <3> QED
      BY <3>1, <3>2, FirstIsServed
  <2> QED
    BY <2>1, <2>2 DEF PassServes
<1>2. ASSUME NEW n, NEW busy, Serve(n, busy) PROVE Wanting \subseteq loaded'
  BY <1>2 DEF Serve, Wanting, Accessed
<1>3. Wanting \subseteq loaded
  BY DEF Wanting
<1>4. Pass => Wanting \subseteq loaded'
  BY <1>2, <1>3
     DEF Pass, PassWithoutJob, PassWithJob, PassWithStaleJob, PassCrashes
<1>5. ~Pass => loaded \subseteq loaded'
  BY DEF Next, View, Reload, ShowJobs, Arrive, Submit, AddJob, Tick, Access
<1> QED
  BY <1>1, <1>3, <1>4, <1>5 DEF ReplyStep

(***************************************************************************)
(* The safety half of ReplyRead: a pass in which the job leaves something  *)
(* of the batch reads a reply of the first contest that has one, and no    *)
(* contest with replies is unloaded, however long it waits for its turn.   *)
(***************************************************************************)
THEOREM RepliesAreServed == Spec => [][ReplyStep]_vars
<1>1. LoopInv /\ [Next]_vars => [ReplyStep]_vars
  BY ReplyStepHolds
<1> QED
  BY <1>1, InitLoopInv, NextLoopInv, PTL DEF Spec
=============================================================================

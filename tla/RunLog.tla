------------------------------- MODULE RunLog -------------------------------
(***************************************************************************)
(* The run log of a virtual contest and what is kept beside it: runlog.c,  *)
(* its file back end (rldb_plugin_file.c), the archive files of the runs,  *)
(* the replies of the testing servers and the events that end each         *)
(* participant's time (serve_2.c, serve_state.c, new_server_html.c).       *)
(*                                                                         *)
(* Records are ordered by time, and a record's number is its place.  The   *)
(* record of a stop that is handled late goes into the middle of the log   *)
(* and moves the ones after it.  Whatever was remembered by number has to  *)
(* move as well: archive files, the list of each user's records, replies   *)
(* under way, the table of uuids.                                          *)
(*                                                                         *)
(* A record is one of a start, a stop or a submit; submits have an id, the *)
(* uuid of the program, 0 for other records.  Numbers start with 1 here,   *)
(* 0 stands for the -1 of the program.                                     *)
(***************************************************************************)
EXTENDS Naturals, FiniteSets

CONSTANTS
    Users,
    None,
    Duration,     \* how long each participant has
    Olympiad,     \* score_system is SCORE_OLYMPIAD, otherwise SCORE_ACM
    UuidStore,    \* uuid_run_store: runs are found and stored by uuid
    MaxLog,       \* bound: records
    MaxRuns,      \* bound: submits
    Clock,        \* bound: the times at which something is done
    LastStart,    \* bound: when participants start
    MaxOps        \* bound: what judges do, and times the contest is unloaded
                  \* and loaded again

ASSUME RunLogAssumption ==
    /\ None \notin Users /\ IsFiniteSet(Users)
    /\ Olympiad \in BOOLEAN /\ UuidStore \in BOOLEAN
    /\ Duration \in Nat \ {0} /\ LastStart \in Nat
    /\ Clock \subseteq Nat \ {0} /\ 1 \in Clock
    /\ MaxLog \in Nat /\ MaxRuns \in Nat /\ MaxOps \in Nat

VARIABLES
    runs, used,   \* runs[] and run_u: entries after used are empty
    start, stop,  \* user table: start_time and stop_time, 0 for none
    list,         \* each user's records, linked by numbers; None: not valid
    hash,         \* the number found for each uuid
    file,         \* run archive: the submit whose source has each number
    replies,      \* what testing servers will answer
    events,       \* event queue
    now,
    submits, asked, \* submits and requests to judge so far
    skipped,      \* submits that were once given the status SKIPPED
    ops

log == <<runs, used>>
table == <<start, stop>>
counts == <<submits, asked, skipped, ops>>
vars == <<log, table, list, hash, file, replies, events, now, counts>>

Numbers == 1 .. MaxLog
Ids == 1 .. MaxRuns
Judges == Nat
Times == Nat
Pseudo == {"VSTART", "VSTOP", "EMPTY"}
Statuses == Pseudo \cup {"RUNNING", "OK", "SKIPPED"}

Entries == [status : Statuses, user : Users \cup {None}, id : 0 .. MaxRuns,
            time : Times, judge : Judges]
Empty == [status |-> "EMPTY", user |-> None, id |-> 0, time |-> 0, judge |-> 0]
Replies == [num : Numbers, id : Ids, judge : Judges]
Events == [type : {"stop", "judge"}, user : Users, time : Times]

TypeOK ==
    /\ runs \in [Numbers -> Entries] /\ used \in 0 .. MaxLog
    /\ \A n \in Numbers : n > used => runs[n] = Empty
    /\ start \in [Users -> Times] /\ stop \in [Users -> Times]
    /\ list \in [Users -> (SUBSET Numbers) \cup {None}]
    /\ hash \in [Ids -> 0 .. MaxLog]
    /\ file \in [Numbers -> 0 .. MaxRuns]
    /\ replies \subseteq Replies
    /\ events \subseteq Events
    /\ now \in Clock
    /\ submits \in 0 .. MaxRuns /\ asked \in Judges
    /\ skipped \subseteq Ids
    /\ ops \in 0 .. MaxOps

Init ==
    /\ runs = [n \in Numbers |-> Empty] /\ used = 0
    /\ start = [u \in Users |-> 0] /\ stop = [u \in Users |-> 0]
    /\ list = [u \in Users |-> None]
    /\ hash = [i \in Ids |-> 0]
    /\ file = [n \in Numbers |-> 0]
    /\ replies = {} /\ events = {}
    /\ now = 1
    /\ submits = 0 /\ asked = 0 /\ skipped = {} /\ ops = 0

-----------------------------------------------------------------------------
(* Each user's records.  The program links them with their numbers in      *)
(* run_extras[]; here a list is the set of numbers met along the links.    *)

Least(S) == IF S = {} THEN 0 ELSE CHOOSE n \in S : \A m \in S : n <= m
Greatest(S) == IF S = {} THEN 0 ELSE CHOOSE n \in S : \A m \in S : n >= m

Present == {n \in Numbers : runs[n].status # "EMPTY"}
Own(u) == {n \in Present : runs[n].user = u}

\* valid_user_run_statuses
Listed(u) == {n \in Own(u) : runs[n].status # "SKIPPED"}

\* get_user_entry makes the list again if it is not valid.
ListOf(u) == IF list[u] = None THEN Listed(u) ELSE list[u]

GetUserEntry(u) == list' = [list EXCEPT ![u] = ListOf(u)]

\* ASSERT(re->user_id == user_id) of every walk along a list.
ListIsOwn(u) == \A n \in ListOf(u) : n <= used /\ runs[n].user = u

Forget(us) == list' = [u \in Users |-> IF u \in us THEN None ELSE list[u]]

-----------------------------------------------------------------------------
(* Records are put in by time                                              *)

\* get_insert_run_id: before the first record of a later time.
Position(t) ==
    LET later == {n \in Present : runs[n].time > t}
    IN  IF later = {} THEN used + 1 ELSE Least(later)

\* RUN_TRANSIENT_FIRST .. RUN_TRANSIENT_LAST
Transient(n) == runs[n].status = "RUNNING"

\* It refuses to move a run that a reply is under way for.
MayInsert(n) == \A m \in n .. used : ~Transient(m)

Inserted(n, e) ==
    [m \in Numbers |-> IF m < n THEN runs[m]
                       ELSE IF m = n THEN e ELSE runs[m - 1]]

\* serve_move_files_to_insert_run goes from the end of the log down to the
\* new record n, past the runs stored by uuid.
MovedFrom(n) ==
    {m \in n .. used : UuidStore => Inserted(n, Empty)[m].status \in Pseudo}

\* Mutant: the caller does not move the files.
Mut_MovedFiles(n) == file

MovedFiles(n) ==
    [m \in Numbers |-> IF m > n /\ m - 1 \in MovedFrom(n) THEN file[m - 1]
                       ELSE IF m \in MovedFrom(n) THEN 0 ELSE file[m]]

\* Mutant: only the user of the new record gets a new list.
Mut_MovedUsers(n) == {}

\* run_clear_index for the number each file goes to.
MovedUsers(n) == {runs[m].user : m \in MovedFrom(n)}

\* run_virtual_start or run_virtual_stop, with the files moved after it.
Insert(s, u, t) ==
    LET n == Position(t)
        e == [status |-> s, user |-> u, id |-> 0, time |-> t, judge |-> 0]
    IN  /\ MayInsert(n)
        /\ runs' = Inserted(n, e)
        /\ used' = used + 1
        /\ file' = MovedFiles(n)
        /\ Forget(MovedUsers(n) \cup {u})

\* Every participant who has not stopped needs a record for it.
Room(k) ==
    LET open == {u \in Users : start[u] # 0
                    /\ \A n \in Own(u) : runs[n].status # "VSTOP"}
    IN  used + Cardinality(open) + k <= MaxLog

-----------------------------------------------------------------------------
(* Events                                                                  *)

NoTransient == \A n \in Numbers : ~Transient(n)

\* Mutant: transient runs are not counted.
Mut_UnderWay(u) == {}

\* What run_get_virtual_info counts, and what it looks for.
UnderWay(u) == {n \in ListOf(u) : Transient(n)}

InList(u, s) == {n \in ListOf(u) : runs[n].status = s}

HasTime(u) ==
    \A s \in {"VSTART", "VSTOP"} : \E n \in InList(u, s) : InList(u, s) = {n}

\* Mutant: a late stop waits only for runs of that user.
Mut_Waits(e) ==
    /\ UnderWay(e.user) # {}
    /\ e.type = "stop" => e.time < now
    /\ e.type = "judge" => ListIsOwn(e.user) /\ HasTime(e.user)

\* The handlers leave these in the queue.
Waits(e) ==
    \/ e.type = "stop" /\ e.time < now /\ ~NoTransient
    \/ /\ e.type = "judge" /\ ListIsOwn(e.user)
       /\ HasTime(e.user) /\ UnderWay(e.user) # {}

Due == {e \in events : e.time <= now /\ ~Waits(e)}

First(e) == e \in Due /\ \A f \in Due : e.time <= f.time

JudgeEvents(u, t) ==
    IF Olympiad THEN {[type |-> "judge", user |-> u, time |-> t]} ELSE {}

\* The checks of run_virtual_stop.
MayStop(u, t) ==
    /\ start[u] # 0 /\ stop[u] = 0 /\ t <= start[u] + Duration
    /\ MayInsert(Position(t))

\* handle_virtual_stop_event.  A stop that fails is forgotten.
HandleStop(e) ==
    /\ First(e) /\ e.type = "stop"
    /\ IF MayStop(e.user, e.time)
       THEN /\ used < MaxLog
            /\ Insert("VSTOP", e.user, e.time)
            /\ stop' = [stop EXCEPT ![e.user] = e.time]
            /\ events' = (events \ {e}) \cup JudgeEvents(e.user, e.time + 1)
       ELSE /\ GetUserEntry(e.user)
            /\ events' = events \ {e}
            /\ UNCHANGED <<log, stop, file>>
    /\ UNCHANGED <<start, hash, replies, now, counts>>

\* Mutant: the packet gets the judge_id of the judging before.
Mut_Asked(m) == [num |-> m, id |-> runs[m].id, judge |-> asked]

\* What a judging request stores: a number to compare the reply with.
Asked(m) == [num |-> m, id |-> runs[m].id, judge |-> asked + 1]

\* serve_judge_virtual_olympiad: the last submit that was accepted is tested
\* in full.  All submits are of one problem here.
ToJudge(u) ==
    Greatest({m \in Own(u) :
                /\ runs[m].status = "OK"
                /\ \E n \in Own(u) : n < m /\ runs[n].status = "VSTART"
                /\ \E n \in Own(u) : n > m /\ runs[n].status = "VSTOP"})

JudgeUser(u, vs) ==
    LET m == ToJudge(u)
    IN  /\ runs' = [n \in Numbers |->
                      IF n = vs THEN [runs[n] EXCEPT !.judge = 1]
                      ELSE IF n = m
                      THEN [runs[n] EXCEPT !.status = "RUNNING",
                                           !.judge = asked + 1]
                      ELSE runs[n]]
        /\ IF m = 0 THEN UNCHANGED <<replies, asked>>
           ELSE /\ replies' = replies \cup {Asked(m)}
                /\ asked' = asked + 1

Restart ==
    LET of(u, s) == Greatest({n \in Own(u) : runs[n].status = s})
        time(n) == IF n = 0 THEN 0 ELSE runs[n].time
        open == {u \in Users : of(u, "VSTART") # 0 /\ of(u, "VSTOP") = 0}
    IN  /\ ops < MaxOps /\ ops' = ops + 1
        /\ start' = [u \in Users |-> time(of(u, "VSTART"))]
        /\ stop' = [u \in Users |-> time(of(u, "VSTOP"))]
        /\ list' = [u \in Users |-> None]
        /\ hash' = [i \in Ids |->
                       IF UuidStore
                       THEN Greatest({n \in Present : runs[n].id = i}) ELSE 0]
        /\ events' = {[type |-> "stop", user |-> u,
                        time |-> time(of(u, "VSTART")) + Duration] : u \in open}
        /\ UNCHANGED <<log, file, replies, now, submits, asked, skipped>>

\* handle_judge_olympiad_event; a list that leads to another user's record
\* ends the process.
HandleJudge(e) ==
    /\ First(e) /\ e.type = "judge"
    /\ IF ~ListIsOwn(e.user) THEN Restart
       ELSE /\ GetUserEntry(e.user)
            /\ events' = events \ {e}
            /\ IF /\ HasTime(e.user)
                  /\ runs[Greatest(InList(e.user, "VSTART"))].judge = 0
               THEN JudgeUser(e.user, Greatest(InList(e.user, "VSTART")))
               ELSE UNCHANGED <<runs, replies, asked>>
            /\ UNCHANGED <<used, table, hash, file, now, submits, skipped, ops>>

-----------------------------------------------------------------------------
(* Requests of participants                                                *)

\* Mutant: the time is over only when the event was handled.
Mut_CurrentStop(u) == stop[u]

\* run_get_virtual_stop_time remembers that the time is over.
CurrentStop(u) ==
    IF start[u] # 0 /\ stop[u] = 0 /\ start[u] + Duration < now
    THEN start[u] + Duration ELSE stop[u]

\* A page of a participant, with his runs.
View(u) ==
    /\ IF ~ListIsOwn(u) THEN Restart
       ELSE /\ stop' = [stop EXCEPT ![u] = CurrentStop(u)]
            /\ GetUserEntry(u)
            /\ UNCHANGED <<log, start, hash, file, replies, events, now, counts>>

Begin(u) ==
    /\ start[u] = 0
    /\ now <= LastStart /\ Room(2)
    /\ Insert("VSTART", u, now)
    /\ start' = [start EXCEPT ![u] = now]
    /\ UNCHANGED <<stop, hash, replies, now>>

\* "Start" by the participant, or by a judge for him, who adds no event.
VirtualStart(u) ==
    /\ Begin(u)
    /\ events' = events \cup
           {[type |-> "stop", user |-> u, time |-> now + Duration]}
    /\ UNCHANGED counts

ForceStart(u) ==
    /\ Begin(u)
    /\ ops < MaxOps /\ ops' = ops + 1
    /\ UNCHANGED <<events, submits, asked, skipped>>

\* The button "Stop".
VirtualStop(u) ==
    /\ start[u] # 0 /\ CurrentStop(u) = 0 /\ used < MaxLog
    /\ Insert("VSTOP", u, now)
    /\ stop' = [stop EXCEPT ![u] = now]
    /\ events' = IF Olympiad
                 THEN {e \in events : e.user # u} \cup JudgeEvents(u, now + 1)
                 ELSE events
    /\ UNCHANGED <<start, hash, replies, now, counts>>

MaySubmit(u) == start[u] # 0 /\ CurrentStop(u) = 0

\* A submit is always the latest record: it goes to the end of the log.
Submit(u) ==
    LET n == used + 1
        i == submits + 1
    IN  /\ MaySubmit(u)
        /\ submits < MaxRuns /\ Room(1)
        /\ runs' = [runs EXCEPT ![n] =
                       [status |-> "RUNNING", user |-> u, id |-> i, time |-> now,
                        judge |-> asked + 1]]
        /\ used' = n
        /\ list' = [list EXCEPT ![u] = ListOf(u) \cup {n}]
        /\ hash' = IF UuidStore THEN [hash EXCEPT ![i] = n] ELSE hash
        /\ file' = IF UuidStore THEN file ELSE [file EXCEPT ![n] = i]
        /\ replies' = replies \cup {[num |-> n, id |-> i, judge |-> asked + 1]}
        /\ submits' = i /\ asked' = asked + 1
        /\ UNCHANGED <<table, events, now, skipped, ops>>

\* The source cannot be stored: run_undo_add_record.
SubmitFails(u) ==
    /\ MaySubmit(u) /\ used < MaxLog
    /\ Forget({u})
    /\ UNCHANGED <<log, table, hash, file, replies, events, now, counts>>

-----------------------------------------------------------------------------
(* Requests of judges                                                      *)

Submitted == {n \in Numbers : runs[n].id # 0}

ByJudge == ops < MaxOps /\ ops' = ops + 1

Rejudge(n) ==
    /\ ByJudge
    /\ runs' = [runs EXCEPT ![n].status = "RUNNING", ![n].judge = asked + 1]
    /\ replies' = replies \cup {Asked(n)}
    /\ asked' = asked + 1
    /\ UNCHANGED <<used, table, list, hash, file, events, now, submits, skipped>>

Skip(n) ==
    /\ ByJudge
    /\ runs' = [runs EXCEPT ![n].status = "SKIPPED"]
    /\ skipped' = skipped \cup {runs[n].id}
    /\ UNCHANGED <<used, table, list, hash, file, replies, events, now, submits,
                   asked>>

\* Mutant: also when it is not the last one.
Mut_UsedWithout(n) == used - 1

\* clear_entry_func: the last record is cut off.
UsedWithout(n) == IF n = used THEN used - 1 ELSE used

\* Mutant: the user table keeps the time of the stop.
Mut_StopWithout(n) == stop

StopWithout(n) ==
    IF runs[n].status = "VSTOP" THEN [stop EXCEPT ![runs[n].user] = 0] ELSE stop

\* run_clear_entry, with what priv_clear_run removes.  Starts are not cleared.
Clear(n) ==
    /\ ByJudge
    /\ runs[n].status # "VSTART"
    /\ runs[n].status = "VSTOP" => Room(1)
    /\ runs' = [runs EXCEPT ![n] = Empty]
    /\ used' = UsedWithout(n)
    /\ stop' = StopWithout(n)
    /\ Forget({runs[n].user})
    /\ file' = IF UuidStore THEN file ELSE [file EXCEPT ![n] = 0]
    /\ UNCHANGED <<start, hash, replies, events, now, submits, asked, skipped>>

-----------------------------------------------------------------------------
(* Replies, time, loads                                                    *)

\* The number of the run a reply is about, 0 if there is none.
Target(p) ==
    IF ~UuidStore THEN p.num
    ELSE IF hash[p.id] # 0 /\ runs[hash[p.id]].id = p.id THEN hash[p.id] ELSE 0

Awaited(p) ==
    /\ Target(p) \in 1 .. used
    /\ runs[Target(p)].status = "RUNNING" /\ runs[Target(p)].judge = p.judge

ReadReply(p) ==
    /\ replies' = replies \ {p}
    /\ runs' = IF Awaited(p)
               THEN [runs EXCEPT ![Target(p)].status = "OK",
                                 ![Target(p)].judge = 0]
               ELSE runs
    /\ UNCHANGED <<used, table, list, hash, file, events, now, counts>>

Tick ==
    /\ \E t \in Clock : t > now
    /\ now' = Least({t \in Clock : t > now})
    /\ UNCHANGED <<log, table, list, hash, file, replies, events, counts>>

Handle == \E e \in events : HandleStop(e) \/ HandleJudge(e)

\* ns_check_contest_events goes before every request and every reply.
Request ==
    /\ Due = {}
    /\ \/ \E u \in Users :
             \/ View(u) \/ VirtualStart(u) \/ ForceStart(u)
             \/ VirtualStop(u) \/ Submit(u) \/ SubmitFails(u)
       \/ \E n \in Submitted : Rejudge(n) \/ Skip(n)
       \/ \E n \in Present : Clear(n)
       \/ \E p \in replies : ReadReply(p)

Next ==
    \/ Handle
    \/ Request
    \/ Tick
    \/ Restart

Spec == Init /\ [][Next]_vars

-----------------------------------------------------------------------------
(* Properties                                                              *)

(***************************************************************************)
(* The list of each user that is taken for valid leads to no record of     *)
(* another user, and to all of his own except submits that were skipped    *)
(* once (get_user_entry, run_add_record, run_clear_index).                 *)
(***************************************************************************)
ListsFollowLog ==
    \A u \in Users : list[u] # None =>
        /\ \A n \in list[u] : runs[n].status # "EMPTY" => runs[n].user = u
        /\ \A n \in Own(u) : runs[n].id \notin skipped => n \in list[u]

(***************************************************************************)
(* The source of each submit is in the archive under the number the submit *)
(* has now (serve_move_files_to_insert_run).                               *)
(***************************************************************************)
FilesFollowLog ==
    ~UuidStore => \A n \in Submitted : file[n] = runs[n].id

(***************************************************************************)
(* A run that waits for a reply will get one: some reply under way finds   *)
(* it and is not dropped (serve_read_run_packet).                          *)
(***************************************************************************)
RunningIsAnswered ==
    \A n \in Submitted : runs[n].status = "RUNNING" =>
        \E p \in replies : Awaited(p) /\ Target(p) = n /\ p.id = runs[n].id

(***************************************************************************)
(* The end of a participant's time is never forgotten: its event leaves    *)
(* the queue only when the user table has a stop.  The record of a late    *)
(* stop can be refused because of runs under way, so it has to wait for    *)
(* all of them (handle_virtual_stop_event, get_insert_run_id).             *)
(***************************************************************************)
StopsAreKept ==
    [][\A e \in events : e.type = "stop" /\ e \notin events'
          => stop'[e.user] # 0]_vars

(***************************************************************************)
(* When the contest is loaded, serve_collect_virtual_stop_events finds     *)
(* nothing to clear or to hide: whatever was handled late, each user's     *)
(* records are a start, submits in his time, and at most one stop.         *)
(***************************************************************************)
NothingToRepair ==
    \A u \in Users : \A n \in Own(u) :
        /\ \E s \in Own(u) :
              /\ s <= n /\ runs[s].status = "VSTART"
              /\ runs[n].time <= runs[s].time + Duration
        /\ runs[n].status = "VSTART" => \A m \in Own(u) : m >= n
        /\ runs[n].status = "VSTOP" => \A m \in Own(u) : m <= n

(***************************************************************************)
(* The times kept for each user are those of his records; only an end that *)
(* was seen before its event was handled has no record.                    *)
(***************************************************************************)
TimesOfLog ==
    \A u \in Users :
        /\ start[u] # 0 <=> \E n \in Own(u) :
              runs[n].status = "VSTART" /\ runs[n].time = start[u]
        /\ \A n \in Own(u) : runs[n].status = "VSTOP" => runs[n].time = stop[u]
        /\ stop[u] # 0 =>
              \/ stop[u] = start[u] + Duration
              \/ \E n \in Own(u) : runs[n].status = "VSTOP"

Begun(u) == {n \in Own(u) : runs[n].status = "VSTART"}

(***************************************************************************)
(* A participant is judged when all his submits have their first results   *)
(* (handle_judge_olympiad_event), except those that were skipped once.     *)
(***************************************************************************)
JudgedAfterReplies ==
    [][\A u \in Users : \A n \in Begun(u) :
          (\E m \in Numbers : /\ runs'[m].user = u /\ runs'[m].judge = 1
                              /\ runs'[m].status = "VSTART")
          /\ runs[n].judge = 0
          => \A m \in Own(u) : runs[m].status = "RUNNING"
                => runs[m].id \in skipped]_vars
=============================================================================

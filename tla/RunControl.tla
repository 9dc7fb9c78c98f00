----------------------------- MODULE RunControl -----------------------------
(***************************************************************************)
(* How super-serve runs one testing server (run -S) for each contest that  *)
(* needs it: do_loop, start_run, handle_inotify_read, contest_mngmt_cmd,   *)
(* release_contest_resources and release_resources of super-serve.c.       *)
(*                                                                         *)
(* A testing server is started when a packet appears in the queue of its   *)
(* contest, and exits when it was idle for a while.  super-serve learns of *)
(* packets from inotify, of exits from SIGCHLD, and looks into the queues  *)
(* from time to time because it may miss both.                             *)
(*                                                                         *)
(* Signals are blocked except during poll, so that a pass of the loop is   *)
(* Top, Poll with all that follows from what it saw, and the commands of   *)
(* the administrators.                                                     *)
(***************************************************************************)
EXTENDS Naturals, FiniteSets

CONSTANTS
    Contests,     \* those with run_used
    Pids,
    None,
    Suspend,      \* SUSPEND_TIMEOUT, in ticks
    Interval,     \* SPOOL_DIR_CHECK_INTERVAL, in ticks
    MaxPackets,   \* bound: packets written to a queue
    MaxFaults,    \* bound: failures of fork and early deaths of servers
    MaxCommands   \* bound: commands about a contest

ASSUME RunControlAssumption ==
    /\ None \notin Pids /\ None \notin Contests /\ IsFiniteSet(Contests)
    /\ Suspend \in Nat /\ Interval \in Nat
    /\ MaxPackets \in Nat /\ MaxFaults \in Nat /\ MaxCommands \in Nat

VARIABLES
    phase,        \* where the main loop of super-serve is
    victim,       \* the contest whose release it waits in
    pid,          \* run_pid
    flag,         \* contests with dnotify_flag
    suspended,    \* contests with run_suspended
    left,         \* time to run_suspend_end
    fresh,        \* contests with run_last_start in the current second
    watch,        \* run_inotify_fd is open
    events,       \* contests with unread inotify events
    since,        \* time since last_scan_time
    term,         \* SIGTERM, SIGHUP, or a command to stop or restart
    chld,         \* SIGCHLD is pending
    stat,         \* what the processes do
    of,           \* the contest each process tests for
    queue,        \* packets in the run queue of each contest
    written, faults, commands,
    missed        \* contests with packets whose event was lost

own == <<pid, flag, suspended, left, fresh>>
procs == <<stat, of, chld>>
counts == <<written, faults, commands>>
vars == <<phase, victim, own, watch, events, since, term, procs, queue,
          counts, missed>>

Phases == {"top", "poll", "commands", "release", "stop", "ended"}

\* "begun": forked, and execve is still to come.  "leaving": it takes no
\* more packets.
ProcStates == {"free", "begun", "at work", "leaving", "zombie"}

TypeOK ==
    /\ phase \in Phases /\ victim \in Contests \cup {None}
    /\ pid \in [Contests -> Pids \cup {None}]
    /\ flag \subseteq Contests /\ suspended \subseteq Contests
    /\ left \in [Contests -> 0 .. Suspend + 1]
    /\ fresh \subseteq Contests
    /\ watch \in BOOLEAN /\ events \subseteq Contests
    /\ since \in 0 .. Interval + 1
    /\ term \in BOOLEAN /\ chld \in BOOLEAN
    /\ stat \in [Pids -> ProcStates] /\ of \in [Pids -> Contests \cup {None}]
    /\ queue \in [Contests -> 0 .. MaxPackets]
    /\ written \in 0 .. MaxPackets /\ faults \in 0 .. MaxFaults
    /\ commands \in 0 .. MaxCommands
    /\ missed \subseteq Contests

Init ==
    /\ phase = "top" /\ victim = None
    /\ pid = [c \in Contests |-> None]
    /\ flag = {} /\ suspended = {} /\ fresh = {}
    /\ left = [c \in Contests |-> 0]
    /\ watch = FALSE /\ events = {}
    /\ since = Interval + 1
    /\ term = FALSE /\ chld = FALSE
    /\ stat = [p \in Pids |-> "free"] /\ of = [p \in Pids |-> None]
    /\ queue = [c \in Contests |-> 0]
    /\ written = 0 /\ faults = 0 /\ commands = 0
    /\ missed = {}

\* get_number_of_files(run_queue_dir) > 0
Waiting == {c \in Contests : queue[c] > 0}

Idle == {c \in Contests : pid[c] = None}

-----------------------------------------------------------------------------
(* Processes.  A SIGTERM before execve is caught by the handler that the   *)
(* child has inherited, and lost.                                          *)

Kill(cs) ==
    stat' = [p \in Pids |-> IF stat[p] = "at work" /\ \E c \in cs : pid[c] = p
                            THEN "leaving" ELSE stat[p]]

Zombies == {p \in Pids : stat[p] = "zombie"}

\* Mutant: one call of wait4 for one SIGCHLD.
Mut_Gone == IF chld /\ Zombies # {} THEN {CHOOSE p \in Zombies : TRUE} ELSE {}

\* What wait4 finds: it is called when SIGCHLD came, until there is no more.
Gone == IF chld THEN Zombies ELSE {}

Ended == {c \in Contests : pid[c] \in Gone}

\* Mutant: 0 for no process, as fork has it.
Mut_PidAfter == [c \in Contests |-> IF c \in Ended THEN 0 ELSE pid[c]]

PidAfter == [c \in Contests |-> IF c \in Ended THEN None ELSE pid[c]]

StatAfter == [p \in Pids |-> IF p \in Gone THEN "free" ELSE stat[p]]

-----------------------------------------------------------------------------
(* A pass of do_loop                                                       *)

Resumed == {c \in suspended : pid[c] = None /\ left[c] = 0}

\* Mutant: the queues are looked at once, when the program starts.
Mut_Scanned == IF since > Interval /\ written = 0 THEN Waiting ELSE {}

Scanned ==
    IF since > Interval
    THEN (Waiting \cap Idle) \ (suspended \ Resumed) ELSE {}

\* The end of suspensions, and the scan of the queues.
Top ==
    /\ phase = "top" /\ ~term
    /\ phase' = "poll"
    /\ watch' = TRUE
    /\ suspended' = suspended \ Resumed
    /\ flag' = flag \cup Scanned
    /\ missed' = missed \ Scanned
    /\ since' = IF since > Interval THEN 0 ELSE since
    /\ UNCHANGED <<victim, pid, left, fresh, events, term, procs, queue, counts>>

\* Mutant: the queue is not looked at.
Mut_FlagAfter == flag \ Ended

\* The queue is looked at when a server has ended.
FlagAfter == (flag \ Ended) \cup (Ended \cap Waiting)

\* poll was interrupted by the signal to stop.
PollTerm ==
    /\ phase = "poll" /\ term
    /\ phase' = "top"
    /\ pid' = PidAfter /\ flag' = FlagAfter /\ stat' = StatAfter
    /\ chld' = FALSE
    /\ UNCHANGED <<victim, suspended, left, fresh, watch, events, since, term,
                   of, queue, counts, missed>>

Startable == {c \in Contests : PidAfter[c] = None} \ suspended

\* Events of other contests are read and forgotten.
Noticed == FlagAfter \cup (events \cap Startable)

\* start_run for cs, with the results of fork; None if it fails.
Forked(cs) ==
    {new \in [cs -> {p \in Pids : StatAfter[p] = "free"} \cup {None}] :
        \A c, d \in cs : new[c] = new[d] /\ new[c] # None => c = d}

Poll ==
    LET wanted == Noticed \cap Startable
        hasty == wanted \cap fresh
        begun == wanted \ fresh
    IN  /\ phase = "poll" /\ ~term
        /\ phase' = "commands"
        /\ chld' = FALSE /\ events' = {}
        /\ flag' = Noticed \ begun
        /\ suspended' = suspended \cup hasty
        /\ left' = [c \in Contests |-> IF c \in hasty THEN Suspend + 1 ELSE left[c]]
        /\ fresh' = fresh \cup begun
        /\ \E new \in Forked(begun) :
              LET failed == {c \in begun : new[c] = None}
                  of1(p) == {c \in begun \ failed : new[c] = p}
              IN  /\ faults + Cardinality(failed) <= MaxFaults
                  /\ faults' = faults + Cardinality(failed)
                  /\ missed' = (missed \ (begun \cup Ended)) \cup failed
                  /\ pid' = [c \in Contests |->
                                IF c \in begun THEN new[c] ELSE PidAfter[c]]
                  /\ stat' = [p \in Pids |->
                                 IF of1(p) # {} THEN "begun" ELSE StatAfter[p]]
                  /\ of' = [p \in Pids |->
                               IF of1(p) # {} THEN CHOOSE c \in of1(p) : TRUE
                               ELSE of[p]]
        /\ UNCHANGED <<victim, watch, since, term, queue, written, commands>>

-----------------------------------------------------------------------------
(* Commands of administrators, at the end of a pass                        *)

\* Closing run_inotify_fd loses the events of all contests.
Unwatch ==
    /\ watch' = FALSE /\ events' = {}

Command ==
    /\ phase = "commands" /\ commands < MaxCommands
    /\ commands' = commands + 1

\* SSERV_CMD_RUN_MNG_TERM
MngTerm(c) ==
    /\ Command
    /\ Kill({c})
    /\ Unwatch
    /\ missed' = missed \cup events
    /\ UNCHANGED <<phase, victim, own, since, term, of, chld, queue, written, faults>>

\* SSERV_CMD_RUN_MNG_RESET_ERROR
ResetError(c) ==
    /\ Command
    /\ c \in suspended
    /\ left' = [left EXCEPT ![c] = 0]
    /\ Unwatch
    /\ missed' = missed \cup events
    /\ UNCHANGED <<phase, victim, pid, flag, suspended, fresh, since, term, procs,
                   queue, written, faults>>

\* SSERV_CMD_CONTEST_RESTART: release_contest_resources waits for the
\* server that it has killed ...
Restart(c) ==
    /\ Command
    /\ Kill({c})
    /\ phase' = "release" /\ victim' = c
    /\ UNCHANGED <<own, watch, events, since, term, of, chld, queue, written,
                   faults, missed>>

\* Mutant: it does not wait.
Mut_Finished(c) == TRUE

Finished(c) == \A p \in Pids : pid[c] = p => stat[p] = "zombie"

\* ... and acquire_contest_resources begins anew.
Reacquire ==
    /\ phase = "release" /\ Finished(victim)
    /\ phase' = "commands" /\ victim' = None
    /\ stat' = [p \in Pids |->
                   IF stat[p] = "zombie" /\ p = pid[victim] THEN "free" ELSE stat[p]]
    /\ pid' = [pid EXCEPT ![victim] = None]
    /\ flag' = (flag \ {victim}) \cup ({victim} \cap Waiting)
    /\ suspended' = suspended \ {victim} /\ fresh' = fresh \ {victim}
    /\ left' = [left EXCEPT ![victim] = 0]
    /\ Unwatch
    /\ missed' = (missed \cup events) \ {victim}
    /\ UNCHANGED <<since, term, of, chld, queue, counts>>

\* SSERV_CMD_STOP, SSERV_CMD_RESTART
StopCommand ==
    /\ phase = "commands" /\ term' = TRUE
    /\ UNCHANGED <<phase, victim, own, watch, events, since, procs, queue, counts,
                   missed>>

PassEnds ==
    /\ phase = "commands" /\ phase' = "top"
    /\ UNCHANGED <<victim, own, watch, events, since, term, procs, queue, counts,
                   missed>>

-----------------------------------------------------------------------------
(* release_resources                                                       *)

Break ==
    /\ phase = "top" /\ term
    /\ phase' = "stop"
    /\ Kill(Contests)
    /\ UNCHANGED <<victim, own, watch, events, since, term, of, chld, queue, counts,
                   missed>>

Reap ==
    /\ phase = "stop" /\ chld
    /\ pid' = PidAfter /\ stat' = StatAfter /\ chld' = FALSE
    /\ UNCHANGED <<phase, victim, flag, suspended, left, fresh, watch, events,
                   since, term, of, queue, counts, missed>>

NoChildren == \A c \in Contests : pid[c] = None

End ==
    /\ phase = "stop" /\ NoChildren
    /\ phase' = "ended"
    /\ UNCHANGED <<victim, own, watch, events, since, term, procs, queue, counts,
                   missed>>

-----------------------------------------------------------------------------
(* Testing servers: do_loop of run.c in managed mode                       *)

\* execve.  The SIGTERM that comes after it ends the program.
Exec(p) ==
    /\ stat[p] = "begun"
    /\ stat' = [stat EXCEPT ![p] = "at work"]
    /\ UNCHANGED <<phase, victim, own, watch, events, since, term, of, chld, queue,
                   counts, missed>>

Take(p) ==
    /\ stat[p] = "at work" /\ queue[of[p]] > 0
    /\ queue' = [queue EXCEPT ![of[p]] = @ - 1]
    /\ UNCHANGED <<phase, victim, own, watch, events, since, term, procs, counts,
                   missed>>

\* The last scan before the timeout finds nothing.
GoIdle(p) ==
    /\ stat[p] = "at work" /\ queue[of[p]] = 0
    /\ stat' = [stat EXCEPT ![p] = "leaving"]
    /\ UNCHANGED <<phase, victim, own, watch, events, since, term, of, chld, queue,
                   counts, missed>>

Exit(p) ==
    /\ stat[p] = "leaving"
    /\ stat' = [stat EXCEPT ![p] = "zombie"] /\ chld' = TRUE
    /\ UNCHANGED <<phase, victim, own, watch, events, since, term, of, queue, counts,
                   missed>>

\* It cannot be started, or dies at work.
Die(p) ==
    /\ stat[p] \in {"begun", "at work"}
    /\ faults < MaxFaults /\ faults' = faults + 1
    /\ stat' = [stat EXCEPT ![p] = "zombie"] /\ chld' = TRUE
    /\ UNCHANGED <<phase, victim, own, watch, events, since, term, of, queue,
                   written, commands, missed>>

-----------------------------------------------------------------------------
(* The outside                                                             *)

\* The contest server puts a packet into the queue.
Arrive(c) ==
    /\ written < MaxPackets /\ written' = written + 1
    /\ queue' = [queue EXCEPT ![c] = @ + 1]
    /\ events' = IF watch THEN events \cup {c} ELSE events
    /\ missed' = IF watch THEN missed ELSE missed \cup {c}
    /\ UNCHANGED <<phase, victim, own, watch, since, term, procs, faults, commands>>

Signal ==
    /\ term' = TRUE
    /\ UNCHANGED <<phase, victim, own, watch, events, since, procs, queue, counts,
                   missed>>

\* The next second begins.
Tick ==
    /\ fresh' = {}
    /\ left' = [c \in Contests |-> IF left[c] = 0 THEN 0 ELSE left[c] - 1]
    /\ since' = IF since > Interval THEN since ELSE since + 1
    /\ UNCHANGED <<phase, victim, pid, flag, suspended, watch, events, term, procs,
                   queue, counts, missed>>

Server ==
    \/ Top \/ Poll \/ PollTerm \/ Reacquire \/ PassEnds
    \/ Break \/ Reap \/ End

Process(p) == Exec(p) \/ Take(p) \/ GoIdle(p) \/ Exit(p)

Next ==
    \/ Server
    \/ StopCommand
    \/ \E c \in Contests : MngTerm(c) \/ ResetError(c) \/ Restart(c) \/ Arrive(c)
    \/ \E p \in Pids : Process(p) \/ Die(p)
    \/ Signal
    \/ Tick

Spec == Init /\ [][Next]_vars

\* The loop goes on, servers work, and time passes.
FairSpec ==
    /\ Spec
    /\ WF_vars(Server) /\ WF_vars(Tick)
    /\ \A p \in Pids : WF_vars(Process(p))

-----------------------------------------------------------------------------
(* Properties                                                              *)

(***************************************************************************)
(* Each child is the testing server of one contest that knows its pid, and *)
(* no contest has two: a signal by run_pid reaches the contest's own       *)
(* server, never a process that got the number later, and no child is left *)
(* over when the program ends (start_run, do_loop, release_resources).     *)
(***************************************************************************)
ChildrenKnown ==
    /\ \A p \in Pids : stat[p] # "free" => pid[of[p]] = p
    /\ \A c \in Contests : pid[c] # None =>
          stat[pid[c]] # "free" /\ of[pid[c]] = c
    /\ phase = "ended" => \A p \in Pids : stat[p] = "free"

(***************************************************************************)
(* While a contest has packets and no server, something will start one     *)
(* without waiting for the scan of the queues: the flag is set, or an      *)
(* event is unread.  Exceptions are packets whose event was lost when      *)
(* inotify was closed for a command, and a fork that failed.  This covers  *)
(* the packet that comes when its server has decided to exit.              *)
(***************************************************************************)
PacketsNoticed ==
    phase \notin {"stop", "ended"} =>
        \A c \in (Waiting \cap Idle) \ missed : c \in flag \cup events

(***************************************************************************)
(* Packets are taken out of the queue, whatever events were lost, unless   *)
(* the program is told to stop (the scan every SPOOL_DIR_CHECK_INTERVAL    *)
(* seconds, the end of suspensions).                                       *)
(***************************************************************************)
PacketsTaken ==
    \A c \in Contests : queue[c] > 0 ~> (queue[c] = 0 \/ term)

(***************************************************************************)
(* The program ends when it is told to: it does not wait for a child that  *)
(* was reaped already, nor for ever for one whose SIGTERM was lost, also   *)
(* when it is told while it waits for the server of one contest.           *)
(***************************************************************************)
StopEnds == term ~> phase = "ended"
=============================================================================

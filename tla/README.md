# TLA+ models of ejudge

ejudge runs programming contests. Participants submit solutions; the contest
server (`new-server`) sends them to compile servers (`compile`) and testing
servers (`run`, `ej-super-run`), reads the answers, and keeps statuses, reports
and standings. The programs share no memory and hold no connection with each
other: packets are files that are renamed from directory to directory.

The modules here model that pipeline from the source, and three parts around it:
the run log of virtual contests with its archives and events, the connections of
the contest server, and the control of testing servers. TLC checks them on small
instances, and TLAPS proves most of the safety properties for all instances.

- [Inventory](#inventory)
- [Modules](#modules)
- [Runs](#runs)
- [Fairness](#fairness)
- [Proofs](#proofs)
- [Disagreements found](#disagreements-found)
- [What is not modelled](#what-is-not-modelled)
- [Plan](#plan)

## Inventory

### The judging pipeline

| Component | State it keeps | Operations | Hard behaviour |
|---|---|---|---|
| Spool directories (`unix/fileutl.c`) | `in/`, `dir/`, `out/` of each spool; ignore lists in the memory of each reader | `generic_write_file`, `scan_dir`, `generic_read_file`, `scan_dir_add_ignored` | several readers race for a name; writers and readers die between two renames; a name may be published twice |
| Judging (`serve_2.c`: `serve_compile_request`, `serve_run_request`, `serve_read_compile_packet`, `serve_read_run_packet`, `serve_rejudge_run`, `serve_report_check_failed`) | status and `judge_id` of each run in the run database, `compile_request_id` in memory, archived reports | submit, rejudge, read a reply, set a status by hand | rejudging while an earlier judging is under way; replies lost, late, or overwritten; death in the middle of a handler; contest unloaded and its counter reset |
| Compile server (`compile.c`) | the packet in its hands, files in the report directories | take, compile, copy the result, reply | death after taking a packet; a failed reply |
| Testing servers (`ej-super-run.c`, `run.c`, `run_common.c`) | the packet in hands, ignore list | take, put back, copy the executable, test, reply | several servers that test different problems on one queue |
| Testing queue tools (`serve_2.c`: `serve_testing_queue_*`) | names of packets and executables | lock, delete, change priority, for one packet or all | a judge works on the queue the servers are scanning; two files must be renamed together |
| Server loop and background jobs (`new_server_html.c`, `server_framework.c`, job functions of `serve_2.c`) | `extras[]` (loaded contests and their last access), job list | one pass of `ns_loop_callback`, load on access, expiry, forced reload, adding jobs | jobs live across passes and hold pointers to contests that expire; one batch of work shared by all |

Interaction: contest server to compile server, compile server to contest
server, contest server to testing server and back are four spools per server
pair, plus a report directory for the larger results. Replies and reports about
a run have the run's uuid as their file name, so that a newer one overwrites an
older one that was not read. Nothing is retried: a run whose packet is lost
stays COMPILING or RUNNING until a judge rejudges it.

What makes the pipeline correct: no packet is read twice or torn; a verdict
belongs to the latest request to judge the run, to the build made for it and to
the report shown; a run in a transient status is held by some file or server;
every judging ends; executables and packets keep the same name; background jobs
end and never use freed memory; replies of a loaded contest are read.

### Around the pipeline

| Component | State it keeps | Operations | Hard behaviour |
|---|---|---|---|
| Run database (`runlog.c`, `rldb_plugin_file.c`) and virtual contests (`serve_state.c`, `serve_2.c`) | `runs[]` ordered by time, the uuid table, lists and times of each user, archive files; a queue of stop and judge events | add, undo, clear, set a status, virtual start and stop, read a reply, handle events, load | a stop handled late goes into the middle of the log and moves later records, while archives, lists and packets know old numbers; events are rebuilt at each load |
| Connections (`server_framework.c`, `new-server.c`) and XML imports (`new_server_html.c`, `new_server_html_4.c`) | clients from credentials to the reply, their descriptors; `testing_suspended`, its saved value, the pending import | `nsf_main_loop`, passing descriptors, pages, `cmd_import_xml_runs`, `handle_pending_xml_import`, `ns_client_destroy_callback`, stop | disconnects in every state; descriptors handed from one client to another and their numbers reused; an import that waits while its client leaves or the server stops |
| Contest control (`super-serve.c`) | child, flags and suspension of each contest; inotify descriptor, pending signals | `do_loop`, `start_run`, `handle_inotify_read`, commands of administrators, release | events lost while inotify is closed; a packet that comes when its server decides to exit; SIGTERM racing `execve`; process numbers reused |

What makes them correct: every index agrees with the log after each insertion;
nobody's end is forgotten; a participant is judged after his replies; each
descriptor has one owner and each page reaches who asked; testing is suspended
when an import ends exactly as before it; each child has one contest and each
waiting packet gets a server.

### Other components

| Component | State and operations | Hard behaviour, and what would be correct |
|---|---|---|
| User list server (`userlist-server.c`, `uldb_plugin_xml.c`) | users, cookies, registrations, observers | cookie expiry, notifications to observers that disconnect |
| Job server (`job-server.c`) | its spool | sends mail; restarts |
| Clarifications (`clarlog.c`, `cldb_plugin_file.c`) | as the run database, append only | indices agree with the file |
| Start and stop times, per-user extra data, user cache, watched files, contest descriptions, private server database | caches of files | staleness |
| Standings (`html.c`), filters (`filter_*.c`) | none: computations | scoring rules |
| Web interface (`new_server_html_*.c`, `new-client.c`), MySQL back ends, NWRUN, archives, checkers, set-up tools | pages, SQL, paths, libraries | none that a model would show better than reading |

## Modules

```
PacketQueue  <-- refined by -- Spool          (MCSpool)         SpoolProofs
JudgeAbs     <-- refined by -- Judging        (MCJudging)       JudgingProofs
                               TestingQueue   (MCTestingQueue)  TestingQueueProofs
                               ServeLoop      (MCServeLoop)     ServeLoopProofs
                               RunLog         (MCRunLog)        RunLogProofs
                               Connections    (MCConnections)   ConnectionsProofs,
                                                                ConnectionsOwnersProofs
                               RunControl     (MCRunControl)    RunControlProofs
```

`Judging` and `TestingQueue` use spools as sets from which one process takes a
packet in one step. That is what `Spool` shows of the files: it implements
`PacketQueue`, whose `Take` hands a packet to one reader once. They are not
joined by INSTANCE, because the product with the file steps is beyond TLC and
nothing in the judging protocol looks into a spool.

### Spool and PacketQueue

Each system call on a spool is a step. `OpenIn`, `FillIn`, `FailWrite` and
`Publish` are `generic_write_file` with SAFE: create `in/<uniq>name`, write and
close it, or fail and unlink it, then rename it to `dir/name`. `Scan`
is `scan_dir`, `Grab`, `Miss`, `Refused`, `UnlinkRefused`, `ReadOut`, `FailRead`
and `Remove` are `generic_read_file` with SAFE and REMOVE: rename to
`out/<uniq>name`, with its three outcomes (success, ENOENT, any other error,
after which the code unlinks the name in `dir/`), then read and unlink.
`CrashWriter` and `CrashReader` kill a process between two steps; its files in
`in/` and `out/` stay and are never looked at, because `<uniq>` has the pid.

`inf`, `dir`, `outf` are the three directories. `chosen` is the local variable
`pkt_name` between `scan_dir` and the rename. `whole`, `claimed`, `got` and
`lost` observe only.

`PacketQueue` has waiting, taken and lost packets. A packet is taken when its
rename to `out/` succeeds, lost when it is overwritten or unlinked in `dir/`.

### Judging and JudgeAbs

One action per handler, with the steps of the compile and testing servers apart
where another process can get between. `Ask` is `serve_rejudge_run` or a submit
whose request succeeds: `judge_id` is taken from the counter, the packet is
queued, status and `judge_id` are stored. `AskFails`, `AskRefused` and
`AskIgnored` are the ways it fails, which differ in what is left behind.
`TakeCompile`, `Build`, `ReplyCompile` are the loop of `compile.c`; `TakeRun`,
`Test`, `ReplyRun` that of `ej-super-run.c`. `DropCompileReply`,
`CompileFailed`, `Accept`, `Forward`, `ForwardFails` are the branches of
`serve_read_compile_packet`, and `DropRunReply`, `Judge` those of
`serve_read_run_packet`; each reply file is removed before it is looked at.
`Reload` is `do_unload_contest` and the next load. `DieAsking`,
`DieReadingCompile` and `DieReadingRun` are deaths inside a handler, with a
disjunct for every place where something is half done. `LoseCompile` and
`LoseRun` are the death of a server, or its failure to write the reply.

`cfile` and `rfile` are the report directories; like the status spools `compst`
and `runst` they hold one file per run, the last one written. Judging requests
have a number (`n`, `cur`, `asked`) that the program does not have, so that the
properties can say which request a verdict comes from.

`JudgeAbs` says that a verdict is given for the latest request only, and once.

Output-only submits (`Direct`) go to the testing servers at once; submits of
problems with `disable_testing` (`CompileOnly`) end after compilation.

### TestingQueue

A packet's file name is its priority and its own name; the executable lies in
another directory under the same name. `place` says where the packet is,
`prio` and `exe` what the two files are called, `ign` is the ignore list each
server keeps in memory and `chosen` the name it is about to take. `Lock` to
`LoseLocked` are the judge's operations, in the steps in which they rename and
unlink files; they run in the contest server, which does one at a time (`op`).
The operations on all packets are repetitions of these, with names that may be
gone by then. `IgnoreOnMiss` tells the two servers apart: `run.c` goes on
scanning when a packet is gone, `ej-super-run.c` puts its name on the list.

### ServeLoop

`Pass` is one call of `ns_loop_callback`: the first job gets what is left of its
runs, up to a batch; the contests, in the order of their numbers, get what
is left of the batch; then expired contests are unloaded. `View`, `Submit`,
`Reload`, `AddJob` and `ShowJobs` are requests of clients, which come between
passes (`nsf_main_loop`) and load the contest if need be. `inc` counts loads, and
a job carries the count of the `serve_state` it points to: `Sound` says that
pointer and contest still agree. `PassWithStaleJob` is a pass with a job whose
pointer is to freed memory: any outcome, including death. Jobs of kind `bare`
are those created without a function table.

### RunLog

The log of a virtual contest: each participant has `Duration` from his own
start. `runs` and `used` are `runs[]` and `run_u`; a record is a start, a stop or
a submit. `Insert` is `run_virtual_start` or `run_virtual_stop` together with
`serve_move_files_to_insert_run`, which the callers run next: records at and after
`Position` move by one, with the archive files stored by number, and the lists
of the users whose files moved become invalid. `list` is the chain of `run_extras[]`
as the set of numbers met along it, `None` when `get_user_entry` has to make
it again. `start` and `stop` are the user table, `hash` the uuid table, `file`
the archive, `replies` what testing servers will answer.

`HandleStop` and `HandleJudge` are the handlers of the event queue, `Waits` the
conditions under which they leave an event there: a late stop while any run is
under way, a judging while a run of that participant is. `View`, `VirtualStart`,
`ForceStart`, `VirtualStop`, `Submit`, `SubmitFails`, `Rejudge`, `Skip`, `Clear` are
requests, which come when no event is due (`ns_check_contest_events`);
`ReadReply` reads one reply; `Restart` is unloading and
`serve_collect_virtual_stop_events` at the next load.

### Connections

A CGI program connects, sends credentials, passes two descriptors and makes
its request (`Script`). `Select`, `Read`, `ReadNothing`, `WriteReply`, `WritePage`,
`Command`, `Delete` and `PassEnds` are one pass of `nsf_main_loop` in its order:
select with watches and accept, input and output, commands, deletion of
clients, `ns_loop_callback`. `table` is the descriptor table of the process
(`accept` and `recvmsg` take the lowest free number), `rset` and `wset` the sets
select has filled, which keep a bit when a number is closed and reused in the
same pass. `PageOf` is `nsf_new_autoclose`: the output and the end of the pipe
go to a new client, the reply to the old one.

`ImportNow`, `ImportRefused` and `ImportWaits` are `cmd_import_xml_runs`;
`LoopImport` and `LoopAbandon` are `handle_pending_xml_import`, `DeleteMarked` the
callback of a client that leaves, `Stop` the unloading with
`serve_state_destroy` and a new process. `wish` (what judges asked for last),
`ordered`, `cut` and `imported` observe only.

### RunControl

`super-serve` runs one testing server for each contest that has packets. `Top` is
the end of suspensions and the scan of the queues, `Poll` what `poll` saw:
exits, events, and `start_run` for each contest with its flag set; a server that
was started in the current second suspends the contest instead. `MngTerm`,
`ResetError`, `Restart`, `Reacquire` and `StopCommand` are commands, `Break`, `Reap` and
`End` are `release_resources`. A process is forked (`begun`), executes (`Exec`,
before which a SIGTERM is lost), takes packets, decides to exit and exits; its
number is free only when it was reaped, and may be used again. `missed` observes
which packets nothing but the scan will find.

## Runs

| Run | Instance | Shows |
|---|---|---|
| `spool` | 2 writers, 2 readers, 3 packets, 2 of them with one name, 1 death | `NothingTorn`, `ClaimedOnce`, refinement of `PacketQueue`, `EveryPacketLeaves` |
| `judging` | one submit of each kind, one server of each kind, 3 requests, no faults | `VerdictOfOwnBuild`, `ReportOfVerdict`, `TransientIsHeld`, refinement of `JudgeAbs` |
| `judging_live` | the same, 2 requests | `EventuallyJudged` |
| `judging_faults` | 1 submit, 2 servers of each kind in any order, 3 requests, 1 loss or bad reply, 1 reload or death | `VerdictIsCurrent` |
| `judging_reload` | 1 submit, 2 requests, 1 reload or death of the contest server | violates `OlderResultsIgnored` |
| `testing_queue` | 2 packets, 2 servers of which one supports one packet, 3 priorities, 2 operations, 1 fault | `ExecutableBeside`, `StatusOfQueue`, `EveryPacketServed` |
| `testing_queue_ignore` | the same with `ej-super-run`, no operations, no faults | violates `EveryPacketServed` |
| `serve_loop` | 2 contests, 2 jobs of both kinds, 2 runs, 2 replies, 2 loads, batch 1 | `BegunJobSound`, `SoundJobEnds`, `ReplyRead` |
| `serve_loop_jobs` | jobs of two contests, no replies | violates `EveryJobEnds` |
| `run_log` | 2 participants, 2 submits, 4 times, 1 act of a judge or reload, olympiad rules, archives by number | `ListsFollowLog`, `FilesFollowLog`, `RunningIsAnswered`, `NothingToRepair`, `TimesOfLog`, `StopsAreKept`, `JudgedAfterReplies` |
| `run_control` | 2 contests, 2 process numbers, 2 packets, 1 fault, 2 commands, a stop at any time | `ChildrenKnown`, `PacketsNoticed`, `PacketsTaken`, `StopEnds` |
| `connections` | 2 CGI programs, 2 runs, 1 kill, restart or lost connection to userlist-server | `DescriptorsOwned`, `PageOfRequest`, `ImportOfClient`, `SuspensionRestored`, `HeldRunsJudged`, `NobodyForgotten` |

One run of each passing module also checks its `TypeOK`.

Why the bounds are enough. The races of `Spool` are between two processes over
one name; a second packet of that name (as two replies about one run are) can
arrive between any two steps of the others, and a third packet with a better
rank shows that nobody starves. In `Judging` three requests are the first
one, one that overtakes it and one after both; the mutants that drop the
comparison of `judge_id` or of the status are found with two. `JudgeMod = 4`
keeps `judge_id`s from repeating within three requests; that they repeat after
65535 is the assumption of the theorems below and not of the code. Runs do not
interact except through the servers and the counter, so the runs with faults
have one submit. With no faults and servers that take the oldest request
first (`InOrder`), `ReportOfVerdict` and `VerdictOfOwnBuild` hold; two servers
of one kind break them (disagreement 2), and that is why this run has one
server of each kind; the theorems below say what holds with more. In `TestingQueue` three priorities have both ends and a middle. In
`ServeLoop` one unit of `Tick` stands for 300 seconds (`Expire = 0`): only whether a
contest is expired matters. A batch of 1 instead of 10 with two runs and two
replies makes every job need a second pass, and makes one contest use up the
batch of the other.

In `RunLog` `Duration = 3` and the times 1, 3, 5, 6 let one participant start while the
other works (`LastStart = 3`), both end between two times at which something is
done, and a stop be handled after later submits, so that it moves them; six
records hold two of each kind. A second submit is needed for a moved one
beside one that is not. The order of numbers, not the size of times, decides all
branches. In `RunControl` `Suspend = 0` and `Interval = 1` are the shortest times
that still differ from "now"; two process numbers are one that is reused and one
that is not, and two commands are a loss of events followed by a restart. In
`Connections` two clients are what every hazard takes: one whose descriptors
close while the other's open, one import that waits and one that comes
meanwhile or gives orders. The length and the data of a packet are read in
one step, and the environment acts only while the server sleeps in select: what
happens during a pass is noticed by the next select.

Deadlock is not checked: with bounds on requests, packets, records and jobs each of
these systems comes to rest.

`TransientIsHeld` is deliberately not stated with faults: after a loss a transient
run is held by nothing, which is what it says cannot happen without one.

## Fairness

- `Spool`: weak fairness of each reader's loop. `do_loop` of the servers and
  `ns_loop_callback` scan without end, and a read that was begun ends. Writers
  need none.
- `Judging`: weak fairness of each server's loop and of reading each reply. The
  contest server reads the status directories of loaded contests in every
  pass, up to a batch, and what is read is removed, so that each file has its
  turn. This leaves out unloading, which `ServeLoop` covers: replies keep a
  loaded contest loaded; those of an unloaded contest wait for its next user.
- `TestingQueue`: weak fairness of the servers, of the handler a judge's
  operation has begun, and of reading replies.
- `ServeLoop`: weak fairness of `Pass`; `select` waits 10 seconds at most.
- `RunControl`: weak fairness of the loop of super-serve, of time, and of each
  process once it is forked: it executes, takes packets while there are any, and
  exits when idle, as `inactivity_timeout` is 120 seconds unless set otherwise.

`RunLog` and `Connections` have safety properties only. No fairness is assumed of
clients, judges, administrators, failures or, except in `RunControl`, the clock.

## Proofs

Each theorem holds for all values of the constants that the named assumptions of
its module allow. All invariants, action properties and refinements of the passing
runs are proved; what is only model-checked is named at the end of this section.

`SpoolProofs`: `SpoolTypes`, `NothingIsTorn`, `PacketsAreClaimedOnce`, and
`SpoolIsQueue`, which says `Spec => IsQueue`: the files of a spool implement
`PacketQueue`, step by step. None of these is inductive alone. `Places` says that a
packet is in one place at a time (a file in `in/`, a name in `dir/`, a reader's
hands), which the renames keep because each moves one file; `Hands` says that a
reader holds a file exactly while it reads, and no packet that was read before.

`JudgingProofs`:

- `TypeCorrect`: `Spec => []TypeOK`.
- `EarlierJudgingsIgnored`: `Spec => VerdictIsCurrent`, assuming
  `MaxRequests < JudgeMod`, that is, less than 65536 requests while replies are
  under way.
- `OlderIgnoredWhileLoaded`: `OlderResultsIgnored`, which the run `judging_reload`
  refutes, holds when there is no reload, under the same assumption.
- `JudgingImplementsJudgeAbs`: while the contest stays loaded, each step of
  `Judging` is a step or a stutter of `JudgeAbs`, under the same assumption.

`VerdictIsCurrent` is not inductive: nothing in it says where replies come
from. `IInv` adds, for every packet in a queue, in a server's hands and in a
reply spool (`QueuesGood`, `ServersGood`, `RepliesGood`), that its number and its
`judge_id` were given together (`judge = n - loadFrom`) if it was made since the
last load; that the stored `judge_id` of a run in a transient status is the one
of its latest request (`StoredId`); and how the counter stands to the number of
requests (`Counter`). So equal `judge_id`s of one load mean equal requests
(`MatchIsCurrent`), and the handlers that set a verdict compare them.

The rest of `JudgingProofs` is about the files of a run (executable, report,
reply), which are overwritten by whoever writes last. All of it assumes
`StaysLoaded`: less than `JudgeMod` requests and no reload, so that `judge_id`s
are unique (`RequestsKnown`).

- `TestedOwnBuild`: `VerdictOfOwnBuild` with one compile server and any number of
  testing servers, with all faults. `BuildsInTurn` orders the requests of a run by
  place: queue after server after reply and executable. One server that takes the
  oldest request keeps that order, so the executable that is found when a reply
  is accepted was built by the request the reply is about (`FileOfReply`), and it
  travels with the request from there (`OwnExe`).
- `ReportIsOfVerdict`: `ReportOfVerdict` with one server of each kind, with all faults.
  `TestsInTurn` is the same order for the testing server. It is kept because a run
  that waits for its compilation has a newer request than anything that is
  tested (`Unseen`).
- `TransientRunIsHeld`: `TransientIsHeld` with one server of each kind and no faults. By
  the two orders no reply about an older request can take the place of the
  awaited one (`NotOvertaken`).
- `OwnFilesOneAtATime`, `HeldOneAtATime`: the same three properties with any number of
  servers in any order, for behaviours in which no run is rejudged while a packet
  about it is anywhere (`OneAtATime`). `Alone` says that then a run has one
  packet at most. The code does not enforce this: `generally_rejudgable_runs`
  lets judges rejudge running runs. So disagreement 2 takes both a second server
  and such a rejudging.
- `JudgingGoesOn`, `JudgingGoesOnOneAtATime`: the safety half of `EventuallyJudged`, under the
  hypotheses of `TransientRunIsHeld` and of `HeldOneAtATime`. The awaited request is at one
  of eight stations (`OneStation`: queue, at work, done, reply; then the same for
  testing) and stays there or goes to the next one (`StationStep`). `NotInCompile` adds
  that a run that is tested has left nothing behind in the compile half.

`VerdictOfOwnBuild` with two compile servers, `ReportOfVerdict` with two testing
servers, and `TransientIsHeld` with two compile servers are refuted by TLC
without `OneAtATime`: these hypotheses are needed. These proofs also use that
`None` is no packet (`NoneAssumption`).

`TestingQueueProofs`: `TestingQueueTypes`, `ExecutablesAreBeside`,
`StatusFollowsQueue`. The strengthening `Held` carries the executable's name along
every place from which a packet may return to the queue (locked by a judge, held
by a server), and says that a server holds no packet but the one it chose. Three
more are not properties of a run but parts of `EveryPacketServed` and of the
disagreement that `testing_queue_ignore` shows:

- `SupportedIsNotIgnored`: a server of `run.c` (`~IgnoreOnMiss`) ignores no packet that it
  supports (`NotIgnored`), whoever else takes, moves or deletes packets.
- `AloneNothingIsIgnored`: nor does `ej-super-run`, if it is the only server, no judge
  touches the queue and nothing fails (`Undisturbed`): then the name it has chosen
  is still there when it takes it (`ChosenIsThere`).
- `NothingStaysLocked`: a packet is under its locked name, where no server looks,
  only while an operation on it is under way (`LockedIsOperated`).

`ServeLoopProofs`:

- `BegunJobKeepsContest`: `Spec => []BegunJobSound`. The strengthening is
  that only the first job of the list has begun (`OnlyFirstBegun`): when a job
  ends, the next one becomes the first without having run.
- `JobsOfOneContest`: if all jobs belong to one contest, no job ever loses it.
- `LoopTypes`: `Spec => []TypeOK`, for any finite set of contests. Its hard part is
  that a pass never takes more replies than there are nor more of a contest's
  than were written (`ReadBounded`), although what one contest gets depends on how
  many replies of the others come first: `Read` counts these (`Ahead`) as the
  cardinality of a finite set. `LoopInv` adds that a loaded contest was loaded at
  least once, that no contest has more replies than were written, and that no job
  stands past the end of the log it works through.
- `JobsAdvance`, `RepliesAreServed`: what one pass gets done, the safety halves of
  `SoundJobEnds` and `ReplyRead`. A pass with a sound job takes it a whole batch
  further or ends it at the end of the log (`JobStep`). A pass in which the job
  leaves something of the batch reads a reply of a contest that has one, and no
  contest with replies is unloaded (`ReplyStep`): the contest with the smallest
  number has nobody before it, so what is left of the batch is not zero there.

`RunLogProofs` proves all properties of `RunLog`, in layers:

- `RunLogTypes`, `FilesAreFollowed` and `StopsAreNotForgotten` from `KeptLog` and
  `KeptEvents`: a user has a start time exactly when he has a start record with
  that time, and his stop event lies `Duration` after it. A late stop waits until no run is
  under way, so `get_insert_run_id` cannot refuse it.
- `TimesAreOfLog` from `KeptStops`: at most one record of a stop for each user,
  and none while the table has no stop.
- `NothingIsToRepair` from `KeptOrder`: records are in order of time. `PositionSplits`
  says that `Position` divides the log into records not later and later, so an
  insertion keeps the order although it moves records.
- `RunningRunsAreAnswered` from `Answered`, `ListsAreFollowed` and `JudgedWhenAnswered`
  from `ListsKept`, all three assuming `~UuidStore`. The assumption is needed: with runs
  stored by uuid the code leaves the uuid table behind (disagreement 9).

`RunControlProofs`: `RunControlTypes`, `ChildrenAreKnown`, `PacketsAreNoticed`. `Bound` says that
a process not yet reaped works for a contest that knows it, which is what makes
reused numbers harmless; `Attended` adds that a suspended contest has no server
and keeps its flag, and so may have its events forgotten. `ZombiesAreReaped` says
that SIGCHLD is pending while there is a zombie (`Reapable`), although the signal has
one flag for all children. With it, `StopAwaitsChildren` is the safety half of
`StopEnds`: a stop begins no child, each child goes from birth to end and never back
(`StopStep`), and one that is still counted lives or has its signal pending
(`StopAwaits`).

`ConnectionsProofs`: `ImportsHaveClients`, `SuspensionIsRestored`, `HeldRunsAreJudged`. Each pass
rebuilds the list of clients; `Kept` says what all ways to do it leave (each
client but a page was there before, with its id and mark), and `Known` that no
two clients have one id and that a CGI program connects once. So the client with
the mark is the one the import waits for, and `Restorable`, the part about
testing, only has to follow `pending`.

`ConnectionsOwnersProofs`: `TypeCorrect`, `DescriptorsAreOwned`, `PagesAreOwn`,
`NobodyIsForgotten`, in layers over `Known`:

- `Owned`: a number is open for what its client says, each object is open at most
  once, and each open number has a client. `FreeNumber` counts: there are as many
  objects as numbers, so whoever opens one that is closed finds a free number
  (pigeonhole).
- `Stage`: what a client in each state has read of its request and holds. It is
  given its two descriptors once, with the third part, and has none when a reply
  is on its way; without that a second pair would leak the first.
- `Served`: `Promise` says that once a reply "ok" is on its way the page is on its
  way, written or cut off by a stop; `Fit` that a client with nothing to do has
  its reply. The page owns the end of the pipe (`Owned`), so a CGI program that
  sees the end has the page.
- `Typed`: the rest of `TypeOK`.

They assume that `None` is none of the objects and replies (`NoneAssumption`).

Only model-checked: liveness, which together with ENABLED is beyond the prover
(`EveryPacketLeaves`, `EventuallyJudged`, `EveryPacketServed`, `SoundJobEnds`, `ReplyRead`,
`PacketsTaken`, `StopEnds`). Every safety property that a run checks is proved, and of
`EventuallyJudged`, `SoundJobEnds`, `ReplyRead` and `StopEnds` the part that is safety: that no
step of the program leads back or is for nothing. That these steps are taken is fairness.

## Disagreements found

Those that begin with the name of a run are refuted by TLC there; the others are
places in the source met while modelling.

1. `judging_reload`. NEWS:2866-2881 promises that results of older judgings are
   ignored. `compile_request_id` starts again after the contest was unloaded
   (300 idle seconds) or its server restarted, so an older result may carry the
   `judge_id` of the newer request. `VerdictIsCurrent` states what does hold.
2. The same text is about newer results being lost. With two testing servers the
   older reply can overwrite the newer one in the status spool and is then
   dropped: the run stays RUNNING. `HeldOneAtATime` says this takes a rejudging
   while packets about the run are under way.
3. `testing_queue_ignore`. NEWS:1559-1564 says skipped requests stay available to
   other servers. `ej-super-run` ignores a name for good after losing a race for
   it, though the winner may put it back. `run.c` does not (`SupportedIsNotIgnored`).
4. "force reload" (`new_server_html.c:6573`) only dates the last access back; a
   waiting reply, a job or another request cancels it.
5. `serve_loop_jobs`. A job that waits does not keep its contest loaded; the
   server dereferences a null or freed pointer when its turn comes.
6. `serve_2.c:3464`, `3655`: jobs for rejudging by mask and by problem have no
   function table, and their run functions return wrong results.
7. `run.c:222`: `skip_testing` (NEWS:1556) is compiled out.
8. `runlog.c:491`: the loop that should move numbers in the uuid table compares
   them with its own index, which hides the number of the new record.
9. `runlog.c:1647`: `run_virtual_start` and `run_virtual_stop` insert records and leave
   the uuid table alone. With `UuidStore = TRUE` TLC refutes `RunningIsAnswered`.
10. `runlog.c:1590`: NEWS:202-206 promises full testing when the time expires. A page
    of the participant sets his stop time while the stop event waits for runs
    under way; the event then fails and no judging is queued. A judge event that
    waits when the contest is unloaded is not collected again.
11. `serve_2.c:831`: moving archive files looks at `store_flags` of the neighbour.
12. `runlog.c:1750`: clearing a participant's start asserts that there is no stop
    time, which a page may have set.
13. `super-serve.c:4293`: SIGTERM between fork and `execve` runs the inherited handler
    and is lost; the stop then waits until that server is idle.
14. `super-serve.c:4400`: `has_run_files` is never reset, and poll no longer waits.
15. `server_framework.c:626`: a bit of `rset` outlives the descriptor of the
    connection to userlist-server; a new client with its number is read
    too early and may be disconnected.
16. `new_server_html.c:428`: an order to suspend or resume testing during an import is
    overwritten when the import ends.
17. `new_server_html_4.c:1246`: the suspension for an import is stored, the value to
    restore is not; a crash leaves testing suspended.
18. `new-server.c:415`: the page "empty output generated" is freed before it is sent.
19. `server_framework.c:754`: a stop closes the page of a request that was already
    answered with success. `PageOfRequest` excepts it (`cut`).
20. `new-server.c:442`: the test of restart permissions is inverted.

## What is not modelled

Data that the protocols do not look at: file contents, limits, scores, test
results beyond what decides a branch. Of the contest server: built-in problems
(judged within one handler), `ignore_prev_ac`, style checks alone, olympiad
accepting mode, the checks of `min_txt_size`, mail and logs. Of the servers: the
QUIT packet, compiling and testing themselves, which are modelled by their
outcomes. Executables are assumed to have no suffix, as on the platforms where
several testing servers share a queue. `run.c` and `ej-super-run.c` differ in
`TestingQueue` only where the code does. In `TestingQueue` a packet is sent once:
rejudging is `Judging`'s subject. `ServeLoop` has no imports (they keep a contest
loaded while runs are transient).

- `RunLog`: real contests, hidden and imported runs, insertion of runs by a judge,
  contests with runs stored both ways, clearing a start, a clock that is set
  back, death inside a handler, and squeezing, which `serve_2.c:4093` disables.
  Olympiad runs are of one problem. A late stop waits as long as any run is under
  way, which other participants can prolong without end, so there is no liveness.
- `Connections`: malformed packets, commands of control programs, most requests
  (there is one of each kind of answer), a crash during an import, and the loops
  of userlist-server and super-serve, which are programs of their own. Orders
  during an import are forgotten by the code (disagreement 16); `wish` follows it.
  Liveness is left out: whether a CGI program reads is up to the web server.
- `RunControl`: web pages, background processes, execution anew after SIGHUP, changes
  of contest descriptions, and a failure of `inotify_add_watch`.

Components without a module are listed in the inventory, with their status in
`PROJECT.json`: the user list server (most of its commands are single updates of
its data base), clarifications (append only), caches of files, standings and
filters (computations over data that no protocol here reads), pages, SQL, and
set-up.

## Plan

Done: every module above with its run, and the proofs.

What is left, in the order of what it would add:

1. `UserList`: sessions, cookies and their expiry, observers that disconnect.
2. Several contests over one queue (`TestingQueue`), for deletion across contests.
3. Imports in `ServeLoop`, and `RunLog` with runs of real contests.
4. Clarifications, and scoring rules as operators over bounded run lists.

---------------------------- MODULE TestingQueue ----------------------------
(***************************************************************************)
(* The queue of the testing servers while judges work on it: run.c or      *)
(* ej-super-run.c scan the queue, put back what they do not test and       *)
(* remember its name in an ignore list (scan_dir_add_ignored); the contest *)
(* server deletes packets and changes their priorities (serve_2.c,         *)
(* testing_queue_lock_entry to serve_testing_queue_change_priority_all).   *)
(*                                                                         *)
(* The first character of a packet's file name is its priority, and the    *)
(* executable lies in another directory under the same name.  Every step   *)
(* is one rename or one unlink of a file; place says where the packet is:  *)
(* a rename has one winner, as module Spool shows.                         *)
(***************************************************************************)
EXTENDS Naturals, FiniteSets

CONSTANTS
    Packets,
    Servers,
    Supports,     \* packets that each server tests
    Rank,         \* order of packets that have the same priority
    MaxPrio,      \* the largest priority code, 31
    SendPrio,     \* the priority serve_packet_name gives
    IgnoreOnMiss, \* TRUE for ej-super-run.c, FALSE for run.c
    None,
    MaxOps,       \* bound: operations of judges
    MaxFaults     \* bound: deaths and failed file operations

ASSUME QueueAssumption ==
    /\ Supports \in [Servers -> SUBSET Packets]
    /\ Rank \in [Packets -> Nat]
    /\ \A p, q \in Packets : Rank[p] = Rank[q] => p = q
    /\ MaxPrio \in Nat /\ SendPrio \in 0 .. MaxPrio
    /\ IgnoreOnMiss \in BOOLEAN
    /\ MaxOps \in Nat /\ MaxFaults \in Nat
    /\ None \notin Packets \cup Servers \cup Nat \cup (Packets \X Nat)
    /\ None \notin {"delete", "up", "down", "look", "moved"}
    /\ {"none", "queue", "locked", "answered", "deleted", "lost"} \cap Servers = {}

VARIABLES
    place,        \* where each packet is
    prio,         \* the priority in the name of its file
    exe,          \* the priority in the name of its executable, or None
    chosen,       \* the file name each server got from scan_dir, or None
    ign,          \* the names each server ignores
    op,           \* what the contest server does with the packet it locked
    status,       \* run database: the status of the packet's run
    ops, faults

vars == <<place, prio, exe, chosen, ign, op, status, ops, faults>>
serverVars == <<chosen, ign>>
bounds == <<ops, faults>>

Prios == 0 .. MaxPrio
FileNames == Packets \X Prios
Ops == {"delete", "up", "down", "look"}

\* A packet is nowhere, in dir/, in out/ of a server, in out/ of the contest
\* server, answered, deleted by a judge, or in an out/ nobody looks at.
Places == {"none", "queue", "locked", "answered", "deleted", "lost"} \cup Servers

TypeOK ==
    /\ place \in [Packets -> Places]
    /\ prio \in [Packets -> Prios]
    /\ exe \in [Packets -> Prios \cup {None}]
    /\ chosen \in [Servers -> FileNames \cup {None}]
    /\ ign \in [Servers -> SUBSET FileNames]
    /\ op \in Ops \cup {"moved", None}
    /\ status \in [Packets -> {"none", "RUNNING", "PENDING", "judged"}]
    /\ ops \in 0 .. MaxOps
    /\ faults \in 0 .. MaxFaults

Init ==
    /\ place = [p \in Packets |-> "none"]
    /\ prio = [p \in Packets |-> SendPrio]
    /\ exe = [p \in Packets |-> None]
    /\ chosen = [s \in Servers |-> None]
    /\ ign = [s \in Servers |-> {}]
    /\ op = None
    /\ status = [p \in Packets |-> "none"]
    /\ ops = 0
    /\ faults = 0

Name(p) == <<p, prio[p]>>
Queue == {p \in Packets : place[p] = "queue"}
Listed == {Name(p) : p \in Queue}

Move(p, l) == place' = [place EXCEPT ![p] = l]

\* One of the failures that the bound allows.
Fault == faults < MaxFaults /\ faults' = faults + 1 /\ UNCHANGED ops

-----------------------------------------------------------------------------
(* serve_run_request: the executable, then the packet, then the status.    *)
(* The contest server does one thing at a time.                            *)
Send(p) ==
    /\ op = None /\ place[p] = "none"
    /\ Move(p, "queue")
    /\ exe' = [exe EXCEPT ![p] = prio[p]]
    /\ status' = [status EXCEPT ![p] = "RUNNING"]
    /\ UNCHANGED <<prio, serverVars, op, bounds>>

\* serve_read_run_packet.
ReadReply(p) ==
    /\ op = None /\ place[p] = "answered" /\ status[p] = "RUNNING"
    /\ status' = [status EXCEPT ![p] = "judged"]
    /\ UNCHANGED <<place, prio, exe, serverVars, op, bounds>>

-----------------------------------------------------------------------------
(* A testing server                                                        *)

Idle(s) == chosen[s] = None /\ \A p \in Packets : place[p] # s

\* A smaller priority code first, then the older name.
Better(p, q) ==
    \/ prio[p] < prio[q]
    \/ prio[p] = prio[q] /\ Rank[p] <= Rank[q]

\* scan_dir forgets ignored names that are not in the directory.
Scan(s) ==
    LET seen == {p \in Queue : Name(p) \notin ign[s]}
    IN  /\ Idle(s)
        /\ \E p \in seen :
              /\ \A q \in seen : Better(p, q)
              /\ chosen' = [chosen EXCEPT ![s] = Name(p)]
        /\ ign' = [ign EXCEPT ![s] = @ \cap Listed]
        /\ UNCHANGED <<place, prio, exe, op, status, bounds>>

\* The same when everything is ignored: the server sleeps.
ScanNothing(s) ==
    /\ Idle(s) /\ Listed \subseteq ign[s]
    /\ ign' = [ign EXCEPT ![s] = Listed]
    /\ UNCHANGED <<place, prio, exe, chosen, op, status, bounds>>

Take(s) ==
    /\ chosen[s] \in Listed
    /\ Move(chosen[s][1], s)
    /\ UNCHANGED <<prio, exe, serverVars, op, status, bounds>>

\* Mutant: a name that another server took first is ignored.
Mut_IgnoredAfterMiss(n) == {n}

IgnoredAfterMiss(n) == IF IgnoreOnMiss THEN {n} ELSE {}

\* The file has been taken or renamed meanwhile.
Miss(s) ==
    /\ chosen[s] \notin Listed \cup {None}
    /\ \A p \in Packets : place[p] # s
    /\ ign' = [ign EXCEPT ![s] = @ \cup IgnoredAfterMiss(chosen[s])]
    /\ chosen' = [chosen EXCEPT ![s] = None]
    /\ UNCHANGED <<place, prio, exe, op, status, bounds>>

\* The packet goes back under the same name, and is ignored from now on.
PutBack(s, p) ==
    /\ place[p] = s
    /\ Move(p, "queue")
    /\ ign' = [ign EXCEPT ![s] = @ \cup {chosen[s]}]
    /\ chosen' = [chosen EXCEPT ![s] = None]

PutBackOthers(s) ==
    \E p \in Packets \ Supports[s] :
        PutBack(s, p) /\ UNCHANGED <<prio, exe, op, status, bounds>>

\* The executable cannot be copied: ej-super-run puts the packet back, run
\* answers that the check failed.
CopyFails(s) ==
    \E p \in Supports[s] :
        /\ place[p] = s /\ Fault
        /\ IF IgnoreOnMiss THEN PutBack(s, p)
           ELSE /\ Move(p, "answered")
                /\ chosen' = [chosen EXCEPT ![s] = None]
                /\ UNCHANGED ign
        /\ UNCHANGED <<prio, exe, op, status>>

\* The executable is moved away, the tests are run, the reply is written.
Test(s) ==
    \E p \in Supports[s] :
        /\ place[p] = s
        /\ Move(p, "answered")
        /\ exe' = [exe EXCEPT ![p] = None]
        /\ chosen' = [chosen EXCEPT ![s] = None]
        /\ UNCHANGED <<prio, ign, op, status, bounds>>

\* The server dies, or cannot put the packet back; it is started again.
Die(s) ==
    /\ Fault
    /\ place' = [p \in Packets |-> IF place[p] = s THEN "lost" ELSE place[p]]
    /\ chosen' = [chosen EXCEPT ![s] = None]
    /\ ign' = [ign EXCEPT ![s] = {}]
    /\ UNCHANGED <<prio, exe, op, status>>

-----------------------------------------------------------------------------
(* The judge's operations in the contest server                            *)

\* testing_queue_lock_entry; "look" is a packet of a contest on which the
\* judge has no rights.  Names that are gone by now are skipped.
Lock(p, k) ==
    /\ op = None /\ ops < MaxOps /\ place[p] = "queue"
    /\ ops' = ops + 1
    /\ op' = k
    /\ Move(p, "locked")
    /\ UNCHANGED <<prio, exe, serverVars, status, faults>>

\* testing_queue_unlock_entry.
Unlock(p) ==
    /\ Move(p, "queue")
    /\ op' = None

\* Mutant: the run of a deleted packet is left in its status.
Mut_Delete(p) ==
    /\ op = "delete" /\ place[p] = "locked"
    /\ Move(p, "deleted")
    /\ exe' = [exe EXCEPT ![p] = None]
    /\ op' = None
    /\ UNCHANGED <<prio, serverVars, status, bounds>>

\* serve_testing_queue_delete: packet, executable, status.
Delete(p) ==
    /\ op = "delete" /\ place[p] = "locked"
    /\ Move(p, "deleted")
    /\ exe' = [exe EXCEPT ![p] = None]
    /\ status' = IF status[p] = "RUNNING"
                 THEN [status EXCEPT ![p] = "PENDING"] ELSE status
    /\ op' = None
    /\ UNCHANGED <<prio, serverVars, bounds>>

\* Mutant: get_priority_code does not limit the code.
Mut_Shifted(p) == IF op = "down" THEN prio[p] + 1
                  ELSE IF prio[p] = 0 THEN 0 ELSE prio[p] - 1

\* get_priority_code(get_priority_value + adjustment), by one.
Shifted(p) ==
    IF op = "down" THEN IF prio[p] = MaxPrio THEN MaxPrio ELSE prio[p] + 1
    ELSE IF prio[p] = 0 THEN 0 ELSE prio[p] - 1

\* Nothing to change, or nothing allowed: back under the same name.
UnlockSame(p) ==
    /\ place[p] = "locked"
    /\ \/ op = "look"
       \/ op \in {"up", "down"} /\ Shifted(p) = prio[p]
    /\ Unlock(p)
    /\ UNCHANGED <<prio, exe, serverVars, status, bounds>>

\* Mutant: the executable keeps its name.
Mut_MoveExe(p) ==
    /\ op \in {"up", "down"} /\ place[p] = "locked" /\ Shifted(p) # prio[p]
    /\ prio' = [prio EXCEPT ![p] = Shifted(p)]
    /\ op' = "moved"
    /\ UNCHANGED <<place, exe, serverVars, status, bounds>>

\* The executable gets its new name first ...
MoveExe(p) ==
    /\ op \in {"up", "down"} /\ place[p] = "locked" /\ Shifted(p) # prio[p]
    /\ exe[p] # None
    /\ exe' = [exe EXCEPT ![p] = Shifted(p)]
    /\ prio' = [prio EXCEPT ![p] = Shifted(p)]
    /\ op' = "moved"
    /\ UNCHANGED <<place, serverVars, status, bounds>>

\* ... then the packet.
UnlockMoved(p) ==
    /\ op = "moved" /\ place[p] = "locked"
    /\ Unlock(p)
    /\ UNCHANGED <<prio, exe, serverVars, status, bounds>>

\* The executable cannot be renamed.
MoveFails(p) ==
    /\ op \in {"up", "down"} /\ place[p] = "locked" /\ Shifted(p) # prio[p]
    /\ Fault
    /\ Unlock(p)
    /\ UNCHANGED <<prio, exe, serverVars, status>>

\* The packet cannot be read, or the contest server dies.
LoseLocked(p) ==
    /\ place[p] = "locked" /\ Fault
    /\ Move(p, "lost")
    /\ op' = None
    /\ UNCHANGED <<prio, exe, serverVars, status>>

-----------------------------------------------------------------------------
Serving(s) ==
    Scan(s) \/ ScanNothing(s) \/ Take(s) \/ Miss(s) \/ PutBackOthers(s)
    \/ Test(s)

Operating(p) == Delete(p) \/ UnlockSame(p) \/ MoveExe(p) \/ UnlockMoved(p)

Next ==
    \/ \E p \in Packets :
          \/ Send(p) \/ ReadReply(p)
          \/ \E k \in Ops : Lock(p, k)
          \/ Operating(p) \/ MoveFails(p) \/ LoseLocked(p)
    \/ \E s \in Servers : Serving(s) \/ CopyFails(s) \/ Die(s)

Spec == Init /\ [][Next]_vars

(***************************************************************************)
(* The servers scan in endless loops, the contest server finishes the      *)
(* handler it is in and reads the replies.                                 *)
(***************************************************************************)
FairSpec ==
    /\ Spec
    /\ \A s \in Servers : WF_vars(Serving(s))
    /\ \A p \in Packets : WF_vars(Operating(p)) /\ WF_vars(ReadReply(p))

-----------------------------------------------------------------------------
(***************************************************************************)
(* A packet that a server can take has its executable under its own name,  *)
(* however often a judge changes the priority and whatever fails.          *)
(***************************************************************************)
ExecutableBeside == \A p \in Queue : exe[p] = prio[p]

(***************************************************************************)
(* The status of a run follows its packet: RUNNING while the packet waits, *)
(* is worked on, is answered or was lost in a failure; PENDING only after  *)
(* a judge deleted it, never while a server may still answer.              *)
(***************************************************************************)
StatusOfQueue ==
    \A p \in Packets :
        /\ status[p] = "RUNNING" => place[p] \notin {"none", "deleted"}
        /\ status[p] = "PENDING" <=> place[p] = "deleted"

(***************************************************************************)
(* NEWS:1559-1564: a request that one server skips is available to the     *)
(* other servers, so it is tested by a server that supports it.            *)
(***************************************************************************)
Supported(p) == \E s \in Servers : p \in Supports[s]

EveryPacketServed ==
    \A p \in Packets :
        status[p] = "RUNNING" /\ Supported(p)
            ~> status[p] # "RUNNING" \/ place[p] = "lost"
=============================================================================

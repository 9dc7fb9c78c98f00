-------------------------------- MODULE Spool --------------------------------
(***************************************************************************)
(* The spool directory: the only channel between the contest server, the   *)
(* compile servers and the testing servers (src/unix/fileutl.c).           *)
(*                                                                         *)
(* A spool is a directory with three subdirectories.  A writer creates     *)
(* in/<uniq>name, fills it, and renames it to dir/name.  A reader scans    *)
(* dir/, renames the file it chose to out/<uniq>name, reads it there and   *)
(* unlinks it.  <uniq> is made of the pid and the host name, so the files  *)
(* of in/ and out/ belong to one process: they are functions of the        *)
(* process here.  Every system call is a step; any number of processes     *)
(* write, scan and read the same spool, and any of them may die.           *)
(***************************************************************************)
EXTENDS Naturals, FiniteSets

CONSTANTS
    Writers,     \* processes that put packets into the spool
    Readers,     \* processes that scan it
    Packets,     \* packet contents
    Names,       \* file names
    NameOf,      \* the file name under which a packet is written
    Rank,        \* scan_dir's order: the priority bucket, then strcmp
    None,        \* no file, no packet, no name
    MaxCrashes   \* bound: how many processes may die

ASSUME NamesAssumption ==
    /\ None \notin Packets
    /\ None \notin Names
    /\ NameOf \in [Packets -> Names]
    /\ MaxCrashes \in Nat

ASSUME RankAssumption ==
    /\ Rank \in [Names -> Nat]
    /\ \A m, n \in Names : Rank[m] = Rank[n] => m = n

VARIABLES
    inf,         \* in/<uniq>name of each writer: the packet, or None
    full,        \* is the file in in/ completely written and closed?
    dir,         \* dir/: the packet under each name, or None
    whole,       \* names under which the file in dir/ is complete
    chosen,      \* the name scan_dir returned to each reader, or None
    outf,        \* out/<uniq>name of each reader: the packet, or None
    stage,       \* where each reader is in generic_read_file
    claimed,     \* packets some reader has renamed to out/
    got,         \* packets whose contents were returned to a reader
    lost,        \* packets that left dir/ without a reader claiming them
    crashes      \* deaths so far

wvars == <<inf, full>>
rvars == <<chosen, outf, stage>>
vars == <<wvars, dir, whole, rvars, claimed, got, lost, crashes>>

Present == {n \in Names : dir[n] # None}

\* Packets in a file of in/, and in a file of dir/.
InIn == {inf[w] : w \in Writers} \ {None}
InDir == {dir[n] : n \in Present}

\* Where a packet may have got to.
Used == InIn \cup InDir \cup claimed \cup lost

TypeOK ==
    /\ inf \in [Writers -> Packets \cup {None}]
    /\ full \in [Writers -> BOOLEAN]
    /\ dir \in [Names -> Packets \cup {None}]
    /\ whole \subseteq Names
    /\ chosen \in [Readers -> Names \cup {None}]
    /\ outf \in [Readers -> Packets \cup {None}]
    /\ stage \in [Readers -> {"idle", "refused", "reading", "removing"}]
    /\ claimed \subseteq Packets
    /\ got \subseteq Packets
    /\ lost \subseteq Packets
    /\ crashes \in 0 .. MaxCrashes

Init ==
    /\ inf = [w \in Writers |-> None]
    /\ full = [w \in Writers |-> FALSE]
    /\ dir = [n \in Names |-> None]
    /\ whole = {}
    /\ chosen = [r \in Readers |-> None]
    /\ outf = [r \in Readers |-> None]
    /\ stage = [r \in Readers |-> "idle"]
    /\ claimed = {}
    /\ got = {}
    /\ lost = {}
    /\ crashes = 0

-----------------------------------------------------------------------------
(* generic_write_file with SAFE *)

\* do_write_file opens in/<uniq>name.
OpenIn(w, x) ==
    /\ inf[w] = None
    /\ x \notin Used
    /\ inf' = [inf EXCEPT ![w] = x]
    /\ full' = [full EXCEPT ![w] = FALSE]
    /\ UNCHANGED <<dir, whole, rvars, claimed, got, lost, crashes>>

\* The write loop ends and the descriptor is closed.
FillIn(w) ==
    /\ inf[w] # None /\ ~full[w]
    /\ full' = [full EXCEPT ![w] = TRUE]
    /\ UNCHANGED <<inf, dir, whole, rvars, claimed, got, lost, crashes>>

\* A write error or a failed rename: the file is unlinked, the caller told.
FailWrite(w) ==
    /\ inf[w] # None
    /\ inf' = [inf EXCEPT ![w] = None]
    /\ UNCHANGED <<full, dir, whole, rvars, claimed, got, lost, crashes>>

\* Mutant: the result of the write loop is not looked at before the rename.
Mut_Written(w) == inf[w] # None

\* do_write_file returned success: only then is the file renamed.
Written(w) == inf[w] # None /\ full[w]

\* rename in/<uniq>name -> dir/name, over whatever has that name.
Publish(w) ==
    LET n == NameOf[inf[w]]
    IN  /\ Written(w)
        /\ dir' = [dir EXCEPT ![n] = inf[w]]
        /\ whole' = IF full[w] THEN whole \cup {n} ELSE whole \ {n}
        /\ lost' = lost \cup ({dir[n]} \ {None})
        /\ inf' = [inf EXCEPT ![w] = None]
        /\ UNCHANGED <<full, rvars, claimed, got, crashes>>

-----------------------------------------------------------------------------
(* scan_dir, then generic_read_file with SAFE | REMOVE *)

\* The best-ranked name of dir/; with an empty dir/ the caller sleeps.
Best(n) == n \in Present /\ \A m \in Present : Rank[n] <= Rank[m]

Scan(r) ==
    /\ stage[r] = "idle" /\ chosen[r] = None
    /\ \E n \in Names :
          /\ Best(n)
          /\ chosen' = [chosen EXCEPT ![r] = n]
    /\ UNCHANGED <<wvars, dir, whole, outf, stage, claimed, got, lost, crashes>>

\* Mutant: the file is linked to out/ and stays in dir/.
Mut_Grab(r) ==
    LET n == chosen[r]
    IN  /\ stage[r] = "idle" /\ n \in Present
        /\ outf' = [outf EXCEPT ![r] = dir[n]]
        /\ claimed' = claimed \cup {dir[n]}
        /\ chosen' = [chosen EXCEPT ![r] = None]
        /\ stage' = [stage EXCEPT ![r] = "reading"]
        /\ UNCHANGED <<wvars, dir, whole, got, lost, crashes>>

\* rename dir/name -> out/<uniq>name.
Grab(r) ==
    LET n == chosen[r]
    IN  /\ stage[r] = "idle" /\ n \in Present
        /\ outf' = [outf EXCEPT ![r] = dir[n]]
        /\ claimed' = claimed \cup {dir[n]}
        /\ dir' = [dir EXCEPT ![n] = None]
        /\ chosen' = [chosen EXCEPT ![r] = None]
        /\ stage' = [stage EXCEPT ![r] = "reading"]
        /\ UNCHANGED <<wvars, whole, got, lost, crashes>>

\* Mutant: ENOENT is not told apart from success.
Mut_Miss(r) ==
    /\ stage[r] = "idle" /\ chosen[r] \in Names \ Present
    /\ chosen' = [chosen EXCEPT ![r] = None]
    /\ stage' = [stage EXCEPT ![r] = "reading"]
    /\ UNCHANGED <<wvars, dir, whole, outf, claimed, got, lost, crashes>>

\* The rename fails with ENOENT, as another reader was first: result 0.
Miss(r) ==
    /\ stage[r] = "idle" /\ chosen[r] \in Names \ Present
    /\ chosen' = [chosen EXCEPT ![r] = None]
    /\ UNCHANGED <<wvars, dir, whole, outf, stage, claimed, got, lost, crashes>>

\* The rename fails with another error; the file of dir/ is to be unlinked.
Refused(r) ==
    /\ stage[r] = "idle" /\ chosen[r] \in Present
    /\ stage' = [stage EXCEPT ![r] = "refused"]
    /\ UNCHANGED <<wvars, dir, whole, chosen, outf, claimed, got, lost, crashes>>

\* unlink dir/name: whatever has that name by now.
UnlinkRefused(r) ==
    LET n == chosen[r]
    IN  /\ stage[r] = "refused"
        /\ dir' = [dir EXCEPT ![n] = None]
        /\ lost' = lost \cup ({dir[n]} \ {None})
        /\ chosen' = [chosen EXCEPT ![r] = None]
        /\ stage' = [stage EXCEPT ![r] = "idle"]
        /\ UNCHANGED <<wvars, whole, outf, claimed, got, crashes>>

\* The contents are in memory.
ReadOut(r) ==
    /\ stage[r] = "reading"
    /\ stage' = [stage EXCEPT ![r] = "removing"]
    /\ UNCHANGED <<wvars, dir, whole, chosen, outf, claimed, got, lost, crashes>>

\* Mutant: a read error ends the reader's loop.
Mut_FailRead(r) ==
    /\ stage[r] \in {"reading", "removing"}
    /\ outf' = [outf EXCEPT ![r] = None]
    /\ stage' = [stage EXCEPT ![r] = "ended"]
    /\ UNCHANGED <<wvars, dir, whole, chosen, claimed, got, lost, crashes>>

\* A read error unlinks the file, a failed unlink leaves it in out/, where
\* nobody looks: the caller gets an error.
FailRead(r) ==
    /\ stage[r] \in {"reading", "removing"}
    /\ outf' = [outf EXCEPT ![r] = None]
    /\ stage' = [stage EXCEPT ![r] = "idle"]
    /\ UNCHANGED <<wvars, dir, whole, chosen, claimed, got, lost, crashes>>

\* unlink out/<uniq>name; the caller gets the contents.
Remove(r) ==
    /\ stage[r] = "removing"
    /\ got' = got \cup {outf[r]}
    /\ outf' = [outf EXCEPT ![r] = None]
    /\ stage' = [stage EXCEPT ![r] = "idle"]
    /\ UNCHANGED <<wvars, dir, whole, chosen, claimed, lost, crashes>>

-----------------------------------------------------------------------------
(* A process dies and is started again under another pid: nothing ever     *)
(* looks at the files its predecessor left in in/ and out/.                *)
CrashWriter(w) ==
    /\ crashes < MaxCrashes /\ inf[w] # None
    /\ crashes' = crashes + 1
    /\ inf' = [inf EXCEPT ![w] = None]
    /\ UNCHANGED <<full, dir, whole, rvars, claimed, got, lost>>

CrashReader(r) ==
    /\ crashes < MaxCrashes
    /\ stage[r] # "idle" \/ chosen[r] # None
    /\ crashes' = crashes + 1
    /\ outf' = [outf EXCEPT ![r] = None]
    /\ chosen' = [chosen EXCEPT ![r] = None]
    /\ stage' = [stage EXCEPT ![r] = "idle"]
    /\ UNCHANGED <<wvars, dir, whole, claimed, got, lost>>

WriterStep(w) == FillIn(w) \/ FailWrite(w) \/ Publish(w) \/ CrashWriter(w)

ReaderStep(r) ==
    \/ Scan(r) \/ Grab(r) \/ Miss(r) \/ Refused(r) \/ UnlinkRefused(r)
    \/ ReadOut(r) \/ FailRead(r) \/ Remove(r) \/ CrashReader(r)

Next ==
    \/ \E w \in Writers, x \in Packets : OpenIn(w, x)
    \/ \E w \in Writers : WriterStep(w)
    \/ \E r \in Readers : ReaderStep(r)

Spec == Init /\ [][Next]_vars

(***************************************************************************)
(* Every reader scans its spool in an endless loop (do_loop of compile.c   *)
(* and run.c, ns_loop_callback of the contest server), and a read that was *)
(* begun runs to its end, with success or not, unless the process dies.    *)
(* Nothing is assumed of the writers.                                      *)
(***************************************************************************)
Reading(r) ==
    \/ Scan(r) \/ Grab(r) \/ Miss(r) \/ Refused(r) \/ UnlinkRefused(r)
    \/ ReadOut(r) \/ FailRead(r) \/ Remove(r)

FairSpec == Spec /\ \A r \in Readers : WF_vars(Reading(r))

-----------------------------------------------------------------------------
(***************************************************************************)
(* A file that a reader can see in dir/ is complete, whenever its writer   *)
(* fails or dies: the rename publishes the whole packet or nothing.        *)
(***************************************************************************)
NothingTorn == Present \subseteq whole

(***************************************************************************)
(* The packet in a reader's hands is in nobody else's: two readers that    *)
(* got the same name from scan_dir never both read the packet, and a       *)
(* claimed packet is out of dir/ for good.                                 *)
(***************************************************************************)
ClaimedOnce ==
    /\ \A q, r \in Readers : outf[r] # None =>
          /\ outf[r] \in claimed \ got
          /\ q # r => outf[q] # outf[r]
    /\ claimed \cap (InIn \cup InDir \cup lost) = {}
    /\ got \subseteq claimed

(***************************************************************************)
(* Every packet that reached dir/ leaves it: among finitely many packets   *)
(* no rank starves another, and a reader that misses a file or cannot read *)
(* one goes on.                                                            *)
(***************************************************************************)
EveryPacketLeaves ==
    \A n \in Names : \A x \in Packets : (dir[n] = x) ~> (dir[n] # x)

(***************************************************************************)
(* The spool is the queue that its users expect: the files of dir/ wait,   *)
(* and a packet is taken when its rename to out/ succeeds.                 *)
(***************************************************************************)
Queue == INSTANCE PacketQueue WITH
    pending <- InDir,
    taken <- claimed,
    lost <- lost

IsQueue == Queue!Spec
=============================================================================

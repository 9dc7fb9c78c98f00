-------------------------- MODULE RunControlProofs --------------------------
(***************************************************************************)
(* super-serve knows its children and notices packets, for every number of *)
(* contests, processes, packets, faults and commands.                      *)
(*                                                                         *)
(* Bound, the inductive invariant, adds to the types that a process not    *)
(* yet reaped tests for a contest that knows it.  Attended adds that a     *)
(* suspended contest has no server and keeps its flag, which is why events *)
(* about it may be forgotten.                                              *)
(***************************************************************************)
EXTENDS RunControl, FiniteSetTheorems, TLAPS

Bound ==
    /\ TypeOK
    /\ \A c \in Contests : queue[c] <= written
    /\ \A p \in Pids : stat[p] # "free" => of[p] \in Contests /\ pid[of[p]] = p
    /\ \A c \in Contests : pid[c] # None =>
          stat[pid[c]] # "free" /\ of[pid[c]] = c
    /\ phase = "release" => victim \in Contests
    /\ phase = "ended" => NoChildren

Attended ==
    /\ PacketsNoticed
    /\ phase \notin {"stop", "ended"} =>
          \A c \in suspended : pid[c] = None /\ c \in flag

LEMMA BoundInit == Init => Bound
<1> SUFFICES ASSUME Init PROVE Bound
  OBVIOUS
<1>1. TypeOK
  <2>1. /\ phase \in Phases /\ victim \in Contests \cup {None}
        /\ pid \in [Contests -> Pids \cup {None}]
        /\ stat \in [Pids -> ProcStates] /\ of \in [Pids -> Contests \cup {None}]
    BY DEF Init, Phases, ProcStates
  <2>2. /\ left \in [Contests -> 0 .. Suspend + 1]
        /\ queue \in [Contests -> 0 .. MaxPackets]
    BY RunControlAssumption DEF Init
  <2>3. /\ since \in 0 .. Interval + 1 /\ written \in 0 .. MaxPackets
        /\ faults \in 0 .. MaxFaults /\ commands \in 0 .. MaxCommands
    BY RunControlAssumption DEF Init
  <2> QED
    BY <2>1, <2>2, <2>3 DEF Init, TypeOK
<1> QED
  BY <1>1, RunControlAssumption DEF Init, Bound, NoChildren

\* SIGTERM turns servers at work into leaving ones and frees no process.
LEMMA KillKeeps ==
    ASSUME NEW cs, Kill(cs), TypeOK
    PROVE  /\ stat' \in [Pids -> ProcStates]
           /\ \A p \in Pids : stat'[p] = "free" <=> stat[p] = "free"
BY DEF Kill, TypeOK, ProcStates

\* What is left when the children that ended were reaped: they are known to
\* nobody, and the others as before.
LEMMA AfterReaping ==
    ASSUME Bound
    PROVE  /\ PidAfter \in [Contests -> Pids \cup {None}]
           /\ StatAfter \in [Pids -> ProcStates]
           /\ \A p \in Pids : StatAfter[p] # "free" =>
                 of[p] \in Contests /\ PidAfter[of[p]] = p
           /\ \A c \in Contests : PidAfter[c] # None =>
                 StatAfter[PidAfter[c]] # "free" /\ of[PidAfter[c]] = c
<1>1. Gone \subseteq Pids
  BY DEF Gone, Zombies
<1>2. PidAfter \in [Contests -> Pids \cup {None}]
  BY DEF Bound, TypeOK, PidAfter
<1>3. StatAfter \in [Pids -> ProcStates]
  BY DEF Bound, TypeOK, StatAfter, ProcStates
<1>4. ASSUME NEW p \in Pids, StatAfter[p] # "free"
      PROVE  of[p] \in Contests /\ PidAfter[of[p]] = p
  <2>1. p \notin Gone /\ stat[p] # "free"
    BY <1>4 DEF StatAfter, Gone
  <2>2. of[p] \in Contests /\ pid[of[p]] = p
    BY <2>1 DEF Bound
  <2> QED
    BY <2>1, <2>2 DEF PidAfter, Ended
<1>5. ASSUME NEW c \in Contests, PidAfter[c] # None
      PROVE  StatAfter[PidAfter[c]] # "free" /\ of[PidAfter[c]] = c
  <2>1. c \notin Ended /\ PidAfter[c] = pid[c]
    BY <1>5 DEF PidAfter
  <2>2. pid[c] \in Pids /\ pid[c] \notin Gone
    BY <1>5, <2>1 DEF Bound, TypeOK, Ended
  <2> QED
    BY <1>5, <2>1, <2>2 DEF Bound, StatAfter
<1> QED
  BY <1>2, <1>3, <1>4, <1>5

(***************************************************************************)
(* start_run gives each contest that needs a server a process of its own.  *)
(***************************************************************************)
LEMMA PollKeepsBound == Bound /\ Poll => Bound'
<1> SUFFICES ASSUME Bound, Poll PROVE Bound'
  OBVIOUS
<1> DEFINE wanted == Noticed \cap Startable
           begun == wanted \ fresh
           hasty == wanted \cap fresh
<1>1. PICK new \in Forked(begun) :
        LET failed == {c \in begun : new[c] = None}
            of1(p) == {c \in begun \ failed : new[c] = p}
        IN  /\ faults + Cardinality(failed) <= MaxFaults
            /\ faults' = faults + Cardinality(failed)
            /\ missed' = (missed \ (begun \cup Ended)) \cup failed
            /\ pid' = [c \in Contests |->
                          IF c \in begun THEN new[c] ELSE PidAfter[c]]
            /\ stat' = [p \in Pids |->
                           IF of1(p) # {} THEN "begun" ELSE StatAfter[p]]
            /\ of' = [p \in Pids |->
                         IF of1(p) # {} THEN CHOOSE c \in of1(p) : TRUE
                         ELSE of[p]]
  BY Zenon DEF Poll
<1> DEFINE failed == {c \in begun : new[c] = None}
           of1(p) == {c \in begun \ failed : new[c] = p}
<1>2. /\ begun \subseteq Contests
      /\ \A c \in begun : PidAfter[c] = None
  BY DEF Startable
<1>3. /\ new \in [begun -> {p \in Pids : StatAfter[p] = "free"} \cup {None}]
      /\ \A c, d \in begun : new[c] = new[d] /\ new[c] # None => c = d
  BY DEF Forked
<1>4. \A p \in Pids : /\ of1(p) = {} <=> ~\E c \in begun : new[c] = p
                      /\ \A c \in begun : new[c] = p => of1(p) = {c}
  BY <1>3, RunControlAssumption
<1>5. \A p \in Pids : \A c \in begun : new[c] = p =>
         stat'[p] = "begun" /\ of'[p] = c /\ StatAfter[p] = "free"
  <2> TAKE p \in Pids
  <2> TAKE c \in begun
  <2> HAVE new[c] = p
  <2>1. of1(p) = {c}
    BY <1>4
  <2>2. of'[p] = CHOOSE d \in {c} : TRUE
    BY <1>1, <2>1
  <2>3. StatAfter[p] = "free"
    BY <1>3, RunControlAssumption
  <2> QED
    BY <1>1, <2>1, <2>2, <2>3
<1>6. \A p \in Pids : (~\E c \in begun : new[c] = p) =>
         stat'[p] = StatAfter[p] /\ of'[p] = of[p]
  BY <1>1, <1>4
<1>7. pid' = [c \in Contests |-> IF c \in begun THEN new[c] ELSE PidAfter[c]]
  BY <1>1
<1>8. TypeOK'
  <2>1. pid' \in [Contests -> Pids \cup {None}]
    BY <1>3, <1>7, AfterReaping
  <2>2. /\ stat' \in [Pids -> ProcStates]
        /\ of' \in [Pids -> Contests \cup {None}]
    <3>1. DOMAIN stat' = Pids /\ DOMAIN of' = Pids
          /\ stat' = [p \in Pids |-> stat'[p]] /\ of' = [p \in Pids |-> of'[p]]
      BY <1>1
    <3>2. ASSUME NEW p \in Pids
          PROVE  stat'[p] \in ProcStates /\ of'[p] \in Contests \cup {None}
      <4>1. CASE \E c \in begun : new[c] = p
        BY <1>2, <1>5, <4>1 DEF ProcStates
      <4>2. CASE ~\E c \in begun : new[c] = p
        BY <1>6, <4>2, AfterReaping DEF Bound, TypeOK
      <4> QED
        BY <4>1, <4>2
    <3> QED
      BY <3>1, <3>2
  <2>3. faults' \in 0 .. MaxFaults
    <3>1. IsFiniteSet(failed)
      BY <1>2, FS_Subset, RunControlAssumption
    <3>2. Cardinality(failed) \in Nat
      BY <3>1, FS_CardinalityType
    <3> QED
      BY <1>1, <3>2, RunControlAssumption DEF Bound, TypeOK
  <2>4. missed' \subseteq Contests
    BY <1>1, <1>2 DEF Bound, TypeOK
  <2>5. flag' \subseteq Contests /\ suspended' \subseteq Contests
        /\ fresh' \subseteq Contests
    BY <1>2 DEF Poll, Bound, TypeOK, Noticed, FlagAfter, Ended, Startable
  <2>6. left' \in [Contests -> 0 .. Suspend + 1]
    BY RunControlAssumption DEF Poll, Bound, TypeOK
  <2>7. /\ phase' = "commands" /\ chld' = FALSE /\ events' = {}
        /\ UNCHANGED <<victim, watch, since, term, queue, written, commands>>
    BY DEF Poll
  <2> QED
    BY <2>1, <2>2, <2>3, <2>4, <2>5, <2>6, <2>7 DEF Bound, TypeOK, Phases
<1>9. ASSUME NEW p \in Pids, stat'[p] # "free"
      PROVE  of'[p] \in Contests /\ pid'[of'[p]] = p
  <2>1. CASE \E c \in begun : new[c] = p
    BY <1>2, <1>5, <1>7, <2>1
  <2>2. CASE ~\E c \in begun : new[c] = p
    <3>1. of'[p] = of[p] /\ of[p] \in Contests /\ PidAfter[of[p]] = p
      BY <1>6, <1>9, <2>2, AfterReaping
    <3>2. of[p] \notin begun
      BY <1>2, <3>1, RunControlAssumption
    <3> QED
      BY <1>7, <3>1, <3>2
  <2> QED
    BY <2>1, <2>2
<1>10. ASSUME NEW c \in Contests, pid'[c] # None
       PROVE  stat'[pid'[c]] # "free" /\ of'[pid'[c]] = c
  <2>1. CASE c \in begun
    BY <1>3, <1>5, <1>7, <1>10, <2>1
  <2>2. CASE c \notin begun
    <3>1. pid'[c] = PidAfter[c] /\ PidAfter[c] \in Pids
      BY <1>7, <1>10, <2>2, AfterReaping
    <3>2. StatAfter[pid'[c]] # "free" /\ of[pid'[c]] = c
      BY <1>10, <3>1, AfterReaping
    <3>3. ~\E d \in begun : new[d] = pid'[c]
      BY <1>5, <3>1, <3>2
    <3> QED
      BY <1>6, <3>1, <3>2, <3>3
  <2> QED
    BY <2>1, <2>2
<1> QED
  BY <1>8, <1>9, <1>10 DEF Poll, Bound

\* release_contest_resources reaps the server of the contest and no other.
LEMMA ReacquireKeepsBound == Bound /\ Reacquire => Bound'
<1> SUFFICES ASSUME Bound, Reacquire PROVE Bound'
  OBVIOUS
<1>1. victim \in Contests
  BY DEF Bound, Reacquire
<1>2. /\ stat' = [p \in Pids |->
                   IF stat[p] = "zombie" /\ p = pid[victim] THEN "free" ELSE stat[p]]
      /\ pid' = [pid EXCEPT ![victim] = None]
      /\ of' = of /\ queue' = queue /\ written' = written
      /\ phase' = "commands"
  BY DEF Reacquire, counts
<1>3. \A p \in Pids : stat'[p] # "free" => stat[p] # "free" /\ of[p] # victim
  BY <1>1, <1>2 DEF Reacquire, Finished, Bound
<1>4. TypeOK'
  <2>1. /\ pid' \in [Contests -> Pids \cup {None}]
        /\ stat' \in [Pids -> ProcStates]
    BY <1>2 DEF Bound, TypeOK, ProcStates
  <2>2. /\ flag' \subseteq Contests /\ suspended' \subseteq Contests
        /\ fresh' \subseteq Contests /\ missed' \subseteq Contests
        /\ watch' \in BOOLEAN /\ events' \subseteq Contests
    BY <1>1 DEF Reacquire, Unwatch, Bound, TypeOK
  <2>3. left' \in [Contests -> 0 .. Suspend + 1]
    BY RunControlAssumption DEF Reacquire, Bound, TypeOK
  <2> QED
    BY <2>1, <2>2, <2>3 DEF Reacquire, counts, Bound, TypeOK, Phases
<1>5. \A p \in Pids : stat'[p] # "free" => of'[p] \in Contests /\ pid'[of'[p]] = p
  BY <1>2, <1>3 DEF Bound, TypeOK
<1>6. \A c \in Contests : pid'[c] # None =>
         stat'[pid'[c]] # "free" /\ of'[pid'[c]] = c
  <2> SUFFICES ASSUME NEW c \in Contests, pid'[c] # None
               PROVE  stat'[pid'[c]] # "free" /\ of'[pid'[c]] = c
    OBVIOUS
  <2>1. c # victim /\ pid'[c] = pid[c] /\ pid[c] \in Pids
    BY <1>1, <1>2 DEF Bound, TypeOK
  <2>2. stat[pid[c]] # "free" /\ of[pid[c]] = c
    BY <2>1 DEF Bound
  <2>3. pid[c] # pid[victim]
    BY <1>1, <2>1, <2>2, RunControlAssumption DEF Bound, TypeOK
  <2> QED
    BY <1>2, <2>1, <2>2, <2>3
<1> QED
  BY <1>2, <1>4, <1>5, <1>6 DEF Bound

\* The other steps of super-serve reap whoever ended or send signals.
LEMMA ServerKeepsBound == Bound /\ Server => Bound'
<1> SUFFICES ASSUME Bound, Server PROVE Bound'
  OBVIOUS
<1> USE DEF Bound
<1>1. CASE Top
  <2>1. TypeOK'
    <3>1. /\ flag' \subseteq Contests /\ suspended' \subseteq Contests
          /\ missed' \subseteq Contests /\ since' \in 0 .. Interval + 1
      BY <1>1, RunControlAssumption DEF Top, TypeOK, Scanned, Waiting
    <3> QED
      BY <1>1, <3>1 DEF Top, TypeOK, Phases, procs, counts
  <2> QED
    BY <1>1, <2>1 DEF Top, procs, counts
<1>2. CASE Poll
  BY <1>2, PollKeepsBound
<1>3. CASE PollTerm
  <2>1. flag' \subseteq Contests
    BY <1>3 DEF PollTerm, TypeOK, FlagAfter, Ended
  <2>2. TypeOK'
    BY <1>3, <2>1, AfterReaping DEF PollTerm, TypeOK, Phases, counts
  <2> QED
    BY <1>3, <2>2, AfterReaping DEF PollTerm, counts
<1>4. CASE Reacquire
  BY <1>4, ReacquireKeepsBound
<1>5. CASE PassEnds
  BY <1>5 DEF PassEnds, TypeOK, Phases, own, procs, counts
<1>6. CASE Break
  <2>1. /\ stat' \in [Pids -> ProcStates]
        /\ \A p \in Pids : stat'[p] = "free" <=> stat[p] = "free"
    BY <1>6, KillKeeps DEF Break
  <2>2. TypeOK'
    BY <1>6, <2>1 DEF Break, TypeOK, Phases, own, counts
  <2> QED
    BY <1>6, <2>1, <2>2 DEF Break, TypeOK, own, counts
<1>7. CASE Reap
  <2>1. TypeOK'
    BY <1>7, AfterReaping DEF Reap, TypeOK, counts
  <2> QED
    BY <1>7, <2>1, AfterReaping DEF Reap, counts
<1>8. CASE End
  BY <1>8 DEF End, TypeOK, Phases, NoChildren, own, procs, counts
<1> QED
  BY <1>1, <1>2, <1>3, <1>4, <1>5, <1>6, <1>7, <1>8 DEF Server

-----------------------------------------------------------------------------
\* Commands signal servers, and change nothing of who tests for whom.
LEMMA CommandKeepsBound ==
    ASSUME Bound, NEW c \in Contests, MngTerm(c) \/ ResetError(c) \/ Restart(c)
    PROVE  Bound'
<1> USE DEF Bound
<1>1. commands' \in 0 .. MaxCommands
  BY RunControlAssumption DEF MngTerm, ResetError, Restart, Command, TypeOK
<1>2. CASE MngTerm(c)
  <2>1. /\ stat' \in [Pids -> ProcStates]
        /\ \A p \in Pids : stat'[p] = "free" <=> stat[p] = "free"
    BY <1>2, KillKeeps DEF MngTerm
  <2>2. TypeOK'
    BY <1>1, <1>2, <2>1 DEF MngTerm, Command, Unwatch, TypeOK, own
  <2> QED
    BY <1>2, <2>1, <2>2 DEF MngTerm, Command, TypeOK, own
<1>3. CASE ResetError(c)
  <2>1. left' \in [Contests -> 0 .. Suspend + 1]
    BY <1>3, RunControlAssumption DEF ResetError, TypeOK
  <2>2. TypeOK'
    BY <1>1, <1>3, <2>1 DEF ResetError, Command, Unwatch, TypeOK, procs
  <2> QED
    BY <1>3, <2>2 DEF ResetError, Command, procs
<1>4. CASE Restart(c)
  <2>1. /\ stat' \in [Pids -> ProcStates]
        /\ \A p \in Pids : stat'[p] = "free" <=> stat[p] = "free"
    BY <1>4, KillKeeps DEF Restart
  <2>2. TypeOK'
    BY <1>1, <1>4, <2>1 DEF Restart, Command, TypeOK, Phases, own
  <2> QED
    BY <1>4, <2>1, <2>2 DEF Restart, Command, TypeOK, own
<1> QED
  BY <1>2, <1>3, <1>4

\* Nobody but super-serve frees a process, and only those it has begun move.
LEMMA ProcessKeepsBound ==
    ASSUME Bound, NEW p \in Pids, Process(p) \/ Die(p)
    PROVE  Bound'
<1> USE DEF Bound
<1>1. stat[p] # "free" /\ of[p] \in Contests /\ phase # "ended"
  <2>1. stat[p] # "free"
    BY DEF Process, Exec, Take, GoIdle, Exit, Die
  <2> QED
    BY <2>1, RunControlAssumption DEF NoChildren
<1>2. CASE Take(p)
  <2>1. queue[of[p]] \in 1 .. MaxPackets
    <3>1. queue[of[p]] > 0
      BY <1>2 DEF Take
    <3>2. queue[of[p]] \in 0 .. MaxPackets
      BY <1>1 DEF TypeOK
    <3> QED
      BY <3>1, <3>2, RunControlAssumption
  <2>2. queue' = [queue EXCEPT ![of[p]] = @ - 1]
    BY <1>2 DEF Take
  <2>3. queue' \in [Contests -> 0 .. MaxPackets]
    BY <1>1, <2>1, <2>2, RunControlAssumption DEF TypeOK
  <2>4. \A c \in Contests : queue'[c] <= queue[c]
    BY <1>1, <2>1, <2>2, RunControlAssumption DEF TypeOK
  <2>5. TypeOK'
    BY <1>2, <2>3 DEF Take, TypeOK, own, procs, counts
  <2>6. written' = written /\ written \in Nat
    <3>1. written \in 0 .. MaxPackets
      BY DEF TypeOK
    <3>2. written' = written
      BY <1>2 DEF Take, counts
    <3> QED
      BY <3>1, <3>2, RunControlAssumption
  <2>7. \A c \in Contests : queue'[c] <= written'
    BY <2>1, <2>3, <2>4, <2>6, RunControlAssumption DEF TypeOK
  <2> QED
    BY <1>2, <2>5, <2>7 DEF Take, own, procs, NoChildren
<1>3. CASE ~Take(p)
  <2>1. /\ stat' \in [Pids -> ProcStates]
        /\ \A q \in Pids : stat'[q] = "free" <=> stat[q] = "free"
    BY <1>1, <1>3 DEF Process, Exec, GoIdle, Exit, Die, TypeOK, ProcStates
  <2>2. faults' \in 0 .. MaxFaults
    <3>1. \/ faults' = faults
          \/ faults < MaxFaults /\ faults' = faults + 1
      BY <1>3 DEF Process, Exec, GoIdle, Exit, Die, counts
    <3>2. faults \in 0 .. MaxFaults
      BY DEF TypeOK
    <3> QED
      BY <3>1, <3>2, RunControlAssumption
  <2>3. chld' \in BOOLEAN
    BY <1>3 DEF Process, Exec, GoIdle, Exit, Die, TypeOK
  <2>4. /\ UNCHANGED <<phase, victim, watch, events, since, term, of, queue, missed>>
        /\ UNCHANGED <<pid, flag, suspended, left, fresh, written, commands>>
    BY <1>3 DEF Process, Exec, GoIdle, Exit, Die, own, counts
  <2>5. TypeOK'
    BY <2>1, <2>2, <2>3, <2>4 DEF TypeOK
  <2> QED
    BY <2>1, <2>4, <2>5 DEF NoChildren, TypeOK
<1> QED
  BY <1>2, <1>3

\* What comes from outside
LEMMA OutsideKeepsBound ==
    ASSUME Bound, StopCommand \/ Signal \/ Tick \/ \E c \in Contests : Arrive(c)
    PROVE  Bound'
<1> USE DEF Bound
<1>1. CASE StopCommand \/ Signal
  <2>1. /\ term' = TRUE
        /\ UNCHANGED <<phase, victim, watch, events, since, queue, missed>>
        /\ UNCHANGED <<own, procs, counts>>
    BY <1>1 DEF StopCommand, Signal
  <2>2. UNCHANGED <<pid, flag, suspended, left, fresh, stat, of, chld,
                    written, faults, commands>>
    BY <2>1 DEF own, procs, counts
  <2>3. TypeOK'
    BY <2>1, <2>2 DEF TypeOK
  <2> QED
    BY <2>1, <2>2, <2>3 DEF NoChildren
<1>2. CASE Tick
  <2>1. left' \in [Contests -> 0 .. Suspend + 1]
    BY <1>2, RunControlAssumption DEF Tick, TypeOK
  <2>2. since' \in 0 .. Interval + 1
    BY <1>2, RunControlAssumption DEF Tick, TypeOK
  <2> QED
    BY <1>2, <2>1, <2>2 DEF Tick, TypeOK, procs, counts, NoChildren
<1>3. ASSUME NEW c \in Contests, Arrive(c) PROVE Bound'
  <2>1. /\ queue' = [queue EXCEPT ![c] = @ + 1]
        /\ written' = written + 1 /\ written' \in 0 .. MaxPackets
    BY <1>3, RunControlAssumption DEF Arrive, TypeOK
  <2>2. \A d \in Contests : queue[d] \in Nat /\ queue[d] <= written
    BY RunControlAssumption DEF TypeOK
  <2>3. \A d \in Contests : queue'[d] \in Nat /\ queue'[d] <= written'
    BY <2>1, <2>2, RunControlAssumption DEF TypeOK
  <2>4. queue' \in [Contests -> 0 .. MaxPackets]
    BY <2>1, <2>3, RunControlAssumption DEF TypeOK
  <2>5. events' \subseteq Contests /\ missed' \subseteq Contests
    BY <1>3 DEF Arrive, TypeOK
  <2>6. TypeOK'
    BY <1>3, <2>1, <2>4, <2>5 DEF Arrive, TypeOK, own, procs
  <2> QED
    BY <1>3, <2>3, <2>6 DEF Arrive, own, procs, NoChildren
<1> QED
  BY <1>1, <1>2, <1>3

LEMMA BoundNext == Bound /\ [Next]_vars => Bound'
<1> SUFFICES ASSUME Bound, [Next]_vars PROVE Bound'
  OBVIOUS
<1>1. CASE UNCHANGED vars
  BY <1>1 DEF vars, own, procs, counts, Bound, TypeOK, NoChildren
<1>2. CASE Next
  BY <1>2, ServerKeepsBound, CommandKeepsBound, ProcessKeepsBound,
     OutsideKeepsBound DEF Next
<1> QED
  BY <1>1, <1>2

-----------------------------------------------------------------------------
(***************************************************************************)
(* Types hold, and so do the bounds on packets, faults and commands.       *)
(***************************************************************************)
THEOREM RunControlTypes == Spec => []TypeOK
<1>1. Bound => TypeOK
  BY DEF Bound
<1> QED
  BY <1>1, BoundInit, BoundNext, PTL DEF Spec

(***************************************************************************)
(* super-serve and its children know each other, whatever SIGCHLDs         *)
(* coalesce and whichever process numbers are used again (start_run,       *)
(* do_loop, release_contest_resources, release_resources).                 *)
(***************************************************************************)
THEOREM ChildrenAreKnown == Spec => []ChildrenKnown
<1>1. Bound => ChildrenKnown
  BY RunControlAssumption DEF Bound, ChildrenKnown, TypeOK, NoChildren
<1> QED
  BY <1>1, BoundInit, BoundNext, PTL DEF Spec

-----------------------------------------------------------------------------
\* Poll reads all events: those it forgets are of contests with a server or
\* of suspended ones, which keep their flag.
LEMMA PollKeepsAttended == Bound /\ Attended /\ Poll => Attended'
<1> SUFFICES ASSUME Bound, Attended, Poll PROVE Attended'
  OBVIOUS
<1> DEFINE wanted == Noticed \cap Startable
           begun == wanted \ fresh
           hasty == wanted \cap fresh
<1>1. PICK new \in Forked(begun) :
        /\ missed' = (missed \ (begun \cup Ended)) \cup {c \in begun : new[c] = None}
        /\ pid' = [c \in Contests |-> IF c \in begun THEN new[c] ELSE PidAfter[c]]
  BY Zenon DEF Poll
<1>2. /\ phase = "poll" /\ phase' = "commands"
      /\ flag' = Noticed \ begun /\ suspended' = suspended \cup hasty
      /\ queue' = queue
  BY DEF Poll
<1>3. \A c \in suspended : pid[c] = None /\ c \in flag /\ c \in Contests
  BY <1>2 DEF Attended, Bound, TypeOK
<1>4. \A c \in suspended : c \notin Ended
  BY <1>3, RunControlAssumption DEF Ended, Gone, Zombies
<1>5. ASSUME NEW c \in suspended' PROVE pid'[c] = None /\ c \in flag'
  <2>1. CASE c \in suspended
    BY <1>1, <1>2, <1>3, <1>4, <2>1 DEF PidAfter, Startable, Noticed, FlagAfter
  <2>2. CASE c \in hasty
    BY <1>1, <1>2, <2>2 DEF Startable
  <2> QED
    BY <1>2, <1>5, <2>1, <2>2
<1>6. ASSUME NEW c \in (Waiting' \cap Idle') \ missed' PROVE c \in flag'
  <2>1. c \in Contests /\ c \in Waiting /\ pid'[c] = None /\ c \notin begun
    BY <1>1, <1>2, <1>6 DEF Waiting, Idle
  <2>2. PidAfter[c] = None
    BY <1>1, <2>1
  <2>3. CASE c \in Ended
    BY <1>2, <2>1, <2>3 DEF Noticed, FlagAfter
  <2>4. CASE c \notin Ended
    <3>1. c \in Idle /\ c \notin missed
      BY <1>1, <1>6, <2>1, <2>2, <2>4 DEF PidAfter, Idle
    <3>2. c \in flag \cup events
      BY <1>2, <2>1, <3>1 DEF Attended, PacketsNoticed
    <3>3. c \in Startable \/ c \in suspended
      BY <2>1, <2>2 DEF Startable
    <3> QED
      BY <1>2, <1>3, <2>1, <2>4, <3>2, <3>3 DEF Noticed, FlagAfter
  <2> QED
    BY <2>3, <2>4
<1> QED
  BY <1>2, <1>5, <1>6 DEF Attended, PacketsNoticed

\* Reaping, in PollTerm: the queue of a contest whose server ended is looked
\* at, so that the packet which came after its last scan is seen.
LEMMA PollTermKeepsAttended == Bound /\ Attended /\ PollTerm => Attended'
<1> SUFFICES ASSUME Bound, Attended, PollTerm PROVE Attended'
  OBVIOUS
<1>1. /\ phase = "poll" /\ phase' = "top"
      /\ pid' = PidAfter /\ flag' = FlagAfter
      /\ UNCHANGED <<suspended, events, missed, queue>>
  BY DEF PollTerm, counts
<1>2. \A c \in suspended : c \in Contests /\ pid[c] = None /\ c \in flag /\ c \notin Ended
  BY <1>1, RunControlAssumption DEF Attended, Bound, TypeOK, Ended, Gone, Zombies
<1>3. \A c \in suspended' : pid'[c] = None /\ c \in flag'
  BY <1>1, <1>2 DEF PidAfter, FlagAfter
<1>4. ASSUME NEW c \in (Waiting' \cap Idle') \ missed' PROVE c \in flag' \cup events'
  <2>1. c \in Contests /\ c \in Waiting /\ PidAfter[c] = None /\ c \notin missed
    BY <1>1, <1>4 DEF Waiting, Idle
  <2>2. CASE c \in Ended
    BY <1>1, <2>1, <2>2 DEF FlagAfter
  <2>3. CASE c \notin Ended
    <3>1. c \in Idle
      BY <2>1, <2>3 DEF PidAfter, Idle
    <3>2. c \in flag \cup events
      BY <1>1, <2>1, <3>1 DEF Attended, PacketsNoticed
    <3> QED
      BY <1>1, <2>3, <3>2 DEF FlagAfter
  <2> QED
    BY <2>2, <2>3
<1> QED
  BY <1>1, <1>3, <1>4 DEF Attended, PacketsNoticed

\* Commands lose events and say so in missed; a restart looks at the queue.
LEMMA CommandKeepsAttended ==
    ASSUME Bound, Attended,
           \/ Reacquire
           \/ \E c \in Contests : MngTerm(c) \/ ResetError(c) \/ Restart(c)
    PROVE  Attended'
<1>1. CASE Reacquire
  <2>1. victim \in Contests
    BY <1>1 DEF Bound, Reacquire
  <2>2. /\ phase = "release" /\ phase' = "commands"
        /\ pid' = [pid EXCEPT ![victim] = None]
        /\ flag' = (flag \ {victim}) \cup ({victim} \cap Waiting)
        /\ suspended' = suspended \ {victim}
        /\ missed' = (missed \cup events) \ {victim} /\ queue' = queue
    BY <1>1 DEF Reacquire
  <2>3. \A c \in Contests : c # victim => pid'[c] = pid[c]
    BY <2>1, <2>2 DEF Bound, TypeOK
  <2>4. \A c \in suspended : c \in Contests /\ pid[c] = None /\ c \in flag
    BY <2>2 DEF Attended, Bound, TypeOK
  <2>5. \A c \in suspended' : pid'[c] = None /\ c \in flag'
    BY <2>2, <2>3, <2>4
  <2>6. ASSUME NEW c \in (Waiting' \cap Idle') \ missed' PROVE c \in flag'
    <3>1. c \in Waiting /\ c \in Contests
      BY <2>2, <2>6 DEF Waiting
    <3>2. CASE c = victim
      BY <2>2, <3>1, <3>2
    <3>3. CASE c # victim
      BY <2>2, <2>3, <2>6, <3>1, <3>3 DEF Attended, PacketsNoticed, Idle
    <3> QED
      BY <3>2, <3>3
  <2> QED
    BY <2>2, <2>5, <2>6 DEF Attended, PacketsNoticed
<1>2. ASSUME NEW c \in Contests, MngTerm(c) \/ ResetError(c) \/ Restart(c)
      PROVE  Attended'
  <2>1. /\ phase = "commands"
        /\ UNCHANGED <<pid, flag, suspended, queue>>
        /\ events \subseteq events' \cup missed' /\ missed \subseteq missed'
    BY <1>2 DEF MngTerm, ResetError, Restart, Command, Unwatch, own, procs
  <2> QED
    BY <2>1 DEF Attended, PacketsNoticed, Waiting, Idle
<1> QED
  BY <1>1, <1>2

LEMMA AttendedNext == Bound /\ Attended /\ [Next]_vars => Attended'
<1> SUFFICES ASSUME Bound, Attended, [Next]_vars PROVE Attended'
  OBVIOUS
<1> USE DEF Attended, PacketsNoticed, Waiting, Idle
<1>1. CASE UNCHANGED vars
  BY <1>1 DEF vars, own
<1>2. CASE Top
  <2>1. /\ phase = "top" /\ flag \subseteq flag' /\ suspended' \subseteq suspended
        /\ missed \subseteq missed' \cup flag'
        /\ UNCHANGED <<pid, events, queue>>
    BY <1>2 DEF Top
  <2> QED
    BY <2>1
<1>3. CASE Poll
  BY <1>3, PollKeepsAttended
<1>4. CASE PollTerm
  BY <1>4, PollTermKeepsAttended
<1>5. CASE PassEnds \/ StopCommand
  BY <1>5 DEF PassEnds, StopCommand, own
<1>6. CASE Break \/ Reap \/ End
  BY <1>6 DEF Break, Reap, End
<1>7. CASE \/ Reacquire
           \/ \E c \in Contests : MngTerm(c) \/ ResetError(c) \/ Restart(c)
  BY <1>7, CommandKeepsAttended
<1>8. ASSUME NEW c \in Contests, Arrive(c) PROVE Attended'
  <2>1. /\ UNCHANGED <<phase, pid, flag, suspended>>
        /\ events \subseteq events' /\ missed \subseteq missed'
        /\ c \in events' \cup missed'
        /\ queue' = [queue EXCEPT ![c] = @ + 1]
    BY <1>8 DEF Arrive, own
  <2>2. \A d \in Contests : d # c => queue'[d] = queue[d]
    BY <2>1 DEF Bound, TypeOK
  <2> QED
    BY <2>1, <2>2
<1>9. ASSUME NEW p \in Pids, Process(p) \/ Die(p) PROVE Attended'
  <2>1. UNCHANGED <<phase, pid, flag, suspended, events, missed>>
    BY <1>9 DEF Process, Exec, Take, GoIdle, Exit, Die, own
  <2>2. \A c \in Contests : queue'[c] > 0 => queue[c] > 0
    <3>1. CASE Take(p)
      <4>1. queue' = [queue EXCEPT ![of[p]] = @ - 1] /\ queue[of[p]] > 0
        BY <3>1 DEF Take
      <4>2. queue \in [Contests -> 0 .. MaxPackets]
        BY DEF Bound, TypeOK
      <4> QED
        BY <4>1, <4>2
    <3>2. CASE ~Take(p)
      BY <1>9, <3>2 DEF Process, Exec, GoIdle, Exit, Die
    <3> QED
      BY <3>1, <3>2
  <2> QED
    BY <2>1, <2>2
<1>10. CASE Signal \/ Tick
  BY <1>10 DEF Signal, Tick, own
<1> QED
  BY <1>1, <1>2, <1>3, <1>4, <1>5, <1>6, <1>7, <1>8, <1>9, <1>10 DEF Next, Server

(***************************************************************************)
(* A packet that waits in the queue of a contest without a server is       *)
(* noticed, unless its event was lost or fork failed: also the one that    *)
(* comes between the last scan of a server and its end (do_loop,           *)
(* handle_inotify_read, contest_mngmt_cmd).                                *)
(***************************************************************************)
THEOREM PacketsAreNoticed == Spec => []PacketsNoticed
<1>1. Init => Attended
  BY DEF Init, Attended, PacketsNoticed, Waiting
<1>2. Attended => PacketsNoticed
  BY DEF Attended
<1> QED
  BY <1>1, <1>2, BoundInit, BoundNext, AttendedNext, PTL DEF Spec

-----------------------------------------------------------------------------
(* What StopEnds and PacketsTaken rest on: the program never waits for a   *)
(* child without anything to wake it up.                                   *)

\* SIGCHLD is pending while there is something to reap.
Reapable == Zombies # {} => chld

LEMMA ReapableNext == Bound /\ Reapable /\ [Next]_vars => Reapable'
<1> SUFFICES ASSUME Bound, Reapable, [Next]_vars PROVE Reapable'
  OBVIOUS
<1> USE DEF Reapable, Zombies, procs
<1>1. stat \in [Pids -> ProcStates]
  BY DEF Bound, TypeOK
<1>2. \A p \in Pids : StatAfter[p] # "zombie"
  BY DEF StatAfter, Gone
<1>3. CASE UNCHANGED vars
  BY <1>3 DEF vars
<1>4. CASE Poll
  <2>1. \A p \in Pids : stat'[p] \in {"begun", StatAfter[p]}
    BY <1>4 DEF Poll
  <2> QED
    BY <1>2, <2>1
<1>5. CASE PollTerm \/ Reap
  BY <1>2, <1>5 DEF PollTerm, Reap
<1>6. ASSUME NEW cs, Kill(cs), chld' = chld PROVE Reapable'
  BY <1>1, <1>6 DEF Kill
<1>7. CASE Break \/ \E c \in Contests : MngTerm(c) \/ Restart(c)
  BY <1>6, <1>7 DEF Break, MngTerm, Restart
<1>8. CASE Reacquire
  BY <1>1, <1>8 DEF Reacquire
<1>9. CASE Top \/ PassEnds \/ End \/ StopCommand \/ Signal \/ Tick \/
           \E c \in Contests : ResetError(c) \/ Arrive(c)
  BY <1>9 DEF Top, PassEnds, End, StopCommand, Signal, Tick, ResetError, Arrive
<1>10. ASSUME NEW p \in Pids, Exec(p) \/ GoIdle(p) \/ Take(p) PROVE Reapable'
  BY <1>1, <1>10 DEF Exec, GoIdle, Take
<1>11. ASSUME NEW p \in Pids, Exit(p) \/ Die(p) PROVE Reapable'
  BY <1>11 DEF Exit, Die
<1> QED
  BY <1>3, <1>4, <1>5, <1>7, <1>8, <1>9, <1>10, <1>11
     DEF Next, Server, Process

(***************************************************************************)
(* No child that ended is forgotten, although one flag stands for any      *)
(* number of SIGCHLDs and a command reaps one child by its number: while   *)
(* there is a zombie the flag is set (do_loop, release_resources).         *)
(***************************************************************************)
THEOREM ZombiesAreReaped == Spec => []Reapable
<1>1. Init => Reapable
  BY DEF Init, Reapable, Zombies
<1> QED
  BY <1>1, BoundInit, BoundNext, ReapableNext, PTL DEF Spec

\* The ways from birth to end; none leads back.
Onward(s, t) ==
    \/ s = t
    \/ s = "begun" /\ t \in {"at work", "zombie"}
    \/ s = "at work" /\ t \in {"leaving", "zombie"}
    \/ s = "leaving" /\ t = "zombie"
    \/ s = "zombie" /\ t = "free"

\* From Break on each child only gets nearer to its end.
StopStep ==
    phase = "stop" =>
        /\ phase' \in {"stop", "ended"}
        /\ \A p \in Pids : Onward(stat[p], stat'[p])

\* And it is awaited: it lives, or its end was signalled.
StopAwaits ==
    phase = "stop" =>
        \A c \in Contests : pid[c] # None =>
            \/ stat[pid[c]] \in {"begun", "at work", "leaving"}
            \/ stat[pid[c]] = "zombie" /\ chld

LEMMA StopStepHolds == Bound /\ Next => StopStep
<1> SUFFICES ASSUME Bound, Next, phase = "stop" PROVE StopStep
  BY DEF StopStep
<1>1. stat \in [Pids -> ProcStates]
  BY DEF Bound, TypeOK
<1> USE DEF procs, Onward
<1>2. CASE stat' = stat /\ phase' \in {"stop", "ended"}
  BY <1>2 DEF StopStep
<1>3. CASE Reap
  <2>1. /\ phase' = "stop"
        /\ stat' = [p \in Pids |-> IF p \in Gone THEN "free" ELSE stat[p]]
    BY <1>3 DEF Reap, StatAfter
  <2>2. \A p \in Gone : stat[p] = "zombie"
    BY DEF Gone, Zombies
  <2> QED
    BY <2>1, <2>2 DEF StopStep
<1>4. ASSUME NEW p \in Pids, Process(p) \/ Die(p) PROVE StopStep
  <2>1. phase' = "stop"
    BY <1>4 DEF Process, Exec, Take, GoIdle, Exit, Die
  <2>2. \A q \in Pids : q # p => stat'[q] = stat[q]
    BY <1>1, <1>4 DEF Process, Exec, Take, GoIdle, Exit, Die
  <2>3. Onward(stat[p], stat'[p])
    BY <1>1, <1>4 DEF Process, Exec, Take, GoIdle, Exit, Die
  <2> QED
    BY <2>1, <2>2, <2>3 DEF StopStep
<1>5. CASE End \/ StopCommand \/ Signal \/ Tick \/ \E c \in Contests : Arrive(c)
  BY <1>2, <1>5 DEF End, StopCommand, Signal, Tick, Arrive
<1>6. CASE Top \/ Poll \/ PollTerm \/ Reacquire \/ PassEnds \/ Break \/
           \E c \in Contests : MngTerm(c) \/ ResetError(c) \/ Restart(c)
  BY <1>6 DEF Top, Poll, PollTerm, Reacquire, PassEnds, Break, MngTerm,
     ResetError, Restart, Command
<1> QED
  BY <1>3, <1>4, <1>5, <1>6 DEF Next, Server

(***************************************************************************)
(* The safety half of StopEnds: once the program has told its children to  *)
(* end it begins no other, none goes back to work that was leaving, and    *)
(* each it still counts either lives or has its SIGCHLD pending, so        *)
(* release_resources never waits for what cannot come.                     *)
(***************************************************************************)
THEOREM StopAwaitsChildren == Spec => [][StopStep]_vars /\ []StopAwaits
<1>1. Bound /\ [Next]_vars => [StopStep]_vars
  BY StopStepHolds
<1>2. Bound /\ Reapable => StopAwaits
  <2> SUFFICES ASSUME Bound, Reapable, NEW c \in Contests, pid[c] # None
               PROVE  \/ stat[pid[c]] \in {"begun", "at work", "leaving"}
                      \/ stat[pid[c]] = "zombie" /\ chld
    BY DEF StopAwaits
  <2>1. pid[c] \in Pids /\ stat[pid[c]] \in ProcStates \ {"free"}
    BY DEF Bound, TypeOK
  <2> QED
    BY <2>1 DEF ProcStates, Reapable, Zombies
<1> QED
  BY <1>1, <1>2, BoundInit, BoundNext, ZombiesAreReaped, PTL DEF Spec
=============================================================================
